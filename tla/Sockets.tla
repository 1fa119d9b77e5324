------------------------------- MODULE Sockets -------------------------------
(***************************************************************************)
(* The server side of socket_linux.c and its handle sets, with the table   *)
(* of descriptors of the process.  Two threads make the calls: an owner    *)
(* that creates, configures and destroys sockets, and a worker that waits, *)
(* accepts, reads and writes.  socket_linux.c expects them: destroying a   *)
(* socket shuts it down "to unblock read or accept in another thread".     *)
(*                                                                         *)
(* Nothing of the repository makes these calls: any order is possible in   *)
(* which the worker begins no call on a structure that has been freed.     *)
(***************************************************************************)
EXTENDS Integers, FiniteSets

CONSTANTS
    Server,     \* server socket structures, each created at most once
    Conn,       \* structures for accepted connections, likewise
    NoFile,     \* not a structure
    Fds,        \* the descriptors the process may have are 0 .. Fds - 1
    MaxBacklog  \* bound: argument of ServerSocket_setBacklog

Structure == Server \cup Conn
Fd == 0 .. Fds - 1

ASSUME SocketAssumption ==
    /\ Server \cap Conn = {}
    /\ NoFile \notin Structure
    /\ IsFiniteSet(Structure)
    /\ Fds \in Nat
    /\ MaxBacklog \in Nat

VARIABLES
    \* the kernel
    file,       \* the structure for which each descriptor was opened
    listening,  \* listen has been called on the server's socket
    pending,    \* connections waiting to be accepted
    ready,      \* a connection's data: none, some, or the end of file
    \* the structures
    life,       \* none, live, freed
    sfd,        \* self->fd
    backLog,    \* self->backLog
    \* the owner
    opc, os, ofd,       \* place, structure and local descriptor
    \* the worker
    wpc, ws, wop, wfd,  \* place, structure, system call, local descriptor
    \* the worker's handle set
    handles,    \* self->handles
    maxHandle,  \* self->maxHandle
    set,        \* the set exists
    added,      \* history: the sockets added since the set is new
    used,       \* history: the set has been waited on
    raced       \* history: a socket was destroyed while maxHandle was set to it

kernel    == <<file, listening, pending, ready>>
structs   == <<life, sfd, backLog>>
owner     == <<opc, os, ofd>>
worker    == <<wpc, ws, wop, wfd>>
handleSet == <<handles, maxHandle, set, added, used, raced>>
vars      == <<kernel, structs, owner, worker, handleSet>>

Init ==
    /\ file = [fd \in Fd |-> NoFile]
    /\ listening = [s \in Server |-> FALSE]
    /\ pending = [s \in Server |-> 0]
    /\ ready = [c \in Conn |-> "none"]
    /\ life = [x \in Structure |-> "none"]
    /\ sfd = [x \in Structure |-> -1]
    /\ backLog = [s \in Server |-> 0]
    /\ opc = "idle" /\ os = NoFile /\ ofd = -1
    /\ wpc = "idle" /\ ws = NoFile /\ wop = "accept" /\ wfd = -1
    /\ handles = {} /\ maxHandle = -1 /\ set = FALSE
    /\ added = {} /\ used = FALSE /\ raced = FALSE
------------------------------------------------------------------------------
(* The kernel and the peers, external to the repository.                   *)

\* A new descriptor is the lowest that is free.
Lowest(fd) == file[fd] = NoFile /\ \A g \in Fd : g < fd => file[g] # NoFile

Open(x) == \E fd \in Fd : file[fd] = x

\* What select calls ready: a connection to accept, data or the end of it.
Ready(x) == IF x \in Server THEN pending[x] > 0 ELSE ready[x] # "none"

PeerConnects(s) ==
    /\ Open(s) /\ listening[s]
    /\ pending[s] <= backLog[s]
    /\ pending' = [pending EXCEPT ![s] = @ + 1]
    /\ UNCHANGED <<file, listening, ready, structs, owner, worker, handleSet>>

PeerSends(c) ==
    /\ Open(c) /\ ready[c] # "end"
    /\ \E r \in {"some", "end"} : ready' = [ready EXCEPT ![c] = r]
    /\ UNCHANGED <<file, listening, pending, structs, owner, worker, handleSet>>
------------------------------------------------------------------------------
(* The owner's calls.                                                      *)

\* TcpServerSocket_create: socket(), of which the call fails at once when the
\* table is full.
socket(s) ==
    /\ opc = "idle"
    /\ life[s] = "none"
    /\ \E fd \in Fd :
          /\ Lowest(fd)
          /\ file' = [file EXCEPT ![fd] = s]
          /\ ofd' = fd
    /\ opc' = "bind" /\ os' = s
    /\ UNCHANGED <<listening, pending, ready, structs, worker, handleSet>>

\* Mutant of bindFails: the descriptor is left open.
bindFailsOpen ==
    /\ opc = "bind"
    /\ opc' = "idle" /\ os' = NoFile /\ ofd' = -1
    /\ UNCHANGED <<kernel, structs, worker, handleSet>>

\* The address is not found, or bind fails: the descriptor is closed.
bindFails ==
    /\ opc = "bind"
    /\ file' = [file EXCEPT ![ofd] = NoFile]
    /\ opc' = "idle" /\ os' = NoFile /\ ofd' = -1
    /\ UNCHANGED <<listening, pending, ready, structs, worker, handleSet>>

bind ==
    /\ opc = "bind"
    /\ life' = [life EXCEPT ![os] = "live"]
    /\ sfd' = [sfd EXCEPT ![os] = ofd]
    /\ opc' = "idle" /\ os' = NoFile /\ ofd' = -1
    /\ UNCHANGED <<kernel, backLog, worker, handleSet>>

ServerSocket_setBacklog(s) ==
    /\ opc = "idle"
    /\ life[s] = "live"
    /\ \E b \in 0 .. MaxBacklog : backLog' = [backLog EXCEPT ![s] = b]
    /\ UNCHANGED <<kernel, life, sfd, owner, worker, handleSet>>

ServerSocket_listen(s) ==
    /\ opc = "idle"
    /\ life[s] = "live"
    /\ listening' = [listening EXCEPT ![s] = TRUE]
    /\ UNCHANGED <<file, pending, ready, structs, owner, worker, handleSet>>

\* Mutant of destroy: the structure goes on holding the descriptor.
destroyHolding(x) ==
    /\ opc = "idle"
    /\ life[x] = "live"
    /\ opc' = "close" /\ os' = x /\ ofd' = sfd[x]
    /\ UNCHANGED <<kernel, structs, worker, handleSet>>

\* ServerSocket_destroy and Socket_destroy: the structure gives up the
\* descriptor before it is closed.
destroy(x) ==
    /\ opc = "idle"
    /\ life[x] = "live"
    /\ opc' = "close" /\ os' = x /\ ofd' = sfd[x]
    /\ sfd' = [sfd EXCEPT ![x] = -1]
    /\ UNCHANGED <<kernel, life, backLog, worker, handleSet>>

closeAndShutdownSocket ==
    /\ opc = "close"
    /\ opc' = "free" /\ ofd' = -1
    /\ file' = [fd \in Fd |-> IF fd = ofd THEN NoFile ELSE file[fd]]
    /\ pending' = [s \in Server |-> IF s = os THEN 0 ELSE pending[s]]
    /\ ready' = [c \in Conn |-> IF c = os THEN "none" ELSE ready[c]]
    /\ UNCHANGED <<listening, os, structs, worker, handleSet>>

\* Ten milliseconds later: no bound on what the worker has done meanwhile.
free ==
    /\ opc = "free"
    /\ opc' = "idle" /\ os' = NoFile
    /\ life' = [life EXCEPT ![os] = "freed"]
    /\ UNCHANGED <<kernel, sfd, backLog, ofd, worker, handleSet>>
------------------------------------------------------------------------------
(* The worker's calls on sockets.                                          *)

\* ServerSocket_accept reads self->fd once.
ServerSocket_accept(s) ==
    /\ wpc = "idle"
    /\ life[s] = "live"
    /\ wpc' = "syscall" /\ ws' = s /\ wop' = "accept" /\ wfd' = sfd[s]
    /\ UNCHANGED <<kernel, structs, owner, handleSet>>

\* Socket_read and Socket_write read it twice; they return at the first if
\* the descriptor is gone.
Socket_readOrWrite(c, op) ==
    /\ wpc = "idle"
    /\ life[c] = "live"
    /\ sfd[c] # -1
    /\ wpc' = "load" /\ ws' = c /\ wop' = op
    /\ UNCHANGED <<wfd, kernel, structs, owner, handleSet>>

load ==
    /\ wpc = "load"
    /\ IF life[ws] = "live"
       THEN wpc' = "syscall" /\ wfd' = sfd[ws]
       ELSE wpc' = "useAfterFree" /\ UNCHANGED wfd
    /\ UNCHANGED <<ws, wop, kernel, structs, owner, handleSet>>

\* The call's effect on the file it reaches, whoever's it is.
Back == wpc' = "idle" /\ ws' = NoFile /\ wop' = "accept" /\ wfd' = -1

ConnectionAt(fd) == fd \in Fd /\ file[fd] \in Server /\ pending[file[fd]] > 0

\* accept() gives a new descriptor, for which TcpSocket_create makes a
\* structure.
accept(c) ==
    /\ wpc = "syscall" /\ wop = "accept"
    /\ ConnectionAt(wfd)
    /\ life[c] = "none"
    /\ \E fd \in Fd :
          /\ Lowest(fd)
          /\ file' = [file EXCEPT ![fd] = c]
          /\ sfd' = [sfd EXCEPT ![c] = fd]
    /\ pending' = [pending EXCEPT ![file[wfd]] = @ - 1]
    /\ life' = [life EXCEPT ![c] = "live"]
    /\ Back
    /\ UNCHANGED <<listening, ready, backLog, owner, handleSet>>

\* No connection is pending, or the table is full, or what the descriptor
\* stands for is no listening socket: NULL.
acceptNone ==
    /\ wpc = "syscall" /\ wop = "accept"
    /\ \/ ~ConnectionAt(wfd)
       \/ \A fd \in Fd : file[fd] # NoFile
    /\ Back
    /\ UNCHANGED <<kernel, structs, owner, handleSet>>

\* recv() takes data; the end of file stays.  On anything else it fails.
recv ==
    /\ wpc = "syscall" /\ wop = "recv"
    /\ IF wfd \in Fd /\ file[wfd] \in Conn /\ ready[file[wfd]] = "some"
       THEN ready' = [ready EXCEPT ![file[wfd]] = "none"]
       ELSE UNCHANGED ready
    /\ Back
    /\ UNCHANGED <<file, listening, pending, structs, owner, handleSet>>

send ==
    /\ wpc = "syscall" /\ wop = "send"
    /\ Back
    /\ UNCHANGED <<kernel, structs, owner, handleSet>>
------------------------------------------------------------------------------
(* The worker's handle set.                                                *)

Handleset_new ==
    /\ wpc = "idle" /\ ~set
    /\ set' = TRUE
    /\ handles' = {} /\ maxHandle' = -1
    /\ added' = {} /\ used' = FALSE /\ raced' = FALSE
    /\ UNCHANGED <<kernel, structs, owner, worker>>

\* The owner's destroy may come between any two of the accesses to sock->fd,
\* and, ten milliseconds later, free the structure.
Handleset_addSocket(x) ==
    /\ wpc = "idle" /\ set
    /\ life[x] = "live"
    /\ sfd[x] # -1
    /\ wpc' = "fdSet" /\ ws' = x
    /\ UNCHANGED <<wop, wfd, kernel, structs, owner, handleSet>>

\* FD_SET of -1 is undefined: it sets a bit that is some descriptor's or
\* nobody's, or a checked build aborts.
fdSet ==
    /\ wpc = "fdSet" /\ life[ws] = "live"
    /\ \/ /\ wpc' = "compare"
          /\ \E fd \in IF sfd[ws] # -1 THEN {sfd[ws]} ELSE Fd :
                handles' = handles \cup {fd}
       \/ /\ sfd[ws] = -1
          /\ wpc' \in {"compare", "aborted"} /\ UNCHANGED handles
    /\ added' = added \cup {ws}
    /\ UNCHANGED <<ws, wop, wfd, maxHandle, set, used, raced,
                   kernel, structs, owner>>

\* Mutant of compare: the last descriptor is taken for the highest.
compareNot ==
    /\ wpc = "compare" /\ life[ws] = "live"
    /\ wpc' = "store" /\ UNCHANGED ws
    /\ UNCHANGED <<wop, wfd, kernel, structs, owner, handleSet>>

compare ==
    /\ wpc = "compare" /\ life[ws] = "live"
    /\ IF sfd[ws] > maxHandle
       THEN wpc' = "store" /\ UNCHANGED ws
       ELSE wpc' = "idle" /\ ws' = NoFile
    /\ UNCHANGED <<wop, wfd, kernel, structs, owner, handleSet>>

\* Mutant of store: it stores what select wants, one more.
storeNext ==
    /\ wpc = "store" /\ life[ws] = "live"
    /\ wpc' = "idle" /\ ws' = NoFile
    /\ maxHandle' = sfd[ws] + 1
    /\ raced' = (raced \/ sfd[ws] = -1)
    /\ UNCHANGED <<wop, wfd, handles, set, added, used,
                   kernel, structs, owner>>

store ==
    /\ wpc = "store" /\ life[ws] = "live"
    /\ wpc' = "idle" /\ ws' = NoFile
    /\ maxHandle' = sfd[ws]
    /\ raced' = (raced \/ sfd[ws] = -1)
    /\ UNCHANGED <<wop, wfd, handles, set, added, used,
                   kernel, structs, owner>>

addFreed ==
    /\ wpc \in {"fdSet", "compare", "store"} /\ life[ws] # "live"
    /\ wpc' = "useAfterFree"
    /\ UNCHANGED <<ws, wop, wfd, kernel, structs, owner, handleSet>>

\* select() looks at the descriptors below maxHandle + 1, leaves in the set
\* those that are ready, and fails if one was closed before it began; of one
\* that is closed while it waits it says nothing.
Watched == {fd \in handles : fd <= maxHandle}

\* It returns result.
Handleset_waitReady(result) ==
    /\ wpc = "idle" /\ set
    /\ LET hits == {fd \in Watched : file[fd] # NoFile /\ Ready(file[fd])}
       IN  \/ /\ maxHandle >= 0
              /\ result = Cardinality(hits)
              /\ handles' = hits
              /\ used' = TRUE
           \/ /\ maxHandle < 0 \/ \E fd \in Watched : file[fd] = NoFile
              /\ result = -1
              /\ UNCHANGED <<handles, used>>
    /\ UNCHANGED <<maxHandle, set, added, raced, kernel, structs, owner, worker>>

Handleset_destroy ==
    /\ wpc = "idle" /\ set
    /\ set' = FALSE
    /\ handles' = {} /\ maxHandle' = -1
    /\ added' = {} /\ used' = FALSE /\ raced' = FALSE
    /\ UNCHANGED <<kernel, structs, owner, worker>>
------------------------------------------------------------------------------
Peers == \/ \E s \in Server : PeerConnects(s)
         \/ \E c \in Conn : PeerSends(c)

Owner == \/ \E s \in Server :
               socket(s) \/ ServerSocket_setBacklog(s) \/ ServerSocket_listen(s)
         \/ bindFails \/ bind
         \/ \E x \in Structure : destroy(x)
         \/ closeAndShutdownSocket \/ free

Worker == \/ \E s \in Server : ServerSocket_accept(s)
          \/ \E c \in Conn, op \in {"recv", "send"} : Socket_readOrWrite(c, op)
          \/ \E c \in Conn : accept(c)
          \/ load \/ acceptNone \/ recv \/ send

HandleSet == \/ Handleset_new \/ Handleset_destroy
             \/ \E result \in -1 .. Fds : Handleset_waitReady(result)
             \/ \E x \in Structure : Handleset_addSocket(x)
             \/ fdSet \/ compare \/ store \/ addFreed

Next == wpc \notin {"useAfterFree", "aborted"} /\ (Peers \/ Owner \/ Worker \/ HandleSet)

Spec == Init /\ [][Next]_vars
------------------------------------------------------------------------------
(* Properties.                                                             *)

\* The type invariant.
TypeOK ==
    /\ file \in [Fd -> Structure \cup {NoFile}]
    /\ listening \in [Server -> BOOLEAN]
    /\ pending \in [Server -> Nat]
    /\ ready \in [Conn -> {"none", "some", "end"}]
    /\ life \in [Structure -> {"none", "live", "freed"}]
    /\ sfd \in [Structure -> Fd \cup {-1}]
    /\ backLog \in [Server -> 0 .. MaxBacklog]
    /\ opc \in {"idle", "bind", "close", "free"}
    /\ os \in Structure \cup {NoFile}
    /\ ofd \in Fd \cup {-1}
    /\ wpc \in {"idle", "load", "syscall", "fdSet", "compare", "store",
               "useAfterFree", "aborted"}
    /\ ws \in Structure \cup {NoFile}
    /\ wop \in {"accept", "recv", "send"}
    /\ wfd \in Fd \cup {-1}
    /\ handles \subseteq Fd
    /\ maxHandle \in Fd \cup {-1}
    /\ set \in BOOLEAN /\ used \in BOOLEAN /\ raced \in BOOLEAN
    /\ added \subseteq Structure

\* The call the owner is in has the descriptor in its local variable.
Carried(fd) == opc \in {"bind", "close"} /\ ofd = fd /\ os = file[fd]

\* Every open descriptor is held by one structure or by one call, so that it
\* is closed, and a structure holds no descriptor that is closed or another's.
\* A worker's call that has read its descriptor reaches the file of its own
\* socket: only when the socket was destroyed since can it be another's, that
\* was opened meanwhile.
DescriptorsOwned ==
    /\ \A fd \in Fd :
          file[fd] # NoFile => (sfd[file[fd]] = fd <=> ~Carried(fd))
    /\ \A x \in Structure : sfd[x] # -1 => file[sfd[x]] = x
    /\ (wpc = "syscall" /\ wfd # -1 /\ file[wfd] # ws) => sfd[ws] = -1

\* select leaves only the ready sockets in the set, so the wait says what
\* pal_socket.h promises only of a set that is built anew for each wait: 0
\* means that no socket added to it has anything pending, and what it counts
\* is theirs, unless one of them was destroyed and its descriptor reused.  A
\* socket destroyed just before it is stored as the highest can hide others.
WaitTellsPending ==
    [][\A result \in 0 .. Fds : (Handleset_waitReady(result) /\ ~used) =>
          LET theirs == {x \in added : sfd[x] # -1 /\ Ready(x)}
          IN  /\ result < Cardinality(theirs) => raced
              /\ result > Cardinality(theirs) =>
                    \E x \in added : sfd[x] = -1]_vars
==============================================================================
