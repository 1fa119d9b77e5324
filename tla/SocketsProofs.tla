---------------------------- MODULE SocketsProofs ----------------------------
(***************************************************************************)
(* Theorems of Sockets, for any number of sockets and descriptors.         *)
(***************************************************************************)
EXTENDS Sockets, FiniteSetTheorems, TLAPS

\* Which structures hold a descriptor: the live ones, until the owner's call
\* that destroys them has taken it over.
Holding ==
    \A x \in Structure :
        /\ life[x] # "live" => sfd[x] = -1
        /\ (life[x] = "live" /\ sfd[x] = -1) => opc \in {"close", "free"} /\ os = x

OwnerInv ==
    /\ opc = "bind"  => os \in Server /\ life[os] = "none" /\ ofd \in Fd /\ file[ofd] = os
    /\ opc = "close" => /\ os \in Structure /\ life[os] = "live" /\ sfd[os] = -1
                        /\ ofd \in Fd /\ file[ofd] = os
    /\ opc = "free"  => os \in Structure /\ life[os] = "live" /\ sfd[os] = -1

WorkerInv ==
    /\ wpc \in {"load", "syscall", "fdSet", "compare", "store"} =>
          ws \in Structure /\ life[ws] # "none"
    /\ wpc = "syscall" => wfd = sfd[ws] \/ sfd[ws] = -1

\* The first two parts of DescriptorsOwned; the third follows.
Owned ==
    /\ \A fd \in Fd : file[fd] # NoFile => (sfd[file[fd]] = fd <=> ~Carried(fd))
    /\ \A x \in Structure : sfd[x] # -1 => file[sfd[x]] = x

\* The socket that is being added is in the set, its descriptor not yet
\* compared with maxHandle or not yet stored.
Pending(x) == wpc \in {"compare", "store"} /\ ws = x

\* A set that has not been waited on has the descriptors of its sockets, all
\* of them below maxHandle + 1 but for the one that is being added, unless a
\* socket was destroyed when it was to be the highest.
SetInv ==
    /\ \A x \in added : life[x] # "none"
    /\ wpc \in {"compare", "store"} => ws \in added
    /\ wpc = "store" => sfd[ws] = -1 \/ sfd[ws] > maxHandle
    /\ ~used => /\ \A x \in added : sfd[x] # -1 =>
                      /\ sfd[x] \in handles
                      /\ raced \/ sfd[x] <= maxHandle \/ Pending(x)
                /\ \A fd \in handles : \E x \in added : sfd[x] \in {fd, -1}

\* The inductive invariant.
IInv == TypeOK /\ Holding /\ OwnerInv /\ WorkerInv /\ Owned /\ SetInv
----------------------------------------------------------------------------
LEMMA FdNat == Fd \subseteq Nat /\ -1 \notin Fd /\ NoFile \notin Structure
  BY SocketAssumption DEF Fd

LEMMA FdFinite == IsFiniteSet(Fd)
<1>1. Fds - 1 \in Int /\ 0 \in Int
  BY SocketAssumption
<1> QED
  BY <1>1, FS_Interval DEF Fd

LEMMA InitIInv == Init => IInv
<1> SUFFICES ASSUME Init PROVE IInv
  OBVIOUS
<1>1. TypeOK
  <2>1. /\ file \in [Fd -> Structure \cup {NoFile}]
        /\ life \in [Structure -> {"none", "live", "freed"}]
        /\ sfd \in [Structure -> Fd \cup {-1}]
    BY DEF Init
  <2>2. /\ listening \in [Server -> BOOLEAN]
        /\ pending \in [Server -> Nat]
        /\ ready \in [Conn -> {"none", "some", "end"}]
    BY DEF Init
  <2>3. backLog \in [Server -> 0 .. MaxBacklog]
    BY SocketAssumption DEF Init
  <2> QED
    BY <2>1, <2>2, <2>3 DEF Init, TypeOK
<1>2. Holding /\ OwnerInv /\ WorkerInv
  BY DEF Init, Holding, OwnerInv, WorkerInv
<1>3. Owned /\ SetInv
  BY DEF Init, Owned, SetInv, Structure, Pending
<1> QED
  BY <1>1, <1>2, <1>3 DEF IInv
----------------------------------------------------------------------------
(* The peers.                                                              *)

\* Only the counters of the kernel change.
LEMMA KernelKeeps ==
  ASSUME IInv, UNCHANGED <<file, structs, owner, worker, handleSet>>, TypeOK'
  PROVE  IInv'
  BY DEF IInv, Holding, OwnerInv, WorkerInv, Owned, Carried, SetInv, Pending,
         structs, owner, worker, handleSet

LEMMA PeersIInv == IInv /\ Peers => IInv'
<1> SUFFICES ASSUME IInv, Peers PROVE IInv'
  OBVIOUS
<1>1. TypeOK
  BY DEF IInv
<1>2. ASSUME NEW s \in Server, PeerConnects(s) PROVE IInv'
  <2>1. TypeOK'
    BY <1>1, <1>2 DEF TypeOK, PeerConnects, structs, owner, worker, handleSet
  <2> QED
    BY <1>2, <2>1, KernelKeeps DEF PeerConnects
<1>3. ASSUME NEW c \in Conn, PeerSends(c) PROVE IInv'
  <2>1. TypeOK'
    BY <1>1, <1>3 DEF TypeOK, PeerSends, structs, owner, worker, handleSet
  <2> QED
    BY <1>3, <2>1, KernelKeeps DEF PeerSends
<1> QED
  BY <1>2, <1>3 DEF Peers
----------------------------------------------------------------------------
(* The owner.                                                              *)

LEMMA socketIInv == ASSUME IInv, NEW s \in Server, socket(s) PROVE IInv'
<1>1. PICK fd \in Fd : Lowest(fd) /\ file' = [file EXCEPT ![fd] = s] /\ ofd' = fd
  BY DEF socket
<1>2. /\ opc = "idle" /\ life[s] = "none" /\ opc' = "bind" /\ os' = s
      /\ UNCHANGED <<listening, pending, ready, structs, worker, handleSet>>
  BY DEF socket
<1>3. s \in Structure /\ file[fd] = NoFile
  BY <1>1 DEF Structure, Lowest
<1>4. TypeOK /\ Holding /\ WorkerInv /\ Owned /\ SetInv
  BY DEF IInv
<1>5. TypeOK'
  <2>1. /\ file' \in [Fd -> Structure \cup {NoFile}] /\ ofd' \in Fd
        /\ os' \in Structure \cup {NoFile} /\ opc' \in {"idle", "bind", "close", "free"}
    BY <1>1, <1>2, <1>3, <1>4 DEF TypeOK
  <2> QED
    BY <2>1, <1>2, <1>4 DEF TypeOK, structs, worker, handleSet
<1>6. Holding' /\ WorkerInv' /\ SetInv'
  BY <1>2, <1>4 DEF Holding, WorkerInv, SetInv, Pending, structs, worker, handleSet
<1>7. OwnerInv'
  BY <1>1, <1>2, <1>4 DEF OwnerInv, structs, TypeOK
<1>8. Owned'
  <2>1. sfd[s] = -1
    BY <1>2, <1>3, <1>4 DEF Holding
  <2>2. ASSUME NEW x \in Structure, sfd[x] # -1 PROVE file'[sfd[x]] = x
    BY <2>2, <1>1, <1>3, <1>4, FdNat DEF Owned, TypeOK
  <2>3. ASSUME NEW g \in Fd, file'[g] # NoFile
        PROVE  sfd'[file'[g]] = g <=> ~Carried(g)'
    <3>1. CASE g = fd
      BY <3>1, <2>1, <1>1, <1>2, <1>4, FdNat DEF Carried, TypeOK, structs
    <3>2. CASE g # fd
      BY <3>2, <2>3, <1>1, <1>2, <1>4 DEF Owned, Carried, TypeOK, structs
    <3> QED
      BY <3>1, <3>2
  <2> QED
    BY <1>2, <2>2, <2>3 DEF Owned, structs
<1> QED
  BY <1>5, <1>6, <1>7, <1>8 DEF IInv

LEMMA bindFailsIInv == IInv /\ bindFails => IInv'
<1> SUFFICES ASSUME IInv, bindFails PROVE IInv'
  OBVIOUS
<1>1. /\ opc = "bind" /\ opc' = "idle" /\ os' = NoFile /\ ofd' = -1
      /\ file' = [file EXCEPT ![ofd] = NoFile]
      /\ UNCHANGED <<listening, pending, ready, structs, worker, handleSet>>
  BY DEF bindFails
<1>2. TypeOK /\ Holding /\ OwnerInv /\ WorkerInv /\ Owned /\ SetInv
  BY DEF IInv
<1>3. ofd \in Fd /\ file[ofd] = os /\ os \in Structure /\ life[os] = "none"
  BY <1>1, <1>2 DEF OwnerInv, Structure
<1>4. TypeOK'
  BY <1>1, <1>2 DEF TypeOK, structs, worker, handleSet
<1>5. Holding' /\ WorkerInv' /\ SetInv'
  BY <1>1, <1>2 DEF Holding, WorkerInv, SetInv, Pending, structs, worker, handleSet
<1>6. OwnerInv'
  BY <1>1 DEF OwnerInv
<1>7. Owned'
  <2>1. sfd[os] = -1
    BY <1>2, <1>3 DEF Holding
  <2>2. ASSUME NEW x \in Structure, sfd[x] # -1 PROVE file'[sfd[x]] = x
    <3>1. file[sfd[x]] = x /\ x # os
      BY <2>1, <2>2, <1>2 DEF Owned
    <3> QED
      BY <3>1, <2>2, <1>1, <1>2, <1>3 DEF TypeOK
  <2>3. ASSUME NEW g \in Fd, file'[g] # NoFile
        PROVE  sfd[file'[g]] = g
    BY <2>3, <1>1, <1>2, <1>3 DEF Owned, Carried, TypeOK
  <2> QED
    BY <1>1, <2>2, <2>3 DEF Owned, Carried, structs
<1> QED
  BY <1>4, <1>5, <1>6, <1>7 DEF IInv

LEMMA bindIInv == IInv /\ bind => IInv'
<1> SUFFICES ASSUME IInv, bind PROVE IInv'
  OBVIOUS
<1>1. /\ opc = "bind" /\ opc' = "idle" /\ os' = NoFile /\ ofd' = -1
      /\ life' = [life EXCEPT ![os] = "live"] /\ sfd' = [sfd EXCEPT ![os] = ofd]
      /\ UNCHANGED <<kernel, backLog, worker, handleSet>>
  BY DEF bind
<1>2. TypeOK /\ Holding /\ OwnerInv /\ WorkerInv /\ Owned /\ SetInv
  BY DEF IInv
<1>3. /\ ofd \in Fd /\ file[ofd] = os /\ os \in Structure
      /\ life[os] = "none" /\ sfd[os] = -1
  BY <1>1, <1>2 DEF OwnerInv, Structure, Holding
<1>4. TypeOK'
  BY <1>1, <1>2, <1>3 DEF TypeOK, kernel, worker, handleSet
<1>5. Holding'
  BY <1>1, <1>2, <1>3, FdNat DEF Holding, TypeOK
<1>6. WorkerInv'
  BY <1>1, <1>2, <1>3 DEF WorkerInv, TypeOK, worker
<1>7. OwnerInv'
  BY <1>1 DEF OwnerInv
<1>8. os \notin added /\ added \subseteq Structure
  BY <1>2, <1>3 DEF SetInv, TypeOK
<1>9. SetInv'
  <2>1. \A x \in added : sfd'[x] = sfd[x] /\ life'[x] = life[x]
    BY <1>1, <1>2, <1>8 DEF TypeOK
  <2>2. UNCHANGED <<wpc, ws, handles, maxHandle, added, used, raced>>
    BY <1>1 DEF worker, handleSet
  <2> QED
    BY <1>2, <2>1, <2>2 DEF SetInv, Pending
<1>10. Owned'
  <2>1. ASSUME NEW x \in Structure, sfd'[x] # -1 PROVE file[sfd'[x]] = x
    BY <2>1, <1>1, <1>2, <1>3 DEF Owned, TypeOK
  <2>2. ASSUME NEW g \in Fd, file[g] # NoFile PROVE sfd'[file[g]] = g
    <3>1. CASE file[g] = os
      <4>1. g = ofd
        BY <3>1, <2>2, <1>2, <1>3, FdNat DEF Owned, Carried
      <4> QED
        BY <3>1, <4>1, <1>1, <1>2, <1>3 DEF TypeOK
    <3>2. CASE file[g] # os
      BY <3>2, <2>2, <1>1, <1>2 DEF Owned, Carried, TypeOK
    <3> QED
      BY <3>1, <3>2
  <2> QED
    BY <1>1, <2>1, <2>2 DEF Owned, Carried, kernel
<1> QED
  BY <1>4, <1>5, <1>6, <1>7, <1>9, <1>10 DEF IInv

LEMMA settingsIInv ==
  ASSUME IInv, NEW s \in Server, ServerSocket_setBacklog(s) \/ ServerSocket_listen(s)
  PROVE  IInv'
<1>1. TypeOK
  BY DEF IInv
<1>2. CASE ServerSocket_listen(s)
  <2>1. TypeOK'
    BY <1>1, <1>2 DEF TypeOK, ServerSocket_listen, structs, owner, worker, handleSet
  <2> QED
    BY <1>2, <2>1, KernelKeeps DEF ServerSocket_listen
<1>3. CASE ServerSocket_setBacklog(s)
  <2>1. TypeOK'
    BY <1>1, <1>3 DEF TypeOK, ServerSocket_setBacklog, kernel, owner, worker, handleSet
  <2> QED
    BY <1>3, <2>1 DEF ServerSocket_setBacklog, IInv, Holding, OwnerInv, WorkerInv,
       Owned, Carried, SetInv, Pending, kernel, owner, worker, handleSet
<1> QED
  BY <1>2, <1>3

LEMMA destroyIInv == ASSUME IInv, NEW x \in Structure, destroy(x) PROVE IInv'
<1>1. /\ opc = "idle" /\ life[x] = "live"
      /\ opc' = "close" /\ os' = x /\ ofd' = sfd[x]
      /\ sfd' = [sfd EXCEPT ![x] = -1]
      /\ UNCHANGED <<kernel, life, backLog, worker, handleSet>>
  BY DEF destroy
<1>2. TypeOK /\ Holding /\ WorkerInv /\ Owned /\ SetInv
  BY DEF IInv
<1>3. sfd[x] \in Fd /\ file[sfd[x]] = x
  <2>1. sfd[x] # -1
    BY <1>1, <1>2 DEF Holding
  <2> QED
    BY <2>1, <1>2 DEF Owned, TypeOK
<1>4. TypeOK'
  BY <1>1, <1>2, <1>3 DEF TypeOK, kernel, worker, handleSet
<1>5. Holding' /\ OwnerInv'
  BY <1>1, <1>2, <1>3 DEF Holding, OwnerInv, TypeOK, kernel
<1>6. WorkerInv'
  BY <1>1, <1>2 DEF WorkerInv, TypeOK, worker
<1>7. SetInv'
  <2>1. \A y \in added : sfd'[y] = IF y = x THEN -1 ELSE sfd[y]
    BY <1>1, <1>2 DEF TypeOK
  <2>2. UNCHANGED <<wpc, ws, handles, maxHandle, added, used, raced, life>>
    BY <1>1 DEF worker, handleSet
  <2> QED
    BY <1>2, <2>1, <2>2 DEF SetInv, Pending
<1>8. Owned'
  <2>1. ASSUME NEW y \in Structure, sfd'[y] # -1 PROVE file[sfd'[y]] = y
    BY <2>1, <1>1, <1>2 DEF Owned, TypeOK
  <2>2. ASSUME NEW g \in Fd, file[g] # NoFile
        PROVE  sfd'[file[g]] = g <=> ~(sfd[x] = g /\ x = file[g])
    <3>1. file[g] \in Structure /\ sfd[file[g]] = g
      BY <2>2, <1>1, <1>2 DEF Owned, Carried, TypeOK
    <3>2. CASE file[g] = x
      BY <3>1, <3>2, <1>1, <1>2, FdNat DEF TypeOK
    <3>3. CASE file[g] # x
      BY <3>1, <3>3, <1>1, <1>2 DEF TypeOK
    <3> QED
      BY <3>2, <3>3
  <2> QED
    BY <1>1, <2>1, <2>2 DEF Owned, Carried, kernel
<1> QED
  BY <1>4, <1>5, <1>6, <1>7, <1>8 DEF IInv

LEMMA closeIInv == IInv /\ closeAndShutdownSocket => IInv'
<1> SUFFICES ASSUME IInv, closeAndShutdownSocket PROVE IInv'
  OBVIOUS
<1>1. /\ opc = "close" /\ opc' = "free" /\ ofd' = -1
      /\ file' = [fd \in Fd |-> IF fd = ofd THEN NoFile ELSE file[fd]]
      /\ pending' = [s \in Server |-> IF s = os THEN 0 ELSE pending[s]]
      /\ ready' = [c \in Conn |-> IF c = os THEN "none" ELSE ready[c]]
      /\ UNCHANGED <<listening, os, structs, worker, handleSet>>
  BY DEF closeAndShutdownSocket
<1>2. TypeOK /\ Holding /\ OwnerInv /\ WorkerInv /\ Owned /\ SetInv
  BY DEF IInv
<1>3. /\ os \in Structure /\ life[os] = "live" /\ sfd[os] = -1
      /\ ofd \in Fd /\ file[ofd] = os
  BY <1>1, <1>2 DEF OwnerInv
<1>4. TypeOK'
  BY <1>1, <1>2 DEF TypeOK, structs, worker, handleSet
<1>5. Holding' /\ OwnerInv' /\ WorkerInv' /\ SetInv'
  BY <1>1, <1>2, <1>3 DEF Holding, OwnerInv, WorkerInv, SetInv, Pending,
     structs, worker, handleSet
<1>6. Owned'
  <2>1. ASSUME NEW x \in Structure, sfd[x] # -1 PROVE file'[sfd[x]] = x
    <3>1. file[sfd[x]] = x /\ sfd[x] \in Fd /\ x # os
      BY <2>1, <1>2, <1>3 DEF Owned, TypeOK
    <3> QED
      BY <3>1, <1>1, <1>3
  <2>2. ASSUME NEW g \in Fd, file'[g] # NoFile PROVE sfd[file'[g]] = g
    <3>1. g # ofd /\ file'[g] = file[g]
      BY <2>2, <1>1
    <3> QED
      BY <3>1, <2>2, <1>2 DEF Owned, Carried
  <2> QED
    BY <1>1, <2>1, <2>2 DEF Owned, Carried, structs
<1> QED
  BY <1>4, <1>5, <1>6 DEF IInv

LEMMA freeIInv == IInv /\ free => IInv'
<1> SUFFICES ASSUME IInv, free PROVE IInv'
  OBVIOUS
<1>1. /\ opc = "free" /\ opc' = "idle" /\ os' = NoFile
      /\ life' = [life EXCEPT ![os] = "freed"]
      /\ UNCHANGED <<kernel, sfd, backLog, ofd, worker, handleSet>>
  BY DEF free
<1>2. TypeOK /\ Holding /\ OwnerInv /\ WorkerInv /\ Owned /\ SetInv
  BY DEF IInv
<1>3. os \in Structure /\ life[os] = "live" /\ sfd[os] = -1
  BY <1>1, <1>2 DEF OwnerInv
<1>4. TypeOK' /\ OwnerInv' /\ Owned'
  BY <1>1, <1>2, <1>3 DEF TypeOK, OwnerInv, Owned, Carried, kernel, worker, handleSet
<1>5. Holding' /\ WorkerInv' /\ SetInv'
  BY <1>1, <1>2, <1>3 DEF Holding, WorkerInv, SetInv, Pending, TypeOK, worker, handleSet
<1> QED
  BY <1>4, <1>5 DEF IInv

LEMMA OwnerIInv == IInv /\ Owner => IInv'
  BY socketIInv, bindFailsIInv, bindIInv, settingsIInv, destroyIInv, closeIInv,
     freeIInv DEF Owner
----------------------------------------------------------------------------
(* The worker.                                                             *)

\* Only what the worker knows changes.
LEMMA WorkerKeeps ==
  ASSUME IInv, UNCHANGED <<file, structs, owner, handleSet>>, TypeOK', WorkerInv',
         wpc \notin {"compare", "store"}, wpc' \notin {"compare", "store"}
  PROVE  IInv'
  BY DEF IInv, Holding, OwnerInv, Owned, Carried, SetInv, Pending,
         structs, owner, handleSet

LEMMA acceptIInv == ASSUME IInv, NEW c \in Conn, accept(c) PROVE IInv'
<1>1. PICK fd \in Fd : /\ Lowest(fd) /\ file' = [file EXCEPT ![fd] = c]
                       /\ sfd' = [sfd EXCEPT ![c] = fd]
  BY DEF accept
<1>2. /\ wfd \in Fd /\ file[wfd] \in Server /\ pending[file[wfd]] > 0
      /\ life[c] = "none" /\ life' = [life EXCEPT ![c] = "live"]
      /\ pending' = [pending EXCEPT ![file[wfd]] = @ - 1]
      /\ wpc = "syscall"
      /\ wpc' = "idle" /\ ws' = NoFile /\ wop' = "accept" /\ wfd' = -1
      /\ UNCHANGED <<listening, ready, backLog, owner, handleSet>>
  BY DEF accept, Back, ConnectionAt
<1>3. TypeOK /\ Holding /\ OwnerInv /\ Owned /\ SetInv
  BY DEF IInv
<1>4. c \in Structure /\ c \notin Server /\ file[fd] = NoFile /\ sfd[c] = -1
  BY <1>1, <1>2, <1>3, SocketAssumption DEF Structure, Lowest, Holding
<1>5. TypeOK'
  <2>1. pending' \in [Server -> Nat]
    BY <1>2, <1>3 DEF TypeOK
  <2> QED
    BY <2>1, <1>1, <1>2, <1>3, <1>4 DEF TypeOK, owner, handleSet
<1>6. Holding'
  BY <1>1, <1>2, <1>3, <1>4, FdNat DEF Holding, TypeOK, owner
<1>7. OwnerInv'
  <2>1. c # os \/ opc = "idle"
    BY <1>2, <1>3, <1>4 DEF OwnerInv, TypeOK
  <2>2. opc \in {"bind", "close"} => ofd # fd
    BY <1>3, <1>4, FdNat DEF OwnerInv, Structure
  <2> QED
    BY <2>1, <2>2, <1>1, <1>2, <1>3, <1>4 DEF OwnerInv, TypeOK, owner, Structure
<1>8. WorkerInv'
  BY <1>2 DEF WorkerInv
<1>9. SetInv'
  <2>1. c \notin added /\ added \subseteq Structure
    BY <1>2, <1>3 DEF SetInv, TypeOK
  <2>2. \A x \in added : sfd'[x] = sfd[x] /\ life'[x] = life[x]
    BY <2>1, <1>1, <1>2, <1>3 DEF TypeOK
  <2>3. UNCHANGED <<handles, maxHandle, added, used, raced>>
    BY <1>2 DEF handleSet
  <2> QED
    BY <1>2, <1>3, <2>2, <2>3 DEF SetInv, Pending
<1>10. Owned'
  <2>1. ASSUME NEW x \in Structure, sfd'[x] # -1 PROVE file'[sfd'[x]] = x
    <3>1. CASE x = c
      BY <3>1, <1>1, <1>3, <1>4 DEF TypeOK
    <3>2. CASE x # c
      <4>1. sfd'[x] = sfd[x] /\ sfd[x] \in Fd /\ file[sfd[x]] = x
        BY <3>2, <2>1, <1>1, <1>3, <1>4 DEF Owned, TypeOK
      <4> QED
        BY <4>1, <1>1, <1>3, <1>4, FdNat DEF TypeOK
    <3> QED
      BY <3>1, <3>2
  <2>2. ASSUME NEW g \in Fd, file'[g] # NoFile
        PROVE  sfd'[file'[g]] = g <=> ~Carried(g)'
    <3>1. CASE g = fd
      <4>1. file'[g] = c /\ sfd'[c] = g
        BY <3>1, <1>1, <1>3, <1>4 DEF TypeOK
      <4>2. ~Carried(g)'
        BY <3>1, <4>1, <1>2, <1>3, <1>4, FdNat DEF Carried, OwnerInv, owner, Structure
      <4> QED
        BY <4>1, <4>2
    <3>2. CASE g # fd
      <4>1. file'[g] = file[g] /\ file[g] # NoFile /\ file[g] \in Structure
        BY <3>2, <2>2, <1>1, <1>3 DEF TypeOK
      <4>2. Carried(g)' <=> Carried(g)
        BY <4>1, <1>2 DEF Carried, owner
      <4>3. file[g] # c
        <5>1. SUFFICES ASSUME file[g] = c PROVE FALSE
          OBVIOUS
        <5>2. Carried(g)
          BY <5>1, <4>1, <1>3, <1>4, FdNat DEF Owned
        <5> QED
          BY <5>1, <5>2, <1>2, <1>3, <1>4 DEF Carried, OwnerInv
      <4>4. sfd'[file[g]] = sfd[file[g]]
        BY <4>1, <4>3, <1>1, <1>3 DEF TypeOK
      <4> QED
        BY <4>1, <4>2, <4>4, <1>3 DEF Owned
    <3> QED
      BY <3>1, <3>2
  <2> QED
    BY <2>1, <2>2 DEF Owned
<1> QED
  BY <1>5, <1>6, <1>7, <1>8, <1>9, <1>10 DEF IInv

LEMMA WorkerIInv == IInv /\ Worker => IInv'
<1> SUFFICES ASSUME IInv, Worker PROVE IInv'
  OBVIOUS
<1>1. TypeOK /\ WorkerInv
  BY DEF IInv
<1>2. ASSUME NEW s \in Server, ServerSocket_accept(s) PROVE IInv'
  <2>1. TypeOK' /\ WorkerInv'
    BY <1>1, <1>2 DEF ServerSocket_accept, TypeOK, WorkerInv, Structure,
                      kernel, structs, owner, handleSet
  <2> QED
    BY <1>2, <2>1, WorkerKeeps DEF ServerSocket_accept, kernel
<1>3. ASSUME NEW c \in Conn, NEW op \in {"recv", "send"}, Socket_readOrWrite(c, op)
      PROVE  IInv'
  <2>1. TypeOK' /\ WorkerInv'
    BY <1>1, <1>3 DEF Socket_readOrWrite, TypeOK, WorkerInv, Structure,
                      kernel, structs, owner, handleSet
  <2> QED
    BY <1>3, <2>1, WorkerKeeps DEF Socket_readOrWrite, kernel
<1>4. CASE load
  <2>1. TypeOK' /\ WorkerInv'
    BY <1>1, <1>4 DEF load, TypeOK, WorkerInv, kernel, structs, owner, handleSet
  <2> QED
    BY <1>4, <2>1, WorkerKeeps DEF load, kernel
<1>5. CASE acceptNone \/ send
  <2>1. TypeOK' /\ WorkerInv'
    BY <1>1, <1>5 DEF acceptNone, send, Back, TypeOK, WorkerInv,
                      kernel, structs, owner, handleSet
  <2> QED
    BY <1>5, <2>1, WorkerKeeps DEF acceptNone, send, Back, kernel
<1>6. CASE recv
  <2>1. ready' \in [Conn -> {"none", "some", "end"}]
    BY <1>1, <1>6 DEF recv, TypeOK
  <2>2. TypeOK' /\ WorkerInv'
    BY <1>1, <1>6, <2>1 DEF recv, Back, TypeOK, WorkerInv, structs, owner, handleSet
  <2> QED
    BY <1>6, <2>2, WorkerKeeps DEF recv, Back
<1> QED
  BY <1>2, <1>3, <1>4, <1>5, <1>6, acceptIInv DEF Worker

\* Only the handle set changes, and the worker's place in adding to it.
LEMMA SetKeeps ==
  ASSUME IInv, UNCHANGED <<kernel, structs, owner, wfd>>, TypeOK', WorkerInv', SetInv'
  PROVE  IInv'
  BY DEF IInv, Holding, OwnerInv, Owned, Carried, kernel, structs, owner

LEMMA IntFd ==
  ASSUME TypeOK
  PROVE  maxHandle \in Int /\ \A x \in Structure : sfd[x] \in Int
<1>1. Fd \cup {-1} \subseteq Int
  BY FdNat
<1>2. maxHandle \in Fd \cup {-1} /\ \A x \in Structure : sfd[x] \in Fd \cup {-1}
  BY DEF TypeOK
<1> QED
  BY <1>1, <1>2

\* The four accesses of Handleset_addSocket.
LEMMA addSocketIInv ==
  ASSUME IInv, NEW x \in Structure, Handleset_addSocket(x)
  PROVE  IInv'
<1>1. TypeOK /\ WorkerInv /\ SetInv
  BY DEF IInv
<1>2. TypeOK' /\ WorkerInv'
  BY <1>1 DEF Handleset_addSocket, TypeOK, WorkerInv, kernel, structs, owner, handleSet
<1>3. SetInv'
  BY <1>1 DEF Handleset_addSocket, SetInv, Pending, structs, handleSet
<1> QED
  BY <1>2, <1>3, SetKeeps DEF Handleset_addSocket, kernel

LEMMA fdSetIInv == IInv /\ fdSet => IInv'
<1> SUFFICES ASSUME IInv, fdSet PROVE IInv'
  OBVIOUS
<1>1. TypeOK /\ WorkerInv /\ SetInv /\ ws \in Structure /\ life[ws] = "live"
  BY DEF IInv, WorkerInv, fdSet
<1>2. /\ wpc = "fdSet" /\ added' = added \cup {ws}
      /\ UNCHANGED <<ws, wop, wfd, maxHandle, set, used, raced, kernel, structs, owner>>
  BY DEF fdSet
<1>3. /\ wpc' \in {"compare", "aborted"}
      /\ \/ sfd[ws] # -1 /\ handles' = handles \cup {sfd[ws]} /\ wpc' = "compare"
         \/ sfd[ws] = -1 /\ \E fd \in Fd : handles' = handles \cup {fd}
         \/ sfd[ws] = -1 /\ handles' = handles
  BY DEF fdSet
<1>4. handles' \subseteq Fd
  BY <1>1, <1>3 DEF TypeOK
<1>5. TypeOK' /\ WorkerInv'
  BY <1>1, <1>2, <1>3, <1>4 DEF TypeOK, WorkerInv, kernel, structs, owner
<1>6. SetInv'
  <2>1. UNCHANGED <<sfd, life, used, raced, maxHandle, ws>>
    BY <1>2 DEF structs
  <2>2. /\ \A y \in added' : life'[y] # "none"
        /\ wpc' \in {"compare", "store"} => ws' \in added'
        /\ wpc' # "store"
    BY <1>1, <1>2, <1>3, <2>1 DEF SetInv
  <2>3. ASSUME ~used, NEW y \in added', sfd[y] # -1
        PROVE  sfd[y] \in handles' /\ (raced \/ sfd[y] <= maxHandle \/ Pending(y)')
    <3>1. CASE y = ws
      BY <3>1, <2>1, <2>3, <1>3 DEF Pending
    <3>2. CASE y # ws
      BY <3>2, <2>3, <1>1, <1>2, <1>3 DEF SetInv, Pending
    <3> QED
      BY <3>1, <3>2
  <2>4. ASSUME ~used, NEW fd \in handles'
        PROVE  \E y \in added' : sfd[y] \in {fd, -1}
    <3>1. CASE fd \in handles
      BY <3>1, <2>4, <1>1, <1>2 DEF SetInv
    <3>2. CASE fd \notin handles
      <4>1. sfd[ws] \in {fd, -1}
        BY <3>2, <2>4, <1>3
      <4> QED
        BY <4>1, <1>2
    <3> QED
      BY <3>1, <3>2
  <2> QED
    BY <2>1, <2>2, <2>3, <2>4 DEF SetInv
<1> QED
  BY <1>2, <1>5, <1>6, SetKeeps

LEMMA compareIInv == IInv /\ compare => IInv'
<1> SUFFICES ASSUME IInv, compare PROVE IInv'
  OBVIOUS
<1>1. TypeOK /\ WorkerInv /\ SetInv /\ ws \in Structure
  BY DEF IInv, WorkerInv, compare
<1>2. /\ wpc = "compare"
      /\ \/ sfd[ws] > maxHandle /\ wpc' = "store" /\ UNCHANGED ws
         \/ ~(sfd[ws] > maxHandle) /\ wpc' = "idle" /\ ws' = NoFile
      /\ UNCHANGED <<wop, wfd, kernel, structs, owner, handleSet>>
  BY DEF compare
<1>3. TypeOK' /\ WorkerInv'
  BY <1>1, <1>2 DEF TypeOK, WorkerInv, kernel, structs, owner, handleSet
<1>4. SetInv'
  <2>1. UNCHANGED <<sfd, life, handles, maxHandle, added, used, raced>>
    BY <1>2 DEF structs, handleSet
  <2>2. maxHandle \in Int /\ sfd[ws] \in Int
    BY <1>1, IntFd
  <2>3. ASSUME NEW y \in added, Pending(y) PROVE sfd[y] <= maxHandle \/ Pending(y)'
    BY <2>2, <2>3, <1>2 DEF Pending
  <2> QED
    BY <1>1, <1>2, <2>1, <2>3 DEF SetInv
<1> QED
  BY <1>2, <1>3, <1>4, SetKeeps

LEMMA storeIInv == IInv /\ store => IInv'
<1> SUFFICES ASSUME IInv, store PROVE IInv'
  OBVIOUS
<1>1. TypeOK /\ WorkerInv /\ SetInv /\ ws \in Structure
  BY DEF IInv, WorkerInv, store
<1>2. /\ wpc = "store" /\ wpc' = "idle" /\ ws' = NoFile
      /\ maxHandle' = sfd[ws] /\ raced' = (raced \/ sfd[ws] = -1)
      /\ UNCHANGED <<wop, wfd, handles, set, added, used, kernel, structs, owner>>
  BY DEF store
<1>3. TypeOK' /\ WorkerInv'
  BY <1>1, <1>2 DEF TypeOK, WorkerInv, kernel, structs, owner
<1>4. SetInv'
  <2>1. UNCHANGED <<sfd, life, handles, added, used>> /\ added \subseteq Structure
    BY <1>1, <1>2 DEF structs, TypeOK
  <2>2. ASSUME ~used, NEW y \in added, sfd[y] # -1
        PROVE  sfd[y] \in handles /\ (raced' \/ sfd[y] <= maxHandle')
    <3>1. sfd[y] \in handles /\ (raced \/ sfd[y] <= maxHandle \/ y = ws)
      BY <2>2, <1>1 DEF SetInv, Pending
    <3>2. sfd[ws] = -1 \/ sfd[ws] > maxHandle
      BY <1>1, <1>2 DEF SetInv
    <3>3. maxHandle \in Int /\ sfd[ws] \in Int /\ sfd[y] \in Int
      BY <1>1, <2>1, IntFd
    <3>4. raced \/ sfd[ws] = -1 => raced'
      <4>1. raced' = (raced \/ sfd[ws] = -1)
        BY <1>2
      <4> QED
        BY <4>1, Zenon
    <3>5. sfd[ws] > maxHandle /\ ~raced => sfd[y] <= sfd[ws]
      BY <3>1, <3>3
    <3> QED
      BY <3>1, <3>2, <3>4, <3>5, <1>2
  <2> QED
    BY <1>1, <1>2, <2>1, <2>2 DEF SetInv
<1> QED
  BY <1>2, <1>3, <1>4, SetKeeps

LEMMA addFreedIInv == IInv /\ addFreed => IInv'
<1> SUFFICES ASSUME IInv, addFreed PROVE IInv'
  OBVIOUS
<1>1. TypeOK /\ WorkerInv /\ SetInv /\ Holding /\ ws \in Structure
  BY DEF IInv, WorkerInv, addFreed
<1>2. /\ life[ws] # "live" /\ wpc' = "useAfterFree"
      /\ UNCHANGED <<ws, wop, wfd, kernel, structs, owner, handleSet>>
  BY DEF addFreed
<1>3. TypeOK' /\ WorkerInv'
  BY <1>1, <1>2 DEF TypeOK, WorkerInv, kernel, structs, owner, handleSet
<1>4. SetInv'
  <2>1. sfd[ws] = -1
    BY <1>1, <1>2 DEF Holding
  <2>2. UNCHANGED <<sfd, life, handles, maxHandle, added, used, raced>>
    BY <1>2 DEF structs, handleSet
  <2> QED
    BY <1>1, <1>2, <2>1, <2>2 DEF SetInv, Pending
<1> QED
  BY <1>2, <1>3, <1>4, SetKeeps

LEMMA waitReadyIInv ==
  ASSUME IInv, NEW result \in -1 .. Fds, Handleset_waitReady(result)
  PROVE  IInv'
<1> DEFINE hits == {fd \in Watched : file[fd] # NoFile /\ Ready(file[fd])}
<1>1. TypeOK /\ WorkerInv /\ SetInv
  BY DEF IInv
<1>2. UNCHANGED <<maxHandle, set, added, raced, kernel, structs, owner, worker>>
  BY DEF Handleset_waitReady
<1>3. \/ handles' = hits /\ used' = TRUE
      \/ UNCHANGED <<handles, used>>
  BY DEF Handleset_waitReady
<1>4. hits \subseteq handles
  BY DEF Watched
<1> HIDE DEF hits
<1>5. handles' \subseteq handles /\ (used' = TRUE \/ UNCHANGED <<handles, used>>)
  BY <1>3, <1>4
<1>6. used' \in BOOLEAN
  BY <1>1, <1>5 DEF TypeOK
<1>7. TypeOK' /\ WorkerInv'
  <2>1. TypeOK'
    BY <1>1, <1>2, <1>5, <1>6 DEF TypeOK, kernel, structs, owner, worker
  <2> QED
    BY <1>1, <1>2, <2>1 DEF WorkerInv, structs, worker
<1>8. SetInv'
  BY <1>1, <1>2, <1>5 DEF SetInv, Pending, structs, worker
<1> QED
  BY <1>2, <1>7, <1>8, SetKeeps DEF worker

LEMMA HandleSetIInv == IInv /\ HandleSet => IInv'
<1> SUFFICES ASSUME IInv, Handleset_new \/ Handleset_destroy PROVE IInv'
  BY addSocketIInv, fdSetIInv, compareIInv, storeIInv, addFreedIInv, waitReadyIInv
     DEF HandleSet
<1>1. TypeOK /\ WorkerInv /\ SetInv
  BY DEF IInv
<1>2. /\ wpc = "idle" /\ handles' = {} /\ maxHandle' = -1 /\ added' = {}
      /\ used' = FALSE /\ raced' = FALSE /\ set' \in BOOLEAN
      /\ UNCHANGED <<kernel, structs, owner, worker>>
  BY DEF Handleset_new, Handleset_destroy
<1>3. TypeOK' /\ WorkerInv'
  BY <1>1, <1>2 DEF TypeOK, WorkerInv, kernel, structs, owner, worker
<1>4. SetInv'
  BY <1>2 DEF SetInv, worker
<1> QED
  BY <1>2, <1>3, <1>4, SetKeeps DEF worker
----------------------------------------------------------------------------
LEMMA StutterIInv == IInv /\ UNCHANGED vars => IInv'
<1> SUFFICES ASSUME IInv, UNCHANGED vars PROVE IInv'
  OBVIOUS
<1>1. TypeOK'
  BY DEF IInv, TypeOK, vars, kernel, structs, owner, worker, handleSet
<1> QED
  BY <1>1, KernelKeeps DEF vars, kernel

THEOREM InductiveInvariant == Spec => []IInv
<1>1. IInv /\ [Next]_vars => IInv'
  BY PeersIInv, OwnerIInv, WorkerIInv, HandleSetIInv, StutterIInv DEF Next
<1> QED
  BY InitIInv, <1>1, PTL DEF Spec

\* Every variable keeps its type.
THEOREM TypeCorrect == Spec => []TypeOK
<1>1. IInv => TypeOK
  BY DEF IInv
<1> QED
  BY <1>1, InductiveInvariant, PTL

\* No descriptor is lost, shared or closed twice, and a call on a socket that
\* is not being destroyed reaches its own file.
THEOREM DescriptorsAreOwned == Spec => []DescriptorsOwned
<1>1. IInv => DescriptorsOwned
  <2> SUFFICES ASSUME IInv, wpc = "syscall", wfd # -1, file[wfd] # ws
               PROVE  sfd[ws] = -1
    BY DEF IInv, Owned, DescriptorsOwned
  <2> QED
    BY DEF IInv, WorkerInv, Owned
<1> QED
  BY <1>1, InductiveInvariant, PTL
----------------------------------------------------------------------------
\* Of a set that is not raced, each ready socket is among the descriptors that
\* select reports; and each of these belongs to a socket of the set that is not
\* destroyed, if none is.
LEMMA WaitCounts ==
  ASSUME IInv, NEW result \in 0 .. Fds, Handleset_waitReady(result), ~used
  PROVE  LET theirs == {x \in added : sfd[x] # -1 /\ Ready(x)}
         IN  /\ result < Cardinality(theirs) => raced
             /\ result > Cardinality(theirs) => \E x \in added : sfd[x] = -1
<1> DEFINE theirs == {x \in added : sfd[x] # -1 /\ Ready(x)}
           hits   == {fd \in Watched : file[fd] # NoFile /\ Ready(file[fd])}
           f      == [x \in theirs |-> sfd[x]]
<1>1. TypeOK /\ Owned /\ SetInv /\ wpc = "idle"
  BY DEF IInv, Handleset_waitReady
<1>2. result = Cardinality(hits)
  <2>1. result # -1
    BY SocketAssumption
  <2> QED
    BY <2>1 DEF Handleset_waitReady
<1>3. theirs \subseteq Structure /\ hits \subseteq Fd
  BY <1>1 DEF TypeOK, Watched
<1>4. /\ IsFiniteSet(theirs) /\ IsFiniteSet(hits)
      /\ Cardinality(theirs) \in Nat /\ Cardinality(hits) \in Nat
  <2>1. IsFiniteSet(theirs)
    BY <1>3, SocketAssumption, FS_Subset
  <2>2. IsFiniteSet(hits)
    BY <1>3, FdFinite, FS_Subset
  <2> QED
    BY <2>1, <2>2, FS_CardinalityType
<1>5. ASSUME NEW x \in theirs
      PROVE  /\ sfd[x] \in handles /\ file[sfd[x]] = x
             /\ file[sfd[x]] # NoFile /\ Ready(file[sfd[x]])
             /\ raced \/ sfd[x] <= maxHandle
  <2>1. x \in added /\ sfd[x] # -1 /\ Ready(x) /\ x \in Structure
    BY <1>3
  <2>2. sfd[x] \in handles /\ (raced \/ sfd[x] <= maxHandle) /\ file[sfd[x]] = x
    BY <1>1, <2>1 DEF Owned, SetInv, Pending
  <2> QED
    BY <2>1, <2>2, FdNat
<1>6. ASSUME ~raced PROVE Cardinality(theirs) <= Cardinality(hits)
  <2>1. f \in [theirs -> hits]
    BY <1>5, <1>6 DEF Watched
  <2>2. IsInjective(f)
    <3> HIDE DEF theirs
    <3> QED
      BY <1>5 DEF IsInjective
  <2> QED
    BY <1>4, <2>1, <2>2, FS_Injection DEF Injection
<1>7. ASSUME \A x \in added : sfd[x] # -1
      PROVE  Cardinality(hits) <= Cardinality(theirs)
  <2> DEFINE g == [fd \in hits |-> file[fd]]
  <2>1. ASSUME NEW fd \in hits PROVE file[fd] \in theirs /\ sfd[file[fd]] = fd
    <3>1. fd \in handles /\ Ready(file[fd])
      BY DEF Watched
    <3>2. PICK x \in added : sfd[x] = fd
      BY <1>1, <1>7, <3>1 DEF SetInv
    <3>3. file[fd] = x
      BY <1>1, <1>7, <3>2 DEF Owned, TypeOK
    <3> QED
      BY <1>7, <3>1, <3>2, <3>3
  <2>2. g \in [hits -> theirs]
    BY <2>1
  <2>3. IsInjective(g)
    <3> HIDE DEF hits
    <3> QED
      BY <2>1 DEF IsInjective
  <2> QED
    BY <1>4, <2>2, <2>3, FS_Injection DEF Injection
<1> HIDE DEF theirs, hits
<1>8. /\ result < Cardinality(theirs) => raced
      /\ result > Cardinality(theirs) => \E x \in added : sfd[x] = -1
  BY <1>1, <1>2, <1>4, <1>6, <1>7
<1> QED
  BY <1>8 DEF theirs

\* A wait on a set built anew tells of all of its sockets and of no others,
\* however many there are, unless one was destroyed.
THEOREM WaitIsTruthful == Spec => WaitTellsPending
<1>1. ASSUME IInv
      PROVE  \A result \in 0 .. Fds : (Handleset_waitReady(result) /\ ~used) =>
                LET theirs == {x \in added : sfd[x] # -1 /\ Ready(x)}
                IN  /\ result < Cardinality(theirs) => raced
                    /\ result > Cardinality(theirs) => \E x \in added : sfd[x] = -1
  BY <1>1, WaitCounts
<1> QED
  BY <1>1, InductiveInvariant, PTL DEF WaitTellsPending
==============================================================================
