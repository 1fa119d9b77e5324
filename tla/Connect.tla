------------------------------- MODULE Connect -------------------------------
(***************************************************************************)
(* c37_118client_connect: Socket_connect is tried until it succeeds, each  *)
(* time on a new descriptor and with a longer limit for the handshake.     *)
(* One action per system call of an attempt, interleaved with the network, *)
(* which changes its mind about the server at any time and answers a       *)
(* handshake late, even that of an attempt given up.                       *)
(***************************************************************************)
EXTENDS Integers

CONSTANTS
    MaxFds,     \* descriptors the process may have open
    Timeouts,   \* the values of timeoutInMs, c37_118client_connect's parameter
    HALF,       \* 2^31: one more than the greatest int
    MaxCount,   \* bound: failed attempts
    Pow,        \* pow(2, count), external: the C library's
    Rtt         \* a server that answers does so within this many ms

UINT32 == 2 * HALF

ASSUME ConnectAssumption ==
    /\ MaxFds \in Nat /\ MaxCount \in Nat /\ Rtt \in Nat
    /\ HALF \in Nat \ {0}
    /\ Timeouts \subseteq 0 .. UINT32 - 1
    /\ Pow \in [0 .. MaxCount -> Nat]

\* Of the powers of 2, a double holds each exactly up to 2^1023.
ASSUME PowAssumption ==
    /\ Pow[0] = 1
    /\ \A c \in 0 .. MaxCount - 1 : Pow[c + 1] = 2 * Pow[c]

VARIABLES
    platform,     \* which Socket_connect is compiled in
    timeoutInMs,  \* the parameter
    net,          \* how the network answers for the server
    prompt,       \* net has been answering ever since the last connect()
    pc,           \* the step of the attempt that comes next
    fd,           \* self->fd of the socket, -1 for none
    opened,       \* descriptors 0 .. opened - 1 are open
    handshake,    \* the state of the connection on each descriptor
    timeout,      \* self->connectTimeout, a uint32_t
    count         \* failed attempts

world == <<platform, timeoutInMs, net>>
vars  == <<world, prompt, pc, fd, opened, handshake, timeout, count>>

Fds       == 0 .. MaxFds - 1
Answering == {"listening", "refusing"}
Networks  == Answering \cup {"unresolved", "unreachable", "silent"}

Init ==
    /\ platform \in {"linux", "win32"}
    /\ timeoutInMs \in Timeouts
    /\ net \in Networks
    /\ prompt = FALSE
    /\ pc = "resolve"
    /\ fd = -1
    /\ opened = 0
    /\ handshake = [f \in Fds |-> "none"]
    /\ timeout = timeoutInMs
    /\ count = 0
------------------------------------------------------------------------------
(* The network, external to the repository.                                *)

NetworkChange(n) ==
    /\ net' = n
    /\ prompt' = (prompt /\ n \in Answering)
    /\ UNCHANGED <<platform, timeoutInMs, pc, fd, opened, handshake, timeout, count>>

Answer(f) ==
    /\ handshake[f] = "sent"
    /\ net \in Answering
    /\ handshake' = [handshake EXCEPT ![f] =
                        IF net = "listening" THEN "established" ELSE "failed"]
    /\ UNCHANGED <<world, prompt, pc, fd, opened, timeout, count>>

\* The kernel gives a handshake up that has had no answer for too long, or when
\* it learns that the host cannot be reached; not while a prompt answer is due.
GiveUp(f) ==
    /\ handshake[f] = "sent"
    /\ ~(prompt /\ f = fd)
    /\ handshake' = [handshake EXCEPT ![f] = "failed"]
    /\ UNCHANGED <<world, prompt, pc, fd, opened, timeout, count>>
------------------------------------------------------------------------------
(* Socket_connect, one system call at a time.                              *)

prepareServerAddress ==
    /\ pc = "resolve"
    /\ pc' = IF net = "unresolved" THEN "failed" ELSE "socket"
    /\ UNCHANGED <<world, prompt, fd, opened, handshake, timeout, count>>

\* socket() overwrites self->fd; it returns the lowest free descriptor or -1.
\* FD_SET of -1 on Linux is undefined: it touches no descriptor, or a checked
\* build aborts.
createSocket ==
    /\ pc = "socket"
    /\ \/ /\ opened < MaxFds
          /\ fd' = opened
          /\ opened' = opened + 1
          /\ pc' = "connect"
       \/ /\ opened = MaxFds
          /\ fd' = -1
          /\ pc' \in IF platform = "linux" THEN {"connect", "aborted"} ELSE {"connect"}
          /\ UNCHANGED opened
    /\ UNCHANGED <<world, prompt, handshake, timeout, count>>

\* connect() does not block: it fails at once without a descriptor or a route,
\* and may do so on a refusal; or the handshake is under way.
connect ==
    /\ pc = "connect"
    /\ \/ /\ fd = -1 \/ net \in {"unreachable", "refusing"}
          /\ pc' = "failed"
          /\ UNCHANGED <<prompt, handshake>>
       \/ /\ fd # -1 /\ net # "unreachable"
          /\ pc' = "select"
          /\ prompt' = (net \in Answering)
          /\ handshake' = [handshake EXCEPT ![fd] = "sent"]
    /\ UNCHANGED <<world, fd, opened, timeout, count>>

\* select() reports a descriptor writable when the handshake has ended, on
\* Linux even when it failed.  SO_ERROR, which would tell, is not read.
Writable(f) ==
    \/ handshake[f] = "established"
    \/ handshake[f] = "failed" /\ platform = "linux"

\* Mutant of Selected: the set is not cleared of the earlier descriptors.
SelectedBefore(f) == \E g \in 0 .. f : Writable(g)

\* fdSet holds the descriptor of this attempt.
Selected(f) == Writable(f)

\* The wait ends with the timeout, not before a prompt answer that it allows for.
TimedOut ==
    /\ ~Selected(fd)
    /\ ~(prompt /\ timeout >= Rtt /\ handshake[fd] = "sent")

select ==
    /\ pc = "select"
    /\ \/ Selected(fd) /\ pc' = "connected"
       \/ TimedOut /\ pc' = "failed"
    /\ UNCHANGED <<world, prompt, fd, opened, handshake, timeout, count>>
------------------------------------------------------------------------------
(* The loop of c37_118client_connect.                                      *)

\* (int) pow(2, count): out of the range of an int the conversion is undefined,
\* and gives the least int (x86) or the greatest (ARM), here modulo UINT32.
IntPow(c) == IF Pow[c] < HALF THEN {Pow[c]} ELSE {HALF, HALF - 1}

\* Mutants of retry: the product is kept in more than 32 bits; the exponent is
\* counted up before it is used; it is not counted up.
retryWithoutOverflow ==
    /\ pc = "failed"
    /\ count < MaxCount
    /\ count' = count + 1
    /\ \E p \in IntPow(count) : timeout' = p * timeoutInMs
    /\ pc' = "resolve"
    /\ UNCHANGED <<world, prompt, fd, opened, handshake>>

retryCountingFirst ==
    /\ pc = "failed"
    /\ count < MaxCount
    /\ count' = count + 1
    /\ \E p \in IntPow(count') : timeout' = (p * timeoutInMs) % UINT32
    /\ pc' = "resolve"
    /\ UNCHANGED <<world, prompt, fd, opened, handshake>>

retryNotCounting ==
    /\ pc = "failed"
    /\ count < MaxCount
    /\ \E p \in IntPow(count) : timeout' = (p * timeoutInMs) % UINT32
    /\ pc' = "resolve"
    /\ UNCHANGED <<world, prompt, fd, opened, handshake, count>>

\* The product of an int and a uint32_t is a uint32_t; it becomes the next
\* timeout by way of an int, which keeps its bits.  The next attempt begins at
\* once, and the descriptor of this one stays open.
retry ==
    /\ pc = "failed"
    /\ count < MaxCount
    /\ count' = count + 1
    /\ \E p \in IntPow(count) : timeout' = (p * timeoutInMs) % UINT32
    /\ pc' = "resolve"
    /\ UNCHANGED <<world, prompt, fd, opened, handshake>>
------------------------------------------------------------------------------
Network ==
    \/ \E n \in Networks : NetworkChange(n)
    \/ \E f \in Fds : Answer(f) \/ GiveUp(f)

Client ==
    \/ prepareServerAddress
    \/ createSocket
    \/ connect
    \/ select
    \/ retry

Next == Network \/ Client

Spec == Init /\ [][Next]_vars

\* The client's thread runs, and a handshake the server may answer for good is
\* answered.
FairSpec ==
    /\ Spec
    /\ WF_vars(Client)
    /\ \A f \in Fds : WF_vars(Answer(f))
------------------------------------------------------------------------------
(* Properties.                                                             *)

\* The type invariant.
TypeOK ==
    /\ platform \in {"linux", "win32"}
    /\ timeoutInMs \in Timeouts
    /\ net \in Networks
    /\ prompt \in BOOLEAN
    /\ pc \in {"resolve", "socket", "connect", "select", "failed",
               "connected", "aborted"}
    /\ fd \in Fds \cup {-1}
    /\ opened \in 0 .. MaxFds
    /\ handshake \in [Fds -> {"none", "sent", "established", "failed"}]
    /\ timeout \in 0 .. UINT32 - 1
    /\ count \in 0 .. MaxCount

\* Nothing is closed between the attempts, but no attempt takes more than one
\* descriptor: those open are at most the failed attempts and, behind socket(),
\* the present one, and the descriptors run out no sooner than after MaxFds
\* attempts that failed.
DescriptorsAccounted ==
    opened <= count + (IF pc \in {"resolve", "socket"} THEN 0 ELSE 1)

\* The client is handed the connection of its last attempt, although earlier
\* ones are still open and the server may have accepted one of them since.  The
\* handshake on it is over; on Windows, where select() reports an error with
\* the exceptions, which are not asked for, the server has accepted it.
ConnectedIsLatest ==
    pc = "connected" => /\ fd = opened - 1
                        /\ fd # -1
                        /\ handshake[fd] # "sent"
                        /\ platform = "win32" => handshake[fd] = "established"

\* Every failed attempt but the first doubles the limit of the next, as long
\* as the power fits an int and the result a uint32_t.
WaitDoubles ==
    [][ (pc = "failed" /\ pc' = "resolve"
            /\ Pow[count] < HALF /\ 2 * timeout < UINT32) =>
        timeout' = IF count = 0 THEN timeout ELSE 2 * timeout ]_vars

\* A server that from some time on listens and answers within Rtt is connected
\* to, if there is a later attempt, c, that waits as long and that neither the
\* arithmetic nor the descriptors have run out before.
WaitOf(c) == Pow[c - 1] * timeoutInMs

AttemptLeft ==
    \E c \in 1 .. MaxCount :
        /\ count < c
        /\ Pow[c - 1] < HALF
        /\ WaitOf(c) \in Rtt .. UINT32 - 1
        /\ opened + (c - count) + 1 <= MaxFds

ConnectsInTime ==
    []((AttemptLeft /\ pc \notin {"aborted"}) =>
        ([](net = "listening") => <>(pc = "connected")))

\* src/src/pal/inc/pal_socket.h:180 of Socket_connect: "connect to a server".
\* What c37_118client_connect returns is a client with a connection.
ConnectedToServer == pc = "connected" => handshake[fd] = "established"
==============================================================================
