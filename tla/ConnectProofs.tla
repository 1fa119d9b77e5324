---------------------------- MODULE ConnectProofs ----------------------------
(***************************************************************************)
(* Theorems of Connect, for any number of descriptors, any timeout and any *)
(* width of the integers.                                                  *)
(***************************************************************************)
EXTENDS Connect, TLAPS

\* The descriptor of an attempt is the one opened last, until the attempt
\* fails; a client is returned only when it is writable.
CurrentDescriptor ==
    /\ pc = "connect" => fd = -1 \/ fd = opened - 1
    /\ pc \in {"select", "connected"} => fd \in Fds /\ fd = opened - 1
    /\ pc = "connected" => Writable(fd)

IInv == TypeOK /\ DescriptorsAccounted /\ CurrentDescriptor
----------------------------------------------------------------------------
LEMMA InitIInv == Init => IInv
<1> SUFFICES ASSUME Init PROVE IInv
  OBVIOUS
<1>1. TypeOK
  <2>1. prompt \in BOOLEAN /\ net \in Networks
    BY DEF Init
  <2>2. timeoutInMs \in Timeouts /\ timeout \in 0 .. UINT32 - 1
    BY ConnectAssumption DEF Init
  <2>3. opened \in 0 .. MaxFds /\ count \in 0 .. MaxCount
    BY ConnectAssumption DEF Init
  <2>4. handshake \in [Fds -> {"none", "sent", "established", "failed"}]
    BY DEF Init
  <2> QED
    BY <2>1, <2>2, <2>3, <2>4 DEF Init, TypeOK
<1>2. DescriptorsAccounted /\ CurrentDescriptor
  BY DEF Init, DescriptorsAccounted, CurrentDescriptor
<1> QED
  BY <1>1, <1>2 DEF IInv

\* The timeout stays a uint32_t whatever the power and the product overflow to.
LEMMA NextTimeout ==
  ASSUME TypeOK, count < MaxCount, NEW p \in IntPow(count)
  PROVE  (p * timeoutInMs) % UINT32 \in 0 .. UINT32 - 1
<1>1. UINT32 \in Nat /\ UINT32 > 0 /\ HALF \in Nat /\ HALF - 1 \in Nat
  BY ConnectAssumption DEF UINT32
<1>2. count \in 0 .. MaxCount /\ timeoutInMs \in Nat
  BY ConnectAssumption, <1>1 DEF TypeOK
<1>3. Pow[count] \in Nat
  BY ConnectAssumption, <1>2
<1>4. p \in Nat
  BY <1>1, <1>3 DEF IntPow
<1>5. \A n \in Nat : n % UINT32 \in 0 .. UINT32 - 1
  BY <1>1
<1>6. p * timeoutInMs \in Nat
  BY <1>2, <1>4
<1> QED
  BY <1>5, <1>6

LEMMA NetworkIInv ==
  ASSUME IInv, Network
  PROVE  IInv'
<1>1. ASSUME NEW n \in Networks, NetworkChange(n)
      PROVE  IInv'
  BY <1>1 DEF NetworkChange, IInv, TypeOK, DescriptorsAccounted,
     CurrentDescriptor, Writable
<1>2. ASSUME NEW f \in Fds, Answer(f) \/ GiveUp(f)
      PROVE  IInv'
  <2>1. TypeOK'
    BY <1>2 DEF Answer, GiveUp, world, IInv, TypeOK
  <2>2. DescriptorsAccounted'
    BY <1>2 DEF Answer, GiveUp, IInv, DescriptorsAccounted
  <2>3. CurrentDescriptor'
    <3>1. \A g \in Fds : Writable(g) => handshake'[g] = handshake[g]
      BY <1>2 DEF Answer, GiveUp, IInv, TypeOK, Writable
    <3> QED
      BY <1>2, <3>1 DEF Answer, GiveUp, world, IInv, CurrentDescriptor, Writable
  <2> QED
    BY <2>1, <2>2, <2>3 DEF IInv
<1> QED
  BY <1>1, <1>2 DEF Network

LEMMA ClientIInv ==
  ASSUME IInv, Client
  PROVE  IInv'
<1> USE DEF IInv
<1>1. CASE prepareServerAddress
  BY <1>1 DEF prepareServerAddress, world, TypeOK, DescriptorsAccounted,
     CurrentDescriptor
<1>2. CASE createSocket
  <2>1. TypeOK'
    BY <1>2, ConnectAssumption DEF createSocket, world, TypeOK, Fds
  <2>2. DescriptorsAccounted'
    BY <1>2 DEF createSocket, TypeOK, DescriptorsAccounted
  <2>3. CurrentDescriptor'
    BY <1>2, ConnectAssumption DEF createSocket, TypeOK, CurrentDescriptor
  <2> QED
    BY <2>1, <2>2, <2>3
<1>3. CASE connect
  <2>1. TypeOK'
    <3>1. handshake' \in [Fds -> {"none", "sent", "established", "failed"}]
      BY <1>3 DEF connect, TypeOK
    <3>2. prompt' \in BOOLEAN
      <4>1. prompt \in BOOLEAN
        BY DEF TypeOK
      <4>2. prompt' = prompt \/ prompt' = (net \in Answering)
        BY <1>3, Zenon DEF connect
      <4>3. CASE prompt' = prompt
        BY <4>1, <4>3
      <4>4. CASE prompt' = (net \in Answering)
        BY <4>4
      <4> QED
        BY <4>2, <4>3, <4>4
    <3>3. pc' \in {"failed", "select"}
      BY <1>3 DEF connect
    <3> QED
      BY <1>3, <3>1, <3>2, <3>3 DEF connect, world, TypeOK
  <2>2. DescriptorsAccounted'
    BY <1>3 DEF connect, DescriptorsAccounted
  <2>3. CurrentDescriptor'
    BY <1>3 DEF connect, TypeOK, CurrentDescriptor
  <2> QED
    BY <2>1, <2>2, <2>3
<1>4. CASE select
  <2>1. TypeOK'
    BY <1>4 DEF select, world, TypeOK
  <2>2. DescriptorsAccounted'
    BY <1>4 DEF select, DescriptorsAccounted
  <2>3. CurrentDescriptor'
    BY <1>4 DEF select, world, CurrentDescriptor, Selected, Writable
  <2> QED
    BY <2>1, <2>2, <2>3
<1>5. CASE retry
  <2>1. timeout' \in 0 .. UINT32 - 1
    BY <1>5, NextTimeout DEF retry
  <2>2. TypeOK'
    <3>1. count' \in 0 .. MaxCount
      BY <1>5, ConnectAssumption DEF retry, TypeOK
    <3> QED
      BY <1>5, <2>1, <3>1 DEF retry, world, TypeOK
  <2>3. DescriptorsAccounted' /\ CurrentDescriptor'
    BY <1>5 DEF retry, TypeOK, DescriptorsAccounted, CurrentDescriptor
  <2> QED
    BY <2>2, <2>3
<1> QED
  BY <1>1, <1>2, <1>3, <1>4, <1>5 DEF Client
----------------------------------------------------------------------------
\* Every step of the client and the network preserves the three parts.
THEOREM InductiveInvariant == Spec => []IInv
<1>1. IInv /\ UNCHANGED vars => IInv'
  BY DEF vars, world, IInv, TypeOK, DescriptorsAccounted, CurrentDescriptor,
     Writable
<1>2. IInv /\ [Next]_vars => IInv'
  BY <1>1, NetworkIInv, ClientIInv DEF Next
<1> QED
  BY InitIInv, <1>2, PTL DEF Spec

\* Every variable of c37_118client_connect keeps its type, the timeout its 32
\* bits.
THEOREM TypeCorrect == Spec => []TypeOK
BY InductiveInvariant, PTL DEF IInv

\* Socket_connect opens at most one descriptor for each attempt of
\* c37_118client_connect.
THEOREM AtMostOneDescriptorEach == Spec => []DescriptorsAccounted
BY InductiveInvariant, PTL DEF IInv

\* c37_118client_connect returns a client on the descriptor that its last call
\* of Socket_connect opened, with the handshake on it over, and accepted on Windows.
THEOREM LatestConnectionReturned == Spec => []ConnectedIsLatest
<1>1. IInv => ConnectedIsLatest
  BY DEF IInv, CurrentDescriptor, ConnectedIsLatest, Writable, Fds
<1> QED
  BY <1>1, InductiveInvariant, PTL
----------------------------------------------------------------------------
\* The limit of an attempt is the parameter's until the second failure, then
\* the parameter times the power of the failure before.
LimitInv ==
    IF count = 0 THEN timeout = timeoutInMs
    ELSE \E p \in IntPow(count - 1) : timeout = (p * timeoutInMs) % UINT32

\* A number is its quotient times the modulus and its remainder, and no other
\* pair of that form is.
LEMMA Division ==
  ASSUME NEW n \in Nat, NEW u \in Nat \ {0}
  PROVE  /\ n \div u \in Nat /\ n % u \in 0 .. u - 1
         /\ n = u * (n \div u) + (n % u)
  OBVIOUS

LEMMA OneRemainder ==
  ASSUME NEW u \in Nat \ {0}, NEW q \in Nat, NEW r \in 0 .. u - 1,
         NEW k \in Nat, NEW s \in 0 .. u - 1, u * q + r = u * k + s
  PROVE  r = s
<1>1. u * (q - k) = s - r
  OBVIOUS
<1>2. s - r < u /\ s - r > -u
  OBVIOUS
<1>3. CASE q - k >= 1
  <2>1. u * (q - k) >= u
    BY <1>3
  <2> QED
    BY <1>1, <1>2, <2>1
<1>4. CASE q - k <= -1
  <2>1. u * (q - k) <= -u
    BY <1>4
  <2> QED
    BY <1>1, <1>2, <2>1
<1>5. CASE q = k
  BY <1>1, <1>5
<1> QED
  BY <1>3, <1>4, <1>5

\* Doubling commutes with the modulus as long as the double is below it.
LEMMA DoubledRemainder ==
  ASSUME NEW n \in Nat, NEW u \in Nat \ {0}, 2 * (n % u) < u
  PROVE  (2 * n) % u = 2 * (n % u)
<1> DEFINE q == n \div u
           r == n % u
           k == (2 * n) \div u
           s == (2 * n) % u
<1>1. q \in Nat /\ r \in 0 .. u - 1 /\ n = u * q + r
  BY Division
<1>2. 2 * n \in Nat
  OBVIOUS
<1>3. k \in Nat /\ s \in 0 .. u - 1 /\ 2 * n = u * k + s
  BY <1>2, Division
<1>4. 2 * r \in 0 .. u - 1
  BY <1>1
<1> HIDE DEF q, r, k, s
<1>5. 2 * n = u * (2 * q) + 2 * r
  BY <1>1
<1>6. 2 * q \in Nat
  BY <1>1
<1>7. u * (2 * q) + 2 * r = u * k + s
  BY <1>3, <1>5
<1>8. 2 * r = s
  BY <1>3, <1>4, <1>6, <1>7, OneRemainder
<1> QED
  BY <1>8 DEF r, s

LEMMA LimitStep == ASSUME TypeOK, LimitInv, [Next]_vars PROVE LimitInv'
<1> USE DEF LimitInv
<1>1. CASE retry
  <2>1. count \in Nat /\ count' = count + 1 /\ timeoutInMs' = timeoutInMs
    BY <1>1, ConnectAssumption DEF retry, world, TypeOK
  <2>2. count' # 0 /\ count' - 1 = count
    BY <2>1
  <2>3. \E p \in IntPow(count) : timeout' = (p * timeoutInMs) % UINT32
    BY <1>1 DEF retry
  <2> QED
    BY <2>1, <2>2, <2>3 DEF IntPow
<1>2. CASE ~retry
  <2>1. UNCHANGED <<count, timeout, timeoutInMs>>
    BY <1>2 DEF Next, Network, NetworkChange, Answer, GiveUp, Client,
       prepareServerAddress, createSocket, connect, select, vars, world
  <2> QED
    BY <2>1 DEF IntPow
<1> QED
  BY <1>1, <1>2

\* What a step of c37_118client_connect back to Socket_connect does to the
\* limit.
LEMMA Doubles ==
  ASSUME TypeOK, LimitInv, [Next]_vars, pc = "failed", pc' = "resolve",
         Pow[count] < HALF, 2 * timeout < UINT32
  PROVE  timeout' = IF count = 0 THEN timeout ELSE 2 * timeout
<1>1. retry
  BY DEF Next, Network, NetworkChange, Answer, GiveUp, Client, prepareServerAddress,
     createSocket, connect, select, vars, world
<1>2. /\ count \in 0 .. MaxCount - 1 /\ timeoutInMs \in Nat
      /\ UINT32 \in Nat \ {0} /\ HALF \in Nat /\ MaxCount \in Nat
      /\ timeout \in 0 .. UINT32 - 1
  BY <1>1, ConnectAssumption DEF retry, TypeOK, UINT32
<1>3. timeout' = (Pow[count] * timeoutInMs) % UINT32
  BY <1>1 DEF retry, IntPow
<1>4. CASE count = 0
  <2>1. Pow[count] * timeoutInMs = timeoutInMs /\ timeout = timeoutInMs
    BY <1>2, <1>4, PowAssumption DEF LimitInv
  <2>2. timeout % UINT32 = timeout
    BY <1>2
  <2> QED
    BY <1>3, <1>4, <2>1, <2>2
<1>5. CASE count # 0
  <2> DEFINE m == Pow[count - 1]
             n == m * timeoutInMs
  <2>1. /\ count - 1 \in 0 .. MaxCount - 1
        /\ count - 1 \in 0 .. MaxCount
        /\ (count - 1) + 1 = count
    BY <1>2, <1>5
  <2>2. m \in Nat /\ Pow[count] = 2 * m
    BY <2>1, ConnectAssumption, PowAssumption
  <2>3. m < HALF
    BY <1>2, <2>2
  <2>4. timeout = n % UINT32
    BY <1>5, <2>3 DEF LimitInv, IntPow
  <2> HIDE DEF m
  <2>5. n \in Nat /\ Pow[count] * timeoutInMs = 2 * n
    BY <1>2, <2>2
  <2> HIDE DEF n
  <2>6. (2 * n) % UINT32 = 2 * (n % UINT32)
    BY <1>2, <2>4, <2>5, DoubledRemainder
  <2> QED
    BY <1>3, <1>5, <2>4, <2>5, <2>6
<1> QED
  BY <1>4, <1>5

\* From the second failed attempt on, each failure doubles the limit of the next
\* handshake, in c37_118client_connect's uint32_t and by way of an int, as long
\* as the power fits the one and the result the other.
THEOREM LimitsDouble == Spec => WaitDoubles
<1>1. Init => LimitInv
  BY DEF Init, LimitInv
<1>2. TypeOK /\ LimitInv /\ [Next]_vars => LimitInv'
  BY LimitStep
<1>3. Spec => []LimitInv
  BY <1>1, <1>2, TypeCorrect, PTL DEF Spec
<1>4. TypeOK /\ LimitInv /\ [Next]_vars =>
        [ (pc = "failed" /\ pc' = "resolve"
             /\ Pow[count] < HALF /\ 2 * timeout < UINT32) =>
          timeout' = IF count = 0 THEN timeout ELSE 2 * timeout ]_vars
  BY Doubles
<1> QED
  BY <1>3, <1>4, TypeCorrect, PTL DEF Spec, WaitDoubles
----------------------------------------------------------------------------
\* While the present attempt waits, its connect() has had a server that listens
\* ever since; what the client is then handed was accepted.
Reached ==
    /\ pc = "select" => prompt /\ handshake[fd] \in {"sent", "established"}
    /\ pc = "connected" => handshake[fd] = "established"

\* The server listens whenever an attempt calls connect() and until it ends.
ListensToAttempts == pc \in {"connect", "select"} => net = "listening"

LEMMA ReachedNetwork ==
  ASSUME IInv, Reached, ListensToAttempts, Network, ListensToAttempts'
  PROVE  Reached'
<1>1. ASSUME NEW n \in Networks, NetworkChange(n) PROVE Reached'
  BY <1>1 DEF NetworkChange, Reached, ListensToAttempts, Answering
<1>2. ASSUME NEW f \in Fds, Answer(f) PROVE Reached'
  BY <1>2 DEF Answer, world, IInv, TypeOK, CurrentDescriptor, Reached,
     ListensToAttempts
<1>3. ASSUME NEW f \in Fds, GiveUp(f) PROVE Reached'
  BY <1>3 DEF GiveUp, world, IInv, TypeOK, CurrentDescriptor, Reached
<1> QED
  BY <1>1, <1>2, <1>3 DEF Network

LEMMA ReachedClient ==
  ASSUME IInv, Reached, ListensToAttempts, Client
  PROVE  Reached'
<1>1. CASE connect
  <2>1. net = "listening"
    BY <1>1 DEF connect, ListensToAttempts
  <2>2. CASE pc' = "failed"
    BY <2>2 DEF Reached
  <2>3. CASE pc' = "select" /\ prompt' = (net \in Answering)
              /\ handshake' = [handshake EXCEPT ![fd] = "sent"] /\ fd # -1
    <3>1. prompt'
      BY <2>1, <2>3 DEF Answering
    <3>2. handshake'[fd] = "sent" /\ fd' = fd
      BY <1>1, <2>3 DEF connect, IInv, TypeOK
    <3> QED
      BY <2>3, <3>1, <3>2 DEF Reached
  <2> QED
    BY <1>1, <2>1, <2>2, <2>3, Zenon DEF connect
<1>2. CASE select
  BY <1>2 DEF select, world, Reached, Selected, Writable
<1>3. CASE prepareServerAddress \/ createSocket \/ retry
  <2>1. pc' \notin {"select", "connected"}
    BY <1>3 DEF prepareServerAddress, createSocket, retry
  <2> QED
    BY <2>1 DEF Reached
<1> QED
  BY <1>1, <1>2, <1>3 DEF Client

\* What pal_socket.h:180 promises of Socket_connect holds, on Linux too and for
\* any timeouts, late answers and handshakes given up, if the server listens
\* from each connect() to the end of its attempt, whatever the network does
\* between the attempts: only a handshake that failed can be mistaken.
THEOREM ListeningIsReached ==
  (Spec /\ []ListensToAttempts) => []ConnectedToServer
<1>1. Reached => ConnectedToServer
  BY DEF Reached, ConnectedToServer
<1>2. Init => Reached
  BY DEF Init, Reached
<1>3. /\ IInv /\ Reached /\ ListensToAttempts /\ ListensToAttempts'
      /\ [Next]_vars
      => Reached'
  <2>1. UNCHANGED vars /\ Reached => Reached'
    BY DEF vars, Reached
  <2> QED
    BY <2>1, ReachedNetwork, ReachedClient DEF Next
<1> QED
  BY <1>1, <1>2, <1>3, InductiveInvariant, PTL DEF Spec
==============================================================================
