------------------------ MODULE C37ClientStateProofs ------------------------
(***************************************************************************)
(* More theorems of C37Client: its heap, and self->running against the     *)
(* state of the server.                                                    *)
(***************************************************************************)
EXTENDS C37ClientProofs

\* A time stamp is that of the frame the client holds or of an earlier one, and
\* once destroyed of an earlier one.
BlockBefore(i, held) == i <= held /\ (pc = "destroyed" => i # held)

\* A configuration is the one the client holds or an earlier one; destroy frees
\* the one held exactly if it has PMUs.
ConfigurationBlocks ==
    /\ \A i \in DOMAIN tx : <<"configuration", i>> \in live => i <= cfg
    /\ (pc = "destroyed" /\ cfg # 0) =>
          (<<"configuration", cfg>> \in live <=> ~HasPmus)

\* The strengthening of HeapSound.
HeapInv ==
    /\ pc # "destroyed" => Followed \subseteq live
    /\ ConfigurationBlocks
    /\ \A i \in DOMAIN tx : <<"parsedTime", i>> \in live =>
          BlockBefore(i, IF tx[i].kind = "cfg" THEN cfg ELSE dat)
----------------------------------------------------------------------------
LEMMA HeapTypes ==
  ASSUME IInv
  PROVE  /\ tx \in Seq(Frame) /\ Len(tx) \in Nat /\ DOMAIN tx = 1 .. Len(tx)
         /\ cfg \in 0 .. Len(tx) /\ dat \in 0 .. Len(tx)
         /\ live \subseteq {"configuration", "parsedTime"} \X DOMAIN tx
  BY DEF IInv, TypeOK, ServerTypeOK, ClientTypeOK, HeapTypeOK

\* A step that leaves the client's data alone and does not destroy it.
LEMMA HeapKept ==
  ASSUME IInv, HeapInv, UNCHANGED data,
         pc' = "destroyed" <=> pc = "destroyed",
         \/ UNCHANGED tx
         \/ \E kind \in {"cfg", "data"} : Transmit(kind)
  PROVE  HeapInv'
<1>1. Followed' = Followed
  BY DEF Followed, data
<1>2. /\ DOMAIN tx \subseteq DOMAIN tx'
      /\ \A i \in DOMAIN tx : tx'[i] = tx[i]
  <2>1. CASE UNCHANGED tx
    BY <2>1
  <2>2. CASE \E kind \in {"cfg", "data"} : Transmit(kind)
    <3>1. /\ tx' \in Seq(Frame) /\ Len(tx') = Len(tx) + 1
          /\ \A i \in DOMAIN tx : tx'[i] = tx[i]
      BY <2>2, TransmitFacts DEF IInv
    <3>2. DOMAIN tx' = 1 .. Len(tx) + 1
      BY <3>1, HeapTypes
    <3> QED
      BY <3>1, <3>2, HeapTypes
  <2> QED
    BY <2>1, <2>2
<1>3. HasPmus' <=> HasPmus
  <2>1. cfg # 0 => cfg \in DOMAIN tx
    BY HeapTypes
  <2> QED
    BY <1>2, <2>1 DEF HasPmus, data
<1>4. ASSUME NEW i \in DOMAIN tx', i \notin DOMAIN tx
      PROVE  <<"configuration", i>> \notin live' /\ <<"parsedTime", i>> \notin live'
  BY <1>4, HeapTypes DEF data
<1>5. ConfigurationBlocks'
  BY <1>3, <1>4 DEF HeapInv, ConfigurationBlocks, data
<1>6. ASSUME NEW i \in DOMAIN tx', <<"parsedTime", i>> \in live'
      PROVE  BlockBefore(i, IF tx[i].kind = "cfg" THEN cfg ELSE dat)'
  <2>1. i \in DOMAIN tx
    BY <1>4, <1>6
  <2> QED
    BY <1>2, <1>6, <2>1 DEF HeapInv, BlockBefore, data
<1> QED
  BY <1>1, <1>5, <1>6 DEF HeapInv, data

\* A frame taken is later than those held, and its blocks are new.
LEMMA HeapRead ==
  ASSUME IInv, HeapInv, UNCHANGED tx, pc # "destroyed", pc' # "destroyed",
         NEW n \in Socket_read, Consume(n), NEW i \in DOMAIN tx,
         \/ Accepts(n, "cfg", i) /\ InstallConfiguration(i)
         \/ Accepts(n, "data", i) /\ InstallData(i)
  PROVE  HeapInv'
<1>1. i > cfg /\ i > dat
  BY AcceptedIsAhead
<1>2. CASE Accepts(n, "cfg", i) /\ InstallConfiguration(i)
  <2>1. /\ cfg' = i /\ dat' = dat /\ tx[i].kind = "cfg"
        /\ live' = live \cup {<<"configuration", i>>, <<"parsedTime", i>>}
    BY <1>2 DEF InstallConfiguration, Accepts
  <2>2. Followed' \subseteq live'
    BY <2>1 DEF HeapInv, Followed
  <2>3. ASSUME NEW j \in DOMAIN tx
        PROVE  /\ <<"configuration", j>> \in live' => j <= i
               /\ <<"parsedTime", j>> \in live' =>
                     j <= (IF tx[j].kind = "cfg" THEN i ELSE dat)
    <3>1. CASE j = i
      BY <2>1, <3>1, HeapTypes
    <3>2. CASE j # i
      <4>1. /\ <<"configuration", j>> \in live' => <<"configuration", j>> \in live
            /\ <<"parsedTime", j>> \in live' => <<"parsedTime", j>> \in live
        BY <2>1, <3>2
      <4> QED
        BY <1>1, <4>1, HeapTypes DEF HeapInv, ConfigurationBlocks, BlockBefore
    <3> QED
      BY <3>1, <3>2
  <2> QED
    BY <2>1, <2>2, <2>3 DEF HeapInv, ConfigurationBlocks, BlockBefore
<1>3. CASE Accepts(n, "data", i) /\ InstallData(i)
  <2>1. /\ cfg' = cfg /\ dat' = i /\ tx[i].kind = "data"
        /\ live' = live \cup {<<"parsedTime", i>>}
    BY <1>3 DEF InstallData, Accepts
  <2>2. Followed' \subseteq live'
    BY <2>1 DEF HeapInv, Followed
  <2>3. ConfigurationBlocks'
    BY <2>1 DEF HeapInv, ConfigurationBlocks
  <2>4. ASSUME NEW j \in DOMAIN tx, <<"parsedTime", j>> \in live'
        PROVE  j <= (IF tx[j].kind = "cfg" THEN cfg ELSE i)
    <3>1. CASE j = i
      BY <2>1, <3>1, HeapTypes
    <3>2. CASE j # i
      <4>1. <<"parsedTime", j>> \in live
        BY <2>1, <2>4, <3>2
      <4> QED
        BY <1>1, <4>1, HeapTypes DEF HeapInv, BlockBefore
    <3> QED
      BY <3>1, <3>2
  <2> QED
    BY <2>1, <2>2, <2>3, <2>4 DEF HeapInv, BlockBefore
<1> QED
  BY <1>2, <1>3

LEMMA HeapDestroy == IInv /\ HeapInv /\ destroy => HeapInv'
<1> SUFFICES ASSUME IInv, HeapInv, destroy PROVE HeapInv'
  OBVIOUS
<1>1. /\ pc # "destroyed" /\ pc' = "destroyed" /\ live' = live \ Owned
      /\ UNCHANGED <<tx, cfg, dat>>
  BY DEF destroy
<1>2. HasPmus' <=> HasPmus
  BY <1>1 DEF HasPmus
<1>3. ConfigurationBlocks'
  <2>1. cfg # 0 => <<"configuration", cfg>> \in live
    BY <1>1 DEF HeapInv, Followed
  <2>2. cfg # 0 => (<<"configuration", cfg>> \in Owned <=> HasPmus)
    BY DEF Owned, HasPmus
  <2> QED
    BY <1>1, <1>2, <2>1, <2>2 DEF HeapInv, ConfigurationBlocks
<1>4. ASSUME NEW i \in DOMAIN tx, <<"parsedTime", i>> \in live'
      PROVE  LET held == IF tx[i].kind = "cfg" THEN cfg ELSE dat
             IN  i <= held /\ i # held
  <2>1. i # 0
    BY HeapTypes
  <2>2. i # cfg /\ i # dat
    BY <1>1, <1>4, <2>1 DEF Owned
  <2> QED
    BY <1>1, <1>4, <2>2 DEF HeapInv, BlockBefore
<1> QED
  BY <1>1, <1>3, <1>4 DEF HeapInv, BlockBefore

LEMMA HeapStep == IInv /\ HeapInv /\ [Next]_vars => HeapInv'
<1> SUFFICES ASSUME IInv, HeapInv, [Next]_vars PROVE HeapInv'
  OBVIOUS
<1>1. CASE Server
  <2>1. UNCHANGED <<pc, data>> /\ (UNCHANGED tx \/ \E kind \in {"cfg", "data"} : Transmit(kind))
    BY <1>1 DEF Server, ServeCommand, SendData, Reconfigure, PeerClose
  <2> QED
    BY <2>1, HeapKept
<1>2. CASE \/ stopTransmission \/ startTransmission \/ getConfiguration
           \/ getDataStream \/ Output
  <2>1. UNCHANGED <<server, data>> /\ pc # "destroyed" /\ pc' # "destroyed"
    BY <1>2, OutputFacts DEF stopTransmission, startTransmission,
       getConfiguration, getDataStream
  <2> QED
    BY <2>1, HeapKept DEF server
<1>3. CASE getConfigurationRead
  <2>1. PICK n \in Socket_read : Consume(n) /\ parseConfigurationFrame(n)
    BY <1>3 DEF getConfigurationRead
  <2>2. UNCHANGED tx /\ pc # "destroyed" /\ pc' # "destroyed"
    BY <1>3, <2>1 DEF getConfigurationRead, parseConfigurationFrame, server
  <2>3. \/ UNCHANGED data
        \/ \E i \in DOMAIN tx : Accepts(n, "cfg", i) /\ InstallConfiguration(i)
    BY <2>1 DEF parseConfigurationFrame
  <2> QED
    BY <2>1, <2>2, <2>3, HeapKept, HeapRead
<1>4. CASE getDataStreamRead
  <2>1. PICK n \in Socket_read : Consume(n) /\ parseDataFrame(n)
    BY <1>4 DEF getDataStreamRead
  <2>2. UNCHANGED tx /\ pc # "destroyed" /\ pc' # "destroyed"
    BY <1>4, <2>1 DEF getDataStreamRead, parseDataFrame, server
  <2>3. \/ UNCHANGED data
        \/ \E i \in DOMAIN tx : Accepts(n, "data", i) /\ InstallData(i)
    BY <2>1 DEF parseDataFrame
  <2> QED
    BY <2>1, <2>2, <2>3, HeapKept, HeapRead
<1>5. CASE destroy
  BY <1>5, HeapDestroy
<1>6. CASE UNCHANGED vars
  BY <1>6, HeapKept DEF vars, server
<1> QED
  BY <1>1, <1>2, <1>3, <1>4, <1>5, <1>6 DEF Next, Client

\* What the calls follow is allocated, and destroy leaves what a later frame
\* had replaced and, exactly if it has no PMUs, the configuration held.
THEOREM HeapIsSound == Spec => []HeapSound
<1>1. Init => HeapInv
  BY DEF Init, HeapInv, Followed, ConfigurationBlocks
<1>2. IInv /\ HeapInv => HeapSound
  <2> SUFFICES ASSUME IInv, HeapInv PROVE HeapSound
    OBVIOUS
  <2>1. ASSUME NEW i \in DOMAIN tx, pc = "destroyed", <<"parsedTime", i>> \in live
        PROVE  i < (IF tx[i].kind = "cfg" THEN cfg ELSE dat)
    BY <2>1, HeapTypes DEF HeapInv, BlockBefore
  <2> QED
    BY <2>1 DEF HeapSound, HeapInv, ConfigurationBlocks
<1> QED
  BY <1>1, <1>2, HeapStep, InductiveInvariant, PTL DEF Spec
----------------------------------------------------------------------------
Switch == {"start", "stop"}

\* Command i is the last switch among the first n.
LastSwitch(i, n) ==
    /\ i \in 1 .. n
    /\ cmds[i] \in Switch
    /\ \A j \in i + 1 .. n : cmds[j] \notin Switch

\* The strengthening of RunningTracksServer: while the connection is open the
\* client's flag is that of the last switch it sent, and always the server's
\* that of the last it has handled.
SwitchInv ==
    /\ Switched => \E i \in DOMAIN cmds : LastSwitch(i, Len(cmds))
    /\ open => \A i \in DOMAIN cmds :
                  LastSwitch(i, Len(cmds)) => running = (cmds[i] = "start")
    /\ serverId = idcode => \A i \in DOMAIN cmds :
                  LastSwitch(i, served) => streaming = (cmds[i] = "start")

LEMMA SwitchTypes ==
  ASSUME IInv
  PROVE  /\ cmds \in Seq(Command) /\ Len(cmds) \in Nat
         /\ DOMAIN cmds = 1 .. Len(cmds) /\ served \in 0 .. Len(cmds)
         /\ \A i \in DOMAIN cmds : cmds[i] \in Command
         /\ open \in BOOLEAN /\ running \in BOOLEAN /\ streaming \in BOOLEAN
  BY DEF IInv, TypeOK, ServerTypeOK, FlagsTypeOK

\* A step that touches neither the commands nor the two flags.
LEMMA SwitchKept ==
  ASSUME SwitchInv, UNCHANGED <<serverId, cmds, served, running, streaming>>,
         open' => open
  PROVE  SwitchInv'
  BY DEF SwitchInv, Switched, LastSwitch, idcode

\* A command is written; the flag follows it if it is a switch.
LEMMA SwitchWritten ==
  ASSUME IInv, SwitchInv, UNCHANGED server, NEW c \in Command, Socket_write(c),
         running' = IF c \in Switch THEN c = "start" ELSE running
  PROVE  SwitchInv'
<1>1. UNCHANGED <<open, serverId, served, streaming>>
  BY DEF server
<1>2. CASE ~open
  BY <1>1, <1>2 DEF SwitchInv, Socket_write, Switched, LastSwitch, idcode
<1>3. CASE open
  <2>1. PICK n \in Nat :
        /\ n = Len(cmds) /\ DOMAIN cmds = 1 .. n /\ served \in 0 .. n
        /\ cmds' = Append(cmds, c) /\ cmds \in Seq(Command)
    BY <1>3, SwitchTypes DEF Socket_write
  <2>2. /\ Len(cmds') = n + 1 /\ DOMAIN cmds' = 1 .. n + 1
        /\ \A i \in 1 .. n : cmds'[i] = cmds[i]
        /\ cmds'[n + 1] = c
    BY <2>1
  <2>3. ASSUME NEW i \in 1 .. n + 1
        PROVE  LastSwitch(i, served)' => i \in 1 .. n /\ LastSwitch(i, served)
    BY <1>1, <2>1, <2>2 DEF LastSwitch
  <2>4. CASE c \in Switch
    <3>1. LastSwitch(n + 1, Len(cmds))'
      BY <2>1, <2>2, <2>4 DEF LastSwitch
    <3>2. ASSUME NEW i \in 1 .. n + 1, LastSwitch(i, Len(cmds))'
          PROVE  i = n + 1
      <4>1. SUFFICES ASSUME i # n + 1 PROVE FALSE
        OBVIOUS
      <4>2. n + 1 \in i + 1 .. n + 1
        BY <4>1, <2>1
      <4> QED
        BY <4>2, <3>2, <2>2, <2>4 DEF LastSwitch
    <3>3. running' = (c = "start")
      BY <2>4
    <3>4. \A i \in DOMAIN cmds' :
             LastSwitch(i, Len(cmds))' => running' = (cmds'[i] = "start")
      BY <2>2, <3>2, <3>3
    <3> QED
      BY <1>1, <2>1, <2>2, <2>3, <3>1, <3>4 DEF SwitchInv, idcode
  <2>5. CASE c \notin Switch
    <3>1. ASSUME NEW i \in 1 .. n + 1
          PROVE  LastSwitch(i, Len(cmds))' <=> i \in 1 .. n /\ LastSwitch(i, n)
      BY <2>1, <2>2, <2>5 DEF LastSwitch
    <3>2. Switched' => Switched
      BY <2>1, <2>2, <2>5 DEF Switched, Switch
    <3>3. running' = running
      BY <2>5
    <3>4. Switched' => \E i \in DOMAIN cmds' : LastSwitch(i, Len(cmds))'
      BY <2>1, <2>2, <3>1, <3>2 DEF SwitchInv
    <3>5. \A i \in DOMAIN cmds' :
             LastSwitch(i, Len(cmds))' => running' = (cmds'[i] = "start")
      BY <1>3, <2>1, <2>2, <3>1, <3>3 DEF SwitchInv
    <3> QED
      BY <1>1, <2>1, <2>2, <2>3, <3>4, <3>5 DEF SwitchInv, idcode
  <2> QED
    BY <2>4, <2>5
<1> QED
  BY <1>2, <1>3

\* The server handles the next command.
LEMMA SwitchServed == IInv /\ SwitchInv /\ ServeCommand => SwitchInv'
<1> SUFFICES ASSUME IInv, SwitchInv, ServeCommand PROVE SwitchInv'
  OBVIOUS
<1>1. /\ UNCHANGED <<open, serverId, cmds, running>>
      /\ served' = served + 1 /\ served < Len(cmds)
  BY DEF ServeCommand
<1>2. /\ served \in Nat /\ Len(cmds) \in Nat /\ DOMAIN cmds = 1 .. Len(cmds)
      /\ cmds[served + 1] \in Command
  BY <1>1, SwitchTypes
<1>3. ASSUME serverId = idcode, NEW i \in DOMAIN cmds, LastSwitch(i, served)'
      PROVE  streaming' = (cmds[i] = "start")
  <2>1. CASE cmds[served + 1] \in Switch
    <3>1. i = served + 1
      <4>1. SUFFICES ASSUME i # served + 1 PROVE FALSE
        OBVIOUS
      <4>2. served + 1 \in i + 1 .. served + 1
        BY <1>1, <1>2, <1>3, <4>1 DEF LastSwitch
      <4> QED
        BY <1>1, <1>3, <2>1, <4>2 DEF LastSwitch
    <3>2. streaming' = (cmds[served + 1] = "start")
      BY <1>3, <2>1 DEF ServeCommand, Switch
    <3> QED
      BY <3>1, <3>2
  <2>2. CASE cmds[served + 1] \notin Switch
    <3>1. streaming' = streaming
      BY <1>2, <1>3, <2>2 DEF ServeCommand, Switch, Command
    <3>2. LastSwitch(i, served)
      BY <1>1, <1>2, <1>3, <2>2 DEF LastSwitch
    <3> QED
      BY <1>3, <3>1, <3>2 DEF SwitchInv
  <2> QED
    BY <2>1, <2>2
<1>4. \A i : LastSwitch(i, Len(cmds))' <=> LastSwitch(i, Len(cmds))
  BY <1>1 DEF LastSwitch
<1>5. Switched' <=> Switched
  BY <1>1 DEF Switched
<1> QED
  BY <1>1, <1>3, <1>4, <1>5 DEF SwitchInv, idcode

LEMMA SwitchStep == IInv /\ SwitchInv /\ [Next]_vars => SwitchInv'
<1> SUFFICES ASSUME IInv, SwitchInv, [Next]_vars PROVE SwitchInv'
  OBVIOUS
<1>1. CASE ServeCommand
  BY <1>1, SwitchServed
<1>2. CASE SendData \/ Reconfigure \/ PeerClose \/ destroy \/ UNCHANGED vars
  BY <1>2, SwitchKept DEF SendData, Reconfigure, PeerClose, destroy, vars, server
<1>3. CASE getDataStream \/ getDataStreamRead \/ getConfigurationRead
  BY <1>3, SwitchKept DEF getDataStream, getDataStreamRead, getConfigurationRead, server
<1>4. CASE Output
  BY <1>4, OutputFacts, SwitchKept DEF server
<1>5. CASE stopTransmission
  BY <1>5, SwitchWritten DEF stopTransmission, Switch, Command
<1>6. CASE startTransmission
  BY <1>6, SwitchWritten DEF startTransmission, Switch, Command
<1>7. CASE getConfiguration
  BY <1>7, SwitchWritten DEF getConfiguration, Switch, Command
<1> QED
  BY <1>1, <1>2, <1>3, <1>4, <1>5, <1>6, <1>7 DEF Next, Server, Client

\* The last switch on its way over an open connection, or the server when none
\* is, agrees with self->running.
THEOREM RunningAgrees == Spec => []RunningTracksServer
<1>1. Init => SwitchInv
  BY DEF Init, SwitchInv, Switched
<1>2. IInv /\ SwitchInv => RunningTracksServer
  <2> SUFFICES ASSUME IInv, SwitchInv, open, serverId = idcode, Switched
               PROVE  /\ OnTheWay = {} => running = streaming
                      /\ \A i \in OnTheWay : (\A j \in OnTheWay : j <= i) =>
                            running = (cmds[i] = "start")
    BY DEF RunningTracksServer
  <2>1. PICK n \in Nat : /\ n = Len(cmds) /\ DOMAIN cmds = 1 .. n
                         /\ served \in 0 .. n
    BY SwitchTypes
  <2>2. OnTheWay = {i \in served + 1 .. n : cmds[i] \in Switch}
    BY <2>1 DEF OnTheWay, Switch
  <2>3. ASSUME OnTheWay = {} PROVE running = streaming
    <3>1. PICK i \in 1 .. n : LastSwitch(i, n)
      BY <2>1 DEF SwitchInv
    <3>2. i <= served
      BY <2>1, <2>2, <2>3, <3>1 DEF LastSwitch
    <3>3. LastSwitch(i, served)
      BY <2>1, <3>1, <3>2 DEF LastSwitch
    <3> QED
      BY <2>1, <3>1, <3>3 DEF SwitchInv
  <2>4. ASSUME NEW i \in OnTheWay, \A j \in OnTheWay : j <= i
        PROVE  running = (cmds[i] = "start")
    <3>1. i \in served + 1 .. n /\ cmds[i] \in Switch /\ i \in 1 .. n
      BY <2>1, <2>2
    <3>2. ASSUME NEW j \in i + 1 .. n PROVE cmds[j] \notin Switch
      BY <2>1, <2>2, <2>4, <3>1
    <3>3. LastSwitch(i, n)
      BY <3>1, <3>2 DEF LastSwitch
    <3> QED
      BY <2>1, <3>1, <3>3 DEF SwitchInv
  <2> QED
    BY <2>3, <2>4
<1> QED
  BY <1>1, <1>2, SwitchStep, InductiveInvariant, PTL DEF Spec
----------------------------------------------------------------------------
(* The safety half of ConfigurationReturns.                                *)

\* A step of the server that leaves the commands alone only adds bytes.
LEMMA WaitingKept ==
  ASSUME IInv, NoAnswerLost, UNCHANGED <<serverId, cmds, served, pc, rd>>,
         open' => open,
         \/ UNCHANGED tx
         \/ \E kind \in {"cfg", "data"} : Transmit(kind)
  PROVE  NoAnswerLost'
<1>1. Sent \in Nat /\ rd \in 0 .. Sent
  BY SentNat DEF IInv, TypeOK, ClientTypeOK
<1>2. Sent' \in Int /\ Sent' >= Sent
  <2>1. CASE UNCHANGED tx
    BY <1>1, <2>1 DEF Sent
  <2>2. CASE \E kind \in {"cfg", "data"} : Transmit(kind)
    <3>1. /\ tx' \in Seq(Frame) /\ Len(tx') = Len(tx) + 1 /\ Len(tx) \in Nat
          /\ Sent' = tx'[Len(tx')].end /\ Sent' > Sent
      BY <2>2, TransmitFacts, HeapTypes DEF IInv
    <3>2. tx'[Len(tx')] \in Frame
      BY <3>1
    <3> QED
      BY <1>1, <3>1, <3>2 DEF Frame
  <2> QED
    BY <2>1, <2>2
<1>3. rd < Sent => rd' < Sent'
  BY <1>1, <1>2
<1> QED
  BY <1>3 DEF NoAnswerLost, idcode

\* The server handles the request: its answer is on the way.
LEMMA WaitingServed == IInv /\ NoAnswerLost /\ ServeCommand => NoAnswerLost'
<1> SUFFICES ASSUME IInv, NoAnswerLost, ServeCommand,
                    pc = "getConfiguration", serverId = idcode, open
             PROVE  \/ rd < Sent'
                    \/ \E i \in served' + 1 .. Len(cmds) : cmds[i] = "sendCfg2"
  BY DEF NoAnswerLost, ServeCommand, idcode
<1>1. Sent \in Nat /\ rd \in 0 .. Sent /\ served \in Nat /\ Len(cmds) \in Nat
  BY SentNat, SwitchTypes DEF IInv, TypeOK, ClientTypeOK
<1>2. CASE cmds[served + 1] = "sendCfg2"
  <2>1. Transmit("cfg")
    BY <1>2 DEF ServeCommand
  <2>2. Sent' > Sent /\ Sent' = tx'[Len(tx')].end
    BY <2>1, TransmitFacts DEF IInv
  <2>3. tx' \in Seq(Frame) /\ Len(tx') = Len(tx) + 1 /\ Len(tx) \in Nat
    BY <2>1, TransmitFacts, HeapTypes DEF IInv
  <2>4. tx'[Len(tx')] \in Frame
    BY <2>3
  <2> QED
    BY <1>1, <2>2, <2>4 DEF Frame
<1>3. CASE cmds[served + 1] # "sendCfg2"
  <2>1. Sent' = Sent
    BY <1>3 DEF ServeCommand, Sent
  <2>2. ASSUME NEW i \in served + 1 .. Len(cmds), cmds[i] = "sendCfg2"
        PROVE  i \in served' + 1 .. Len(cmds)
    BY <1>1, <1>3, <2>2 DEF ServeCommand
  <2> QED
    BY <2>1, <2>2 DEF NoAnswerLost
<1> QED
  BY <1>2, <1>3

\* The wait begins with a request behind all that were handled.
LEMMA WaitingBegins == IInv /\ getConfiguration => NoAnswerLost'
<1> SUFFICES ASSUME IInv, getConfiguration, open'
             PROVE  \E i \in served' + 1 .. Len(cmds') : cmds'[i] = "sendCfg2"
  BY DEF NoAnswerLost
<1>1. cmds' = Append(cmds, "sendCfg2") /\ served' = served
  BY DEF getConfiguration, server, Socket_write
<1>2. PICK n \in Nat : n = Len(cmds) /\ served \in 0 .. n
  BY SwitchTypes
<1>3. Len(cmds') = n + 1 /\ cmds'[n + 1] = "sendCfg2"
  BY <1>1, <1>2, SwitchTypes
<1> QED
  BY <1>1, <1>2, <1>3

LEMMA WaitingStep == IInv /\ NoAnswerLost /\ [Next]_vars => NoAnswerLost'
<1> SUFFICES ASSUME IInv, NoAnswerLost, [Next]_vars PROVE NoAnswerLost'
  OBVIOUS
<1>1. CASE ServeCommand
  BY <1>1, WaitingServed
<1>2. CASE SendData \/ Reconfigure \/ PeerClose \/ UNCHANGED vars
  BY <1>2, WaitingKept DEF SendData, Reconfigure, PeerClose, vars, server
<1>3. CASE getConfiguration
  BY <1>3, WaitingBegins
<1>4. CASE \/ stopTransmission \/ startTransmission \/ getDataStream
           \/ getConfigurationRead \/ getDataStreamRead \/ Output \/ destroy
  <2>1. pc' # "getConfiguration"
    BY <1>4, OutputFacts DEF stopTransmission, startTransmission, getDataStream,
       getConfigurationRead, getDataStreamRead, destroy,
       parseConfigurationFrame, parseDataFrame
  <2> QED
    BY <2>1 DEF NoAnswerLost
<1> QED
  BY <1>1, <1>2, <1>3, <1>4 DEF Next, Server, Client

\* While getConfiguration waits on an open connection to the server it
\* addresses, its request is still to be handled or bytes are still to be read.
THEOREM AnswersAreNotLost == Spec => []NoAnswerLost
<1>1. Init => NoAnswerLost
  BY DEF Init, NoAnswerLost
<1> QED
  BY <1>1, WaitingStep, InductiveInvariant, PTL DEF Spec
----------------------------------------------------------------------------
(* What can and what cannot make computeCRC leave the buffer.              *)

\* The length wraps round for the failed read and for the read of one byte,
\* and for no other: two bytes make it 0, and more are less than the buffer.
LEMMA OverrunLengths ==
  ASSUME NEW n \in {-1} \cup 1 .. BUFER_LENGTH
  PROVE  CrcOverrun(n) <=> n \in {-1, 1}
  BY ClientAssumption DEF CrcOverrun, MessLen

\* A read is of a closed connection, or of one byte, when it ends in overrun.
LEMMA OverrunCause ==
  ASSUME IInv, Next, pc # "overrun", pc' = "overrun"
  PROVE  (~open \/ rd' = rd + 1) /\ UNCHANGED open
<1>1. PICK n \in Socket_read : Consume(n) /\ CrcOverrun(n) /\ UNCHANGED open
  <2>1. CASE getConfigurationRead
    BY <2>1 DEF getConfigurationRead, parseConfigurationFrame, server
  <2>2. CASE getDataStreamRead
    BY <2>2 DEF getDataStreamRead, parseDataFrame, server
  <2>3. CASE Server \/ stopTransmission \/ startTransmission \/ getConfiguration
             \/ getDataStream \/ Output \/ destroy
    BY <2>3, OutputFacts DEF Server, ServeCommand, SendData, Reconfigure, PeerClose,
       stopTransmission, startTransmission, getConfiguration, getDataStream, destroy
  <2> QED
    BY <2>1, <2>2, <2>3 DEF Next, Client
<1>2. n \in {-1} \cup 1 .. BUFER_LENGTH
  BY <1>1 DEF Socket_read
<1>3. n \in {-1, 1}
  BY <1>1, <1>2, OverrunLengths
<1>4. n = -1 => ~open
  BY ClientAssumption DEF Socket_read
<1> QED
  BY <1>1, <1>3, <1>4 DEF Consume

\* The overrun has two causes and no others.  As long as the server keeps the
\* connection open and no read returns a single byte, computeCRC stays within
\* the buffer, whatever the frames, the order of the calls and the ways the
\* stream is cut.
THEOREM OverrunNeedsCloseOrOneByte ==
  Spec /\ [](open \/ pc = "destroyed") /\ [][rd' # rd + 1]_rd => []NoOverrun
<1>1. Init => NoOverrun
  BY DEF Init, NoOverrun
<1>2. IInv /\ NoOverrun /\ [Next]_vars /\ (open \/ pc = "destroyed")
        /\ (open \/ pc = "destroyed")' /\ [rd' # rd + 1]_rd => NoOverrun'
  <2> SUFFICES ASSUME IInv, pc # "overrun", [Next]_vars, [rd' # rd + 1]_rd,
                      (open \/ pc = "destroyed")', pc' = "overrun"
               PROVE  FALSE
    BY DEF NoOverrun
  <2>1. Next
    BY DEF vars
  <2>2. open
    BY <2>1, OverrunCause
  <2>3. rd' = rd + 1 /\ rd \in Nat
    BY <2>1, <2>2, OverrunCause, SentNat DEF IInv, TypeOK, ClientTypeOK
  <2> QED
    BY <2>3
<1> QED
  BY <1>1, <1>2, InductiveInvariant, PTL DEF Spec
=============================================================================
