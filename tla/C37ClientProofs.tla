-------------------------- MODULE C37ClientProofs --------------------------
(***************************************************************************)
(* Theorems of C37Client, for every size of the buffer, every length of    *)
(* the frames and every number of frames, commands and changes of the      *)
(* configuration.                                                          *)
(***************************************************************************)
EXTENDS C37Client, TLAPS

\* The frames of the stream follow each other, and so do their versions.
TxOrdered ==
    /\ \A i \in DOMAIN tx :
          /\ tx[i].pos < tx[i].end
          /\ tx[i].end <= Sent
          /\ tx[i].ver <= version
    /\ \A i, j \in DOMAIN tx :
          i < j => /\ tx[i].end <= tx[j].pos
                   /\ tx[i].ver <= tx[j].ver

\* The inductive invariant: where a frame lies in the stream says when it was
\* sent, and so relates the frames the client has taken.
IInv ==
    /\ TypeOK
    /\ TxOrdered
    /\ WholeFramesOnly
    /\ ValuesMatchTimestamp
----------------------------------------------------------------------------
LEMMA SentNat == TypeOK => Sent \in Nat
<1> SUFFICES ASSUME TypeOK PROVE Sent \in Nat
  OBVIOUS
<1>1. tx \in Seq(Frame)
  BY DEF TypeOK, ServerTypeOK
<1>2. CASE tx = <<>>
  BY <1>2 DEF Sent
<1>3. CASE tx # <<>>
  <2>1. tx[Len(tx)] \in Frame
    BY <1>1, <1>3
  <2> QED
    BY <2>1, <1>3 DEF Sent, Frame
<1> QED
  BY <1>2, <1>3

LEMMA InitIInv == Init => IInv
<1> SUFFICES ASSUME Init PROVE IInv
  OBVIOUS
<1>1. ServerTypeOK
  BY ClientAssumption DEF Init, ServerTypeOK, Versions
<1>2. ClientTypeOK
  <2>1. Len(tx) = 0 /\ Sent = 0
    BY DEF Init, Sent
  <2> QED
    BY <2>1 DEF Init, ClientTypeOK
<1>3. HeapTypeOK
  BY DEF Init, HeapTypeOK
<1>5. FlagsTypeOK
  BY DEF Init, FlagsTypeOK
<1>4. TxOrdered /\ WholeFramesOnly /\ ValuesMatchTimestamp
  BY DEF Init, TxOrdered, WholeFramesOnly, ValuesMatchTimestamp
<1> QED
  BY <1>1, <1>2, <1>3, <1>4, <1>5 DEF IInv, TypeOK

\* Sending a frame appends it behind the bytes already sent.
LEMMA TransmitFacts ==
  ASSUME TypeOK, NEW kind \in {"cfg", "data"}, Transmit(kind)
  PROVE  /\ tx' \in Seq(Frame)
         /\ Len(tx') = Len(tx) + 1
         /\ \A i \in DOMAIN tx : tx'[i] = tx[i]
         /\ tx'[Len(tx')].ver = version
         /\ tx'[Len(tx')].pos = Sent
         /\ tx'[Len(tx')].end > Sent
         /\ Sent' = tx'[Len(tx')].end
<1> DEFINE len == IF kind = "cfg" THEN CfgLen[version] ELSE DataLen[version]
           f == [kind |-> kind, ver |-> version, pos |-> Sent, end |-> Sent + len]
<1>1. Sent \in Nat
  BY SentNat
<1>2. len \in Nat \ {0}
  BY ClientAssumption DEF TypeOK, ServerTypeOK
<1>3. f \in Frame
  BY <1>1, <1>2 DEF Frame, TypeOK, ServerTypeOK
<1>4. tx' = Append(tx, f)
  BY DEF Transmit
<1>5. tx \in Seq(Frame)
  BY DEF TypeOK, ServerTypeOK
<1> HIDE DEF f
<1>6. /\ tx' \in Seq(Frame)
      /\ Len(tx') = Len(tx) + 1
      /\ \A i \in DOMAIN tx : tx'[i] = tx[i]
      /\ tx'[Len(tx')] = f
  BY <1>3, <1>4, <1>5
<1>7. Sent' = tx'[Len(tx')].end
  BY <1>6, <1>5 DEF Sent
<1>8. f.ver = version /\ f.pos = Sent /\ f.end > Sent
  BY <1>1, <1>2 DEF f
<1> QED
  BY <1>6, <1>7, <1>8

\* A frame appended to the stream keeps the order, and the client's registers
\* still refer to the frames they did.
LEMMA TransmitKeeps ==
  ASSUME IInv, NEW kind \in {"cfg", "data"}, Transmit(kind),
         UNCHANGED <<serverId, version, pc, rd, data, ret>>
  PROVE  /\ ClientTypeOK' /\ HeapTypeOK'
         /\ TxOrdered' /\ WholeFramesOnly' /\ ValuesMatchTimestamp'
<1>1. /\ TypeOK /\ TxOrdered /\ WholeFramesOnly /\ ValuesMatchTimestamp
      /\ ServerTypeOK /\ ClientTypeOK /\ HeapTypeOK
  BY DEF IInv, TypeOK
<1>2. /\ tx' \in Seq(Frame)
      /\ Len(tx') = Len(tx) + 1
      /\ \A i \in DOMAIN tx : tx'[i] = tx[i]
      /\ tx'[Len(tx')].ver = version
      /\ tx'[Len(tx')].pos = Sent
      /\ tx'[Len(tx')].end > Sent
      /\ Sent' = tx'[Len(tx')].end
  BY <1>1, TransmitFacts
<1>3. tx \in Seq(Frame) /\ Sent \in Nat /\ version \in Nat
  BY <1>1, SentNat, ClientAssumption DEF ServerTypeOK, Versions
<1>4. Len(tx) \in Nat /\ DOMAIN tx = 1 .. Len(tx) /\ DOMAIN tx' = 1 .. Len(tx) + 1
  BY <1>2, <1>3
<1>5. tx'[Len(tx) + 1] \in Frame /\ \A i \in DOMAIN tx : tx[i] \in Frame
  BY <1>2, <1>3, <1>4
<1>6. ClientTypeOK'
  <2>1. rd \in 0 .. Sent'
    BY <1>1, <1>2, <1>3, <1>4, <1>5 DEF ClientTypeOK, Frame
  <2>2. {cfg, dat, val} \subseteq 0 .. Len(tx')
    BY <1>1, <1>2, <1>4 DEF ClientTypeOK
  <2> QED
    BY <1>1, <2>1, <2>2 DEF ClientTypeOK, data
<1>7. HeapTypeOK'
  <2>1. DOMAIN tx \subseteq DOMAIN tx'
    BY <1>4
  <2> QED
    BY <1>1, <2>1 DEF HeapTypeOK, data
<1>8. TxOrdered'
  <2>1. ASSUME NEW i \in DOMAIN tx'
        PROVE  tx'[i].pos < tx'[i].end /\ tx'[i].end <= Sent' /\ tx'[i].ver <= version'
    <3>1. CASE i \in DOMAIN tx
      BY <3>1, <1>1, <1>2, <1>3, <1>4, <1>5, SMTT(30) DEF TxOrdered, Frame
    <3>2. CASE i = Len(tx) + 1
      BY <3>2, <1>2, <1>3, <1>4, <1>5 DEF Frame
    <3> QED
      BY <3>1, <3>2, <1>4
  <2>2. ASSUME NEW i \in DOMAIN tx', NEW j \in DOMAIN tx', i < j
        PROVE  tx'[i].end <= tx'[j].pos /\ tx'[i].ver <= tx'[j].ver
    <3>1. i \in DOMAIN tx
      BY <2>2, <1>4
    <3>2. CASE j \in DOMAIN tx
      BY <3>1, <3>2, <2>2, <1>1, <1>2 DEF TxOrdered
    <3>3. CASE j = Len(tx) + 1
      BY <3>1, <3>3, <1>1, <1>2, <1>4 DEF TxOrdered
    <3> QED
      BY <3>2, <3>3, <1>4
  <2> QED
    BY <2>1, <2>2 DEF TxOrdered
<1>9. WholeFramesOnly'
  <2>1. cfg # 0 => cfg \in DOMAIN tx
    BY <1>1, <1>4 DEF ClientTypeOK
  <2>2. dat # 0 => dat \in DOMAIN tx
    BY <1>1, <1>4 DEF ClientTypeOK
  <2> QED
    BY <1>1, <1>2, <2>1, <2>2 DEF WholeFramesOnly, WholeFrame, idcode, data
<1>10. ValuesMatchTimestamp'
  BY <1>1 DEF ValuesMatchTimestamp, data
<1> QED
  BY <1>6, <1>7, <1>8, <1>9, <1>10

\* A step that leaves the stream and the client's data alone.
LEMMA ControlKeeps ==
  ASSUME IInv, UNCHANGED <<serverId, tx, rd, cfg, dat, val>>
  PROVE  WholeFramesOnly' /\ ValuesMatchTimestamp' /\ Sent' = Sent
  BY DEF IInv, WholeFramesOnly, WholeFrame, ValuesMatchTimestamp, idcode, Sent

LEMMA ControlKeepsOrder ==
  ASSUME IInv, UNCHANGED <<tx, version>>
  PROVE  TxOrdered'
<1>1. Sent' = Sent
  BY DEF Sent
<1> QED
  BY <1>1 DEF IInv, TxOrdered
----------------------------------------------------------------------------
\* The steps of the server.
LEMMA ServerIInv == IInv /\ Server => IInv'
<1> SUFFICES ASSUME IInv, Server PROVE IInv'
  OBVIOUS
<1>1. FlagsTypeOK /\ ServerTypeOK /\ ClientTypeOK /\ HeapTypeOK
  BY DEF IInv, TypeOK
<1>2. CASE ServeCommand
  <2>1. FlagsTypeOK'
    <3>1. UNCHANGED <<open, running>> /\ streaming' \in {TRUE, FALSE, streaming}
      BY <1>2 DEF ServeCommand
    <3> QED
      BY <3>1, <1>1 DEF FlagsTypeOK
  <2>2. /\ UNCHANGED <<serverId, version, cmds, pc, rd, data, ret>>
        /\ served' \in 0 .. Len(cmds)
    BY <1>1, <1>2 DEF ServeCommand, ServerTypeOK
  <2>3. CASE UNCHANGED tx
    <3>1. ServerTypeOK'
      BY <1>1, <2>2, <2>3 DEF ServerTypeOK
    <3>2. ClientTypeOK' /\ HeapTypeOK'
      BY <1>1, <2>2, <2>3, ControlKeeps DEF ClientTypeOK, HeapTypeOK, data
    <3> QED
      BY <2>1, <2>2, <2>3, <3>1, <3>2, ControlKeeps, ControlKeepsOrder
         DEF IInv, TypeOK, data
  <2>4. CASE Transmit("cfg")
    <3>1. tx' \in Seq(Frame)
      BY <2>4, TransmitFacts DEF IInv
    <3>2. ServerTypeOK'
      BY <1>1, <2>2, <3>1 DEF ServerTypeOK
    <3> QED
      BY <2>1, <2>2, <2>4, <3>2, TransmitKeeps DEF IInv, TypeOK
  <2> QED
    BY <1>2, <2>3, <2>4 DEF ServeCommand
<1>3. CASE SendData
  <2>1. FlagsTypeOK'
    BY <1>1, <1>3 DEF SendData, FlagsTypeOK
  <2>2. tx' \in Seq(Frame)
    BY <1>3, TransmitFacts DEF IInv, SendData
  <2>3. ServerTypeOK'
    BY <1>1, <1>3, <2>2 DEF ServerTypeOK, SendData
  <2> QED
    BY <1>3, <2>1, <2>3, TransmitKeeps DEF IInv, TypeOK, SendData
<1>4. CASE Reconfigure
  <2>1. FlagsTypeOK'
    BY <1>1, <1>4 DEF Reconfigure, FlagsTypeOK
  <2>2. ServerTypeOK'
    BY <1>1, <1>4, ClientAssumption DEF Reconfigure, ServerTypeOK, Versions
  <2>3. ClientTypeOK' /\ HeapTypeOK'
    BY <1>1, <1>4, ControlKeeps DEF Reconfigure, ClientTypeOK, HeapTypeOK, data
  <2>4. TxOrdered'
    <3>1. Sent' = Sent /\ tx' = tx
      BY <1>4 DEF Reconfigure, Sent
    <3>2. \A i \in DOMAIN tx : tx[i].ver <= version'
      <4>1. \A i \in DOMAIN tx : tx[i] \in Frame
        BY <1>1 DEF ServerTypeOK
      <4> QED
        BY <4>1, <1>1, <1>4, ClientAssumption
           DEF IInv, TxOrdered, Reconfigure, ServerTypeOK, Versions, Frame
    <3> QED
      BY <3>1, <3>2 DEF IInv, TxOrdered
  <2> QED
    BY <1>4, <2>1, <2>2, <2>3, <2>4, ControlKeeps DEF IInv, TypeOK, Reconfigure, data
<1>5. CASE PeerClose
  <2>1. FlagsTypeOK'
    BY <1>1, <1>5 DEF PeerClose, FlagsTypeOK
  <2>2. ServerTypeOK'
    BY <1>1, <1>5 DEF PeerClose, ServerTypeOK
  <2>3. ClientTypeOK' /\ HeapTypeOK'
    BY <1>1, <1>5, ControlKeeps DEF PeerClose, ClientTypeOK, HeapTypeOK, data
  <2> QED
    BY <1>5, <2>1, <2>2, <2>3, ControlKeeps, ControlKeepsOrder
       DEF IInv, TypeOK, PeerClose, data
<1> QED
  BY <1>2, <1>3, <1>4, <1>5 DEF Server
----------------------------------------------------------------------------
\* A read moves forward, within what was sent.
LEMMA ReadFacts ==
  ASSUME IInv, NEW n \in Socket_read, Consume(n)
  PROVE  /\ n \in Int /\ n <= BUFER_LENGTH
         /\ rd \in Nat /\ Sent \in Nat
         /\ rd' \in 0 .. Sent /\ rd <= rd'
         /\ n > 0 => rd' = rd + n
<1>1. rd \in 0 .. Sent
  BY DEF IInv, TypeOK, ClientTypeOK
<1>2. Sent \in Nat
  BY SentNat DEF IInv
<1>3. n \in Int /\ n <= BUFER_LENGTH /\ (n > 0 => rd + n <= Sent)
  BY ClientAssumption DEF Socket_read
<1> QED
  BY <1>1, <1>2, <1>3 DEF Consume

\* The frame that an accepted read holds is later in the stream than both
\* frames the client holds, and the read ends where it ends.
LEMMA AcceptedIsAhead ==
  ASSUME IInv, NEW n \in Socket_read, Consume(n),
         NEW kind \in {"cfg", "data"}, NEW i \in DOMAIN tx, Accepts(n, kind, i)
  PROVE  /\ tx[i].kind = kind
         /\ serverId = idcode
         /\ tx[i].end = rd'
         /\ tx[i].end - tx[i].pos <= BUFER_LENGTH
         /\ i > cfg /\ i > dat
         /\ i \in 1 .. Len(tx)
<1>1. tx[i].pos = rd /\ tx[i].end = rd + n /\ tx[i].kind = kind /\ serverId = idcode
  BY DEF Accepts
<1>2. tx \in Seq(Frame) /\ TxOrdered /\ ClientTypeOK /\ WholeFramesOnly
  BY DEF IInv, TypeOK, ServerTypeOK
<1>3. \A j \in DOMAIN tx : tx[j] \in Frame
  BY <1>2
<1>4. DOMAIN tx = 1 .. Len(tx) /\ Len(tx) \in Nat
  BY <1>2
<1>5. n \in Int /\ n <= BUFER_LENGTH /\ rd \in Nat /\ (n > 0 => rd' = rd + n)
  BY ReadFacts
<1>6. rd < rd + n
  BY <1>1, <1>2 DEF TxOrdered
<1>7. n > 0
  BY <1>5, <1>6
<1>8. ASSUME NEW j \in DOMAIN tx, tx[j].end <= rd
      PROVE  j < i
  <2>1. tx[j] \in Frame /\ tx[i] \in Frame /\ i \in Int /\ j \in Int
    BY <1>3, <1>4
  <2>2. j # i
    BY <1>1, <1>5, <1>7, <1>8
  <2>3. ~(i < j)
    <3>1. SUFFICES ASSUME i < j PROVE FALSE
      OBVIOUS
    <3>2. tx[i].end <= tx[j].pos /\ tx[j].pos < tx[j].end
      BY <3>1, <1>2 DEF TxOrdered
    <3> QED
      BY <3>2, <2>1, <1>1, <1>5, <1>6, <1>8 DEF Frame
  <2> QED
    BY <2>1, <2>2, <2>3
<1>9. cfg \in 0 .. Len(tx) /\ dat \in 0 .. Len(tx)
  BY <1>2 DEF ClientTypeOK
<1>10. i > cfg
  <2>1. CASE cfg = 0
    BY <2>1, <1>4
  <2>2. CASE cfg # 0
    <3>1. cfg \in DOMAIN tx /\ tx[cfg].end <= rd
      BY <2>2, <1>2, <1>4, <1>9 DEF WholeFramesOnly, WholeFrame
    <3> QED
      BY <3>1, <1>8, <1>4
  <2> QED
    BY <2>1, <2>2
<1>11. i > dat
  <2>1. CASE dat = 0
    BY <2>1, <1>4
  <2>2. CASE dat # 0
    <3>1. dat \in DOMAIN tx /\ tx[dat].end <= rd
      BY <2>2, <1>2, <1>4, <1>9 DEF WholeFramesOnly, WholeFrame
    <3> QED
      BY <3>1, <1>8, <1>4
  <2> QED
    BY <2>1, <2>2
<1> QED
  BY <1>1, <1>4, <1>5, <1>7, <1>10, <1>11

\* A read that leaves the data alone, or installs a configuration or the
\* values of a frame that was accepted.
LEMMA ReadKeeps ==
  ASSUME IInv, NEW n \in Socket_read, Consume(n),
         UNCHANGED <<server, cmds, running>>,
         pc' \in {"idle", "overrun"}, ret' \in {"none", "cfg", "data", "fail"},
         \/ UNCHANGED data
         \/ \E i \in DOMAIN tx : Accepts(n, "cfg", i) /\ InstallConfiguration(i)
         \/ \E i \in DOMAIN tx : Accepts(n, "data", i) /\ InstallData(i)
  PROVE  IInv'
<1>1. FlagsTypeOK /\ ServerTypeOK /\ ClientTypeOK /\ HeapTypeOK
  BY DEF IInv, TypeOK
<1>2. WholeFramesOnly /\ ValuesMatchTimestamp
  BY DEF IInv
<1>3. FlagsTypeOK'
  BY <1>1 DEF FlagsTypeOK, server
<1>4. ServerTypeOK'
  BY <1>1 DEF ServerTypeOK, server
<1>5. TxOrdered'
  BY ControlKeepsOrder DEF server
<1>6. /\ UNCHANGED <<tx, serverId>> /\ Sent' = Sent
      /\ rd' \in 0 .. Sent /\ rd <= rd' /\ rd \in Nat
  BY ReadFacts DEF server, Sent
<1>7. \A i \in DOMAIN tx : tx[i] \in Frame
  BY <1>1 DEF ServerTypeOK
<1>8. DOMAIN tx = 1 .. Len(tx) /\ Len(tx) \in Nat
  BY <1>1 DEF ServerTypeOK
<1>9. cfg # 0 => cfg \in DOMAIN tx /\ tx[cfg].end <= rd'
  BY <1>1, <1>2, <1>6, <1>7, <1>8 DEF ClientTypeOK, WholeFramesOnly, WholeFrame, Frame
<1>10. dat # 0 => dat \in DOMAIN tx /\ tx[dat].end <= rd'
  BY <1>1, <1>2, <1>6, <1>7, <1>8 DEF ClientTypeOK, WholeFramesOnly, WholeFrame, Frame
<1>11. CASE UNCHANGED data
  <2>1. ClientTypeOK' /\ HeapTypeOK'
    BY <1>1, <1>6, <1>11 DEF ClientTypeOK, HeapTypeOK, data
  <2>2. WholeFramesOnly'
    BY <1>2, <1>6, <1>9, <1>10, <1>11 DEF WholeFramesOnly, WholeFrame, idcode, data
  <2>3. ValuesMatchTimestamp'
    BY <1>2, <1>11 DEF ValuesMatchTimestamp, data
  <2> QED
    BY <1>3, <1>4, <1>5, <2>1, <2>2, <2>3 DEF IInv, TypeOK
<1>12. ASSUME NEW i \in DOMAIN tx, Accepts(n, "cfg", i), InstallConfiguration(i)
       PROVE  IInv'
  <2>1. cfg' = i /\ val' = 0 /\ dat' = dat
    BY <1>12 DEF InstallConfiguration
  <2>2. /\ tx[i].kind = "cfg" /\ serverId = idcode /\ tx[i].end = rd'
        /\ tx[i].end - tx[i].pos <= BUFER_LENGTH
        /\ i \in 1 .. Len(tx)
    BY <1>12, AcceptedIsAhead
  <2>3. ClientTypeOK'
    BY <1>1, <1>6, <1>8, <2>1, <2>2 DEF ClientTypeOK
  <2>4. HeapTypeOK'
    BY <1>1, <1>6, <1>12 DEF HeapTypeOK, InstallConfiguration
  <2>5. WholeFramesOnly'
    BY <1>2, <1>6, <1>7, <1>10, <2>1, <2>2
       DEF WholeFramesOnly, WholeFrame, idcode, Frame
  <2>6. ValuesMatchTimestamp'
    BY <2>1 DEF ValuesMatchTimestamp
  <2> QED
    BY <1>3, <1>4, <1>5, <2>3, <2>4, <2>5, <2>6 DEF IInv, TypeOK
<1>13. ASSUME NEW i \in DOMAIN tx, Accepts(n, "data", i), InstallData(i)
       PROVE  IInv'
  <2>1. dat' = i /\ val' \in {0, i} /\ (val' # 0 => cfg # 0) /\ cfg' = cfg
    BY <1>13 DEF InstallData, HasPmus
  <2>2. /\ tx[i].kind = "data" /\ serverId = idcode /\ tx[i].end = rd'
        /\ tx[i].end - tx[i].pos <= BUFER_LENGTH
        /\ i \in 1 .. Len(tx) /\ cfg < i
    BY <1>1, <1>13, AcceptedIsAhead DEF ClientTypeOK
  <2>3. ClientTypeOK'
    BY <1>1, <1>6, <1>8, <2>1, <2>2 DEF ClientTypeOK
  <2>4. HeapTypeOK'
    BY <1>1, <1>6, <1>13 DEF HeapTypeOK, InstallData
  <2>5. WholeFramesOnly'
    BY <1>2, <1>6, <1>7, <1>9, <2>1, <2>2
       DEF WholeFramesOnly, WholeFrame, idcode, Frame
  <2>6. ValuesMatchTimestamp'
    BY <2>1, <2>2 DEF ValuesMatchTimestamp
  <2> QED
    BY <1>3, <1>4, <1>5, <2>3, <2>4, <2>5, <2>6 DEF IInv, TypeOK
<1> QED
  BY <1>11, <1>12, <1>13
----------------------------------------------------------------------------
\* The two reading steps are of the form of ReadKeeps.
LEMMA ReadIInv == IInv /\ (getConfigurationRead \/ getDataStreamRead) => IInv'
<1> SUFFICES ASSUME IInv, getConfigurationRead \/ getDataStreamRead PROVE IInv'
  OBVIOUS
<1>1. ret \in {"none", "cfg", "data", "fail"}
  BY DEF IInv, TypeOK, ClientTypeOK
<1>2. CASE getConfigurationRead
  <2>1. PICK n \in Socket_read : Consume(n) /\ parseConfigurationFrame(n)
    BY <1>2 DEF getConfigurationRead
  <2>2. UNCHANGED <<server, cmds, running>>
    BY <1>2 DEF getConfigurationRead
  <2>3. pc' \in {"idle", "overrun"} /\ ret' \in {"none", "cfg", "data", "fail"}
    BY <1>1, <2>1 DEF parseConfigurationFrame
  <2>4. \/ UNCHANGED data
        \/ \E i \in DOMAIN tx : Accepts(n, "cfg", i) /\ InstallConfiguration(i)
    BY <2>1 DEF parseConfigurationFrame
  <2> QED
    BY <2>1, <2>2, <2>3, <2>4, ReadKeeps
<1>3. CASE getDataStreamRead
  <2>1. PICK n \in Socket_read : Consume(n) /\ parseDataFrame(n)
    BY <1>3 DEF getDataStreamRead
  <2>2. UNCHANGED <<server, cmds, running>>
    BY <1>3 DEF getDataStreamRead
  <2>3. pc' \in {"idle", "overrun"} /\ ret' \in {"none", "cfg", "data", "fail"}
    BY <1>1, <2>1 DEF parseDataFrame
  <2>4. \/ UNCHANGED data
        \/ \E i \in DOMAIN tx : Accepts(n, "data", i) /\ InstallData(i)
    BY <2>1 DEF parseDataFrame
  <2> QED
    BY <2>1, <2>2, <2>3, <2>4, ReadKeeps
<1> QED
  BY <1>2, <1>3

\* A step of the client that reads nothing.
LEMMA CallKeeps ==
  ASSUME IInv, UNCHANGED <<serverId, version, served, tx, rd, cfg, dat, val>>,
         FlagsTypeOK', HeapTypeOK',
         cmds' \in Seq(Command), Len(cmds') >= Len(cmds),
         pc' \in {"idle", "getConfiguration", "getDataStream", "badAccess", "destroyed"},
         ret' \in {"none", "cfg", "data", "fail"}
  PROVE  IInv'
<1>1. ServerTypeOK /\ ClientTypeOK
  BY DEF IInv, TypeOK
<1>2. cmds \in Seq(Command) /\ served \in 0 .. Len(cmds)
  BY <1>1 DEF ServerTypeOK
<1>3. served' \in 0 .. Len(cmds')
  BY <1>2
<1>4. ServerTypeOK'
  BY <1>1, <1>3 DEF ServerTypeOK
<1>5. ClientTypeOK'
  BY <1>1, ControlKeeps DEF ClientTypeOK
<1> QED
  BY <1>4, <1>5, ControlKeeps, ControlKeepsOrder DEF IInv, TypeOK

\* A command is appended, or lost on a closed connection.
LEMMA WriteFacts ==
  ASSUME IInv, NEW c \in Command, Socket_write(c)
  PROVE  cmds' \in Seq(Command) /\ Len(cmds') >= Len(cmds)
<1>1. cmds \in Seq(Command)
  BY DEF IInv, TypeOK, ServerTypeOK
<1>2. CASE open
  <2>1. cmds' = Append(cmds, c)
    BY <1>2 DEF Socket_write
  <2> QED
    BY <1>1, <2>1
<1>3. CASE ~open
  <2>1. cmds' = cmds
    BY <1>3 DEF Socket_write
  <2> QED
    BY <1>1, <2>1
<1> QED
  BY <1>2, <1>3

\* The calls that show what the client holds change nothing of it.
LEMMA OutputFacts ==
  ASSUME Output
  PROVE  /\ pc = "idle" /\ pc' \in {"idle", "badAccess"} /\ ret' = "none"
         /\ UNCHANGED <<server, cmds, rd, running, data>>
<1>1. CASE getConf_pmu
  BY <1>1 DEF getConf_pmu
<1>2. CASE \E bad \in BOOLEAN : Show(bad)
  BY <1>2 DEF Show
<1>3. /\ (cfg = 0) \in BOOLEAN /\ (dat = 0) \in BOOLEAN
      /\ ShowPmu => \E bad \in BOOLEAN : Show(bad)
  BY DEF ShowPmu
<1> QED
  BY <1>1, <1>2, <1>3 DEF Output, printConfiguration, getConf_pdc,
     getConf_pmu_stationName, getConf_pmu_channelName, getConf_pmu_analogs,
     printDataStream, outputDataStream, outputDataStream_status

LEMMA ClientIInv == IInv /\ Client => IInv'
<1> SUFFICES ASSUME IInv, Client PROVE IInv'
  OBVIOUS
<1>1. FlagsTypeOK /\ HeapTypeOK
  BY DEF IInv, TypeOK
<1>2. cmds \in Seq(Command) /\ Len(cmds) >= Len(cmds)
  BY DEF IInv, TypeOK, ServerTypeOK
<1>3. ret \in {"none", "cfg", "data", "fail"}
  BY DEF IInv, TypeOK, ClientTypeOK
<1>4. CASE stopTransmission
  <2>1. FlagsTypeOK' /\ HeapTypeOK'
    BY <1>1, <1>4 DEF stopTransmission, FlagsTypeOK, HeapTypeOK, server, data
  <2>2. cmds' \in Seq(Command) /\ Len(cmds') >= Len(cmds)
    BY <1>4, WriteFacts DEF stopTransmission, Command
  <2> QED
    BY <1>4, <2>1, <2>2, CallKeeps DEF stopTransmission, server, data
<1>5. CASE startTransmission
  <2>1. FlagsTypeOK' /\ HeapTypeOK'
    BY <1>1, <1>5 DEF startTransmission, FlagsTypeOK, HeapTypeOK, server, data
  <2>2. cmds' \in Seq(Command) /\ Len(cmds') >= Len(cmds)
    BY <1>5, WriteFacts DEF startTransmission, Command
  <2> QED
    BY <1>5, <2>1, <2>2, CallKeeps DEF startTransmission, server, data
<1>6. CASE getConfiguration
  <2>1. FlagsTypeOK' /\ HeapTypeOK'
    BY <1>1, <1>6 DEF getConfiguration, FlagsTypeOK, HeapTypeOK, server, data
  <2>2. cmds' \in Seq(Command) /\ Len(cmds') >= Len(cmds)
    BY <1>6, WriteFacts DEF getConfiguration, Command
  <2> QED
    BY <1>6, <2>1, <2>2, CallKeeps DEF getConfiguration, server, data
<1>7. CASE getDataStream
  <2>1. FlagsTypeOK' /\ HeapTypeOK'
    BY <1>1, <1>7 DEF getDataStream, FlagsTypeOK, HeapTypeOK, server, data
  <2> QED
    BY <1>2, <1>7, <2>1, CallKeeps DEF getDataStream, server, data
<1>8. CASE Output
  <2>1. UNCHANGED <<server, cmds, rd, running, data>> /\ ret' = "none"
    BY <1>8, OutputFacts
  <2>2. FlagsTypeOK' /\ HeapTypeOK'
    BY <1>1, <2>1 DEF FlagsTypeOK, HeapTypeOK, server, data
  <2>3. pc' \in {"idle", "badAccess"}
    BY <1>8, OutputFacts
  <2> QED
    BY <1>2, <2>1, <2>2, <2>3, CallKeeps DEF server, data
<1>10. CASE destroy
  <2>1. FlagsTypeOK'
    BY <1>1, <1>10 DEF destroy, FlagsTypeOK
  <2>2. HeapTypeOK'
    BY <1>1, <1>10 DEF destroy, HeapTypeOK
  <2> QED
    BY <1>2, <1>3, <1>10, <2>1, <2>2, CallKeeps DEF destroy
<1>11. CASE getConfigurationRead \/ getDataStreamRead
  BY <1>11, ReadIInv
<1> QED
  BY <1>4, <1>5, <1>6, <1>7, <1>8, <1>10, <1>11 DEF Client

LEMMA StutterIInv == IInv /\ UNCHANGED vars => IInv'
<1> SUFFICES ASSUME IInv, UNCHANGED vars PROVE IInv'
  OBVIOUS
<1>1. FlagsTypeOK /\ HeapTypeOK /\ ServerTypeOK /\ ClientTypeOK
  BY DEF IInv, TypeOK
<1>2. FlagsTypeOK' /\ HeapTypeOK'
  BY <1>1 DEF FlagsTypeOK, HeapTypeOK, vars, server, data
<1>3. ServerTypeOK'
  BY <1>1 DEF ServerTypeOK, vars, server
<1>4. ClientTypeOK'
  BY <1>1, ControlKeeps DEF ClientTypeOK, vars, server, data
<1> QED
  BY <1>2, <1>3, <1>4, ControlKeeps, ControlKeepsOrder DEF IInv, TypeOK, vars, server, data

THEOREM InductiveInvariant == Spec => []IInv
<1>1. IInv /\ [Next]_vars => IInv'
  BY ServerIInv, ClientIInv, StutterIInv DEF Next
<1> QED
  BY InitIInv, <1>1, PTL DEF Spec
----------------------------------------------------------------------------
\* Every variable keeps its type, and the client's registers refer to frames
\* that were sent.
THEOREM TypeCorrect == Spec => []TypeOK
<1>1. IInv => TypeOK
  BY DEF IInv
<1> QED
  BY <1>1, InductiveInvariant, PTL

\* Whatever the sizes of frames and reads, the checks of the two parse
\* functions let only whole frames of the addressed server through.
THEOREM OnlyWholeFrames == Spec => []WholeFramesOnly
<1>1. IInv => WholeFramesOnly
  BY DEF IInv
<1> QED
  BY <1>1, InductiveInvariant, PTL

\* The values of the channels, the time stamp and the configuration belong
\* together in every order of the get calls.
THEOREM ValuesAndTimestampAgree == Spec => []ValuesMatchTimestamp
<1>1. IInv => ValuesMatchTimestamp
  BY DEF IInv
<1> QED
  BY <1>1, InductiveInvariant, PTL

\* Data are decoded under the configuration they were encoded under, unless
\* the server has left it since.
THEOREM DecodingConsistent == Spec => []DecodeConsistent
<1>1. IInv => DecodeConsistent
  <2> SUFFICES ASSUME IInv, val # 0, tx[cfg].ver = version
               PROVE  tx[val].ver = tx[cfg].ver
    BY DEF DecodeConsistent
  <2>1. tx \in Seq(Frame) /\ version \in Versions /\ ClientTypeOK /\ TxOrdered
    BY DEF IInv, TypeOK, ServerTypeOK
  <2>2. cfg < val /\ cfg # 0
    BY DEF IInv, ValuesMatchTimestamp
  <2>3. cfg \in DOMAIN tx /\ val \in DOMAIN tx
    BY <2>1, <2>2 DEF ClientTypeOK
  <2>4. tx[cfg].ver <= tx[val].ver /\ tx[val].ver <= version
    BY <2>1, <2>2, <2>3 DEF TxOrdered
  <2>5. tx[val].ver \in Int /\ version \in Int
    <3>1. tx[val] \in Frame
      BY <2>1, <2>3
    <3> QED
      BY <2>1, <3>1, ClientAssumption DEF Frame, Versions
  <2> QED
    BY <2>4, <2>5
<1> QED
  BY <1>1, InductiveInvariant, PTL
----------------------------------------------------------------------------
\* Frames are only ever appended to the stream, one at a time.
LEMMA TransmitPublishes ==
  ASSUME IInv, NEW kind \in {"cfg", "data"}, Transmit(kind), UNCHANGED data
  PROVE  Feed!Publish
  BY TransmitFacts DEF IInv, Feed!Publish, data

\* An accepted frame is one the feed lets the client take.
LEMMA ReadTakes ==
  IInv /\ (getConfigurationRead \/ getDataStreamRead) => [Feed!FeedNext]_(Feed!feedVars)
<1> SUFFICES ASSUME IInv, getConfigurationRead \/ getDataStreamRead
             PROVE  [Feed!FeedNext]_(Feed!feedVars)
  OBVIOUS
<1>1. UNCHANGED tx
  BY DEF getConfigurationRead, getDataStreamRead, server
<1>2. CASE UNCHANGED data
  BY <1>1, <1>2 DEF Feed!feedVars, data
<1>3. ASSUME getConfigurationRead, ~UNCHANGED data
      PROVE  Feed!TakeConfiguration
  <2>1. PICK n \in Socket_read : Consume(n) /\ parseConfigurationFrame(n)
    BY <1>3 DEF getConfigurationRead
  <2>2. PICK i \in DOMAIN tx : Accepts(n, "cfg", i) /\ InstallConfiguration(i)
    BY <1>3, <2>1 DEF parseConfigurationFrame
  <2>3. tx[i].kind = "cfg" /\ i > cfg /\ i > dat
    BY <2>1, <2>2, AcceptedIsAhead
  <2> QED
    BY <1>1, <2>2, <2>3 DEF Feed!TakeConfiguration, Feed!Ahead, InstallConfiguration
<1>4. ASSUME getDataStreamRead, ~UNCHANGED data
      PROVE  Feed!TakeMeasurements
  <2>1. PICK n \in Socket_read : Consume(n) /\ parseDataFrame(n)
    BY <1>4 DEF getDataStreamRead
  <2>2. PICK i \in DOMAIN tx : Accepts(n, "data", i) /\ InstallData(i)
    BY <1>4, <2>1 DEF parseDataFrame
  <2>3. tx[i].kind = "data" /\ i > cfg /\ i > dat
    BY <2>1, <2>2, AcceptedIsAhead
  <2> QED
    BY <1>1, <2>2, <2>3 DEF Feed!TakeMeasurements, Feed!Ahead, InstallData
<1> QED
  BY <1>2, <1>3, <1>4 DEF Feed!FeedNext

LEMMA FeedStep == IInv /\ [Next]_vars => [Feed!FeedNext]_(Feed!feedVars)
<1> SUFFICES ASSUME IInv, [Next]_vars PROVE [Feed!FeedNext]_(Feed!feedVars)
  OBVIOUS
<1>1. CASE ServeCommand
  <2>1. UNCHANGED data
    BY <1>1 DEF ServeCommand
  <2>2. CASE UNCHANGED tx
    BY <2>1, <2>2 DEF Feed!feedVars, data
  <2>3. CASE Transmit("cfg")
    BY <2>1, <2>3, TransmitPublishes DEF Feed!FeedNext
  <2> QED
    BY <1>1, <2>2, <2>3 DEF ServeCommand
<1>2. CASE SendData
  BY <1>2, TransmitPublishes DEF SendData, Feed!FeedNext
<1>3. CASE Reconfigure \/ PeerClose
  BY <1>3 DEF Reconfigure, PeerClose, Feed!feedVars, data
<1>4. CASE stopTransmission \/ startTransmission \/ getConfiguration
  BY <1>4 DEF stopTransmission, startTransmission, getConfiguration,
              Feed!feedVars, server, data
<1>5. CASE getDataStream \/ Output
  <2>1. UNCHANGED <<server, data>>
    BY <1>5, OutputFacts DEF getDataStream
  <2> QED
    BY <2>1 DEF Feed!feedVars, server, data
<1>6. CASE destroy
  BY <1>6 DEF destroy, Feed!feedVars
<1>7. CASE getConfigurationRead \/ getDataStreamRead
  BY <1>7, ReadTakes
<1>8. CASE UNCHANGED vars
  BY <1>8 DEF vars, server, data, Feed!feedVars
<1> QED
  BY <1>1, <1>2, <1>3, <1>4, <1>5, <1>6, <1>7, <1>8 DEF Next, Server, Client

\* The client implements the lossy feed: it takes frames in the order they
\* were sent, each at most once, and never goes back.
THEOREM ClientImplementsFeed == Spec => ImplementsFeed
<1>1. Init => Feed!FeedInit
  BY DEF Init, Feed!FeedInit
<1> QED
  BY <1>1, FeedStep, InductiveInvariant, PTL
     DEF Spec, ImplementsFeed, Feed!FeedSpec
----------------------------------------------------------------------------
\* No result is at hand while a get call waits: the strengthening that makes
\* OkDataIsFresh inductive.
NoResultYet == pc \in {"getConfiguration", "getDataStream"} => ret = "none"

FreshInv == NoResultYet /\ OkDataIsFresh

\* A step that leaves the client's registers alone and the frames they refer to.
LEMMA FreshKept ==
  ASSUME FreshInv, UNCHANGED <<pc, rd, data, ret>>,
         cfg # 0 => tx'[cfg] = tx[cfg], dat # 0 => tx'[dat] = tx[dat]
  PROVE  FreshInv'
<1>1. HasPmus' <=> HasPmus
  BY DEF HasPmus, data
<1> QED
  BY <1>1 DEF FreshInv, NoResultYet, OkDataIsFresh, data

\* Frames sent after those the client holds do not change them.
LEMMA TransmitFresh ==
  ASSUME IInv, FreshInv, NEW kind \in {"cfg", "data"}, Transmit(kind),
         UNCHANGED <<pc, rd, data, ret>>
  PROVE  FreshInv'
<1>1. tx \in Seq(Frame) /\ cfg \in 0 .. Len(tx) /\ dat \in 0 .. Len(tx)
  BY DEF IInv, TypeOK, ServerTypeOK, ClientTypeOK
<1>2. (cfg # 0 => cfg \in DOMAIN tx) /\ (dat # 0 => dat \in DOMAIN tx)
  BY <1>1
<1>3. (cfg # 0 => tx'[cfg] = tx[cfg]) /\ (dat # 0 => tx'[dat] = tx[dat])
  BY <1>2, TransmitFacts DEF IInv
<1> QED
  BY <1>3, FreshKept

LEMMA FreshStep == IInv /\ FreshInv /\ [Next]_vars => FreshInv'
<1> SUFFICES ASSUME IInv, FreshInv, [Next]_vars PROVE FreshInv'
  OBVIOUS
<1>1. CASE ServeCommand
  <2>1. UNCHANGED <<pc, rd, data, ret>>
    BY <1>1 DEF ServeCommand
  <2>2. CASE UNCHANGED tx
    BY <2>1, <2>2, FreshKept
  <2>3. CASE Transmit("cfg")
    BY <2>1, <2>3, TransmitFresh
  <2> QED
    BY <1>1, <2>2, <2>3 DEF ServeCommand
<1>2. CASE SendData
  BY <1>2, TransmitFresh DEF SendData
<1>3. CASE Reconfigure \/ PeerClose \/ UNCHANGED vars
  BY <1>3, FreshKept DEF Reconfigure, PeerClose, vars, server, data
<1>4. CASE \/ stopTransmission \/ startTransmission \/ getConfiguration
           \/ getDataStream \/ Output
  <2>1. ret' = "none"
    BY <1>4, OutputFacts DEF stopTransmission, startTransmission,
                             getConfiguration, getDataStream
  <2> QED
    BY <2>1 DEF FreshInv, NoResultYet, OkDataIsFresh
<1>5. CASE getConfigurationRead
  <2>1. PICK n \in Socket_read : Consume(n) /\ parseConfigurationFrame(n)
    BY <1>5 DEF getConfigurationRead
  <2>2. ret = "none"
    BY <1>5 DEF getConfigurationRead, FreshInv, NoResultYet
  <2>3. pc' \in {"overrun", "idle"} /\ ret' # "data"
    BY <2>1, <2>2 DEF parseConfigurationFrame
  <2> QED
    BY <2>3 DEF FreshInv, NoResultYet, OkDataIsFresh
<1>6. CASE getDataStreamRead
  <2>1. PICK n \in Socket_read : Consume(n) /\ parseDataFrame(n)
    BY <1>6 DEF getDataStreamRead
  <2>2. ret = "none"
    BY <1>6 DEF getDataStreamRead, FreshInv, NoResultYet
  <2>3. pc' \in {"overrun", "idle"}
    BY <2>1 DEF parseDataFrame
  <2>4. CASE ret' # "data"
    BY <2>3, <2>4 DEF FreshInv, NoResultYet, OkDataIsFresh
  <2>5. CASE ret' = "data"
    <3>1. PICK i \in DOMAIN tx : Accepts(n, "data", i) /\ InstallData(i)
      BY <2>1, <2>2, <2>5 DEF parseDataFrame
    <3>2. tx[i].end = rd' /\ i \in 1 .. Len(tx) /\ tx' = tx
      BY <1>6, <2>1, <3>1, AcceptedIsAhead DEF getDataStreamRead, server
    <3>3. dat' = i /\ cfg' = cfg /\ (HasPmus' => val' = i)
      BY <3>1, <3>2 DEF InstallData, HasPmus
    <3> QED
      BY <2>3, <3>2, <3>3 DEF FreshInv, NoResultYet, OkDataIsFresh
  <2> QED
    BY <2>4, <2>5
<1>7. CASE destroy
  <2>1. HasPmus' <=> HasPmus
    BY <1>7 DEF destroy, HasPmus
  <2> QED
    BY <1>7, <2>1 DEF destroy, FreshInv, NoResultYet, OkDataIsFresh
<1> QED
  BY <1>1, <1>2, <1>3, <1>4, <1>5, <1>6, <1>7 DEF Next, Server, Client

\* When getDataStream reports success its data are those of the bytes it just
\* read, in the channels if there is a configuration.
THEOREM ReportedDataFresh == Spec => []OkDataIsFresh
<1>1. Init => FreshInv
  BY DEF Init, FreshInv, NoResultYet, OkDataIsFresh
<1>2. FreshInv => OkDataIsFresh
  BY DEF FreshInv
<1> QED
  BY <1>1, <1>2, FreshStep, InductiveInvariant, PTL DEF Spec
============================================================================
