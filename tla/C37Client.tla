------------------------------ MODULE C37Client ------------------------------
(***************************************************************************)
(* The IEEE C37.118 client of src/src/ieeeC37_118/ieeeC37_118.c on one     *)
(* established TCP connection, together with the server (PMU or PDC) at    *)
(* the other end.  One action per call of the client's API, split where    *)
(* the call waits for the socket; the server's steps are interleaved with  *)
(* them and are modelled from how the client uses it.                      *)
(*                                                                         *)
(* The stream towards the client is the sequence tx of all frames the      *)
(* server has written, each with the range of stream bytes it occupies,    *)
(* and the number rd of bytes the client has read.  TCP keeps no frame     *)
(* boundaries: one read returns any number of the bytes in flight, so it   *)
(* may hold a fragment, exactly one frame, or pieces of several.  The      *)
(* contents of a frame are abstracted to its kind and the version of the   *)
(* configuration it was encoded under.                                     *)
(***************************************************************************)
EXTENDS Integers, Sequences

CONSTANTS
    BUFER_LENGTH,  \* size of bufferRcv, the most one read returns
    UINT32,        \* 2^32, the modulus of the length passed to computeCRC
    PmuIdCode,     \* parameters->pmuIdCode, an int32
    ServerIds,     \* the ID codes the server may be set to
    MaxVersion,    \* bound: configuration changes of the server
    CfgLen,        \* bytes of the CFG-2 frame, by configuration version
    DataLen,       \* bytes of a data frame, by configuration version
    NumPmu,        \* NUM_PMU of the CFG-2 frame, by configuration version
    MaxData,       \* bound: no data frame is sent once tx has this length
    MaxCommands    \* bound: commands the client sends

Versions == 0 .. MaxVersion

ASSUME ClientAssumption ==
    /\ BUFER_LENGTH \in Nat \ {0}
    /\ UINT32 \in Nat /\ UINT32 > BUFER_LENGTH + 3
    /\ PmuIdCode \in Nat
    /\ MaxVersion \in Nat
    /\ CfgLen \in [Versions -> Nat \ {0}]
    /\ DataLen \in [Versions -> Nat \ {0}]
    /\ NumPmu \in [Versions -> Nat]
    /\ MaxData \in Nat
    /\ MaxCommands \in Nat

VARIABLES
    \* the server and the connection
    open,        \* the server has not closed or reset the connection
    serverId,    \* the ID code the server answers to and puts in its frames
    version,     \* version of the server's current configuration
    streaming,   \* the server is sending data frames
    cmds,        \* the commands the client has put on the connection
    served,      \* how many of them the server has handled
    tx,          \* the frames the server has put on the connection
    \* the client
    pc,          \* where the client thread is
    rd,          \* bytes of the stream read so far
    running,     \* self->running
    cfg,         \* frame self->configuration was built from, 0 when NULL
    dat,         \* frame self->dataTimeStamp was parsed from, 0 when NULL
    val,         \* frame whose values the channels hold, 0 for calloc's zeros
    live,        \* blocks of the heap not freed
    ret          \* what the last get call returned, until it is used

server == <<open, serverId, version, streaming, served, tx>>
data   == <<cfg, dat, val, live>>
vars   == <<server, cmds, pc, rd, running, data, ret>>

Command == {"stop", "start", "sendCfg2"}
Frame   == [kind : {"cfg", "data"}, ver : Versions, pos : Nat, end : Nat]

\* self->idcode is the uint16 the int32 of the parameters is cut down to.
idcode == PmuIdCode % 65536

\* self->numPmu # 0: a configuration was taken and its frame announced PMUs.
HasPmus == cfg # 0 /\ NumPmu[tx[cfg].ver] # 0

\* Bytes the server has written: the end of its last frame.
Sent == IF tx = <<>> THEN 0 ELSE tx[Len(tx)].end
------------------------------------------------------------------------------
(* The state c37_118client_connect hands over: a zeroed client and a       *)
(* connection on which the server may already be streaming.                *)
Init ==
    /\ open = TRUE
    /\ serverId \in ServerIds
    /\ version = 0
    /\ streaming \in BOOLEAN
    /\ cmds = <<>>
    /\ served = 0
    /\ tx = <<>>
    /\ pc = "idle"
    /\ rd = 0
    /\ running = FALSE
    /\ cfg = 0 /\ dat = 0 /\ val = 0
    /\ live = {}
    /\ ret = "none"
------------------------------------------------------------------------------
(* The server, external to the repository.                                 *)

Transmit(kind) ==
    LET len == IF kind = "cfg" THEN CfgLen[version] ELSE DataLen[version]
    IN  tx' = Append(tx, [kind |-> kind, ver |-> version,
                          pos |-> Sent, end |-> Sent + len])

\* It handles commands in order and ignores those for another ID code.
ServeCommand ==
    /\ open
    /\ served < Len(cmds)
    /\ served' = served + 1
    /\ LET c == IF serverId = idcode THEN cmds[served + 1] ELSE "foreign"
       IN  /\ streaming' = CASE c = "start" -> TRUE
                             [] c = "stop"  -> FALSE
                             [] OTHER       -> streaming
           /\ IF c = "sendCfg2" THEN Transmit("cfg") ELSE UNCHANGED tx
    /\ UNCHANGED <<open, serverId, version, cmds, pc, rd, running, data, ret>>

SendData ==
    /\ open
    /\ streaming
    /\ Len(tx) < MaxData
    /\ Transmit("data")
    /\ UNCHANGED <<open, serverId, version, streaming, cmds, served,
                   pc, rd, running, data, ret>>

Reconfigure ==
    /\ open
    /\ version < MaxVersion
    /\ version' = version + 1
    /\ UNCHANGED <<open, serverId, streaming, cmds, served, tx,
                   pc, rd, running, data, ret>>

\* An orderly close or a reset: bytes in flight may still be read or be lost.
PeerClose ==
    /\ open
    /\ open' = FALSE
    /\ UNCHANGED <<serverId, version, streaming, cmds, served, tx,
                   pc, rd, running, data, ret>>
------------------------------------------------------------------------------
(* The socket as the client uses it.                                       *)

\* Socket_write: on a closed connection it fails, and no caller looks.
Socket_write(c) == cmds' = IF open THEN Append(cmds, c) ELSE cmds

\* The results of Socket_read other than 0, on which every caller polls
\* again: any part of the bytes in flight that fits the buffer, or -1.
Socket_read ==
    {n \in 1 .. BUFER_LENGTH : rd + n <= Sent}
        \cup (IF open THEN {} ELSE {-1})

\* uint32_t MessLen of computeCRC, called with bufferSize - 2 as an int.
MessLen(n) == IF n < 2 THEN UINT32 + n - 2 ELSE n - 2

\* computeCRC leaves the buffer: the process is killed by the bad access.
CrcOverrun(n) == MessLen(n) > BUFER_LENGTH

\* Mutant of Accepts: FRAMESIZE is not compared with the bytes read.
AcceptsAnySize(n, kind, i) ==
    /\ tx[i].pos = rd
    /\ tx[i].kind = kind
    /\ serverId = idcode

\* The n bytes read pass CRC, SYNC, FRAMESIZE and IDCODE exactly when they
\* are one whole frame of the expected kind from the expected server.
Accepts(n, kind, i) ==
    /\ tx[i].pos = rd
    /\ tx[i].end = rd + n
    /\ tx[i].kind = kind
    /\ serverId = idcode
------------------------------------------------------------------------------
(* The client.                                                             *)

\* Mutant of stopTransmission: the command carries the code of "start".
stopWithStartCode ==
    /\ pc = "idle"
    /\ Len(cmds) < MaxCommands
    /\ Socket_write("start")
    /\ running' = FALSE
    /\ ret' = "none"
    /\ UNCHANGED <<server, pc, rd, data>>

stopTransmission ==
    /\ pc = "idle"
    /\ Len(cmds) < MaxCommands
    /\ Socket_write("stop")
    /\ running' = FALSE
    /\ ret' = "none"
    /\ UNCHANGED <<server, pc, rd, data>>

startTransmission ==
    /\ pc = "idle"
    /\ Len(cmds) < MaxCommands
    /\ Socket_write("start")
    /\ running' = TRUE
    /\ ret' = "none"
    /\ UNCHANGED <<server, pc, rd, data>>

\* Mutant of getConfiguration: the command is prepared and never written.
getConfigurationUnsent ==
    /\ pc = "idle"
    /\ Len(cmds) < MaxCommands
    /\ pc' = "getConfiguration"
    /\ ret' = "none"
    /\ UNCHANGED <<server, cmds, rd, running, data>>

\* Sends the command, then waits for bytes with no limit of time.
getConfiguration ==
    /\ pc = "idle"
    /\ Len(cmds) < MaxCommands
    /\ Socket_write("sendCfg2")
    /\ pc' = "getConfiguration"
    /\ ret' = "none"
    /\ UNCHANGED <<server, rd, running, data>>

getDataStream ==
    /\ pc = "idle"
    /\ pc' = "getDataStream"
    /\ ret' = "none"
    /\ UNCHANGED <<server, cmds, rd, running, data>>

\* Mutants of InstallConfiguration: the values of the old channels are copied
\* to the new ones; the time stamp of the data is cleared with them.
InstallKeepingValues(i) ==
    /\ cfg' = i
    /\ live' = live \cup {<<"configuration", i>>, <<"parsedTime", i>>}
    /\ UNCHANGED <<dat, val>>

InstallClearingData(i) ==
    /\ cfg' = i
    /\ dat' = 0
    /\ val' = 0
    /\ live' = live \cup {<<"configuration", i>>, <<"parsedTime", i>>}

\* A new configuration and time stamp are allocated; the blocks of the ones
\* they replace are not freed.  The new channels are zero until the next data
\* frame.
InstallConfiguration(i) ==
    /\ cfg' = i
    /\ val' = 0
    /\ live' = live \cup {<<"configuration", i>>, <<"parsedTime", i>>}
    /\ UNCHANGED dat

\* Mutant of InstallData: frees a replaced time stamp, the wrong one.
InstallFreeingConfigTime(i) ==
    /\ dat' = i
    /\ val' = IF HasPmus THEN i ELSE 0
    /\ live' = (live \ {<<"parsedTime", cfg>>}) \cup {<<"parsedTime", i>>}
    /\ UNCHANGED cfg

\* parseTimeStamp allocates a new calendar time over the old one; the values
\* go to the channels of the configuration, if it has PMUs.
InstallData(i) ==
    /\ dat' = i
    /\ val' = IF HasPmus THEN i ELSE 0
    /\ live' = live \cup {<<"parsedTime", i>>}
    /\ UNCHANGED cfg

parseConfigurationFrame(n) ==
    \/ /\ CrcOverrun(n)
       /\ pc' = "overrun"
       /\ UNCHANGED <<data, ret>>
    \/ /\ ~CrcOverrun(n)
       /\ pc' = "idle"
       /\ \E i \in DOMAIN tx : Accepts(n, "cfg", i) /\ InstallConfiguration(i)
       /\ ret' = "cfg"
    \/ /\ ~CrcOverrun(n)
       /\ pc' = "idle"
       /\ ~\E i \in DOMAIN tx : Accepts(n, "cfg", i)
       /\ ret' \in {"cfg", "fail"}  \* no return statement: any value
       /\ UNCHANGED data

\* Mutant of parseDataFrame: a frame that is rejected is reported as read.
parseReportingSuccess(n) ==
    /\ ~CrcOverrun(n)
    /\ pc' = "idle"
    /\ ret' = "data"
    /\ \/ \E i \in DOMAIN tx : Accepts(n, "data", i) /\ InstallData(i)
       \/ ~(\E i \in DOMAIN tx : Accepts(n, "data", i)) /\ UNCHANGED data

parseDataFrame(n) ==
    \/ /\ CrcOverrun(n)
       /\ pc' = "overrun"
       /\ UNCHANGED <<data, ret>>
    \/ /\ ~CrcOverrun(n)
       /\ pc' = "idle"
       /\ \E i \in DOMAIN tx : Accepts(n, "data", i) /\ InstallData(i)
       /\ ret' = "data"
    \/ /\ ~CrcOverrun(n)
       /\ pc' = "idle"
       /\ ~\E i \in DOMAIN tx : Accepts(n, "data", i)
       /\ ret' = "fail"
       /\ UNCHANGED data

\* Mutant of Consume: the size of the buffer is taken for the bytes read.
ConsumeBuffer(n) == rd' = IF n > 0 THEN rd + BUFER_LENGTH ELSE rd

Consume(n) == rd' = IF n > 0 THEN rd + n ELSE rd

getConfigurationRead ==
    /\ pc = "getConfiguration"
    /\ \E n \in Socket_read : Consume(n) /\ parseConfigurationFrame(n)
    /\ UNCHANGED <<server, cmds, running>>

getDataStreamRead ==
    /\ pc = "getDataStream"
    /\ \E n \in Socket_read : Consume(n) /\ parseDataFrame(n)
    /\ UNCHANGED <<server, cmds, running>>

\* An application may call what shows the configuration and the data whatever
\* the last get call returned.  Each of these calls follows pointers that are
\* NULL until the client has taken a frame.
Show(bad) ==
    /\ pc = "idle"
    /\ pc' = IF bad THEN "badAccess" ELSE "idle"
    /\ ret' = "none"
    /\ UNCHANGED <<server, cmds, rd, running, data>>

\* configTimeStamp.parsedTime
printConfiguration == Show(cfg = 0)
getConf_pdc        == Show(cfg = 0)

\* configuration[pmuNumber].  The array of a configuration without PMUs has no
\* element: what is read lies behind the block and may be there or not.
ShowPmu == Show(cfg = 0) \/ (cfg # 0 /\ ~HasPmus /\ Show(TRUE))

getConf_pmu_stationName == ShowPmu
getConf_pmu_channelName == ShowPmu
getConf_pmu_analogs     == ShowPmu
outputDataStream_status == ShowPmu

\* dataTimeStamp.parsedTime; the loop over the PMUs does nothing without a
\* configuration, as numPmu is 0.
printDataStream  == Show(dat = 0)
outputDataStream == Show(dat = 0)

\* This one is only the loop over the PMUs.
getConf_pmu ==
    /\ pc = "idle"
    /\ ret' = "none"
    /\ UNCHANGED <<server, cmds, pc, rd, running, data>>

Output ==
    \/ printConfiguration \/ getConf_pdc \/ getConf_pmu
    \/ getConf_pmu_stationName \/ getConf_pmu_channelName \/ getConf_pmu_analogs
    \/ printDataStream \/ outputDataStream \/ outputDataStream_status

\* Mutant of Owned: the configuration is freed whether it has PMUs or not, as
\* the time stamps are.
OwnedIfAny ==
    {<<"configuration", i>> : i \in {cfg} \ {0}}
        \cup {<<"parsedTime", i>> : i \in {cfg, dat} \ {0}}

\* The blocks c37_118client_destroy frees: the time stamps there are, and the
\* configuration with its channels if numPmu is not 0.
Owned ==
    {<<"configuration", i>> : i \in IF HasPmus THEN {cfg} ELSE {}}
        \cup {<<"parsedTime", i>> : i \in {cfg, dat} \ {0}}

destroy ==
    /\ pc = "idle"
    /\ pc' = "destroyed"
    /\ open' = FALSE
    /\ live' = live \ Owned
    /\ UNCHANGED <<serverId, version, streaming, served, tx, cmds, rd, running,
                   cfg, dat, val, ret>>
------------------------------------------------------------------------------
Server == ServeCommand \/ SendData \/ Reconfigure \/ PeerClose

Client ==
    \/ stopTransmission
    \/ startTransmission
    \/ getConfiguration
    \/ getConfigurationRead
    \/ getDataStream
    \/ getDataStreamRead
    \/ Output
    \/ destroy

Next == Server \/ Client

Spec == Init /\ [][Next]_vars

\* The polling loops run until they return, and the server, when it has a
\* command, handles it; nothing obliges it to send data or to stay open, nor
\* the application to call.
FairSpec ==
    /\ Spec
    /\ WF_vars(getConfigurationRead)
    /\ WF_vars(getDataStreamRead)
    /\ WF_vars(ServeCommand)
------------------------------------------------------------------------------
(* Properties.                                                             *)

\* The type invariant: the flags, the server and the connection, the client's
\* registers and its heap.
FlagsTypeOK == open \in BOOLEAN /\ streaming \in BOOLEAN /\ running \in BOOLEAN

ServerTypeOK ==
    /\ serverId \in ServerIds
    /\ version \in Versions
    /\ cmds \in Seq(Command)
    /\ served \in 0 .. Len(cmds)
    /\ tx \in Seq(Frame)

ClientTypeOK ==
    /\ pc \in {"idle", "getConfiguration", "getDataStream",
               "overrun", "badAccess", "destroyed"}
    /\ rd \in 0 .. Sent
    /\ cfg \in 0 .. Len(tx)
    /\ dat \in 0 .. Len(tx)
    /\ val \in 0 .. Len(tx)
    /\ ret \in {"none", "cfg", "data", "fail"}

HeapTypeOK == live \subseteq {"configuration", "parsedTime"} \X DOMAIN tx

TypeOK == FlagsTypeOK /\ ServerTypeOK /\ ClientTypeOK /\ HeapTypeOK

\* However the stream is cut into reads, the configuration and the data of
\* the client come from one whole frame each, of the right kind, from the
\* server asked for, short enough for the buffer and entirely read: the checks
\* of parseConfigurationFrame and parseDataFrame together.
WholeFrame(i, kind) ==
    /\ tx[i].kind = kind
    /\ tx[i].end <= rd
    /\ tx[i].end - tx[i].pos <= BUFER_LENGTH
    /\ serverId = idcode

WholeFramesOnly ==
    /\ cfg # 0 => WholeFrame(cfg, "cfg")
    /\ dat # 0 => WholeFrame(dat, "data")

\* The channels hold either the zeros of a new configuration or the values of
\* the frame the time stamp was parsed from, and those arrived after the
\* configuration that names and scales them: getDataStream and getConfiguration
\* may be called in any order, and each replaces a part of the client's state.
ValuesMatchTimestamp ==
    val # 0 => /\ val = dat
               /\ cfg # 0
               /\ cfg < val

\* Nothing compares the layout of a data frame with the configuration used to
\* decode it.  As long as the server has not changed its configuration since
\* the one the client holds, the values shown were still encoded under it,
\* whichever frames were skipped, rejected or answered late.
DecodeConsistent ==
    (val # 0 /\ tx[cfg].ver = version) => tx[val].ver = tx[cfg].ver

\* What the calls follow, and with it what destroy frees, is allocated: no
\* block is used after it is freed or freed twice, whatever was replaced when.
\* What destroy leaves is what a later frame had replaced, and the array of a
\* configuration without PMUs, which nothing frees.
Followed ==
    {<<"configuration", i>> : i \in {cfg} \ {0}}
        \cup {<<"parsedTime", i>> : i \in {cfg, dat} \ {0}}

HeapSound ==
    /\ pc # "destroyed" => Followed \subseteq live
    /\ pc = "destroyed" =>
          /\ \A i \in DOMAIN tx :
                /\ <<"configuration", i>> \in live => i <= cfg
                /\ <<"parsedTime", i>> \in live =>
                      i < (IF tx[i].kind = "cfg" THEN cfg ELSE dat)
          /\ cfg # 0 => (<<"configuration", cfg>> \in live <=> ~HasPmus)

\* A getDataStream that returns 0 has read exactly one data frame, the last
\* bytes taken from the stream, and its values are those in the channels when
\* there are any: an application that prints on 0, as
\* c37_118ReceiverLoop does, never prints an old frame as a new one.
OkDataIsFresh ==
    ret = "data" => /\ dat # 0
                    /\ tx[dat].end = rd
                    /\ HasPmus => val = dat

\* startTransmission and stopTransmission flip self->running without looking
\* at what the write returned.  While the connection is open and the server is
\* the one addressed, it agrees with the server once the commands are handled:
\* with what the last switch on its way will make of it, or, when none is, with
\* what the server does now.  So no earlier start can outlive a stop.
Switched == \E i \in DOMAIN cmds : cmds[i] \in {"start", "stop"}

OnTheWay == {i \in served + 1 .. Len(cmds) : cmds[i] \in {"start", "stop"}}

RunningTracksServer ==
    (open /\ serverId = idcode /\ Switched) =>
        /\ OnTheWay = {} => running = streaming
        /\ \A i \in OnTheWay :
              (\A j \in OnTheWay : j <= i) => running = (cmds[i] = "start")

\* The client implements the lossy feed: what it takes was sent, in the order
\* sent, each frame at most once, and nothing taken is ever un-taken.
Feed == INSTANCE LossyFeed WITH feed <- tx, conf <- cfg, shown <- dat

ImplementsFeed == Feed!FeedSpec

\* getConfiguration has no timeout, but with the server it addresses it does
\* not wait for ever: an answer, any other bytes or the close ends it.
ConfigurationReturns ==
    (pc = "getConfiguration" /\ serverId = idcode) ~> (pc # "getConfiguration")

\* The safety half of it: whatever the reads cut up or threw away before, the
\* answer awaited is still to come.  While getConfiguration waits, a request is
\* on its way to the server or bytes are on their way to the client, so no
\* state is reached where each end waits for the other.
NoAnswerLost ==
    (pc = "getConfiguration" /\ serverId = idcode /\ open) =>
        \/ rd < Sent
        \/ \E i \in served + 1 .. Len(cmds) : cmds[i] = "sendCfg2"

\* If the client has stopped for good, so does the stream: no earlier start
\* still on its way can outlive the stop.
StopTakesEffect ==
    <>[](open /\ serverId = idcode /\ Switched /\ ~running) => <>[]~streaming

\* Socket_read is documented to return "the number of bytes read or -1 if an
\* error occurred" (src/src/pal/inc/pal_socket.h:214); getConfiguration and
\* getDataStream hand the -1 to crcCheck as the size of the frame.
NoOverrun == pc # "overrun"
==============================================================================
