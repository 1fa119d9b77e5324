---------------------------- MODULE ReceiverLoop ----------------------------
(***************************************************************************)
(* Two threads on one client: c37_118ReceiverLoop, run by a thread as the  *)
(* commented-out c37_118client_startReceiveDataStram of ieeeC37_118.c runs *)
(* it, and the application, which goes on calling the client.  Nothing in  *)
(* the client is protected: the threads share running, the two buffers,    *)
(* the number of PMUs, the configuration and the memory of all of these.   *)
(*                                                                         *)
(* The stream is coarser than in C37Client, where each thread has it to    *)
(* itself: a queue of frames, of which a read takes one, or something that *)
(* is not one frame.                                                       *)
(***************************************************************************)
EXTENDS Integers, Sequences

CONSTANTS
    Pmus,      \* numbers of PMUs the server may be configured with
    Numbers,   \* data frames are told apart by a number in 0 .. Numbers - 1
    MaxFlight, \* bound: frames on their way when the server sends a data frame
    MaxPending \* bound: commands and frames on their way when the application
               \* makes a call

ASSUME LoopAssumption ==
    /\ Pmus \subseteq Nat \ {0}
    /\ Numbers \in Nat \ {0}
    /\ MaxFlight \in Nat
    /\ MaxPending \in Nat

Actor   == {"app", "loop"}
Command == {"stop", "start", "sendCfg2"}

\* What a read returns.  n numbers the data frames, and is the number of PMUs
\* in a configuration frame; a piece is anything but one frame.
Frames == [kind : {"data", "cfg", "piece", "zero"}, n : Nat]
Frame(kind, n) == [kind |-> kind, n |-> n]
Piece == Frame("piece", 0)
Zero  == Frame("zero", 0)

\* The first sixteen bytes of a command: whose they are and what it asks for.
NoBody == <<"none", "none">>
Bodies == (Actor \X Command) \cup {NoBody}

EmptySnd == [body |-> NoBody, chk |-> NoBody]

VARIABLES
    \* the server and the connection
    open,       \* neither side has closed the connection
    streaming,  \* the server is sending data frames
    cmds,       \* commands written and not handled
    tx,         \* frames on their way to the client
    \* the client
    running,    \* self->running
    snd,        \* self->bufferSnd: a command, and what its checksum is of
    rcv,        \* self->bufferRcv: what it holds and which thread put it there
    numPmu,     \* self->numPmu
    channels,   \* self->configuration: the frame that the values of each PMU
                \* are of, Zero as calloc leaves them
    freed,      \* c37_118client_destroy has freed the client
    fault,      \* the bad access the process has died of
    \* the threads
    pc,         \* where each thread is
    call,       \* the command it is preparing
    crc,        \* its local variable of this name, while it is used
    got,        \* what its last Socket_read returned, until it is parsed
    pmu,        \* the index of the loops over the PMUs, counted from 1
    \* history
    alone,      \* no other command was prepared during the thread's one in
                \* hand, or the loop's stop
    together,   \* the application has begun a call while the loop ran
    restarted,  \* the application has called startTransmission
    stopped     \* its last stop returned after the loop's start, no start since

server  == <<open, streaming, cmds, tx>>
conf    == <<numPmu, channels>>
history == <<alone, together, restarted, stopped>>
local   == <<call, crc, got, pmu>>
vars    == <<server, running, snd, rcv, conf, freed, fault, pc, local, history>>

Other(a) == IF a = "app" THEN "loop" ELSE "app"

\* The thread has written to bufferSnd and not yet sent it.
Commanding(a) == pc[a] \in {"crc", "chk", "write"}

\* A connected client; the server may be streaming already.
Init ==
    /\ open = TRUE /\ streaming \in BOOLEAN
    /\ cmds = <<>> /\ tx = <<>>
    /\ running = FALSE
    /\ snd = EmptySnd
    /\ rcv = [frame |-> Zero, by |-> "app"]
    /\ numPmu = 0 /\ channels = <<>>
    /\ freed = FALSE
    /\ fault = "none"
    /\ pc = [a \in Actor |-> IF a = "app" THEN "idle" ELSE "none"]
    /\ call = [a \in Actor |-> "stop"]
    /\ crc = [a \in Actor |-> NoBody]
    /\ got = [a \in Actor |-> Zero]
    /\ pmu = 1
    /\ alone = [a \in Actor |-> TRUE]
    /\ together = FALSE /\ restarted = FALSE /\ stopped = FALSE
------------------------------------------------------------------------------
(* The server, external to the repository.                                 *)

\* The process lives; the server's steps leave it alone.
Process ==
    /\ fault = "none"
    /\ UNCHANGED <<running, snd, rcv, conf, freed, fault, pc, local, history>>

ServeCommand ==
    /\ Process
    /\ open
    /\ cmds # <<>>
    /\ cmds' = Tail(cmds)
    /\ streaming' = CASE Head(cmds) = "start" -> TRUE
                      [] Head(cmds) = "stop"  -> FALSE
                      [] OTHER                -> streaming
    /\ IF Head(cmds) = "sendCfg2"
       THEN \E n \in Pmus : tx' = Append(tx, Frame("cfg", n))
       ELSE UNCHANGED tx
    /\ UNCHANGED open

SendData ==
    /\ Process
    /\ open /\ streaming
    /\ Len(tx) < MaxFlight
    /\ \E n \in 0 .. Numbers - 1 : tx' = Append(tx, Frame("data", n))
    /\ UNCHANGED <<open, streaming, cmds>>

\* With the connection go the server's side of it and the commands; what it
\* has sent can still be read.
Close == open' = FALSE /\ streaming' = FALSE /\ cmds' = <<>>

PeerClose ==
    /\ Process
    /\ open
    /\ Close
    /\ UNCHANGED tx
------------------------------------------------------------------------------
(* The three calls that send a command: stopTransmission,                  *)
(* startTransmission and the first half of getConfiguration.               *)

Goto(a, place) == pc' = [pc EXCEPT ![a] = place]

\* The thread of the loop has started and not ended.
LoopLives == pc["loop"] \notin {"none", "ended"}

At(a, place) == fault = "none" /\ ~freed /\ pc[a] = place

\* The buffer is cleared and filled up to the checksum, which for the time
\* stamp is different in every command; getConfiguration clears the receive
\* buffer too.  What two threads filling it at once may leave, the server
\* takes for the command of one of them or drops, as it does when one fills
\* the buffer after the other.
prepare(a) ==
    /\ At(a, "prepare")
    /\ Goto(a, "crc")
    /\ snd' = [body |-> <<a, call[a]>>, chk |-> NoBody]
    /\ rcv' = IF call[a] = "sendCfg2" THEN [frame |-> Zero, by |-> a] ELSE rcv
    /\ alone' = [x \in Actor |-> IF Commanding(Other(a)) THEN FALSE
                                 ELSE IF x = a THEN TRUE ELSE alone[x]]
    /\ UNCHANGED <<server, running, conf, freed, fault, local,
                   together, restarted, stopped>>

\* computeCRC over the sixteen bytes that are in the buffer now.
computeCRC(a) ==
    /\ At(a, "crc")
    /\ Goto(a, "chk")
    /\ crc' = [crc EXCEPT ![a] = snd.body]
    /\ UNCHANGED <<server, running, snd, rcv, conf, freed, fault, call, got,
                   pmu, history>>

\* Mutant of chk: the checksum is computed and not stored.
chkNotStored(a) ==
    /\ At(a, "chk")
    /\ Goto(a, "write")
    /\ crc' = [crc EXCEPT ![a] = NoBody]
    /\ UNCHANGED <<server, running, snd, rcv, conf, freed, fault, call, got,
                   pmu, history>>

chk(a) ==
    /\ At(a, "chk")
    /\ Goto(a, "write")
    /\ snd' = [snd EXCEPT !.chk = crc[a]]
    /\ crc' = [crc EXCEPT ![a] = NoBody]
    /\ UNCHANGED <<server, running, rcv, conf, freed, fault, call, got, pmu,
                   history>>

\* The server drops a frame whose checksum is not that of its contents: it does
\* not count as a command.  What stays in the buffer matters to the other
\* thread's command only, and a request is over with its last byte.
write(a) ==
    /\ At(a, "write")
    /\ Goto(a, IF call[a] = "sendCfg2" THEN "read" ELSE "flag")
    /\ cmds' = IF open /\ snd.chk = snd.body THEN Append(cmds, snd.body[2])
               ELSE cmds
    /\ snd' = IF Commanding(Other(a)) THEN snd ELSE EmptySnd
    /\ call' = [call EXCEPT ![a] = IF @ = "sendCfg2" THEN "stop" ELSE @]
    /\ alone' = [alone EXCEPT ![a] = (@ \/ <<a, call[a]>> # <<"loop", "stop">>)]
    /\ UNCHANGED <<open, streaming, tx, running, rcv, conf, freed, fault,
                   crc, got, pmu, together, restarted, stopped>>

\* The loop has its start behind it and its stop before it.
Printing == {"print", "printPmu"}
InLoop   == {"test", "clear", "read", "check", "decode", "decodePmu"} \cup Printing

\* History: a stop of the application that the loop's own start, which it has
\* behind it, can no longer overwrite.
Effective(a) ==
    /\ a = "app" /\ call[a] = "stop"
    /\ pc["loop"] # "none"
    /\ call["loop"] = "start" => pc["loop"] \in InLoop

\* Mutant of flag: stopTransmission does not clear running.
flagSetOnly(a) ==
    /\ At(a, "flag")
    /\ running' = (running \/ call[a] = "start")
    /\ Goto(a, IF a = "app" THEN "idle"
               ELSE IF call[a] = "start" THEN "test" ELSE "ended")
    /\ call' = [call EXCEPT !["app"] = IF a = "app" THEN "stop" ELSE @]
    /\ stopped' = (stopped \/ Effective(a))
    /\ UNCHANGED <<server, snd, rcv, conf, freed, fault, crc, got, pmu, alone,
                   together, restarted>>

\* The last statement of startTransmission and stopTransmission.
flag(a) ==
    /\ At(a, "flag")
    /\ running' = (call[a] = "start")
    /\ Goto(a, IF a = "app" THEN "idle"
               ELSE IF call[a] = "start" THEN "test" ELSE "ended")
    /\ call' = [call EXCEPT !["app"] = IF a = "app" THEN "stop" ELSE @]
    /\ stopped' = (stopped \/ Effective(a))
    /\ UNCHANGED <<server, snd, rcv, conf, freed, fault, crc, got, pmu, alone,
                   together, restarted>>
------------------------------------------------------------------------------
(* Reading, in getConfiguration and in getDataStream.                      *)

\* What a read may return of the stream, and what it leaves: the first frame,
\* a part of it, or it and all or a part of the next.
Results ==
    IF tx = <<>> THEN {}
    ELSE {<<Head(tx), Tail(tx)>>}
         \cup {<<Piece, <<Piece>> \o Tail(tx)>> : f \in {Head(tx)} \ {Piece}}
         \cup (IF Len(tx) = 1 THEN {}
               ELSE {<<Piece, Tail(Tail(tx))>>,
                     <<Piece, <<Piece>> \o Tail(Tail(tx))>>})

\* Both loops poll while nothing has arrived.  A closed connection gives -1,
\* with which the checksum runs out of the buffer.
read(a) ==
    /\ At(a, "read")
    /\ \/ \E r \in Results :
             /\ rcv' = [frame |-> r[1], by |-> a]
             /\ got' = [got EXCEPT ![a] = r[1]]
             /\ tx' = r[2]
          /\ Goto(a, "check")
          /\ UNCHANGED fault
       \/ /\ ~open
          /\ fault' = "overrun"
          /\ UNCHANGED <<rcv, got, tx, pc>>
    /\ UNCHANGED <<open, streaming, cmds, running, snd, conf, freed,
                   call, crc, pmu, history>>

\* Mutant of Accepted: the type in the SYNC word is not compared.
AcceptedAnyKind(a, kind) ==
    /\ rcv.frame.kind \in {"data", "cfg"}
    /\ \/ got[a].kind = "piece"
       \/ got[a] = rcv.frame

\* The checks of the parsers on what the buffer holds now, with the size of
\* what the thread has read: data frames are all of one size, the size of a
\* configuration frame tells its number of PMUs, that of a piece is any.
Accepted(a, kind) ==
    /\ rcv.frame.kind = kind
    /\ \/ got[a].kind = "piece"
       \/ got[a].kind = kind /\ (kind = "cfg" => got[a].n = rcv.frame.n)

Rejected(a, kind) ==
    rcv.frame.kind = kind =>
        \/ got[a].kind # kind
        \/ kind = "cfg" /\ got[a].n # rcv.frame.n

check(a) ==
    /\ At(a, "check")
    /\ LET kind == IF a = "loop" THEN "data" ELSE "cfg"
       IN  \/ /\ Accepted(a, kind)
              /\ Goto(a, IF a = "loop" THEN "decode" ELSE "setCount")
              /\ UNCHANGED got
           \/ /\ Rejected(a, kind)
              /\ Goto(a, IF a = "loop" THEN "test" ELSE "idle")
              /\ got' = [got EXCEPT ![a] = Zero]
    /\ UNCHANGED <<server, running, snd, rcv, conf, freed, fault, call, crc,
                   pmu, history>>
------------------------------------------------------------------------------
(* The receiver loop.                                                      *)

\* Mutant of test: the loop ends without the stop.
testNoStop ==
    /\ At("loop", "test")
    /\ Goto("loop", IF running THEN "clear" ELSE "ended")
    /\ UNCHANGED <<server, running, snd, rcv, conf, freed, fault, local,
                   history>>

\* while (running == true), and the stopTransmission after it.
test ==
    /\ At("loop", "test")
    /\ IF running
       THEN Goto("loop", "clear") /\ UNCHANGED call
       ELSE Goto("loop", "prepare") /\ call' = [call EXCEPT !["loop"] = "stop"]
    /\ UNCHANGED <<server, running, snd, rcv, conf, freed, fault, crc, got,
                   pmu, history>>

\* The memset at the beginning of getDataStream.
clear ==
    /\ At("loop", "clear")
    /\ Goto("loop", "read")
    /\ rcv' = [frame |-> Zero, by |-> "loop"]
    /\ UNCHANGED <<server, running, snd, conf, freed, fault, local, history>>

\* The loop over the PMUs in parseDataFrame: i < self->numPmu is tested, and
\* self->configuration[i] taken, each time anew.  printDataStream follows.
decode ==
    /\ At("loop", "decode")
    /\ IF pmu <= numPmu
       THEN Goto("loop", "decodePmu") /\ UNCHANGED pmu
       ELSE Goto("loop", "print") /\ pmu' = 1
    /\ UNCHANGED <<server, running, snd, rcv, conf, freed, fault, call, crc,
                   got, history>>

\* The body takes the values of one PMU from what the buffer holds now, and
\* stores them in the array that there is now; what a buffer without a data
\* frame gives is no frame's.
Decoded == IF rcv.frame.kind \in {"data", "zero"} THEN rcv.frame ELSE Piece

\* Mutant of decodePmu: an iteration steps over the next PMU.
decodeEverySecond ==
    /\ At("loop", "decodePmu")
    /\ pmu \in DOMAIN channels
    /\ channels' = [channels EXCEPT ![pmu] = Decoded]
    /\ pmu' = pmu + 2
    /\ Goto("loop", "decode")
    /\ UNCHANGED <<server, running, snd, rcv, numPmu, freed, fault, call, crc,
                   got, history>>

decodePmu ==
    /\ At("loop", "decodePmu")
    /\ pmu \in DOMAIN channels
    /\ channels' = [channels EXCEPT ![pmu] = Decoded]
    /\ pmu' = pmu + 1
    /\ Goto("loop", "decode")
    /\ UNCHANGED <<server, running, snd, rcv, numPmu, freed, fault, call, crc,
                   got, history>>

\* The loop of printDataStream, in the same way.
print ==
    /\ At("loop", "print")
    /\ IF pmu <= numPmu
       THEN Goto("loop", "printPmu") /\ UNCHANGED <<got, pmu>>
       ELSE /\ Goto("loop", "test")
            /\ got' = [got EXCEPT !["loop"] = Zero]
            /\ pmu' = 1
    /\ UNCHANGED <<server, running, snd, rcv, conf, freed, fault, call, crc,
                   history>>

printPmu ==
    /\ At("loop", "printPmu")
    /\ pmu \in DOMAIN channels
    /\ Goto("loop", "print")
    /\ pmu' = pmu + 1
    /\ UNCHANGED <<server, running, snd, rcv, conf, freed, fault, call, crc,
                   got, history>>

\* The body of either loop beyond the array that there is now.
leaveArray ==
    /\ fault = "none" /\ ~freed
    /\ pc["loop"] \in {"decodePmu", "printPmu"}
    /\ pmu \notin DOMAIN channels
    /\ fault' = "outOfBounds"
    /\ UNCHANGED <<server, running, snd, rcv, conf, freed, pc, local, history>>

\* Any step of the loop in a client that has been freed.
touchFreed ==
    /\ fault = "none" /\ freed
    /\ LoopLives
    /\ fault' = "useAfterFree"
    /\ UNCHANGED <<server, running, snd, rcv, conf, freed, pc, local, history>>
------------------------------------------------------------------------------
(* The application.                                                        *)

startReceiveDataStram ==
    /\ At("app", "idle")
    /\ pc["loop"] = "none"
    /\ Goto("loop", "prepare")
    /\ call' = [call EXCEPT !["loop"] = "start"]
    /\ UNCHANGED <<server, running, snd, rcv, conf, freed, fault, crc, got,
                   pmu, history>>

Call(c) ==
    /\ At("app", "idle")
    /\ Len(cmds) + Len(tx) < MaxPending
    /\ Goto("app", "prepare")
    /\ call' = [call EXCEPT !["app"] = c]
    /\ together' = (together \/ LoopLives)
    /\ restarted' = (restarted \/ c = "start")
    /\ stopped' = (stopped /\ c # "start")
    /\ UNCHANGED <<server, running, snd, rcv, conf, freed, fault, crc, got,
                   pmu, alone>>

\* Mutant of setCount: the number of the last PMU, counted from 0.
setLastIndex ==
    /\ At("app", "setCount")
    /\ Goto("app", "setBlocks")
    /\ numPmu' = rcv.frame.n - 1
    /\ UNCHANGED <<server, running, snd, rcv, channels, freed, fault, local,
                   history>>

\* parseConfigurationFrame stores the number of PMUs at once and the array
\* only when prepareConfiguration has filled it.
setCount ==
    /\ At("app", "setCount")
    /\ Goto("app", "setBlocks")
    /\ numPmu' = rcv.frame.n
    /\ UNCHANGED <<server, running, snd, rcv, channels, freed, fault, local,
                   history>>

\* Mutant of setBlocks: the array has no room for the last PMU.
setBlocksShort ==
    /\ At("app", "setBlocks")
    /\ Goto("app", "idle")
    /\ channels' = [i \in 1 .. numPmu - 1 |-> Zero]
    /\ got' = [got EXCEPT !["app"] = Zero]
    /\ UNCHANGED <<server, running, snd, rcv, numPmu, freed, fault, call, crc,
                   pmu, history>>

\* The new array is calloc's, for the number stored before; no value of the
\* old one is copied.
setBlocks ==
    /\ At("app", "setBlocks")
    /\ Goto("app", "idle")
    /\ channels' = [i \in 1 .. numPmu |-> Zero]
    /\ got' = [got EXCEPT !["app"] = Zero]
    /\ UNCHANGED <<server, running, snd, rcv, numPmu, freed, fault, call, crc,
                   pmu, history>>

\* c37_118client_destroy, at any time, whether the thread has ended or not:
\* Socket_destroy closes the socket, waits and frees it, and everything else
\* follows.
destroy ==
    /\ At("app", "idle")
    /\ Goto("app", "free")
    /\ Close
    /\ tx' = <<>>
    /\ together' = (together \/ LoopLives)
    /\ UNCHANGED <<running, snd, rcv, conf, freed, fault, local, alone,
                   restarted, stopped>>

free ==
    /\ At("app", "free")
    /\ Goto("app", "gone")
    /\ freed' = TRUE
    /\ UNCHANGED <<server, running, snd, rcv, conf, fault, local, history>>
------------------------------------------------------------------------------
Sending(a) == prepare(a) \/ computeCRC(a) \/ chk(a) \/ write(a) \/ flag(a)

Loop == \/ Sending("loop") \/ read("loop") \/ check("loop")
        \/ test \/ clear
        \/ decode \/ decodePmu \/ print \/ printPmu \/ leaveArray \/ touchFreed

\* The rest of a call the application has begun.
InCall == Sending("app") \/ read("app") \/ check("app")
          \/ setCount \/ setBlocks \/ free

Next ==
    \/ ServeCommand \/ SendData \/ PeerClose
    \/ Loop
    \/ InCall
    \/ startReceiveDataStram \/ destroy
    \/ \E c \in Command : Call(c)

Spec == Init /\ [][Next]_vars

\* The loop's thread runs.  Nothing else need go on: neither the application
\* with a call it has begun, nor the server.
FairSpec == Spec /\ WF_vars(Loop)
------------------------------------------------------------------------------
(* Properties.                                                             *)

Places == {"none", "idle", "prepare", "crc", "chk", "write", "flag",
           "read", "check", "setCount", "setBlocks", "free", "gone", "ended"}
          \cup InLoop

\* The type invariant.
TypeOK ==
    /\ open \in BOOLEAN /\ streaming \in BOOLEAN
    /\ cmds \in Seq(Command)
    /\ tx \in Seq(Frames)
    /\ running \in BOOLEAN
    /\ snd \in [body : Bodies, chk : Bodies]
    /\ rcv \in [frame : Frames, by : Actor]
    /\ numPmu \in Nat /\ channels \in Seq(Frames)
    /\ freed \in BOOLEAN
    /\ fault \in {"none", "overrun", "outOfBounds", "useAfterFree"}
    /\ pc \in [Actor -> Places]
    /\ call \in [Actor -> Command]
    /\ crc \in [Actor -> Bodies]
    /\ got \in [Actor -> Frames]
    /\ pmu \in Nat \ {0}
    /\ alone \in [Actor -> BOOLEAN]
    /\ together \in BOOLEAN /\ restarted \in BOOLEAN /\ stopped \in BOOLEAN

\* The channels of every PMU hold the data frame that the loop has read last.
ShowsWhole ==
    /\ Len(channels) = numPmu
    /\ \A i \in 1 .. numPmu : channels[i] = got["loop"]

\* The two threads prepare their commands in the same buffer.  A command is
\* sent as it was asked for if the other thread prepared none meanwhile; only
\* then is it certain to be neither garbled nor the other's.
CommandsWhole ==
    \A a \in Actor :
        (pc[a] = "write" /\ alone[a]) =>
            snd = [body |-> <<a, call[a]>>, chk |-> <<a, call[a]>>]

\* What one print shows is of the data frame the loop has read, unless the
\* application has written to the receive buffer since the loop cleared it.  A
\* configuration that it installs in the meantime replaces values by zeros, but
\* never by those of another frame.  The loop leaves the array only while
\* getConfiguration has set the number of PMUs and not yet the array, or in an
\* iteration begun before the number was reduced.
PrintsOwnFrame ==
    /\ (pc["loop"] \in Printing /\ rcv.by = "loop") =>
          /\ got["loop"].kind = "data"
          /\ \A i \in DOMAIN channels :
                i \in pmu .. numPmu => channels[i] \in {got["loop"], Zero}
    /\ fault = "outOfBounds" => pc["app"] = "setBlocks" \/ pmu > numPmu

\* When the loop has ended and the application has started nothing itself,
\* the server is not sending, unless the connection was closed or the
\* loop's last command met another one.
QuietAtEnd ==
    (/\ pc["loop"] = "ended" /\ alone["loop"] /\ ~restarted
     /\ pc["app"] = "idle" /\ open /\ cmds = <<>>) => ~streaming /\ ~running

\* The flag both threads write is the application's to clear: once its stop has
\* returned with the loop's start behind it, no step of either thread sets it
\* again before the application's next start, so the loop reads at most the
\* one frame it has begun to wait for.
StopSticks == stopped => ~running

\* A stop is final on both sides: on the client until the next start, and, once
\* the loop has ended with it, on the server.
StopHolds == StopSticks /\ QuietAtEnd

\* The loop sends its own commands whole, prints of every PMU the data frame
\* it has read, and neither leaves the array nor uses what was freed.
LoopUndisturbed ==
    /\ pc["loop"] = "write" =>
          snd = [body |-> <<"loop", call["loop"]>>, chk |-> <<"loop", call["loop"]>>]
    /\ pc["loop"] \in Printing => got["loop"].kind = "data" /\ ShowsWhole
    /\ fault \notin {"outOfBounds", "useAfterFree"}

\* An application that calls nothing while the loop runs meets none of the
\* races of the two threads, whatever the frames.  c37_118client_destroy is one
\* of those calls: it waits for no thread.
UndisturbedAlone == ~together => LoopUndisturbed

\* A stop that the loop's own start has not overwritten ends the loop, unless
\* the loop is in getDataStream for ever: when the server obeys the stop
\* before the loop has seen it, or getConfiguration takes every frame, no
\* frame comes, and whoever joins the thread waits for ever too.
StopEndsLoop ==
    <>[]stopped => \/ <>(pc["loop"] = "ended" \/ fault # "none")
                   \/ <>[](pc["loop"] = "read" /\ open)
=============================================================================
