------------------------- MODULE ReceiverLoopProofs -------------------------
(***************************************************************************)
(* Theorems of ReceiverLoop, for any numbers of PMUs and of frames and     *)
(* without a bound on what is on its way.                                  *)
(***************************************************************************)
EXTENDS ReceiverLoop, TLAPS

Decoding == {"decode", "decodePmu"}

\* Where each thread may be, and what it may have been asked to send.
PcInv ==
    /\ pc["app"] \in {"idle", "prepare", "crc", "chk", "write", "flag", "read",
                      "check", "setCount", "setBlocks", "free", "gone"}
    /\ pc["loop"] \in {"none", "prepare", "crc", "chk", "write", "flag", "ended"}
                      \cup InLoop
    /\ call["loop"] \in {"start", "stop"}
    /\ pc["loop"] = "ended" => call["loop"] = "stop"
    /\ ~restarted => call["app"] # "start"
    /\ pc["loop"] \notin Decoding \cup Printing => pmu = 1

\* How far the command in bufferSnd is its thread's, if it is alone there.
CommandOf(a) ==
    /\ Commanding(a) => snd.body # NoBody
    /\ (Commanding(a) /\ alone[a]) =>
          ~Commanding(Other(a)) /\ snd.body = <<a, call[a]>>
    /\ (pc[a] = "chk" /\ alone[a]) => crc[a] = <<a, call[a]>>
    /\ (pc[a] = "write" /\ alone[a]) => snd.chk = <<a, call[a]>>

CommandInv == CommandOf("app") /\ CommandOf("loop")

\* The frame the loop has read stays in bufferRcv until the other thread
\* clears it or reads.
ReadInv ==
    /\ (pc["loop"] \in {"check"} \cup Decoding /\ rcv.by = "loop") =>
          rcv.frame = got["loop"]
    /\ (pc["loop"] \in Decoding \cup Printing /\ rcv.by = "loop") =>
          got["loop"].kind = "data"

\* The array has the length that numPmu says, but in one place.
CountInv ==
    /\ pc["app"] # "setBlocks" => numPmu = Len(channels)
    /\ fault = "outOfBounds" => pc["app"] = "setBlocks" \/ pmu > numPmu

\* What the loop has decoded of the frame it has read, and then prints, holds
\* that frame, or the zeros of an array installed meanwhile.
OwnUpTo(n) ==
    \A i \in DOMAIN channels : i \in 1 .. n => channels[i] \in {got["loop"], Zero}

OwnInv ==
    /\ (pc["loop"] \in Decoding /\ rcv.by = "loop") => OwnUpTo(pmu - 1)
    /\ (pc["loop"] \in Printing /\ rcv.by = "loop") => OwnUpTo(numPmu)

\* The commands on their way leave the server quiet.
NoStart(from) == \A j \in from .. Len(cmds) : cmds[j] # "start"

Quieted ==
    \/ ~streaming /\ NoStart(1)
    \/ \E i \in 1 .. Len(cmds) : cmds[i] = "stop" /\ NoStart(i)

\* The loop's last stop is sent, and it was the thread's own command.
LastSent ==
    /\ pc["loop"] \in {"flag", "ended"} /\ call["loop"] = "stop"
    /\ alone["loop"] /\ ~restarted /\ open

QuietInv ==
    /\ (pc["loop"] = "ended" /\ ~restarted) => ~running
    /\ LastSent => Quieted /\ (Commanding("app") => snd.body[2] # "start")

\* The inductive invariant.
IInv == TypeOK /\ PcInv /\ CommandInv /\ ReadInv /\ CountInv /\ OwnInv /\ QuietInv

USE DEF Actor, Command
----------------------------------------------------------------------------
(* The values.                                                             *)

LEMMA FrameValues ==
  /\ Zero \in Frames /\ Piece \in Frames
  /\ \A n \in Nat : Frame("data", n) \in Frames /\ Frame("cfg", n) \in Frames
  BY DEF Zero, Piece, Frame, Frames

LEMMA BodyValues ==
  /\ NoBody \in Bodies
  /\ \A a \in Actor, c \in Command : <<a, c>> \in Bodies /\ <<a, c>> # NoBody
  BY DEF Bodies, NoBody

LEMMA InitIInv == Init => IInv
<1> SUFFICES ASSUME Init PROVE IInv
  OBVIOUS
<1>1. TypeOK
  <2>2. snd \in [body : Bodies, chk : Bodies] /\ rcv \in [frame : Frames, by : Actor]
    BY FrameValues, BodyValues DEF Init, EmptySnd
  <2>3. pc \in [Actor -> Places] /\ crc \in [Actor -> Bodies] /\ got \in [Actor -> Frames]
    BY FrameValues, BodyValues DEF Init, Places
  <2>4. call \in [Actor -> Command] /\ alone \in [Actor -> BOOLEAN]
    BY DEF Init
  <2>5. cmds \in Seq(Command) /\ tx \in Seq(Frames) /\ channels \in Seq(Frames)
    BY DEF Init
  <2>6. /\ open \in BOOLEAN /\ streaming \in BOOLEAN
        /\ running \in BOOLEAN /\ freed \in BOOLEAN /\ together \in BOOLEAN
        /\ restarted \in BOOLEAN /\ stopped \in BOOLEAN
    BY DEF Init
  <2> QED
    BY <2>2, <2>3, <2>4, <2>5, <2>6 DEF Init, TypeOK
<1>2. PcInv /\ CommandInv /\ ReadInv
  BY DEF Init, PcInv, CommandInv, CommandOf, Commanding, ReadInv, InLoop, Decoding,
     Printing
<1>3. CountInv /\ OwnInv /\ QuietInv
  BY DEF Init, CountInv, OwnInv, Decoding, Printing, QuietInv, LastSent
<1> QED
  BY <1>1, <1>2, <1>3 DEF IInv
----------------------------------------------------------------------------
(* The types.                                                              *)

LEMMA ServerTypes == TypeOK /\ (ServeCommand \/ SendData \/ PeerClose) => TypeOK'
<1> SUFFICES ASSUME TypeOK, ServeCommand \/ SendData \/ PeerClose PROVE TypeOK'
  OBVIOUS
<1>1. UNCHANGED <<running, snd, rcv, conf, freed, fault, pc, local, history>>
  BY DEF ServeCommand, SendData, PeerClose, Process
<1>2. open' \in BOOLEAN /\ streaming' \in BOOLEAN
  BY DEF TypeOK, ServeCommand, SendData, PeerClose, Close
<1>3. cmds' \in Seq(Command)
  <2>1. cmds \in Seq(Command)
    BY DEF TypeOK
  <2>2. cmds' = cmds \/ cmds' = <<>> \/ (cmds # <<>> /\ cmds' = Tail(cmds))
    BY DEF ServeCommand, SendData, PeerClose, Close
  <2>3. cmds # <<>> => Tail(cmds) \in Seq(Command)
    BY <2>1
  <2>4. <<>> \in Seq(Command)
    OBVIOUS
  <2> QED
    BY <2>1, <2>2, <2>3, <2>4, Zenon
<1>4. tx' \in Seq(Frames)
  <2>1. CASE ServeCommand
    <3>1. ASSUME NEW n \in Pmus, tx' = Append(tx, Frame("cfg", n)) PROVE tx' \in Seq(Frames)
      <4>1. Frame("cfg", n) \in Frames
        BY FrameValues, LoopAssumption
      <4>2. tx \in Seq(Frames)
        BY DEF TypeOK
      <4> QED
        BY <3>1, <4>1, <4>2
    <3>2. CASE UNCHANGED tx
      BY <3>2 DEF TypeOK
    <3> QED
      BY <2>1, <3>1, <3>2 DEF ServeCommand
  <2>2. CASE SendData
    BY <2>2, FrameValues DEF TypeOK, SendData
  <2>3. CASE PeerClose
    BY <2>3 DEF TypeOK, PeerClose
  <2> QED
    BY <2>1, <2>2, <2>3
<1> QED
  BY <1>1, <1>2, <1>3, <1>4 DEF TypeOK, conf, local, history

LEMMA SendingTypes ==
  ASSUME TypeOK, CommandInv, NEW a \in Actor, Sending(a)
  PROVE  TypeOK'
<1>1. CASE prepare(a)
  <2>1. snd' \in [body : Bodies, chk : Bodies] /\ rcv' \in [frame : Frames, by : Actor]
    BY <1>1, FrameValues, BodyValues DEF TypeOK, prepare
  <2>2. pc' \in [Actor -> Places] /\ alone' \in [Actor -> BOOLEAN]
    BY <1>1 DEF TypeOK, prepare, Goto, Places, InLoop, Printing, Commanding
  <2> QED
    BY <1>1, <2>1, <2>2 DEF TypeOK, prepare, server, conf, local
<1>2. CASE computeCRC(a)
  <2>1. pc' \in [Actor -> Places] /\ crc' \in [Actor -> Bodies]
    BY <1>2 DEF TypeOK, computeCRC, Goto, Places, InLoop, Printing
  <2> QED
    BY <1>2, <2>1 DEF TypeOK, computeCRC, server, conf, history
<1>3. CASE chk(a)
  <2>1. pc' \in [Actor -> Places] /\ crc' \in [Actor -> Bodies]
    BY <1>3, BodyValues DEF TypeOK, chk, Goto, Places, InLoop, Printing
  <2>2. snd' \in [body : Bodies, chk : Bodies]
    BY <1>3 DEF TypeOK, chk
  <2> QED
    BY <1>3, <2>1, <2>2 DEF TypeOK, chk, server, conf, history
<1>4. CASE write(a)
  <2>1. pc' \in [Actor -> Places]
    BY <1>4 DEF TypeOK, write, Goto, Places, InLoop, Printing
  <2>2. snd.body \in Actor \X Command
    BY <1>4 DEF TypeOK, write, At, CommandInv, CommandOf, Commanding, Bodies
  <2>3. cmds' \in Seq(Command)
    BY <1>4, <2>2 DEF TypeOK, write
  <2>4. /\ snd' \in [body : Bodies, chk : Bodies]
        /\ call' \in [Actor -> Command] /\ alone' \in [Actor -> BOOLEAN]
    BY <1>4, BodyValues DEF TypeOK, write, EmptySnd
  <2> QED
    BY <1>4, <2>1, <2>3, <2>4 DEF TypeOK, write, conf
<1>5. CASE flag(a)
  <2>1. pc' \in [Actor -> Places]
    BY <1>5 DEF TypeOK, flag, Goto, Places, InLoop, Printing
  <2>2. running' \in BOOLEAN /\ stopped' \in BOOLEAN /\ call' \in [Actor -> Command]
    BY <1>5 DEF TypeOK, flag, Effective
  <2> QED
    BY <1>5, <2>1, <2>2 DEF TypeOK, flag, server, conf
<1> QED
  BY <1>1, <1>2, <1>3, <1>4, <1>5 DEF Sending

LEMMA ResultValues ==
  ASSUME tx \in Seq(Frames), NEW r \in Results
  PROVE  r[1] \in Frames /\ r[2] \in Seq(Frames)
<1>1. tx # <<>> /\ Head(tx) \in Frames /\ Tail(tx) \in Seq(Frames)
  BY DEF Results
<1>2. Len(tx) # 1 => Tail(Tail(tx)) \in Seq(Frames)
  <2>1. Len(Tail(tx)) = Len(tx) - 1 /\ Len(tx) \in Nat \ {0}
    BY <1>1
  <2>2. ASSUME Len(tx) # 1 PROVE Tail(tx) # <<>>
    <3>1. Len(Tail(tx)) # Len(<<>>)
      BY <2>1, <2>2
    <3> QED
      BY <3>1
  <2>3. \A s \in Seq(Frames) : s # <<>> => Tail(s) \in Seq(Frames)
    OBVIOUS
  <2> QED
    BY <1>1, <2>2, <2>3
<1>3. \A s \in Seq(Frames) : <<Piece>> \o s \in Seq(Frames)
  BY FrameValues
<1> DEFINE one  == {<<Piece, <<Piece>> \o Tail(tx)>> : f \in {Head(tx)} \ {Piece}}
           more == {<<Piece, Tail(Tail(tx))>>, <<Piece, <<Piece>> \o Tail(Tail(tx))>>}
<1>4. \/ r = <<Head(tx), Tail(tx)>> \/ r = <<Piece, <<Piece>> \o Tail(tx)>>
      \/ Len(tx) # 1 /\ r \in more
  <2>1. \/ r = <<Head(tx), Tail(tx)>> \/ r \in one
        \/ r \in IF Len(tx) = 1 THEN {} ELSE more
    BY <1>1, Zenon DEF Results
  <2> HIDE DEF more
  <2>2. CASE r \in one
    BY <2>2, Zenon
  <2> QED
    BY <2>1, <2>2
<1>5. /\ <<Piece>> \o Tail(tx) \in Seq(Frames)
      /\ Len(tx) # 1 => <<Piece>> \o Tail(Tail(tx)) \in Seq(Frames)
  BY <1>1, <1>2, <1>3
<1>6. CASE r = <<Head(tx), Tail(tx)>> \/ r = <<Piece, <<Piece>> \o Tail(tx)>>
  <2>1. CASE r = <<Head(tx), Tail(tx)>>
    BY <1>1, <2>1
  <2>2. CASE r = <<Piece, <<Piece>> \o Tail(tx)>>
    <3>1. r[1] = Piece /\ r[2] = <<Piece>> \o Tail(tx)
      BY <2>2
    <3> QED
      BY <1>5, <3>1, FrameValues
  <2> QED
    BY <1>6, <2>1, <2>2
<1>7. ASSUME Len(tx) # 1, r \in more PROVE r[1] \in Frames /\ r[2] \in Seq(Frames)
  <2>1. CASE r = <<Piece, Tail(Tail(tx))>>
    BY <1>2, <1>7, <2>1, FrameValues
  <2>2. CASE r = <<Piece, <<Piece>> \o Tail(Tail(tx))>>
    BY <1>5, <1>7, <2>2, FrameValues
  <2> QED
    BY <1>7, <2>1, <2>2
<1> QED
  BY <1>4, <1>6, <1>7

LEMMA ReadingTypes ==
  ASSUME TypeOK, NEW a \in Actor, read(a) \/ check(a)
  PROVE  TypeOK'
<1>1. CASE read(a)
  <2>1. pc' \in [Actor -> Places]
    BY <1>1 DEF TypeOK, read, Goto, Places, InLoop, Printing
  <2>2. /\ rcv' \in [frame : Frames, by : Actor] /\ got' \in [Actor -> Frames]
        /\ tx' \in Seq(Frames)
    BY <1>1, ResultValues DEF TypeOK, read
  <2>3. fault' \in {"none", "overrun", "outOfBounds", "useAfterFree"}
    BY <1>1 DEF TypeOK, read
  <2> QED
    BY <1>1, <2>1, <2>2, <2>3 DEF TypeOK, read, conf, history
<1>2. CASE check(a)
  <2>1. pc' \in [Actor -> Places] /\ got' \in [Actor -> Frames]
    BY <1>2, FrameValues DEF TypeOK, check, Goto, Places, InLoop, Printing
  <2> QED
    BY <1>2, <2>1 DEF TypeOK, check, server, conf, history
<1> QED
  BY <1>1, <1>2

LEMMA LoopTypes ==
  ASSUME TypeOK, \/ test \/ clear \/ decode \/ decodePmu \/ print \/ printPmu
                 \/ leaveArray \/ touchFreed
  PROVE  TypeOK'
<1>1. CASE test
  <2>1. pc' \in [Actor -> Places] /\ call' \in [Actor -> Command]
    BY <1>1 DEF TypeOK, test, Goto, Places, InLoop
  <2> QED
    BY <1>1, <2>1 DEF TypeOK, test, server, conf, history
<1>2. CASE clear
  <2>1. pc' \in [Actor -> Places] /\ rcv' \in [frame : Frames, by : Actor]
    BY <1>2, FrameValues DEF TypeOK, clear, Goto, Places, InLoop
  <2> QED
    BY <1>2, <2>1 DEF TypeOK, clear, server, conf, local, history
<1>3. CASE decode
  <2>1. pc' \in [Actor -> Places] /\ pmu' \in Nat \ {0}
    BY <1>3 DEF TypeOK, decode, Goto, Places, InLoop, Printing
  <2> QED
    BY <1>3, <2>1 DEF TypeOK, decode, server, conf, history
<1>4. CASE decodePmu
  <2>1. pc' \in [Actor -> Places] /\ pmu' \in Nat \ {0}
    BY <1>4 DEF TypeOK, decodePmu, Goto, Places, InLoop
  <2>2. Decoded \in Frames
    BY FrameValues DEF TypeOK, Decoded
  <2>3. channels' \in Seq(Frames)
    BY <1>4, <2>2 DEF TypeOK, decodePmu
  <2> QED
    BY <1>4, <2>1, <2>3 DEF TypeOK, decodePmu, server, history
<1>5. CASE print
  <2>1. pc' \in [Actor -> Places] /\ pmu' \in Nat \ {0} /\ got' \in [Actor -> Frames]
    BY <1>5, FrameValues DEF TypeOK, print, Goto, Places, InLoop, Printing
  <2> QED
    BY <1>5, <2>1 DEF TypeOK, print, server, conf, history
<1>6. CASE printPmu
  <2>1. pc' \in [Actor -> Places] /\ pmu' \in Nat \ {0}
    BY <1>6 DEF TypeOK, printPmu, Goto, Places, InLoop, Printing
  <2> QED
    BY <1>6, <2>1 DEF TypeOK, printPmu, server, conf, history
<1>7. CASE leaveArray \/ touchFreed
  BY <1>7 DEF TypeOK, leaveArray, touchFreed, server, conf, local, history
<1> QED
  BY <1>1, <1>2, <1>3, <1>4, <1>5, <1>6, <1>7

LEMMA AppTypes ==
  ASSUME TypeOK, \/ setCount \/ setBlocks \/ free \/ startReceiveDataStram
                 \/ destroy \/ \E c \in Command : Call(c)
  PROVE  TypeOK'
<1>1. CASE setCount
  <2>1. pc' \in [Actor -> Places] /\ numPmu' \in Nat
    BY <1>1 DEF TypeOK, setCount, Goto, Places, InLoop, Printing, Frames
  <2> QED
    BY <1>1, <2>1 DEF TypeOK, setCount, server, local, history
<1>2. CASE setBlocks
  <2>1. pc' \in [Actor -> Places] /\ got' \in [Actor -> Frames]
    BY <1>2, FrameValues DEF TypeOK, setBlocks, Goto, Places, InLoop, Printing
  <2>2. channels' \in Seq(Frames)
    BY <1>2, FrameValues DEF TypeOK, setBlocks
  <2> QED
    BY <1>2, <2>1, <2>2 DEF TypeOK, setBlocks, server, history
<1>3. CASE free
  <2>1. pc' \in [Actor -> Places] /\ freed' \in BOOLEAN
    BY <1>3 DEF TypeOK, free, Goto, Places, InLoop, Printing
  <2> QED
    BY <1>3, <2>1 DEF TypeOK, free, server, conf, local, history
<1>4. CASE startReceiveDataStram
  <2>1. pc' \in [Actor -> Places] /\ call' \in [Actor -> Command]
    BY <1>4 DEF TypeOK, startReceiveDataStram, Goto, Places, InLoop, Printing
  <2> QED
    BY <1>4, <2>1 DEF TypeOK, startReceiveDataStram, server, conf, history
<1>5. CASE destroy
  <2>1. pc' \in [Actor -> Places] /\ together' \in BOOLEAN
    BY <1>5 DEF TypeOK, destroy, Goto, Places, InLoop, Printing
  <2>2. /\ tx' \in Seq(Frames) /\ cmds' \in Seq(Command)
        /\ open' \in BOOLEAN /\ streaming' \in BOOLEAN
    <3>1. tx' = <<>> /\ cmds' = <<>> /\ open' = FALSE /\ streaming' = FALSE
      BY <1>5 DEF destroy, Close
    <3>2. <<>> \in Seq(Frames) /\ <<>> \in Seq(Command)
      OBVIOUS
    <3> QED
      BY <3>1, <3>2, Zenon
  <2> QED
    BY <1>5, <2>1, <2>2 DEF TypeOK, destroy, conf, local
<1>6. ASSUME NEW c \in Command, Call(c) PROVE TypeOK'
  <2>1. pc' \in [Actor -> Places] /\ call' \in [Actor -> Command]
    BY <1>6 DEF TypeOK, Call, Goto, Places, InLoop, Printing
  <2>2. together' \in BOOLEAN /\ restarted' \in BOOLEAN /\ stopped' \in BOOLEAN
    BY <1>6 DEF TypeOK, Call, LoopLives
  <2> QED
    BY <1>6, <2>1, <2>2 DEF TypeOK, Call, server, conf
<1> QED
  BY <1>1, <1>2, <1>3, <1>4, <1>5, <1>6
----------------------------------------------------------------------------
(* Places.                                                                 *)

\* The steps that leave the threads where they are.
LEMMA StillSteps ==
  ASSUME ServeCommand \/ SendData \/ PeerClose
  PROVE  UNCHANGED <<running, snd, rcv, conf, freed, fault, pc, local, history>>
  BY DEF ServeCommand, SendData, PeerClose, Process

LEMMA PcStep == ASSUME TypeOK, PcInv, Next PROVE PcInv'
<1>1. CASE ServeCommand \/ SendData \/ PeerClose
  BY <1>1, StillSteps DEF PcInv, local, history
<1>2. ASSUME NEW a \in Actor, Sending(a) PROVE PcInv'
  <2>1. CASE prepare(a)
    BY <2>1 DEF prepare, At, Goto, PcInv, TypeOK, local, InLoop, Decoding,
       Printing
  <2>2. CASE computeCRC(a)
    BY <2>2 DEF computeCRC, At, Goto, PcInv, TypeOK, history, InLoop, Decoding,
       Printing
  <2>3. CASE chk(a)
    BY <2>3 DEF chk, At, Goto, PcInv, TypeOK, history, InLoop, Decoding,
       Printing
  <2>4. CASE write(a)
    BY <2>4 DEF write, At, Goto, PcInv, TypeOK, InLoop, Decoding, Printing
  <2>5. CASE flag(a)
    BY <2>5 DEF flag, At, Goto, PcInv, TypeOK, InLoop, Decoding, Printing
  <2> QED
    BY <1>2, <2>1, <2>2, <2>3, <2>4, <2>5 DEF Sending
<1>3. ASSUME NEW a \in Actor, read(a) \/ check(a) PROVE PcInv'
  BY <1>3 DEF read, check, At, Goto, PcInv, TypeOK, history, InLoop, Decoding, Printing
<1>4. CASE test \/ clear \/ decode \/ decodePmu
  BY <1>4 DEF test, clear, decode, decodePmu, At, Goto, PcInv, TypeOK, local, history,
              InLoop, Decoding, Printing
<1>5. CASE print \/ printPmu \/ leaveArray \/ touchFreed
  BY <1>5 DEF print, printPmu, leaveArray, touchFreed, At, Goto, PcInv, TypeOK, local,
              history, InLoop, Decoding, Printing
<1>6. CASE setCount \/ setBlocks \/ free \/ startReceiveDataStram \/ destroy
  BY <1>6 DEF setCount, setBlocks, free, startReceiveDataStram, destroy, At, Goto,
              PcInv, TypeOK, local, history, InLoop, Decoding, Printing
<1>7. ASSUME NEW c \in Command, Call(c) PROVE PcInv'
  BY <1>7 DEF Call, At, Goto, PcInv, TypeOK
<1> QED
  BY <1>1, <1>2, <1>3, <1>4, <1>5, <1>6, <1>7 DEF Next, Loop, InCall
----------------------------------------------------------------------------
(* Commands.                                                               *)

\* A step that prepares nothing keeps CommandInv.
LEMMA CommandKeeps ==
  ASSUME CommandInv, UNCHANGED <<snd, crc, alone>>,
         \A a \in Actor : /\ pc'[a] \in {"crc", "chk", "write"} => pc'[a] = pc[a]
                          /\ Commanding(a) => call'[a] = call[a]
  PROVE  CommandInv'
<1> SUFFICES ASSUME NEW a \in Actor PROVE CommandOf(a)'
  BY DEF CommandInv
<1>1. CommandOf(a)
  BY DEF CommandInv
<1>2. \A x \in Actor : Commanding(x)' => pc'[x] = pc[x] /\ Commanding(x)
  BY DEF Commanding
<1>3. Other(a) \in Actor
  BY DEF Other
<1> QED
  BY <1>1, <1>2, <1>3 DEF CommandOf, Commanding

LEMMA CommandStep == ASSUME TypeOK, PcInv, CommandInv, Next PROVE CommandInv'
<1>1. CASE ServeCommand \/ SendData \/ PeerClose
  BY <1>1, StillSteps, CommandKeeps DEF local, history
<1>2. ASSUME NEW a \in Actor, prepare(a) PROVE CommandInv'
  BY <1>2, BodyValues DEF prepare, At, Goto, CommandInv, CommandOf, Commanding, Other,
                          TypeOK, local
<1>3. ASSUME NEW a \in Actor, computeCRC(a) PROVE CommandInv'
  BY <1>3 DEF computeCRC, At, Goto, CommandInv, CommandOf, Commanding, Other, TypeOK,
              history
<1>4. ASSUME NEW a \in Actor, chk(a) PROVE CommandInv'
  BY <1>4 DEF chk, At, Goto, CommandInv, CommandOf, Commanding, Other, TypeOK, history
<1>5. ASSUME NEW a \in Actor, write(a) \/ flag(a) PROVE CommandInv'
  <2>1. CASE write(a)
    BY <2>1 DEF write, At, Goto, CommandInv, CommandOf, Commanding, Other, TypeOK
  <2>3. CASE flag(a)
    BY <2>3, CommandKeeps DEF flag, At, Goto, TypeOK, Commanding
  <2> QED
    BY <1>5, <2>1, <2>3
<1>6. ASSUME NEW a \in Actor, read(a) \/ check(a) PROVE CommandInv'
  BY <1>6, CommandKeeps DEF read, check, At, Goto, TypeOK, history
<1>7. CASE test
  BY <1>7, CommandKeeps DEF test, At, Goto, Commanding, TypeOK, history
<1>8. CASE \/ clear \/ decode \/ decodePmu \/ print \/ printPmu
           \/ leaveArray \/ touchFreed
  BY <1>8, CommandKeeps DEF clear, decode, decodePmu, print, printPmu, leaveArray,
                            touchFreed, At, Goto, TypeOK, local, history
<1>9. CASE setCount \/ setBlocks \/ free \/ destroy
  BY <1>9, CommandKeeps DEF setCount, setBlocks, free, destroy, At, Goto, TypeOK,
                            local, history
<1>10. CASE startReceiveDataStram
  BY <1>10, CommandKeeps DEF startReceiveDataStram, At, Goto, Commanding, TypeOK, history
<1>11. ASSUME NEW c \in Command, Call(c) PROVE CommandInv'
  BY <1>11, CommandKeeps DEF Call, At, Goto, Commanding, TypeOK
<1> QED
  BY <1>1, <1>2, <1>3, <1>4, <1>5, <1>6, <1>7, <1>8, <1>9, <1>10, <1>11
     DEF Next, Loop, InCall, Sending
----------------------------------------------------------------------------
(* The receive buffer.                                                     *)

LEMMA ReadStep == ASSUME TypeOK, PcInv, ReadInv, Next PROVE ReadInv'
<1> USE DEF Decoding, Printing
<1>1. CASE ServeCommand \/ SendData \/ PeerClose
  BY <1>1, StillSteps DEF ReadInv, local
<1>2. ASSUME NEW a \in Actor, prepare(a) PROVE ReadInv'
  BY <1>2 DEF prepare, At, Goto, PcInv, ReadInv, TypeOK, local
<1>3. ASSUME NEW a \in Actor, computeCRC(a) \/ chk(a) \/ write(a) \/ flag(a)
      PROVE  ReadInv'
  BY <1>3 DEF computeCRC, chk, write, flag, At, Goto, ReadInv, TypeOK
<1>4. ASSUME NEW a \in Actor, read(a) PROVE ReadInv'
  BY <1>4 DEF read, At, Goto, ReadInv, TypeOK
<1>5. ASSUME NEW a \in Actor, check(a) PROVE ReadInv'
  <2>1. CASE a = "app"
    BY <1>5, <2>1 DEF check, At, Goto, ReadInv, TypeOK
  <2>3. CASE a = "loop"
    BY <1>5, <2>3 DEF check, Accepted, At, Goto, ReadInv, TypeOK
  <2> QED
    BY <2>1, <2>3
<1>6. CASE test \/ clear \/ decode \/ decodePmu
  BY <1>6 DEF test, clear, decode, decodePmu, At, Goto, ReadInv, TypeOK, local
<1>7. CASE print \/ printPmu \/ leaveArray \/ touchFreed
  BY <1>7 DEF print, printPmu, leaveArray, touchFreed, At, Goto, ReadInv, TypeOK, local
<1>8. CASE setCount \/ setBlocks \/ free \/ startReceiveDataStram \/ destroy
  BY <1>8 DEF setCount, setBlocks, free, startReceiveDataStram, destroy, At, Goto,
              ReadInv, TypeOK, local
<1>9. ASSUME NEW c \in Command, Call(c) PROVE ReadInv'
  BY <1>9 DEF Call, At, Goto, ReadInv, TypeOK
<1> QED
  BY <1>1, <1>2, <1>3, <1>4, <1>5, <1>6, <1>7, <1>8, <1>9 DEF Next, Loop, InCall, Sending
----------------------------------------------------------------------------
(* The configuration and what the loop makes of it.                        *)

\* The steps of the calls leave the configuration alone, but two.
LEMMA ConfSteps ==
  ASSUME TypeOK, Next, ~setCount, ~setBlocks, ~decodePmu
  PROVE  UNCHANGED conf
<1>1. CASE ServeCommand \/ SendData \/ PeerClose
  BY <1>1, StillSteps
<1>2. ASSUME NEW a \in Actor, Sending(a) \/ read(a) \/ check(a) PROVE UNCHANGED conf
  BY <1>2 DEF Sending, prepare, computeCRC, chk, write, flag, read, check
<1>3. CASE test \/ clear \/ decode \/ print \/ printPmu \/ leaveArray \/ touchFreed
  BY <1>3 DEF test, clear, decode, print, printPmu, leaveArray, touchFreed
<1>4. CASE free \/ startReceiveDataStram \/ destroy
  BY <1>4 DEF free, startReceiveDataStram, destroy
<1>5. ASSUME NEW c \in Command, Call(c) PROVE UNCHANGED conf
  BY <1>5 DEF Call
<1> QED
  BY <1>1, <1>2, <1>3, <1>4, <1>5 DEF Next, Loop, InCall

\* One step leaves the array; after it there is none.
LEMMA FaultSteps ==
  ASSUME TypeOK, Next
  PROVE  fault = "none" /\ (fault' = "outOfBounds" => leaveArray)
<1>1. CASE ServeCommand \/ SendData \/ PeerClose
  BY <1>1 DEF ServeCommand, SendData, PeerClose, Process
<1>2. ASSUME NEW a \in Actor, Sending(a) \/ read(a) \/ check(a)
      PROVE  fault = "none" /\ fault' # "outOfBounds"
  BY <1>2 DEF Sending, prepare, computeCRC, chk, write, flag, read, check, At
<1>3. CASE test \/ clear \/ decode \/ decodePmu \/ print \/ printPmu \/ touchFreed
  BY <1>3 DEF test, clear, decode, decodePmu, print, printPmu, touchFreed, At
<1>4. CASE setCount \/ setBlocks \/ free \/ startReceiveDataStram \/ destroy
  BY <1>4 DEF setCount, setBlocks, free, startReceiveDataStram, destroy, At
<1>5. ASSUME NEW c \in Command, Call(c) PROVE fault = "none" /\ fault' = "none"
  BY <1>5 DEF Call, At
<1>6. CASE leaveArray
  BY <1>6 DEF leaveArray
<1> QED
  BY <1>1, <1>2, <1>3, <1>4, <1>5, <1>6 DEF Next, Loop, InCall

\* Between the two assignments the application is in no other call.
LEMMA BlocksSteps ==
  ASSUME TypeOK, Next, ~setBlocks, pc["app"] = "setBlocks"
  PROVE  pc'["app"] = "setBlocks" /\ ~setCount
<1>1. CASE ServeCommand \/ SendData \/ PeerClose
  BY <1>1, StillSteps DEF setCount, At
<1>2. ASSUME NEW a \in Actor, Sending(a) \/ read(a) \/ check(a)
      PROVE  pc'["app"] = pc["app"]
  BY <1>2 DEF Sending, prepare, computeCRC, chk, write, flag, read, check, At, Goto, TypeOK
<1>3. CASE Loop
  BY <1>2, <1>3 DEF Loop, test, clear, decode, decodePmu, print, printPmu, leaveArray,
     touchFreed, Goto, TypeOK, setCount, At
<1>4. ~setCount /\ ~free /\ ~startReceiveDataStram /\ ~destroy
  BY DEF setCount, free, startReceiveDataStram, destroy, At
<1>5. \A c \in Command : ~Call(c)
  BY DEF Call, At
<1> QED
  BY <1>1, <1>2, <1>3, <1>4, <1>5 DEF Next, InCall

LEMMA CountStep == ASSUME TypeOK, PcInv, CountInv, Next PROVE CountInv'
<1>1. fault' = "outOfBounds" => pc'["app"] = "setBlocks" \/ pmu' > numPmu'
  <2> SUFFICES ASSUME leaveArray PROVE pc'["app"] = "setBlocks" \/ pmu' > numPmu'
    BY FaultSteps
  <2>1. UNCHANGED <<pc, pmu, numPmu>> /\ pmu \notin 1 .. Len(channels)
    BY DEF leaveArray, local, conf, TypeOK
  <2>3. Len(channels) \in Nat
    BY DEF TypeOK
  <2> QED
    BY <2>1, <2>3 DEF CountInv, TypeOK
<1>2. pc'["app"] # "setBlocks" => numPmu' = Len(channels')
  <2>1. CASE setCount
    BY <2>1 DEF setCount, Goto, TypeOK
  <2>3. CASE setBlocks
    BY <2>3 DEF setBlocks, TypeOK
  <2>4. CASE decodePmu
    BY <2>4 DEF decodePmu, Goto, CountInv, TypeOK
  <2>2. CASE ~setCount /\ ~setBlocks /\ ~decodePmu
    BY <2>2, ConfSteps, BlocksSteps DEF CountInv, conf
  <2> QED
    BY <2>1, <2>2, <2>3, <2>4
<1> QED
  BY <1>1, <1>2 DEF CountInv

\* What a step keeps that neither decodes nor installs.
LEMMA OwnKeeps ==
  ASSUME OwnInv, UNCHANGED <<conf, pmu>>, got'["loop"] = got["loop"],
         rcv'.by = "loop" => rcv.by = "loop",
         pc'["loop"] \in Decoding => pc["loop"] \in Decoding,
         pc'["loop"] \in Printing => pc["loop"] \in Printing
  PROVE  OwnInv'
<1>1. OwnUpTo(pmu - 1) => OwnUpTo(pmu - 1)'
  BY DEF OwnUpTo, conf
<1>2. OwnUpTo(numPmu) => OwnUpTo(numPmu)'
  BY DEF OwnUpTo, conf
<1> QED
  BY <1>1, <1>2 DEF OwnInv

LEMMA OwnStep ==
  ASSUME TypeOK, PcInv, ReadInv, CountInv, OwnInv, Next
  PROVE  OwnInv'
<1> USE DEF Decoding, Printing
<1>1. CASE ServeCommand \/ SendData \/ PeerClose
  BY <1>1, StillSteps, OwnKeeps DEF local
<1>2. ASSUME NEW a \in Actor, Sending(a) PROVE OwnInv'
  <2>1. CASE prepare(a)
    BY <2>1, OwnKeeps DEF prepare, At, Goto, TypeOK, PcInv, local
  <2>2. CASE computeCRC(a) \/ chk(a)
    BY <2>2, OwnKeeps DEF computeCRC, chk, At, Goto, TypeOK
  <2>3. CASE write(a) \/ flag(a)
    BY <2>3, OwnKeeps DEF write, flag, At, Goto, TypeOK
  <2> QED
    BY <1>2, <2>1, <2>2, <2>3 DEF Sending
<1>3. ASSUME NEW a \in Actor, read(a) PROVE OwnInv'
  <2>1. CASE a = "app"
    BY <1>3, <2>1, OwnKeeps DEF read, At, Goto, TypeOK
  <2>2. CASE a = "loop"
    <3>1. pc'["loop"] \notin Decoding \cup Printing
      BY <1>3, <2>2 DEF read, At, Goto, TypeOK
    <3> QED
      BY <3>1 DEF OwnInv
  <2> QED
    BY <2>1, <2>2
<1>4. ASSUME NEW a \in Actor, check(a) PROVE OwnInv'
  <2>1. CASE a = "app"
    BY <1>4, <2>1, OwnKeeps DEF check, At, Goto, TypeOK
  <2>2. CASE a = "loop"
    <3>1. pc'["loop"] \notin Printing /\ pmu' = 1
      BY <1>4, <2>2 DEF check, At, Goto, TypeOK, PcInv
    <3>2. OwnUpTo(pmu - 1)'
      BY <3>1 DEF OwnUpTo
    <3> QED
      BY <3>1, <3>2 DEF OwnInv
  <2> QED
    BY <2>1, <2>2
<1>5. CASE test \/ clear \/ leaveArray \/ touchFreed
  <2>1. UNCHANGED <<conf, pmu>> /\ got' = got
    BY <1>5 DEF test, clear, leaveArray, touchFreed, local
  <2>2. CASE test \/ clear
    <3>1. pc'["loop"] \notin Decoding \cup Printing
      BY <2>2 DEF test, clear, Goto, TypeOK
    <3> QED
      BY <3>1 DEF OwnInv
  <2>3. CASE leaveArray \/ touchFreed
    BY <2>1, <2>3, OwnKeeps DEF leaveArray, touchFreed
  <2> QED
    BY <1>5, <2>2, <2>3
<1>6. CASE decode
  <2>1. /\ UNCHANGED <<channels, numPmu, got, rcv>> /\ pc["loop"] = "decode"
        /\ \/ pmu <= numPmu /\ pc'["loop"] = "decodePmu" /\ pmu' = pmu
           \/ ~(pmu <= numPmu) /\ pc'["loop"] = "print"
    BY <1>6 DEF decode, At, Goto, TypeOK, conf
  <2>2. rcv.by = "loop" => OwnUpTo(pmu - 1)
    BY <2>1 DEF OwnInv
  <2>3. CASE pc'["loop"] = "decodePmu"
    BY <2>1, <2>2, <2>3 DEF OwnInv, OwnUpTo
  <2>4. CASE pc'["loop"] = "print"
    <3>1. rcv'.by = "loop" => OwnUpTo(numPmu)'
      BY <2>1, <2>2, <2>4 DEF OwnUpTo, TypeOK
    <3> QED
      BY <2>4, <3>1 DEF OwnInv
  <2> QED
    BY <2>1, <2>3, <2>4
<1>7. CASE decodePmu
  <2>1. /\ UNCHANGED <<got, rcv>> /\ pc["loop"] = "decodePmu" /\ pc'["loop"] = "decode"
        /\ pmu' = pmu + 1 /\ channels' = [channels EXCEPT ![pmu] = Decoded]
    BY <1>7 DEF decodePmu, At, Goto, TypeOK
  <2>2. ASSUME rcv.by = "loop" PROVE OwnUpTo(pmu - 1)'
    <3>1. OwnUpTo(pmu - 1) /\ Decoded = got["loop"]
      BY <2>1, <2>2 DEF OwnInv, ReadInv, Decoded
    <3>2. ASSUME NEW i \in DOMAIN channels', i \in 1 .. pmu
          PROVE  channels'[i] \in {got["loop"], Zero}
      <4>1. i \in DOMAIN channels /\ (i = pmu \/ i \in 1 .. pmu - 1)
        BY <2>1, <3>2 DEF TypeOK
      <4>2. channels'[i] = Decoded \/ (i \in 1 .. pmu - 1 /\ channels'[i] = channels[i])
        BY <2>1, <4>1
      <4> QED
        BY <3>1, <4>1, <4>2 DEF OwnUpTo
    <3>3. pmu' - 1 = pmu
      BY <2>1 DEF TypeOK
    <3> QED
      BY <2>1, <3>2, <3>3 DEF OwnUpTo
  <2> QED
    BY <2>1, <2>2 DEF OwnInv
<1>8. CASE print \/ printPmu
  <2>1. /\ UNCHANGED <<conf, rcv>> /\ pc["loop"] \in Printing
        /\ \/ pc'["loop"] \in Printing /\ got' = got
           \/ pc'["loop"] = "test"
    BY <1>8 DEF print, printPmu, At, Goto, TypeOK
  <2>2. CASE pc'["loop"] = "test"
    BY <2>2 DEF OwnInv
  <2>3. CASE pc'["loop"] \in Printing /\ got' = got
    <3>1. rcv'.by = "loop" => OwnUpTo(numPmu)'
      BY <2>1, <2>3 DEF OwnInv, OwnUpTo, conf
    <3> QED
      BY <2>3, <3>1 DEF OwnInv
  <2> QED
    BY <2>1, <2>2, <2>3
<1>9. CASE setCount
  <2>1. /\ UNCHANGED <<channels, got, rcv, pmu>> /\ pc'["loop"] = pc["loop"]
        /\ numPmu = Len(channels) /\ numPmu \in Nat
    BY <1>9 DEF setCount, At, Goto, TypeOK, CountInv, local
  <2>2. DOMAIN channels = 1 .. numPmu
    BY <2>1 DEF TypeOK
  <2>3. OwnUpTo(numPmu) => OwnUpTo(numPmu)'
    BY <2>1, <2>2 DEF OwnUpTo
  <2>4. OwnUpTo(pmu - 1) => OwnUpTo(pmu - 1)'
    BY <2>1 DEF OwnUpTo
  <2> QED
    BY <2>1, <2>3, <2>4 DEF OwnInv
<1>10. CASE setBlocks
  <2>1. \A i \in DOMAIN channels' : channels'[i] = Zero
    BY <1>10 DEF setBlocks
  <2>2. \A n : OwnUpTo(n)'
    BY <2>1 DEF OwnUpTo
  <2> QED
    BY <2>2 DEF OwnInv, OwnUpTo
<1>11. CASE free \/ startReceiveDataStram \/ destroy
  BY <1>11, OwnKeeps DEF free, startReceiveDataStram, destroy, At, Goto, TypeOK, local
<1>12. ASSUME NEW c \in Command, Call(c) PROVE OwnInv'
  BY <1>12, OwnKeeps DEF Call, At, Goto, TypeOK
<1> QED
  BY <1>1, <1>2, <1>3, <1>4, <1>5, <1>6, <1>7, <1>8, <1>9, <1>10, <1>11, <1>12
     DEF Next, Loop, InCall
----------------------------------------------------------------------------
(* The commands on their way.                                              *)

\* A step that sends no command and after which the loop's last stop is no
\* newer keeps QuietInv.
LEMMA QuietKeeps ==
  ASSUME QuietInv, UNCHANGED <<cmds, streaming>>, LastSent' => LastSent,
         Commanding("app")' => Commanding("app"), snd'.body = snd.body,
         (pc'["loop"] = "ended" /\ ~restarted') => ~running'
  PROVE  QuietInv'
<1>1. Quieted => Quieted'
  BY DEF Quieted, NoStart
<1>2. LastSent' => Quieted' /\ (Commanding("app") => snd.body[2] # "start")
  BY <1>1 DEF QuietInv
<1> HIDE DEF LastSent, Quieted, Commanding
<1> QED
  BY <1>2 DEF QuietInv

LEMMA ServedQuiet ==
  ASSUME cmds \in Seq(Command), ServeCommand, Quieted
  PROVE  Quieted'
<1>1. /\ cmds # <<>> /\ cmds' = Tail(cmds)
      /\ cmds[1] = "stop" => streaming' = FALSE
      /\ cmds[1] # "start" => streaming' = FALSE \/ streaming' = streaming
  <2>1. cmds # <<>> /\ cmds' = Tail(cmds)
    BY DEF ServeCommand
  <2>2. streaming' = CASE Head(cmds) = "start" -> TRUE
                       [] Head(cmds) = "stop"  -> FALSE
                       [] OTHER                -> streaming
    BY DEF ServeCommand
  <2>3. Head(cmds) = cmds[1]
    BY <2>1
  <2> QED
    BY <2>1, <2>2, <2>3
<1>2. /\ Len(cmds) \in Nat \ {0} /\ Len(cmds') = Len(cmds) - 1
      /\ \A j \in 1 .. Len(cmds') : cmds'[j] = cmds[j + 1]
  BY <1>1
<1>3. ASSUME NEW i \in 1 .. Len(cmds), NoStart(i)
      PROVE  \A j \in 1 .. Len(cmds') : j + 1 >= i => cmds'[j] # "start"
  BY <1>2, <1>3 DEF NoStart
<1>4. CASE ~streaming /\ NoStart(1)
  <2>1. cmds[1] # "start"
    BY <1>2, <1>4 DEF NoStart
  <2>2. NoStart(1)'
    BY <1>2, <1>3, <1>4 DEF NoStart
  <2> QED
    BY <1>1, <1>4, <2>1, <2>2 DEF Quieted
<1>5. ASSUME NEW i \in 1 .. Len(cmds), cmds[i] = "stop", NoStart(i) PROVE Quieted'
  <2>1. CASE i = 1
    <3>1. NoStart(1)'
      BY <1>2, <1>3, <1>5, <2>1 DEF NoStart
    <3> QED
      BY <1>1, <1>5, <2>1, <3>1 DEF Quieted
  <2>2. CASE i # 1
    <3>1. i - 1 \in 1 .. Len(cmds') /\ cmds'[i - 1] = "stop"
      BY <1>2, <1>5, <2>2
    <3>2. NoStart(i - 1)'
      BY <1>2, <1>3, <1>5, <2>2 DEF NoStart
    <3> QED
      BY <3>1, <3>2 DEF Quieted
  <2> QED
    BY <2>1, <2>2
<1> QED
  BY <1>4, <1>5 DEF Quieted

LEMMA AppendedQuiet ==
  ASSUME cmds \in Seq(Command), NEW c, c # "start",
         cmds' = Append(cmds, c), streaming' = streaming, Quieted \/ c = "stop"
  PROVE  Quieted'
<1>1. /\ Len(cmds) \in Nat /\ Len(cmds') = Len(cmds) + 1 /\ cmds'[Len(cmds) + 1] = c
      /\ \A j \in 1 .. Len(cmds) : cmds'[j] = cmds[j]
  OBVIOUS
<1>2. ASSUME NEW i \in Nat \ {0}, NoStart(i) PROVE NoStart(i)'
  BY <1>1, <1>2 DEF NoStart
<1>3. CASE ~streaming /\ NoStart(1)
  BY <1>2, <1>3 DEF Quieted
<1>4. ASSUME NEW i \in 1 .. Len(cmds), cmds[i] = "stop", NoStart(i) PROVE Quieted'
  <2>1. NoStart(i)' /\ i \in 1 .. Len(cmds') /\ cmds'[i] = "stop"
    BY <1>1, <1>2, <1>4
  <2> QED
    BY <2>1 DEF Quieted
<1>5. CASE c = "stop"
  <2>1. PICK n \in Nat : n = Len(cmds) + 1
    BY <1>1
  <2>2. n \in 1 .. Len(cmds') /\ cmds'[n] = "stop"
    BY <1>1, <1>5, <2>1
  <2>3. NoStart(n)'
    BY <1>1, <1>5, <2>1 DEF NoStart
  <2> QED
    BY <2>2, <2>3 DEF Quieted
<1> QED
  BY <1>3, <1>4, <1>5 DEF Quieted

LEMMA WriteQuiet ==
  ASSUME TypeOK, PcInv, CommandInv, QuietInv, NEW a \in Actor, write(a)
  PROVE  QuietInv'
<1>1. /\ pc[a] = "write" /\ pc'[a] \in {"read", "flag"} /\ ~Commanding(a)'
      /\ pc'[Other(a)] = pc[Other(a)]
      /\ UNCHANGED <<restarted, open, streaming, running>>
      /\ pc'["loop"] = "ended" => pc["loop"] = "ended"
      /\ call'["loop"] = call["loop"]
      /\ alone'["loop"] /\ call["loop"] = "stop" => alone["loop"]
  BY DEF write, At, Goto, TypeOK, PcInv, Other, Commanding
<1>2. SUFFICES ASSUME LastSent'
               PROVE  Quieted' /\ (Commanding("app")' => snd'.body[2] # "start")
  BY <1>1 DEF QuietInv
<1>3. alone["loop"] /\ call["loop"] = "stop" /\ open
  BY <1>1, <1>2 DEF LastSent
<1>4. cmds' = IF snd.chk = snd.body THEN Append(cmds, snd.body[2]) ELSE cmds
  BY <1>3 DEF write
<1>5. CASE a = "app"
  <2>1. LastSent
    BY <1>1, <1>2, <1>3, <1>5 DEF LastSent, Other
  <2>2. Quieted /\ snd.body[2] # "start"
    BY <1>1, <1>5, <2>1 DEF QuietInv, Commanding
  <2>3. ASSUME snd.chk = snd.body PROVE Quieted'
    BY <1>1, <1>4, <2>2, <2>3, AppendedQuiet DEF TypeOK
  <2>4. ASSUME snd.chk # snd.body PROVE Quieted'
    BY <1>1, <1>4, <2>2, <2>4 DEF Quieted, NoStart
  <2> QED
    BY <1>1, <1>5, <2>3, <2>4
<1>6. CASE a = "loop"
  <2>1. /\ ~Commanding("app")
        /\ snd.body = <<"loop", "stop">> /\ snd.chk = <<"loop", "stop">>
    BY <1>1, <1>3, <1>6 DEF CommandInv, CommandOf, Commanding, Other
  <2>2. cmds' = Append(cmds, "stop")
    BY <1>4, <2>1
  <2>3. Quieted'
    BY <1>1, <2>2, AppendedQuiet DEF TypeOK
  <2>4. ~Commanding("app")'
    BY <1>1, <1>6, <2>1 DEF Commanding, Other
  <2> QED
    BY <2>3, <2>4
<1> QED
  BY <1>5, <1>6

LEMMA QuietStep ==
  ASSUME TypeOK, PcInv, CommandInv, QuietInv, Next
  PROVE  QuietInv'
<1>1. CASE ServeCommand
  <2>1. /\ UNCHANGED <<pc, call, alone, restarted, open, running, snd>>
        /\ cmds \in Seq(Command)
    BY <1>1, StillSteps DEF ServeCommand, local, history, TypeOK
  <2>2. LastSent' => LastSent
    BY <2>1 DEF LastSent
  <2> QED
    BY <1>1, <2>1, <2>2, ServedQuiet DEF QuietInv, Commanding
<1>2. CASE SendData \/ PeerClose
  <2>1. UNCHANGED <<pc, call, alone, restarted, running, snd>>
    BY <1>2, StillSteps DEF local, history
  <2>2. CASE SendData
    <3>1. UNCHANGED <<open, streaming, cmds>>
      BY <2>2 DEF SendData
    <3>2. LastSent' => LastSent
      BY <2>1, <3>1 DEF LastSent
    <3> QED
      BY <2>1, <3>1, <3>2, QuietKeeps DEF QuietInv, Commanding
  <2>3. CASE PeerClose
    BY <2>1, <2>3 DEF PeerClose, Close, QuietInv, LastSent
  <2> QED
    BY <1>2, <2>2, <2>3
<1>3. ASSUME NEW a \in Actor, prepare(a) PROVE QuietInv'
  <2>1. CASE a = "loop"
    BY <1>3, <2>1 DEF prepare, Goto, QuietInv, LastSent, TypeOK
  <2>2. CASE a = "app"
    <3>1. /\ UNCHANGED <<call, restarted, open, running, streaming, cmds>>
          /\ pc'["loop"] = pc["loop"] /\ snd'.body = <<"app", call["app"]>>
          /\ ~Commanding("loop") => alone'["loop"] = alone["loop"]
      BY <1>3, <2>2 DEF prepare, Goto, TypeOK, server, local, Other
    <3>2. LastSent' => LastSent
      BY <3>1 DEF LastSent, Commanding
    <3>3. LastSent' => Quieted'
      BY <3>1, <3>2 DEF QuietInv, Quieted, NoStart
    <3>4. LastSent' => snd'.body[2] # "start"
      BY <3>1 DEF LastSent, PcInv
    <3> QED
      BY <3>1, <3>3, <3>4 DEF QuietInv
  <2> QED
    BY <2>1, <2>2
<1>4. ASSUME NEW a \in Actor, computeCRC(a) \/ chk(a) PROVE QuietInv'
  <2>1. /\ UNCHANGED <<call, alone, restarted, open, running, streaming, cmds>>
        /\ snd'.body = snd.body
        /\ pc[a] \in {"crc", "chk"} /\ pc' = [pc EXCEPT ![a] = pc'[a]]
        /\ pc'[a] \in {"chk", "write"}
    BY <1>4 DEF computeCRC, chk, At, Goto, TypeOK, server, history
  <2>2. /\ pc'["loop"] \in {"flag", "ended"} => pc'["loop"] = pc["loop"]
        /\ Commanding("app")' => Commanding("app")
    BY <2>1 DEF Commanding, TypeOK
  <2>3. LastSent' => LastSent
    BY <2>1, <2>2 DEF LastSent
  <2> QED
    BY <2>1, <2>2, <2>3, QuietKeeps DEF QuietInv
<1>5. ASSUME NEW a \in Actor, flag(a) PROVE QuietInv'
  <2>1. /\ UNCHANGED <<alone, restarted, open, streaming, cmds, snd>>
        /\ call'["loop"] = call["loop"]
        /\ pc[a] = "flag" /\ running' = (call[a] = "start")
        /\ pc' = [pc EXCEPT ![a] = IF a = "app" THEN "idle"
                                   ELSE IF call[a] = "start" THEN "test" ELSE "ended"]
    BY <1>5 DEF flag, At, Goto, server, TypeOK
  <2>2. Commanding("app")' => Commanding("app")
    BY <2>1 DEF Commanding, TypeOK
  <2>3. LastSent' => LastSent
    BY <2>1 DEF LastSent, TypeOK
  <2>4. (pc'["loop"] = "ended" /\ ~restarted') => call[a] # "start"
    BY <2>1 DEF PcInv, TypeOK
  <2> QED
    BY <2>1, <2>2, <2>3, <2>4, QuietKeeps
<1>6. ASSUME NEW a \in Actor, read(a) \/ check(a) PROVE QuietInv'
  <2>1. /\ UNCHANGED <<call, alone, restarted, open, running, streaming, cmds, snd>>
        /\ pc'["loop"] \in {"flag", "ended"} => pc'["loop"] = pc["loop"]
        /\ Commanding("app")' => Commanding("app")
    BY <1>6 DEF read, check, At, Goto, TypeOK, Commanding, server, history
  <2>2. LastSent' => LastSent
    BY <2>1 DEF LastSent
  <2> QED
    BY <2>1, <2>2, QuietKeeps DEF QuietInv
<1>7. CASE \/ test \/ clear \/ decode \/ decodePmu \/ print \/ printPmu
           \/ leaveArray \/ touchFreed
  <2>1. /\ UNCHANGED <<alone, restarted, open, running, streaming, cmds, snd>>
        /\ pc'["loop"] \in {"flag", "ended"} => pc' = pc /\ call' = call
        /\ pc'["app"] = pc["app"]
    BY <1>7 DEF test, clear, decode, decodePmu, print, printPmu, leaveArray,
                touchFreed, At, Goto, TypeOK, server, local, history
  <2>2. LastSent' => LastSent
    BY <2>1 DEF LastSent
  <2> QED
    BY <2>1, <2>2, QuietKeeps DEF QuietInv, Commanding
<1>8. CASE setCount \/ setBlocks \/ free \/ startReceiveDataStram
  <2>1. /\ UNCHANGED <<alone, restarted, open, running, streaming, cmds, snd>>
        /\ pc'["loop"] \in {"flag", "ended"} => pc'["loop"] = pc["loop"] /\ call' = call
        /\ ~Commanding("app")'
    BY <1>8 DEF setCount, setBlocks, free, startReceiveDataStram, At, Goto, TypeOK,
                Commanding, server, local, history
  <2>2. LastSent' => LastSent
    BY <2>1 DEF LastSent
  <2> QED
    BY <2>1, <2>2, QuietKeeps DEF QuietInv
<1>9. CASE destroy
  <2>1. /\ UNCHANGED <<restarted, running>> /\ open' = FALSE
        /\ pc'["loop"] = pc["loop"]
    BY <1>9 DEF destroy, Close, At, Goto, TypeOK
  <2> QED
    BY <2>1 DEF QuietInv, LastSent
<1>10. ASSUME NEW c \in Command, Call(c) PROVE QuietInv'
  <2>1. /\ UNCHANGED <<alone, open, running, streaming, cmds, snd>>
        /\ pc'["loop"] = pc["loop"] /\ call'["loop"] = call["loop"]
        /\ ~restarted' => ~restarted
        /\ ~Commanding("app")'
    BY <1>10 DEF Call, At, Goto, TypeOK, Commanding, server
  <2>2. LastSent' => LastSent
    BY <2>1 DEF LastSent
  <2> QED
    BY <2>1, <2>2, QuietKeeps DEF QuietInv
<1> QED
  BY <1>1, <1>2, <1>3, <1>4, <1>5, <1>6, <1>7, <1>8, <1>9, <1>10, WriteQuiet
     DEF Next, Loop, InCall, Sending
----------------------------------------------------------------------------
(* The theorems.                                                           *)

LEMMA TypeStep == ASSUME TypeOK, CommandInv, Next PROVE TypeOK'
  BY ServerTypes, SendingTypes, ReadingTypes, LoopTypes, AppTypes
     DEF Next, Loop, InCall

THEOREM InductiveInvariant == Spec => []IInv
<1>1. IInv /\ Next => IInv'
  BY TypeStep, PcStep, CommandStep, ReadStep, CountStep, OwnStep, QuietStep DEF IInv
<1>2. IInv /\ UNCHANGED vars => IInv'
  <2> SUFFICES ASSUME IInv, UNCHANGED vars PROVE IInv'
    OBVIOUS
  <2> USE DEF IInv, vars, server, conf, local, history
  <2>1. TypeOK'
    BY DEF TypeOK
  <2>2. PcInv' /\ ReadInv' /\ CountInv' /\ OwnInv'
    BY DEF PcInv, ReadInv, CountInv, OwnInv, OwnUpTo
  <2>3. CommandInv'
    BY DEF CommandInv, CommandOf, Commanding
  <2>4. QuietInv'
    BY DEF QuietInv, LastSent, Quieted, NoStart, Commanding
  <2> QED
    BY <2>1, <2>2, <2>3, <2>4
<1> QED
  BY InitIInv, <1>1, <1>2, PTL DEF Spec

\* Every variable keeps its type.
THEOREM TypeCorrect == Spec => []TypeOK
<1>1. IInv => TypeOK
  BY DEF IInv
<1> QED
  BY <1>1, InductiveInvariant, PTL

\* A command that met no other one in bufferSnd is sent as it was asked for.
THEOREM CommandsAreWhole == Spec => []CommandsWhole
<1>1. IInv => CommandsWhole
  <2> SUFFICES ASSUME IInv, NEW a \in Actor, pc[a] = "write", alone[a]
               PROVE  snd = [body |-> <<a, call[a]>>, chk |-> <<a, call[a]>>]
    BY DEF CommandsWhole
  <2>1. snd.body = <<a, call[a]>> /\ snd.chk = <<a, call[a]>>
    BY DEF IInv, CommandInv, CommandOf, Commanding
  <2>2. snd = [body |-> snd.body, chk |-> snd.chk]
    BY DEF IInv, TypeOK
  <2> QED
    BY <2>1, <2>2, Zenon
<1> QED
  BY <1>1, InductiveInvariant, PTL

\* The loop prints of each PMU what it has read, or the zeros of a configuration
\* installed meanwhile, unless the application writes to its buffer; and it
\* leaves the array only as the two assignments of parseConfigurationFrame let it.
THEOREM OwnFrameIsPrinted == Spec => []PrintsOwnFrame
<1>1. IInv => PrintsOwnFrame
  <2> SUFFICES ASSUME IInv, pc["loop"] \in Printing, rcv.by = "loop"
               PROVE  /\ got["loop"].kind = "data"
                      /\ \A i \in DOMAIN channels :
                            i \in pmu .. numPmu => channels[i] \in {got["loop"], Zero}
    BY DEF IInv, CountInv, PrintsOwnFrame
  <2>1. got["loop"].kind = "data" /\ OwnUpTo(numPmu)
    BY DEF IInv, ReadInv, OwnInv
  <2>2. pmu \in Nat \ {0} /\ numPmu \in Nat
    BY DEF IInv, TypeOK
  <2>3. \A i : i \in pmu .. numPmu => i \in 1 .. numPmu
    BY <2>2
  <2> QED
    BY <2>1, <2>3 DEF OwnUpTo
<1> QED
  BY <1>1, InductiveInvariant, PTL

\* The loop's end leaves the server quiet, if its stop met no other command.
LEMMA EndIsQuiet == Spec => []QuietAtEnd
<1>1. IInv => QuietAtEnd
  <2> SUFFICES ASSUME IInv, pc["loop"] = "ended", alone["loop"], ~restarted, open,
                      cmds = <<>>
               PROVE  ~streaming /\ ~running
    BY DEF QuietAtEnd
  <2>1. LastSent
    BY DEF IInv, PcInv, LastSent
  <2>2. Quieted /\ ~running
    BY <2>1 DEF IInv, QuietInv
  <2>3. Len(cmds) = 0
    OBVIOUS
  <2> QED
    BY <2>2, <2>3 DEF Quieted
<1> QED
  BY <1>1, InductiveInvariant, PTL
----------------------------------------------------------------------------
(* The safety half of StopEndsLoop.                                        *)

\* Neither thread has a start on its way once the stop has returned.
StopInv ==
    stopped =>
        /\ ~running
        /\ pc["loop"] # "none"
        /\ call["loop"] = "start" => pc["loop"] \in InLoop
        /\ call["app"] = "start" =>
              pc["app"] \notin {"prepare", "crc", "chk", "write", "flag"}

\* The steps of a call before the flag move one thread: one that has a command
\* in hand, and so no start, or one that reads and goes on reading.
LEMMA StopMoves ==
  ASSUME TypeOK, StopInv, NEW a \in Actor, NEW place \in Places,
         UNCHANGED <<running, stopped>>,
         \A x \in Actor : call'[x] = "start" <=> call[x] = "start",
         pc' = [pc EXCEPT ![a] = place],
         \/ pc[a] \in {"prepare", "crc", "chk", "write"} /\ place # "none"
         \/ place \in InLoop
         \/ a = "app" /\ place \in {"setCount", "idle"}
  PROVE  StopInv'
<1>1. CASE a = "app"
  <2>1. pc'["app"] = place /\ pc'["loop"] = pc["loop"]
    BY <1>1 DEF TypeOK
  <2> QED
    BY <1>1, <2>1 DEF StopInv, InLoop, Printing
<1>2. CASE a = "loop"
  <2>1. pc'["loop"] = place /\ pc'["app"] = pc["app"]
    BY <1>2 DEF TypeOK
  <2> QED
    BY <1>2, <2>1 DEF StopInv, InLoop, Printing
<1> QED
  BY <1>1, <1>2

LEMMA StopCalls ==
  ASSUME TypeOK, PcInv, StopInv, NEW a \in Actor,
         prepare(a) \/ computeCRC(a) \/ chk(a) \/ write(a) \/ read(a) \/ check(a)
  PROVE  StopInv'
<1>1. /\ UNCHANGED <<running, stopped>>
      /\ \A x \in Actor : call'[x] = "start" <=> call[x] = "start"
  <2>1. CASE prepare(a) \/ computeCRC(a) \/ chk(a)
    BY <2>1 DEF prepare, computeCRC, chk, local, history
  <2>2. CASE write(a)
    <3>1. /\ UNCHANGED <<running, stopped>>
          /\ call' = [call EXCEPT ![a] = IF @ = "sendCfg2" THEN "stop" ELSE @]
      BY <2>2 DEF write
    <3> QED
      BY <3>1 DEF TypeOK
  <2>3. CASE read(a)
    BY <2>3 DEF read, history
  <2>4. CASE check(a)
    <3>1. UNCHANGED <<running, call, history>>
      BY <2>4, Zenon DEF check
    <3> QED
      BY <3>1 DEF history
  <2> QED
    BY <2>1, <2>2, <2>3, <2>4
<1>2. CASE prepare(a) \/ computeCRC(a) \/ chk(a)
  <2>1. PICK place \in {"crc", "chk", "write"} : pc' = [pc EXCEPT ![a] = place]
    BY <1>2 DEF prepare, computeCRC, chk, Goto
  <2>2. pc[a] \in {"prepare", "crc", "chk"} /\ place \in Places
    BY <1>2 DEF prepare, computeCRC, chk, At, Places
  <2> QED
    BY <1>1, <2>1, <2>2, StopMoves
<1>3. CASE write(a)
  <2>1. PICK place \in {"read", "flag"} : pc' = [pc EXCEPT ![a] = place]
    BY <1>3 DEF write, Goto
  <2>2. pc[a] = "write" /\ place \in Places
    BY <1>3 DEF write, At, Places
  <2> QED
    BY <1>1, <2>1, <2>2, StopMoves
<1>4. CASE read(a)
  <2>1. CASE UNCHANGED pc
    BY <1>1, <2>1 DEF StopInv
  <2>2. CASE Goto(a, "check")
    <3>1. "check" \in Places /\ "check" \in InLoop
      BY DEF Places, InLoop, Printing
    <3> QED
      BY <1>1, <2>2, <3>1, StopMoves DEF Goto
  <2> QED
    BY <1>4, <2>1, <2>2 DEF read
<1>5. CASE check(a)
  <2>1. PICK place \in {"decode", "setCount", "test", "idle"} :
           /\ pc' = [pc EXCEPT ![a] = place]
           /\ place \in {"setCount", "idle"} => a = "app"
    BY <1>5 DEF check, Goto
  <2>2. place \in Places /\ (place \in InLoop \/ place \in {"setCount", "idle"})
    BY DEF Places, InLoop, Printing
  <2> QED
    BY <1>1, <2>1, <2>2, StopMoves
<1> QED
  BY <1>2, <1>3, <1>4, <1>5

\* The only step that sets the flag or the history: it sets one of them.
LEMMA StopFlag ==
  ASSUME TypeOK, PcInv, StopInv, NEW a \in Actor, flag(a)
  PROVE  StopInv'
<1>1. /\ call' = [call EXCEPT !["app"] = IF a = "app" THEN "stop" ELSE @]
      /\ pc[a] = "flag" /\ running' = (call[a] = "start")
      /\ stopped' = (stopped \/ Effective(a))
      /\ pc' = [pc EXCEPT ![a] = IF a = "app" THEN "idle"
                                 ELSE IF call[a] = "start" THEN "test" ELSE "ended"]
  BY DEF flag, At, Goto
<1>2. CASE a = "app"
  <2>1. pc'["app"] = "idle" /\ pc'["loop"] = pc["loop"]
    BY <1>1, <1>2 DEF TypeOK
  <2>2. SUFFICES ASSUME stopped'
                 PROVE  /\ call["app"] # "start"
                        /\ pc["loop"] # "none"
                        /\ call["loop"] = "start" => pc["loop"] \in InLoop
    BY <1>1, <1>2, <2>1 DEF StopInv, TypeOK
  <2>3. CASE stopped
    BY <1>1, <1>2, <2>3 DEF StopInv
  <2>4. CASE Effective("app")
    BY <2>4 DEF Effective, InLoop
  <2> QED
    BY <1>1, <1>2, <2>2, <2>3, <2>4
<1>3. CASE a = "loop"
  <2>1. pc'["app"] = pc["app"] /\ pc'["loop"] \in {"test", "ended"}
    BY <1>1, <1>3 DEF TypeOK
  <2>2. stopped' = stopped
    BY <1>1, <1>3 DEF Effective, TypeOK
  <2>3. stopped => call["loop"] # "start"
    BY <1>1, <1>3 DEF StopInv, InLoop, Printing
  <2>4. stopped' => ~running'
    <3>1. call["loop"] # "start" => running' = FALSE
      BY <1>1, <1>3
    <3>2. stopped' => stopped
      BY <2>2, Zenon
    <3> QED
      BY <2>3, <3>1, <3>2, Zenon
  <2> QED
    BY <1>1, <1>3, <2>1, <2>2, <2>3, <2>4 DEF StopInv, TypeOK
<1> QED
  BY <1>2, <1>3

LEMMA StopStep == ASSUME TypeOK, PcInv, StopInv, Next PROVE StopInv'
<1>1. CASE ServeCommand \/ SendData \/ PeerClose
  BY <1>1, StillSteps DEF StopInv, local, history
<1>2. ASSUME NEW a \in Actor, Sending(a) \/ read(a) \/ check(a) PROVE StopInv'
  <2>1. CASE flag(a)
    BY <2>1, StopFlag
  <2>2. CASE ~flag(a)
    BY <1>2, <2>2, StopCalls, Zenon DEF Sending
  <2> QED
    BY <2>1, <2>2
<1>3. CASE \/ test \/ clear \/ decode \/ decodePmu \/ print \/ printPmu
           \/ leaveArray \/ touchFreed
  <2>1. CASE test \/ clear \/ leaveArray \/ touchFreed
    BY <2>1 DEF test, clear, leaveArray, touchFreed, At, Goto, TypeOK, StopInv,
                InLoop, Printing, local, history
  <2>2. CASE decode \/ decodePmu
    BY <2>2 DEF decode, decodePmu, At, Goto, TypeOK, StopInv, InLoop, Printing,
                history
  <2>3. CASE print \/ printPmu
    BY <2>3 DEF print, printPmu, At, Goto, TypeOK, StopInv, InLoop, Printing,
                history
  <2> QED
    BY <1>3, <2>1, <2>2, <2>3
<1>4. CASE setCount \/ setBlocks \/ free \/ destroy \/ startReceiveDataStram
  BY <1>4 DEF setCount, setBlocks, free, destroy, startReceiveDataStram, At, Goto,
              TypeOK, StopInv, local, history
<1>5. ASSUME NEW c \in Command, Call(c) PROVE StopInv'
  BY <1>5 DEF Call, At, Goto, TypeOK, StopInv
<1> QED
  BY <1>1, <1>2, <1>3, <1>4, <1>5 DEF Next, Loop, InCall

\* Once the application's stop has returned, with the loop's start behind it,
\* the flag stays cleared until the application starts again.
LEMMA StopsStick == Spec => []StopSticks
<1>1. Init => StopInv
  BY DEF Init, StopInv
<1>2. IInv /\ StopInv /\ [Next]_vars => StopInv'
  <2>1. IInv /\ StopInv /\ Next => StopInv'
    BY StopStep DEF IInv
  <2>2. StopInv /\ UNCHANGED vars => StopInv'
    BY DEF StopInv, vars, local, history
  <2> QED
    BY <2>1, <2>2
<1>3. StopInv => StopSticks
  BY DEF StopInv, StopSticks
<1> QED
  BY <1>1, <1>2, <1>3, InductiveInvariant, PTL DEF Spec

\* c37_118client_stopTransmission is final: called by the application it is not
\* undone by the loop, and the one at the loop's end leaves the server quiet.
THEOREM StopsHold == Spec => []StopHolds
BY StopsStick, EndIsQuiet, PTL DEF StopHolds
----------------------------------------------------------------------------
(* The client used by one thread at a time.                                *)

\* What the loop has in hand is its own, and it goes on.
AloneInv ==
    /\ freed => pc["app"] = "gone"
    /\ ~together =>
          /\ LoopLives => pc["app"] = "idle"
          /\ fault \notin {"outOfBounds", "useAfterFree"}
          /\ Commanding("loop") => alone["loop"]
          /\ pc["loop"] \in {"check"} \cup Decoding \cup Printing => rcv.by = "loop"
          /\ pc["loop"] \in {"decodePmu", "printPmu"} => pmu <= numPmu
          /\ pc["loop"] \in Decoding =>
                \A i \in 1 .. Len(channels) : i < pmu => channels[i] = got["loop"]
          /\ pc["loop"] \in Printing =>
                \A i \in 1 .. Len(channels) : channels[i] = got["loop"]
          /\ pc["loop"] # "ended"
          /\ Commanding("loop") \/ pc["loop"] \in {"prepare", "flag"} =>
                call["loop"] = "start"
          /\ pc["loop"] \in InLoop => running

\* A step of the application, of which only the beginning meets the loop.
LEMMA AloneApp ==
  ASSUME TypeOK, PcInv, AloneInv,
         InCall \/ destroy \/ startReceiveDataStram \/ \E c \in Command : Call(c)
  PROVE  AloneInv'
<1>1. pc \in [Actor -> Places] /\ call \in [Actor -> Command]
  BY DEF TypeOK
<1>2. /\ fault = "none" /\ fault' \in {"none", "overrun"} /\ ~freed
      /\ freed' => pc'["app"] = "gone"
      /\ together' \/ pc'["loop"] \in {"none", "prepare", "ended"}
      /\ pc'["loop"] = "prepare" /\ ~together' => pc'["app"] = "idle" /\ call'["loop"] = "start"
      /\ ~together' => ~together
      /\ pc'["loop"] = "ended" => pc["loop"] = "ended"
  <2>1. CASE InCall
    <3>1. /\ pc["app"] # "idle" /\ together' = together /\ pc'["loop"] = pc["loop"]
          /\ fault = "none" /\ ~freed
      <4>1. CASE Sending("app")
        <5>1. CASE prepare("app") \/ computeCRC("app") \/ chk("app")
          BY <1>1, <5>1 DEF prepare, computeCRC, chk, At, Goto, history
        <5>2. CASE write("app") \/ flag("app")
          BY <1>1, <5>2 DEF write, flag, At, Goto
        <5> QED
          BY <4>1, <5>1, <5>2 DEF Sending
      <4>2. CASE read("app") \/ check("app")
        BY <1>1, <4>2 DEF read, check, At, Goto, history
      <4>3. CASE setCount \/ setBlocks \/ free
        BY <1>1, <4>3 DEF setCount, setBlocks, free, At, Goto, history
      <4> QED
        BY <2>1, <4>1, <4>2, <4>3 DEF InCall
    <3>2. fault' \in {"none", "overrun"} /\ (freed' => pc'["app"] = "gone")
      <4>1. CASE Sending("app")
        <5>1. fault' = fault /\ freed' = freed
          BY <4>1 DEF Sending, prepare, computeCRC, chk, write, flag
        <5> QED
          BY <3>1, <5>1
      <4>2. CASE read("app") \/ check("app")
        BY <3>1, <4>2 DEF read, check
      <4>3. CASE setCount \/ setBlocks \/ free
        BY <1>1, <3>1, <4>3 DEF setCount, setBlocks, free, Goto
      <4> QED
        BY <2>1, <4>1, <4>2, <4>3 DEF InCall
    <3>3. ~together => pc["loop"] \in {"none", "ended"}
      BY <3>1 DEF AloneInv, LoopLives
    <3> QED
      BY <3>1, <3>2, <3>3
  <2>2. CASE destroy
    BY <1>1, <2>2 DEF destroy, At, Goto, LoopLives
  <2>3. CASE startReceiveDataStram
    BY <1>1, <2>3 DEF startReceiveDataStram, At, Goto, history
  <2>4. ASSUME NEW c \in Command, Call(c)
        PROVE  /\ fault = "none" /\ fault' = "none" /\ ~freed /\ ~freed'
               /\ pc'["loop"] = pc["loop"] /\ together' = (together \/ LoopLives)
    BY <1>1, <2>4 DEF Call, At, Goto
  <2> QED
    BY <2>1, <2>2, <2>3, <2>4 DEF LoopLives
<1>3. ~together' => pc'["loop"] \in {"none", "prepare"}
  BY <1>2 DEF AloneInv
<1>4. pc'["loop"] \in {"none", "prepare"} =>
          /\ ~Commanding("loop")' /\ pc'["loop"] \notin InLoop \cup Decoding
          /\ LoopLives' => pc'["loop"] = "prepare"
  BY DEF Commanding, LoopLives, InLoop, Decoding, Printing
<1> QED
  BY <1>2, <1>3, <1>4 DEF AloneInv, InLoop, Decoding, Printing

\* A step of the loop while the application is idle, so that the buffers are
\* what the loop has made them.
LEMMA AloneLoop ==
  ASSUME TypeOK, PcInv, ReadInv, CountInv, AloneInv, Loop
  PROVE  AloneInv'
<1> USE DEF Decoding, Printing, InLoop
<1>1. /\ pc \in [Actor -> Places] /\ call \in [Actor -> Command]
      /\ together' = together /\ freed' = freed /\ pc'["app"] = pc["app"]
  <2>1. pc \in [Actor -> Places] /\ call \in [Actor -> Command]
    BY DEF TypeOK
  <2>2. CASE Sending("loop")
    BY <2>1, <2>2 DEF Sending, prepare, computeCRC, chk, write, flag, Goto, history
  <2>3. CASE Loop /\ ~Sending("loop")
    BY <2>1, <2>3 DEF Loop, read, check, test, clear, decode, decodePmu, print, printPmu,
       leaveArray, touchFreed, Goto, history
  <2> QED
    BY <2>1, <2>2, <2>3
<1>2. SUFFICES ASSUME ~together PROVE AloneInv'
  BY <1>1 DEF AloneInv
<1>3. LoopLives
  BY DEF Loop, Sending, prepare, computeCRC, chk, write, flag, read, check, test, clear,
     decode, decodePmu, print, printPmu, leaveArray, touchFreed, At, LoopLives
<1>4. /\ pc["app"] = "idle" /\ ~freed /\ ~touchFreed
      /\ numPmu = Len(channels) /\ numPmu \in Nat /\ pmu \in Nat \ {0}
  BY <1>2, <1>3 DEF AloneInv, CountInv, TypeOK, touchFreed
<1>5. CASE Sending("loop")
  <2>1. CASE prepare("loop")
    <3>1. alone'["loop"] = TRUE
      BY <1>4, <2>1 DEF prepare, Commanding, Other
    <3> QED
      BY <1>1, <1>2, <1>4, <2>1, <3>1 DEF prepare, At, Goto, AloneInv, Commanding,
         LoopLives, local, conf
  <2>2. CASE computeCRC("loop") \/ chk("loop")
    BY <1>1, <1>2, <1>4, <2>2 DEF computeCRC, chk, At, Goto, AloneInv, Commanding,
       LoopLives, history
  <2>3. CASE write("loop")
    <3>1. /\ pc["loop"] = "write"
          /\ pc' = [pc EXCEPT !["loop"] = IF call["loop"] = "sendCfg2"
                                          THEN "read" ELSE "flag"]
          /\ call' = [call EXCEPT !["loop"] = IF @ = "sendCfg2" THEN "stop" ELSE @]
          /\ UNCHANGED <<running, rcv, conf, freed, fault, got, pmu, together>>
      BY <2>3 DEF write, At, Goto
    <3>2. call["loop"] \in {"start", "stop"}
      BY <1>2 DEF PcInv
    <3>3. pc'["loop"] = "flag" /\ pc'["app"] = pc["app"] /\ call'["loop"] = call["loop"]
      BY <1>1, <3>1, <3>2
    <3>4. Commanding("loop") /\ LoopLives
      BY <3>1 DEF Commanding, LoopLives
    <3>5. UNCHANGED <<freed, fault, together>>
      BY <3>1
    <3>6. /\ fault' \notin {"outOfBounds", "useAfterFree"}
          /\ call'["loop"] = "start"
      BY <1>2, <3>3, <3>4, <3>5 DEF AloneInv
    <3> QED
      BY <1>4, <3>3, <3>5, <3>6 DEF AloneInv, Commanding, InLoop, Decoding, Printing
  <2>4. CASE flag("loop")
    <3>1. pc["loop"] = "flag" /\ running' = (call["loop"] = "start")
      BY <2>4 DEF flag, At
    <3>2. call["loop"] = "start" /\ fault \notin {"outOfBounds", "useAfterFree"}
      BY <1>2, <3>1 DEF AloneInv
    <3>3. pc'["loop"] = "test" /\ fault' = fault /\ running'
      BY <1>1, <2>4, <3>1, <3>2 DEF flag, Goto
    <3> QED
      BY <1>1, <1>4, <3>2, <3>3 DEF AloneInv, Commanding
  <2> QED
    BY <1>5, <2>1, <2>2, <2>3, <2>4 DEF Sending
<1>6. CASE read("loop") \/ check("loop")
  <2>1. CASE read("loop")
    BY <1>1, <1>2, <1>4, <2>1 DEF read, At, Goto, TypeOK, AloneInv, Commanding, LoopLives,
       history
  <2>2. CASE check("loop")
    <3>1. pmu = 1
      BY <2>2 DEF check, At, PcInv
    <3> QED
      BY <1>1, <1>2, <1>4, <2>2, <3>1 DEF check, At, Goto, TypeOK, AloneInv, Commanding,
         LoopLives, history
  <2> QED
    BY <1>6, <2>1, <2>2
<1>7. CASE test \/ clear
  BY <1>1, <1>2, <1>4, <1>7 DEF test, clear, At, Goto, TypeOK, AloneInv, Commanding,
     LoopLives, history
<1>8. CASE decode
  BY <1>1, <1>2, <1>4, <1>8 DEF decode, At, Goto, TypeOK, AloneInv, Commanding, LoopLives,
     conf, history
<1>9. CASE decodePmu
  <2>1. /\ pc["loop"] = "decodePmu" /\ pc'["loop"] = "decode" /\ pmu' = pmu + 1
        /\ UNCHANGED <<numPmu, got, rcv, fault, running, alone, call>>
        /\ channels' = [channels EXCEPT ![pmu] = Decoded]
    BY <1>1, <1>9 DEF decodePmu, At, Goto, history
  <2>2. Decoded = got["loop"]
    BY <1>2, <2>1 DEF AloneInv, ReadInv, Decoded
  <2>3. \A i \in 1 .. Len(channels') : i < pmu' => channels'[i] = got'["loop"]
    <3>1. Len(channels') = Len(channels)
      BY <2>1 DEF TypeOK
    <3>2. \A i \in 1 .. Len(channels) : channels'[i] = IF i = pmu THEN Decoded ELSE channels[i]
      BY <2>1 DEF TypeOK
    <3>3. \A i \in 1 .. Len(channels) : i < pmu => channels[i] = got["loop"]
      BY <1>2, <2>1 DEF AloneInv
    <3> QED
      BY <1>4, <2>1, <2>2, <3>1, <3>2, <3>3
  <2> QED
    BY <1>1, <1>2, <1>4, <2>1, <2>3 DEF AloneInv, Commanding, LoopLives
<1>10. CASE print \/ printPmu
  BY <1>1, <1>2, <1>4, <1>10 DEF print, printPmu, At, Goto, TypeOK, AloneInv, Commanding,
     LoopLives, conf, history
<1>11. CASE leaveArray
  BY <1>1, <1>2, <1>4, <1>11 DEF leaveArray, AloneInv, TypeOK
<1> QED
  BY <1>4, <1>5, <1>6, <1>7, <1>8, <1>9, <1>10, <1>11 DEF Loop

LEMMA AloneHolds == Spec => []AloneInv
<1>1. Init => AloneInv
  BY DEF Init, AloneInv, Commanding, LoopLives, InLoop, Decoding, Printing
<1>2. IInv /\ AloneInv /\ [Next]_vars => AloneInv'
  <2> SUFFICES ASSUME IInv, AloneInv, [Next]_vars PROVE AloneInv'
    OBVIOUS
  <2>1. TypeOK /\ PcInv /\ ReadInv /\ CountInv
    BY DEF IInv
  <2>2. CASE ServeCommand \/ SendData \/ PeerClose
    BY <2>2, StillSteps DEF AloneInv, Commanding, LoopLives, conf, local, history
  <2>3. CASE UNCHANGED vars
    BY <2>3 DEF AloneInv, Commanding, LoopLives, vars, conf, local, history
  <2> QED
    BY <2>1, <2>2, <2>3, AloneApp, AloneLoop DEF Next
<1> QED
  BY <1>1, <1>2, InductiveInvariant, PTL DEF Spec

\* An application that calls nothing while the loop runs meets none of the
\* races of the two threads, whatever the frames: what the other theorems grant
\* when no command, read or configuration came between is then always granted,
\* and every PMU of what is printed is of the frame read.
THEOREM OneThreadUndisturbed == Spec => []UndisturbedAlone
<1>1. IInv /\ AloneInv => UndisturbedAlone
  <2> SUFFICES ASSUME IInv, AloneInv, ~together PROVE LoopUndisturbed
    BY DEF UndisturbedAlone
  <2>1. ASSUME pc["loop"] = "write"
        PROVE  snd = [body |-> <<"loop", call["loop"]>>, chk |-> <<"loop", call["loop"]>>]
    <3>1. snd.body = <<"loop", call["loop"]>> /\ snd.chk = <<"loop", call["loop"]>>
      BY <2>1 DEF IInv, CommandInv, CommandOf, Commanding, AloneInv
    <3>2. snd = [body |-> snd.body, chk |-> snd.chk]
      BY DEF IInv, TypeOK
    <3> QED
      BY <3>1, <3>2, Zenon
  <2>2. ASSUME pc["loop"] \in Printing PROVE got["loop"].kind = "data" /\ ShowsWhole
    <3>1. rcv.by = "loop" /\ LoopLives
      BY <2>2 DEF AloneInv, LoopLives, Printing
    <3>2. got["loop"].kind = "data"
      BY <2>2, <3>1 DEF IInv, ReadInv
    <3>3. numPmu = Len(channels)
      BY <3>1 DEF IInv, CountInv, AloneInv
    <3> QED
      BY <2>2, <3>2, <3>3 DEF AloneInv, ShowsWhole
  <2> QED
    BY <2>1, <2>2 DEF AloneInv, LoopUndisturbed
<1> QED
  BY <1>1, InductiveInvariant, AloneHolds, PTL

\* Nor does it end: nothing but a call of the application clears the flag, so
\* the use that is free of the races has no way to stop the loop, and one that
\* stops it must call while the loop runs.
THEOREM OnlyCallsEndTheLoop == Spec => [](pc["loop"] = "ended" => together)
<1>1. AloneInv => (pc["loop"] = "ended" => together)
  BY DEF AloneInv
<1> QED
  BY <1>1, AloneHolds, PTL
=============================================================================
