---------------------------- MODULE FrameDecoding ----------------------------
(***************************************************************************)
(* How the client finds the fields of a CFG-2 frame and of the data frames *)
(* that follow it: the loop of prepareConfiguration over the PMUs of a     *)
(* PDC, with preparePhsor, prepareAnalog and prepareDigital, and the loop  *)
(* of parseDataFrame.  Neither frame says where a PMU's block begins: a    *)
(* cursor, bufPos, is moved by the counts read so far.                     *)
(*                                                                         *)
(* The frame is abstracted to the offset at which each block of fields     *)
(* lies.  What the client keeps of a field is the offset it was read from, *)
(* so that a field read at the wrong place is told from the right one.     *)
(***************************************************************************)
EXTENDS Integers, Sequences

CONSTANTS
    Pmus,    \* the descriptions of a PMU that frames contain
    MaxPmu   \* bound: PMUs in a frame

\* What the header of a PMU's block says: numbers of phasors, analog values and
\* digital words, and the bits of FORMAT.
Pmu == [ph : Nat, an : Nat, dg : Nat, polar : BOOLEAN,
        phFloat : BOOLEAN, anFloat : BOOLEAN, freqFloat : BOOLEAN]

ASSUME FrameAssumption == Pmus \subseteq Pmu /\ MaxPmu \in Nat

VARIABLES
    sent,      \* the PMUs of the frame, as the server encoded them
    start,     \* offsets of their blocks in the CFG-2 frame, and of its end
    dstart,    \* offsets of their blocks in a data frame, and of its end
    pc,        \* what the client is doing
    bufPos,    \* its cursor
    conf,      \* self->configuration[0 .. i-1] of the loop
    values     \* where the values shown of each PMU were read

frame == <<sent, start, dstart>>
vars  == <<frame, pc, bufPos, conf, values>>

\* Bytes of a PMU's block in each of the two frames.
HeaderSize == 26
TailSize   == 4
PmuSize(p) == HeaderSize + 20 * p.ph + 20 * p.an + 260 * p.dg + TailSize

PhasorsSize(p) == IF p.phFloat THEN 8 * p.ph ELSE 4 * p.ph
FreqSize(p)    == IF p.freqFloat THEN 4 ELSE 2
AnalogsSize(p) == IF p.anFloat THEN 4 * p.an ELSE 2 * p.an
DataSize(p)    == 2 + PhasorsSize(p) + 2 * FreqSize(p) + AnalogsSize(p) + 2 * p.dg

\* Where the first PMU's block begins: after NUM_PMU, and after FRACSEC.
FirstPmu  == 20
FirstData == 14
------------------------------------------------------------------------------
Init ==
    /\ sent = <<>>
    /\ start = <<FirstPmu>>
    /\ dstart = <<FirstData>>
    /\ pc = "waiting"
    /\ bufPos = 0
    /\ conf = <<>>
    /\ values = <<>>

\* The server describes one more PMU; external to the repository.
EncodePmu(p) ==
    /\ pc = "waiting"
    /\ Len(sent) < MaxPmu
    /\ sent' = Append(sent, p)
    /\ start' = Append(start, start[Len(start)] + PmuSize(p))
    /\ dstart' = Append(dstart, dstart[Len(dstart)] + DataSize(p))
    /\ UNCHANGED <<pc, bufPos, conf, values>>

parseConfigurationFrame ==
    /\ pc = "waiting"
    /\ pc' = IF sent = <<>> THEN "ready" ELSE "configuration"
    /\ bufPos' = FirstPmu
    /\ UNCHANGED <<frame, conf, values>>

\* The header found at an offset: that of the PMU whose block begins there, or,
\* inside or behind a block, whatever the bytes there make.
HeaderAt(pos) ==
    IF \E k \in DOMAIN sent : start[k] = pos
    THEN {sent[k] : k \in {k \in DOMAIN sent : start[k] = pos}}
    ELSE Pmus

\* Mutant of Channels: one channel too few is allocated.
ChannelsOneShort(count, alloc, names, units) ==
    IF count = 0 THEN [alloc |-> 0, names |-> 0, units |-> 0]
                 ELSE [alloc |-> alloc - 1, names |-> names, units |-> units]

\* An array of channels: how many were allocated, and where the names and the
\* units were read.  Nothing is allocated for a count of zero.
Channels(count, alloc, names, units) ==
    IF count = 0 THEN [alloc |-> 0, names |-> 0, units |-> 0]
                 ELSE [alloc |-> alloc, names |-> names, units |-> units]

\* Mutant of Decoded: the units of the analog values are looked for before
\* those of the phasors are skipped.
DecodedUnitsFirst(p, q, at) ==
    LET anAt  == at + 16 * q.ph
        dgAt  == anAt + 16 * q.an
    IN  [pmu |-> p,
         scaled  |-> ~q.phFloat,
         phasor  |-> Channels(p.ph, q.ph, at,   anAt + 16 * (q.an + 16 * q.dg)),
         analog  |-> Channels(p.an, q.an, anAt, dgAt + 16 * (16 * q.dg)),
         digital |-> Channels(p.dg, q.dg, dgAt, dgAt + 256 * q.dg + 4 * (q.ph + q.an))]

\* What is decoded of a PMU with header p, the channels of which are prepared
\* with the counts and the format of q and lie from offset at on.  Phasors are
\* scaled by their unit when q's are integers.
Decoded(p, q, at) ==
    LET anAt  == at + 16 * q.ph
        dgAt  == anAt + 16 * q.an
    IN  [pmu |-> p,
         scaled  |-> ~q.phFloat,
         phasor  |-> Channels(p.ph, q.ph, at,   anAt + 16 * (q.an + 16 * q.dg)),
         analog  |-> Channels(p.an, q.an, anAt, dgAt + 16 * (16 * q.dg) + 4 * q.ph),
         digital |-> Channels(p.dg, q.dg, dgAt, dgAt + 256 * q.dg + 4 * (q.ph + q.an))]

\* Mutant of CursorAfter: the units are not skipped.
CursorWithoutUnits(p, q, at) ==
    at + 16 * q.ph + 16 * q.an + 16 * 16 * p.dg + TailSize

\* The cursor behind a block: skips the names of phasors and analogs by the
\* counts of q, the rest by those of p.
CursorAfter(p, q, at) ==
    at + 16 * q.ph + 16 * q.an + (16 * 16 * p.dg + 4 * (p.an + p.dg + p.ph)) + TailSize

\* The three prepare functions are passed configurationPtr, the first PMU.
PreparedWith(p) == IF conf = <<>> THEN p ELSE conf[1].pmu

\* One iteration of the loop.
prepareConfiguration ==
    /\ pc = "configuration"
    /\ \E p \in HeaderAt(bufPos) :
          LET q  == PreparedWith(p)
              at == bufPos + HeaderSize
          IN  /\ conf' = Append(conf, Decoded(p, q, at))
              /\ bufPos' = CursorAfter(p, q, at)
    /\ pc' = IF Len(conf) + 1 = Len(sent) THEN "ready" ELSE pc
    /\ UNCHANGED <<frame, values>>

parseDataFrame ==
    /\ pc \in {"ready", "shown"}
    /\ values' = <<>>
    /\ bufPos' = FirstData
    /\ pc' = IF sent = <<>> THEN "shown" ELSE "data"
    /\ UNCHANGED <<frame, conf>>

\* Mutant of Values: ROCOF is taken for a part of FREQ.
ValuesWithoutRocof(p, at) ==
    LET freqAt == at + 2 + PhasorsSize(p)
        anAt   == freqAt + FreqSize(p)
    IN  [stat   |-> at,
         phasor |-> IF p.polar /\ ~p.phFloat THEN 0 ELSE at + 2,
         freq   |-> IF p.freqFloat THEN freqAt ELSE freqAt + 2,
         rocof  |-> IF p.freqFloat THEN freqAt + 4 ELSE 0,
         analog  |-> anAt,
         digital |-> anAt + AnalogsSize(p)]

\* The values of a PMU read from offset at on.  Of phasors in polar integers
\* the value read is not used, and an integer ROCOF is stored over the
\* frequency; 0 is for what no field of the frame was stored in.
Values(p, at) ==
    LET freqAt == at + 2 + PhasorsSize(p)
        anAt   == freqAt + 2 * FreqSize(p)
    IN  [stat   |-> at,
         phasor |-> IF p.polar /\ ~p.phFloat THEN 0 ELSE at + 2,
         freq   |-> IF p.freqFloat THEN freqAt ELSE freqAt + 2,
         rocof  |-> IF p.freqFloat THEN freqAt + 4 ELSE 0,
         analog  |-> anAt,
         digital |-> anAt + AnalogsSize(p)]

\* The values of a PMU are stored in channels that were not allocated.
Overflows(c) ==
    \/ c.pmu.ph > c.phasor.alloc
    \/ c.pmu.an > c.analog.alloc
    \/ c.pmu.dg > c.digital.alloc

\* One iteration of the loop of parseDataFrame.
decodeData ==
    /\ pc = "data"
    /\ LET c == conf[Len(values) + 1]
       IN  \/ /\ Overflows(c)
              /\ pc' = "corrupt"
              /\ UNCHANGED <<bufPos, values>>
           \/ /\ ~Overflows(c)
              /\ values' = Append(values, Values(c.pmu, bufPos))
              /\ bufPos' = bufPos + DataSize(c.pmu)
              /\ pc' = IF Len(values) + 1 = Len(conf) THEN "shown" ELSE pc
    /\ UNCHANGED <<frame, conf>>
------------------------------------------------------------------------------
Next ==
    \/ \E p \in Pmus : EncodePmu(p)
    \/ parseConfigurationFrame
    \/ prepareConfiguration
    \/ parseDataFrame
    \/ decodeData

Spec == Init /\ [][Next]_vars
------------------------------------------------------------------------------
(* Properties.                                                             *)

\* The type invariant.
States == {"waiting", "configuration", "ready", "data", "shown", "corrupt"}

Array == [alloc : Nat, names : Nat, units : Nat]

Configuration == [pmu : Pmus, scaled : BOOLEAN,
                  phasor : Array, analog : Array, digital : Array]

Shown == [stat : Nat, phasor : Nat, freq : Nat, rocof : Nat,
          analog : Nat, digital : Nat]

FrameTypeOK ==
    /\ sent \in Seq(Pmus)
    /\ start \in Seq(Nat) /\ Len(start) = Len(sent) + 1
    /\ dstart \in Seq(Nat) /\ Len(dstart) = Len(sent) + 1

DecoderTypeOK ==
    /\ pc \in States
    /\ bufPos \in Nat
    /\ conf \in Seq(Configuration) /\ Len(conf) <= Len(sent)
    /\ values \in Seq(Shown) /\ Len(values) <= Len(conf)

TypeOK == FrameTypeOK /\ DecoderTypeOK

\* What the cursor needs: before PMU k every PMU has as many phasors and analog
\* values together as the first.
AlignedTo(k) ==
    \A j \in DOMAIN sent :
        j < k => sent[j].ph + sent[j].an = sent[1].ph + sent[1].an

\* The cursor of prepareConfiguration moves by the first PMU's counts for the
\* names of phasors and analog values, by the PMU's own for the rest; it is
\* nevertheless at the beginning of each block, and at the end of the frame
\* behind the last, whenever the sums agree.  That of parseDataFrame is when
\* the headers were found.
CursorAligned ==
    /\ (pc = "configuration" /\ AlignedTo(Len(conf) + 1)) =>
            bufPos = start[Len(conf) + 1]
    /\ (pc = "ready" /\ AlignedTo(Len(sent) + 1)) =>
            bufPos = start[Len(sent) + 1]
    /\ (pc = "data" /\ AlignedTo(Len(sent))) =>
            bufPos = dstart[Len(values) + 1]
    /\ (pc = "shown" /\ AlignedTo(Len(sent))) =>
            bufPos = dstart[Len(sent) + 1]

\* The order of IEEE C37.118: the names of phasors, analog values and digital
\* words, then the units of each.
Block(p, at) ==
    LET phNames == at + HeaderSize
        anNames == phNames + 16 * p.ph
        dgNames == anNames + 16 * p.an
        phUnits == dgNames + 16 * 16 * p.dg
        anUnits == phUnits + 4 * p.ph
        dgUnits == anUnits + 4 * p.an
        Of(n, names, units) ==
            [alloc |-> n, names |-> IF n = 0 THEN 0 ELSE names,
                          units |-> IF n = 0 THEN 0 ELSE units]
    IN  [pmu |-> p, scaled |-> ~p.phFloat,
         phasor |-> Of(p.ph, phNames, phUnits),
         analog |-> Of(p.an, anNames, anUnits),
         digital |-> Of(p.dg, dgNames, dgUnits)]

SameCounts(p, q) == p.ph = q.ph /\ p.an = q.an /\ p.dg = q.dg

\* A PMU reached by an aligned cursor has its header read, and if its counts
\* are those of the first PMU every name and unit is its own; only whether its
\* phasors are scaled follows the first one's format.
ChannelsExact ==
    \A k \in DOMAIN conf :
        AlignedTo(k) =>
            /\ conf[k].pmu = sent[k]
            /\ SameCounts(sent[k], sent[1]) =>
                    conf[k] = [Block(sent[k], start[k]) EXCEPT
                                    !.scaled = ~sent[1].phFloat]

\* The values of a frame fit the channels unless some PMU announces more of a
\* kind than the first: for PDCs with equal PMUs the heap is safe.
NoMore(p, q) == p.ph <= q.ph /\ p.an <= q.an /\ p.dg <= q.dg

NoOverflow ==
    (AlignedTo(Len(sent)) /\ \A k \in DOMAIN sent : NoMore(sent[k], sent[1])) =>
        pc # "corrupt"

\* Each value shown was read from the field of its channel: STAT, analog values
\* and digital words always, FREQ and ROCOF in floating point, phasors in every
\* format but polar integers.
OwnFields(v, p, at, end) ==
    /\ v.stat = at
    /\ p.phFloat \/ ~p.polar => v.phasor = at + 2
    /\ p.freqFloat => /\ v.freq = at + 2 + PhasorsSize(p)
                      /\ v.rocof = v.freq + 4
    /\ v.digital = end - 2 * p.dg
    /\ v.analog = v.digital - AnalogsSize(p)

ValuesExact ==
    AlignedTo(Len(sent)) =>
        \A k \in DOMAIN values :
            OwnFields(values[k], sent[k], dstart[k], dstart[k + 1])

\* What parseDataFrame stores comes from the right place and goes to one.
DataExact == NoOverflow /\ ValuesExact

\* For PDCs whose PMUs have equal counts, in whatever formats, the two loops
\* come to the same as taking the description of all PMUs at once and showing
\* each data frame at once, and nothing is written outside the arrays.
EqualCounts(f) == \A k \in DOMAIN f[1] : SameCounts(f[1][k], f[1][1])

OwnBlocks(f, c) ==
    /\ Len(c) = Len(f[1])
    /\ \A k \in DOMAIN f[1] :
          c[k] = [Block(f[1][k], f[2][k]) EXCEPT !.scaled = ~f[1][1].phFloat]

OwnValues(f, v) ==
    \A k \in DOMAIN f[1] : OwnFields(v[k], f[1][k], f[3][k], f[3][k + 1])

Contents == INSTANCE FrameContents WITH
    Promised <- EqualCounts, Describes <- OwnBlocks, FromFields <- OwnValues,
    held   <- IF pc \in {"waiting", "configuration"} THEN <<>> ELSE conf,
    shown  <- IF pc = "shown" THEN values ELSE <<>>,
    broken <- pc = "corrupt"

ImplementsContents == Contents!ContentsSpec

\* An application that asks for the name or the type of a channel of a PMU,
\* with c37_118client_getConf_pmu_channelName or _analogs, gets that channel's:
\* printDataStream prints "Phasor %d of PMU %d -> Channel Name"
\* (src/src/ieeeC37_118/ieeeC37_118.c:1404).
EveryPmuDecoded ==
    \A k \in DOMAIN conf :
        LET b == Block(sent[k], start[k])
        IN  conf[k].phasor = b.phasor /\ conf[k].analog = b.analog

\* What is shown as the frequency, "Frequency of PMU %d"
\* (src/src/ieeeC37_118/ieeeC37_118.c:1400), is the FREQ field of the frame.
FrequencyShown ==
    \A k \in DOMAIN values :
        values[k].freq = dstart[k] + 2 + PhasorsSize(sent[k])

\* A data frame is shown with each PMU's own names and its own frequency.
ShownAsLabelled == pc = "shown" => EveryPmuDecoded /\ FrequencyShown
==============================================================================
