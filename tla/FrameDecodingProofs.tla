------------------------ MODULE FrameDecodingProofs ------------------------
(***************************************************************************)
(* Theorems of FrameDecoding, for frames of any number of PMUs with any    *)
(* counts and formats.                                                     *)
(***************************************************************************)
EXTENDS FrameDecoding, TLAPS

\* The offsets of the blocks are what the sizes of the blocks make them, and no
\* two blocks begin at the same place.
Layout ==
    /\ start[1] = FirstPmu /\ dstart[1] = FirstData
    /\ \A k \in DOMAIN sent : /\ start[k + 1] = start[k] + PmuSize(sent[k])
                              /\ dstart[k + 1] = dstart[k] + DataSize(sent[k])
    /\ \A j, k \in DOMAIN start : j < k => start[j] < start[k]

\* How far the loops are in each phase.
Phases ==
    /\ pc \in {"waiting", "configuration", "ready"} => values = <<>>
    /\ pc = "waiting" => conf = <<>>
    /\ pc = "configuration" => Len(conf) < Len(sent)
    /\ pc \in {"ready", "data", "shown", "corrupt"} => Len(conf) = Len(sent)
    /\ pc = "data" => Len(values) < Len(conf)
    /\ pc = "shown" => Len(values) = Len(conf)

\* All arrays are allocated with the counts of the first PMU.
AllocatedAsFirst ==
    \A k \in DOMAIN conf :
        LET p == conf[k].pmu
            q == conf[1].pmu
        IN  /\ conf[k].phasor.alloc  = IF p.ph = 0 THEN 0 ELSE q.ph
            /\ conf[k].analog.alloc  = IF p.an = 0 THEN 0 ELSE q.an
            /\ conf[k].digital.alloc = IF p.dg = 0 THEN 0 ELSE q.dg

IInv ==
    /\ TypeOK
    /\ Layout
    /\ Phases
    /\ AllocatedAsFirst
    /\ CursorAligned
    /\ ChannelsExact
    /\ NoOverflow
    /\ ValuesExact
----------------------------------------------------------------------------
\* Lemmas about the sizes and the records the decoder builds.
LEMMA PmuTypes ==
  ASSUME NEW p \in Pmus
  PROVE  /\ p.ph \in Nat /\ p.an \in Nat /\ p.dg \in Nat
         /\ p.polar \in BOOLEAN /\ p.phFloat \in BOOLEAN
         /\ p.anFloat \in BOOLEAN /\ p.freqFloat \in BOOLEAN
  BY FrameAssumption DEF Pmu

LEMMA SizeTypes ==
  ASSUME NEW p \in Pmus
  PROVE  /\ PmuSize(p) \in Nat /\ PmuSize(p) > 0
         /\ PhasorsSize(p) \in Nat /\ FreqSize(p) \in Nat
         /\ AnalogsSize(p) \in Nat /\ DataSize(p) \in Nat
<1>1. p.ph \in Nat /\ p.an \in Nat /\ p.dg \in Nat
  BY PmuTypes
<1>2. PmuSize(p) \in Nat /\ PmuSize(p) > 0
  BY <1>1 DEF PmuSize, HeaderSize, TailSize
<1>3. PhasorsSize(p) \in Nat /\ FreqSize(p) \in Nat /\ AnalogsSize(p) \in Nat
  BY <1>1 DEF PhasorsSize, FreqSize, AnalogsSize
<1> QED
  BY <1>1, <1>2, <1>3 DEF DataSize

LEMMA ChannelsType ==
  ASSUME NEW n \in Nat, NEW alloc \in Nat, NEW names \in Nat, NEW units \in Nat
  PROVE  Channels(n, alloc, names, units) \in Array
  BY DEF Channels, Array

LEMMA DecodedType ==
  ASSUME NEW p \in Pmus, NEW q \in Pmus, NEW at \in Nat
  PROVE  Decoded(p, q, at) \in Configuration /\ CursorAfter(p, q, at) \in Nat
<1>1. /\ p.ph \in Nat /\ p.an \in Nat /\ p.dg \in Nat
      /\ q.ph \in Nat /\ q.an \in Nat /\ q.dg \in Nat
      /\ (~q.phFloat) \in BOOLEAN
  BY PmuTypes
<1>2. CursorAfter(p, q, at) \in Nat
  BY <1>1 DEF CursorAfter, TailSize
<1> DEFINE anAt == at + 16 * q.ph
           dgAt == anAt + 16 * q.an
<1>3. /\ anAt \in Nat /\ dgAt \in Nat
      /\ anAt + 16 * (q.an + 16 * q.dg) \in Nat
      /\ dgAt + 16 * (16 * q.dg) + 4 * q.ph \in Nat
      /\ dgAt + 256 * q.dg + 4 * (q.ph + q.an) \in Nat
  BY <1>1
<1>4. /\ Channels(p.ph, q.ph, at, anAt + 16 * (q.an + 16 * q.dg)) \in Array
      /\ Channels(p.an, q.an, anAt, dgAt + 16 * (16 * q.dg) + 4 * q.ph) \in Array
      /\ Channels(p.dg, q.dg, dgAt, dgAt + 256 * q.dg + 4 * (q.ph + q.an)) \in Array
  BY <1>1, <1>3, ChannelsType
<1> QED
  BY <1>1, <1>2, <1>4 DEF Decoded, Configuration

LEMMA ValuesType ==
  ASSUME NEW p \in Pmus, NEW at \in Nat
  PROVE  Values(p, at) \in Shown
<1>1. PhasorsSize(p) \in Nat /\ FreqSize(p) \in Nat /\ AnalogsSize(p) \in Nat
  BY SizeTypes
<1> DEFINE freqAt == at + 2 + PhasorsSize(p)
           anAt   == freqAt + 2 * FreqSize(p)
<1>2. freqAt \in Nat /\ anAt \in Nat /\ anAt + AnalogsSize(p) \in Nat
  BY <1>1
<1>3. /\ (IF p.polar /\ ~p.phFloat THEN 0 ELSE at + 2) \in Nat
      /\ (IF p.freqFloat THEN freqAt ELSE freqAt + 2) \in Nat
      /\ (IF p.freqFloat THEN freqAt + 4 ELSE 0) \in Nat
  BY <1>2
<1> QED
  BY <1>2, <1>3 DEF Values, Shown

\* With the counts of its own PMU, a block is decoded as it was encoded, but for
\* the scaling, which is the first PMU's.
LEMMA DecodedIsBlock ==
  ASSUME NEW p \in Pmus, NEW q \in Pmus, NEW at \in Nat,
         SameCounts(p, q)
  PROVE  Decoded(p, q, at + HeaderSize)
            = [Block(p, at) EXCEPT !.scaled = ~q.phFloat]
<1>1. p.ph \in Nat /\ p.an \in Nat /\ p.dg \in Nat
  BY PmuTypes
<1>2. p.ph = q.ph /\ p.an = q.an /\ p.dg = q.dg
  BY DEF SameCounts
<1> DEFINE at0  == at + HeaderSize
           anAt == at0 + 16 * p.ph
           dgAt == anAt + 16 * p.an
<1>3. /\ at0 \in Nat
      /\ anAt + 16 * (p.an + 16 * p.dg) = dgAt + 16 * 16 * p.dg
      /\ dgAt + 16 * (16 * p.dg) + 4 * p.ph = (dgAt + 16 * 16 * p.dg) + 4 * p.ph
      /\ dgAt + 256 * p.dg + 4 * (p.ph + p.an)
            = ((dgAt + 16 * 16 * p.dg) + 4 * p.ph) + 4 * p.an
  BY <1>1 DEF HeaderSize
<1>4. Decoded(p, q, at0) =
        [pmu |-> p, scaled |-> ~q.phFloat,
         phasor  |-> Channels(p.ph, p.ph, at0, dgAt + 16 * 16 * p.dg),
         analog  |-> Channels(p.an, p.an, anAt, (dgAt + 16 * 16 * p.dg) + 4 * p.ph),
         digital |-> Channels(p.dg, p.dg, dgAt,
                        ((dgAt + 16 * 16 * p.dg) + 4 * p.ph) + 4 * p.an)]
  BY <1>2, <1>3, ZenonT(30) DEF Decoded
<1>5. \A n, names, units :
        Channels(n, n, names, units) =
            [alloc |-> n, names |-> IF n = 0 THEN 0 ELSE names,
                          units |-> IF n = 0 THEN 0 ELSE units]
  BY DEF Channels
<1> DEFINE units == dgAt + 16 * 16 * p.dg
           Of(n, names, at1) == [alloc |-> n, names |-> IF n = 0 THEN 0 ELSE names,
                                 units |-> IF n = 0 THEN 0 ELSE at1]
           ph == Of(p.ph, at0, units)
           an == Of(p.an, anAt, units + 4 * p.ph)
           dg == Of(p.dg, dgAt, (units + 4 * p.ph) + 4 * p.an)
<1>6. Block(p, at) = [pmu |-> p, scaled |-> ~p.phFloat,
                      phasor |-> ph, analog |-> an, digital |-> dg]
  BY Zenon DEF Block
<1>7. Decoded(p, q, at0) = [pmu |-> p, scaled |-> ~q.phFloat,
                            phasor |-> ph, analog |-> an, digital |-> dg]
  BY <1>4, <1>5, ZenonT(30)
<1> HIDE DEF ph, an, dg
<1> QED
  BY <1>6, <1>7

\* The cursor stays aligned when the sum of the counts agrees with the first's.
LEMMA CursorAfterBlock ==
  ASSUME NEW p \in Pmus, NEW q \in Pmus, NEW at \in Nat,
         p.ph + p.an = q.ph + q.an
  PROVE  CursorAfter(p, q, at + HeaderSize) = at + PmuSize(p)
<1> DEFINE a == p.ph  b == p.an  d == p.dg  x == q.ph  y == q.an
<1>1. /\ a \in Nat /\ b \in Nat /\ d \in Nat /\ x \in Nat /\ y \in Nat
  BY PmuTypes
<1>2. a + b = x + y
  OBVIOUS
<1>3. CursorAfter(p, q, at + 26)
        = (at + 26) + 16 * x + 16 * y + (16 * 16 * d + 4 * (b + d + a)) + 4
  BY DEF CursorAfter, TailSize
<1>4. at + PmuSize(p) = at + (26 + 20 * a + 20 * b + 260 * d + 4)
  BY DEF PmuSize, HeaderSize, TailSize
<1> HIDE DEF a, b, d, x, y
<1>5. CursorAfter(p, q, at + 26) = at + PmuSize(p)
  BY <1>1, <1>2, <1>3, <1>4
<1> QED
  BY <1>5 DEF HeaderSize
\* What is held of the PMUs stays right as long as it and the frame stay.
LEMMA ChannelsKept ==
  ASSUME ChannelsExact, UNCHANGED frame, UNCHANGED conf
  PROVE  ChannelsExact'
<1>1. \A k : AlignedTo(k)' <=> AlignedTo(k)
  BY DEF AlignedTo, frame
<1>2. SUFFICES ASSUME NEW k \in DOMAIN conf, AlignedTo(k)
               PROVE  /\ conf[k].pmu = sent[k]
                      /\ SameCounts(sent[k], sent[1]) =>
                              conf[k] = [Block(sent[k], start[k]) EXCEPT
                                              !.scaled = ~sent[1].phFloat]
  BY <1>1 DEF ChannelsExact, SameCounts, Block, frame
<1> QED
  BY <1>2 DEF ChannelsExact
----------------------------------------------------------------------------
\* The initial states, and the two steps before anything is decoded.
LEMMA InitIInv == Init => IInv
<1> SUFFICES ASSUME Init PROVE IInv
  OBVIOUS
<1> USE DEF Init
<1>1. TypeOK
  BY DEF TypeOK, FrameTypeOK, DecoderTypeOK, States, FirstPmu, FirstData
<1>2. Layout
  BY DEF Layout
<1>3. Phases
  BY DEF Phases
<1>4. AllocatedAsFirst /\ ChannelsExact /\ ValuesExact
  BY DEF AllocatedAsFirst, ChannelsExact, ValuesExact
<1>5. CursorAligned /\ NoOverflow
  BY DEF CursorAligned, NoOverflow
<1> QED
  BY <1>1, <1>2, <1>3, <1>4, <1>5 DEF IInv

LEMMA EncodePmuIInv ==
  ASSUME IInv, NEW p \in Pmus, EncodePmu(p)
  PROVE  IInv'
<1>1. /\ pc = "waiting" /\ pc' = "waiting"
      /\ conf = <<>> /\ conf' = <<>>
      /\ values = <<>> /\ values' = <<>>
      /\ bufPos' = bufPos
  BY DEF EncodePmu, IInv, Phases
<1>2. /\ sent \in Seq(Pmus) /\ bufPos \in Nat
      /\ start \in Seq(Nat) /\ Len(start) = Len(sent) + 1
      /\ dstart \in Seq(Nat) /\ Len(dstart) = Len(sent) + 1
  BY DEF IInv, TypeOK, FrameTypeOK, DecoderTypeOK
<1> DEFINE n == Len(sent) + 1
<1>3. n \in Nat /\ n > 0 /\ start[n] \in Nat /\ dstart[n] \in Nat
  BY <1>2
<1>4. /\ PmuSize(p) \in Nat /\ PmuSize(p) > 0 /\ DataSize(p) \in Nat
  BY SizeTypes
<1>5. /\ sent' = Append(sent, p)
      /\ start' = Append(start, start[n] + PmuSize(p))
      /\ dstart' = Append(dstart, dstart[n] + DataSize(p))
  BY <1>2 DEF EncodePmu
<1>6. TypeOK'
  <2>1. /\ sent' \in Seq(Pmus) /\ start' \in Seq(Nat) /\ dstart' \in Seq(Nat)
        /\ Len(start') = Len(sent') + 1 /\ Len(dstart') = Len(sent') + 1
    BY <1>2, <1>3, <1>4, <1>5
  <2> QED
    BY <1>1, <1>2, <2>1 DEF TypeOK, FrameTypeOK, DecoderTypeOK, States
<1>7. Layout'
  <2>1. /\ start[1] = FirstPmu /\ dstart[1] = FirstData
        /\ \A k \in DOMAIN sent : /\ start[k + 1] = start[k] + PmuSize(sent[k])
                                  /\ dstart[k + 1] = dstart[k] + DataSize(sent[k])
        /\ \A j, k \in DOMAIN start : j < k => start[j] < start[k]
    BY DEF IInv, Layout
  <2>2. start'[1] = FirstPmu /\ dstart'[1] = FirstData
    BY <1>2, <1>3, <1>5, <2>1
  <2>3. /\ DOMAIN sent' = 1 .. n /\ DOMAIN start = 1 .. n
        /\ DOMAIN start' = 1 .. n + 1
        /\ \A k \in 1 .. n : start'[k] = start[k] /\ dstart'[k] = dstart[k]
        /\ start'[n + 1] = start[n] + PmuSize(p)
        /\ dstart'[n + 1] = dstart[n] + DataSize(p)
        /\ \A k \in DOMAIN sent : sent'[k] = sent[k]
        /\ sent'[n] = p
    BY <1>2, <1>3, <1>4, <1>5, SMTT(30)
  <2>4. ASSUME NEW k \in DOMAIN sent'
        PROVE  /\ start'[k + 1] = start'[k] + PmuSize(sent'[k])
               /\ dstart'[k + 1] = dstart'[k] + DataSize(sent'[k])
    <3>1. CASE k = n
      BY <1>3, <2>3, <3>1
    <3>2. CASE k # n
      <4>1. k \in DOMAIN sent /\ k \in 1 .. n /\ k + 1 \in 1 .. n
        BY <1>2, <2>3, <3>2
      <4> QED
        BY <2>1, <2>3, <4>1
    <3> QED
      BY <3>1, <3>2
  <2>5. ASSUME NEW j \in DOMAIN start', NEW k \in DOMAIN start', j < k
        PROVE  start'[j] < start'[k]
    <3>1. j \in 1 .. n /\ start'[j] = start[j] /\ start[j] \in Nat
      BY <1>2, <1>3, <2>3, <2>5
    <3>2. CASE k = n + 1
      <4>1. start[j] <= start[n]
        BY <1>3, <2>1, <2>3, <3>1
      <4> QED
        BY <1>3, <1>4, <2>3, <3>1, <3>2, <4>1
    <3>3. CASE k # n + 1
      BY <1>3, <2>1, <2>3, <2>5, <3>1, <3>3
    <3> QED
      BY <3>2, <3>3
  <2> QED
    BY <2>2, <2>4, <2>5 DEF Layout
<1>8. Phases'
  BY <1>1 DEF Phases
<1>9. AllocatedAsFirst' /\ ChannelsExact' /\ ValuesExact'
  BY <1>1 DEF AllocatedAsFirst, ChannelsExact, ValuesExact
<1>10. CursorAligned' /\ NoOverflow'
  BY <1>1 DEF CursorAligned, NoOverflow
<1> QED
  BY <1>6, <1>7, <1>8, <1>9, <1>10 DEF IInv

LEMMA ParseConfigurationIInv ==
  ASSUME IInv, parseConfigurationFrame
  PROVE  IInv'
<1>1. /\ pc = "waiting" /\ bufPos' = FirstPmu
      /\ pc' = IF sent = <<>> THEN "ready" ELSE "configuration"
      /\ conf = <<>> /\ conf' = <<>>
      /\ values = <<>> /\ values' = <<>>
      /\ sent' = sent /\ start' = start /\ dstart' = dstart
  BY DEF parseConfigurationFrame, frame, IInv, Phases
<1>2. sent \in Seq(Pmus) /\ FrameTypeOK
  BY DEF IInv, TypeOK, FrameTypeOK
<1>3. TypeOK'
  BY <1>1, <1>2 DEF TypeOK, FrameTypeOK, DecoderTypeOK, States, FirstPmu
<1>4. Layout'
  BY <1>1 DEF IInv, Layout
<1>5. Phases'
  BY <1>1, <1>2 DEF Phases
<1>6. AllocatedAsFirst' /\ ChannelsExact' /\ ValuesExact'
  BY <1>1 DEF AllocatedAsFirst, ChannelsExact, ValuesExact
<1>7. CursorAligned'
  <2>1. start'[1] = FirstPmu /\ Len(conf') + 1 = 1
    BY <1>1 DEF IInv, Layout
  <2>2. pc' = "ready" => Len(sent') + 1 = 1
    BY <1>1
  <2>3. pc' \in {"ready", "configuration"}
    BY <1>1
  <2> QED
    BY <1>1, <2>1, <2>2, <2>3 DEF CursorAligned
<1>8. NoOverflow'
  BY <1>1 DEF NoOverflow
<1> QED
  BY <1>3, <1>4, <1>5, <1>6, <1>7, <1>8 DEF IInv
----------------------------------------------------------------------------
\* The loop of prepareConfiguration.
LEMMA AlignedMonotone ==
  ASSUME NEW i \in Nat, NEW k \in Nat, i <= k, AlignedTo(k), sent \in Seq(Pmus)
  PROVE  AlignedTo(i)
BY DEF AlignedTo

\* A cursor at the beginning of a block finds that block's header.
LEMMA HeaderFound ==
  ASSUME FrameTypeOK, Layout, NEW k \in DOMAIN sent,
         NEW p \in HeaderAt(start[k])
  PROVE  p = sent[k]
<1>1. k \in DOMAIN start /\ DOMAIN sent \subseteq DOMAIN start
  BY DEF FrameTypeOK
<1>2. PICK j \in DOMAIN sent : start[j] = start[k] /\ p = sent[j]
  BY <1>1 DEF HeaderAt
<1>3. j \in Nat /\ k \in Nat /\ start[j] \in Nat /\ start[k] \in Nat
  BY <1>1 DEF FrameTypeOK
<1>4. ~(j < k) /\ ~(k < j)
  BY <1>1, <1>2, <1>3 DEF Layout
<1> QED
  BY <1>2, <1>3, <1>4

LEMMA PrepareConfigurationIInv ==
  ASSUME IInv, prepareConfiguration
  PROVE  IInv'
<1> DEFINE K == Len(conf) + 1
<1>1. /\ pc = "configuration"
      /\ pc' = IF K = Len(sent) THEN "ready" ELSE "configuration"
      /\ values' = values
      /\ sent' = sent /\ start' = start /\ dstart' = dstart
  BY DEF prepareConfiguration, frame
<1>2. PICK p \in HeaderAt(bufPos) :
        /\ conf' = Append(conf, Decoded(p, PreparedWith(p), bufPos + HeaderSize))
        /\ bufPos' = CursorAfter(p, PreparedWith(p), bufPos + HeaderSize)
  BY DEF prepareConfiguration
<1> DEFINE q == PreparedWith(p)
           c == Decoded(p, q, bufPos + HeaderSize)
<1>3. /\ FrameTypeOK /\ sent \in Seq(Pmus) /\ conf \in Seq(Configuration)
      /\ bufPos \in Nat /\ Layout /\ values = <<>>
      /\ start \in Seq(Nat) /\ Len(start) = Len(sent) + 1
  BY <1>1 DEF IInv, TypeOK, FrameTypeOK, DecoderTypeOK, Phases
<1>4. Len(conf) < Len(sent) /\ Len(conf) \in Nat /\ Len(sent) \in Nat
  BY <1>1, <1>3 DEF IInv, Phases
<1>5. K \in DOMAIN sent /\ K \in Nat /\ K + 1 \in Nat /\ start[K] \in Nat
  BY <1>3, <1>4
<1>6. p \in Pmus
  BY <1>2, <1>3 DEF HeaderAt
<1>7. q \in Pmus
  <2>1. CASE conf = <<>>
    BY <1>6, <2>1 DEF PreparedWith
  <2>2. CASE conf # <<>>
    <3>1. conf[1] \in Configuration
      BY <1>3, <2>2
    <3> QED
      BY <2>2, <3>1 DEF PreparedWith, Configuration
  <2> QED
    BY <2>1, <2>2
<1>8. bufPos + HeaderSize \in Nat
  BY <1>3 DEF HeaderSize
<1>9. c \in Configuration /\ bufPos' \in Nat
  BY <1>2, <1>6, <1>7, <1>8, DecodedType
<1>10. /\ conf' \in Seq(Configuration) /\ Len(conf') = K
       /\ DOMAIN conf' = 1 .. K /\ DOMAIN conf = 1 .. K - 1
       /\ conf'[K] = c
       /\ \A k \in 1 .. K - 1 : conf'[k] = conf[k]
  BY <1>2, <1>3, <1>9
<1>11. c.pmu = p
  BY DEF Decoded
<1>12. conf'[1].pmu = q
  <2>1. CASE conf = <<>>
    BY <1>3, <1>10, <1>11, <2>1 DEF PreparedWith
  <2>2. CASE conf # <<>>
    BY <1>3, <1>10, <2>2 DEF PreparedWith
  <2> QED
    BY <2>1, <2>2
<1>13. TypeOK'
  BY <1>1, <1>3, <1>4, <1>9, <1>10 DEF TypeOK, FrameTypeOK, DecoderTypeOK, States
<1>14. Layout'
  BY <1>1, <1>3 DEF Layout
<1>15. Phases'
  BY <1>1, <1>3, <1>4, <1>10 DEF Phases
<1>16. AllocatedAsFirst'
  <2>1. \A n, alloc, names, units :
            Channels(n, alloc, names, units).alloc = IF n = 0 THEN 0 ELSE alloc
    BY DEF Channels
  <2>2. /\ c.phasor.alloc  = IF p.ph = 0 THEN 0 ELSE q.ph
        /\ c.analog.alloc  = IF p.an = 0 THEN 0 ELSE q.an
        /\ c.digital.alloc = IF p.dg = 0 THEN 0 ELSE q.dg
    BY <2>1 DEF Decoded
  <2>3. \A k \in 1 .. K - 1 : conf'[k] = conf[k] /\ conf'[1] = conf[1]
    BY <1>4, <1>10
  <2>4. ASSUME NEW k \in DOMAIN conf'
        PROVE  /\ conf'[k].phasor.alloc  = IF conf'[k].pmu.ph = 0 THEN 0 ELSE q.ph
               /\ conf'[k].analog.alloc  = IF conf'[k].pmu.an = 0 THEN 0 ELSE q.an
               /\ conf'[k].digital.alloc = IF conf'[k].pmu.dg = 0 THEN 0 ELSE q.dg
    <3>1. CASE k = K
      BY <1>10, <1>11, <2>2, <3>1
    <3>2. CASE k # K
      <4>1. k \in 1 .. K - 1
        BY <1>4, <1>10, <3>2
      <4>2. /\ conf'[k] = conf[k] /\ conf[1].pmu = q /\ k \in DOMAIN conf
        BY <1>10, <1>12, <2>3, <4>1
      <4> QED
        BY <4>2 DEF IInv, AllocatedAsFirst
    <3> QED
      BY <3>1, <3>2
  <2> QED
    BY <1>12, <2>4 DEF AllocatedAsFirst
<1>17. \A k : AlignedTo(k)' <=> AlignedTo(k)
  BY <1>1 DEF AlignedTo
<1>18. ASSUME AlignedTo(K)
       PROVE  bufPos = start[K] /\ p = sent[K] /\ q = sent[1]
  <2>1. bufPos = start[K]
    BY <1>1, <1>18 DEF IInv, CursorAligned
  <2>2. p = sent[K]
    BY <1>3, <1>5, <2>1, HeaderFound
  <2>3. CASE conf = <<>>
    BY <2>1, <2>2, <2>3 DEF PreparedWith
  <2>4. CASE conf # <<>>
    <3>1. 1 \in DOMAIN conf /\ AlignedTo(1)
      BY <1>3, <1>4, <1>5, <1>18, <2>4, AlignedMonotone
    <3>2. conf[1].pmu = sent[1]
      BY <3>1 DEF IInv, ChannelsExact
    <3> QED
      BY <2>1, <2>2, <2>4, <3>2 DEF PreparedWith
  <2> QED
    BY <2>3, <2>4
<1>19. ASSUME AlignedTo(K + 1)
       PROVE  bufPos' = start[K + 1]
  <2>1. AlignedTo(K)
    BY <1>3, <1>5, <1>19, AlignedMonotone
  <2>2. sent[K].ph + sent[K].an = sent[1].ph + sent[1].an
    BY <1>5, <1>19 DEF AlignedTo
  <2>3. bufPos = start[K] /\ p = sent[K] /\ q = sent[1]
    BY <1>18, <2>1
  <2>4. p.ph + p.an = q.ph + q.an
    BY <2>2, <2>3
  <2>5. bufPos' = bufPos + PmuSize(p)
    BY <1>2, <1>3, <1>6, <1>7, <2>4, CursorAfterBlock
  <2> QED
    BY <1>3, <1>5, <2>3, <2>5 DEF Layout
<1>20. CursorAligned'
  <2>1. CASE K = Len(sent)
    BY <1>1, <1>17, <1>19, <2>1 DEF CursorAligned
  <2>2. CASE K # Len(sent)
    BY <1>1, <1>10, <1>17, <1>19, <2>2 DEF CursorAligned
  <2> QED
    BY <2>1, <2>2
<1>21. ChannelsExact'
  <2>1. SUFFICES ASSUME NEW k \in DOMAIN conf', AlignedTo(k)
                 PROVE  /\ conf'[k].pmu = sent[k]
                        /\ SameCounts(sent[k], sent[1]) =>
                                conf'[k] = [Block(sent[k], start[k]) EXCEPT
                                                !.scaled = ~sent[1].phFloat]
    BY <1>1, <1>17 DEF ChannelsExact, SameCounts, Block
  <2>2. CASE k = K
    <3>1. bufPos = start[K] /\ p = sent[K] /\ q = sent[1]
      BY <1>18, <2>1, <2>2
    <3>2. SameCounts(p, q) =>
              c = [Block(p, bufPos) EXCEPT !.scaled = ~q.phFloat]
      BY <1>3, <1>6, <1>7, DecodedIsBlock
    <3> QED
      BY <1>10, <1>11, <2>2, <3>1, <3>2
  <2>3. CASE k # K
    <3>1. k \in DOMAIN conf /\ conf'[k] = conf[k]
      BY <1>4, <1>10, <2>3
    <3> QED
      BY <2>1, <3>1 DEF IInv, ChannelsExact
  <2> QED
    BY <2>2, <2>3
<1>22. NoOverflow' /\ ValuesExact'
  BY <1>1, <1>3 DEF NoOverflow, ValuesExact
<1> QED
  BY <1>13, <1>14, <1>15, <1>16, <1>20, <1>21, <1>22 DEF IInv
----------------------------------------------------------------------------
\* The data frames.
LEMMA ParseDataFrameIInv ==
  ASSUME IInv, parseDataFrame
  PROVE  IInv'
<1>1. /\ pc \in {"ready", "shown"} /\ bufPos' = FirstData /\ values' = <<>>
      /\ pc' = IF sent = <<>> THEN "shown" ELSE "data"
      /\ sent' = sent /\ start' = start /\ dstart' = dstart /\ conf' = conf
  BY DEF parseDataFrame, frame
<1>2. /\ FrameTypeOK /\ sent \in Seq(Pmus) /\ conf \in Seq(Configuration)
      /\ Len(conf) = Len(sent) /\ Layout
  BY <1>1 DEF IInv, TypeOK, FrameTypeOK, DecoderTypeOK, Phases
<1>3. TypeOK'
  BY <1>1, <1>2 DEF TypeOK, FrameTypeOK, DecoderTypeOK, States, FirstData
<1>4. Layout'
  BY <1>1, <1>2 DEF Layout
<1>5. Phases'
  BY <1>1, <1>2 DEF Phases
<1>6. AllocatedAsFirst' /\ ChannelsExact'
  BY <1>1, ChannelsKept DEF IInv, AllocatedAsFirst, frame
<1>7. CursorAligned'
  <2>1. CASE sent = <<>>
    BY <1>1, <1>2, <2>1 DEF CursorAligned, Layout
  <2>2. CASE sent # <<>>
    BY <1>1, <1>2, <2>2 DEF CursorAligned, Layout
  <2> QED
    BY <2>1, <2>2
<1>8. NoOverflow' /\ ValuesExact'
  BY <1>1 DEF NoOverflow, ValuesExact
<1> QED
  BY <1>3, <1>4, <1>5, <1>6, <1>7, <1>8 DEF IInv

\* While the cursor was aligned, the client holds each PMU's own header.
LEMMA HeadersHeld ==
  ASSUME IInv, AlignedTo(Len(sent)), Len(conf) = Len(sent), NEW k \in DOMAIN sent
  PROVE  /\ conf[k].pmu = sent[k] /\ conf[1].pmu = sent[1]
         /\ k \in DOMAIN conf
<1>1. sent \in Seq(Pmus) /\ conf \in Seq(Configuration)
  BY DEF IInv, TypeOK, FrameTypeOK, DecoderTypeOK
<1>2. k \in DOMAIN conf /\ 1 \in DOMAIN conf /\ k \in Nat /\ k <= Len(sent)
      /\ 1 <= Len(sent) /\ Len(sent) \in Nat
  BY <1>1
<1>3. AlignedTo(k) /\ AlignedTo(1)
  BY <1>1, <1>2, AlignedMonotone
<1> QED
  BY <1>2, <1>3 DEF IInv, ChannelsExact

LEMMA DecodeDataIInv ==
  ASSUME IInv, decodeData
  PROVE  IInv'
<1> DEFINE K == Len(values) + 1
           c == conf[K]
<1>1. /\ pc = "data"
      /\ sent' = sent /\ start' = start /\ dstart' = dstart /\ conf' = conf
  BY DEF decodeData, frame
<1>2. /\ FrameTypeOK /\ sent \in Seq(Pmus) /\ conf \in Seq(Configuration)
      /\ values \in Seq(Shown) /\ bufPos \in Nat
      /\ Len(conf) = Len(sent) /\ Len(values) < Len(conf) /\ Layout
      /\ dstart \in Seq(Nat) /\ Len(dstart) = Len(sent) + 1
  BY <1>1 DEF IInv, TypeOK, FrameTypeOK, DecoderTypeOK, Phases
<1>3. /\ K \in DOMAIN sent /\ K \in DOMAIN conf /\ K \in Nat
      /\ Len(values) \in Nat /\ Len(sent) \in Nat
  BY <1>2
<1>4. c \in Configuration /\ c.pmu \in Pmus
  <2>1. c \in Configuration
    BY <1>2, <1>3
  <2> QED
    BY <2>1 DEF Configuration
<1>5. Layout' /\ AllocatedAsFirst' /\ ChannelsExact'
  BY <1>1, <1>2, ChannelsKept DEF IInv, Layout, AllocatedAsFirst, frame
<1>6. AlignedTo(Len(sent)) <=> AlignedTo(Len(sent))'
  BY <1>1 DEF AlignedTo
<1>7. CASE Overflows(c)
  <2>1. pc' = "corrupt" /\ bufPos' = bufPos /\ values' = values
    BY <1>7 DEF decodeData
  <2>2. TypeOK'
    BY <1>1, <1>2, <2>1 DEF TypeOK, FrameTypeOK, DecoderTypeOK, States
  <2>3. Phases' /\ CursorAligned'
    BY <1>1, <1>2, <2>1 DEF Phases, CursorAligned
  <2>4. ValuesExact'
    BY <1>1, <2>1, <1>6 DEF IInv, ValuesExact
  <2>5. ASSUME AlignedTo(Len(sent)), \A k \in DOMAIN sent : NoMore(sent[k], sent[1])
        PROVE  FALSE
    <3>1. c.pmu = sent[K] /\ conf[1].pmu = sent[1]
      BY <1>2, <1>3, <2>5, HeadersHeld
    <3>2. /\ c.phasor.alloc  = IF c.pmu.ph = 0 THEN 0 ELSE conf[1].pmu.ph
          /\ c.analog.alloc  = IF c.pmu.an = 0 THEN 0 ELSE conf[1].pmu.an
          /\ c.digital.alloc = IF c.pmu.dg = 0 THEN 0 ELSE conf[1].pmu.dg
      BY <1>3 DEF IInv, AllocatedAsFirst
    <3>3. 1 \in DOMAIN sent /\ sent[1] \in Pmus /\ sent[K] \in Pmus
      BY <1>2, <1>3
    <3>4. /\ sent[1].ph \in Nat /\ sent[1].an \in Nat /\ sent[1].dg \in Nat
          /\ sent[K].ph \in Nat /\ sent[K].an \in Nat /\ sent[K].dg \in Nat
      BY <3>3, PmuTypes
    <3>5. /\ sent[K].ph <= sent[1].ph /\ sent[K].an <= sent[1].an
          /\ sent[K].dg <= sent[1].dg
      BY <1>3, <2>5 DEF NoMore
    <3> QED
      BY <1>7, <3>1, <3>2, <3>4, <3>5 DEF Overflows
  <2>6. NoOverflow'
    BY <1>1, <1>6, <2>5 DEF NoOverflow, NoMore
  <2> QED
    BY <1>5, <2>2, <2>3, <2>4, <2>6 DEF IInv
<1>8. CASE ~Overflows(c)
  <2> DEFINE v == Values(c.pmu, bufPos)
  <2>1. /\ values' = Append(values, v)
        /\ bufPos' = bufPos + DataSize(c.pmu)
        /\ pc' = IF K = Len(conf) THEN "shown" ELSE "data"
    BY <1>1, <1>8 DEF decodeData
  <2>2. v \in Shown /\ DataSize(c.pmu) \in Nat
    BY <1>2, <1>4, ValuesType, SizeTypes
  <2> HIDE DEF v
  <2>3. /\ values' \in Seq(Shown) /\ Len(values') = K
        /\ DOMAIN values' = 1 .. K /\ DOMAIN values = 1 .. K - 1
        /\ values'[K] = v
        /\ \A k \in 1 .. K - 1 : values'[k] = values[k]
    BY <1>2, <2>1, <2>2
  <2>4. TypeOK'
    <3>1. FrameTypeOK' /\ conf' \in Seq(Configuration) /\ Len(conf') =< Len(sent')
      BY <1>1 DEF IInv, TypeOK, FrameTypeOK, DecoderTypeOK
    <3>2. bufPos' \in Nat /\ pc' \in States
      BY <1>1, <2>1, <2>2 DEF IInv, TypeOK, DecoderTypeOK, States
    <3>3. values' \in Seq(Shown) /\ Len(values') =< Len(conf')
      BY <1>1, <1>2, <2>3
    <3> QED
      BY <3>1, <3>2, <3>3 DEF TypeOK, DecoderTypeOK
  <2>5. Phases'
    BY <1>1, <1>2, <2>1, <2>3 DEF Phases
  <2>6. ASSUME AlignedTo(Len(sent))
        PROVE  bufPos = dstart[K] /\ c.pmu = sent[K] /\ bufPos' = dstart[K + 1]
    <3>1. bufPos = dstart[K]
      BY <1>1, <2>6 DEF IInv, CursorAligned
    <3>2. c.pmu = sent[K]
      BY <1>2, <1>3, <2>6, HeadersHeld
    <3> QED
      BY <1>3, <1>2, <2>1, <3>1, <3>2 DEF Layout
  <2>7. CursorAligned'
    <3>1. CASE K = Len(conf)
      BY <1>1, <1>2, <1>6, <2>1, <2>6, <3>1 DEF CursorAligned
    <3>2. CASE K # Len(conf)
      BY <1>1, <1>2, <1>6, <2>1, <2>3, <2>6, <3>2 DEF CursorAligned
    <3> QED
      BY <3>1, <3>2
  <2>8. NoOverflow'
    BY <2>1 DEF NoOverflow
  <2>9. ValuesExact'
    <3>1. SUFFICES ASSUME AlignedTo(Len(sent)), NEW k \in DOMAIN values'
                   PROVE  /\ values'[k].stat = dstart[k]
                          /\ sent[k].phFloat \/ ~sent[k].polar =>
                                  values'[k].phasor = dstart[k] + 2
                          /\ sent[k].freqFloat =>
                                  /\ values'[k].freq = dstart[k] + 2 + PhasorsSize(sent[k])
                                  /\ values'[k].rocof = values'[k].freq + 4
                          /\ values'[k].digital = dstart[k + 1] - 2 * sent[k].dg
                          /\ values'[k].analog = values'[k].digital - AnalogsSize(sent[k])
      BY <1>1, <1>6 DEF ValuesExact, OwnFields, PhasorsSize, AnalogsSize
    <3>2. CASE k # K
      <4>1. k \in DOMAIN values /\ values'[k] = values[k]
        BY <1>3, <2>3, <3>2
      <4> QED
        BY <3>1, <4>1 DEF IInv, ValuesExact, OwnFields
    <3>3. CASE k = K
      <4> DEFINE p == sent[K]
                 ph == PhasorsSize(p)
                 fr == 2 * FreqSize(p)
                 an == AnalogsSize(p)
                 dg == 2 * p.dg
                 at == dstart[K]
                 end == dstart[K + 1]
      <4>1. bufPos = at /\ c.pmu = p /\ p \in Pmus /\ values'[k] = Values(p, at)
        BY <1>2, <1>3, <2>3, <2>6, <3>1, <3>3 DEF v
      <4>2. /\ ph \in Nat /\ fr \in Nat /\ an \in Nat /\ dg \in Nat /\ at \in Nat
        <5>1. ph \in Nat /\ FreqSize(p) \in Nat /\ an \in Nat /\ p.dg \in Nat
          BY <4>1, SizeTypes, PmuTypes
        <5>2. at \in Nat
          BY <1>2, <1>3
        <5> QED
          BY <5>1, <5>2
      <4>3. /\ Values(p, at).stat = at
            /\ p.phFloat \/ ~p.polar => Values(p, at).phasor = at + 2
            /\ p.freqFloat => /\ Values(p, at).freq = at + 2 + ph
                              /\ Values(p, at).rocof = (at + 2 + ph) + 4
            /\ Values(p, at).analog = (at + 2 + ph) + fr
            /\ Values(p, at).digital = ((at + 2 + ph) + fr) + an
        BY DEF Values
      <4>4. end = at + (2 + ph + fr + an + dg)
        BY <1>2, <1>3 DEF Layout, DataSize
      <4> HIDE DEF ph, fr, an, dg, at, end
      <4>5. /\ end - dg = ((at + 2 + ph) + fr) + an
            /\ (((at + 2 + ph) + fr) + an) - an = (at + 2 + ph) + fr
        <5>1. end - dg = ((at + 2 + ph) + fr) + an
          BY <4>2, <4>4
        <5>2. (((at + 2 + ph) + fr) + an) - an = (at + 2 + ph) + fr
          BY <4>2
        <5> QED
          BY <5>1, <5>2
      <4>6. /\ Values(p, at).digital = end - dg
            /\ Values(p, at).analog = Values(p, at).digital - an
        BY <4>3, <4>5
      <4>7. p.freqFloat => Values(p, at).rocof = Values(p, at).freq + 4
        BY <4>3
      <4> QED
        BY <3>3, <4>1, <4>3, <4>6, <4>7, Zenon DEF ph, an, dg, at, end
    <3> QED
      BY <3>2, <3>3
  <2> QED
    BY <1>5, <2>4, <2>5, <2>7, <2>8, <2>9 DEF IInv
<1> QED
  BY <1>7, <1>8
----------------------------------------------------------------------------
\* The strengthening of the invariants that every step preserves.
THEOREM InductiveInvariant == Spec => []IInv
<1>1. Init => IInv
  BY InitIInv
<1>2. IInv /\ [Next]_vars => IInv'
  <2> SUFFICES ASSUME IInv, [Next]_vars PROVE IInv'
    OBVIOUS
  <2>1. CASE UNCHANGED vars
    <3>1. UNCHANGED <<frame, pc, bufPos, conf, values>>
      BY <2>1 DEF vars
    <3>2. ChannelsExact'
      BY <3>1, ChannelsKept DEF IInv
    <3>3. ValuesExact'
      BY <3>1 DEF frame, IInv, ValuesExact, AlignedTo, OwnFields, PhasorsSize,
         AnalogsSize
    <3> QED
      BY <3>1, <3>2, <3>3 DEF frame, IInv, TypeOK, FrameTypeOK, DecoderTypeOK,
         Layout, Phases, AllocatedAsFirst, CursorAligned, NoOverflow, AlignedTo, NoMore
  <2>2. CASE \E p \in Pmus : EncodePmu(p)
    BY <2>2, EncodePmuIInv
  <2>3. CASE parseConfigurationFrame
    BY <2>3, ParseConfigurationIInv
  <2>4. CASE prepareConfiguration
    BY <2>4, PrepareConfigurationIInv
  <2>5. CASE parseDataFrame
    BY <2>5, ParseDataFrameIInv
  <2>6. CASE decodeData
    BY <2>6, DecodeDataIInv
  <2> QED
    BY <2>1, <2>2, <2>3, <2>4, <2>5, <2>6 DEF Next
<1> QED
  BY <1>1, <1>2, PTL DEF Spec

\* Every variable of the decoder keeps its type.
THEOREM TypeCorrect == Spec => []TypeOK
BY InductiveInvariant, PTL DEF IInv

\* The cursors of prepareConfiguration and parseDataFrame are at the blocks'
\* beginnings as long as phasors and analog values together are as many in
\* every PMU as in the first.
THEOREM CursorsAligned == Spec => []CursorAligned
BY InductiveInvariant, PTL DEF IInv

\* Names and units are those of the PMU for which preparePhsor, prepareAnalog
\* and prepareDigital read them, if its counts and format are the first one's.
THEOREM ChannelsDecoded == Spec => []ChannelsExact
BY InductiveInvariant, PTL DEF IInv

\* parseDataFrame reads each value it shows from that value's own field, and
\* stores nothing behind its arrays if no PMU has more channels of a kind than
\* the first.
THEOREM DataDecoded == Spec => []DataExact
BY InductiveInvariant, PTL DEF IInv, DataExact
----------------------------------------------------------------------------
\* Equal counts keep every cursor aligned.
LEMMA EqualCountsAligned ==
  ASSUME EqualCounts(frame), NEW k PROVE AlignedTo(k)
  BY DEF EqualCounts, SameCounts, AlignedTo, frame

\* What printDataStream and getConf_pmu_channelName print for a channel is that
\* channel's, in every frame whose PMUs have the counts of the first one,
\* whatever their formats.
THEOREM EqualPmusDecoded == Spec => [](EqualCounts(frame) => EveryPmuDecoded)
<1>1. TypeOK /\ ChannelsExact /\ EqualCounts(frame) => EveryPmuDecoded
  <2> SUFFICES ASSUME TypeOK, ChannelsExact, EqualCounts(frame),
                      NEW k \in DOMAIN conf
               PROVE  /\ conf[k].phasor = Block(sent[k], start[k]).phasor
                      /\ conf[k].analog = Block(sent[k], start[k]).analog
    BY DEF EveryPmuDecoded
  <2>1. k \in DOMAIN sent
    BY DEF TypeOK, FrameTypeOK, DecoderTypeOK
  <2>2. SameCounts(sent[k], sent[1]) /\ AlignedTo(k)
    BY <2>1, EqualCountsAligned DEF EqualCounts, frame
  <2>3. conf[k] = [Block(sent[k], start[k]) EXCEPT !.scaled = ~sent[1].phFloat]
    BY <2>2 DEF ChannelsExact
  <2> QED
    BY <2>3 DEF Block
<1> QED
  BY <1>1, TypeCorrect, ChannelsDecoded, PTL

\* What is shown as the frequency is the FREQ field in every frame whose
\* cursors stay aligned and whose PMUs all send floating point.
THEOREM FloatFrequencyShown ==
  Spec => []((/\ AlignedTo(Len(sent))
              /\ \A k \in DOMAIN sent : sent[k].freqFloat) => FrequencyShown)
<1>1. TypeOK /\ ValuesExact =>
        ((/\ AlignedTo(Len(sent))
          /\ \A k \in DOMAIN sent : sent[k].freqFloat) => FrequencyShown)
  BY DEF TypeOK, FrameTypeOK, DecoderTypeOK, ValuesExact, OwnFields, FrequencyShown
<1> QED
  BY <1>1, TypeCorrect, DataDecoded, PTL DEF DataExact
----------------------------------------------------------------------------
\* The refinement: the loops over the blocks of a frame implement taking it at
\* once.
HeldRight ==
    EqualCounts(frame) =>
        /\ pc \notin {"waiting", "configuration"} => OwnBlocks(frame, conf)
        /\ pc = "shown" => OwnValues(frame, values)
        /\ pc # "corrupt"

LEMMA DescriptionRight ==
  ASSUME IInv, pc \notin {"waiting", "configuration"}, EqualCounts(frame)
  PROVE  OwnBlocks(frame, conf)
<1>1. Len(conf) = Len(sent) /\ DOMAIN conf = DOMAIN sent
  BY DEF IInv, TypeOK, FrameTypeOK, DecoderTypeOK, Phases, States
<1>2. ASSUME NEW k \in DOMAIN sent
      PROVE  conf[k] = [Block(sent[k], start[k]) EXCEPT !.scaled = ~sent[1].phFloat]
  <2>1. SameCounts(sent[k], sent[1]) /\ AlignedTo(k)
    BY EqualCountsAligned DEF EqualCounts, frame
  <2> QED
    BY <1>1, <2>1 DEF IInv, ChannelsExact
<1> QED
  BY <1>1, <1>2 DEF OwnBlocks, frame

LEMMA ValuesRight ==
  ASSUME IInv, pc = "shown", EqualCounts(frame)
  PROVE  OwnValues(frame, values)
<1>1. DOMAIN values = DOMAIN sent
  BY DEF IInv, TypeOK, FrameTypeOK, DecoderTypeOK, Phases
<1> QED
  BY <1>1, EqualCountsAligned DEF IInv, ValuesExact, OwnValues, frame

LEMMA FirstIsNoMore ==
  ASSUME IInv, EqualCounts(frame) PROVE pc # "corrupt"
<1>1. \A k \in DOMAIN sent : NoMore(sent[k], sent[1])
  <2>1. SUFFICES ASSUME NEW k \in DOMAIN sent PROVE NoMore(sent[k], sent[1])
    OBVIOUS
  <2>2. SameCounts(sent[k], sent[1]) /\ sent[1] \in Pmus
    BY DEF EqualCounts, frame, IInv, TypeOK, FrameTypeOK
  <2> QED
    BY <2>2, PmuTypes DEF SameCounts, NoMore
<1> QED
  BY <1>1, EqualCountsAligned DEF IInv, NoOverflow

LEMMA RightHeld == IInv => HeldRight
  BY DescriptionRight, ValuesRight, FirstIsNoMore DEF HeldRight

LEMMA ContentsStep ==
  ASSUME IInv, HeldRight', Phases', TypeOK', [Next]_vars
  PROVE  [Contents!ContentsNext]_(Contents!contentsVars)
<1> USE DEF Contents!ContentsNext, Contents!contentsVars
<1>1. CASE UNCHANGED vars
  BY <1>1 DEF vars, frame
<1>2. CASE \E p \in Pmus : EncodePmu(p)
  <2>1. /\ pc = "waiting" /\ pc' = pc /\ values' = values
        /\ Len(sent') = Len(sent) + 1 /\ Len(sent) \in Nat
    BY <1>2 DEF EncodePmu, IInv, TypeOK, FrameTypeOK
  <2>2. frame' # frame
    BY <2>1 DEF frame
  <2> QED
    BY <2>1, <2>2 DEF Contents!Describe
<1>3. CASE parseConfigurationFrame
  BY <1>3 DEF parseConfigurationFrame, frame, IInv, Phases
<1>4. CASE prepareConfiguration
  <2>1. /\ pc = "configuration" /\ pc' \in {"configuration", "ready"}
        /\ frame' = frame
    BY <1>4 DEF prepareConfiguration
  <2>2. CASE pc' = "configuration"
    BY <2>1, <2>2
  <2>3. CASE pc' = "ready"
    <3>1. EqualCounts(frame) => OwnBlocks(frame, conf')
      BY <2>1, <2>3 DEF HeldRight
    <3> QED
      BY <2>1, <2>3, <3>1 DEF Contents!TakeDescription
  <2> QED
    BY <2>1, <2>2, <2>3
<1>5. CASE parseDataFrame
  <2>1. /\ pc \in {"ready", "shown"} /\ pc' \in {"shown", "data"}
        /\ values' = <<>> /\ UNCHANGED <<frame, conf>>
    BY <1>5 DEF parseDataFrame
  <2> QED
    BY <2>1 DEF Contents!Forget
<1>6. CASE decodeData
  <2>1. /\ pc = "data" /\ pc' \in {"data", "shown", "corrupt"}
        /\ UNCHANGED <<frame, conf>>
    BY <1>6 DEF decodeData
  <2>2. CASE pc' = "data"
    BY <2>1, <2>2
  <2>3. CASE pc' = "corrupt"
    <3>1. ~EqualCounts(frame)
      BY <2>1, <2>3 DEF HeldRight
    <3> QED
      BY <2>1, <2>3, <3>1 DEF Contents!Break
  <2>4. CASE pc' = "shown"
    <3>1. EqualCounts(frame) => OwnValues(frame, values')
      BY <2>1, <2>4 DEF HeldRight
    <3>2. Len(values') = Len(conf) /\ conf # <<>>
      BY <2>1, <2>4 DEF IInv, Phases, TypeOK, DecoderTypeOK
    <3> QED
      BY <2>1, <2>4, <3>1, <3>2 DEF Contents!ShowValues
  <2> QED
    BY <2>1, <2>2, <2>3, <2>4
<1> QED
  BY <1>1, <1>2, <1>3, <1>4, <1>5, <1>6 DEF Next

\* For frames whose PMUs have equal counts, prepareConfiguration and
\* parseDataFrame take each frame as a whole: FrameContents.
THEOREM DecoderImplementsContents == Spec => ImplementsContents
<1>1. Init => Contents!ContentsInit
  BY DEF Init, Contents!ContentsInit
<1>2. IInv /\ HeldRight' /\ IInv' /\ [Next]_vars =>
          [Contents!ContentsNext]_(Contents!contentsVars)
  BY ContentsStep DEF IInv
<1> QED
  BY <1>1, <1>2, RightHeld, InductiveInvariant, PTL
     DEF Spec, ImplementsContents, Contents!ContentsSpec
============================================================================
