-------------------------- MODULE StatusWordProofs --------------------------
(***************************************************************************)
(* Theorems of StatusWord, for every set of STAT words, words of digital   *)
(* inputs and codes of the time quality.                                   *)
(***************************************************************************)
EXTENDS StatusWord, TLAPS

\* Before the first frame of a configuration the fields are the calloc's zeros,
\* after it they are those of the last word: the strengthening of FieldsReadable.
FieldsFromLast ==
    /\ stat.triggerReason  = Uint8(last \cap {0, 4, 8, 12})
    /\ stat.unlockTime     = Uint8(Shift(last, 4) \cap {0, 4})
    /\ stat.pmuTimeQuality = Uint8(Shift(last, 6) \cap {0, 4, 8})
    /\ stat.dataError      = Uint8(Shift(last, 14) \cap {0, 4})

IInv == /\ TypeOK
        /\ FlagsAccumulate /\ last \subseteq seen
        /\ FieldsFromLast
        /\ LockIsLastVerdict

Fields == [triggerReason : Word, unlockTime : Word, pmuTimeQuality : Word,
           dataError : Word, dataModified : BOOLEAN,
           configToChange : BOOLEAN, pmuIsTriggered : BOOLEAN,
           dataSortingByArrivalorTime : BOOLEAN, pmuIsNOTSync : BOOLEAN]
----------------------------------------------------------------------------
LEMMA ShiftIn ==
  ASSUME NEW w \in Word, NEW n \in 0 .. 15, NEW b \in Int
  PROVE  b \in Shift(w, n) <=> b >= 0 /\ b + n \in w
<1>1. ASSUME b \in Shift(w, n) PROVE b >= 0 /\ b + n \in w
  <2>1. PICK c \in w : c >= n /\ b = c - n
    BY <1>1 DEF Shift
  <2>2. c \in Int
    BY DEF Word
  <2> QED
    BY <2>1, <2>2
<1>2. ASSUME b >= 0, b + n \in w PROVE b \in Shift(w, n)
  <2>1. b + n >= n /\ b = (b + n) - n
    BY <1>2
  <2> QED
    BY <1>2, <2>1 DEF Shift
<1> QED
  BY <1>1, <1>2

LEMMA ShiftWord ==
  ASSUME NEW w \in Word, NEW n \in 0 .. 15
  PROVE  Shift(w, n) \in Word
<1>1. ASSUME NEW b \in Shift(w, n) PROVE b \in 0 .. 15
  <2>1. PICK c \in w : c >= n /\ b = c - n
    BY DEF Shift
  <2>2. c \in 0 .. 15
    BY DEF Word
  <2> QED
    BY <2>1, <2>2
<1> QED
  BY <1>1 DEF Word

LEMMA Uint8Word == ASSUME NEW w \in Word, NEW m PROVE Uint8(w \cap m) \in Word
  BY DEF Uint8, Word

\* The record parseSTATWord returns, field by field.
LEMMA ParseFields ==
  ASSUME TypeOK, NEW w \in Word
  PROVE  LET p == parseSTATWord(w)
         IN  /\ p \in Fields
             /\ p.triggerReason  = Uint8(w \cap {0, 4, 8, 12})
             /\ p.unlockTime     = Uint8(Shift(w, 4) \cap {0, 4})
             /\ p.pmuTimeQuality = Uint8(Shift(w, 6) \cap {0, 4, 8})
             /\ p.dataError      = Uint8(Shift(w, 14) \cap {0, 4})
             /\ p.dataModified   = (stat.dataModified \/ 9 \in w)
             /\ p.configToChange = (stat.configToChange \/ 10 \in w)
             /\ p.pmuIsTriggered = (stat.pmuIsTriggered \/ 11 \in w)
             /\ p.dataSortingByArrivalorTime
                                 = (stat.dataSortingByArrivalorTime \/ 12 \in w)
             /\ p.pmuIsNOTSync   = (stat.pmuIsNOTSync \/ 13 \in w)
<1>1. \A n \in 0 .. 15 : 0 \in Shift(w, n) <=> n \in w
  <2>1. \A n \in 0 .. 15 : 0 + n = n
    OBVIOUS
  <2> QED
    BY <2>1, ShiftIn
<1>2. stat \in Fields
  BY DEF TypeOK, Fields
<1>3. \A n \in 0 .. 15 : Shift(w, n) \in Word
  BY ShiftWord
<1>4. \A v \in Word : \A m : Uint8(v \cap m) \in Word
  BY Uint8Word
<1>5. /\ Uint8(w \cap {0, 4, 8, 12}) \in Word
      /\ Uint8(Shift(w, 4) \cap {0, 4}) \in Word
      /\ Uint8(Shift(w, 6) \cap {0, 4, 8}) \in Word
      /\ Uint8(Shift(w, 14) \cap {0, 4}) \in Word
  <2>1. 4 \in 0 .. 15 /\ 6 \in 0 .. 15 /\ 14 \in 0 .. 15
    OBVIOUS
  <2> QED
    BY <1>3, <1>4, <2>1
<1>6. /\ (0 \in Shift(w, 9)) = (9 \in w)   /\ (0 \in Shift(w, 10)) = (10 \in w)
      /\ (0 \in Shift(w, 11)) = (11 \in w) /\ (0 \in Shift(w, 12)) = (12 \in w)
      /\ (0 \in Shift(w, 13)) = (13 \in w)
  <2>1. /\ 9 \in 0 .. 15 /\ 10 \in 0 .. 15 /\ 11 \in 0 .. 15
        /\ 12 \in 0 .. 15 /\ 13 \in 0 .. 15
    OBVIOUS
  <2> QED
    BY <1>1, <2>1
<1>7. parseSTATWord(w) \in Fields
  BY <1>2, <1>5, Zenon DEF parseSTATWord, Fields
<1>8. LET p == parseSTATWord(w)
      IN  /\ p.triggerReason  = Uint8(w \cap {0, 4, 8, 12})
          /\ p.unlockTime     = Uint8(Shift(w, 4) \cap {0, 4})
          /\ p.pmuTimeQuality = Uint8(Shift(w, 6) \cap {0, 4, 8})
          /\ p.dataError      = Uint8(Shift(w, 14) \cap {0, 4})
          /\ p.dataModified   = (stat.dataModified \/ 0 \in Shift(w, 9))
          /\ p.configToChange = (stat.configToChange \/ 0 \in Shift(w, 10))
          /\ p.pmuIsTriggered = (stat.pmuIsTriggered \/ 0 \in Shift(w, 11))
          /\ p.dataSortingByArrivalorTime
                              = (stat.dataSortingByArrivalorTime \/ 0 \in Shift(w, 12))
          /\ p.pmuIsNOTSync   = (stat.pmuIsNOTSync \/ 0 \in Shift(w, 13))
  BY Zenon DEF parseSTATWord
<1> QED
  BY <1>6, <1>7, <1>8, Zenon

\* The quality of the time stamp after one more code.
LEMMA ParseTime ==
  ASSUME TypeOK, LockIsLastVerdict, NEW code \in 0 .. 15,
         quality' = parseTimeStamp(code),
         codes' = [lock  |-> IF code \in {0, 15} THEN code ELSE codes.lock,
                   error |-> IF code \in 0 .. 11 THEN code ELSE codes.error]
  PROVE  /\ quality' \in [timeIsLocked : BOOLEAN, timeError : 0 .. 11]
         /\ codes' \in [lock : {-1, 0, 15}, error : -1 .. 11]
         /\ LockIsLastVerdict'
<1>1. /\ quality \in [timeIsLocked : BOOLEAN, timeError : 0 .. 11]
      /\ codes \in [lock : {-1, 0, 15}, error : -1 .. 11]
  BY DEF TypeOK
<1>2. codes' \in [lock : {-1, 0, 15}, error : -1 .. 11]
  BY <1>1
<1>3. quality'.timeError = IF code \in 0 .. 11 THEN code ELSE quality.timeError
  BY DEF parseTimeStamp
<1>4. quality'.timeIsLocked = CASE code = 0  -> TRUE
                                [] code = 15 -> FALSE
                                [] OTHER     -> quality.timeIsLocked
  BY DEF parseTimeStamp
<1>5. quality' \in [timeIsLocked : BOOLEAN, timeError : 0 .. 11]
  BY <1>1 DEF parseTimeStamp
<1>6. quality'.timeIsLocked = (codes'.lock = 0)
  <2>1. codes'.lock = IF code \in {0, 15} THEN code ELSE codes.lock
    OBVIOUS
  <2>2. quality.timeIsLocked = (codes.lock = 0)
    BY DEF LockIsLastVerdict
  <2>3. CASE code = 0
    <3>1. (codes'.lock = 0) = TRUE /\ code # 15
      BY <2>1, <2>3
    <3> QED
      BY <1>4, <2>3, <3>1, Zenon
  <2>4. CASE code = 15
    <3>1. (codes'.lock = 0) = FALSE /\ code # 0
      BY <2>1, <2>4
    <3> QED
      BY <1>4, <2>4, <3>1, Zenon
  <2>5. CASE code \notin {0, 15}
    <3>1. quality'.timeIsLocked = quality.timeIsLocked /\ codes'.lock = codes.lock
      BY <1>4, <2>1, <2>5, Zenon
    <3> QED
      BY <2>2, <3>1, Zenon
  <2> QED
    BY <2>3, <2>4, <2>5
<1>7. quality'.timeError = IF codes'.error = -1 THEN 0 ELSE codes'.error
  BY <1>1, <1>3 DEF LockIsLastVerdict
<1> QED
  BY <1>2, <1>5, <1>6, <1>7 DEF LockIsLastVerdict
----------------------------------------------------------------------------
LEMMA NoneSeen == \A b : (b \in {}) = FALSE
  OBVIOUS

LEMMA ZeroFlags ==
  /\ ZeroStat.dataModified = FALSE /\ ZeroStat.configToChange = FALSE
  /\ ZeroStat.pmuIsTriggered = FALSE /\ ZeroStat.pmuIsNOTSync = FALSE
  /\ ZeroStat.dataSortingByArrivalorTime = FALSE
  BY Zenon DEF ZeroStat

LEMMA ZeroFields ==
  /\ ZeroStat \in Fields
  /\ Uint8({} \cap {0, 4, 8, 12}) = {} /\ Uint8(Shift({}, 4) \cap {0, 4}) = {}
  /\ Uint8(Shift({}, 6) \cap {0, 4, 8}) = {} /\ Uint8(Shift({}, 14) \cap {0, 4}) = {}
  BY DEF ZeroStat, Fields, Word, Uint8, Shift

LEMMA InitIInv == Init => IInv
<1> SUFFICES ASSUME Init PROVE IInv
  OBVIOUS
<1>1. stat = ZeroStat /\ last = {} /\ seen = {} /\ inputs = {} /\ digital = {}
  BY DEF Init
<1>2. TypeOK
  <2>1. quality \in [timeIsLocked : BOOLEAN, timeError : 0 .. 11]
    BY DEF Init
  <2>2. codes \in [lock : {-1, 0, 15}, error : -1 .. 11]
    BY DEF Init
  <2>3. stat \in Fields
    BY <1>1, ZeroFields
  <2> QED
    BY <1>1, <2>1, <2>2, <2>3 DEF Init, TypeOK, Fields, Word
<1>3. FlagsAccumulate
  BY <1>1, ZeroFlags, NoneSeen, Zenon DEF FlagsAccumulate
<1>4. FieldsFromLast
  BY <1>1, ZeroFields DEF FieldsFromLast, ZeroStat
<1>5. LockIsLastVerdict
  <2>1. quality.timeIsLocked = FALSE /\ quality.timeError = 0
    BY Zenon DEF Init
  <2>2. codes.lock = -1 /\ codes.error = -1
    BY DEF Init
  <2>3. codes.lock # 0
    BY <2>2
  <2> QED
    BY <2>1, <2>2, <2>3, Zenon DEF LockIsLastVerdict
<1> QED
  BY <1>1, <1>2, <1>3, <1>4, <1>5 DEF IInv

LEMMA ConfigurationIInv == IInv /\ getConfiguration => IInv'
<1> SUFFICES ASSUME IInv, getConfiguration PROVE IInv'
  OBVIOUS
<1>1. /\ stat' = ZeroStat /\ last' = {} /\ seen' = {} /\ inputs' = {}
      /\ digital' = {} /\ conf' = TRUE /\ UNCHANGED <<quality, codes>>
  BY DEF getConfiguration
<1>2. TypeOK'
  BY <1>1, ZeroFields DEF IInv, TypeOK, Fields, Word
<1>3. FlagsAccumulate'
  BY <1>1, ZeroFlags, NoneSeen, Zenon DEF FlagsAccumulate
<1>4. FieldsFromLast'
  BY <1>1, ZeroFields DEF FieldsFromLast, ZeroStat
<1>5. LockIsLastVerdict'
  BY <1>1 DEF IInv, LockIsLastVerdict
<1> QED
  BY <1>1, <1>2, <1>3, <1>4, <1>5 DEF IInv

LEMMA DataIInv ==
  ASSUME IInv, NEW w \in StatWords, NEW d \in DigitalWords, NEW code \in TimeCodes,
         getDataStream(w, d, code)
  PROVE  IInv'
<1>1. w \in Word /\ d \in Word /\ code \in 0 .. 15
  BY StatusAssumption
<1>2. /\ quality' \in [timeIsLocked : BOOLEAN, timeError : 0 .. 11]
      /\ codes' \in [lock : {-1, 0, 15}, error : -1 .. 11]
      /\ LockIsLastVerdict'
  BY <1>1, ParseTime DEF IInv, getDataStream
<1>3. TypeOK /\ FlagsAccumulate /\ last \subseteq seen /\ FieldsFromLast
  BY DEF IInv
<1>4. CASE ~conf
  <2>1. UNCHANGED <<conf, stat, digital, last, seen, inputs>>
    BY <1>4 DEF getDataStream
  <2> QED
    BY <1>2, <1>3, <2>1 DEF IInv, TypeOK, FlagsAccumulate, FieldsFromLast
<1>5. CASE conf
  <2>1. /\ stat' = parseSTATWord(w) /\ digital' = digital \cup d
        /\ last' = w /\ seen' = seen \cup w /\ inputs' = inputs \cup d
        /\ conf' = conf
    BY <1>5 DEF getDataStream, setDigital
  <2>2. stat' \in Fields
    BY <1>1, <1>3, <2>1, ParseFields
  <2>3. TypeOK'
    BY <1>1, <1>2, <1>3, <2>1, <2>2 DEF TypeOK, Fields, Word
  <2>4. FieldsFromLast'
    BY <1>1, <1>3, <2>1, ParseFields DEF FieldsFromLast
  <2>5. /\ stat'.dataModified   = (stat.dataModified \/ 9 \in w)
        /\ stat'.configToChange = (stat.configToChange \/ 10 \in w)
        /\ stat'.pmuIsTriggered = (stat.pmuIsTriggered \/ 11 \in w)
        /\ stat'.dataSortingByArrivalorTime
                                = (stat.dataSortingByArrivalorTime \/ 12 \in w)
        /\ stat'.pmuIsNOTSync   = (stat.pmuIsNOTSync \/ 13 \in w)
    BY <1>1, <1>3, <2>1, ParseFields
  <2>6. FlagsAccumulate'
    <3>1. seen' = seen \cup w /\ digital' = inputs'
      BY <1>3, <2>1 DEF FlagsAccumulate
    <3>2. /\ (9 \in seen')  = (9 \in seen \/ 9 \in w)
          /\ (10 \in seen') = (10 \in seen \/ 10 \in w)
          /\ (11 \in seen') = (11 \in seen \/ 11 \in w)
          /\ (12 \in seen') = (12 \in seen \/ 12 \in w)
          /\ (13 \in seen') = (13 \in seen \/ 13 \in w)
      BY <3>1
    <3> QED
      BY <1>3, <2>5, <3>1, <3>2, Zenon DEF FlagsAccumulate
  <2> QED
    BY <1>2, <1>3, <2>1, <2>3, <2>4, <2>6 DEF IInv
<1> QED
  BY <1>4, <1>5

THEOREM InductiveInvariant == Spec => []IInv
<1>1. IInv /\ UNCHANGED vars => IInv'
  BY DEF IInv, TypeOK, FlagsAccumulate, FieldsFromLast, LockIsLastVerdict,
         vars, history
<1>2. IInv /\ [Next]_vars => IInv'
  BY <1>1, ConfigurationIInv, DataIInv DEF Next
<1> QED
  BY InitIInv, <1>2, PTL DEF Spec
----------------------------------------------------------------------------
\* Every part of the status keeps its type, for every word sent.
THEOREM TypeCorrect == Spec => []TypeOK
<1>1. IInv => TypeOK
  BY DEF IInv
<1> QED
  BY <1>1, InductiveInvariant, PTL

\* What the flags and the digital inputs are instead of the last frame's: the or
\* of all words since the configuration, whatever the words are.
THEOREM FlagsOnlyAccumulate == Spec => []FlagsAccumulate
<1>1. IInv => FlagsAccumulate
  BY DEF IInv
<1> QED
  BY <1>1, InductiveInvariant, PTL

\* The flags describe the frame they are shown with exactly as long as the last
\* word still raises every flag that any word raised since the configuration:
\* one frame that clears a flag makes the status wrong until the next
\* configuration, whatever follows but that flag itself.
THEOREM FlagsDescribeUntilOneClears ==
  Spec => [](FlagsDescribeFrame <=> seen \cap (9 .. 13) \subseteq last)
<1>1. IInv => (FlagsDescribeFrame <=> seen \cap (9 .. 13) \subseteq last)
  <2> SUFFICES ASSUME IInv
               PROVE  FlagsDescribeFrame <=> seen \cap (9 .. 13) \subseteq last
    OBVIOUS
  <2>1. FlagsAccumulate /\ last \subseteq seen
    BY DEF IInv
  <2>2. FlagsDescribeFrame <=> \A b \in {9, 10, 11, 12, 13} : (b \in seen) = (b \in last)
    BY <2>1, Zenon DEF FlagsAccumulate, FlagsDescribeFrame
  <2>3. 9 .. 13 = {9, 10, 11, 12, 13}
    OBVIOUS
  <2> QED
    BY <2>1, <2>2, <2>3
<1> QED
  BY <1>1, InductiveInvariant, PTL

\* The lock shown is that of the last code that gives one, and the error that
\* of the last code that gives one.
THEOREM LockFollowsLastVerdict == Spec => []LockIsLastVerdict
<1>1. IInv => LockIsLastVerdict
  BY DEF IInv
<1> QED
  BY <1>1, InductiveInvariant, PTL

\* Which bits of the last word are in a field, bit by bit.
LEMMA FieldBits ==
  ASSUME TypeOK, FieldsFromLast
  PROVE  /\ \A b \in 0 .. 15 : b \in stat.triggerReason  <=> b \in {0, 4} /\ b \in last
         /\ \A b \in 0 .. 15 : b \in stat.unlockTime     <=> b \in {0, 4} /\ b + 4 \in last
         /\ \A b \in 0 .. 15 : b \in stat.pmuTimeQuality <=> b \in {0, 4} /\ b + 6 \in last
         /\ \A b \in 0 .. 15 : b \in stat.dataError      <=> b = 0 /\ b + 14 \in last
<1>1. last \in Word /\ \A b \in last : b \in 0 .. 15
  BY DEF TypeOK, Word
<1>2. \A n \in {4, 6, 14}, b \in 0 .. 15 : b \in Shift(last, n) <=> b + n \in last
  BY <1>1, ShiftIn
<1> QED
  BY <1>1, <1>2 DEF FieldsFromLast, Uint8

\* For every word, the fields are its own exactly as long as no bit is set that
\* the masks lose or take from a neighbour.
THEOREM FieldsAreReadable == Spec => []FieldsReadable
<1>1. IInv => FieldsReadable
  <2> SUFFICES ASSUME IInv PROVE FieldsReadable
    OBVIOUS
  <2>1. last \in Word /\ stat \in Fields /\ TypeOK /\ FieldsFromLast
    BY DEF IInv, TypeOK, Fields
  <2>2. \A n \in {4, 6, 14}, b \in Int : b \in Shift(last, n) <=> b >= 0 /\ b + n \in last
    BY <2>1, ShiftIn
  <2>3. \A n \in {4, 6, 14} : Shift(last, n) \in Word
    BY <2>1, ShiftWord
  <2>4. /\ \A b \in last : b \in 0 .. 15
        /\ \A n \in {4, 6, 14} : \A b \in Shift(last, n) : b \in 0 .. 15
        /\ \A b \in stat.triggerReason : b \in 0 .. 15
        /\ \A b \in stat.unlockTime : b \in 0 .. 15
        /\ \A b \in stat.pmuTimeQuality : b \in 0 .. 15
        /\ \A b \in stat.dataError : b \in 0 .. 15
    BY <2>1, <2>3 DEF Word, Fields
  <2>5. stat.triggerReason = last \cap (0 .. 3) <=> last \cap {1, 2, 3, 4} = {}
    BY <2>1, <2>4, FieldBits
  <2>6. stat.unlockTime = Shift(last, 4) \cap (0 .. 1) <=> last \cap {5, 8} = {}
    <3> DEFINE shown == Shift(last, 4) \cap (0 .. 1)
    <3>1. \A b \in 0 .. 15 : b \in shown <=> b \in {0, 1} /\ b + 4 \in last
      BY <2>2
    <3>2. \A b \in shown : b \in 0 .. 15
      BY <2>4
    <3> HIDE DEF shown
    <3>3. stat.unlockTime = shown <=>
              \A b \in 0 .. 15 : b \in stat.unlockTime <=> b \in shown
      BY <2>4, <3>2
    <3>4. (\A b \in 0 .. 15 : b \in stat.unlockTime <=> b \in shown)
              <=> 5 \notin last /\ 8 \notin last
      BY <2>1, <3>1, FieldBits
    <3> QED
      BY <3>3, <3>4 DEF shown
  <2>7. stat.pmuTimeQuality = Shift(last, 6) \cap (0 .. 2) <=> last \cap {7, 8, 10} = {}
    <3> DEFINE shown == Shift(last, 6) \cap (0 .. 2)
    <3>1. \A b \in 0 .. 15 : b \in shown <=> b \in {0, 1, 2} /\ b + 6 \in last
      BY <2>2
    <3>2. \A b \in shown : b \in 0 .. 15
      BY <2>4
    <3> HIDE DEF shown
    <3>3. stat.pmuTimeQuality = shown <=>
              \A b \in 0 .. 15 : b \in stat.pmuTimeQuality <=> b \in shown
      BY <2>4, <3>2
    <3>4. (\A b \in 0 .. 15 : b \in stat.pmuTimeQuality <=> b \in shown)
              <=> 7 \notin last /\ 8 \notin last /\ 10 \notin last
      BY <2>1, <3>1, FieldBits
    <3> QED
      BY <3>3, <3>4 DEF shown
  <2>8. stat.dataError = Shift(last, 14) <=> 15 \notin last
    <3> DEFINE shown == Shift(last, 14)
    <3>1. \A b \in 0 .. 15 : b \in shown <=> b \in {0, 1} /\ b + 14 \in last
      BY <2>2, <2>4
    <3>2. \A b \in shown : b \in 0 .. 15
      BY <2>4
    <3> HIDE DEF shown
    <3>3. stat.dataError = shown <=>
              \A b \in 0 .. 15 : b \in stat.dataError <=> b \in shown
      BY <2>4, <3>2
    <3>4. (\A b \in 0 .. 15 : b \in stat.dataError <=> b \in shown) <=> 15 \notin last
      BY <2>1, <3>1, FieldBits
    <3> QED
      BY <3>3, <3>4 DEF shown
  <2> QED
    BY <2>5, <2>6, <2>7, <2>8 DEF FieldsReadable
<1> QED
  BY <1>1, InductiveInvariant, PTL

\* Of the four codes of dataError that ieeeC37_118.h lists, exactly the two
\* without bit 15, of any PMU and after any earlier frames, reach the client.
THEOREM DataErrorLosesBit15 == Spec => [](DataErrorKept <=> 15 \notin last)
<1>1. FieldsReadable => (DataErrorKept <=> 15 \notin last)
  BY DEF FieldsReadable, DataErrorKept
<1> QED
  BY <1>1, FieldsAreReadable, PTL
=============================================================================
