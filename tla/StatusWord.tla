----------------------------- MODULE StatusWord -----------------------------
(***************************************************************************)
(* What the client keeps of the status that comes with the data of one     *)
(* PMU, from frame to frame: the STAT word (parseSTATWord), the words of   *)
(* the digital inputs (the last loop of parseDataFrame) and the quality of *)
(* the time stamp (parseTimeStamp).  All three write into a structure that *)
(* still holds what earlier frames left there; only a new configuration    *)
(* starts from zeros, and the quality of the time stamp not even then.     *)
(*                                                                         *)
(* A 16-bit word is the set of the numbers of its bits that are 1.         *)
(***************************************************************************)
EXTENDS Integers

CONSTANTS
    StatWords,      \* the STAT words a PMU sends
    DigitalWords,   \* the words of its digital inputs
    TimeCodes       \* the codes of the quality of its time, four bits

Word == SUBSET (0 .. 15)

ASSUME StatusAssumption ==
    /\ StatWords \subseteq Word
    /\ DigitalWords \subseteq Word
    /\ TimeCodes \subseteq 0 .. 15

VARIABLES
    conf,      \* self->configuration is not NULL
    stat,      \* what parseSTATWord keeps
    digital,   \* the inputs k with channel[k].status
    quality,   \* dataTimeStamp.quality
    last,      \* history: the STAT word of the last frame decoded
    seen,      \* history: bits of STAT that were 1 since the configuration
    inputs,    \* history: inputs that were 1 since the configuration
    codes      \* history: the last time code that said locked or not locked,
               \* and the last that gave an error; -1 for none

history == <<last, seen, inputs, codes>>
vars    == <<conf, stat, digital, quality, history>>

\* word >> n, and word & mask stored in a uint8_t.
Shift(word, n) == {b - n : b \in {b \in word : b >= n}}
Uint8(word)    == word \cap (0 .. 7)

\* A freshly allocated struct sConfiguration.
ZeroStat == [triggerReason |-> {}, unlockTime |-> {}, pmuTimeQuality |-> {},
             dataError |-> {}, dataModified |-> FALSE, configToChange |-> FALSE,
             pmuIsTriggered |-> FALSE, dataSortingByArrivalorTime |-> FALSE,
             pmuIsNOTSync |-> FALSE]

Init ==
    /\ conf = FALSE
    /\ stat = ZeroStat
    /\ digital = {}
    /\ quality = [timeIsLocked |-> FALSE, timeError |-> 0]
    /\ last = {} /\ seen = {} /\ inputs = {}
    /\ codes = [lock |-> -1, error |-> -1]

\* A new configuration is installed: calloc's zeros, for the channels too.
getConfiguration ==
    /\ conf' = TRUE
    /\ stat' = ZeroStat
    /\ digital' = {}
    /\ last' = {} /\ seen' = {} /\ inputs' = {}
    /\ UNCHANGED <<quality, codes>>

\* Mutant of parseSTATWord: one shift too far before the flags.
parseSTATWordShifted(w) ==
    [triggerReason |-> Uint8(w \cap {0, 4, 8, 12}),
     unlockTime |-> Uint8(Shift(w, 4) \cap {0, 4}),
     pmuTimeQuality |-> Uint8(Shift(w, 6) \cap {0, 4, 8}),
     dataModified |-> stat.dataModified \/ 0 \in Shift(w, 10),
     configToChange |-> stat.configToChange \/ 0 \in Shift(w, 11),
     pmuIsTriggered |-> stat.pmuIsTriggered \/ 0 \in Shift(w, 12),
     dataSortingByArrivalorTime |-> stat.dataSortingByArrivalorTime \/ 0 \in Shift(w, 13),
     pmuIsNOTSync |-> stat.pmuIsNOTSync \/ 0 \in Shift(w, 14),
     dataError |-> Uint8(Shift(w, 15) \cap {0, 4})]

\* The masks 0x1111, 0x11 and 0x111 are hexadecimal; a flag is set when its bit
\* is and is never cleared.
parseSTATWord(w) ==
    [triggerReason |-> Uint8(w \cap {0, 4, 8, 12}),
     unlockTime |-> Uint8(Shift(w, 4) \cap {0, 4}),
     pmuTimeQuality |-> Uint8(Shift(w, 6) \cap {0, 4, 8}),
     dataModified |-> stat.dataModified \/ 0 \in Shift(w, 9),
     configToChange |-> stat.configToChange \/ 0 \in Shift(w, 10),
     pmuIsTriggered |-> stat.pmuIsTriggered \/ 0 \in Shift(w, 11),
     dataSortingByArrivalorTime |-> stat.dataSortingByArrivalorTime \/ 0 \in Shift(w, 12),
     pmuIsNOTSync |-> stat.pmuIsNOTSync \/ 0 \in Shift(w, 13),
     dataError |-> Uint8(Shift(w, 14) \cap {0, 4})]

\* The status of an input is set when its bit is 1 and never cleared.
setDigital(w) == digital \cup w

\* Mutant of parseTimeStamp: no special codes but 0xF.
parseTimeStampPlain(code) ==
    [timeIsLocked |-> code # 15, timeError |-> code]

\* The switch over the code: 0xC to 0xE change nothing, 0x1 to 0xB only the
\* error, 10^(code - 10) seconds, and 0xF only the lock.  The error is kept by
\* its code, 0 for an error of 0.
parseTimeStamp(code) ==
    [timeIsLocked |-> CASE code = 0  -> TRUE
                        [] code = 15 -> FALSE
                        [] OTHER     -> quality.timeIsLocked,
     timeError    |-> IF code \in 0 .. 11 THEN code ELSE quality.timeError]

\* A data frame that parseDataFrame accepts; without a configuration only its
\* time stamp is decoded.
getDataStream(w, d, code) ==
    /\ quality' = parseTimeStamp(code)
    /\ codes' = [lock  |-> IF code \in {0, 15} THEN code ELSE codes.lock,
                 error |-> IF code \in 0 .. 11 THEN code ELSE codes.error]
    /\ IF conf
       THEN /\ stat' = parseSTATWord(w)
            /\ digital' = setDigital(d)
            /\ last' = w
            /\ seen' = seen \cup w
            /\ inputs' = inputs \cup d
       ELSE UNCHANGED <<stat, digital, last, seen, inputs>>
    /\ UNCHANGED conf

Next ==
    \/ getConfiguration
    \/ \E w \in StatWords, d \in DigitalWords, code \in TimeCodes :
            getDataStream(w, d, code)

Spec == Init /\ [][Next]_vars
------------------------------------------------------------------------------
(* Properties.                                                             *)

\* The type invariant.
TypeOK ==
    /\ conf \in BOOLEAN
    /\ stat \in [triggerReason : Word, unlockTime : Word, pmuTimeQuality : Word,
                 dataError : Word, dataModified : BOOLEAN,
                 configToChange : BOOLEAN, pmuIsTriggered : BOOLEAN,
                 dataSortingByArrivalorTime : BOOLEAN, pmuIsNOTSync : BOOLEAN]
    /\ digital \in Word
    /\ quality \in [timeIsLocked : BOOLEAN, timeError : 0 .. 11]
    /\ last \in Word /\ seen \in Word /\ inputs \in Word
    /\ codes \in [lock : {-1, 0, 15}, error : -1 .. 11]

\* src/src/ieeeC37_118/ieeeC37_118.h:103-107 explains each flag by the frame it
\* came with: "False = No Trigger", "False = Otherwise", "clear to 0 when change
\* effected"; printDataStream shows them as "Status of Data Frame"
\* (src/src/ieeeC37_118/ieeeC37_118.c:1289).
FlagsDescribeFrame ==
    /\ stat.dataModified   = (9 \in last)
    /\ stat.configToChange = (10 \in last)
    /\ stat.pmuIsTriggered = (11 \in last)
    /\ stat.dataSortingByArrivalorTime = (12 \in last)
    /\ stat.pmuIsNOTSync   = (13 \in last)

\* What they are instead: each flag and each digital input is the or of its bit
\* over all frames since the configuration, of no other bit and of no frame
\* before the configuration.
FlagsAccumulate ==
    /\ stat.dataModified   = (9 \in seen)
    /\ stat.configToChange = (10 \in seen)
    /\ stat.pmuIsTriggered = (11 \in seen)
    /\ stat.dataSortingByArrivalorTime = (12 \in seen)
    /\ stat.pmuIsNOTSync   = (13 \in seen)
    /\ digital = inputs

\* What the numeric fields are good for: a field shows the code of the last
\* frame exactly when no bit is set that its mask loses or takes from another
\* field.
FieldsReadable ==
    /\ stat.triggerReason  = last \cap (0 .. 3) <=> last \cap {1, 2, 3, 4} = {}
    /\ stat.unlockTime     = Shift(last, 4) \cap (0 .. 1) <=> last \cap {5, 8} = {}
    /\ stat.pmuTimeQuality = Shift(last, 6) \cap (0 .. 2) <=> last \cap {7, 8, 10} = {}
    /\ stat.dataError      = Shift(last, 14) <=> 15 \notin last

\* The clock is shown as locked exactly when the last frame with code 0 came
\* after the last with code 0xF; a code for a bounded error does not unlock it.
LockIsLastVerdict ==
    /\ quality.timeIsLocked = (codes.lock = 0)
    /\ quality.timeError = IF codes.error = -1 THEN 0 ELSE codes.error

\* src/src/ieeeC37_118/ieeeC37_118.h:17-20 lists four values of dataError, the
\* four codes of bits 15 and 14 of STAT.
DataErrorKept == stat.dataError = Shift(last, 14)
==============================================================================
