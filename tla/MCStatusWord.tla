---------------------------- MODULE MCStatusWord ----------------------------
(***************************************************************************)
(* Words for StatusWord: every bit of STAT is 1 in one of them, the bits   *)
(* that a mask confuses or loses are in different ones, and there is one   *)
(* code of each kind.                                                      *)
(***************************************************************************)
EXTENDS StatusWord

MCStatWords == {{}, {0, 2}, {1, 3}, {4, 15}, {5, 8}, {6, 12}, {7, 9}, {10, 14}, {11, 13}}
MCDigitalWords == {{}, {0, 15}}
MCTimeCodes == {0, 7, 13, 15}

OneWord == {{}, {15}}

\* A PMU that raises all flags in some frames and none in others.
FlagWords == {{}, 9 .. 13}
==============================================================================
