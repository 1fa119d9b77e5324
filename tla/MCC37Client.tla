----------------------------- MODULE MCC37Client -----------------------------
(***************************************************************************)
(* Small instances of C37Client.  A configuration frame is longer than a   *)
(* data frame, a change of configuration changes the lengths, and the      *)
(* buffer holds one frame and the beginning of the next.                   *)
(***************************************************************************)
EXTENDS C37Client

\* 70000 does not fit self->idcode: the client asks for 70000 - 65536.
MCPmuIdCode == 70000
MCServerIds == {4464, 7}

\* The frames of the versions, in units of a few bytes.  A second PMU makes the
\* configuration frame longer; a server left without PMUs announces none.
MCCfgLen  == [v \in 0 .. MaxVersion |-> IF v = 1 THEN 4 ELSE 3]
MCDataLen == [v \in 0 .. MaxVersion |-> 2]
MCNumPmu  == [v \in 0 .. MaxVersion |-> IF v = 2 THEN 0 ELSE v + 1]
=============================================================================
