------------------------------ MODULE MCConnect ------------------------------
(***************************************************************************)
(* Small instances of Connect: integers of five bits in place of 32.       *)
(***************************************************************************)
EXTENDS Connect

MCPow == [c \in 0 .. MaxCount |-> 2 ^ c]
MCTimeouts == {3, 4}
==============================================================================
