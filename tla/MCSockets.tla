------------------------------ MODULE MCSockets ------------------------------
(***************************************************************************)
(* Two servers and a connection, so that the descriptor of one may go to   *)
(* another while a call on the first is on its way.                        *)
(***************************************************************************)
EXTENDS Sockets, TLC

CONSTANTS s1, s2, c1

MCServer == {s1, s2}
MCConn   == {c1}
Symmetric == Permutations(MCServer)
==============================================================================
