--------------------------- MODULE MCReceiverLoop ---------------------------
(***************************************************************************)
(* One PMU or two: the array of a new configuration is longer than the one *)
(* before or shorter, and before the first there is none.                  *)
(***************************************************************************)
EXTENDS ReceiverLoop

MCPmus == {1, 2}
=============================================================================
