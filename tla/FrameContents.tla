--------------------------- MODULE FrameContents ---------------------------
(***************************************************************************)
(* What the decoder of a client promises, however it goes through a frame: *)
(* a description of the PMUs is taken whole and kept, the values of a data *)
(* frame are shown whole, and both are what the frame says, as long as the *)
(* frame is of the kind that the promise is for.                           *)
(***************************************************************************)
EXTENDS Naturals, Sequences

CONSTANTS
    Promised(_),      \* the frames the promise is for
    Describes(_, _),  \* a description of the PMUs is that of a frame
    FromFields(_, _)  \* values come from the fields of a frame

VARIABLES
    frame,   \* the PMUs the server has
    held,    \* the description held, <<>> before there is one
    shown,   \* the values shown, <<>> for none
    broken   \* memory has been written over

contentsVars == <<frame, held, shown, broken>>

ContentsInit == held = <<>> /\ shown = <<>> /\ broken = FALSE

\* The server may describe more PMUs until the client holds the description.
Describe ==
    /\ held = <<>>
    /\ frame' # frame
    /\ UNCHANGED <<held, shown, broken>>

TakeDescription ==
    /\ held = <<>>
    /\ Promised(frame) => Describes(frame, held')
    /\ UNCHANGED <<frame, shown, broken>>

ShowValues ==
    /\ held # <<>>
    /\ shown = <<>>
    /\ Len(shown') = Len(held)
    /\ Promised(frame) => FromFields(frame, shown')
    /\ UNCHANGED <<frame, held, broken>>

Forget == shown' = <<>> /\ UNCHANGED <<frame, held, broken>>

Break ==
    /\ ~Promised(frame)
    /\ broken' = TRUE
    /\ UNCHANGED <<frame, held, shown>>

ContentsNext == Describe \/ TakeDescription \/ ShowValues \/ Forget \/ Break

ContentsSpec == ContentsInit /\ [][ContentsNext]_contentsVars
============================================================================
