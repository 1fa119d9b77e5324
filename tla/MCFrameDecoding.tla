--------------------------- MODULE MCFrameDecoding ---------------------------
(***************************************************************************)
(* PMUs for FrameDecoding that differ in one respect or another: equal     *)
(* counts in different formats, equal sums of unequal counts, more digital *)
(* words, and counts of zero.                                              *)
(***************************************************************************)
EXTENDS FrameDecoding

P(ph, an, dg, polar, phFloat, anFloat, freqFloat) ==
    [ph |-> ph, an |-> an, dg |-> dg, polar |-> polar,
     phFloat |-> phFloat, anFloat |-> anFloat, freqFloat |-> freqFloat]

MCPmus == { P(1, 1, 0, FALSE, TRUE,  TRUE,  TRUE),
            P(1, 1, 0, TRUE,  TRUE,  FALSE, FALSE),
            P(1, 1, 0, FALSE, FALSE, FALSE, TRUE),
            P(1, 1, 0, TRUE,  FALSE, TRUE,  FALSE),
            P(2, 0, 0, FALSE, TRUE,  TRUE,  TRUE),
            P(0, 2, 1, FALSE, TRUE,  TRUE,  TRUE),
            P(1, 1, 2, FALSE, TRUE,  FALSE, TRUE),
            P(2, 1, 1, FALSE, TRUE,  TRUE,  FALSE),
            P(0, 0, 0, FALSE, TRUE,  TRUE,  FALSE) }

\* A PDC with two PMUs, one of which has a phasor more than the other, both of
\* which send integers: the behaviours of Spec with frames of one of each.
TwoKinds == { P(1, 1, 0, FALSE, FALSE, FALSE, FALSE),
              P(2, 1, 0, FALSE, FALSE, FALSE, FALSE) }

OneOfEach == Len(sent) = 2 /\ sent[1] # sent[2]

TwoPmusNext ==
    \/ \E p \in Pmus : EncodePmu(p)
    \/ OneOfEach /\ parseConfigurationFrame
    \/ prepareConfiguration
    \/ parseDataFrame
    \/ decodeData

TwoPmusSpec == Init /\ [][TwoPmusNext]_vars
==============================================================================
