------------------------------ MODULE LossyFeed ------------------------------
(***************************************************************************)
(* What a synchrophasor client promises its application, independently of  *)
(* how frames travel: the server publishes a feed of configuration and     *)
(* measurement frames; the client takes some of them, in the order they    *)
(* were published, each at most once, and may miss any of them.  It never  *)
(* shows a frame that was not published, and it never goes back.           *)
(***************************************************************************)
EXTENDS Naturals, Sequences

VARIABLES
    feed,    \* every frame published so far
    conf,    \* position in feed of the configuration in use, 0 before the first
    shown    \* position in feed of the measurements last taken, 0 before the first

feedVars == <<feed, conf, shown>>

FeedInit == feed = <<>> /\ conf = 0 /\ shown = 0

\* The server appends one frame; what was published stays as it was.
Publish ==
    /\ Len(feed') = Len(feed) + 1
    /\ \A i \in DOMAIN feed : feed'[i] = feed[i]
    /\ UNCHANGED <<conf, shown>>

\* Only a frame later than everything taken so far may be taken.
Ahead(i, kind) ==
    /\ i > conf
    /\ i > shown
    /\ feed[i].kind = kind

TakeConfiguration ==
    \E i \in DOMAIN feed :
        Ahead(i, "cfg") /\ conf' = i /\ UNCHANGED <<feed, shown>>

TakeMeasurements ==
    \E i \in DOMAIN feed :
        Ahead(i, "data") /\ shown' = i /\ UNCHANGED <<feed, conf>>

FeedNext == Publish \/ TakeConfiguration \/ TakeMeasurements

FeedSpec == FeedInit /\ [][FeedNext]_feedVars
==============================================================================
