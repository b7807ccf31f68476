----------------------------- MODULE MCFeedQueue -----------------------------
(***************************************************************************)
(* Model checking of FeedQueue.  Producers are interchangeable, but the    *)
(* run checks liveness, for which symmetry reduction is not sound.         *)
(***************************************************************************)
EXTENDS FeedQueue

==============================================================================
