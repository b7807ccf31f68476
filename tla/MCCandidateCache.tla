-------------------------- MODULE MCCandidateCache --------------------------
(***************************************************************************)
(* Small block trees for CandidateCache.  A block is named by its height   *)
(* and its fork.                                                           *)
(***************************************************************************)
EXTENDS CandidateCache

\* root - a1 and root - b1 - b2: a fork at the root.
ForkBlocks == {"root", "a1", "b1", "b2"}
ForkParent == [root |-> "before", a1 |-> "root", b1 |-> "root", b2 |-> "b1"]
ForkNumber == [root |-> 1, a1 |-> 2, b1 |-> 2, b2 |-> 3]

\* root - a1 - a2 - a3: a chain longer than the projection cache.
ChainBlocks == {"root", "a1", "a2", "a3"}
ChainParent == [root |-> "before", a1 |-> "root", a2 |-> "a1", a3 |-> "a2"]
ChainNumber == [root |-> 1, a1 |-> 2, a2 |-> 3, a3 |-> 4]

\* Four siblings above the root.
FanBlocks == {"root", "a", "b", "c", "d"}
FanParent == [b \in FanBlocks |-> IF b = "root" THEN "before" ELSE "root"]
FanNumber == [b \in FanBlocks |-> IF b = "root" THEN 1 ELSE 2]

=============================================================================
