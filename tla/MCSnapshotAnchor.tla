-------------------------- MODULE MCSnapshotAnchor --------------------------
(* Model checking of SnapshotAnchor on small instances. *)
EXTENDS SnapshotAnchor

CONSTANTS b0, b1

\* One forkchoice moves all three blocks, one leaves finalized behind, one moves all back.
MCChoices ==
  {[x \in Pieces |-> b1],
   [x \in Pieces |-> IF x = "finalized" THEN b0 ELSE b1],
   [x \in Pieces |-> b0]}

=============================================================================
