---------------------------- MODULE MCPublication ----------------------------
(***************************************************************************)
(* Model checking of Publication.  Consumers only read the shared state,   *)
(* so one consumer meets every interleaving with the publisher that        *)
(* several would.                                                          *)
(***************************************************************************)
EXTENDS Publication

==============================================================================
