--------------------------- MODULE MCConfigReload ---------------------------
(***************************************************************************)
(* File contents for ConfigReload.  Frames are limited to the least size   *)
(* config.rs allows; "full" needs exactly that much, and "oversized" needs *)
(* more for its dictionary although its projections would fit.             *)
(***************************************************************************)
EXTENDS ConfigReload, SequencesExt

\* Keys whose ids are len bytes long.
Key(i, len) == [id |-> i, id_len |-> len, address |-> 1, slot |-> i]

Keys(n, len) == [i \in 1 .. n |-> Key(i, len)]

Twice(key) == <<key, [key EXCEPT !.id = 2]>>

Contents(watch) == [parses |-> TRUE, stream |-> "stream", watch |-> watch]

MCConfigs ==
  [first |-> Contents(Keys(1, 5)),
   full |-> Contents(Append(Keys(4, 22), Key(5, 24))),
   reversed |-> Contents(Reverse(Keys(2, 5))),
   oversized |-> Contents(Keys(12, 40)),
   duplicate |-> Contents(Twice(Keys(1, 5)[1])),
   restream |-> [Contents(Keys(2, 5)) EXCEPT !.stream = "other"],
   torn |-> [Contents(<<>>) EXCEPT !.parses = FALSE]]

\* A young chain without checkpoints, and every field at its widest.
MCViews ==
  {[sequence |-> 1, generation |-> 1, emitted |-> 5, number |-> 1, timestamp |-> 5,
    safe |-> Absent, finalized |-> Absent],
   [sequence |-> 10, generation |-> 10, emitted |-> 10, number |-> 10, timestamp |-> 10,
    safe |-> 10, finalized |-> 10]}

=============================================================================
