------------------------------ MODULE WireSize ------------------------------
(***************************************************************************)
(* How long the frames of the protocol are (wire.rs, as prost encodes it), *)
(* what Config::validate budgets for them (config.rs), and the preflight   *)
(* and batching of publisher.rs that keep within max_frame_bytes.          *)
(*                                                                         *)
(* A number is represented by the width of its varint, from 1 to 10 bytes, *)
(* or 0 for the number zero, whose field is not encoded.  A dictionary is  *)
(* a sequence of configured keys; only the length of an id matters here.   *)
(***************************************************************************)
EXTENDS Integers, Sequences

Widths == 0 .. 10
Absent == -1     \* no safe, or no finalized, checkpoint
HashBytes == 32
MinFrameBytes == 1024

\* What decides the size of a frame besides the dictionary: sequence, generation and
\* emission time of the envelope; number and time of the block; the two checkpoints.
Views == [sequence : Widths, generation : Widths, emitted : Widths,
          number : Widths, timestamp : Widths,
          safe : Widths \cup {Absent}, finalized : Widths \cup {Absent}]

\* External: prost's varint length, up to the u32 that prefixes a frame.
VarintLen(n) ==
  IF n < 128 THEN 1 ELSE IF n < 16384 THEN 2 ELSE IF n < 2097152 THEN 3
  ELSE IF n < 268435456 THEN 4 ELSE 5

\* External: prost's encoded length of a scalar, of a nested message, and of bytes or a string.
Scalar(w) == IF w = 0 THEN 0 ELSE 1 + w
Delimited(n) == 1 + VarintLen(n) + n
Packed(n) == IF n = 0 THEN 0 ELSE Delimited(n)

DivCeil(n, d) == (n + d - 1) \div d

\* The sum of a sequence of lengths.
Total(lengths) ==
  LET first[n \in 0 .. Len(lengths)] == IF n = 0 THEN 0 ELSE first[n - 1] + lengths[n]
  IN  first[Len(lengths)]

-----------------------------------------------------------------------------
(* Messages. *)

Hash == Delimited(HashBytes)

BlockRefLen(v) == Scalar(v.number) + Hash + Hash + Scalar(v.timestamp)

CheckpointRefLen(w) == Scalar(w) + Hash

CheckpointField(w) == IF w = Absent THEN 0 ELSE Delimited(CheckpointRefLen(w))

ForkchoiceViewLen(v) ==
  CheckpointField(v.number) + CheckpointField(v.safe) + CheckpointField(v.finalized)

ProjectionFields(n) == Packed(32 * n) + Packed(DivCeil(n, 8))

SnapshotLen(n, v) ==
  Delimited(BlockRefLen(v)) + Packed(32 * n) + Delimited(ForkchoiceViewLen(v))

BlockStateLen(n, v) == Scalar(1) + Delimited(BlockRefLen(v)) + ProjectionFields(n)

CanonicalHeadLen(n, v) == Hash + Delimited(BlockRefLen(v)) + ProjectionFields(n)

ForkchoiceAppliedLen(v) == Delimited(ForkchoiceViewLen(v))

CandidatesRetiredLen(k) == k * Hash + Scalar(1)

\* key_id is the position in the dictionary; proto3 leaves out key_id 0.
WatchKeyLen(key_id, id_len) ==
  (IF key_id = 0 THEN 0 ELSE Scalar(VarintLen(key_id)))
  + Packed(id_len) + Delimited(20) + Delimited(HashBytes)

ConfigActivatedLen(watch) ==
  Total([i \in 1 .. Len(watch) |-> Delimited(WatchKeyLen(i - 1, watch[i].id_len))])

\* tag: the width of the event's field tag, 1 for fields 10 to 15 and 2 for 16 to 19.
EnvelopeLen(v, tag, event) ==
  Scalar(1) + Delimited(16) + Scalar(v.sequence) + Scalar(v.generation) + Scalar(v.emitted)
  + tag + VarintLen(event) + event

\* The frames that carry a projection of n keys.
ProjectionFrames(n, v) ==
  {EnvelopeLen(v, 1, SnapshotLen(n, v)), EnvelopeLen(v, 1, BlockStateLen(n, v)),
   EnvelopeLen(v, 2, CanonicalHeadLen(n, v))}

-----------------------------------------------------------------------------
(* Budgets. *)

ProjectionBytes(n) == 32 * n + DivCeil(n, 8) + 512

\* Fault: only the projections are budgeted for.
RequiredWithoutDictionary(watch) == ProjectionBytes(Len(watch))

DictionaryBytes(watch) == 512 + Total([i \in 1 .. Len(watch) |-> 80 + watch[i].id_len])

\* The frame size Config::validate requires of max_frame_bytes.
RequiredFrameBytes(watch) ==
  LET p == ProjectionBytes(Len(watch))
      d == DictionaryBytes(watch)
  IN  IF p > d THEN p ELSE d

\* validate_event_frame: sequence and emission time at their maximum width.
Preflight(watch, v, max) ==
  LET widest == [v EXCEPT !.sequence = 10, !.emitted = 10]
  IN  \A len \in ProjectionFrames(Len(watch), widest)
               \cup {EnvelopeLen(widest, 1, ConfigActivatedLen(watch))} : len <= max

\* The number of hashes publish_retired puts into one frame.
BatchSize(max) ==
  LET room == IF max > 256 THEN max - 256 ELSE 0
      batch == (IF room > 32 THEN room ELSE 32) \div 34
  IN  IF batch > 1 THEN batch ELSE 1

RetiredFrame(v, max) == EnvelopeLen(v, 2, CandidatesRetiredLen(BatchSize(max)))

\* The frames whose size depends on the dictionary, on the chain's view or on the limit.
FrameLengths(watch, v, max) ==
  ProjectionFrames(Len(watch), v)
  \cup {EnvelopeLen(v, 1, ConfigActivatedLen(watch)), EnvelopeLen(v, 2, ForkchoiceAppliedLen(v)),
        RetiredFrame(v, max)}

=============================================================================
