--------------------------- MODULE CandidateCache ---------------------------
(***************************************************************************)
(* The candidate lifecycle of struct Publisher in publisher.rs: the cache  *)
(* of speculative projections, its bounded metadata, deferred candidates,  *)
(* tombstones, and the budgeted finality sweep, together with the          *)
(* candidate set a consumer keeps (CandidateTracker of statefeed-dump).    *)
(*                                                                         *)
(* The publisher is one thread, so every handler is one action.  Handlers  *)
(* are operators from publisher state to publisher state; the loops of the *)
(* code are recursive operators.  All events carry the active generation   *)
(* and are newer than the snapshot anchor: older ones change nothing here. *)
(* A projection is present or absent, its values are left out.             *)
(***************************************************************************)
EXTENDS Integers, Sequences, FiniteSets, SequencesExt, Functions

CONSTANTS
  Blocks,         \* block hashes
  Root,           \* the block of the initial snapshot
  Parent,         \* parent_hash of every block but Root
  Number,         \* block numbers
  Finalizable,    \* blocks the beacon chain may finalize
  CacheLimit,     \* candidate_cache_blocks
  MetadataLimit,  \* candidate_metadata_entries
  WorkBudget,     \* retirement_work_budget
  TrackerLimit,   \* the consumer's own --candidate-cache-blocks
  Pipelined,      \* whether a child may execute before its parent is validated
  Losses,         \* whether events are lost and the canonical state is reset
  MaxIncarnation  \* bound: no event is delivered at this incarnation

\* Config::validate, and what a chain of blocks is.
ASSUME CandidateCacheAssumption ==
  /\ Root \in Blocks /\ Finalizable \subseteq Blocks
  /\ \A b \in Blocks \ {Root} : Parent[b] \in Blocks /\ Number[b] = Number[Parent[b]] + 1
  /\ Parent[Root] \notin Blocks
  /\ CacheLimit \in Nat /\ CacheLimit >= 2
  /\ MetadataLimit \in Nat /\ MetadataLimit >= CacheLimit
  /\ WorkBudget \in Nat \ {0} /\ TrackerLimit \in Nat \ {0}

VARIABLES
  publisher,  \* struct Publisher, and the frames its last handler published
  failed,     \* why recover_until_success is due, or None
  client,     \* the hashes a connected consumer keeps, and whether every frame made sense
  engine      \* what Reth has decided: a verdict for every block, the head, finality

vars == <<publisher, failed, client, engine>>

None == "none"

NoWalk == [incarnation |-> 0, root |-> None, current |-> None, path |-> <<>>]
NoSweep == [checkpoint |-> None, pending |-> <<>>, classifications |-> <<>>, active |-> NoWalk]

\* reset_candidates; also new_configured.
ResetCandidates(h, finalized, incarnation) ==
  [candidates |-> [x \in {h} |-> [projection |-> TRUE, stage |-> "Validated", tracked |-> TRUE,
                                  incarnation |-> incarnation]],
   deferred |-> <<>>, children |-> <<>>,
   projection_order |-> <<<<incarnation, h>>>>, metadata_order |-> <<<<incarnation, h>>>>,
   tombstones |-> <<>>, next_incarnation |-> incarnation + 1, projection_count |-> 1,
   canonical |-> h, last_finalized |-> finalized, sweep |-> NoSweep,
   out |-> <<>>, err |-> None]

-----------------------------------------------------------------------------
(* Helpers. *)

Put(f, h, v) == [x \in DOMAIN f \cup {h} |-> IF x = h THEN v ELSE f[x]]
Drop(f, h) == [x \in DOMAIN f \ {h} |-> f[x]]

Publish(s, frame) == [s EXCEPT !.out = Append(@, frame)]
Fail(s, why) == [s EXCEPT !.err = why]

\* One retirement frame; batching is by frame size.
PublishRetired(s, hashes, reason) ==
  IF hashes = {} THEN s
  ELSE Publish(s, [kind |-> "CandidatesRetired", hashes |-> hashes, reason |-> reason])

Known(s, h) == h \in DOMAIN s.candidates \/ h \in DOMAIN s.deferred
HasProjection(s, h) == h \in DOMAIN s.candidates /\ s.candidates[h].projection
Tracked(s, h) == h \in DOMAIN s.candidates /\ s.candidates[h].tracked
MetadataLen(s) == Cardinality(DOMAIN s.candidates) + Cardinality(DOMAIN s.deferred)

\* current_incarnation; 0 for None.
CurrentIncarnation(s, h) ==
  IF h \in DOMAIN s.candidates THEN s.candidates[h].incarnation
  ELSE IF h \in DOMAIN s.deferred THEN s.deferred[h] ELSE 0

IsCurrent(s, e) == CurrentIncarnation(s, e[2]) = e[1]
IsCurrentProjection(s, e) == HasProjection(s, e[2]) /\ s.candidates[e[2]].incarnation = e[1]

AddChild(s, p, h) ==
  LET old == IF p \in DOMAIN s.children THEN s.children[p] ELSE <<>>
  IN  IF Contains(old, h) THEN s ELSE [s EXCEPT !.children = Put(@, p, Append(old, h))]

\* Fault: a removed child stays in its parent's list.
RemoveChildForgotten(s, p, h) == s

RemoveChild(s, p, h) ==
  IF p \notin DOMAIN s.children THEN s
  ELSE LET rest == SelectSeq(s.children[p], LAMBDA x : x # h)
       IN  [s EXCEPT !.children = IF rest = <<>> THEN Drop(@, p) ELSE Put(@, p, rest)]

InsertTombstone(s, h) ==
  LET all == IF Contains(s.tombstones, h) THEN s.tombstones ELSE Append(s.tombstones, h)
  IN  [s EXCEPT !.tombstones = IF Len(all) > MetadataLimit THEN Tail(all) ELSE all]

\* Fault: the metadata order keeps candidates only, deferred records fall out.
CompactForgettingDeferred(s) ==
  IF Len(s.metadata_order) > 2 * MetadataLimit
    THEN [s EXCEPT !.metadata_order =
            SelectSeq(@, LAMBDA e : e[2] \in DOMAIN s.candidates /\ IsCurrent(s, e))]
    ELSE s

CompactOrderQueues(s) ==
  LET m == IF Len(s.metadata_order) > 2 * MetadataLimit
             THEN SelectSeq(s.metadata_order, LAMBDA e : IsCurrent(s, e)) ELSE s.metadata_order
      p == IF Len(s.projection_order) > 2 * CacheLimit
             THEN SelectSeq(s.projection_order, LAMBDA e : IsCurrentProjection(s, e))
             ELSE s.projection_order
  IN  [s EXCEPT !.metadata_order = m, !.projection_order = p]

\* Fault: the projection count is not given back.
RemoveOneUncounted(s, h, terminal) ==
  LET unlinked == IF Known(s, h) THEN RemoveChild(s, Parent[h], h) ELSE s
      removed == [unlinked EXCEPT !.candidates = Drop(@, h), !.deferred = Drop(@, h)]
  IN  CompactOrderQueues(IF terminal THEN InsertTombstone(removed, h) ELSE removed)

RemoveOne(s, h, terminal) ==
  LET counted == IF HasProjection(s, h) /\ s.projection_count > 0
                   THEN s.projection_count - 1 ELSE s.projection_count
      unlinked == IF Known(s, h) THEN RemoveChild(s, Parent[h], h) ELSE s
      removed == [unlinked EXCEPT !.candidates = Drop(@, h), !.deferred = Drop(@, h),
                                  !.projection_count = counted]
  IN  CompactOrderQueues(IF terminal THEN InsertTombstone(removed, h) ELSE removed)

\* Each child popped from the stack brings its own children with it.
RECURSIVE RemovePending(_, _)
RemovePending(s, pending) ==
  IF pending = <<>> THEN s
  ELSE LET h == Last(pending)
           more == IF h \in DOMAIN s.children THEN s.children[h] ELSE <<>>
       IN  RemovePending(RemoveOne([s EXCEPT !.children = Drop(@, h)], h, TRUE),
                         Front(pending) \o more)

RemoveCandidateTree(s, root) == IF root = s.canonical THEN s ELSE RemovePending(s, <<root>>)

-----------------------------------------------------------------------------
(* Bounds: trim_projection_cache and trim_metadata. *)

\* Fault: an evicted candidate is still expected at the consumer.
EvictKeepingTracked(s, h) ==
  [s EXCEPT !.candidates[h].projection = FALSE, !.projection_count = @ - 1]

\* Evict one projection; its metadata stays.
Evict(s, h) ==
  [s EXCEPT !.candidates[h].projection = FALSE, !.candidates[h].tracked = FALSE,
            !.projection_count = @ - 1]

\* The loop gives up when it has examined more entries than the queue holds.
GivesUp(examined, order) == examined > Len(order) + 1

RECURSIVE TrimProjections(_, _, _)
TrimProjections(s, examined, retired) ==
  IF s.projection_count <= CacheLimit \/ s.projection_order = <<>>
    THEN PublishRetired(s, retired, "CacheEvicted")
    ELSE LET e == Head(s.projection_order)
             popped == [s EXCEPT !.projection_order = Tail(@)]
             next == IF e[2] = s.canonical
                       THEN [popped EXCEPT !.projection_order = Append(@, e)]
                       ELSE Evict(popped, e[2])
             also == IF e[2] # s.canonical /\ Tracked(s, e[2]) THEN {e[2]} ELSE {}
         IN  IF ~IsCurrentProjection(s, e) THEN TrimProjections(popped, examined + 1, retired)
             ELSE IF GivesUp(examined + 1, next.projection_order) THEN Fail(next, "trim")
             ELSE TrimProjections(next, examined + 1, retired \cup also)

RECURSIVE TrimMetadata(_, _)
TrimMetadata(s, retired) ==
  IF MetadataLen(s) <= MetadataLimit THEN PublishRetired(s, retired, "CacheEvicted")
  ELSE IF s.metadata_order = <<>> THEN Fail(s, "metadata")
  ELSE LET e == Head(s.metadata_order)
           popped == [s EXCEPT !.metadata_order = Tail(@)]
       IN  IF ~IsCurrent(s, e) THEN TrimMetadata(popped, retired)
           ELSE IF e[2] = s.canonical
             THEN TrimMetadata([popped EXCEPT !.metadata_order = Append(@, e)], retired)
             ELSE TrimMetadata(RemoveOne(popped, e[2], FALSE),
                               retired \cup (IF Tracked(s, e[2]) THEN {e[2]} ELSE {}))

-----------------------------------------------------------------------------
(* The finality sweep. *)

NewSweep(checkpoint, pending) ==
  [checkpoint |-> checkpoint, pending |-> pending, classifications |-> <<>>, active |-> NoWalk]

BeginFinalitySweep(s, checkpoint) ==
  [s EXCEPT !.sweep = NewSweep(checkpoint, s.metadata_order)]

\* Fault: a record inserted after the sweep finished is never classified.
QueueOnlyWhileSweeping(s, e) ==
  IF s.sweep = NoSweep THEN s ELSE [s EXCEPT !.sweep.pending = Append(@, e)]

\* A new record joins the running sweep, or starts one for the last checkpoint.
QueueFinalityCheck(s, e) ==
  LET queued == IF s.sweep # NoSweep THEN [s.sweep EXCEPT !.pending = Append(@, e)]
                ELSE IF s.last_finalized # None THEN NewSweep(s.last_finalized, <<e>>)
                ELSE NoSweep
      current == SelectSeq(queued.pending, LAMBDA x : IsCurrent(s, x))
  IN  [s EXCEPT !.sweep =
         IF Len(queued.pending) > 2 * MetadataLimit
           THEN [queued EXCEPT !.pending = current] ELSE queued]

\* Fault: a parent that is not cached counts as terminal.
ClassifyMissingAsConflict(s, h, fin) ==
  IF ~Known(s, h) THEN "Unknown"
  ELSE IF Number[h] <= Number[fin]
    THEN (IF Number[h] = Number[fin] /\ h # fin THEN "Conflict" ELSE "Compatible")
  ELSE IF Known(s, Parent[h]) THEN "Ascend" ELSE "Conflict"

\* advance_finality_walk: a classification of block h, or Ascend to its parent.
Classify(s, h, fin) ==
  IF ~Known(s, h) THEN "Unknown"
  ELSE IF Number[h] = Number[fin] THEN (IF h = fin THEN "Compatible" ELSE "Conflict")
  ELSE IF Number[h] < Number[fin] THEN "Compatible"
  ELSE IF Known(s, Parent[h]) THEN "Ascend"
  ELSE IF Contains(s.tombstones, Parent[h]) THEN "Conflict" ELSE "Unknown"

\* A memoised classification comes before a look at the metadata.
Classification(s, h) ==
  IF h \in DOMAIN s.sweep.classifications THEN s.sweep.classifications[h]
  ELSE Classify(s, h, s.sweep.checkpoint)

\* The walk ends: its path is memoised unless Unknown, and its root is retired when it
\* conflicts and is still the incarnation that was queued.
EndWalk(s, walk, class) ==
  LET path == {walk.path[i] : i \in DOMAIN walk.path} \cup {walk.current}
      old == s.sweep.classifications
      memo == IF class = "Unknown" THEN old
              ELSE [x \in DOMAIN old \cup path |-> IF x \in path THEN class ELSE old[x]]
      done == [s EXCEPT !.sweep.classifications = memo, !.sweep.active = NoWalk]
  IN  IF class = "Conflict" /\ IsCurrent(s, <<walk.incarnation, walk.root>>)
        THEN RemoveOne(done, walk.root, TRUE) ELSE done

\* The publisher state with the work done and the hashes to retire.
RECURSIVE Sweep(_, _, _)
Sweep(s, work, retired) ==
  IF work = WorkBudget \/ (s.sweep.active = NoWalk /\ s.sweep.pending = <<>>)
    THEN [state |-> s, work |-> work, retired |-> retired]
    ELSE LET e == Head(s.sweep.pending)
             resumed == s.sweep.active # NoWalk
             walk == IF resumed THEN s.sweep.active
                     ELSE [incarnation |-> e[1], root |-> e[2], current |-> e[2], path |-> <<>>]
             taken == IF resumed THEN s ELSE [s EXCEPT !.sweep.pending = Tail(@)]
             class == Classification(s, walk.current)
             ended == EndWalk(taken, walk, class)
             climbed == [walk EXCEPT !.path = Append(@, walk.current),
                                     !.current = Parent[walk.current]]
         IN  IF ~resumed /\ (~IsCurrent(s, e) \/ e[2] = s.canonical)
               THEN Sweep(taken, work + 1, retired)
             ELSE IF class = "Ascend"
               THEN Sweep([taken EXCEPT !.sweep.active = climbed], work + 1, retired)
             ELSE Sweep(ended, work + 1, retired \cup
                    (IF Tracked(s, walk.root) /\ ~Known(ended, walk.root)
                       THEN {walk.root} ELSE {}))

\* Fault: what is left of a sweep when its budget is spent is dropped.
ProcessFinalityOnce(s) ==
  LET r == Sweep(s, 0, {})
  IN  IF s.sweep = NoSweep THEN [state |-> s, work |-> 0]
      ELSE [work |-> r.work, state |-> PublishRetired([r.state EXCEPT !.sweep = NoSweep],
                                                      r.retired, "FinalizedConflict")]

\* process_finality_budget.
ProcessFinality(s) ==
  IF s.sweep = NoSweep THEN [state |-> s, work |-> 0]
  ELSE LET r == Sweep(s, 0, {})
           done == r.state.sweep.pending = <<>> /\ r.state.sweep.active = NoWalk
       IN  [work |-> r.work,
            state |-> PublishRetired([r.state EXCEPT !.sweep = IF done THEN NoSweep ELSE @],
                                     r.retired, "FinalizedConflict")]

-----------------------------------------------------------------------------
(* Insertion. *)

\* Fault: the incarnation is read and not advanced.
EnlistWithoutAllocating(s, h) ==
  AddChild([s EXCEPT !.metadata_order = Append(@, <<s.next_incarnation, h>>)], Parent[h], h)

\* A record new to the metadata order, with a fresh incarnation.
Enlist(s, h) ==
  LET e == <<s.next_incarnation, h>>
      listed == [s EXCEPT !.next_incarnation = @ + 1, !.metadata_order = Append(@, e)]
  IN  AddChild(listed, Parent[h], h)

\* insert_candidate with tracked = TRUE, as every caller passes it.
InsertCandidate(s, h, stage) ==
  LET fresh == ~Known(s, h)
      incarnation == IF fresh THEN s.next_incarnation ELSE CurrentIncarnation(s, h)
      e == <<incarnation, h>>
      gained == ~HasProjection(s, h)
      entry == [projection |-> TRUE, stage |-> stage, tracked |-> TRUE,
                incarnation |-> incarnation]
      listed == IF fresh THEN Enlist(s, h) ELSE s
      stored == [listed EXCEPT !.candidates = Put(@, h, entry), !.deferred = Drop(@, h)]
      queued == IF fresh THEN QueueFinalityCheck(stored, e) ELSE stored
      ordered == IF gained THEN [queued EXCEPT !.projection_count = @ + 1,
                                               !.projection_order = Append(@, e)]
                 ELSE queued
      trimmed == TrimProjections(ordered, 0, {})
  IN  IF trimmed.err # None THEN trimmed ELSE TrimMetadata(trimmed, {})

\* insert_deferred_executed.
InsertDeferred(s, h) ==
  LET listed == [Enlist(s, h) EXCEPT !.deferred = Put(@, h, s.next_incarnation)]
      queued == QueueFinalityCheck(listed, <<s.next_incarnation, h>>)
  IN  IF h \in DOMAIN s.candidates THEN s
      ELSE TrimMetadata(IF h \in DOMAIN s.deferred THEN s ELSE queued, {})

-----------------------------------------------------------------------------
(* Event handlers. *)

\* promote_validated of a record in candidates.
PromoteKnown(s, h) ==
  LET promoted == [s EXCEPT !.candidates[h].stage = "Validated"]
  IN  IF s.candidates[h].stage = "Executed" /\ s.candidates[h].projection
        THEN Publish(promoted, [kind |-> "BlockValidated", hash |-> h]) ELSE promoted

\* load: whether the provider still has the parent's state.
ProjectCandidate(s, h, stage, load) ==
  LET stale == Number[h] <= Number[s.canonical] /\ Parent[h] \notin DOMAIN s.candidates
      projected == InsertCandidate(Publish(s, [kind |-> "BlockState", hash |-> h]), h, stage)
  IN  IF Contains(s.tombstones, h) THEN s
      ELSE IF HasProjection(s, h) THEN (IF stage = "Validated" THEN PromoteKnown(s, h) ELSE s)
      ELSE IF stale THEN s
      ELSE IF HasProjection(s, Parent[h]) THEN projected
      ELSE IF stage = "Executed" THEN InsertDeferred(s, h)
      ELSE IF load THEN projected ELSE s

PromoteValidated(s, h, load) ==
  IF h \in DOMAIN s.candidates THEN PromoteKnown(s, h)
  ELSE IF h \in DOMAIN s.deferred THEN ProjectCandidate(s, h, "Validated", load) ELSE s

Rejectable(s, h) ==
  \/ h \in DOMAIN s.candidates /\ s.candidates[h].stage = "Executed"
  \/ h \in DOMAIN s.deferred

Reject(s, h) ==
  IF ~Rejectable(s, h) THEN s
  ELSE RemoveCandidateTree(Publish(s, [kind |-> "BlockRejected", hash |-> h]), h)

\* Fault: the new head is protected, and the previous one is not, while it is inserted.
CanonicalTooEarly(s, h, load) ==
  LET inserted == InsertCandidate([s EXCEPT !.canonical = h], h, "Validated")
  IN  IF h = s.canonical THEN s
      ELSE IF ~HasProjection(s, h) /\ ~load THEN Fail(s, "load")
      ELSE IF inserted.err # None THEN inserted
      ELSE Publish(inserted, [kind |-> "CanonicalHead", hash |-> h, previous |-> s.canonical])

\* Fault: a cached projection becomes the head as it is.
CanonicalAsCached(s, h, load) ==
  LET inserted == IF HasProjection(s, h) THEN s ELSE InsertCandidate(s, h, "Validated")
  IN  IF h = s.canonical THEN s
      ELSE IF ~HasProjection(s, h) /\ ~load THEN Fail(s, "load")
      ELSE IF inserted.err # None THEN inserted
      ELSE [Publish(inserted, [kind |-> "CanonicalHead", hash |-> h, previous |-> s.canonical])
              EXCEPT !.canonical = h]

\* canonical: the previous head stays protected until CanonicalHead is published.
Canonical(s, h, load) ==
  LET inserted == InsertCandidate(s, h, "Validated")
      previous == s.canonical
      headed == [Publish(inserted, [kind |-> "CanonicalHead", hash |-> h, previous |-> previous])
                   EXCEPT !.canonical = h]
  IN  IF h = previous THEN s
      ELSE IF ~HasProjection(s, h) /\ ~load THEN Fail(s, "load")
      ELSE IF inserted.err # None THEN inserted ELSE headed

\* AppliedForkchoiceMeta::resolve of the finalized checkpoint.
Resolve(fin, head) == IF fin # None /\ Number[fin] <= Number[head] THEN fin ELSE None

ApplyForkchoice(s, h, fin, load) ==
  LET c == Canonical(s, h, load)
      view == Resolve(fin, h)
  IN  IF c.err # None \/ view \in {None, c.last_finalized} THEN c
      ELSE ProcessFinality(BeginFinalitySweep([c EXCEPT !.last_finalized = view], view)).state

RECURSIVE Expire(_, _)
Expire(s, due) == IF due = <<>> THEN s ELSE Expire(RemoveOne(s, Head(due), FALSE), Tail(due))

\* What maintain may leave when the records in elapsed are past their retention.  The hash
\* maps are iterated in any order, candidates before deferred ones, up to the budget.
MaintainOutcomes(s, elapsed) ==
  LET f == ProcessFinality(s)
      t == f.state
      due == elapsed \ {t.canonical}
      budget == WorkBudget - f.work
      Selections(S, k) == UNION {SetToSeqs(T) : T \in {U \in SUBSET S :
                            Cardinality(U) = (IF Cardinality(S) < k THEN Cardinality(S) ELSE k)}}
      firsts == Selections(due \cap DOMAIN t.candidates, budget)
      Outcome(seq) ==
        PublishRetired(Expire(t, seq),
                       {seq[i] : i \in {j \in DOMAIN seq : Tracked(t, seq[j])}},
                       "RetentionExpired")
  IN  UNION {{Outcome(first \o rest) :
                rest \in Selections(due \cap DOMAIN t.deferred, budget - Len(first))} :
             first \in firsts}

-----------------------------------------------------------------------------
(* The consumer: CandidateTracker of statefeed-dump, hashes in insertion order. *)

\* insert: a new hash joins the others, and the oldest goes when there are too many.
Hold(held, h) ==
  LET all == IF Contains(held, h) THEN held ELSE Append(held, h)
  IN  IF Len(all) > TrackerLimit THEN Tail(all) ELSE all

Release(held, hashes) == SelectSeq(held, LAMBDA h : h \notin hashes)

\* remove_tree: descendants are found through the children the consumer itself holds.
RECURSIVE HeldTree(_, _)
HeldTree(held, roots) ==
  LET more == roots \cup {h \in Range(held) : Parent[h] \in roots}
  IN  IF more = roots THEN roots ELSE HeldTree(held, more)

\* Fault: a retired candidate takes its descendants along.
HoldsReleasingTrees(held, f) ==
  CASE f.kind \in {"BlockState", "CanonicalHead"} -> Hold(held, f.hash)
    [] f.kind = "CandidatesRetired" -> Release(held, HeldTree(held, f.hashes))
    [] f.kind = "BlockRejected" -> Release(held, HeldTree(held, {f.hash}))
    [] f.kind \in {"Gap", "ConfigActivated"} -> <<>>
    [] f.kind = "Snapshot" -> <<f.hash>>
    [] OTHER -> held

\* What the consumer holds after a frame.
Holds(held, f) ==
  CASE f.kind \in {"BlockState", "CanonicalHead"} -> Hold(held, f.hash)
    [] f.kind = "CandidatesRetired" -> Release(held, f.hashes)
    [] f.kind = "BlockRejected" -> Release(held, HeldTree(held, {f.hash}))
    [] f.kind \in {"Gap", "ConfigActivated"} -> <<>>
    [] f.kind = "Snapshot" -> <<f.hash>>
    [] OTHER -> held

\* A frame that means something to a consumer that holds these hashes.
MakesSense(held, f) ==
  CASE f.kind = "BlockState" -> ~Contains(held, f.hash)
    [] f.kind = "BlockValidated" -> Contains(held, f.hash)
    [] f.kind = "CandidatesRetired" -> f.hashes \subseteq Range(held)
    [] f.kind = "CanonicalHead" -> Contains(held, f.previous)
    [] OTHER -> TRUE

\* The consumer's loop reads a frame.
Consume(c, f) == [held |-> Holds(c.held, f), sound |-> c.sound /\ MakesSense(c.held, f)]

\* A handler has returned to run_publisher, in state s and perhaps with an error, which calls for
\* a recovery; the consumer has read its frames in order.
Deliver(s) ==
  /\ publisher' = [s EXCEPT !.out = <<>>, !.err = None]
  /\ failed' = s.err
  /\ client' = FoldLeft(Consume, client, s.out)

-----------------------------------------------------------------------------
(* The engine, external: what Reth decides, in the order its thread reports it. *)

RECURSIVE Lineage(_)
Lineage(b) == {b} \cup (IF b = Root THEN {} ELSE Lineage(Parent[b]))

Comparable(a, b) == a \in Lineage(b) \/ b \in Lineage(a)

Decide(b, verdict) == engine' = [engine EXCEPT !.verdict[b] = verdict]

\* Execution of a new block, or again of one that left the engine tree.
EngineExecutes(b) ==
  /\ b # Root
  /\ engine.verdict[Parent[b]] \in (IF Pipelined THEN {"executed", "valid"} ELSE {"valid"})
  /\ Decide(b, IF engine.verdict[b] = "unseen" THEN "executed" ELSE engine.verdict[b])

EngineValidates(b) ==
  /\ b # Root /\ engine.verdict[b] \in {"executed", "valid"}
  /\ engine.verdict[Parent[b]] = "valid"
  /\ Decide(b, "valid")

\* A locally built payload is inserted without an execution callback.
EngineInserts(b) ==
  /\ b # Root /\ engine.verdict[b] # "invalid"
  /\ engine.verdict[Parent[b]] = "valid"
  /\ Decide(b, "valid")

EngineRejects(b) ==
  /\ engine.verdict[b] \in {"executed", "invalid"}
  /\ \A d \in Blocks : b \in Lineage(d) => engine.verdict[d] # "valid"
  /\ Decide(b, "invalid")

\* A new checkpoint descends from the old one and is on the new head's chain; a retained
\* one may be above the head.
EngineApplies(h, fin) ==
  /\ engine.verdict[h] = "valid"
  /\ \/ fin = engine.finalized /\ (fin # None => Comparable(h, fin))
     \/ /\ fin \in Finalizable \cap Lineage(h)
        /\ engine.finalized \in Lineage(fin) \cup {None}
  /\ engine' = [engine EXCEPT !.head = h, !.finalized = fin]

-----------------------------------------------------------------------------

Init ==
  /\ publisher = ResetCandidates(Root, None, 1)
  /\ failed = None
  /\ client = [held |-> <<Root>>, sound |-> TRUE]
  /\ engine = [verdict |-> [b \in Blocks |-> IF b = Root THEN "valid" ELSE "unseen"],
               head |-> Root, finalized |-> None]

KnownBlocks == {b \in Blocks : Known(publisher, b)}

Ready == failed = None /\ publisher.next_incarnation < MaxIncarnation

Executed(b) ==
  /\ Ready /\ EngineExecutes(b)
  /\ Deliver(ProjectCandidate(publisher, b, "Executed", FALSE))

Validated(b) ==
  /\ Ready /\ EngineValidates(b)
  /\ \E load \in BOOLEAN : Deliver(PromoteValidated(publisher, b, load))

ValidatedFallback(b) ==
  /\ Ready /\ EngineInserts(b)
  /\ \E load \in BOOLEAN : Deliver(ProjectCandidate(publisher, b, "Validated", load))

Rejected(b) ==
  /\ Ready /\ EngineRejects(b)
  /\ Deliver(Reject(publisher, b))

ForkchoiceApplied(h, fin) ==
  /\ Ready /\ EngineApplies(h, fin)
  /\ \E load \in BOOLEAN : Deliver(ApplyForkchoice(publisher, h, fin, load))

\* The maintenance tick.  Time is abstract: any records may be past their expires_at.
Maintain ==
  /\ failed = None
  /\ \E elapsed \in SUBSET KnownBlocks : \E s \in MaintainOutcomes(publisher, elapsed) : Deliver(s)
  /\ UNCHANGED engine

\* The queue overflowed: the engine moved and its event is gone.
Lost ==
  /\ Losses /\ Ready
  /\ \/ \E b \in Blocks : EngineExecutes(b) \/ EngineInserts(b) \/ EngineRejects(b)
     \/ \E h \in Blocks, fin \in Finalizable \cup {None} : EngineApplies(h, fin)
  /\ failed' = "loss"
  /\ UNCHANGED <<publisher, client>>

\* The stream is anchored anew at the engine's head, after a Gap or a ConfigActivated.
Anchor(first) ==
  LET reset == ResetCandidates(engine.head, Resolve(engine.finalized, engine.head),
                               publisher.next_incarnation)
  IN  /\ Deliver([reset EXCEPT !.out = <<[kind |-> first],
                                         [kind |-> "Snapshot", hash |-> engine.head]>>])
      /\ UNCHANGED engine

\* recover_until_success.
Recover == failed # None /\ Anchor("Gap")

\* CanonicalStateReset, or the activation of a new watch set.
Reanchor == Losses /\ Ready /\ \E first \in {"Gap", "ConfigActivated"} : Anchor(first)

Next ==
  \/ \E b \in Blocks : Executed(b) \/ Validated(b) \/ ValidatedFallback(b) \/ Rejected(b)
  \/ \E h \in Blocks, fin \in Finalizable \cup {None} : ForkchoiceApplied(h, fin)
  \/ Maintain
  \/ Lost
  \/ Recover
  \/ Reanchor

Spec == Init /\ [][Next]_vars

\* The ticker fires forever, so a running sweep is not left alone (a tick always advances one),
\* and recovery retries until it succeeds.
FairSpec ==
  /\ Spec
  /\ []<>(failed = None) \/ []<><<Recover>>_vars
  /\ []<>(failed # None \/ publisher.sweep = NoSweep) \/ []<><<Maintain>>_vars

-----------------------------------------------------------------------------
(* Properties. *)

Entries == (1 .. publisher.next_incarnation - 1) \X Blocks

TrackedBlocks == {b \in Blocks : Tracked(publisher, b)}

\* The type of the publisher's records, queues and indexes.
TypeOK ==
  /\ publisher.canonical \in Blocks
  /\ publisher.last_finalized \in Finalizable \cup {None}
  /\ \A h \in DOMAIN publisher.candidates :
       publisher.candidates[h] \in
         [projection : BOOLEAN, stage : {"Executed", "Validated"}, tracked : BOOLEAN,
          incarnation : 1 .. publisher.next_incarnation - 1]
  /\ \A e \in Range(publisher.metadata_order \o publisher.projection_order
                    \o publisher.sweep.pending) : e \in Entries
  /\ failed \in {None, "load", "trim", "metadata", "loss"}
  /\ client.held \in Seq(Blocks) /\ IsInjective(client.held) /\ client.sound \in BOOLEAN

Occurrences(seq, e) == Cardinality({i \in DOMAIN seq : seq[i] = e})

\* trim_projection_cache and trim_metadata can always find their next victim: every live record
\* is in metadata_order exactly once under its incarnation, and every live projection is in
\* projection_order exactly once, whatever stale entries lie between.
OrderQueuesCover ==
  /\ \A h \in KnownBlocks :
       Occurrences(publisher.metadata_order, <<CurrentIncarnation(publisher, h), h>>) = 1
  /\ \A h \in Blocks : HasProjection(publisher, h) =>
       Occurrences(publisher.projection_order, <<CurrentIncarnation(publisher, h), h>>) = 1

\* The cache's bounds hold between handlers: projection_count is the number of projections
\* held and within candidate_cache_blocks, records and tombstones are within
\* candidate_metadata_entries, and a block is never both a candidate and deferred.
Bounded ==
  /\ publisher.projection_count = Cardinality({b \in Blocks : HasProjection(publisher, b)})
  /\ publisher.projection_count <= CacheLimit
  /\ failed = None => MetadataLen(publisher) <= MetadataLimit
  /\ Len(publisher.tombstones) <= MetadataLimit
  /\ DOMAIN publisher.candidates \cap DOMAIN publisher.deferred = {}

\* children_by_parent, which rejection walks, lists only live records, each once, and every
\* live record the engine may still reject: a removal or an eviction leaves no dangling child
\* and loses none.  (The block a snapshot anchors at is not listed; it is already valid.)
ChildrenIndexed ==
  \A p \in Blocks :
    LET listed == IF p \in DOMAIN publisher.children THEN publisher.children[p] ELSE <<>>
        live == {b \in KnownBlocks \ {Root} : Parent[b] = p}
    IN  /\ IsInjective(listed) /\ Range(listed) \subseteq live
        /\ {b \in live : engine.verdict[b] # "valid"} \subseteq Range(listed)

\* The canonical head is never evicted, expired, rejected or swept: it keeps its projection,
\* is VALIDATED and stays tracked through every reorganisation (trim, maintain, sweep, reject
\* each exempt canonical_hash in their own way).
CanonicalKept ==
  LET h == publisher.canonical
  IN  /\ HasProjection(publisher, h) /\ Tracked(publisher, h)
      /\ publisher.candidates[h].stage = "Validated"

\* The consumer keeps exactly what the publisher tracks for it ("True while consumers are
\* expected to retain this candidate"), although evictions, expiries, rejections and sweeps
\* remove records at different times on the two sides.
MirrorsTracked == failed = None => Range(client.held) = TrackedBlocks

\* No block the publisher tracks is missing at the consumer, even where the engine executes
\* a child before its parent is validated.
TrackedHeld == failed = None => TrackedBlocks \subseteq Range(client.held)

\* Every frame fits what the consumer holds: no state for a block it has, no validation or
\* retirement of one it has not, and CanonicalHead names a previous head it still has (the
\* ordering canonical protects while it inserts a reconstructed projection).
FramesMakeSense == client.sound

\* A tombstone stops every later event of its block, so only a terminal block may get one:
\* one the engine rejected, one whose chain misses the finalized checkpoint, or a descendant of
\* either.  The sweep decides this from memoised classifications, incarnations and parents
\* that earlier steps removed.
TombstonesTerminal ==
  \A h \in Range(publisher.tombstones) :
    \/ \E a \in Lineage(h) : engine.verdict[a] = "invalid"
    \/ engine.finalized # None /\ ~Comparable(h, engine.finalized)

\* A finished sweep has left no rival of the checkpoint behind, although records were inserted,
\* evicted and reinserted between its budgeted steps.
SweepComplete ==
  LET fin == publisher.last_finalized
  IN  failed = None /\ publisher.sweep = NoSweep /\ fin # None
        => \A b \in KnownBlocks : Number[b] = Number[fin] => b = fin

\* A record that rivals the finalized checkpoint is eventually gone, one budgeted tick at a time,
\* while the engine keeps inserting new records behind it.
RivalsRetired ==
  \A b \in Blocks :
    ( /\ Known(publisher, b) /\ publisher.last_finalized # None
      /\ Number[b] = Number[publisher.last_finalized] /\ b # publisher.last_finalized )
    ~> ~Known(publisher, b)

\* The error of trim_projection_cache, "cannot evict candidate projection after inserting",
\* is reported only when the cache could not be brought within its limit.
TrimErrorIsReal == failed = "trim" => publisher.projection_count > CacheLimit

==============================================================================
