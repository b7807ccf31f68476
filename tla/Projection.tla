----------------------------- MODULE Projection -----------------------------
(***************************************************************************)
(* The values the feed publishes: execution callbacks extract a block's    *)
(* watched changes, the publisher applies them to the parent's projection  *)
(* or to one read from the provider, moves the canonical head, activates a *)
(* new dictionary, and a consumer follows the canonical bitmaps.           *)
(*                                                                         *)
(* Simplifications: which candidates are evicted or retired, and when, is  *)
(* CandidateCache's subject and is arbitrary here; loss and recovery are   *)
(* in FeedQueue and Publication, the consistency of load_latest in         *)
(* SnapshotAnchor.  The engine thread is sequential: it has at most one    *)
(* event observed and not yet enqueued.                                    *)
(***************************************************************************)
EXTENDS WatchSet

CONSTANTS
  Genesis,       \* storage of the first block: account -> slot -> value
  Bundles,       \* Bundles[n]: changes the n-th block may make, account -> [destroyed, storage]
  Dictionaries,  \* configured keys by generation
  None,
  QueueBound     \* bound: events in the queue

\* What a block may do to account a: its storage entries are among the account's slots.
IsTouch(a, account) ==
  /\ account.destroyed \in BOOLEAN
  /\ DOMAIN account.storage \subseteq DOMAIN Genesis[a]
  /\ \A s \in DOMAIN account.storage : account.storage[s] \in Nat

\* Slots and words are numbers, a key is watched once (Config::validate), and None is neither
\* a block nor an event.
ASSUME ProjectionAssumption ==
  /\ \A a \in DOMAIN Genesis :
       DOMAIN Genesis[a] \subseteq Nat /\ Genesis[a] \in [DOMAIN Genesis[a] -> Nat]
  /\ Dictionaries \in Seq(Seq([address : DOMAIN Genesis, slot : Nat])) /\ Len(Dictionaries) > 0
  /\ \A g \in DOMAIN Dictionaries :
       /\ \A i \in DOMAIN Dictionaries[g] :
            Dictionaries[g][i].slot \in DOMAIN Genesis[Dictionaries[g][i].address]
       /\ IsInjective(Dictionaries[g])
  /\ \A n \in 1 .. Len(Bundles) : \A bundle \in Bundles[n] :
       /\ DOMAIN bundle \subseteq DOMAIN Genesis
       /\ \A a \in DOMAIN bundle : IsTouch(a, bundle[a])
  /\ QueueBound \in Nat \ {0}
  /\ None \notin Nat
  /\ None \notin [kind : {"ForkchoiceApplied"}, generation : Nat, block : Nat, changes : {{}},
                  covered : BOOLEAN]

VARIABLES
  storage,     \* external: the state after every block; blocks are numbered as they appear
  parent,      \* parent_hash, 0 for the first block
  valid,       \* external: blocks the engine accepted
  head,        \* external: the applied forkchoice head
  unvalidated, \* external: the block whose validation follows its execution, or None
  in_flight,   \* the event the engine thread has observed and not enqueued, or None
  queue,       \* FeedEvents
  hot,         \* generation the hot path extracts with
  generation,  \* generation of the published projection
  canonical,   \* the published block
  candidates,  \* block -> projection, None once evicted
  deferred,    \* block -> changes
  loaded,      \* the head load_latest anchored for the next generation, or None
  index        \* what a consumer that follows changed bitmaps has for the canonical head

chain_vars == <<storage, parent, valid, head, unvalidated>>
publisher_vars == <<generation, canonical, candidates, deferred, loaded, index>>
vars == <<storage, parent, valid, head, unvalidated, in_flight, queue, hot, generation, canonical,
          candidates, deferred, loaded, index>>

\* Compiled once per generation.
WatchSets == [g \in DOMAIN Dictionaries |-> Compile(Dictionaries[g])]

Blocks == DOMAIN storage
Active == WatchSets[generation]
Put(f, b, v) == [x \in DOMAIN f \cup {b} |-> IF x = b THEN v ELSE f[x]]
Drop(f, b) == [x \in DOMAIN f \ {b} |-> f[x]]

\* number: the first block has number 1.
Number(b) ==
  LET height[x \in Blocks] == IF x = 1 THEN 1 ELSE 1 + height[parent[x]] IN height[b]

Loaded(b) == [values |-> LoadAt(Active, storage[b]), bitmap |-> NoBitmap]

Init ==
  /\ storage = <<Genesis>> /\ parent = <<0>> /\ valid = {1} /\ head = 1
  /\ unvalidated = None /\ in_flight = None /\ queue = <<>>
  /\ hot = 1 /\ generation = 1 /\ canonical = 1
  /\ candidates = [b \in {1} |-> [values |-> LoadAt(WatchSets[1], Genesis), bitmap |-> NoBitmap]]
  /\ deferred = <<>> /\ loaded = None
  /\ index = LoadAt(WatchSets[1], Genesis)

-----------------------------------------------------------------------------
(* The engine thread. *)

\* observed_at is later than any snapshot anchored so far.
Event(kind, b, changes) ==
  [kind |-> kind, generation |-> hot, block |-> b, changes |-> changes, covered |-> FALSE]

\* External: the entries of a bundle name the values they replace.
Recorded(bundle, before) ==
  [a \in DOMAIN bundle |->
     [destroyed |-> bundle[a].destroyed,
      storage |-> [s \in DOMAIN bundle[a].storage |->
        [original |-> IF bundle[a].destroyed THEN 0 ELSE before[a][s],
         present |-> bundle[a].storage[s]]]]]

\* A block is executed on a valid parent: with the early observer, or as a built payload or
\* without publish_executed, when its validated output is published instead.
Execute(kind) ==
  /\ in_flight = None /\ Len(storage) <= Len(Bundles)
  /\ \E p \in valid : \E bundle \in Bundles[Len(storage)] :
       LET b == Len(storage) + 1
           recorded == Recorded(bundle, storage[p])
       IN  /\ storage' = Append(storage, PostState(storage[p], recorded))
           /\ parent' = Append(parent, p)
           /\ in_flight' = Event(kind, b, ExtractChanges(WatchSets[hot], recorded))
           /\ unvalidated' = IF kind = "Executed" THEN b ELSE None
           /\ valid' = IF kind = "Executed" THEN valid ELSE valid \cup {b}
  /\ UNCHANGED <<head, queue, hot, publisher_vars>>

\* on_validated after the early observer: the hash alone.
Validate ==
  /\ in_flight = None /\ unvalidated # None
  /\ in_flight' = Event("Validated", unvalidated, {})
  /\ valid' = valid \cup {unvalidated} /\ unvalidated' = None
  /\ UNCHANGED <<storage, parent, head, queue, hot, publisher_vars>>

\* on_forkchoice_applied.
ApplyForkchoice(b) ==
  /\ in_flight = None /\ b \in valid /\ b # head
  /\ head' = b /\ in_flight' = Event("ForkchoiceApplied", b, {})
  /\ UNCHANGED <<storage, parent, valid, unvalidated, queue, hot, publisher_vars>>

Enqueue ==
  /\ in_flight # None /\ Len(queue) < QueueBound
  /\ queue' = Append(queue, in_flight) /\ in_flight' = None
  /\ UNCHANGED <<chain_vars, hot, publisher_vars>>

-----------------------------------------------------------------------------
(* The publisher thread. *)

HasProjection(b) == b \in DOMAIN candidates /\ candidates[b] # None

\* The projection of b from its parent's: cached, or read from the provider.
Insert(b, from, changes) ==
  /\ candidates' = Put(candidates, b, Project(from, changes))
  /\ deferred' = Drop(deferred, b)

Ignore == UNCHANGED <<candidates, deferred>>

\* project_candidate.  An executed block without a cached parent is deferred; a validated one
\* reads its parent, which the provider may not have any more.
ProjectCandidate(e, changes, executed) ==
  IF \/ e.generation < generation
     \/ HasProjection(e.block)
     \/ Number(e.block) <= Number(canonical) /\ parent[e.block] \notin DOMAIN candidates
    THEN Ignore
  ELSE IF HasProjection(parent[e.block])
    THEN Insert(e.block, candidates[parent[e.block]].values, changes)
  ELSE IF executed
    THEN /\ deferred' = IF e.block \in DOMAIN candidates THEN deferred
                        ELSE Put(deferred, e.block, changes)
         /\ UNCHANGED candidates
  ELSE Insert(e.block, Loaded(parent[e.block]).values, changes) \/ Ignore

TakeEvent(kind) ==
  /\ loaded = None /\ queue # <<>> /\ Head(queue).kind = kind
  /\ queue' = Tail(queue)
  /\ UNCHANGED <<chain_vars, in_flight, hot, generation, loaded>>

HandleBlock(kind) ==
  LET e == Head(queue)
  IN  /\ TakeEvent(kind)
      /\ IF e.covered THEN Ignore ELSE ProjectCandidate(e, e.changes, kind = "Executed")
      /\ UNCHANGED <<canonical, index>>

\* promote_validated: only a deferred block has anything left to project.
HandleValidated ==
  LET e == Head(queue)
  IN  /\ TakeEvent("Validated")
      /\ IF e.block \notin DOMAIN candidates /\ e.block \in DOMAIN deferred
           THEN ProjectCandidate(e, deferred[e.block], FALSE) ELSE Ignore
      /\ UNCHANGED <<canonical, index>>

\* canonical: the cached projection, or one read for the active dictionary; the consumer takes
\* over the values whose bits are set.
HandleForkchoice ==
  LET e == Head(queue)
      b == e.block
      next == IF e.generation = generation /\ HasProjection(b) THEN candidates[b] ELSE Loaded(b)
      bitmap == CanonicalBitmap(candidates[canonical], next, parent[b] = canonical)
  IN  /\ TakeEvent("ForkchoiceApplied")
      /\ IF e.covered \/ b = canonical THEN UNCHANGED <<canonical, index, candidates, deferred>>
         ELSE /\ canonical' = b
              /\ candidates' = Put(candidates, b, next) /\ deferred' = Drop(deferred, b)
              /\ index' = [i \in DOMAIN index |-> IF i \in bitmap THEN next.values[i] ELSE index[i]]

\* Bounds, retention and finality take candidates away, never the canonical one.
Evict(b) ==
  /\ loaded = None /\ b \in DOMAIN candidates \ {canonical} /\ candidates[b] # None
  /\ candidates' = [candidates EXCEPT ![b] = None]
  /\ UNCHANGED <<chain_vars, in_flight, queue, hot, generation, canonical, deferred, loaded, index>>

Retire(b) ==
  /\ loaded = None /\ b \in (DOMAIN candidates \cup DOMAIN deferred) \ {canonical}
  /\ candidates' = Drop(candidates, b) /\ deferred' = Drop(deferred, b)
  /\ UNCHANGED <<chain_vars, in_flight, queue, hot, generation, canonical, loaded, index>>

Covered(e) == [e EXCEPT !.covered = TRUE]

\* activate, first half: load_latest anchors the applied head; what was observed is covered.
LoadLatest ==
  /\ loaded = None /\ generation < Len(Dictionaries)
  /\ loaded' = head
  /\ queue' = [i \in DOMAIN queue |-> Covered(queue[i])]
  /\ in_flight' = IF in_flight = None THEN None ELSE Covered(in_flight)
  /\ UNCHANGED <<chain_vars, hot, generation, canonical, candidates, deferred, index>>

\* Fault: the snapshot is taken to be as new as its activation.
ActivateCovering ==
  LET values == LoadAt(WatchSets[generation + 1], storage[loaded])
  IN  /\ loaded # None /\ loaded' = None
      /\ generation' = generation + 1 /\ hot' = generation + 1
      /\ canonical' = loaded
      /\ candidates' = [b \in {loaded} |-> [values |-> values, bitmap |-> NoBitmap]]
      /\ deferred' = <<>>
      /\ index' = values
      /\ queue' = [i \in DOMAIN queue |-> Covered(queue[i])]
      /\ UNCHANGED <<chain_vars, in_flight>>

\* Second half: reset_candidates, ConfigActivated and Snapshot, and the hot path follows.
Activate ==
  LET values == LoadAt(WatchSets[generation + 1], storage[loaded])
  IN  /\ loaded # None /\ loaded' = None
      /\ generation' = generation + 1 /\ hot' = generation + 1
      /\ canonical' = loaded
      /\ candidates' = [b \in {loaded} |-> [values |-> values, bitmap |-> NoBitmap]]
      /\ deferred' = <<>>
      /\ index' = values
      /\ UNCHANGED <<chain_vars, in_flight, queue>>

Next ==
  \/ Execute("Executed") \/ Execute("ValidatedFallback") \/ Validate \/ Enqueue
  \/ \E b \in Blocks : ApplyForkchoice(b) \/ Evict(b) \/ Retire(b)
  \/ HandleBlock("Executed") \/ HandleBlock("ValidatedFallback") \/ HandleValidated
  \/ HandleForkchoice
  \/ LoadLatest \/ Activate

Spec == Init /\ [][Next]_vars

-----------------------------------------------------------------------------
(* Properties. *)

\* Incremental projection is exact: whatever was executed, deferred, evicted or reloaded in
\* between, a candidate's values are those a read of its own block's state would return, as
\* "applying a delta is idempotent" and "remains exact" claim, and its bitmap has exactly the
\* keys its block changed.
ProjectionExact ==
  \A b \in {x \in DOMAIN candidates : candidates[x] # None} :
    /\ candidates[b].values = LoadAt(Active, storage[b])
    /\ candidates[b].bitmap # NoBitmap =>
         candidates[b].bitmap = Differing(LoadAt(Active, storage[parent[b]]), candidates[b].values)

\* "downstream dependency indexes never miss a value changed by switching branches": a consumer
\* that looks only at set bits has the canonical block's values, across forks and reloads.
IndexExact == index = LoadAt(Active, storage[canonical])

\* Nothing a reload discards is missing later: once every event is handled, the published block
\* is the applied head.
QuiescentHead ==
  in_flight = None /\ queue = <<>> /\ loaded = None => canonical = head

=============================================================================
