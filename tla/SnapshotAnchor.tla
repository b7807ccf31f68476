--------------------------- MODULE SnapshotAnchor ---------------------------
(***************************************************************************)
(* How a canonical snapshot is anchored among the forkchoices the engine   *)
(* applies meanwhile: AppliedForkchoiceTracker, the lifecycle callbacks    *)
(* and RethSnapshotSource::load_latest in reth_integration.rs, and the     *)
(* publisher operations that load a snapshot or compare an event with      *)
(* snapshot_anchored_at in publisher.rs.                                   *)
(*                                                                         *)
(* The engine thread moves the provider, updates the tracker, reads the    *)
(* clock and sends its event in separate steps.  load_latest reads the     *)
(* tracker and the provider, reads the clock, and reads both again.  The   *)
(* lossy queue is used through what FeedQueue shows of it: an event is     *)
(* queued, or a recovery is owed before any later event is handled.        *)
(*                                                                         *)
(* The engine's decisions are numbered by the tracker's revision.  A view  *)
(* is three blocks, head, safe and finalized, and the provider moves and   *)
(* reports them one at a time.  Candidates, frames and shutdown belong to  *)
(* the other modules.                                                      *)
(***************************************************************************)
EXTENDS Integers, Sequences

CONSTANTS
  Blocks,        \* blocks the provider can report
  Choices,       \* forkchoices the engine can apply
  Genesis,       \* the provider's head, safe and finalized block at start-up
  Capacity,      \* stream.queue_capacity
  MaxAttempts,   \* MAX_CANONICAL_SNAPSHOT_ATTEMPTS
  CallbackTicks, \* how far Instant::now may be past its last reading on either thread: in a
  SnapshotTicks, \* callback, and in load_latest
  MaxDecisions,  \* bound: decisions of the engine
  MaxDisturbed   \* bound: provider errors and activated watch sets, together

Pieces == {"head", "safe", "finalized"}
Views == [Pieces -> Blocks]

ASSUME SnapshotAnchorAssumption ==
  /\ Genesis \in Blocks /\ Choices \subseteq Views
  /\ Capacity \in Nat \ {0} /\ MaxAttempts \in Nat \ {0}
  /\ CallbackTicks \subseteq Nat /\ SnapshotTicks \subseteq Nat
  /\ MaxDecisions \in Nat /\ MaxDisturbed \in Nat

VARIABLES
  provider,     \* the head, safe and finalized block the provider reports
  tracker,      \* AppliedForkchoiceTracker.latest
  clock,        \* the last reading of Instant::now
  engine,       \* the callback under way on the engine thread
  queue,        \* the data channel
  owed,         \* whether the enqueue word counts a drop: 0 or 1
  watch,        \* the generation of ProducerInner.watch_set
  pub,          \* the step of the publisher thread
  held,         \* the event dequeued and not yet handled
  load,         \* the locals of load_latest, and what it was called for
  published,    \* the canonical state last published; its revision is a ghost
  anchored_at,  \* Publisher.snapshot_anchored_at
  failures,     \* provider errors so far
  seen          \* ghost: the provider's states since load_latest read the tracker

engineVars == <<provider, tracker, engine>>
publisherVars == <<pub, held, load, published, anchored_at, failures>>
vars == <<engineVars, clock, queue, owed, watch, publisherVars, seen>>

NoView == [x \in Pieces |-> "none"]
Tracked == [revision : Nat, view : Views \cup {NoView}]

Events ==
  [kind : {"forkchoice", "reset"}, view : Views, observed_at : Nat, generation : Nat,
   revision : Nat]
NoEvent == [kind |-> "none"]
ActivateConfig == [kind |-> "activate"]

EngineSteps == {"idle", "moving", "tracked", "observed", "stamped"}

\* The steps of load_latest.
LoadSteps == {"load", "select_head", "select_safe", "select_finalized", "read", "unread",
              "stamp", "confirm", "confirm_head", "confirm_safe", "confirm_finalized"}

Initial == [x \in Pieces |-> Genesis]

\* The locals of a callback and of load_latest, and their values when they are out of use.
Callbacks ==
  [step : EngineSteps, kind : {"forkchoice", "reset"}, view : Views, left : SUBSET Pieces,
   observed_at : Nat, generation : Nat]
NoCallback ==
  [step |-> "idle", kind |-> "reset", view |-> Initial, left |-> {}, observed_at |-> 0,
   generation |-> 1]

Reasons == {"none", "start", "recover", "reset", "activate"}
Loads ==
  [why : Reasons, attempt : 1 .. MaxAttempts, tracked : Tracked, selected : Views,
   moved : {0, 1}, anchored_at : Nat]
Attempt(reason, n) ==
  [why |-> reason, attempt |-> n, tracked |-> [revision |-> 0, view |-> NoView],
   selected |-> Initial, moved |-> 0, anchored_at |-> 0]
NoLoad == Attempt("none", 1)

\* The types of the engine's, the queue's and the publisher's state.
TypeOK ==
  /\ provider \in Views /\ tracker \in Tracked
  /\ clock \in Nat /\ anchored_at \in Nat
  /\ engine \in Callbacks
  /\ queue \in Seq(Events) /\ Len(queue) <= Capacity
  /\ owed \in {0, 1} /\ watch \in Nat
  /\ pub \in LoadSteps \cup {"top", "check", "handle", "activate", "stopped"}
  /\ held \in Events \cup {NoEvent, ActivateConfig}
  /\ load \in Loads
  /\ published \in [view : Views, generation : Nat, revision : Nat]
  /\ failures \in Nat
  /\ seen \subseteq Views

\* start_service takes its first snapshot of a running node, whose engine may act at once.
Init ==
  /\ provider = Initial
  /\ tracker = [revision |-> 0, view |-> NoView]
  /\ clock = 0 /\ anchored_at = 0
  /\ engine = NoCallback
  /\ queue = <<>> /\ owed = 0 /\ watch = 1
  /\ pub = "load" /\ load = Attempt("start", 1) /\ held = NoEvent
  /\ published = [view |-> Initial, generation |-> 1, revision |-> 0]
  /\ failures = 0 /\ seen = {}

\* Instant::now, which does not go back.
Now(ticks) == \E d \in ticks : clock' = clock + d

\* One more error or activation is within the bound; the first generation is 1.
MayDisturb == failures + published.generation <= MaxDisturbed

-----------------------------------------------------------------------------
(* The engine thread.  What it does to the provider before its callback is external. *)

MovePiece(x, b) ==
  /\ provider' = [provider EXCEPT ![x] = b]
  /\ seen' = IF seen = {} THEN {} ELSE seen \cup {provider'}

\* A forkchoice is applied, or a backfill ends, which leaves safe and finalized as they are.
\* The head becomes canonical first.
Decide(kind, v) ==
  /\ engine.step = "idle" /\ tracker.revision < MaxDecisions
  /\ v \in IF kind = "forkchoice" THEN Choices
          ELSE {[provider EXCEPT !["head"] = b] : b \in Blocks}
  /\ engine' = [engine EXCEPT !.step = "moving", !.kind = kind, !.view = v,
                              !.left = IF kind = "reset" THEN {} ELSE Pieces \ {"head"}]
  /\ MovePiece("head", v["head"])
  /\ UNCHANGED <<tracker, clock, queue, owed, watch, publisherVars>>

\* Then safe and finalized follow, each on its own and in either order.
DecideCheckpoint(x) ==
  /\ engine.step = "moving" /\ x \in engine.left
  /\ engine' = [engine EXCEPT !.left = @ \ {x}]
  /\ MovePiece(x, engine.view[x])
  /\ UNCHANGED <<tracker, clock, queue, owed, watch, publisherVars>>

\* AppliedForkchoiceTracker::update, before the lossy queue.
UpdateTracker ==
  /\ engine.step = "moving" /\ engine.left = {}
  /\ engine' = [engine EXCEPT !.step = "tracked"]
  /\ tracker' = [revision |-> tracker.revision + 1,
                 view |-> IF engine.kind = "reset" THEN NoView ELSE engine.view]
  /\ UNCHANGED <<provider, clock, queue, owed, watch, publisherVars, seen>>

\* publish_forkchoice_applied and publish_canonical_state_reset: the clock, then the
\* generation, then try_send.
Observe ==
  /\ engine.step = "tracked"
  /\ Now(CallbackTicks)
  /\ engine' = [engine EXCEPT !.step = "observed", !.observed_at = clock']
  /\ UNCHANGED <<provider, tracker, queue, owed, watch, publisherVars, seen>>

LoadGeneration ==
  /\ engine.step = "observed"
  /\ engine' = [engine EXCEPT !.step = "stamped", !.generation = watch]
  /\ UNCHANGED <<provider, tracker, clock, queue, owed, watch, publisherVars, seen>>

\* try_send.  A full queue, an owed recovery or another producer's reservation drop the event.
TrySend ==
  /\ engine.step = "stamped" /\ engine' = NoCallback
  /\ \/ /\ owed = 0 /\ Len(queue) < Capacity
        /\ queue' = Append(queue,
             [kind |-> engine.kind, view |-> engine.view, observed_at |-> engine.observed_at,
              generation |-> engine.generation, revision |-> tracker.revision])
        /\ UNCHANGED owed
     \/ owed' = 1 /\ UNCHANGED queue
  /\ UNCHANGED <<provider, tracker, clock, watch, publisherVars, seen>>

Callback ==
  \/ \E x \in Pieces : DecideCheckpoint(x)
  \/ UpdateTracker \/ Observe \/ LoadGeneration \/ TrySend

-----------------------------------------------------------------------------
(* load_latest. *)

Provided == load.tracked.view = NoView

StartLoad(reason) == pub' = "load" /\ load' = Attempt(reason, 1)

\* What an error of load_latest means to its caller.
LoadFails ==
  /\ seen' = {}
  /\ \/ load.why = "start" /\ pub' = "stopped" /\ load' = NoLoad
     \/ load.why = "activate" /\ pub' = "top" /\ load' = NoLoad
     \/ load.why \in {"recover", "reset"} /\ StartLoad("recover")

\* The next attempt, if there is one.
Retry ==
  IF load.attempt < MaxAttempts
    THEN /\ load' = Attempt(load.why, load.attempt + 1)
         /\ pub' = "load" /\ seen' = {}
    ELSE LoadFails

LoadTracker ==
  /\ pub = "load"
  /\ load' = [load EXCEPT !.tracked = tracker,
                           !.selected = IF tracker.view = NoView THEN @ ELSE tracker.view]
  /\ pub' = IF tracker.view = NoView THEN "select_head" ELSE "read"
  /\ seen' = {provider}
  /\ UNCHANGED <<engineVars, clock, queue, owed, watch, held, published, anchored_at,
                 failures>>

\* chain_info, then safe_block_num_hash, then finalized_block_num_hash.
SelectPiece(x, from, to) ==
  /\ pub = from /\ pub' = to
  /\ load' = [load EXCEPT !.selected[x] = provider[x]]

Select ==
  /\ \/ SelectPiece("head", "select_head", "select_safe")
     \/ SelectPiece("safe", "select_safe", "select_finalized")
     \/ SelectPiece("finalized", "select_finalized", "read")
  /\ UNCHANGED <<engineVars, clock, queue, owed, watch, held, published, anchored_at,
                 failures, seen>>

\* load_at reads the state of one block hash: whole, or not at all.
ReadProjection ==
  /\ pub = "read"
  /\ \/ pub' = "stamp" /\ UNCHANGED failures
     \/ MayDisturb /\ failures' = failures + 1 /\ pub' = "unread"
  /\ UNCHANGED <<engineVars, clock, queue, owed, watch, held, load, published,
                 anchored_at, seen>>

\* An error is retried only if the anchor moved (of the two reads only the disjunction counts).
Unread ==
  /\ pub = "unread"
  /\ IF tracker.revision # load.tracked.revision
        \/ (Provided /\ provider["head"] # load.selected["head"])
       THEN Retry ELSE LoadFails
  /\ UNCHANGED <<engineVars, clock, queue, owed, watch, held, published, anchored_at, failures>>

\* Any other provider call returns its error at once.
ProviderError ==
  /\ pub \in {"select_head", "select_safe", "select_finalized",
              "confirm_head", "confirm_safe", "confirm_finalized"}
             \cup (IF Provided THEN {"unread"} ELSE {})
  /\ MayDisturb /\ failures' = failures + 1
  /\ LoadFails
  /\ UNCHANGED <<engineVars, clock, queue, owed, watch, held, published, anchored_at>>

\* anchored_at is read before the anchor is confirmed.
Stamp ==
  /\ pub = "stamp" /\ pub' = "confirm"
  /\ Now(SnapshotTicks)
  /\ load' = [load EXCEPT !.anchored_at = clock']
  /\ UNCHANGED <<engineVars, queue, owed, watch, held, published, anchored_at, failures,
                 seen>>

\* reanchor, activate or start_service with the snapshot; its frames were validated before.
PublishSnapshot ==
  /\ anchored_at' = load.anchored_at
  /\ published' = [view |-> load.selected, revision |-> load.tracked.revision,
                   generation |-> published.generation + (IF load.why = "activate" THEN 1 ELSE 0)]
  /\ pub' = IF load.why = "activate" THEN "activate"
            ELSE IF held = NoEvent THEN "top" ELSE "check"
  /\ load' = NoLoad /\ seen' = {}

\* Fault: a tracked view is not confirmed.
ConfirmProviderOnly ==
  /\ pub = "confirm"
  /\ \/ /\ Provided /\ pub' = "confirm_head"
        /\ load' = [load EXCEPT !.moved = IF tracker.revision = load.tracked.revision THEN 0 ELSE 1]
        /\ UNCHANGED <<published, anchored_at, seen>>
     \/ ~Provided /\ PublishSnapshot
  /\ UNCHANGED <<engineVars, clock, queue, owed, watch, held, failures>>

\* The tracker is confirmed first, then the provider's head, safe and finalized.
Confirm ==
  /\ pub = "confirm"
  /\ \/ /\ Provided /\ pub' = "confirm_head"
        /\ load' = [load EXCEPT !.moved = IF tracker.revision = load.tracked.revision THEN 0 ELSE 1]
        /\ UNCHANGED <<published, anchored_at, seen>>
     \/ /\ ~Provided /\ tracker.revision = load.tracked.revision
        /\ PublishSnapshot
     \/ /\ ~Provided /\ tracker.revision # load.tracked.revision
        /\ Retry /\ UNCHANGED <<published, anchored_at>>
  /\ UNCHANGED <<engineVars, clock, queue, owed, watch, held, failures>>

\* Fault: the provider's head is not confirmed.
ConfirmHeadUnread ==
  /\ pub = "confirm_head" /\ pub' = "confirm_safe"
  /\ UNCHANGED <<engineVars, clock, queue, owed, watch, held, load, published, anchored_at,
                 failures, seen>>

Reread(x) == load' = [load EXCEPT !.moved = IF provider[x] = load.selected[x] THEN @ ELSE 1]

ConfirmHead ==
  /\ pub = "confirm_head" /\ pub' = "confirm_safe"
  /\ Reread("head")
  /\ UNCHANGED <<engineVars, clock, queue, owed, watch, held, published, anchored_at,
                 failures, seen>>

ConfirmSafe ==
  /\ pub = "confirm_safe" /\ pub' = "confirm_finalized"
  /\ Reread("safe")
  /\ UNCHANGED <<engineVars, clock, queue, owed, watch, held, published, anchored_at,
                 failures, seen>>

ConfirmFinalized ==
  /\ pub = "confirm_finalized"
  /\ IF load.moved = 0 /\ provider["finalized"] = load.selected["finalized"]
       THEN PublishSnapshot ELSE Retry /\ UNCHANGED <<published, anchored_at>>
  /\ UNCHANGED <<engineVars, clock, queue, owed, watch, held, failures>>

LoadLatest ==
  \/ LoadTracker \/ Select \/ ReadProjection \/ Unread \/ Stamp
  \/ Confirm \/ ConfirmHead \/ ConfirmSafe \/ ConfirmFinalized

-----------------------------------------------------------------------------
(* The rest of the publisher thread. *)

\* An activation request, which the reloader sends at any time.  One for a generation that is
\* not above the published one is answered without effect.
ReceiveControl ==
  /\ pub = "top" /\ MayDisturb
  /\ held' = ActivateConfig /\ pub' = "check"
  /\ UNCHANGED <<engineVars, clock, queue, owed, watch, load, published, anchored_at,
                 failures, seen>>

ReceiveData ==
  /\ pub = "top" /\ queue # <<>>
  /\ held' = Head(queue) /\ queue' = Tail(queue) /\ pub' = "check"
  /\ UNCHANGED <<engineVars, clock, owed, watch, load, published, anchored_at, failures,
                 seen>>

\* Fault: the loss is looked for after a receive only.
TakePendingLossLate ==
  /\ pub = "check"
  /\ \/ /\ owed = 1 /\ owed' = 0
        /\ StartLoad("recover")
     \/ /\ owed = 0 /\ pub' = "handle"
        /\ UNCHANGED <<owed, load>>
  /\ UNCHANGED <<engineVars, clock, queue, watch, held, published, anchored_at, failures, seen>>

\* recover_pending_loss, at the head of the loop and after every receive.
TakePendingLoss ==
  /\ pub \in {"top", "check"}
  /\ \/ /\ owed = 1 /\ owed' = 0
        /\ StartLoad("recover")
     \/ /\ owed = 0 /\ pub = "check" /\ pub' = "handle"
        /\ UNCHANGED <<owed, load>>
  /\ UNCHANGED <<engineVars, clock, queue, watch, held, published, anchored_at, failures, seen>>

\* A candidate event or the maintenance of candidates fails.
OtherError ==
  /\ pub = "top" /\ MayDisturb /\ failures' = failures + 1
  /\ StartLoad("recover")
  /\ UNCHANGED <<engineVars, clock, queue, owed, watch, held, published, anchored_at, seen>>

\* Fault: an event observed in the tick of the snapshot's clock reading is applied on top.
CoveredStrictly(e) == e.observed_at < anchored_at

\* The snapshot taken at anchored_at includes what was observed no later.
Covered(e) == e.observed_at <= anchored_at

Handle ==
  /\ pub = "handle" /\ held' = NoEvent
  /\ \/ /\ held.kind = "activate"
        /\ StartLoad("activate")
        /\ UNCHANGED <<published, failures>>
     \/ /\ held.kind \in {"forkchoice", "reset"} /\ held.generation > published.generation
        /\ StartLoad("recover")
        /\ UNCHANGED <<published, failures>>
     \/ /\ held.kind \in {"forkchoice", "reset"} /\ held.generation <= published.generation
        /\ Covered(held)
        /\ pub' = "top" /\ UNCHANGED <<load, published, failures>>
     \/ /\ held.kind = "reset" /\ held.generation <= published.generation /\ ~Covered(held)
        /\ StartLoad("reset")
        /\ UNCHANGED <<published, failures>>
     \/ /\ held.kind = "forkchoice" /\ held.generation <= published.generation
        /\ ~Covered(held)
        /\ \/ /\ published' = [published EXCEPT !.view = held.view, !.revision = held.revision]
              /\ pub' = "top" /\ UNCHANGED <<load, failures>>
           \/ /\ MayDisturb /\ failures' = failures + 1
              /\ StartLoad("recover") /\ UNCHANGED published
  /\ UNCHANGED <<engineVars, clock, queue, owed, watch, anchored_at, seen>>

\* producer.activate, after both frames of the new generation.
ActivateProducer ==
  /\ pub = "activate" /\ pub' = "top"
  /\ watch' = published.generation
  /\ UNCHANGED <<engineVars, clock, queue, owed, held, load, published, anchored_at,
                 failures, seen>>

Publisher ==
  LoadLatest \/ ReceiveData \/ TakePendingLoss \/ Handle \/ ActivateProducer

Next ==
  \/ \E kind \in {"forkchoice", "reset"}, v \in Views : Decide(kind, v)
  \/ Callback \/ Publisher \/ ProviderError \/ OtherError \/ ReceiveControl

Spec == Init /\ [][Next]_vars

\* The engine finishes a callback and the publisher thread is scheduled.
FairSpec == Spec /\ WF_vars(Callback) /\ WF_vars(Publisher)

-----------------------------------------------------------------------------
(* Properties. *)

\* "Canonical callbacks observed no later than this instant are already covered by the
\* snapshot."  Every decision the engine has reported is in the published state, is queued or
\* held, or is owed a recovery: the time filter, the retries of load_latest and the drops of
\* the queue never lose one between them.
NothingForgotten ==
  \A n \in 1 .. tracker.revision :
    \/ n <= published.revision
    \/ n = tracker.revision /\ engine.step \in {"tracked", "observed", "stamped"}
    \/ \E i \in 1 .. Len(queue) : queue[i].revision = n
    \/ held \in Events /\ held.revision = n
    \/ owed = 1
    \/ load.why \in {"recover", "reset"}

\* A snapshot or a replayed event never takes the stream back to an older decision ("any
\* overflow snapshot is then at least as recent as the event which failed to enqueue").
NeverRollsBack == [][published'.revision >= published.revision]_vars

\* Without a tracked forkchoice load_latest reads head, safe and finalized in three calls and
\* confirms them in three more, while the engine moves them one by one.  What it returns was the
\* provider's state, all three together, at one moment since it read the tracker; or a decision
\* has been reported meanwhile, whose event (NothingForgotten) replaces it.
SnapshotUntorn ==
  [][pub = "confirm_finalized" /\ PublishSnapshot =>
       load.selected \in seen \/ tracker.revision > load.tracked.revision]_vars

\* "This ordering prevents block events from referencing a dictionary consumers have not seen":
\* no event on its way is of a generation above the published one.
GenerationNotAhead ==
  /\ engine.generation <= published.generation
  /\ held \in Events => held.generation <= published.generation
  /\ \A i \in 1 .. Len(queue) : queue[i].generation <= published.generation

\* What the engine last decided: its forkchoice, or the provider's state without one.
Current == IF tracker.view = NoView THEN provider ELSE tracker.view

\* Once the engine pauses, the stream arrives at its last decision, whatever was lost, raced
\* or failed before (unless the service could not start).
Converges == <>[](pub = "stopped" \/ published.view = Current)

=============================================================================
