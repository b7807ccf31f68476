------------------------ MODULE SnapshotAnchorProofs ------------------------
(***************************************************************************)
(* Proofs about SnapshotAnchor, for any heads and checkpoints, any queue   *)
(* capacity and any number of attempts.  What depends on the clock says so *)
(* (Strict): that a callback reads a later time than load_latest before it. *)
(***************************************************************************)
EXTENDS SnapshotAnchor, TLAPS

\* A callback never reads the time an earlier reading had.
Strict == 0 \notin CallbackTicks

\* The event of decision r, observed at t, is on its way to the publisher.
IsEvent(e) == e.kind \in {"forkchoice", "reset"}
InFlight(r, t) ==
  \/ \E i \in 1 .. Len(queue) : queue[i].revision = r /\ queue[i].observed_at = t
  \/ IsEvent(held) /\ held.revision = r /\ held.observed_at = t
  \/ engine.step \in {"observed", "stamped"} /\ tracker.revision = r /\ engine.observed_at = t

\* The decision n is on its way, or a drop has been counted.
Reporting == engine.step \in {"tracked", "observed", "stamped"}
Pending(n) ==
  \/ n = tracker.revision /\ Reporting
  \/ \E i \in 1 .. Len(queue) : queue[i].revision = n
  \/ IsEvent(held) /\ held.revision = n
  \/ owed = 1

\* Events are sent in the order of their revisions.
Sorted ==
  /\ \A i, j \in 1 .. Len(queue) : i < j => queue[i].revision < queue[j].revision
  /\ IsEvent(held) => \A i \in 1 .. Len(queue) : held.revision < queue[i].revision
  /\ Reporting => /\ \A i \in 1 .. Len(queue) : queue[i].revision < tracker.revision
                  /\ IsEvent(held) => held.revision < tracker.revision

\* Nothing is from the future.
ConfirmPieces == {"confirm_head", "confirm_safe", "confirm_finalized"}
Confirming == pub \in {"confirm"} \cup ConfirmPieces
Bounded ==
  /\ published.revision <= tracker.revision
  /\ anchored_at <= clock
  /\ Confirming => load.anchored_at <= clock
  /\ \A r, t \in Nat : InFlight(r, t) => r <= tracker.revision /\ t <= clock

\* The time filter is exact: what it keeps is not older than the published state, and on a strict
\* clock what it drops is in the published state.
FilterExact ==
  \A r, t \in Nat : InFlight(r, t) =>
    /\ Strict /\ t <= anchored_at => r <= published.revision
    /\ t > anchored_at => r >= published.revision

\* Once load_latest has read the tracker: what it will publish is not older than what is
\* published.
LoadNewer ==
  pub \in LoadSteps \ {"load"} =>
    /\ published.revision <= load.tracked.revision
    /\ load.tracked.revision <= tracker.revision

\* Once it has read the clock: an event observed later is not older than the tracker's view.
LoadKeeps ==
  Confirming =>
    \A r, t \in Nat : InFlight(r, t) /\ t > load.anchored_at => r >= load.tracked.revision

\* Once it has confirmed the tracker: an event observed earlier is part of the view.
LoadCovers ==
  Strict /\ pub \in ConfirmPieces /\ load.moved = 0 =>
    \A r, t \in Nat : InFlight(r, t) /\ t <= load.anchored_at => r <= load.tracked.revision

\* A recovery that has read the tracker makes good all that is not on its way.
LoadComplete ==
  pub \in LoadSteps \ {"load"} /\ load.why \in {"recover", "reset"} =>
    \A n \in 1 .. tracker.revision : n <= load.tracked.revision \/ Pending(n)

\* Only load_latest has a reason, and an event is held only until it is handled.
Idle ==
  /\ pub \notin LoadSteps => load.why = "none"
  /\ pub \in LoadSteps => load.why # "none"
  /\ IsEvent(held) => pub \in {"check", "handle"} \/ load.why = "recover"

NoneForgotten ==
  Strict => \A n \in 1 .. tracker.revision :
    n <= published.revision \/ Pending(n) \/ load.why \in {"recover", "reset"}

Exact ==
  /\ Bounded /\ FilterExact
  /\ LoadNewer /\ LoadKeeps /\ LoadCovers /\ LoadComplete /\ NoneForgotten

IInv == TypeOK /\ Idle /\ Sorted /\ Exact

-----------------------------------------------------------------------------

\* Instant::now does not go back, and moves on where it is strict.
LEMMA NowAdvances ==
  ASSUME clock \in Nat
  PROVE  /\ Now(CallbackTicks) =>
              clock' \in Nat /\ clock' >= clock /\ (Strict => clock' > clock)
         /\ Now(SnapshotTicks) => clock' \in Nat /\ clock' >= clock
BY SnapshotAnchorAssumption DEF Now, Strict

\* The initial state has the types.
LEMMA TypeInit == Init => TypeOK
BY SnapshotAnchorAssumption DEF Init, TypeOK, NoCallback, Callbacks, NoLoad, Attempt, Loads,
   Initial, Views, Tracked, LoadSteps, EngineSteps, Reasons

\* A new attempt of load_latest has the type of one.
LEMMA AttemptType ==
  /\ \A reason \in Reasons, n \in 1 .. MaxAttempts : Attempt(reason, n) \in Loads
  /\ NoLoad \in Loads
BY SnapshotAnchorAssumption DEF Attempt, NoLoad, Loads, Initial, Views, Tracked, Reasons

\* LoadFails, Retry and StartLoad leave a step and locals of their types.
LEMMA LoadFailsType ==
  ASSUME TypeOK, LoadFails
  PROVE  load' \in Loads /\ pub' \in {"stopped", "top", "load"} /\ seen' = {}
BY AttemptType, SnapshotAnchorAssumption DEF LoadFails, StartLoad, Reasons

LEMMA RetryType ==
  ASSUME TypeOK, Retry
  PROVE  load' \in Loads /\ pub' \in {"stopped", "top", "load"} /\ seen' = {}
<1>1. CASE load.attempt < MaxAttempts
  <2>1. load.why \in Reasons /\ load.attempt + 1 \in 1 .. MaxAttempts
    BY <1>1, SnapshotAnchorAssumption DEF TypeOK, Loads
  <2>2. QED
    BY <1>1, <2>1, AttemptType DEF Retry
<1>2. CASE ~(load.attempt < MaxAttempts)
  BY <1>2, LoadFailsType DEF Retry
<1>3. QED
  BY <1>1, <1>2

LEMMA PublishSnapshotType ==
  ASSUME TypeOK, PublishSnapshot
  PROVE  /\ load' \in Loads /\ pub' \in {"activate", "top", "check"} /\ seen' = {}
         /\ anchored_at' \in Nat
         /\ published' \in [view : Views, generation : Nat, revision : Nat]
<1>1. load' \in Loads /\ pub' \in {"activate", "top", "check"} /\ seen' = {}
  BY AttemptType DEF PublishSnapshot
<1>2. load.selected \in Views /\ load.tracked.revision \in Nat /\ load.anchored_at \in Nat
  BY DEF TypeOK, Loads, Tracked
<1>3. published.generation + (IF load.why = "activate" THEN 1 ELSE 0) \in Nat
  BY DEF TypeOK
<1>4. QED
  BY <1>1, <1>2, <1>3 DEF PublishSnapshot

\* Every step of a callback, of load_latest and of the publisher's loop keeps the types.
LEMMA QueuedEvents ==
  ASSUME TypeOK
  PROVE  \A i \in 1 .. Len(queue) : queue[i] \in Events
BY DEF TypeOK

LEMMA TypeInductive == TypeOK /\ [Next]_vars => TypeOK'
<1> SUFFICES ASSUME TypeOK, [Next]_vars PROVE TypeOK'
  OBVIOUS
<1> USE SnapshotAnchorAssumption DEF engineVars, publisherVars
<1>1. ASSUME NEW kind \in {"forkchoice", "reset"}, NEW v \in Views, Decide(kind, v)
      PROVE  TypeOK'
  <2>1. engine' \in Callbacks
    BY <1>1, ZenonT(30) DEF Decide, TypeOK, Callbacks, EngineSteps
  <2>2. [provider EXCEPT !["head"] = v["head"]] \in Views
    BY DEF TypeOK, Views, Pieces
  <2>3. provider' \in Views /\ seen' \subseteq Views
    BY <1>1, <2>2, ZenonT(30) DEF Decide, MovePiece, TypeOK
  <2>4. QED
    BY <1>1, <2>1, <2>3 DEF Decide, TypeOK
<1>2. ASSUME NEW x \in Pieces, DecideCheckpoint(x)
      PROVE  TypeOK'
  <2>1. engine' \in Callbacks
    BY <1>2, ZenonT(30) DEF DecideCheckpoint, TypeOK, Callbacks
  <2>2. [provider EXCEPT ![x] = engine.view[x]] \in Views
    BY DEF TypeOK, Views, Callbacks
  <2>3. provider' \in Views /\ seen' \subseteq Views
    BY <1>2, <2>2, ZenonT(30) DEF DecideCheckpoint, MovePiece, TypeOK
  <2>4. QED
    BY <1>2, <2>1, <2>3 DEF DecideCheckpoint, TypeOK
<1>3. CASE UpdateTracker
  <2>1. engine.view \in Views /\ engine' \in Callbacks
    BY <1>3, ZenonT(30) DEF UpdateTracker, TypeOK, Callbacks, EngineSteps
  <2>2. tracker' \in Tracked
    BY <1>3, <2>1, SMTT(30) DEF UpdateTracker, TypeOK, Tracked
  <2>3. QED
    BY <1>3, <2>1, <2>2 DEF UpdateTracker, TypeOK
<1>4. CASE Observe
  BY <1>4, NowAdvances, ZenonT(30) DEF Observe, TypeOK, Callbacks, EngineSteps
<1>5. CASE LoadGeneration
  BY <1>5, ZenonT(30) DEF LoadGeneration, TypeOK, Callbacks, EngineSteps
<1>6. CASE TrySend
  <2> DEFINE e == [kind |-> engine.kind, view |-> engine.view,
                   observed_at |-> engine.observed_at, generation |-> engine.generation,
                   revision |-> tracker.revision]
  <2>1. e \in Events
    BY DEF TypeOK, Callbacks, Tracked, Events
  <2>2. engine' \in Callbacks
    BY <1>6 DEF TrySend, NoCallback, Callbacks, EngineSteps, Initial, Views
  <2>3. queue' \in Seq(Events) /\ Len(queue') <= Capacity /\ owed' \in {0, 1}
    <3> HIDE DEF e
    <3>1. CASE queue' = Append(queue, e) /\ Len(queue) < Capacity /\ owed' = owed
      BY <2>1, <3>1 DEF TypeOK
    <3>2. CASE queue' = queue /\ owed' = 1
      BY <3>2 DEF TypeOK
    <3>3. QED
      BY <3>1, <3>2, <1>6 DEF TrySend, e
  <2>4. QED
    BY <1>6, <2>2, <2>3 DEF TrySend, TypeOK
<1>7. CASE LoadTracker
  BY <1>7, ZenonT(30) DEF LoadTracker, TypeOK, Loads, Tracked, LoadSteps
<1>8. CASE Select
  <2>1. \A x \in Pieces : [load.selected EXCEPT ![x] = provider[x]] \in Views
    BY DEF TypeOK, Loads, Views
  <2>2. load' \in Loads
    BY <1>8, <2>1, ZenonT(30) DEF Select, SelectPiece, Pieces, TypeOK, Loads
  <2>3. QED
    BY <1>8, <2>2 DEF Select, SelectPiece, TypeOK, LoadSteps
<1>9. CASE ReadProjection
  BY <1>9 DEF ReadProjection, TypeOK, LoadSteps
<1>10. CASE Unread
  BY <1>10, RetryType, LoadFailsType DEF Unread, TypeOK, LoadSteps
<1>11. CASE ProviderError
  BY <1>11, LoadFailsType DEF ProviderError, TypeOK, LoadSteps
<1>12. CASE Stamp
  BY <1>12, NowAdvances, ZenonT(30) DEF Stamp, TypeOK, Loads, LoadSteps
<1>13. CASE Confirm
  <2>1. CASE Provided
    BY <1>13, <2>1, ZenonT(30) DEF Confirm, TypeOK, Loads, LoadSteps
  <2>2. CASE ~Provided
    BY <1>13, <2>2, RetryType, PublishSnapshotType, SMTT(30) DEF Confirm, TypeOK, LoadSteps
  <2>3. QED
    BY <2>1, <2>2
<1>14. CASE ConfirmHead \/ ConfirmSafe
  <2>1. load' \in Loads
    BY <1>14, ZenonT(30) DEF ConfirmHead, ConfirmSafe, Reread, TypeOK, Loads
  <2>2. QED
    BY <1>14, <2>1 DEF ConfirmHead, ConfirmSafe, TypeOK, LoadSteps
<1>15. CASE ConfirmFinalized
  BY <1>15, RetryType, PublishSnapshotType DEF ConfirmFinalized, TypeOK, LoadSteps
<1>16. CASE ReceiveControl
  BY <1>16 DEF ReceiveControl, TypeOK
<1>17. CASE ReceiveData
  <2>1. Head(queue) \in Events /\ Tail(queue) \in Seq(Events) /\ Len(Tail(queue)) <= Capacity
    BY <1>17 DEF ReceiveData, TypeOK
  <2>2. QED
    BY <1>17, <2>1 DEF ReceiveData, TypeOK
<1>18. CASE TakePendingLoss \/ OtherError
  BY <1>18, AttemptType, SMTT(30) DEF TakePendingLoss, OtherError, StartLoad, TypeOK, LoadSteps, Reasons
<1>19. CASE Handle
  <2>1. load' \in Loads /\ pub' \in {"load", "top"} /\ failures' \in Nat
    <3>1. /\ load' = load \/ \E reason \in Reasons : load' = Attempt(reason, 1)
          /\ pub' \in {"load", "top"}
          /\ failures' = failures \/ failures' = failures + 1
      BY <1>19 DEF Handle, StartLoad, Reasons
    <3>2. QED
      BY <3>1, AttemptType DEF TypeOK
  <2>2. published' \in [view : Views, generation : Nat, revision : Nat]
    <3>1. held.kind = "forkchoice" => held.view \in Views /\ held.revision \in Nat
      BY DEF TypeOK, Events, NoEvent, ActivateConfig
    <3>2. QED
      BY <1>19, <3>1, ZenonT(30) DEF Handle, TypeOK
  <2>3. QED
    BY <1>19, <2>1, <2>2, SMTT(30) DEF Handle, TypeOK, LoadSteps
<1>20. CASE ActivateProducer
  BY <1>20 DEF ActivateProducer, TypeOK
<1>21. CASE UNCHANGED vars
  BY <1>21 DEF vars, TypeOK
<1>22. QED
  BY <1>1, <1>2, <1>3, <1>4, <1>5, <1>6, <1>7, <1>8, <1>9, <1>10, <1>11, <1>12, <1>13, <1>14,
     <1>15, <1>16, <1>17, <1>18, <1>19, <1>20, <1>21
     DEF Next, Callback, Publisher, LoadLatest

\* A step that leaves the queue, the held event, the tracker and the callback alone leaves
\* every event and every pending decision where it is.
LEMMA SameFlight ==
  ASSUME UNCHANGED <<queue, held, engine, tracker>>
  PROVE  /\ \A r, t : InFlight(r, t)' = InFlight(r, t)
         /\ owed' = owed => \A n : Pending(n)' = Pending(n)
         /\ Sorted' = Sorted
BY DEF InFlight, Pending, Reporting, Sorted, IsEvent

\* Events come into flight in Observe alone.
LEMMA FlightStep ==
  ASSUME TypeOK, [Next]_vars, NEW r, NEW t, InFlight(r, t)'
  PROVE  \/ InFlight(r, t)
         \/ /\ engine.step = "tracked" /\ engine'.step = "observed"
            /\ r = tracker.revision /\ t = clock'
<1> USE DEF engineVars, publisherVars
<1>1. ASSUME NEW kind \in {"forkchoice", "reset"}, NEW v \in Views, Decide(kind, v)
      PROVE  InFlight(r, t)
  BY <1>1 DEF Decide, TypeOK, Callbacks, InFlight, IsEvent
<1>2. ASSUME NEW x \in Pieces, DecideCheckpoint(x)
      PROVE  InFlight(r, t)
  BY <1>2 DEF DecideCheckpoint, TypeOK, Callbacks, InFlight, IsEvent
<1>3. CASE UpdateTracker
  BY <1>3 DEF UpdateTracker, TypeOK, Callbacks, InFlight, IsEvent
<1>4. CASE Observe
  BY <1>4 DEF Observe, TypeOK, Callbacks, InFlight, IsEvent
<1>5. CASE LoadGeneration
  BY <1>5 DEF LoadGeneration, TypeOK, Callbacks, InFlight, IsEvent
<1>6. CASE TrySend
  <2>1. /\ engine.step = "stamped" /\ engine'.step = "idle"
        /\ UNCHANGED <<held, tracker>>
    BY <1>6 DEF TrySend, NoCallback
  <2>2. CASE queue' = queue
    BY <2>1, <2>2 DEF InFlight, IsEvent
  <2>3. CASE queue' # queue
    <3> DEFINE e == [kind |-> engine.kind, view |-> engine.view,
                     observed_at |-> engine.observed_at, generation |-> engine.generation,
                     revision |-> tracker.revision]
    <3>1. queue' = Append(queue, e)
      BY <1>6, <2>3 DEF TrySend
    <3>2. e.revision = tracker.revision /\ e.observed_at = engine.observed_at
      OBVIOUS
    <3> HIDE DEF e
    <3>3. /\ Len(queue') = Len(queue) + 1 /\ Len(queue) \in Nat
          /\ \A i \in 1 .. Len(queue) : queue'[i] = queue[i]
          /\ queue'[Len(queue) + 1] = e
      BY <3>1, SMTT(30) DEF TypeOK
    <3>4. QED
      BY <2>1, <3>2, <3>3 DEF InFlight, IsEvent
  <2>4. QED
    BY <2>2, <2>3
<1>7. CASE \/ LoadLatest \/ ProviderError \/ OtherError \/ TakePendingLoss \/ ActivateProducer
           \/ UNCHANGED vars
  BY <1>7, SameFlight DEF LoadLatest, LoadTracker, Select, ReadProjection, Unread, Stamp,
     Confirm, ConfirmHead, ConfirmSafe, ConfirmFinalized, ProviderError, OtherError,
     TakePendingLoss, ActivateProducer, vars
<1>8. CASE ReceiveControl
  BY <1>8 DEF ReceiveControl, ActivateConfig, InFlight, IsEvent
<1>9. CASE ReceiveData
  BY <1>9 DEF ReceiveData, TypeOK, InFlight, IsEvent
<1>10. CASE Handle
  BY <1>10 DEF Handle, NoEvent, InFlight, IsEvent
<1>11. QED
  BY <1>1, <1>2, <1>3, <1>4, <1>5, <1>6, <1>7, <1>8, <1>9, <1>10 DEF Next, Callback, Publisher

\* The queue keeps the order in which the decisions were numbered.
LEMMA SortedStep ==
  ASSUME TypeOK, Idle, Sorted, Bounded, [Next]_vars
  PROVE  Sorted'
<1> USE DEF engineVars, publisherVars
<1>0. /\ \A i \in 1 .. Len(queue) : queue[i].revision \in Nat /\ queue[i].observed_at \in Nat
      /\ IsEvent(held) => held.revision \in Nat /\ held.observed_at \in Nat
      /\ tracker.revision \in Nat
  <2>1. \A i \in 1 .. Len(queue) : queue[i] \in Events
    BY DEF TypeOK
  <2>2. IsEvent(held) => held \in Events
    BY DEF TypeOK, IsEvent, NoEvent, ActivateConfig
  <2>3. QED
    BY <2>1, <2>2, ZenonT(30) DEF Events, TypeOK, Tracked
<1>1. ASSUME NEW kind \in {"forkchoice", "reset"}, NEW v \in Views, Decide(kind, v)
      PROVE  Sorted'
  BY <1>1 DEF Decide, TypeOK, Callbacks, Sorted, Reporting, IsEvent
<1>2. ASSUME NEW x \in Pieces, DecideCheckpoint(x)
      PROVE  Sorted'
  BY <1>2 DEF DecideCheckpoint, TypeOK, Callbacks, Sorted, Reporting, IsEvent
<1>3. CASE UpdateTracker
  <2>1. \A i \in 1 .. Len(queue) : queue[i].revision <= tracker.revision
    BY <1>0 DEF Bounded, InFlight
  <2>2. IsEvent(held) => held.revision <= tracker.revision
    BY <1>0 DEF Bounded, InFlight
  <2>3. tracker'.revision = tracker.revision + 1 /\ UNCHANGED <<queue, held>>
    BY <1>3 DEF UpdateTracker
  <2>4. QED
    BY <1>0, <2>1, <2>2, <2>3 DEF Sorted, IsEvent
<1>4. CASE Observe \/ LoadGeneration
  BY <1>4, SMTT(30) DEF Observe, LoadGeneration, TypeOK, Callbacks, Sorted, Reporting, IsEvent
<1>5. CASE TrySend
  <2>1. ~Reporting' /\ Reporting /\ UNCHANGED <<held, tracker>>
    BY <1>5 DEF TrySend, NoCallback, Reporting
  <2>2. CASE queue' = queue
    BY <2>1, <2>2 DEF Sorted, IsEvent
  <2>3. CASE queue' # queue
    <3> DEFINE e == [kind |-> engine.kind, view |-> engine.view,
                     observed_at |-> engine.observed_at, generation |-> engine.generation,
                     revision |-> tracker.revision]
    <3>1. queue' = Append(queue, e)
      BY <1>5, <2>3 DEF TrySend
    <3>2. e.revision = tracker.revision
      OBVIOUS
    <3> HIDE DEF e
    <3>3. /\ Len(queue') = Len(queue) + 1
          /\ \A i \in 1 .. Len(queue) : queue'[i] = queue[i]
          /\ queue'[Len(queue) + 1] = e
      BY <3>1 DEF TypeOK
    <3>4. Len(queue) \in Nat
      BY DEF TypeOK
    <3>5. QED
      <4>1. ASSUME NEW i \in 1 .. Len(queue'), NEW j \in 1 .. Len(queue'), i < j
            PROVE  queue'[i].revision < queue'[j].revision
        <5>1. i \in 1 .. Len(queue) /\ (j \in 1 .. Len(queue) \/ j = Len(queue) + 1)
          BY <3>3, <3>4, <4>1
        <5>2. QED
          BY <2>1, <3>2, <3>3, <4>1, <5>1 DEF Sorted
      <4>2. ASSUME IsEvent(held'), NEW i \in 1 .. Len(queue')
            PROVE  held'.revision < queue'[i].revision
        <5>1. i \in 1 .. Len(queue) \/ i = Len(queue) + 1
          BY <3>3, <3>4
        <5>2. QED
          BY <2>1, <3>2, <3>3, <4>2, <5>1 DEF Sorted, IsEvent
      <4>3. QED
        BY <2>1, <4>1, <4>2 DEF Sorted, IsEvent
  <2>4. QED
    BY <2>2, <2>3
<1>6. CASE \/ LoadLatest \/ ProviderError \/ OtherError \/ TakePendingLoss \/ ActivateProducer
           \/ UNCHANGED vars
  BY <1>6, SameFlight, ZenonT(30)
     DEF LoadLatest, LoadTracker, Select, ReadProjection, Unread, Stamp,
     Confirm, ConfirmHead, ConfirmSafe, ConfirmFinalized, ProviderError, OtherError,
     TakePendingLoss, ActivateProducer, vars
<1>7. CASE ReceiveControl
  BY <1>7 DEF ReceiveControl, ActivateConfig, Sorted, Reporting, IsEvent
<1>8. CASE ReceiveData
  <2>1. /\ Len(queue) \in Nat \ {0} /\ Len(queue') = Len(queue) - 1
        /\ \A i \in 1 .. Len(queue') : queue'[i] = queue[i + 1]
        /\ held' = queue[1] /\ UNCHANGED <<tracker, engine>>
    BY <1>8 DEF ReceiveData, TypeOK
  <2>2. QED
    <3>1. ASSUME NEW i \in 1 .. Len(queue')
          PROVE  i + 1 \in 1 .. Len(queue) /\ queue'[i] = queue[i + 1] /\ 1 < i + 1
      BY <2>1
    <3>2. 1 \in 1 .. Len(queue)
      BY <2>1
    <3>3. \A i, j \in 1 .. Len(queue') : i < j => queue'[i].revision < queue'[j].revision
      BY <2>1, <3>1, SMTT(30) DEF Sorted
    <3>4. \A i \in 1 .. Len(queue') : held'.revision < queue'[i].revision
      BY <2>1, <3>1, <3>2 DEF Sorted
    <3>5. Reporting' => /\ \A i \in 1 .. Len(queue') : queue'[i].revision < tracker'.revision
                        /\ held'.revision < tracker'.revision
      BY <2>1, <3>1, <3>2 DEF Sorted, Reporting
    <3>6. QED
      BY <3>3, <3>4, <3>5 DEF Sorted
<1>9. CASE Handle
  BY <1>9 DEF Handle, NoEvent, Sorted, Reporting, IsEvent
<1>10. QED
  BY <1>1, <1>2, <1>3, <1>4, <1>5, <1>6, <1>7, <1>8, <1>9 DEF Next, Callback, Publisher

\* A pending decision stays so until its event is handled or a recovery starts.
LEMMA PendingStep ==
  ASSUME TypeOK, Idle, [Next]_vars, NEW n, Pending(n)
  PROVE  \/ Pending(n)'
         \/ pub \in {"top", "check"} /\ pub' = "load" /\ load'.why = "recover"
         \/ pub = "handle" /\ pub' # "handle" /\ IsEvent(held) /\ n = held.revision
<1> USE DEF engineVars, publisherVars
<1>1. ASSUME NEW kind \in {"forkchoice", "reset"}, NEW v \in Views, Decide(kind, v)
      PROVE  Pending(n)'
  BY <1>1 DEF Decide, TypeOK, Callbacks, Pending, Reporting, IsEvent
<1>2. CASE UpdateTracker \/ \E x \in Pieces : DecideCheckpoint(x)
  BY <1>2 DEF DecideCheckpoint, UpdateTracker, TypeOK, Callbacks, Pending, Reporting, IsEvent
<1>3. CASE Observe \/ LoadGeneration
  BY <1>3, ZenonT(30) DEF Observe, LoadGeneration, TypeOK, Callbacks, Pending, Reporting, IsEvent
<1>4. CASE TrySend
  <2>1. CASE owed' = 1
    BY <2>1 DEF Pending
  <2>2. CASE owed' # 1
    <3> DEFINE e == [kind |-> engine.kind, view |-> engine.view,
                     observed_at |-> engine.observed_at, generation |-> engine.generation,
                     revision |-> tracker.revision]
    <3>1. queue' = Append(queue, e) /\ owed # 1 /\ UNCHANGED <<held, tracker>>
      BY <1>4, <2>2 DEF TrySend
    <3>2. e.revision = tracker.revision
      OBVIOUS
    <3> HIDE DEF e
    <3>3. /\ Len(queue') = Len(queue) + 1 /\ Len(queue) \in Nat
          /\ \A i \in 1 .. Len(queue) : queue'[i] = queue[i]
          /\ queue'[Len(queue) + 1] = e
      BY <3>1, SMTT(30) DEF TypeOK
    <3>4. QED
      BY <3>1, <3>2, <3>3 DEF Pending, IsEvent
  <2>3. QED
    BY <2>1, <2>2
<1>5. CASE LoadLatest \/ ProviderError \/ OtherError \/ ActivateProducer \/ UNCHANGED vars
  BY <1>5, SameFlight DEF LoadLatest, LoadTracker, Select, ReadProjection, Unread, Stamp,
     Confirm, ConfirmHead, ConfirmSafe, ConfirmFinalized, ProviderError, OtherError,
     ActivateProducer, vars
<1>6. CASE TakePendingLoss
  <2>1. CASE owed = 1
    BY <1>6, <2>1, SMTT(30) DEF TakePendingLoss, StartLoad, Attempt
  <2>2. CASE owed # 1
    BY <1>6, <2>2, SameFlight DEF TakePendingLoss
  <2>3. QED
    BY <2>1, <2>2
<1>7. CASE ReceiveControl \/ ReceiveData
  <2>1. ~IsEvent(held)
    BY <1>7 DEF ReceiveControl, ReceiveData, Idle, LoadSteps
  <2>2. CASE ReceiveControl
    BY <2>1, <2>2 DEF ReceiveControl, Pending, Reporting
  <2>3. CASE ReceiveData
    <3>1. /\ Len(queue) \in Nat \ {0} /\ Len(queue') = Len(queue) - 1
          /\ \A i \in 1 .. Len(queue') : queue'[i] = queue[i + 1]
          /\ held' = queue[1] /\ queue[1] \in Events
          /\ UNCHANGED <<tracker, engine, owed>>
      BY <2>3 DEF ReceiveData, TypeOK
    <3>2. IsEvent(held')
      BY <3>1 DEF Events, IsEvent
    <3>3. QED
      <4>1. CASE \E i \in 1 .. Len(queue) : queue[i].revision = n
        <5>1. PICK i \in 1 .. Len(queue) : queue[i].revision = n
          BY <4>1
        <5>2. CASE i = 1
          BY <3>1, <3>2, <5>1, <5>2 DEF Pending, IsEvent
        <5>3. CASE i # 1
          <6>1. i - 1 \in 1 .. Len(queue') /\ queue'[i - 1] = queue[i]
            BY <3>1, <5>3
          <6>2. QED
            BY <5>1, <6>1 DEF Pending
        <5>4. QED
          BY <5>2, <5>3
      <4>2. CASE ~ \E i \in 1 .. Len(queue) : queue[i].revision = n
        BY <2>1, <3>1, <4>2 DEF Pending, Reporting
      <4>3. QED
        BY <4>1, <4>2
  <2>4. QED
    BY <1>7, <2>2, <2>3
<1>8. CASE Handle
  BY <1>8, SMTT(30) DEF Handle, StartLoad, Pending, Reporting, IsEvent
<1>9. QED
  BY <1>1, <1>2, <1>3, <1>4, <1>5, <1>6, <1>7, <1>8 DEF Next, Callback, Publisher

\* load_latest alone has a reason; what is held is handled or recovered from.
LEMMA IdleStep ==
  ASSUME TypeOK, Idle, [Next]_vars
  PROVE  Idle'
<1> USE DEF engineVars, publisherVars, Idle, LoadSteps
<1>1. ASSUME NEW kind \in {"forkchoice", "reset"}, NEW v \in Views, Decide(kind, v)
      PROVE  Idle'
  BY <1>1 DEF Decide, IsEvent
<1>2. CASE Callback
  BY <1>2 DEF Callback, DecideCheckpoint, UpdateTracker, Observe, LoadGeneration, TrySend, IsEvent
<1>3. CASE LoadTracker \/ Select
  BY <1>3, ZenonT(30) DEF LoadTracker, Select, SelectPiece, TypeOK, Loads, IsEvent
<1>4. CASE ReadProjection
  BY <1>4 DEF ReadProjection, IsEvent
<1>5. CASE Unread \/ ProviderError
  <2>1. pub \in LoadSteps /\ held' = held /\ (Retry \/ LoadFails)
    BY <1>5 DEF Unread, ProviderError
  <2>2. CASE LoadFails
    BY <2>1, <2>2 DEF LoadFails, StartLoad, NoLoad, Attempt, IsEvent
  <2>3. CASE Retry /\ ~LoadFails
    BY <2>1, <2>3 DEF Retry, Attempt, IsEvent
  <2>4. QED
    BY <2>1, <2>2, <2>3
<1>6. CASE Stamp \/ ConfirmHead \/ ConfirmSafe
  BY <1>6 DEF Stamp, ConfirmHead, ConfirmSafe, Reread, TypeOK, Loads, IsEvent
<1>7. CASE Confirm \/ ConfirmFinalized
  BY <1>7, SMTT(30) DEF Confirm, ConfirmFinalized, PublishSnapshot, Retry, LoadFails, StartLoad, NoLoad,
     Attempt, NoEvent, TypeOK, Loads, IsEvent
<1>8. CASE ReceiveControl \/ ReceiveData
  BY <1>8 DEF ReceiveControl, ReceiveData, ActivateConfig, IsEvent
<1>9. CASE TakePendingLoss \/ OtherError
  BY <1>9 DEF TakePendingLoss, OtherError, StartLoad, Attempt, IsEvent
<1>10. CASE Handle
  BY <1>10 DEF Handle, StartLoad, Attempt, NoEvent, IsEvent
<1>11. CASE ActivateProducer \/ UNCHANGED vars
  BY <1>11 DEF ActivateProducer, vars, IsEvent
<1>12. QED
  BY <1>1, <1>2, <1>3, <1>4, <1>5, <1>6, <1>7, <1>8, <1>9, <1>10, <1>11
     DEF Next, Publisher, LoadLatest

\* The revisions and times that the invariant compares are numbers.
LEMMA Numbers ==
  ASSUME TypeOK
  PROVE  /\ tracker.revision \in Nat /\ published.revision \in Nat
         /\ load.tracked.revision \in Nat /\ load.anchored_at \in Nat
         /\ anchored_at \in Nat /\ clock \in Nat
         /\ IsEvent(held) => held.revision \in Nat /\ held.observed_at \in Nat
BY SMTT(30) DEF TypeOK, Tracked, Loads, Events, NoEvent, ActivateConfig, IsEvent

\* An error or a change of anchor ends an attempt without a trace.
LEMMA AttemptEnds ==
  ASSUME TypeOK, Idle, Exact, Retry \/ LoadFails,
         UNCHANGED <<engineVars, clock, queue, owed, held, published, anchored_at>>
  PROVE  Exact'
<1>1. /\ pub' \in {"load", "top", "stopped"}
      /\ load.why \in {"recover", "reset"} => load'.why \in {"recover", "reset"}
  BY DEF Retry, LoadFails, StartLoad, NoLoad, Attempt
<1>2. /\ \A r, t : InFlight(r, t)' = InFlight(r, t)
      /\ \A n : Pending(n)' = Pending(n)
      /\ UNCHANGED <<tracker, clock, published, anchored_at>>
  BY SameFlight DEF engineVars
<1>3. Bounded' /\ FilterExact'
  BY <1>1, <1>2 DEF Exact, Bounded, FilterExact, Confirming, ConfirmPieces
<1>4. LoadNewer' /\ LoadKeeps' /\ LoadCovers' /\ LoadComplete'
  BY <1>1 DEF LoadNewer, LoadKeeps, LoadCovers, LoadComplete, Confirming, ConfirmPieces,
     LoadSteps
<1>5. NoneForgotten'
  BY <1>1, <1>2 DEF Exact, NoneForgotten
<1>6. QED
  BY <1>3, <1>4, <1>5 DEF Exact

\* A snapshot is published once every event it will filter out is part of it.
LEMMA SnapshotAnchored ==
  ASSUME TypeOK, Idle, Exact, Confirming, PublishSnapshot,
         UNCHANGED <<engineVars, clock, queue, owed, held>>,
         Strict => \A r, t \in Nat :
           InFlight(r, t) /\ t <= load.anchored_at => r <= load.tracked.revision
  PROVE  /\ Exact'
         /\ published'.revision >= published.revision
<1>1. /\ pub' \in {"activate", "top", "check"}
      /\ anchored_at' = load.anchored_at /\ published'.revision = load.tracked.revision
  BY SMTT(30) DEF PublishSnapshot
<1>2. /\ \A r, t : InFlight(r, t)' = InFlight(r, t)
      /\ \A n : Pending(n)' = Pending(n)
      /\ UNCHANGED <<tracker, clock>>
  BY SameFlight DEF engineVars
<1>3. /\ published.revision <= load.tracked.revision
      /\ load.tracked.revision <= tracker.revision
  BY DEF Exact, LoadNewer, Confirming, ConfirmPieces, LoadSteps
<1>4. Bounded' /\ FilterExact'
  BY <1>1, <1>2, <1>3 DEF Exact, Bounded, FilterExact, LoadKeeps, Confirming, ConfirmPieces
<1>5. LoadNewer' /\ LoadKeeps' /\ LoadCovers' /\ LoadComplete'
  BY <1>1 DEF LoadNewer, LoadKeeps, LoadCovers, LoadComplete, Confirming, ConfirmPieces,
     LoadSteps
<1>6. NoneForgotten'
  <2>1. ASSUME Strict, NEW n \in 1 .. tracker.revision
        PROVE  n <= load.tracked.revision \/ Pending(n)
    <3>1. CASE load.why \in {"recover", "reset"}
      BY <3>1 DEF Exact, LoadComplete, Confirming, ConfirmPieces, LoadSteps
    <3>2. CASE load.why \notin {"recover", "reset"}
      BY <1>3, <2>1, <3>2, Numbers DEF Exact, NoneForgotten
    <3>3. QED
      BY <3>1, <3>2
  <2>2. QED
    BY <1>1, <1>2, <2>1 DEF NoneForgotten
<1>7. QED
  BY <1>1, <1>3, <1>4, <1>5, <1>6, Numbers DEF Exact

\* Every step keeps the filter exact, and takes the published state no step back.
LEMMA ExactStep ==
  ASSUME IInv, [Next]_vars
  PROVE  Exact' /\ published'.revision >= published.revision
<1> USE DEF engineVars, publisherVars
<1>a. TypeOK /\ Idle /\ Sorted /\ Exact
  BY DEF IInv
<1>b. ASSUME NEW r, NEW t, InFlight(r, t)'
      PROVE  \/ InFlight(r, t)
             \/ /\ engine.step = "tracked" /\ engine'.step = "observed"
                /\ r = tracker.revision /\ t = clock'
  BY <1>a, <1>b, FlightStep
<1>c. ASSUME NEW n, Pending(n)
      PROVE  \/ Pending(n)'
             \/ pub \in {"top", "check"} /\ pub' = "load" /\ load'.why = "recover"
             \/ pub = "handle" /\ pub' # "handle" /\ IsEvent(held) /\ n = held.revision
  BY <1>a, <1>c, PendingStep
<1>d. /\ tracker.revision \in Nat /\ published.revision \in Nat
      /\ load.tracked.revision \in Nat /\ load.anchored_at \in Nat
      /\ anchored_at \in Nat /\ clock \in Nat
      /\ IsEvent(held) => held.revision \in Nat /\ held.observed_at \in Nat
  BY <1>a, Numbers
\* The engine moves the provider, or sends what it has observed.
<1>1. ASSUME engine.step # "tracked", UNCHANGED <<tracker, clock, publisherVars>>
      PROVE  Exact' /\ published'.revision >= published.revision
  <2>1. /\ \A r, t \in Nat : InFlight(r, t)' => InFlight(r, t)
        /\ \A n : Pending(n) => Pending(n)'
    BY <1>1, <1>b, <1>c, ZenonT(30)
  <2>2. Bounded' /\ FilterExact' /\ LoadNewer'
    BY <1>1, <1>a, <2>1 DEF Exact, Bounded, FilterExact, LoadNewer, Confirming
  <2>3. LoadKeeps' /\ LoadCovers'
    BY <1>1, <1>a, <2>1 DEF Exact, LoadKeeps, LoadCovers, Confirming
  <2>4. LoadComplete' /\ NoneForgotten'
    BY <1>1, <1>a, <2>1 DEF Exact, LoadComplete, NoneForgotten
  <2>5. published'.revision >= published.revision
    BY <1>1, <1>d
  <2>6. QED
    BY <2>2, <2>3, <2>4, <2>5 DEF Exact
<1>2. CASE UpdateTracker
  <2>1. /\ tracker'.revision = tracker.revision + 1 /\ Reporting'
        /\ UNCHANGED <<clock, publisherVars>>
        /\ engine.step = "moving"
    BY <1>2, <1>a DEF UpdateTracker, Reporting, TypeOK, Callbacks
  <2>2. \A r, t \in Nat : InFlight(r, t)' => InFlight(r, t)
    BY <2>1, <1>b
  <2>3. \A n \in 1 .. tracker'.revision :
          (n \in 1 .. tracker.revision /\ (Pending(n) => Pending(n)')) \/ Pending(n)'
    <3>1. ASSUME NEW n \in 1 .. tracker'.revision, n \notin 1 .. tracker.revision
          PROVE  Pending(n)'
      <4>1. n = tracker'.revision
        BY <1>d, <2>1, <3>1
      <4>2. QED
        BY <2>1, <4>1 DEF Pending
    <3>2. QED
      BY <3>1, <2>1, <1>c
  <2>4. Bounded' /\ FilterExact' /\ LoadNewer'
    BY <1>a, <1>d, <2>1, <2>2, SMTT(30) DEF Exact, Bounded, FilterExact, LoadNewer, Confirming
  <2>5. LoadKeeps' /\ LoadCovers'
    BY <1>a, <2>1, <2>2, ZenonT(30) DEF Exact, LoadKeeps, LoadCovers, Confirming
  <2>6. LoadComplete' /\ NoneForgotten'
    BY <1>a, <2>1, <2>3 DEF Exact, LoadComplete, NoneForgotten
  <2>7. QED
    BY <1>d, <2>1, <2>4, <2>5, <2>6 DEF Exact
\* On a strict clock a callback reads a time later than any stamp of load_latest.
<1>3. CASE Observe
  <2>1. /\ UNCHANGED <<tracker, publisherVars>>
        /\ clock' \in Nat /\ clock' >= clock /\ (Strict => clock' > clock)
    BY <1>3, <1>d, NowAdvances DEF Observe
  <2>2. /\ \A r, t \in Nat : InFlight(r, t)' =>
             InFlight(r, t) \/ (r = tracker.revision /\ t = clock')
        /\ \A n : Pending(n) => Pending(n)'
    BY <2>1, <1>b, <1>c
  <2>3. Bounded' /\ LoadNewer'
    BY <1>a, <1>d, <2>1, <2>2, SMTT(30) DEF Exact, Bounded, LoadNewer, Confirming
  <2>4. FilterExact'
    BY <1>a, <1>d, <2>1, <2>2, SMTT(30) DEF Exact, Bounded, FilterExact
  <2>5. LoadKeeps'
    BY <1>a, <1>d, <2>1, <2>2, SMTT(30) DEF Exact, LoadNewer, LoadKeeps, Confirming, ConfirmPieces, LoadSteps
  <2>6. LoadCovers'
    BY <1>a, <1>d, <2>1, <2>2, SMTT(30) DEF Exact, Bounded, LoadCovers, Confirming
  <2>7. LoadComplete' /\ NoneForgotten'
    BY <1>a, <2>1, <2>2, SMTT(30) DEF Exact, LoadComplete, NoneForgotten
  <2>8. QED
    BY <1>d, <2>1, <2>3, <2>4, <2>5, <2>6, <2>7 DEF Exact
\* The steps of load_latest before its clock reading.
<1>4. CASE LoadTracker
  <2>1. /\ UNCHANGED <<tracker, clock, published, anchored_at>>
        /\ load'.tracked.revision = tracker.revision /\ load'.why = load.why
        /\ pub' \in {"select_head", "read"}
        /\ \A r, t : InFlight(r, t)' = InFlight(r, t)
        /\ \A n : Pending(n)' = Pending(n)
    BY <1>4, <1>a, SameFlight DEF LoadTracker, TypeOK, Loads
  <2>2. Bounded' /\ FilterExact' /\ LoadNewer'
    BY <1>a, <1>d, <2>1, SMTT(30) DEF Exact, Bounded, FilterExact, LoadNewer, Confirming, ConfirmPieces
  <2>3. LoadKeeps' /\ LoadCovers' /\ LoadComplete' /\ NoneForgotten'
    BY <1>a, <1>d, <2>1, SMTT(30)
       DEF Exact, LoadKeeps, LoadCovers, LoadComplete, NoneForgotten, Confirming, ConfirmPieces
  <2>4. QED
    BY <1>d, <2>1, <2>2, <2>3 DEF Exact
<1>5. CASE Select \/ ReadProjection
  <2>1. /\ UNCHANGED <<tracker, clock, published, anchored_at>>
        /\ load'.tracked = load.tracked /\ load'.why = load.why
        /\ pub \in LoadSteps \ {"load"}
        /\ pub' \in {"select_safe", "select_finalized", "read", "unread", "stamp"}
        /\ \A r, t : InFlight(r, t)' = InFlight(r, t)
        /\ \A n : Pending(n)' = Pending(n)
    BY <1>5, <1>a, SameFlight, ZenonT(30)
       DEF Select, SelectPiece, ReadProjection, TypeOK, Loads, LoadSteps
  <2>2. Bounded' /\ FilterExact' /\ LoadNewer'
    BY <1>a, <2>1 DEF Exact, Bounded, FilterExact, LoadNewer, Confirming, ConfirmPieces
  <2>3. LoadKeeps' /\ LoadCovers' /\ LoadComplete' /\ NoneForgotten'
    BY <1>a, <2>1, ZenonT(30)
       DEF Exact, LoadKeeps, LoadCovers, LoadComplete, NoneForgotten, Confirming, ConfirmPieces
  <2>4. QED
    BY <1>d, <2>1, <2>2, <2>3 DEF Exact
<1>6. CASE Unread \/ ProviderError
  <2>1. Exact'
    BY <1>6, <1>a, AttemptEnds DEF Unread, ProviderError
  <2>2. QED
    BY <1>6, <1>d, <2>1 DEF Unread, ProviderError
\* Everything in flight was observed before the stamp.
<1>7. CASE Stamp
  <2>1. /\ UNCHANGED <<tracker, published, anchored_at>>
        /\ clock' \in Nat /\ clock' >= clock /\ load'.anchored_at = clock'
        /\ load'.tracked = load.tracked /\ load'.why = load.why
        /\ pub = "stamp" /\ pub' = "confirm"
        /\ \A r, t : InFlight(r, t)' = InFlight(r, t)
        /\ \A n : Pending(n)' = Pending(n)
    BY <1>7, <1>a, <1>d, NowAdvances, SameFlight, SMTT(30) DEF Stamp, TypeOK, Loads
  <2>2. Bounded' /\ FilterExact' /\ LoadNewer'
    BY <1>a, <1>d, <2>1, SMTT(30) DEF Exact, Bounded, FilterExact, LoadNewer, Confirming, LoadSteps
  <2>3. LoadKeeps' /\ LoadCovers'
    BY <1>a, <1>d, <2>1, SMTT(30) DEF Exact, Bounded, LoadKeeps, LoadCovers, Confirming, ConfirmPieces
  <2>4. LoadComplete' /\ NoneForgotten'
    BY <1>a, <2>1 DEF Exact, LoadComplete, NoneForgotten, LoadSteps
  <2>5. QED
    BY <1>d, <2>1, <2>2, <2>3, <2>4 DEF Exact
\* The tracker is confirmed: every event in flight is of a revision up to the tracker's.
<1>8. CASE Confirm /\ ~Provided
  <2>1. CASE tracker.revision = load.tracked.revision
    <3>1. PublishSnapshot /\ Confirming
      BY <1>8, <2>1 DEF Confirm, Confirming
    <3>2. \A r, t \in Nat : InFlight(r, t) => r <= load.tracked.revision
      BY <1>a, <2>1 DEF Exact, Bounded
    <3>3. QED
      BY <1>8, <1>a, <3>1, <3>2, SnapshotAnchored DEF Confirm
  <2>2. CASE tracker.revision # load.tracked.revision
    <3>1. Exact' /\ UNCHANGED published
      BY <1>8, <1>a, <2>2, AttemptEnds DEF Confirm
    <3>2. QED
      BY <1>d, <3>1
  <2>3. QED
    BY <2>1, <2>2
<1>9. CASE (Confirm /\ Provided) \/ ConfirmHead \/ ConfirmSafe
  <2>1. /\ UNCHANGED <<tracker, clock, published, anchored_at>>
        /\ load'.tracked = load.tracked /\ load'.why = load.why
        /\ load'.anchored_at = load.anchored_at
        /\ pub \in {"confirm", "confirm_head", "confirm_safe"} /\ pub' \in ConfirmPieces
        /\ load'.moved = 0 =>
             \/ pub = "confirm" /\ tracker.revision = load.tracked.revision
             \/ pub \in ConfirmPieces /\ load.moved = 0
        /\ \A r, t : InFlight(r, t)' = InFlight(r, t)
        /\ \A n : Pending(n)' = Pending(n)
    <3>1. UNCHANGED <<queue, owed, held, engine, tracker>>
      BY <1>9 DEF Confirm, ConfirmHead, ConfirmSafe
    <3>2. CASE Confirm /\ Provided
      BY <1>a, <3>1, <3>2, SameFlight DEF Confirm, ConfirmPieces, TypeOK, Loads
    <3>3. CASE ConfirmHead \/ ConfirmSafe
      BY <1>a, <3>1, <3>3, SameFlight, SMTT(30)
         DEF ConfirmHead, ConfirmSafe, Reread, ConfirmPieces, TypeOK, Loads
    <3>4. QED
      BY <1>9, <3>2, <3>3
  <2>2. Bounded' /\ FilterExact' /\ LoadNewer'
    BY <1>a, <2>1 DEF Exact, Bounded, FilterExact, LoadNewer, Confirming, ConfirmPieces, LoadSteps
  <2>3. LoadKeeps'
    BY <1>a, <2>1, SMTT(30) DEF Exact, LoadKeeps, Confirming, ConfirmPieces
  <2>4. LoadCovers'
    BY <1>a, <1>d, <2>1, SMTT(30) DEF Exact, Bounded, LoadCovers
  <2>5. LoadComplete' /\ NoneForgotten'
    BY <1>a, <2>1 DEF Exact, LoadComplete, NoneForgotten, ConfirmPieces, LoadSteps
  <2>6. QED
    BY <1>d, <2>1, <2>2, <2>3, <2>4, <2>5, SMTT(30) DEF Exact
<1>10. CASE ConfirmFinalized
  <2>1. CASE load.moved = 0 /\ provider["finalized"] = load.selected["finalized"]
    <3>1. PublishSnapshot /\ Confirming
      BY <1>10, <2>1 DEF ConfirmFinalized, Confirming, ConfirmPieces
    <3>2. Strict => \A r, t \in Nat :
            InFlight(r, t) /\ t <= load.anchored_at => r <= load.tracked.revision
      BY <1>10, <1>a, <2>1 DEF Exact, LoadCovers, ConfirmPieces, ConfirmFinalized
    <3>3. QED
      BY <1>10, <1>a, <3>1, <3>2, SnapshotAnchored DEF ConfirmFinalized
  <2>2. CASE ~(load.moved = 0 /\ provider["finalized"] = load.selected["finalized"])
    <3>1. Exact' /\ UNCHANGED published
      BY <1>10, <1>a, <2>2, AttemptEnds DEF ConfirmFinalized
    <3>2. QED
      BY <1>d, <3>1
  <2>3. QED
    BY <2>1, <2>2, SMTT(30)
\* The publisher's loop outside load_latest.
<1>11. CASE ReceiveControl \/ ReceiveData \/ TakePendingLoss \/ OtherError \/ ActivateProducer
  <2>1. /\ UNCHANGED <<tracker, engine, clock, published, anchored_at>>
        /\ pub \in {"top", "check", "activate"} /\ pub' \in {"top", "check", "handle", "load"}
        /\ load' = load \/ load'.why = "recover"
    BY <1>11 DEF ReceiveControl, ReceiveData, TakePendingLoss, OtherError, ActivateProducer,
       StartLoad, Attempt
  <2>2. load.why = "none"
    BY <1>a, <2>1 DEF Idle, LoadSteps
  <2>3. /\ \A r, t \in Nat : InFlight(r, t)' => InFlight(r, t)
        /\ \A n : Pending(n) => Pending(n)' \/ load'.why = "recover"
    BY <1>b, <1>c, <2>1
  <2>4. Bounded' /\ FilterExact'
    BY <1>a, <2>1, <2>3, SMTT(30) DEF Exact, Bounded, FilterExact, Confirming, ConfirmPieces
  <2>5. LoadNewer' /\ LoadKeeps' /\ LoadCovers' /\ LoadComplete'
    BY <2>1 DEF LoadNewer, LoadKeeps, LoadCovers, LoadComplete, Confirming, ConfirmPieces,
     LoadSteps
  <2>6. NoneForgotten'
    BY <1>a, <2>1, <2>2, <2>3 DEF Exact, NoneForgotten
  <2>7. QED
    BY <1>d, <2>1, <2>4, <2>5, <2>6, SMTT(30) DEF Exact
<1>12. CASE Handle
  <2>1. /\ UNCHANGED <<tracker, engine, clock, anchored_at>>
        /\ pub = "handle" /\ pub' \in {"load", "top"} /\ load.why = "none"
        /\ held' = NoEvent /\ queue' = queue
    BY <1>12, <1>a DEF Handle, StartLoad, Idle, LoadSteps
  <2>2. /\ \A r, t \in Nat : InFlight(r, t)' => InFlight(r, t)
        /\ \A n : Pending(n) => Pending(n)' \/ (IsEvent(held) /\ n = held.revision)
    BY <1>b, <1>c, <2>1
  <2>3. IsEvent(held) => InFlight(held.revision, held.observed_at)
    BY DEF InFlight
  <2>4. LoadNewer' /\ LoadKeeps' /\ LoadCovers' /\ LoadComplete'
    BY <2>1 DEF LoadNewer, LoadKeeps, LoadCovers, LoadComplete, Confirming, ConfirmPieces,
     LoadSteps
  <2>5. CASE published' = published
    <3>1. \/ ~IsEvent(held)
          \/ load'.why \in {"recover", "reset"}
          \/ Covered(held)
          \/ published'.revision = held.revision
      <4>1. [published EXCEPT !.view = held.view, !.revision = held.revision].revision
              = held.revision
        BY <1>a DEF TypeOK
      <4>2. \A reason : Attempt(reason, 1).why = reason
        BY DEF Attempt
      <4>3. CASE load' = load
        BY <1>12, <4>1, <4>2, <4>3, ZenonT(30) DEF Handle, IsEvent, StartLoad
      <4>4. CASE load' # load
        BY <1>12, <4>2, <4>4 DEF Handle, IsEvent, StartLoad
      <4>5. QED
        BY <4>3, <4>4
    <3>2. Strict /\ Covered(held) /\ IsEvent(held) => held.revision <= published.revision
      BY <1>a, <1>d, <2>3, SMTT(30) DEF Exact, FilterExact, Covered
    <3>3. NoneForgotten'
      BY <1>a, <1>d, <2>1, <2>2, <2>5, <3>1, <3>2 DEF Exact, NoneForgotten
    <3>4. Bounded' /\ FilterExact'
      BY <1>a, <2>1, <2>2, <2>5 DEF Exact, Bounded, FilterExact, Confirming, ConfirmPieces
    <3>5. QED
      BY <1>d, <2>4, <2>5, <3>3, <3>4 DEF Exact
  <2>6. CASE published' # published
    <3>1. IsEvent(held) /\ ~Covered(held) /\ published'.revision = held.revision
      <4>1. [published EXCEPT !.view = held.view, !.revision = held.revision].revision
              = held.revision
        BY <1>a DEF TypeOK
      <4>2. QED
        BY <1>12, <2>6, <4>1, ZenonT(30) DEF Handle, IsEvent
    <3>2. held.revision >= published.revision /\ held.revision <= tracker.revision
      BY <1>a, <1>d, <2>3, <3>1, SMTT(30) DEF Exact, FilterExact, Bounded, Covered
    <3>3. ASSUME NEW r \in Nat, NEW t \in Nat, InFlight(r, t)'
          PROVE  r >= held.revision
      <4>1. ~IsEvent(held')
        BY <2>1 DEF NoEvent, IsEvent
      <4>2. QED
        BY <1>a, <1>d, <2>1, <3>1, <3>3, <4>1, SMTT(30) DEF InFlight, Sorted, Reporting, IsEvent
    <3>4. Bounded'
      BY <1>a, <2>1, <2>2, <3>1, <3>2, SMTT(30) DEF Exact, Bounded, Confirming, ConfirmPieces
    <3>5. FilterExact'
      BY <1>a, <1>d, <2>1, <2>2, <3>1, <3>2, <3>3, SMTT(30) DEF Exact, FilterExact
    <3>6. NoneForgotten'
      BY <1>a, <1>d, <2>1, <2>2, <3>1, <3>2 DEF Exact, NoneForgotten
    <3>7. QED
      BY <2>4, <3>1, <3>2, <3>4, <3>5, <3>6 DEF Exact
  <2>7. QED
    BY <2>5, <2>6
<1>13. ASSUME NEW kind \in {"forkchoice", "reset"}, NEW v \in Views, Decide(kind, v)
       PROVE  Exact' /\ published'.revision >= published.revision
  BY <1>1, <1>13 DEF Decide
<1>14. CASE LoadGeneration \/ TrySend \/ \E x \in Pieces : DecideCheckpoint(x)
  BY <1>1, <1>14 DEF DecideCheckpoint, LoadGeneration, TrySend
<1>15. CASE UNCHANGED vars
  <2>1. /\ UNCHANGED <<tracker, clock, published, anchored_at, pub, load>>
        /\ \A r, t : InFlight(r, t)' = InFlight(r, t)
        /\ \A n : Pending(n)' = Pending(n)
    BY <1>15, SameFlight DEF vars
  <2>2. Bounded' /\ FilterExact' /\ LoadNewer'
    BY <1>a, <2>1, ZenonT(30) DEF Exact, Bounded, FilterExact, LoadNewer, Confirming
  <2>3. LoadKeeps' /\ LoadCovers'
    BY <1>a, <2>1 DEF Exact, LoadKeeps, LoadCovers, Confirming
  <2>4. LoadComplete' /\ NoneForgotten'
    BY <1>a, <2>1 DEF Exact, LoadComplete, NoneForgotten
  <2>5. QED
    BY <1>d, <2>1, <2>2, <2>3, <2>4 DEF Exact
<1>16. QED
  BY <1>2, <1>3, <1>4, <1>5, <1>6, <1>7, <1>8, <1>9, <1>10, <1>11, <1>12, <1>13, <1>14, <1>15
     DEF Next, Callback, Publisher, LoadLatest

\* IInv holds in every reachable state.
LEMMA Invariance == Spec => []IInv
<1>1. Init => IInv
  <2>1. ASSUME Init PROVE IInv
    <3>1. TypeOK
      BY <2>1, TypeInit, ZenonT(30)
    <3>2. /\ tracker.revision = 0 /\ published.revision = 0 /\ clock = 0 /\ anchored_at = 0
          /\ queue = <<>> /\ held = NoEvent /\ engine.step = "idle"
          /\ pub = "load" /\ load.why = "start"
      BY <2>1 DEF Init, NoCallback, Attempt
    <3>3. ~IsEvent(held) /\ ~Reporting /\ Len(queue) = 0
      BY <3>2 DEF NoEvent, IsEvent, Reporting
    <3>4. \A r, t : ~InFlight(r, t)
      BY <3>2, <3>3 DEF InFlight
    <3>5. Idle /\ Sorted
      BY <3>2, <3>3 DEF Idle, Sorted, LoadSteps
    <3>6. Exact
      BY <3>2, <3>4 DEF Exact, Bounded, FilterExact, LoadNewer, LoadKeeps, LoadCovers,
         LoadComplete, NoneForgotten, Confirming, ConfirmPieces
    <3>7. QED
      BY <3>1, <3>5, <3>6 DEF IInv
  <2>2. QED
    BY <2>1
<1>2. IInv /\ [Next]_vars => IInv'
  <2>1. ASSUME IInv, [Next]_vars PROVE IInv'
    <3>1. TypeOK' /\ Idle' /\ Sorted'
      BY <2>1, TypeInductive, IdleStep, SortedStep DEF IInv, Exact
    <3>2. QED
      BY <2>1, <3>1, ExactStep DEF IInv
  <2>2. QED
    BY <2>1
<1>3. QED
  BY <1>1, <1>2, PTL DEF Spec

\* Every decision the engine has reported is in the published state, on its way, or owed a
\* recovery: what the comparison with snapshot_anchored_at filters out is in the snapshot,
\* provided that a callback never reads the time load_latest read before it.
THEOREM DecisionsNotForgotten ==
  ASSUME 0 \notin CallbackTicks
  PROVE  Spec => []NothingForgotten
<1>1. IInv => NothingForgotten
  <2>1. ASSUME IInv PROVE NothingForgotten
    <3>1. IsEvent(held) => held \in Events
      BY <2>1 DEF IInv, TypeOK, IsEvent, NoEvent, ActivateConfig
    <3>2. QED
      BY <2>1, <3>1
         DEF IInv, Exact, NoneForgotten, Strict, Pending, Reporting, NothingForgotten
  <2>2. QED
    BY <2>1, ZenonT(30)
<1>2. QED
  BY <1>1, Invariance, PTL

\* No snapshot and no replayed event takes the published state back to an older decision, on any
\* clock that does not go back: all that was reported before the snapshot's clock reading was
\* observed no later, in the same tick at the latest, and is filtered out.
THEOREM PublishedNeverRollsBack == Spec => NeverRollsBack
<1>1. IInv /\ [Next]_vars => [published'.revision >= published.revision]_vars
  BY ExactStep
<1>2. QED
  BY <1>1, Invariance, PTL DEF Spec, NeverRollsBack

-----------------------------------------------------------------------------

\* The hot-path watch set is never newer than the published one.
WatchPublished == watch <= published.generation /\ published.generation >= 1

\* A published generation is never taken back.
LEMMA GenerationKept ==
  ASSUME TypeOK, [Next]_vars
  PROVE  published'.generation >= published.generation /\ published.generation \in Nat
<1> USE DEF engineVars, publisherVars
<1>1. published.generation \in Nat
  BY DEF TypeOK
<1>2. CASE published' = published
  BY <1>1, <1>2
<1>3. CASE PublishSnapshot
  BY <1>1, <1>3 DEF PublishSnapshot
<1>4. CASE Handle
  <2>1. [published EXCEPT !.view = held.view, !.revision = held.revision].generation
          = published.generation
    BY DEF TypeOK
  <2>2. \/ published' = published
        \/ published' = [published EXCEPT !.view = held.view, !.revision = held.revision]
    BY <1>4, Zenon DEF Handle
  <2>3. published'.generation = published.generation
    BY <2>1, <2>2, ZenonT(30)
  <2>4. QED
    BY <1>1, <2>3
<1>5. CASE Confirm \/ ConfirmFinalized
  BY <1>2, <1>3, <1>5 DEF Confirm, ConfirmFinalized
<1>6. ASSUME NEW kind \in {"forkchoice", "reset"}, NEW v \in Views, Decide(kind, v)
      PROVE  published' = published
  BY <1>6 DEF Decide
<1>7. CASE Callback
  BY <1>2, <1>7 DEF Callback, DecideCheckpoint, UpdateTracker, Observe, LoadGeneration, TrySend
<1>8. CASE \/ LoadTracker \/ Select \/ ReadProjection \/ Unread \/ Stamp \/ ConfirmHead
           \/ ConfirmSafe \/ ProviderError \/ OtherError
  BY <1>2, <1>8, SMTT(30) DEF LoadTracker, Select, ReadProjection, Unread, Stamp, ConfirmHead,
     ConfirmSafe, ProviderError, OtherError
<1>9. CASE \/ ReceiveControl \/ ReceiveData \/ TakePendingLoss \/ ActivateProducer
           \/ UNCHANGED vars
  BY <1>2, <1>9 DEF ReceiveControl, ReceiveData, TakePendingLoss, ActivateProducer, vars
<1>10. QED
  BY <1>2, <1>4, <1>5, <1>6, <1>7, <1>8, <1>9 DEF Next, Publisher, LoadLatest

\* No event refers to a watch set whose dictionary has not been published, whatever the clock:
\* producer.activate comes after the frames of the new generation.
THEOREM GenerationsPublishedFirst == Spec => []GenerationNotAhead
<1> DEFINE GInv == TypeOK /\ WatchPublished /\ GenerationNotAhead
<1> USE DEF engineVars, publisherVars
<1>1. Init => GInv
  <2>1. ASSUME Init PROVE WatchPublished /\ GenerationNotAhead
    <3>1. /\ watch = 1 /\ published.generation = 1 /\ engine.generation = 1
          /\ queue = <<>> /\ held = NoEvent
      BY <2>1 DEF Init, NoCallback
    <3>2. held \notin Events
      BY <3>1 DEF NoEvent, Events
    <3>3. QED
      BY <3>1, <3>2, SMTT(30) DEF WatchPublished, GenerationNotAhead
  <2>2. QED
    BY <2>1, TypeInit
<1>2. GInv /\ [Next]_vars => GInv'
  <2> SUFFICES ASSUME GInv, [Next]_vars PROVE GInv'
    OBVIOUS
  <2>1. TypeOK'
    BY TypeInductive
  <2> SUFFICES WatchPublished' /\ GenerationNotAhead'
    BY <2>1
  <2>2. /\ published'.generation >= published.generation /\ published.generation \in Nat
        /\ published'.generation \in Nat /\ watch \in Nat /\ engine.generation \in Nat
        /\ \A i \in 1 .. Len(queue) : queue[i].generation \in Nat
        /\ held \in Events => held.generation \in Nat
    <3>1. \A i \in 1 .. Len(queue) : queue[i] \in Events
      BY QueuedEvents, Zenon
    <3>2. QED
      BY <2>1, <3>1, GenerationKept, ZenonT(30) DEF TypeOK, Callbacks, Events
  \* Steps that send, receive and activate nothing.
  <2>3. ASSUME UNCHANGED <<queue, held, watch>>, engine'.generation = engine.generation
        PROVE  WatchPublished' /\ GenerationNotAhead'
    BY <2>2, <2>3, SMTT(30) DEF WatchPublished, GenerationNotAhead
  <2>4. ASSUME NEW kind \in {"forkchoice", "reset"}, NEW v \in Views, Decide(kind, v)
        PROVE  WatchPublished' /\ GenerationNotAhead'
    <3>1. engine'.generation = engine.generation
      BY <2>4 DEF Decide, TypeOK, Callbacks
    <3>2. QED
      BY <2>3, <2>4, <3>1 DEF Decide
  <2>5. CASE UpdateTracker \/ Observe \/ \E x \in Pieces : DecideCheckpoint(x)
    <3>1. engine'.generation = engine.generation
      BY <2>5, ZenonT(30) DEF DecideCheckpoint, UpdateTracker, Observe, TypeOK, Callbacks
    <3>2. QED
      BY <2>3, <2>5, <3>1 DEF DecideCheckpoint, UpdateTracker, Observe
  <2>6. CASE LoadGeneration
    <3>1. engine'.generation = watch /\ UNCHANGED <<queue, held, watch, published>>
      BY <2>6 DEF LoadGeneration, TypeOK, Callbacks
    <3>2. QED
      BY <2>2, <3>1 DEF WatchPublished, GenerationNotAhead
  <2>7. CASE TrySend
    <3>1. engine'.generation = 1 /\ UNCHANGED <<held, watch, published>>
      BY <2>7 DEF TrySend, NoCallback
    <3>2. \A i \in 1 .. Len(queue') : queue'[i].generation <= published.generation
      <4> DEFINE e == [kind |-> engine.kind, view |-> engine.view,
                       observed_at |-> engine.observed_at, generation |-> engine.generation,
                       revision |-> tracker.revision]
      <4>1. e.generation = engine.generation
        OBVIOUS
      <4>2. queue' = queue \/ queue' = Append(queue, e)
        BY <2>7 DEF TrySend
      <4> HIDE DEF e
      <4>3. ASSUME queue' = Append(queue, e), NEW i \in 1 .. Len(queue')
            PROVE  (i \in 1 .. Len(queue) /\ queue'[i] = queue[i]) \/ queue'[i] = e
        BY <4>3, SMTT(30) DEF TypeOK
      <4>4. QED
        BY <4>1, <4>2, <4>3 DEF GenerationNotAhead
    <3>3. QED
      BY <2>2, <3>1, <3>2, SMTT(30) DEF WatchPublished, GenerationNotAhead
  <2>8. CASE LoadLatest \/ ProviderError \/ OtherError \/ TakePendingLoss \/ UNCHANGED vars
    BY <2>3, <2>8, SMTT(30) DEF LoadLatest, LoadTracker, Select, ReadProjection, Unread, Stamp, Confirm,
       ConfirmHead, ConfirmSafe, ConfirmFinalized, ProviderError, OtherError, TakePendingLoss, vars
  <2>9. CASE ReceiveControl
    <3>1. held' \notin Events
      BY <2>9 DEF ReceiveControl, ActivateConfig, Events
    <3>2. QED
      BY <2>9, <3>1, SMTT(30) DEF ReceiveControl, WatchPublished, GenerationNotAhead
  <2>10. CASE ReceiveData
    <3>1. /\ Len(queue) \in Nat \ {0} /\ Len(queue') = Len(queue) - 1
          /\ \A i \in 1 .. Len(queue') : queue'[i] = queue[i + 1]
          /\ held' = queue[1] /\ UNCHANGED <<engine, watch, published>>
      BY <2>10 DEF ReceiveData, TypeOK
    <3>2. 1 \in 1 .. Len(queue) /\ \A i \in 1 .. Len(queue') : i + 1 \in 1 .. Len(queue)
      BY <3>1
    <3>3. QED
      BY <3>1, <3>2 DEF WatchPublished, GenerationNotAhead
  <2>11. CASE Handle
    <3>1. held' \notin Events
      BY <2>11 DEF Handle, NoEvent, Events
    <3>2. UNCHANGED <<queue, engine, watch>>
      BY <2>11 DEF Handle
    <3>3. WatchPublished'
      BY <2>2, <3>2, SMTT(30) DEF WatchPublished
    <3>4. GenerationNotAhead'
      BY <2>2, <3>1, <3>2 DEF GenerationNotAhead
    <3>5. QED
      BY <3>3, <3>4
  <2>12. CASE ActivateProducer
    BY <2>2, <2>12 DEF ActivateProducer, WatchPublished, GenerationNotAhead
  <2>13. QED
    BY <2>1, <2>4, <2>5, <2>6, <2>7, <2>8, <2>9, <2>10, <2>11, <2>12
       DEF Next, Callback, Publisher
<1>3. GInv => GenerationNotAhead
  OBVIOUS
<1>4. QED
  BY <1>1, <1>2, <1>3, PTL DEF Spec

-----------------------------------------------------------------------------
(* The provider's state is read in pieces and confirmed in pieces. *)

Selected == load.selected
Unreported == tracker.revision = load.tracked.revision

\* The decision under way has moved this block, and moves it no more before it is reported.
Moved(x) == engine.step = "moving" /\ x \notin engine.left

\* What was read of the provider is still so, or has been moved by the decision under way.
Steady(x) == provider[x] = Selected[x] \/ Moved(x)

\* It has been moved, and a second reading will tell.
Changed(x) == provider[x] # Selected[x] /\ Moved(x)

\* Since the tracker was read, the provider's states are recorded.
Recording == pub \in LoadSteps \ {"load"} => provider \in seen

\* Until a decision is reported, each block moves at most once after it was read.
Selecting ==
  Provided /\ Unreported =>
    /\ pub \in LoadSteps \ {"load", "select_head"} => Steady("head")
    /\ pub \in LoadSteps \ {"load", "select_head", "select_safe"} => Steady("safe")
    /\ pub \in LoadSteps \ {"load", "select_head", "select_safe", "select_finalized"} =>
         Steady("finalized")

\* When the tracker was confirmed the provider was in the selected state, or one of its blocks
\* had moved and is not what was read when it is read again.
Reconfirming ==
  load.moved = 0 /\ Unreported /\ Selected \notin seen =>
    /\ pub = "confirm_head" => \E x \in Pieces : Changed(x)
    /\ pub = "confirm_safe" => Changed("safe") \/ Changed("finalized")
    /\ pub = "confirm_finalized" => Changed("finalized")

PiecesInv == Recording /\ Selecting /\ Reconfirming

\* A step of the engine that leaves the locals of load_latest alone and moves a block only once
\* keeps what is known of the blocks.
LEMMA EngineKeeps ==
  ASSUME PiecesInv, UNCHANGED <<pub, load, tracker>>, seen \subseteq seen',
         pub \in LoadSteps \ {"load"} => provider' \in seen',
         \A x \in Pieces : Moved(x) => Moved(x)' /\ provider'[x] = provider[x],
         \A x \in Pieces : provider'[x] = provider[x] \/ Moved(x)'
  PROVE  PiecesInv'
<1>1. UNCHANGED <<Selected, Provided, Unreported>>
  BY Zenon DEF Selected, Provided, Unreported
<1>2. \A x \in Pieces : (Steady(x) => Steady(x)') /\ (Changed(x) => Changed(x)')
  BY <1>1 DEF Steady, Changed
<1>3. Recording'
  BY DEF PiecesInv, Recording
<1>4. Selecting'
  BY <1>1, <1>2 DEF PiecesInv, Selecting, Pieces
<1>5. Reconfirming'
  BY <1>1, <1>2, SMTT(30) DEF PiecesInv, Reconfirming, Pieces
<1>6. QED
  BY <1>3, <1>4, <1>5 DEF PiecesInv

\* Every step keeps what is known of the blocks read and confirmed so far.
LEMMA PiecesStep ==
  ASSUME TypeOK, TypeOK', PiecesInv, [Next]_vars,
         pub \in LoadSteps \ {"load"} => load.tracked.revision <= tracker.revision
  PROVE  PiecesInv'
<1> USE DEF engineVars, publisherVars
<1>1. /\ provider \in Views /\ Selected \in Views /\ Selected' \in Views
      /\ tracker.revision \in Nat /\ load.tracked.revision \in Nat
      /\ engine \in Callbacks /\ load \in Loads
  BY DEF TypeOK, Selected, Tracked, Loads
<1>2. \A v, w \in Views : (\A x \in Pieces : v[x] = w[x]) => v = w
  BY DEF Views
<1>3. ASSUME NEW x \in Pieces, NEW b, MovePiece(x, b)
      PROVE  /\ provider' = [provider EXCEPT ![x] = b] /\ seen \subseteq seen'
             /\ pub \in LoadSteps \ {"load"} => provider' \in seen'
  BY <1>3, ZenonT(30) DEF MovePiece, PiecesInv, Recording
<1>4. ASSUME NEW kind \in {"forkchoice", "reset"}, NEW v \in Views, Decide(kind, v)
      PROVE  PiecesInv'
  <2>1. /\ engine.step = "idle" /\ engine'.step = "moving" /\ "head" \notin engine'.left
        /\ UNCHANGED <<pub, load, tracker>> /\ MovePiece("head", v["head"])
    BY <1>1, <1>4 DEF Decide, Callbacks
  <2>2. \A x \in Pieces : ~Moved(x)
    BY <2>1 DEF Moved
  <2>3. Moved("head")' /\ "head" \in Pieces
    BY <2>1 DEF Moved, Pieces
  <2>4. \A x \in Pieces : provider'[x] = provider[x] \/ Moved(x)'
    BY <1>1, <1>3, <2>1, <2>3 DEF Views
  <2>5. QED
    BY <1>3, <2>1, <2>2, <2>3, <2>4, EngineKeeps
<1>5. ASSUME NEW x \in Pieces, DecideCheckpoint(x)
      PROVE  PiecesInv'
  <2>1. /\ engine.step = "moving" /\ engine'.step = "moving" /\ x \in engine.left
        /\ engine'.left = engine.left \ {x}
        /\ UNCHANGED <<pub, load, tracker>> /\ MovePiece(x, engine.view[x])
    BY <1>1, <1>5 DEF DecideCheckpoint, Callbacks
  <2>2. \A y \in Pieces : Moved(y) => Moved(y)' /\ y # x
    BY <2>1 DEF Moved
  <2>3. Moved(x)'
    BY <2>1, SMTT(30) DEF Moved
  <2>4. \A y \in Pieces : y # x => provider'[y] = provider[y]
    BY <1>1, <1>3, <2>1, SMTT(30) DEF Views
  <2>5. QED
    BY <1>3, <2>1, <2>2, <2>3, <2>4, EngineKeeps
<1>6. CASE UpdateTracker
  <2>1. /\ tracker'.revision = tracker.revision + 1 /\ UNCHANGED <<provider, pub, load, seen>>
    BY <1>6 DEF UpdateTracker
  <2>2. pub' \in LoadSteps \ {"load"} => ~Unreported'
    BY <1>1, <2>1, SMTT(30) DEF Unreported
  <2>3. QED
    BY <2>1, <2>2 DEF PiecesInv, Recording, Selecting, Reconfirming, LoadSteps
<1>7. CASE Observe \/ LoadGeneration \/ TrySend
  <2>1. engine.step # "moving" /\ UNCHANGED <<tracker, provider, pub, load, seen>>
    BY <1>7 DEF Observe, LoadGeneration, TrySend
  <2>2. \A x \in Pieces : ~Moved(x)
    BY <2>1 DEF Moved
  <2>3. QED
    BY <2>1, <2>2, EngineKeeps DEF PiecesInv, Recording
<1>8. ASSUME pub' \notin LoadSteps \ {"load"}
      PROVE  PiecesInv'
  BY <1>8, ZenonT(30) DEF PiecesInv, Recording, Selecting, Reconfirming, LoadSteps
<1>9. CASE LoadTracker
  <2>1. /\ UNCHANGED provider /\ seen' = {provider} /\ load'.tracked = tracker
        /\ pub' = IF tracker.view = NoView THEN "select_head" ELSE "read"
    BY <1>1, <1>9 DEF LoadTracker, Loads
  <2>2. pub' = "read" => ~Provided'
    BY <2>1 DEF Provided
  <2>3. QED
    BY <2>1, <2>2 DEF PiecesInv, Recording, Selecting, Reconfirming, LoadSteps
<1>10. CASE Select
  <2>1. UNCHANGED <<provider, engine, tracker, seen>>
    BY <1>10 DEF Select
  <2>2. PICK x \in Pieces :
          /\ load' = [load EXCEPT !.selected[x] = provider[x]]
          /\ \/ pub = "select_head" /\ pub' = "select_safe" /\ x = "head"
             \/ pub = "select_safe" /\ pub' = "select_finalized" /\ x = "safe"
             \/ pub = "select_finalized" /\ pub' = "read" /\ x = "finalized"
    BY <1>10, Zenon DEF Select, SelectPiece, Pieces
  <2>3. /\ Selected'[x] = provider[x] /\ UNCHANGED <<Provided, Unreported>>
        /\ \A y \in Pieces \ {x} : Selected'[y] = Selected[y]
    BY <1>1, <2>1, <2>2 DEF Selected, Provided, Unreported, Loads, Views
  <2>4. Steady(x)' /\ \A y \in Pieces : Steady(y) => Steady(y)'
    BY <2>1, <2>3 DEF Steady, Moved
  <2>5. Recording' /\ Reconfirming'
    BY <2>1, <2>2 DEF PiecesInv, Recording, Reconfirming, LoadSteps
  <2>6. Selecting'
    BY <2>2, <2>3, <2>4, SMTT(30) DEF PiecesInv, Selecting, LoadSteps, Pieces
  <2>7. QED
    BY <2>5, <2>6 DEF PiecesInv
<1>11. CASE ReadProjection \/ Stamp
  <2>1. /\ UNCHANGED <<provider, engine, tracker, seen>>
        /\ pub \in {"read", "stamp"} /\ pub' \in {"stamp", "unread", "confirm"}
    BY <1>11 DEF ReadProjection, Stamp
  <2>2. UNCHANGED <<Selected, Provided, Unreported>>
    BY <1>1, <1>11 DEF ReadProjection, Stamp, Selected, Provided, Unreported, Loads
  <2>3. \A x \in Pieces : Steady(x)' = Steady(x)
    BY <2>1, <2>2 DEF Steady, Moved
  <2>4. QED
    BY <2>1, <2>2, <2>3 DEF PiecesInv, Recording, Selecting, Reconfirming, LoadSteps, Pieces
\* With the tracker confirmed, either nothing that was read has moved or a block has and shows it.
<1>12. CASE Confirm
  <2>1. UNCHANGED <<provider, engine, tracker>> /\ pub = "confirm"
    BY <1>12 DEF Confirm
  <2>2. CASE /\ Provided /\ pub' = "confirm_head" /\ UNCHANGED seen
             /\ load' = [load EXCEPT !.moved = IF tracker.revision = load.tracked.revision
                                                 THEN 0 ELSE 1]
    <3>1. UNCHANGED <<Selected, Provided, Unreported>>
      BY <1>1, <2>1, <2>2, SMTT(30) DEF Selected, Provided, Unreported, Loads
    <3>2. \A x \in Pieces : Steady(x)' = Steady(x) /\ Changed(x)' = Changed(x)
      BY <2>1, <3>1 DEF Steady, Changed, Moved
    <3>3. Recording' /\ Selecting'
      BY <2>1, <2>2, <3>1, <3>2 DEF PiecesInv, Recording, Selecting, LoadSteps, Pieces
    <3>4. Unreported => Selected \in seen \/ \E x \in Pieces : Changed(x)
      <4>1. Unreported => \A x \in Pieces : Steady(x)
        BY <2>1, <2>2 DEF PiecesInv, Selecting, LoadSteps, Pieces
      <4>2. provider \in seen
        BY <2>1 DEF PiecesInv, Recording, LoadSteps
      <4>3. (\A x \in Pieces : provider[x] = Selected[x]) => provider = Selected
        BY <1>1, <1>2
      <4>4. QED
        BY <4>1, <4>2, <4>3 DEF Steady, Changed
    <3>5. Reconfirming'
      BY <2>2, <3>1, <3>2, <3>4 DEF Reconfirming
    <3>6. QED
      BY <3>3, <3>5 DEF PiecesInv
  <2>3. CASE PublishSnapshot \/ Retry
    BY <1>8, <2>3, PublishSnapshotType, RetryType DEF LoadSteps
  <2>4. QED
    BY <1>12, <2>2, <2>3 DEF Confirm
\* A block that is read again and is what it was is not the one that changed.
<1>13. CASE ConfirmHead \/ ConfirmSafe
  <2>1. PICK x \in {"head", "safe"} :
          /\ Reread(x) /\ UNCHANGED <<provider, engine, tracker, seen>>
          /\ x = "head" => pub = "confirm_head" /\ pub' = "confirm_safe"
          /\ x = "safe" => pub = "confirm_safe" /\ pub' = "confirm_finalized"
    BY <1>13 DEF ConfirmHead, ConfirmSafe
  <2>2. UNCHANGED <<Selected, Provided, Unreported>>
    BY <1>1, <2>1, SMTT(30) DEF Reread, Selected, Provided, Unreported, Loads
  <2>3. \A y \in Pieces : Steady(y)' = Steady(y) /\ Changed(y)' = Changed(y)
    BY <2>1, <2>2 DEF Steady, Changed, Moved
  <2>4. load'.moved = 0 => load.moved = 0 /\ ~Changed(x)
    BY <1>1, <2>1, SMTT(30) DEF Reread, Changed, Selected, Loads
  <2>5. Recording' /\ Selecting'
    BY <2>1, <2>2, <2>3, SMTT(30) DEF PiecesInv, Recording, Selecting, LoadSteps, Pieces
  <2>6. Reconfirming'
    BY <2>1, <2>2, <2>3, <2>4, SMTT(30) DEF PiecesInv, Reconfirming, Pieces
  <2>7. QED
    BY <2>5, <2>6, SMTT(30) DEF PiecesInv
<1>14. CASE ConfirmFinalized \/ Unread \/ ProviderError \/ OtherError
  <2>1. PublishSnapshot \/ Retry \/ LoadFails \/ pub' = "load"
    BY <1>14 DEF ConfirmFinalized, Unread, ProviderError, OtherError, StartLoad
  <2>2. QED
    BY <1>8, <2>1, PublishSnapshotType, RetryType, LoadFailsType, SMTT(30) DEF LoadSteps
<1>15. CASE ReceiveControl \/ ReceiveData \/ TakePendingLoss \/ Handle \/ ActivateProducer
  BY <1>8, <1>15, ZenonT(30)
     DEF ReceiveControl, ReceiveData, TakePendingLoss, Handle, ActivateProducer,
     StartLoad, LoadSteps
<1>16. CASE UNCHANGED vars
  <2>1. UNCHANGED <<provider, engine, tracker, seen, pub, load, Selected, Provided, Unreported>>
    BY <1>16, ZenonT(30) DEF vars, Selected, Provided, Unreported
  <2>2. QED
    BY <2>1, ZenonT(30) DEF PiecesInv, Recording, Selecting, Reconfirming, Steady, Changed, Moved
<1>17. QED
  BY <1>4, <1>5, <1>6, <1>7, <1>9, <1>10, <1>11, <1>12, <1>13, <1>14, <1>15, <1>16, SMTT(30)
     DEF Next, Callback, Publisher, LoadLatest

\* The head, safe and finalized block that load_latest reads from the provider call by call were
\* its state at one moment, or a decision was reported before the last of them was confirmed: for
\* any blocks, any number of decisions, any clock, and whichever of safe and finalized moves first.
THEOREM SnapshotsUntorn == Spec => SnapshotUntorn
<1> DEFINE Whole == pub = "confirm_finalized" /\ PublishSnapshot =>
                      load.selected \in seen \/ tracker.revision > load.tracked.revision
           PInv == IInv /\ PiecesInv
<1>1. Init => PiecesInv
  BY SMTT(30) DEF Init, PiecesInv, Recording, Selecting, Reconfirming
<1>2. IInv /\ IInv' /\ PiecesInv /\ [Next]_vars => PiecesInv'
  BY PiecesStep DEF IInv, Exact, LoadNewer
<1>3. IInv /\ PiecesInv /\ [Next]_vars => [Whole]_vars
  <2> SUFFICES ASSUME IInv, PiecesInv, [Next]_vars, pub = "confirm_finalized", PublishSnapshot,
                      load.selected \notin seen, ~(tracker.revision > load.tracked.revision)
               PROVE  FALSE
    OBVIOUS
  <2>1. Unreported
    BY Numbers, SMTT(30) DEF IInv, Exact, LoadNewer, LoadSteps, Unreported
  <2>2. ~Retry /\ ~LoadFails /\ pub' \notin LoadSteps
    BY DEF PublishSnapshot, Retry, LoadFails, StartLoad, LoadSteps
  <2>3. load.moved = 0 /\ provider["finalized"] = Selected["finalized"]
    <3>1. ConfirmFinalized
      BY <2>2, ZenonT(30)
         DEF Next, Decide, Callback, DecideCheckpoint, UpdateTracker, Observe, LoadGeneration,
         TrySend, Publisher, LoadLatest, LoadTracker, Select, SelectPiece, ReadProjection, Unread,
         Stamp, Confirm, ConfirmHead, ConfirmSafe, ProviderError, OtherError, ReceiveControl,
         ReceiveData, TakePendingLoss, Handle, ActivateProducer, vars, publisherVars, LoadSteps
    <3>2. QED
      BY <2>2, <3>1 DEF ConfirmFinalized, Selected
  <2>4. QED
    BY <2>1, <2>3 DEF PiecesInv, Reconfirming, Selected, Changed
<1>4. QED
  BY <1>1, <1>2, <1>3, Invariance, PTL DEF Spec, SnapshotUntorn

=============================================================================
