--------------------------- MODULE FeedQueueProofs ---------------------------
(***************************************************************************)
(* Proofs about FeedQueue, for any number of producers, any capacity and   *)
(* any width of the drop count.                                            *)
(***************************************************************************)
EXTENDS FeedQueue, FiniteSetTheorems, TLAPS

\* No event in flight was reserved after a drop that has not been taken yet:
\* its stamp is at most taken, wherever the event is.
StampsTaken ==
  /\ \A i \in 1 .. Len(queue) : queue[i] <= taken
  /\ \A p \in Producers : pc[p] = "reserved" => stamp[p] <= taken
  /\ held \in Nat => held <= taken

\* The publisher leaves recovery only with everything it took made good.
Accounting ==
  /\ taken <= recorded /\ recovered <= taken
  /\ pub \notin {"recover", "stopped"} => recovered = taken

\* An unlocked word that owes a recovery has a token, a producer about to leave
\* one, or a publisher that reads the word before it can park.
WakeupPending ==
  /\ enqueue_state.dropped > 0 /\ enqueue_state.locked = 0
  /\ pub \notin {"top", "loss", "stopped"}
  => loss = 1 \/ \E p \in Producers : pc[p] = "notify"

OrderInv == TypeOK /\ LossRemembered /\ StampsTaken /\ Accounting

WakeupInv == TypeOK /\ LockOwned /\ WakeupPending

-----------------------------------------------------------------------------

\* record_drop keeps the count within the mask and never back at zero.
LEMMA SaturatedType ==
  ASSUME NEW n \in 0 .. DropCountMask
  PROVE  Saturated(n) \in 1 .. DropCountMask
BY FeedQueueAssumption DEF Saturated

\* A successful tx.try_send puts its event behind those in the channel, which stay.
LEMMA AppendElements ==
  ASSUME NEW s \in Seq(Nat), NEW e \in Nat
  PROVE  /\ Len(s) \in Nat /\ Len(Append(s, e)) = Len(s) + 1
         /\ Append(s, e)[Len(s) + 1] = e
         /\ \A i \in 1 .. Len(s) : Append(s, e)[i] = s[i]
BY SMTT(30)

\* Every step of try_send, of run_publisher and of the environment keeps the types.
LEMMA TypeInductive == TypeOK /\ [Next]_vars => TypeOK'
<1> SUFFICES ASSUME TypeOK, [Next]_vars PROVE TypeOK'
  OBVIOUS
<1> USE FeedQueueAssumption DEF TypeOK, word, producerVars, publisherVars,
        ProducerSteps, PublisherSteps
<1>1. ASSUME NEW p \in Producers, Reserve(p) PROVE TypeOK'
  <2>1. stamp' \in [Producers -> Nat] /\ attempts' \in Nat
    BY <1>1, SMTT(30) DEF Reserve
  <2>2. pc' \in [Producers -> ProducerSteps]
    BY <1>1, ZenonT(30) DEF Reserve
  <2>3. enqueue_state' \in [locked : {0, 1}, dropped : 0 .. DropCountMask]
    BY <1>1, SMTT(30) DEF Reserve
  <2>4. UNCHANGED <<recorded, taken, queue, loss, control, shutdown, publisherVars>>
    BY <1>1 DEF Reserve
  <2>5. QED
    BY <2>1, <2>2, <2>3, <2>4
<1>2. ASSUME NEW p \in Producers, Enqueue(p) PROVE TypeOK'
  <2>1. queue' \in Seq(Nat) /\ Len(queue') <= Capacity
    <3>1. stamp[p] \in Nat
      BY <1>2
    <3>2. Append(queue, stamp[p]) \in Seq(Nat) /\ Len(Append(queue, stamp[p])) = Len(queue) + 1
      BY <3>1
    <3>3. CASE UNCHANGED queue
      BY <3>3
    <3>4. CASE queue' = Append(queue, stamp[p]) /\ Len(queue) < Capacity
      BY <3>2, <3>4
    <3>5. QED
      BY <1>2, <3>3, <3>4 DEF Enqueue
  <2>2. pc' \in [Producers -> ProducerSteps]
    BY <1>2 DEF Enqueue
  <2>3. QED
    BY <1>2, <2>1, <2>2 DEF Enqueue
<1>3. ASSUME NEW p \in Producers, RecordDrop(p) PROVE TypeOK'
  <2>1. Saturated(enqueue_state.dropped) \in 0 .. DropCountMask
    BY SaturatedType
  <2>2. enqueue_state' \in [locked : {0, 1}, dropped : 0 .. DropCountMask]
    BY <1>3, <2>1, ZenonT(30) DEF RecordDrop
  <2>3. pc' \in [Producers -> ProducerSteps]
    BY <1>3 DEF RecordDrop
  <2>4. /\ recorded' \in Nat
        /\ UNCHANGED <<taken, stamp, attempts, queue, loss, control, shutdown, publisherVars>>
    BY <1>3, SMTT(30) DEF RecordDrop
  <2>5. QED
    BY <2>2, <2>3, <2>4
<1>4. ASSUME NEW p \in Producers, Release(p) PROVE TypeOK'
  <2>1. enqueue_state' \in [locked : {0, 1}, dropped : 0 .. DropCountMask]
    BY <1>4, ZenonT(30) DEF Release
  <2>2. pc' \in [Producers -> ProducerSteps]
    BY <1>4 DEF Release
  <2>3. UNCHANGED <<recorded, taken, stamp, attempts, queue, loss, control, shutdown,
                    publisherVars>>
    BY <1>4 DEF Release
  <2>4. QED
    BY <2>1, <2>2, <2>3
<1>5. ASSUME NEW p \in Producers, NotifyLoss(p) PROVE TypeOK'
  BY <1>5 DEF NotifyLoss
<1>6. CASE CheckShutdown
  BY <1>6 DEF CheckShutdown
<1>7. CASE TakePendingLoss
  BY <1>7, SMTT(30) DEF TakePendingLoss
<1>8. CASE Recover
  BY <1>8 DEF Recover
<1>9. CASE Tick
  BY <1>9 DEF Tick
<1>10. ASSUME ReceiveControl \/ ReceiveData
       PROVE  /\ queue' \in Seq(Nat) /\ Len(queue') <= Capacity
              /\ loss' \in {0, 1} /\ control' \in {0, 1} /\ shutdown' \in {0, 1}
              /\ pub' \in PublisherSteps /\ ret' \in {"loss", "poll", "top"}
              /\ held' \in Nat \cup {None, Control} /\ delivered' \in Nat
  <2>1. CASE ReceiveControl
    BY <2>1 DEF ReceiveControl
  <2>2. CASE ReceiveData
    <3>1. Head(queue) \in Nat /\ Tail(queue) \in Seq(Nat) /\ Len(Tail(queue)) <= Capacity
      BY <2>2 DEF ReceiveData
    <3>2. QED
      BY <2>2, <3>1 DEF ReceiveData
  <2>3. QED
    BY <1>10, <2>1, <2>2
<1>11. CASE Poll \/ Wait
  <2>1. CASE ReceiveControl \/ ReceiveData
    BY <1>11, <1>10, <2>1, ZenonT(30) DEF Poll, Wait
  <2>2. CASE ~(ReceiveControl \/ ReceiveData)
    BY <1>11, <2>2, ZenonT(30) DEF Poll, Wait
  <2>3. QED
    BY <2>1, <2>2, SMTT(30)
<1>12. CASE WaitTick
  BY <1>12 DEF WaitTick
<1>13. CASE Handle
  BY <1>13 DEF Handle
<1>14. CASE RequestActivation \/ Shutdown
  <2>1. CASE RequestActivation
    BY <2>1 DEF RequestActivation
  <2>2. CASE Shutdown
    BY <2>2 DEF Shutdown
  <2>3. QED
    BY <1>14, <2>1, <2>2, SMTT(30)
<1>15. CASE UNCHANGED vars
  BY <1>15 DEF vars
<1>16. QED
  BY <1>1, <1>2, <1>3, <1>4, <1>5, <1>6, <1>7, <1>8, <1>9, <1>11, <1>12, <1>13, ZenonT(30),
     <1>14, <1>15 DEF Next, TrySend, Publisher

\* Every variable stays within its type (the state of ProducerInner and of the
\* receive loop).
THEOREM TypeCorrect == Spec => []TypeOK
<1>1. Init => TypeOK
  BY FeedQueueAssumption, SMTT(30) DEF Init, TypeOK, ProducerSteps, PublisherSteps
<1>2. QED
  BY <1>1, TypeInductive, PTL DEF Spec

-----------------------------------------------------------------------------
(* No event overtakes a recorded loss. *)

\* An event is reserved only when nothing is owed, and the publisher takes the
\* whole count at once, so OrderInv is preserved by every step.
LEMMA OrderInductive == OrderInv /\ [Next]_vars => OrderInv'
<1> SUFFICES ASSUME OrderInv, [Next]_vars PROVE OrderInv'
  OBVIOUS
<1>0. TypeOK /\ TypeOK'
  BY TypeInductive DEF OrderInv
<1> SUFFICES LossRemembered' /\ StampsTaken' /\ Accounting'
  BY <1>0 DEF OrderInv
<1> USE <1>0 DEF OrderInv, LossRemembered, StampsTaken, Accounting, word, producerVars,
        publisherVars
<1>1. ASSUME NEW p \in Producers, Reserve(p)
      PROVE  LossRemembered' /\ StampsTaken' /\ Accounting'
  <2>1. CASE ReserveSucceeds
    <3>1. recorded <= taken
      BY <2>1 DEF ReserveSucceeds, TypeOK
    <3>2. \A q \in Producers : pc'[q] = "reserved" => stamp'[q] <= taken
      BY <1>1, <2>1, <3>1 DEF Reserve, TypeOK
    <3>3. enqueue_state'.dropped = enqueue_state.dropped
      BY <1>1, <2>1 DEF Reserve, TypeOK
    <3>4. QED
      BY <1>1, <3>2, <3>3 DEF Reserve
  <2>2. CASE ~ReserveSucceeds
    <3>1. \A q \in Producers : pc'[q] = "reserved" => stamp'[q] <= taken
      BY <1>1, <2>2, SMTT(30) DEF Reserve, TypeOK
    <3>2. QED
      BY <1>1, <2>2, <3>1 DEF Reserve
  <2>3. QED
    BY <2>1, <2>2
<1>2. ASSUME NEW p \in Producers, Enqueue(p)
      PROVE  LossRemembered' /\ StampsTaken' /\ Accounting'
  <2>1. \A i \in 1 .. Len(queue') : queue'[i] <= taken
    <3>1. CASE UNCHANGED queue
      BY <3>1
    <3>2. CASE queue' = Append(queue, stamp[p])
      <4>1. stamp[p] <= taken /\ stamp[p] \in Nat
        BY <1>2 DEF Enqueue, TypeOK
      <4> queue \in Seq(Nat)
        BY DEF TypeOK
      <4>2. /\ Len(queue') = Len(queue) + 1 /\ Len(queue) \in Nat
            /\ queue'[Len(queue) + 1] = stamp[p]
            /\ \A i \in 1 .. Len(queue) : queue'[i] = queue[i]
        BY <3>2, <4>1, AppendElements, Zenon
      <4>3. \A i \in 1 .. Len(queue') : i \in 1 .. Len(queue) \/ i = Len(queue) + 1
        BY <4>2
      <4>4. \A i \in 1 .. Len(queue) : queue[i] <= taken
        OBVIOUS
      <4>5. QED
        BY <4>1, <4>2, <4>3, <4>4
    <3>3. QED
      BY <1>2, <3>1, <3>2 DEF Enqueue
  <2>2. \A q \in Producers : pc'[q] = "reserved" => pc[q] = "reserved"
    BY <1>2 DEF Enqueue, TypeOK
  <2>3. QED
    BY <1>2, <2>1, <2>2 DEF Enqueue
<1>3. ASSUME NEW p \in Producers, RecordDrop(p)
      PROVE  LossRemembered' /\ StampsTaken' /\ Accounting'
  <2>1. enqueue_state'.dropped > 0
    <3>1. Saturated(enqueue_state.dropped) \in 1 .. DropCountMask
      BY SaturatedType, SMTT(30) DEF TypeOK
    <3>2. enqueue_state'.dropped = Saturated(enqueue_state.dropped)
      BY <1>3 DEF RecordDrop, TypeOK
    <3>3. QED
      BY <3>1, <3>2, FeedQueueAssumption
  <2>2. recorded' > taken /\ taken' = taken
    BY <1>3, SMTT(30) DEF RecordDrop, TypeOK
  <2>3. \A q \in Producers : pc'[q] = "reserved" => pc[q] = "reserved"
    BY <1>3 DEF RecordDrop, TypeOK
  <2>4. StampsTaken'
    BY <1>3, <2>3 DEF RecordDrop
  <2>5. Accounting'
    BY <1>3, SMTT(30) DEF RecordDrop, TypeOK
  <2>6. QED
    BY <2>1, <2>2, <2>4, <2>5
<1>4. ASSUME NEW p \in Producers, Release(p) \/ NotifyLoss(p)
      PROVE  LossRemembered' /\ StampsTaken' /\ Accounting'
  <2>1. \A q \in Producers : pc'[q] = "reserved" => pc[q] = "reserved"
    BY <1>4 DEF Release, NotifyLoss, TypeOK
  <2>2. enqueue_state'.dropped = enqueue_state.dropped
    BY <1>4 DEF Release, NotifyLoss, TypeOK
  <2>3. QED
    BY <1>4, <2>1, <2>2 DEF Release, NotifyLoss
<1>5. CASE TakePendingLoss
  <2>1. CASE UNCHANGED <<enqueue_state, taken>>
    BY <1>5, <2>1 DEF TakePendingLoss
  <2>2. CASE enqueue_state' = [enqueue_state EXCEPT !.dropped = 0] /\ taken' = recorded
                /\ pub' = "recover"
    <3>1. enqueue_state'.dropped = 0
      BY <2>2 DEF TypeOK
    <3>2. StampsTaken'
      <4>1. \A n \in Nat : n <= taken => n <= taken'
        BY <2>2, SMTT(30) DEF TypeOK
      <4>2. \A i \in 1 .. Len(queue') : queue'[i] <= taken'
        BY <1>5, <4>1, SMTT(30) DEF TakePendingLoss, TypeOK
      <4>3. \A p \in Producers : pc'[p] = "reserved" => stamp'[p] <= taken'
        BY <1>5, <4>1 DEF TakePendingLoss, TypeOK
      <4>4. held' \in Nat => held' <= taken'
        BY <1>5, <4>1 DEF TakePendingLoss
      <4>5. QED
        BY <4>2, <4>3, <4>4
    <3>3. QED
      BY <1>5, <2>2, <3>1, <3>2 DEF TakePendingLoss, TypeOK
  <2>3. QED
    BY <1>5, <2>1, <2>2 DEF TakePendingLoss
<1>6. CASE Poll \/ Wait
  <2>1. (pub' = "recover" <=> pub = "recover") /\ pub # "stopped"
    BY <1>6 DEF Poll, Wait, ReceiveControl, ReceiveData
  <2>2. \A i \in 1 .. Len(queue') : queue'[i] <= taken
    <3>1. CASE UNCHANGED queue
      BY <3>1
    <3>2. CASE ReceiveData
      BY <3>2 DEF ReceiveData, TypeOK
    <3>3. QED
      BY <1>6, <3>1, <3>2 DEF Poll, Wait, ReceiveControl
  <2>3. held' \in Nat => held' <= taken
    <3>1. CASE held' \in {held, Control}
      BY <3>1 DEF Control
    <3>2. CASE ReceiveData
      BY <3>2 DEF ReceiveData, TypeOK
    <3>3. QED
      BY <1>6, <3>1, <3>2 DEF Poll, Wait, ReceiveControl
  <2>4. QED
    BY <1>6, <2>1, <2>2, <2>3 DEF Poll, Wait
<1>7. CASE Recover
  BY <1>7 DEF Recover, TypeOK
<1>8. CASE CheckShutdown \/ Tick \/ WaitTick
  BY <1>8 DEF CheckShutdown, Tick, WaitTick
<1>9. CASE Handle
  BY <1>9 DEF Handle, None
<1>10. CASE RequestActivation \/ Shutdown
  BY <1>10 DEF RequestActivation, Shutdown
<1>11. CASE UNCHANGED vars
  BY <1>11 DEF vars
<1>12. QED
  BY <1>1, <1>2, <1>3, <1>4, <1>5, <1>6, <1>7, <1>8, <1>9, <1>10, <1>11
     DEF Next, TrySend, Publisher

\* The drop count and the ghost counters agree, and every event in flight was
\* reserved before any loss that is still owed.
LEMMA OrderInvariant == Spec => []OrderInv
<1>1. Init => OrderInv
  BY FeedQueueAssumption DEF Init, OrderInv, TypeOK, LossRemembered, StampsTaken, Accounting,
     ProducerSteps, PublisherSteps, None
<1>2. QED
  BY <1>1, OrderInductive, PTL DEF Spec

\* take_pending_loss: no event is handled before every drop recorded ahead of it has
\* been made good by a snapshot.
THEOREM OrderPreserved == Spec => []NoOvertake
<1>1. OrderInv => NoOvertake
  BY DEF OrderInv, StampsTaken, Accounting, NoOvertake
<1>2. QED
  BY <1>1, OrderInvariant, PTL

\* record_drop against take_pending_loss: saturation never forgets a loss.
THEOREM LossNeverForgotten == Spec => []LossRemembered
<1>1. OrderInv => LossRemembered
  BY SMTT(30) DEF OrderInv
<1>2. QED
  BY <1>1, OrderInvariant, PTL

-----------------------------------------------------------------------------
(* The lock bit, and no lost wake-up. *)

\* A step that leaves the word and the producers alone keeps LockOwned.
LEMMA LockOwnedInductive == TypeOK /\ LockOwned /\ [Next]_vars => LockOwned'
<1> SUFFICES ASSUME TypeOK, LockOwned, [Next]_vars PROVE LockOwned'
  OBVIOUS
<1> USE DEF TypeOK, LockOwned, LockSteps
<1>1. ASSUME NEW p \in Producers, Reserve(p) PROVE LockOwned'
  <2>1. CASE ReserveSucceeds
    <3>1. \A q \in Producers : pc[q] \notin LockSteps
      BY <2>1 DEF ReserveSucceeds
    <3>2. enqueue_state'.locked = 1
      BY <1>1, <2>1 DEF Reserve
    <3>3. \A q \in Producers : pc'[q] \in LockSteps <=> q = p
      BY <1>1, <2>1, <3>1 DEF Reserve
    <3>4. QED
      BY <3>2, <3>3
  <2>2. CASE ~ReserveSucceeds
    <3>1. \A q \in Producers : pc'[q] \in LockSteps <=> pc[q] \in LockSteps
      BY <1>1, <2>2 DEF Reserve
    <3>2. enqueue_state' = enqueue_state
      BY <1>1, <2>2 DEF Reserve
    <3>3. QED
      BY <3>1, <3>2
  <2>3. QED
    BY <2>1, <2>2
<1>2. ASSUME NEW p \in Producers, Enqueue(p) \/ RecordDrop(p) \/ NotifyLoss(p)
      PROVE  LockOwned'
  <2>1. \A q \in Producers : pc'[q] \in LockSteps <=> pc[q] \in LockSteps
    BY <1>2 DEF Enqueue, RecordDrop, NotifyLoss
  <2>2. enqueue_state'.locked = enqueue_state.locked
    BY <1>2 DEF Enqueue, RecordDrop, NotifyLoss, word
  <2>3. QED
    BY <2>1, <2>2
<1>3. ASSUME NEW p \in Producers, Release(p) PROVE LockOwned'
  <2>1. \A q \in Producers : pc'[q] \notin LockSteps
    BY <1>3 DEF Release
  <2>2. enqueue_state'.locked = 0
    BY <1>3 DEF Release
  <2>3. QED
    BY <2>1, <2>2
<1>4. CASE TakePendingLoss
  <2>1. enqueue_state'.locked = enqueue_state.locked /\ pc' = pc
    BY <1>4 DEF TakePendingLoss, producerVars
  <2>2. QED
    BY <2>1
<1>5. CASE UNCHANGED <<enqueue_state, pc>>
  BY <1>5, SMTT(30)
<1>6. QED
  BY <1>1, <1>2, <1>3, <1>4, <1>5
     DEF Next, TrySend, Publisher, CheckShutdown, Recover, Tick, Poll, Wait, WaitTick, Handle,
         RequestActivation, Shutdown, vars, word, producerVars

\* The word changes from "nothing owed" to "owed and unlocked" only under a producer
\* that is about to notify, and the publisher that consumes a token rereads the word.
LEMMA WakeupInductive == WakeupInv /\ [Next]_vars => WakeupInv'
<1> SUFFICES ASSUME WakeupInv, [Next]_vars PROVE WakeupInv'
  OBVIOUS
<1>0. TypeOK /\ TypeOK' /\ LockOwned /\ LockOwned'
  BY TypeInductive, LockOwnedInductive DEF WakeupInv
<1> SUFFICES WakeupPending'
  BY <1>0 DEF WakeupInv
<1> USE <1>0 DEF WakeupInv, WakeupPending, word, producerVars, publisherVars
<1>1. ASSUME NEW p \in Producers, Reserve(p) PROVE WakeupPending'
  <2>1. \A q \in Producers : pc[q] = "notify" => pc'[q] = "notify"
    BY <1>1 DEF Reserve, TypeOK
  <2>2. CASE ReserveSucceeds
    BY <1>1, <2>2 DEF Reserve, TypeOK
  <2>3. CASE ~ReserveSucceeds
    BY <1>1, <2>1, <2>3 DEF Reserve
  <2>4. QED
    BY <2>2, <2>3
<1>2. ASSUME NEW p \in Producers, Enqueue(p) PROVE WakeupPending'
  <2>1. \A q \in Producers : pc[q] = "notify" => pc'[q] = "notify"
    BY <1>2 DEF Enqueue, TypeOK
  <2>2. QED
    BY <1>2, <2>1 DEF Enqueue
<1>3. ASSUME NEW p \in Producers, RecordDrop(p) PROVE WakeupPending'
  <2>1. CASE pc[p] = "full"
    <3>1. enqueue_state.locked = 1
      BY <2>1 DEF LockOwned, LockSteps, TypeOK
    <3>2. enqueue_state'.locked = 1
      BY <1>3, <3>1 DEF RecordDrop, TypeOK
    <3>3. QED
      BY <3>2
  <2>2. CASE pc[p] = "busy"
    <3>1. pc'[p] = "notify"
      BY <1>3, <2>2 DEF RecordDrop, TypeOK
    <3>2. QED
      BY <3>1
  <2>3. QED
    BY <1>3, <2>1, <2>2 DEF RecordDrop
<1>4. ASSUME NEW p \in Producers, Release(p) PROVE WakeupPending'
  <2>1. enqueue_state'.dropped = enqueue_state.dropped
    BY <1>4 DEF Release, TypeOK
  <2>2. enqueue_state.dropped # 0 => pc'[p] = "notify"
    BY <1>4 DEF Release, TypeOK
  <2>3. QED
    BY <2>1, <2>2, SMTT(30) DEF TypeOK
<1>5. ASSUME NEW p \in Producers, NotifyLoss(p) PROVE WakeupPending'
  BY <1>5 DEF NotifyLoss
<1>6. CASE TakePendingLoss
  <2>1. CASE UNCHANGED enqueue_state
    BY <1>6, <2>1 DEF TakePendingLoss, TypeOK
  <2>2. CASE enqueue_state' = [enqueue_state EXCEPT !.dropped = 0]
    BY <2>2 DEF TypeOK
  <2>3. QED
    BY <1>6, <2>1, <2>2 DEF TakePendingLoss
<1>7. CASE CheckShutdown
  BY <1>7 DEF CheckShutdown
<1>8. CASE Recover \/ Tick \/ WaitTick \/ Handle
  BY <1>8 DEF Recover, Tick, WaitTick, Handle
<1>9. CASE Poll \/ Wait
  BY <1>9 DEF Poll, Wait, ReceiveControl, ReceiveData
<1>10. CASE RequestActivation \/ Shutdown
  BY <1>10 DEF RequestActivation, Shutdown
<1>11. CASE UNCHANGED vars
  BY <1>11 DEF vars
<1>12. QED
  BY <1>1, <1>2, <1>3, <1>4, <1>5, <1>6, <1>7, <1>8, <1>9, <1>10, <1>11
     DEF Next, TrySend, Publisher

\* The inductive invariant behind the two theorems below.
LEMMA WakeupInvariant == Spec => []WakeupInv
<1>1. Init => WakeupInv
  BY FeedQueueAssumption DEF Init, WakeupInv, TypeOK, LockOwned, LockSteps, WakeupPending,
     ProducerSteps, PublisherSteps
<1>2. QED
  BY <1>1, WakeupInductive, PTL DEF Spec

\* try_send: the lock bit is set exactly while one producer owns the reservation.
THEOREM MutualExclusion == Spec => []LockOwned
<1>1. WakeupInv => LockOwned
  BY DEF WakeupInv
<1>2. QED
  BY <1>1, WakeupInvariant, PTL

\* notify_loss: a parked publisher that is owed a recovery will be woken.
THEOREM WakeupNeverLost == Spec => []NoLostWakeup
<1>1. WakeupInv => NoLostWakeup
  BY DEF WakeupInv, TypeOK, LockOwned, LockSteps, WakeupPending, NoLostWakeup
<1>2. QED
  BY <1>1, WakeupInvariant, PTL

-----------------------------------------------------------------------------
(* Nothing is lost without being counted. *)

\* Producers whose event is neither in the channel nor counted as dropped yet.
Undecided == {p \in Producers : pc[p] \in {"reserved", "full", "busy"}}

CountInv == TypeOK /\ NoSilentLoss

\* There are finitely many threads, so the undecided ones can be counted.
LEMMA UndecidedFinite == IsFiniteSet(Undecided) /\ Cardinality(Undecided) \in Nat
BY FeedQueueAssumption, FS_Subset, FS_CardinalityType DEF Undecided

\* A call of try_send that begins makes its thread undecided.
LEMMA UndecidedEnters ==
  ASSUME NEW p \in Producers, p \notin Undecided, Undecided' = Undecided \cup {p}
  PROVE  Cardinality(Undecided') = Cardinality(Undecided) + 1
BY UndecidedFinite, FS_AddElement

\* An event that is queued or counted takes its thread out.
LEMMA UndecidedLeaves ==
  ASSUME NEW p \in Producers, p \in Undecided, Undecided' = Undecided \ {p}
  PROVE  Cardinality(Undecided') = Cardinality(Undecided) - 1
BY UndecidedFinite, FS_RemoveElement

\* Each step of try_send moves one call from undecided to queued or recorded, and the
\* publisher moves events from the channel to the delivered ones.
LEMMA CountInductive == CountInv /\ [Next]_vars => CountInv'
<1> SUFFICES ASSUME CountInv, [Next]_vars PROVE CountInv'
  OBVIOUS
<1>0. TypeOK /\ TypeOK'
  BY TypeInductive DEF CountInv
<1> SUFFICES ASSUME pub' # "stopped"
             PROVE  attempts' = delivered' + Len(queue') + recorded' + Cardinality(Undecided')
  BY <1>0, SMTT(30) DEF CountInv, NoSilentLoss, Undecided
<1>a. pub # "stopped"
  BY DEF Next, TrySend, Reserve, Enqueue, RecordDrop, Release, NotifyLoss, Publisher,
     CheckShutdown, TakePendingLoss, Recover, Tick, Poll, Wait, WaitTick, Handle,
     RequestActivation, Shutdown, publisherVars, vars
<1>b. attempts = delivered + Len(queue) + recorded + Cardinality(Undecided)
  BY <1>a DEF CountInv, NoSilentLoss, Undecided
<1>c. /\ attempts \in Nat /\ delivered \in Nat /\ recorded \in Nat /\ Len(queue) \in Nat
      /\ Cardinality(Undecided) \in Nat /\ pc \in [Producers -> ProducerSteps]
      /\ queue \in Seq(Nat) /\ stamp \in [Producers -> Nat]
  BY <1>0, UndecidedFinite, SMTT(30) DEF TypeOK
<1>1. ASSUME NEW p \in Producers, Reserve(p)
      PROVE  attempts' = delivered' + Len(queue') + recorded' + Cardinality(Undecided')
  <2>1. p \notin Undecided /\ Undecided' = Undecided \cup {p}
    BY <1>1, <1>c DEF Reserve, Undecided
  <2>2. attempts' = attempts + 1 /\ UNCHANGED <<delivered, queue, recorded>>
    BY <1>1 DEF Reserve, publisherVars
  <2>3. Cardinality(Undecided') = Cardinality(Undecided) + 1
    BY <2>1, UndecidedEnters
  <2>4. QED
    BY <2>2, <2>3, <1>b, <1>c
<1>2. ASSUME NEW p \in Producers, Enqueue(p)
      PROVE  attempts' = delivered' + Len(queue') + recorded' + Cardinality(Undecided')
  <2>1. UNCHANGED <<attempts, delivered, recorded>> /\ p \in Undecided
    BY <1>2 DEF Enqueue, publisherVars, word, Undecided
  <2>2. CASE queue' = Append(queue, stamp[p]) /\ pc' = [pc EXCEPT ![p] = "release"]
    <3>1. Undecided' = Undecided \ {p}
      BY <2>2, <1>c DEF Undecided
    <3>2. Len(queue') = Len(queue) + 1
      BY <2>2, <1>c
    <3>3. Cardinality(Undecided') = Cardinality(Undecided) - 1
      BY <2>1, <3>1, UndecidedLeaves
    <3>4. QED
      BY <2>1, <3>2, <3>3, <1>b, <1>c
  <2>3. CASE UNCHANGED queue /\ pc' = [pc EXCEPT ![p] = "full"]
    <3>1. Undecided' = Undecided
      BY <1>2, <2>3, <1>c DEF Undecided, Enqueue
    <3>2. QED
      BY <2>1, <2>3, <3>1, <1>b
  <2>4. QED
    BY <1>2, <1>a, <2>2, <2>3 DEF Enqueue
<1>3. ASSUME NEW p \in Producers, RecordDrop(p)
      PROVE  attempts' = delivered' + Len(queue') + recorded' + Cardinality(Undecided')
  <2>1. p \in Undecided /\ Undecided' = Undecided \ {p}
    BY <1>3, <1>c DEF RecordDrop, Undecided
  <2>2. recorded' = recorded + 1 /\ UNCHANGED <<attempts, delivered, queue>>
    BY <1>3 DEF RecordDrop, publisherVars
  <2>3. Cardinality(Undecided') = Cardinality(Undecided) - 1
    BY <2>1, UndecidedLeaves
  <2>4. QED
    BY <2>2, <2>3, <1>b, <1>c
<1>4. ASSUME NEW p \in Producers, Release(p) \/ NotifyLoss(p)
      PROVE  attempts' = delivered' + Len(queue') + recorded' + Cardinality(Undecided')
  <2>1. Undecided' = Undecided
    BY <1>4, <1>c DEF Release, NotifyLoss, Undecided
  <2>2. UNCHANGED <<attempts, delivered, queue, recorded>>
    BY <1>4 DEF Release, NotifyLoss, publisherVars, word
  <2>3. QED
    BY <2>1, <2>2, <1>b
<1>5. ASSUME UNCHANGED <<pc, attempts, recorded, queue, delivered>>
      PROVE  attempts' = delivered' + Len(queue') + recorded' + Cardinality(Undecided')
  BY <1>5, <1>b DEF Undecided
<1>6. CASE Poll \/ Wait
  <2>1. UNCHANGED <<pc, attempts, recorded>>
    BY <1>6 DEF Poll, Wait, producerVars, word
  <2>2. CASE ReceiveData
    <3>1. Len(queue') = Len(queue) - 1 /\ delivered' = delivered + 1
      BY <2>2, <1>c DEF ReceiveData
    <3>2. Undecided' = Undecided
      BY <2>1 DEF Undecided
    <3>3. QED
      BY <2>1, <3>1, <3>2, <1>b, <1>c
  <2>3. CASE ~ReceiveData
    BY <1>6, <2>1, <2>3, <1>5 DEF Poll, Wait, ReceiveControl
  <2>4. QED
    BY <2>2, <2>3
<1>7. QED
  BY <1>1, <1>2, <1>3, <1>4, <1>5, <1>6, SMTT(30)
     DEF Next, TrySend, Publisher, CheckShutdown, TakePendingLoss, Recover, Tick, WaitTick,
         Handle, RequestActivation, Shutdown, vars, word, producerVars, publisherVars

\* try_send: until shutdown every call is delivered, queued, recorded as a drop or still under
\* way, whatever the number of producers and the width of the count.
THEOREM EveryCallAccounted == Spec => []NoSilentLoss
<1>1. Init => CountInv
  <2>1. ASSUME Init PROVE NoSilentLoss
    <3>1. {p \in Producers : pc[p] \in {"reserved", "full", "busy"}} = {}
      BY <2>1 DEF Init
    <3>2. Cardinality({p \in Producers : pc[p] \in {"reserved", "full", "busy"}}) = 0
      BY <3>1, FS_EmptySet
    <3>3. Len(queue) = 0 /\ attempts = 0 /\ delivered = 0 /\ recorded = 0
      BY <2>1 DEF Init
    <3>4. QED
      BY <3>2, <3>3 DEF NoSilentLoss
  <2>2. Init => TypeOK
    BY FeedQueueAssumption DEF Init, TypeOK, ProducerSteps, PublisherSteps
  <2>3. QED
    BY <2>1, <2>2 DEF CountInv
<1>2. CountInv => NoSilentLoss
  BY DEF CountInv
<1>3. QED
  BY <1>1, <1>2, CountInductive, PTL DEF Spec

==============================================================================
