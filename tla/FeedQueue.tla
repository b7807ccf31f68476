------------------------------ MODULE FeedQueue ------------------------------
(***************************************************************************)
(* The lossy hand-off from Reth's validation threads to the publisher      *)
(* thread: FeedProducer::try_send and take_pending_loss in feed.rs, and    *)
(* the receive loop run_publisher in publisher.rs.                         *)
(*                                                                         *)
(* A producer never waits.  One atomic word, enqueue_state, holds a lock   *)
(* bit that serialises enqueue attempts and a saturating count of dropped  *)
(* events.  An event whose compare-and-swap 0 -> LOCKED fails, or that     *)
(* meets a full queue, is dropped and counted; the publisher takes the     *)
(* count and republishes a canonical snapshot before it goes on.           *)
(*                                                                         *)
(* Every atomic operation of a producer is a step of its own.  What the    *)
(* publisher does with an event is left to the other modules: here an      *)
(* event is its stamp, the number of drops recorded before its             *)
(* reservation.                                                            *)
(***************************************************************************)
EXTENDS Integers, Sequences, FiniteSets

CONSTANTS
  Producers,      \* threads that call FeedProducer::publish_*
  Capacity,       \* stream.queue_capacity
  DropCountMask,  \* DROP_COUNT_MASK: the largest drop count the word holds
  MaxEvents       \* bound: calls of try_send in one behaviour

ASSUME FeedQueueAssumption ==
  /\ IsFiniteSet(Producers)
  /\ Capacity \in Nat \ {0}
  /\ DropCountMask \in Nat \ {0}
  /\ MaxEvents \in Nat

VARIABLES
  enqueue_state,  \* the word: [locked, dropped]
  queue,          \* the bounded data channel, as the stamps of its events
  loss,           \* the number of tokens in the bounded(1) loss_tx/loss_rx channel
  control,        \* the number of requests in the bounded(1) control channel
  shutdown,       \* the number of tokens in the publisher's shutdown channel
  pc,             \* the step of try_send each producer is at
  stamp,          \* the stamp of the event each producer is sending
  pub,            \* the step of run_publisher
  ret,            \* where recover_until_success returns to
  held,           \* the event dequeued and not yet handled, if any
  attempts,       \* ghost: calls of try_send so far
  delivered,      \* ghost: data events the publisher dequeued
  recorded,       \* ghost: drops recorded in the word, ever
  taken,          \* ghost: value of recorded when the publisher last took the count
  recovered       \* ghost: the drops a published snapshot has made good

word == <<enqueue_state, recorded, taken>>
producerVars == <<pc, stamp, attempts>>
publisherVars == <<pub, ret, held, delivered, recovered>>
vars == <<word, queue, loss, control, shutdown, producerVars, publisherVars>>

\* Values of held besides the stamp of a data event.
None == -1
Control == -2

ProducerSteps == {"idle", "reserved", "full", "release", "busy", "notify"}
PublisherSteps ==
  {"top", "loss", "recover", "tick", "poll", "wait", "handle", "stopped"}

\* Steps of the producer that owns the lock bit.
LockSteps == {"reserved", "full", "release"}

\* The types of the word, the channels and the two loops; the queue is within its capacity and
\* the drop count within its mask.
TypeOK ==
  /\ enqueue_state \in [locked : {0, 1}, dropped : 0 .. DropCountMask]
  /\ queue \in Seq(Nat) /\ Len(queue) <= Capacity
  /\ loss \in {0, 1} /\ control \in {0, 1} /\ shutdown \in {0, 1}
  /\ pc \in [Producers -> ProducerSteps]
  /\ stamp \in [Producers -> Nat]
  /\ pub \in PublisherSteps
  /\ ret \in {"loss", "poll", "top"}
  /\ held \in Nat \cup {None, Control}
  /\ attempts \in Nat /\ delivered \in Nat
  /\ recorded \in Nat /\ taken \in Nat /\ recovered \in Nat

Init ==
  /\ enqueue_state = [locked |-> 0, dropped |-> 0]
  /\ queue = <<>>
  /\ loss = 0 /\ control = 0 /\ shutdown = 0
  /\ pc = [p \in Producers |-> "idle"]
  /\ stamp = [p \in Producers |-> 0]
  /\ pub = "top" /\ ret = "top" /\ held = None
  /\ attempts = 0 /\ delivered = 0
  /\ recorded = 0 /\ taken = 0 /\ recovered = 0

-----------------------------------------------------------------------------
(* Producers: FeedProducer::try_send. *)

\* Fault: a compare-and-swap that looks at the count alone.
ReserveIgnoringLock == enqueue_state.dropped = 0

\* Fault: a compare-and-swap that looks at the lock bit alone.
ReserveWhileOwing == enqueue_state.locked = 0

\* The compare-and-swap succeeds only on the word 0: neither locked nor owing
\* a recovery.
ReserveSucceeds == enqueue_state.locked = 0 /\ enqueue_state.dropped = 0

Reserve(p) ==
  /\ pc[p] = "idle" /\ attempts < MaxEvents
  /\ attempts' = attempts + 1
  /\ stamp' = [stamp EXCEPT ![p] = recorded]
  /\ \/ /\ ReserveSucceeds
        /\ enqueue_state' = [enqueue_state EXCEPT !.locked = 1]
        /\ pc' = [pc EXCEPT ![p] = "reserved"]
     \/ /\ ~ReserveSucceeds
        /\ pc' = [pc EXCEPT ![p] = "busy"]
        /\ UNCHANGED enqueue_state
  /\ UNCHANGED <<recorded, taken, queue, loss, control, shutdown, publisherVars>>

\* Fault: the result of tx.try_send is discarded.
EnqueueIgnoringFull(p) ==
  /\ pc[p] = "reserved"
  /\ pc' = [pc EXCEPT ![p] = "release"]
  /\ queue' = IF pub # "stopped" /\ Len(queue) < Capacity
                THEN Append(queue, stamp[p]) ELSE queue
  /\ UNCHANGED <<word, stamp, attempts, loss, control, shutdown, publisherVars>>

\* tx.try_send: a full channel is a drop; a channel whose receiver is gone is not.
Enqueue(p) ==
  /\ pc[p] = "reserved"
  /\ \/ /\ pub = "stopped"
        /\ pc' = [pc EXCEPT ![p] = "release"]
        /\ UNCHANGED queue
     \/ /\ pub # "stopped" /\ Len(queue) < Capacity
        /\ queue' = Append(queue, stamp[p])
        /\ pc' = [pc EXCEPT ![p] = "release"]
     \/ /\ pub # "stopped" /\ Len(queue) >= Capacity
        /\ pc' = [pc EXCEPT ![p] = "full"]
        /\ UNCHANGED queue
  /\ UNCHANGED <<word, stamp, attempts, loss, control, shutdown, publisherVars>>

\* Fault: a plain fetch_add, masked.
SaturatedWrapping(n) == (n + 1) % (DropCountMask + 1)

\* The count saturates below the lock bit, which it leaves alone.
Saturated(n) == IF n < DropCountMask THEN n + 1 ELSE DropCountMask

RecordDrop(p) ==
  /\ pc[p] \in {"full", "busy"}
  /\ enqueue_state' = [enqueue_state EXCEPT !.dropped = Saturated(@)]
  /\ recorded' = recorded + 1
  /\ pc' = [pc EXCEPT ![p] = IF @ = "full" THEN "release" ELSE "notify"]
  /\ UNCHANGED <<taken, stamp, attempts, queue, loss, control, shutdown, publisherVars>>

\* Fault: the owner clears the bit and forgets the drops recorded meanwhile.
ReleaseSilently(p) ==
  /\ pc[p] = "release"
  /\ enqueue_state' = [enqueue_state EXCEPT !.locked = 0]
  /\ pc' = [pc EXCEPT ![p] = "idle"]
  /\ UNCHANGED <<recorded, taken, stamp, attempts, queue, loss, control, shutdown,
                 publisherVars>>

\* fetch_and(DROP_COUNT_MASK): the owner notifies on behalf of every drop that
\* was recorded while it held the lock.
Release(p) ==
  /\ pc[p] = "release"
  /\ enqueue_state' = [enqueue_state EXCEPT !.locked = 0]
  /\ pc' = [pc EXCEPT ![p] = IF enqueue_state.dropped # 0 THEN "notify" ELSE "idle"]
  /\ UNCHANGED <<recorded, taken, stamp, attempts, queue, loss, control, shutdown,
                 publisherVars>>

\* try_send on the bounded(1) channel: a token already there is enough.
NotifyLoss(p) ==
  /\ pc[p] = "notify"
  /\ loss' = 1
  /\ pc' = [pc EXCEPT ![p] = "idle"]
  /\ UNCHANGED <<word, stamp, attempts, queue, control, shutdown, publisherVars>>

TrySend(p) == Reserve(p) \/ Enqueue(p) \/ RecordDrop(p) \/ Release(p) \/ NotifyLoss(p)

-----------------------------------------------------------------------------
(* The publisher thread: run_publisher. *)

\* Head of the loop: shutdown_requested consumes the token.
CheckShutdown ==
  /\ pub = "top"
  /\ \/ shutdown = 1 /\ shutdown' = 0 /\ pub' = "stopped"
     \/ shutdown = 0 /\ pub' = "loss" /\ UNCHANGED shutdown
  /\ UNCHANGED <<word, queue, loss, control, producerVars, ret, held, delivered, recovered>>

\* recover_pending_loss around take_pending_loss.  A locked word reads as no loss:
\* its owner notifies when it releases the lock.
TakePendingLoss ==
  /\ pub = "loss"
  /\ \/ /\ enqueue_state.locked = 1 \/ enqueue_state.dropped = 0
        /\ pub' = IF held = None THEN "tick" ELSE "handle"
        /\ UNCHANGED <<enqueue_state, taken, ret>>
     \/ /\ enqueue_state.locked = 0 /\ enqueue_state.dropped # 0
        /\ enqueue_state' = [enqueue_state EXCEPT !.dropped = 0]
        /\ taken' = recorded
        /\ pub' = "recover" /\ ret' = "loss"
  /\ UNCHANGED <<recorded, queue, loss, control, shutdown, producerVars, held, delivered,
                 recovered>>

\* recover_until_success.  A failed attempt changes nothing the queue can see, so it
\* is a stuttering step; the shutdown channel is read only after one.
Recover ==
  /\ pub = "recover"
  /\ \/ recovered' = taken /\ pub' = ret /\ UNCHANGED shutdown
     \/ shutdown = 1 /\ shutdown' = 0 /\ pub' = "stopped" /\ UNCHANGED recovered
  /\ UNCHANGED <<word, queue, loss, control, producerVars, ret, held, delivered>>

\* maintenance.try_recv: no tick is due, run_maintenance succeeds, or it fails and a
\* recovery follows.
Tick ==
  /\ pub = "tick"
  /\ \/ pub' = "poll" /\ UNCHANGED ret
     \/ pub' = "recover" /\ ret' = "poll"
  /\ UNCHANGED <<word, queue, loss, control, shutdown, producerVars, held, delivered,
                 recovered>>

ReceiveControl ==
  /\ control = 1
  /\ control' = 0 /\ held' = Control
  /\ pub' = "loss"
  /\ UNCHANGED <<queue, loss, shutdown, ret, delivered>>

ReceiveData ==
  /\ queue # <<>>
  /\ held' = Head(queue) /\ queue' = Tail(queue)
  /\ delivered' = delivered + 1
  /\ pub' = "loss"
  /\ UNCHANGED <<loss, control, shutdown, ret>>

\* control_events.try_recv before receiver.try_recv, else wait.
Poll ==
  /\ pub = "poll"
  /\ \/ ReceiveControl
     \/ control = 0 /\ ReceiveData
     \/ /\ control = 0 /\ queue = <<>>
        /\ pub' = "wait"
        /\ UNCHANGED <<queue, loss, control, shutdown, ret, held, delivered>>
  /\ UNCHANGED <<word, producerVars, recovered>>

\* Faults: a select! without its loss_notifications arm, or without its data arm.
WaitIgnoringLoss ==
  /\ pub = "wait"
  /\ \/ ReceiveControl
     \/ ReceiveData
     \/ /\ shutdown = 1 /\ shutdown' = 0 /\ pub' = "stopped"
        /\ UNCHANGED <<queue, loss, control, ret, held, delivered>>
  /\ UNCHANGED <<word, producerVars, recovered>>

WaitIgnoringData ==
  /\ pub = "wait"
  /\ \/ ReceiveControl
     \/ /\ loss = 1 /\ loss' = 0 /\ pub' = "top"
        /\ UNCHANGED <<queue, control, shutdown, ret, held, delivered>>
     \/ /\ shutdown = 1 /\ shutdown' = 0 /\ pub' = "stopped"
        /\ UNCHANGED <<queue, loss, control, ret, held, delivered>>
  /\ UNCHANGED <<word, producerVars, recovered>>

\* The spin phase and the blocking select!: whichever channel is ready.
Wait ==
  /\ pub = "wait"
  /\ \/ ReceiveControl
     \/ ReceiveData
     \/ /\ loss = 1 /\ loss' = 0 /\ pub' = "top"
        /\ UNCHANGED <<queue, control, shutdown, ret, held, delivered>>
     \/ /\ shutdown = 1 /\ shutdown' = 0 /\ pub' = "stopped"
        /\ UNCHANGED <<queue, loss, control, ret, held, delivered>>
  /\ UNCHANGED <<word, producerVars, recovered>>

\* recv(maintenance) in select!: a tick while the publisher is parked.
WaitTick ==
  /\ pub = "wait"
  /\ \/ pub' = "top" /\ UNCHANGED ret
     \/ pub' = "recover" /\ ret' = "top"
  /\ UNCHANGED <<word, queue, loss, control, shutdown, producerVars, held, delivered,
                 recovered>>

\* publisher.handle may fail and is then followed by a recovery;
\* handle_control reports its failure to the requester instead.
Handle ==
  /\ pub = "handle"
  /\ held' = None
  /\ \/ pub' = "top" /\ UNCHANGED ret
     \/ held # Control /\ pub' = "recover" /\ ret' = "top"
  /\ UNCHANGED <<word, queue, loss, control, shutdown, producerVars, delivered, recovered>>

Publisher ==
  \/ CheckShutdown \/ TakePendingLoss \/ Recover \/ Tick
  \/ Poll \/ Wait \/ WaitTick \/ Handle

-----------------------------------------------------------------------------
(* The environment. *)

\* request_activation: one reloader, which waits for the answer to a request.
RequestActivation ==
  /\ control = 0 /\ held # Control /\ pub # "stopped"
  /\ control' = 1
  /\ UNCHANGED <<word, queue, loss, shutdown, producerVars, publisherVars>>

\* ServiceHandle::shutdown consumes the handle: it runs at most once.
Shutdown ==
  /\ shutdown = 0 /\ pub # "stopped"
  /\ shutdown' = 1
  /\ UNCHANGED <<word, queue, loss, control, producerVars, publisherVars>>

Next == (\E p \in Producers : TrySend(p)) \/ Publisher \/ RequestActivation \/ Shutdown

Spec == Init /\ [][Next]_vars

\* A producer runs its call to the end; the publisher thread is scheduled, and its
\* provider's errors are transient (a failed attempt is a stuttering step, so weak
\* fairness says that one succeeds unless a shutdown comes first).  Nothing forces a
\* maintenance tick, a new call, a request or a shutdown.
Fairness ==
  /\ \A p \in Producers :
       WF_vars(Enqueue(p) \/ RecordDrop(p) \/ Release(p) \/ NotifyLoss(p))
  /\ WF_vars(CheckShutdown \/ TakePendingLoss \/ Recover \/ Tick \/ Poll \/ Wait \/ Handle)

FairSpec == Spec /\ Fairness

-----------------------------------------------------------------------------
(* Properties. *)

\* The lock bit of the word is set exactly while one producer is between its
\* successful compare-and-swap and its fetch_and, and never two at once.
LockOwned ==
  /\ enqueue_state.locked = 1 <=> \E p \in Producers : pc[p] \in LockSteps
  /\ \A p, q \in Producers : pc[p] \in LockSteps /\ pc[q] \in LockSteps => p = q

\* The saturating count never forgets that something was lost: the word owes a
\* recovery exactly when a drop was recorded since the publisher last took it
\* (record_drop against take_pending_loss).
LossRemembered == (enqueue_state.dropped > 0) <=> (recorded > taken)

\* take_pending_loss: "no later event can acquire the enqueue reservation first".
\* When the publisher handles an event, every drop recorded before that event's
\* try_send began has been made good by a published snapshot.
NoOvertake == pub = "handle" /\ held \in Nat => held <= recovered

\* A loss cannot be left waiting for the next maintenance tick: while the
\* publisher is parked in select! and the word owes a recovery, either the loss
\* channel holds a token, or a producer is still on its way to notify_loss.
NoLostWakeup ==
  pub = "wait" /\ enqueue_state.dropped > 0 =>
    loss = 1 \/ \E p \in Producers : pc[p] \in {"notify", "release", "reserved", "full"}

\* Until shutdown every call of try_send ends as a queued event or as a recorded
\* drop: nothing is lost without being counted.
NoSilentLoss ==
  pub # "stopped" =>
    attempts = delivered + Len(queue) + recorded
               + Cardinality({p \in Producers : pc[p] \in {"reserved", "full", "busy"}})

\* Every recorded drop is eventually made good by a snapshot, unless the service
\* is shut down.
LossRecovered == \A n \in 1 .. MaxEvents :
  (recorded >= n) ~> (recovered >= n \/ shutdown = 1 \/ pub = "stopped")

\* Every queued event is eventually dequeued, unless the service is shut down or
\* activation requests, which every iteration polls first, never cease (the
\* reloader sleeps between two of them).
QueueDrains == \A n \in 1 .. MaxEvents :
  <>[](control = 0) =>
    ((delivered + Len(queue) >= n) ~> (delivered >= n \/ shutdown = 1 \/ pub = "stopped"))

==============================================================================
