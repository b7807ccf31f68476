# A formal model of reth-statefeed

reth-statefeed follows a Reth node's block validation and streams a projection of watched storage
slots to local consumers. This directory models its concurrency, its protocol and its candidate
bookkeeping in TLA+, checks small instances with TLC, and proves the results that matter most for
every instance with TLAPS.

## The system

```
 validation threads             publisher thread                 tokio tasks         clients
 ------------------             ----------------                 -----------         -------
 FeedProducer::try_send  --->   run_publisher                    serve_consumer ---> StreamCursor
   enqueue_state (CAS word)       take_pending_loss                                  CandidateTracker
   queue (bounded, lossy)         Publisher::handle  --->  Shared  (handshake)
   loss channel (1)               maintain                 publish_inner ---> broadcast ring
                                  recover_until_success
 reloader --- control channel (1) ---^         ^--- SnapshotSource::load_latest / load_at
```

A block goes through EXECUTED, VALIDATED and CANONICAL, or is rejected or retired. Producers never
wait: what does not fit in the queue is counted, and the publisher answers a count with a `Gap` and
a new `Snapshot`. Consumers get one gap-free sequence of frames, starting from a handshake that
reads state the publisher is changing at the same time.

## Inventory

| Part of the source | What it does | Here |
|---|---|---|
| `src/feed.rs` producer | lock-free, lossy enqueue; pending loss | `FeedQueue` |
| `src/feed.rs` extraction | watched changes of an executed bundle | `WatchSet`, `Projection` |
| `src/publisher.rs` `run_publisher` | receive loop over five channels | `FeedQueue` |
| `src/publisher.rs` `Shared` | sequence, handshake state, broadcast | `Publication` |
| `src/publisher.rs` `serve_consumer` | handshake, streaming, lag | `Publication` |
| `src/publisher.rs` `Publisher` | candidate cache, finality sweep, recovery | `CandidateCache` |
| `src/publisher.rs` `Publisher` | values, changed bitmaps, canonical transitions | `WatchSet`, `Projection` |
| `src/publisher.rs` reloader | file watching, activation, generations | `ConfigReload` |
| `src/publisher.rs` server, `bind_socket` | accept loop, socket file | `SocketLifecycle` |
| `src/reth_integration.rs` | engine callbacks, forkchoice tracker, provider snapshots | `SnapshotAnchor`; candidate callbacks in `CandidateCache` and `Projection` |
| `src/bin/statefeed-dump.rs` | reference consumer | `Publication`, `CandidateCache` |
| `src/watch.rs` | dense dictionary of watched slots | `WatchSet` |
| `src/config.rs` | TOML, limits | `ConfigReload`, `WireSize`; other limits are the assumptions on the constants |
| `src/wire.rs` | frames and their sizes | `WireSize` |
| `src/client.rs`, `proto/` | byte layout of frames | not modelled: no state of its own |
| `src/main.rs`, `src/lib.rs` | start-up | not modelled |
| `benches/`, `validation/` | measurements, Solidity fork tests | not modelled: not part of the service |

`PROJECT.json` has the same list with reasons (`components`), the code lines behind every
definition (`map`), and what is hard to test here (`hazards`).

## Modules

### FeedQueue

`enqueue_state` is the record `[locked, dropped]` for the 64-bit word of a lock bit and a
saturating count. Each atomic operation of `try_send` is one action: `Reserve` (compare-and-swap
0 -> LOCKED), `Enqueue` (`tx.try_send`), `RecordDrop` (the saturating update), `Release`
(`fetch_and`) and `NotifyLoss`. The publisher's loop is `CheckShutdown`, `TakePendingLoss`,
`Recover`, `Tick`, `Poll`, `Wait`, `WaitTick` and `Handle`, one per place where it touches shared
state. A failed attempt of a recovery changes nothing here and is a stuttering step. The spin
phase before the blocking `select!` receives like `select!` and is part of `Wait`.

An event is its *stamp*: how many drops had been recorded when its `try_send` began. The ghosts
`recorded`, `taken` and `recovered` say how many drops were ever recorded, how many the publisher
has taken, and how many a snapshot has made good. `WaitTick` is apart from `Wait` because fairness
must not rely on the maintenance ticker to wake the publisher.

### Publication and OrderedFeed

`publish_inner` is four steps: `Encode` (inside the publishing operation; nobody else sees it),
`StoreState`, `CommitSequence`, `Send`. A handshake is three: `Subscribe`, `LoadCommitted`,
`Handshake`. The operations of the publisher appear as the frames they publish: `Canonical` and then
`ForkchoiceApplied`; `Activate` and then `ActivateSnapshot`; `AnnounceGap` and then `Reanchor`;
`PublishCandidate` for the four frames that leave the handshake state alone. `Fail` is any failure
after which `recover_until_success` runs, with or without a sequence allocated and lost. The client
is `StreamCursor::observe` with `validate_generation`, plus the canonical state a consumer keeps that
applies every frame (`Apply`; `statefeed-dump` itself prints the values and forgets them).

Projections are their blocks; safe and finalized together are one mark. `Disconnect` covers write
timeouts. A lagging receiver is dropped as the code does on `RecvError::Lagged`.

`OrderedFeed` is the promise to a consumer: one log of states; a consumer attaches at an entry no gap
has disowned and is then given every later entry once and in order until it is detached.
`FollowsLog` says that `Publication` implements it, with the log taken as the initial state followed
by the state each frame leaves behind.

### CandidateCache

The publisher is one thread, so a handler of an event is one action, and the handlers are operators
from publisher state to publisher state: `ProjectCandidate`, `PromoteValidated`, `Reject`,
`ApplyForkchoice`, and `MaintainOutcomes` for a tick (a set, because the code's hash map order and
its budget leave open which expired records go first). Frames published by a handler are in `out`;
`Deliver` lets the consumer's `CandidateTracker` apply them.

The engine is external: it executes, validates, inserts, rejects and applies forkchoices in an order
Reth can produce. `Pipelined` lets a child execute before its parent is validated, as the
repository's own test of descendant removal does
(`rejection_removes_executed_candidate_and_descendants`). `Losses` adds lost events, state resets and
activations. A failed handler leaves `failed` set, and only `Recover` can follow.

The consumer's tracker has its own limit (`TrackerLimit`) and evicts its oldest entry without being
told. It must exceed the publisher's `candidate_cache_blocks` by one, because a `BlockState` is
published before the retirement that makes room for it; `cache` and `cache_churn` give it exactly that one, and with equal limits `MirrorsTracked` and
`TrackedHeld` fail. The defaults are far apart (4096 against 128).

Time is abstract: any record may be past its expiry at a tick. Values of projections, the batching of
retirement frames by size, and observation timestamps are left out. Events older than the snapshot
anchor change nothing in this part of the state; which events those are is the subject of
`SnapshotAnchor`.

### SnapshotAnchor

A snapshot is read while the engine keeps deciding, and events that were already on their way meet a
state that may or may not include them. This module has the engine thread, `load_latest` and the
publisher's loop side by side.

* The engine (external up to its callback) moves the provider's head (`Decide`), then its safe and its
  finalized block, each on its own and in either order (`DecideCheckpoint`). The callback is `UpdateTracker`, `Observe` (the clock),
  `LoadGeneration` and `TrySend`, in the order of `on_forkchoice_applied` and
  `publish_forkchoice_applied`.
* `load_latest` is one action per read: `LoadTracker`, `Select` (head, safe, finalized), `ReadProjection`,
  `Stamp` (the clock), `Confirm` (the tracker), `ConfirmHead`, `ConfirmSafe`, `ConfirmFinalized`, with
  `Unread` and `ProviderError` for its errors and `Retry` for its attempts. `load_at` reads one block by
  its hash, and is one step. `LoadFails` is what an error means to each of its callers:
  `start_service` stops, an activation is rejected, a recovery tries again.
* The loop is `ReceiveControl`, `ReceiveData`, `TakePendingLoss`, `Handle` and `ActivateProducer`;
  `OtherError` is a failed candidate event or maintenance. `Covered` is the comparison with
  `snapshot_anchored_at`.

The queue appears through what `FeedQueue` shows: an event is queued, or a recovery is owed before a
later event is handled. A decision is numbered by the tracker's revision; `published.revision` and
`seen` are ghosts. A view is three blocks: head, safe and finalized. `CallbackTicks` and
`SnapshotTicks` say how far the clock may be past its last reading, on either thread, when a callback
and when `load_latest` reads it; 0 among them lets two readings be equal.

### ConfigReload and WireSize

`ConfigReload` has the file and its watcher, the reloader, the publisher's part and the threads that
extract, side by side. The reloader's places are its awaits: `starting`, `idle`, `debounce`, `load`,
`request`, `await`, `backoff`. `InstallFails` ends the reloader before its loop, when the watcher or the
SIGHUP handler cannot be installed. A save without a watcher is not noticed by anyone (`unwatched`).
`TakeControl`, `LoadLatest`, `PublishConfig` and `ActivateHotPath` are `handle_control` and `activate`, with the points in between where another thread can look. `Extract` and `HandleEvent` put an
event in flight with the watch set that was loaded for it.

A file is whether it parses, its stream section and its keys; `Valid` is `Config::load`. What `validate`
budgets and what frames really need is `WireSize`: the encoded length of every message whose size
varies, from the number of keys, the lengths of ids and the width of each varint, and the limits of
`config.rs`, of the preflight and of `publish_retired`.

### SocketLifecycle

Several processes share one path. Each system call of `bind_socket` and of `SocketCleanup::drop` is an
action: `Inspect`, `Probe`, `RemoveStale`, `Bind`, `Listen`, `Stat`, `Chmod`; `Check`, `Unlink`, `Exit`.
A call that fails for a reason of its own is `StartFails`, `StatFails`, `ChmodFails` or `CleanupFails`:
the first makes the start fail, `ChmodFails` also removes the socket, and `StatFails` (the error is
returned before there is a `SocketCleanup`) and `CleanupFails` (the error is only logged) leave it.
`UnixListener::bind` is two calls, and between them a connection is refused. Inode numbers are reused
once nothing refers to them. `Accept`, `Finish`, `Stop` and `Drain` are `run_server`. `Crash` closes
everything and leaves the path; `RemoveByHand` is an operator or a cleaner of temporary files. A starting
process connects like a client, and takes a consumer's permit if it is accepted. `SerialStarts` says
that the supervisor lets one start end before the next begins; stops, crashes and everything else
still overlap it. `abandoned` (the socket left by a crash or a failed call) and `unlinked`
are ghosts.

### WatchSet and Projection

`WatchSet` has the pure parts: `Compile`, the binary search and the hash index, both loops of
`extract_account_changes`, `Project` and `CanonicalBitmap`. `Projection` runs them: the engine executes
blocks with arbitrary bundles on valid parents and applies forkchoices; the publisher projects, defers,
promotes and loads, moves the head and activates a second dictionary, while candidates disappear in
any order. `storage` is the true state after each block, and every projection is compared with it.
`index` is a consumer that looks only at the keys whose bits are set.

## Runs

| Run | Instance | States | Shows |
|---|---|---|---|
| `feed_queue` | 3 producers, queue of 1, mask 1, 3 calls, fair | 105,244 | mutual exclusion, losses remembered, no overtaking, no lost wake-up, nothing lost uncounted; every loss is recovered, every queued event dequeued |
| `publication` | 2 blocks, 2 marks, ring of 2, 3 sequences, fair | 595,936 | clients accept every frame, mirror the published state, follow the log, and are always readmitted |
| `cache` | fork of 4 blocks, checkpoints root and a1, losses, 5 incarnations, tracker of 3, fair | 118,892 | publisher and consumer agree, the head is kept, tombstones are terminal, and the rivals of the checkpoint are retired |
| `cache_churn` | same fork, both limits 2, pipelined, 7 incarnations | 332,319 | order queues, bounds and children index survive compaction and reinsertion, sweeps are complete, a consumer holds every tracked candidate |
| `cache_orphan` | chain of 4, pipelined execution | violated | see Findings |
| `cache_trim` | root and 4 siblings | violated | see Findings |
| `anchor` | 2 decisions, 2 attempts, 1 error or activation, a tick before every callback, fair | 1,113,009 | no decision is forgotten or undone, a view was one state of the provider or is superseded, the stream arrives at the last decision |
| `anchor_coarse` | 2 decisions, a callback may read the time of the snapshot | violated | see Findings |
| `reload` | 7 file contents, 3 saves, 1024-byte frames, fair | 77,851 | generations name dictionaries, no request is sent blindly, accepted files fit, the last watched save takes effect, shutdown ends both threads |
| `socket` | 2 processes, 2 clients, 3 inodes, 1 permit, 3 faults, fair | 72,390 | a serving process is reachable, only a crash or a failed call leaves a socket, the service returns, connections are answered |
| `socket_race` | 2 processes that may start together, 1 fault | violated | see Findings |
| `projection` | 2 accounts, 4 slots, 2 blocks after the first, 2 dictionaries | 714,349 | values, bitmaps and a bitmap-driven index are exact, the applied head is published |

The type invariants of `FeedQueue`, `Publication`, `SnapshotAnchor` and `ConfigReload` are proved for
every instance, and so is `GenerationNotAhead`; no run repeats them.

### Why the bounds are enough

* `feed_queue`: a queue of one (the repository's tests use it; `config.rs` asks for two) is full after one
  event, and a mask of 1 saturates at the first drop; with three producers one can own the word while a
  second records a drop and a third is between recording and notifying. Three calls allow a queued event,
  a loss with its recovery, and a later event.
* `publication`: consumers only read shared state, so one meets every interleaving several would. Three
  sequences fit a failed encoding, the gap and the snapshot, and overrun a ring of 2. The proofs cover
  longer streams and more consumers.
* `cache*`: two projections are the smallest legal `candidate_cache_blocks`. A fork of four has a
  canonical branch, a rival and a rival's child, so a sweep of budget 1 is interrupted inside a walk.
  An incarnation is spent on every insertion; 5 to 7 leave room for a removed block to come back and,
  in `cache_churn`, for the order queues to be compacted (more than twice the limit).
* `anchor*`: two decisions give a snapshot that is overtaken by one event and follows another, and a
  block that leaves and returns during a read. The three forkchoices move all blocks forward, all but
  the finalized one, and all back; a reset may pick any head. Two attempts reach the last one. A queue
  of one or two suffices because `TrySend` may drop at any time. `MaxDisturbed` bounds provider errors
  and activations together. `SnapshotTicks` is 0 alone: a reading of `load_latest` that ties with the last
  callback's is the hard case, since `<=` treats a later reading alike. With callback ticks of
  0 and 1 `NeverRollsBack` and `SnapshotUntorn` hold as well; the proofs cover every clock.
* `reload`: three saves are one that is being activated, one that supersedes it and one that arrives
  while the second is read. The contents are those that differ in outcome: two good ones, one exactly at
  the frame limit, one whose dictionary alone exceeds it, a duplicate, a changed stream section, and one
  that does not parse. Views are a young chain and every field at its widest.
* `socket*`: two processes, one of which is serving, draining or dead while the other starts. Three inodes
  leave one to be reused. One permit is taken by a client or a probe while another waits. Three faults
  fit a crash, a stop and a failed call.
* `projection`: all bundles of the second block over three slots and both accounts, so each loop of the extraction
  and each side of a destroyed account occurs; a third block makes chains and forks. `HashIndexThreshold`
  2 puts one dictionary on either side of it.

Deadlock is checked except where the system may stop: `feed_queue` (shut down, calls spent), `anchor*`
(the engine at its bound, a failed start), `reload` (shut down), `socket*` (faults spent, a foreign
file) and `projection` (all blocks handled).

### Fairness

* `FeedQueue`: a producer finishes its call; the publisher thread is scheduled and a provider error
  is transient, as `recover_until_success` retries until it succeeds or a shutdown comes. Nothing
  forces a tick, a call, a request or a shutdown. `QueueDrains` supposes that activation requests,
  which are polled first, cease from time to time; the reloader waits for each answer and sleeps.
* `Publication`: the publisher finishes a frame, a forkchoice update, an activation and a recovery.
* `CandidateCache`: the ticker does not stop, and a recovery ends. The condition is written with
  `[]<>` and not `WF`: a tick is enabled whenever no recovery is due, and always changes a running
  sweep.
* `SnapshotAnchor`: the engine finishes a callback it has begun, and the publisher thread is scheduled.
  Errors are bounded (`MaxDisturbed`), activations and decisions are not forced.
* `ConfigReload`: the filesystem reports every save to an installed watcher, both threads are scheduled
  and timers fire. A load that is tried again and again succeeds at last (strong fairness), which is the
  hope of the reloader's endless retry. Saves, signals and shutdown are not forced.
* `SocketLifecycle`: processes run, the accept loop is polled, and the supervisor restarts a process when
  none is starting. No consumer has to end, and faults are bounded.

## Proofs

`FeedQueueProofs` proves, for any finite set of producers, any positive capacity and any positive mask
(`FeedQueueAssumption`, which TLC evaluates in its run):

* `TypeCorrect`: the type invariant, with the capacity and the mask as bounds. Inductive by itself.
* `LossNeverForgotten` (`LossRemembered`) and `OrderPreserved` (`NoOvertake`). Neither is inductive
  alone. `OrderInv` adds two facts. *StampsTaken*: every event queued, held or being sent under a
  reservation has a stamp no larger than `taken`, since its compare-and-swap met a word that owed
  nothing. *Accounting*: `recovered <= taken <= recorded`, and `recovered = taken` except while
  a recovery is under way or the publisher has stopped. An event is handled outside a recovery, so its stamp is at most `recovered`.
* `MutualExclusion` (`LockOwned`): inductive together with the types.
* `WakeupNeverLost` (`NoLostWakeup`). `WakeupInv` says more: whenever the word is unlocked and owes a
  recovery, a token is in the loss channel, a producer is about to send one, or the publisher is at a
  step from which it looks at the word before it parks. The case that matters is `TakePendingLoss` reading a
  locked word as no loss: by `LockOwned` the lock has an owner, and that owner notifies.
* `EveryCallAccounted` (`NoSilentLoss`): calls begun are those delivered, queued, recorded as dropped and
  still under way. With the types it is inductive, and the theorems on cardinalities follow a producer in
  and out of the set of those still under way.

`SnapshotAnchorProofs` proves, for any blocks and forkchoices, any capacity, any number of attempts, and
without use of the bounds on decisions, errors and generations:

* `DecisionsNotForgotten` (`NothingForgotten`), assuming that the clock ticks before a callback reads
  it (`0 \notin CallbackTicks`), and `PublishedNeverRollsBack` (`NeverRollsBack`), whatever the clock.
  Neither property is inductive. `IInv` says what the time filter is worth (*FilterExact*): an event
  observed later than `snapshot_anchored_at` is not older than the published state, and, if the clock
  ticks, one observed no later is in it. To carry that over to the next snapshot, three facts
  accompany `load_latest`. *LoadNewer*: the revision it read is at least the published one.
  *LoadKeeps*, from its clock reading on: an event observed later is at least of that revision,
  because all events then in flight were observed no later. *LoadCovers*, once the revision is
  confirmed: an event observed no later is at most of that revision, because an event that comes later
  reads a later time; only this step needs the tick. *Sorted* (events travel in the order
  of their revisions) makes a replay safe, and *LoadComplete* (a recovery that has read the tracker
  makes good all that is not on its way) makes a recovery sufficient.
* `GenerationsPublishedFirst` (`GenerationNotAhead`), whatever the clock: the hot path's watch set
  is never newer than the published one, and the published generation never goes back.
* `SnapshotsUntorn` (`SnapshotUntorn`), whatever the clock: the head, safe and finalized block that were
  read and confirmed one after the other were once the provider's at the same moment, unless a
  decision has been reported since the tracker was read. *Selecting* says that until then each block
  has moved at most once since it was read, by the decision under way, and moves no more; *Reconfirming*
  that, if the selected state was never there, one of the blocks not yet compared again has moved away
  and will be found different. A decision that is reported after the tracker was confirmed ends
  this argument, because the next one may move a block back before it is compared; TLC then finds a torn
  view with two decisions. Such a view is published for a moment: the reported decision is not in it, so
  (`NothingForgotten`) its event or a recovery is on its way, and replaces it.

`PublicationStream` and `PublicationProofs`, which continues it, prove, for any consumers, blocks,
marks and ring size, and without use of the bound on sequences:

* `NoFrameRefused` (`StreamAccepted`), `MirrorsExact` (`MirrorExact`), `GapsNotTrusted`
  (`GapNotTrusted`) and `TypeCorrect`. The frames are looked at as one stream: the origin, those
  broadcast and the one under way. `StreamInv` says that consecutive frames fit together (*Follows*: a gap
  names its predecessor, any other frame has the next sequence, a snapshot follows every gap and
  activation) and what the three shared writes have reached (*SharedAgrees*: every frame from
  `effective_sequence` on, as far as its state is stored, left the handshake state as it is now). That
  last fact is what lets a handshake combine a sequence and a state it read at different moments.
  `ConsumersAgree` then says which frame a client knows, and that what its receiver has yet to read up to
  there is no newer than its baseline, and skipped. The publisher's steps leave the stream alone or
  extend it, so each of its operations is looked at once.
* `ImplementsOrderedFeed` (`FollowsLog`): the initial state maps to the initial log, a frame that is
  encoded extends the log, a handshake attaches at an entry that may be trusted, a frame received is
  the next entry, and every other step is a stutter.

`ConfigReloadProofs` proves, for any file contents and any number of saves:

* `GenerationsAreNames` (`GenerationNamesDictionary`), `NoGenerationWasted` (`NoopAllocatesNothing`),
  `RoomForEveryRequest` (`RequestFindsRoom`) and `TypeCorrect`. The inductive invariant adds *OneRequest*
  (a request is in one place only, its answer is pending and the reloader awaits it or has stopped) and *Numbering* (the
  next generation follows the published one except between a publication and its acknowledgement, and a
  request not yet published differs from what is).
* For any number of keys, any lengths of ids and any width of the numbers, the 512 bytes
  `Config::validate` adds cover what surrounds a projection (`ProjectionBudget`), its 80 bytes a key and
  512 more cover the dictionary's frame (`DictionaryBudget`), a full batch of `publish_retired` keeps
  within any accepted limit (`RetiredBudget`), and a forkchoice frame fits the least one
  (`ForkchoiceBudget`). `DictionaryBudget` compares two sums key by key, by induction over the keys.
* `BudgetSuffices` (`FramesFit`): what `Config::validate` accepts passes every preflight and never
  outgrows `max_frame_bytes`. Each dictionary published or on its way was vetted (*AllVetted*, by
  induction over the steps), and the budgets above say what that is worth.

`SocketLifecycleProofs` proves, for any processes, clients and inode numbers and any number of faults:

* `LiveSocketKept` (`ServingReachable`) and `NoSocketLeft` (`LeavesNoSocket`), assuming `SerialStarts`.
  The inductive invariant adds *OwnSockets* (each process with a socket has an inode of its own, and its
  guard names that one) and *PathKept* (the path is the process's from its bind until it serves and
  again between the check and the removal of its cleanup, is no live socket's while it is about to be
  removed as stale, and is not that of a process about to close, unless a call of it failed). The window between `Probe` and `RemoveStale` is where one start at a time is needed.
  `NoSocketLeft` names the exceptions: a crash, a failed `listen`, the `symlink_metadata` that comes
  before `SocketCleanup` exists, and the two calls of its `drop`, whose errors are logged.

`WatchSetProofs` proves, for any threshold of the hash index, that the binary search over sorted slots
finds a slot exactly when it is there (`BinarySearchExact`), by induction over the size of what is left to
search, and that both loops of `extract_account_changes` report exactly the watched slots whose value
an account's changes determine.

`ProjectionProofs` builds on it. It proves, for any initial state, any configurations without duplicates,
any bundles and any number of blocks (`ProjectionAssumption`):

* `ExtractionExact`: the changes extracted from a bundle, applied to the projection of the state before
  it, give the projection of the state after it.
* `ProjectionsExact` (`ProjectionExact`), `ConsumersFollow` (`IndexExact`) and `HeadReached`
  (`QuiescentHead`). None is inductive: a projection is made of an event that was extracted earlier,
  under a dictionary that may have been replaced, and of a parent's projection that may come later.
  *EventsInv* says what an event's changes mean whatever happens to it in the queue, *CandidatesInv* says the
  same of deferred changes and of the cache, and *HeadInv* says which event will publish the applied
  head: the one in flight, or else the last forkchoice queued, or else the reload under way.

The provers know no induction over numbers. `LeastNumber` and `NumberInduction` derive it, for sets in the
place of predicates, from the well-founded inclusion of finite sets; that a recursive function exists is
then proved by extending its approximations.

Only model-checked: liveness under fairness, and everything about `CandidateCache`, whose loops are
recursive operators, which keep a module from the prover.

## Findings

* **An eviction that succeeds is reported as a failure** (`cache_trim`, `src/publisher.rs:1904`).
  `trim_projection_cache` bounds its loop by comparing the entries it has examined with the queue
  length that is left, although the stale entries it popped are both examined and gone. With a limit of
  two, two rejected blocks leave two stale entries; the next eviction brings the cache within its limit
  and then returns "cannot evict candidate projection after inserting ...". The publisher recovers with
  a gap and a snapshot, so consumers stay correct at the price of a needless gap.
* **A consumer keeps a candidate the publisher has dropped** (`cache_orphan`, `src/publisher.rs:1329`).
  A rejection removes all descendants the publisher knows and announces the root. If the child in
  between was retired for eviction, the consumer cannot reach the grandchild, while the publisher no
  longer tracks it. The consumer keeps it until the next gap. It needs a child that executes before its
  parent is validated.
* **A forkchoice in the same clock tick as a snapshot is lost** (`anchor_coarse`,
  `src/publisher.rs:1451`). Events are dropped when `observed_at <= snapshot_anchored_at`, and
  `Instant::now` only promises not to go back. If `load_latest` reads the clock and confirms the
  revision, and the engine then updates the tracker and reads the same time, its forkchoice is dropped
  and the snapshot does not have it; consumers stay behind until the next forkchoice. The window is
  one tick of the clock. `DecisionsNotForgotten` shows that nothing else can open it.
* **Two starts can leave a service nobody reaches** (`socket_race`, `src/publisher.rs:2310`). The message
  "refusing to replace active statefeed socket" and the test
  `socket_binding_refuses_to_replace_a_live_listener` promise a live listener its path. The decision is a
  `connect`, the removal a later call, and binding is not atomic either: a second process that connects after
  the first has bound and before it listens is refused, takes the socket for stale, and removes it when
  the first already serves. `LiveSocketKept` shows that starting one process at a time is enough to
  rule it out, whatever else stops, crashes or cleans up meanwhile.

## Not modelled

* The byte layout of frames and the client's `FrameReader` and `PackedValues`: they keep nothing between
  calls but a buffer, and their subject is the encoding, which is represented by its length alone. A frame
  that cannot be encoded is a step of `Publication`.
* TOML syntax and the limits of the stream section: a file parses or not, and the limits are assumptions
  on the constants.
* Arguments and printing of `statefeed-dump`; metrics and logging everywhere.
* `main.rs` and `lib.rs`, which only wire the parts together; the schemas in `proto/`; `benches/` and the
  Solidity tests in `validation/`, which are not part of the service.
* Reth itself. Its callbacks come in the orders its validator can produce; it rejects no block it has
  validated, since a hash fixes a block's validity and errors of malformed payloads are not reported as
  rejections (`src/reth_integration.rs:354`).
* Write errors and timeouts of a connection other than as a disconnection.
