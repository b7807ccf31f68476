----------------------------- MODULE Publication -----------------------------
(***************************************************************************)
(* How a frame reaches consumers: Shared::publish_inner, the publisher     *)
(* operations that change the handshake state, serve_consumer in           *)
(* publisher.rs, and the StreamCursor of statefeed-dump.                   *)
(*                                                                         *)
(* publish_inner is not atomic: a frame is encoded, the handshake state is *)
(* swapped, the sequence is committed and the frame is broadcast in four   *)
(* steps, while consumers subscribe, load the committed sequence and load  *)
(* the handshake state in three of their own.                              *)
(*                                                                         *)
(* A canonical projection is its block; a forkchoice view is its head and  *)
(* a mark that stands for safe and finalized.  What a frame says of        *)
(* candidates is left to other modules.                                    *)
(***************************************************************************)
EXTENDS Integers, Sequences

CONSTANTS
  Consumers,   \* connections served at the same time
  Blocks,      \* canonical projections the provider can return
  Marks,       \* safe/finalized checkpoints a view can carry
  Genesis,     \* the block of the initial snapshot
  GenesisMark, \* the checkpoints of the initial view
  Buffer,      \* stream.consumer_buffer: the capacity of the broadcast ring
  MaxSequence  \* bound: the publisher starts nothing new at this sequence

ASSUME PublicationAssumption ==
  /\ Genesis \in Blocks /\ GenesisMark \in Marks
  /\ Buffer \in Nat \ {0}
  /\ MaxSequence \in Nat

VARIABLES
  sequence,            \* Shared.sequence: the last sequence allocated
  published_sequence,  \* Shared.published_sequence: the last one committed
  published,           \* Shared.published: the PublishedState of handshakes
  sent,                \* every frame broadcast so far; the ring keeps the last Buffer
  frame,               \* the frame publish_inner is working on
  step,                \* the step of publish_inner
  mode,                \* what the publisher thread has to do next
  phase,               \* of each connection
  position,            \* index in sent of the next frame a receiver reads
  committed,           \* committed_sequence of serve_consumer
  baseline,            \* baseline of serve_consumer
  cursor,              \* StreamPhase::Live and active_generation of the client
  mirror               \* the client's copy of the canonical state

publisherVars == <<sequence, published_sequence, published, sent, frame, step, mode>>
consumerVars == <<phase, position, committed, baseline, cursor, mirror>>
vars == <<publisherVars, consumerVars>>

NoView == [head |-> "none", mark |-> "none"]
View(b, m) == [head |-> b, mark |-> m]
Views == [head : Blocks, mark : Marks] \cup {NoView}

\* What a consumer that has seen a frame knows.  It is part of the frame only as a
\* reference for the properties.
States == [canonical : Blocks, forkchoice : Views, generation : Nat]
StateOf(p) ==
  [canonical |-> p.canonical, forkchoice |-> p.forkchoice, generation |-> p.generation]

Kinds == {"Candidate", "CanonicalHead", "ForkchoiceApplied", "ConfigActivated", "Snapshot",
          "Gap"}

PublishedStates ==
  [canonical : Blocks, forkchoice : Views, generation : Nat, effective_sequence : Nat,
   recovering : BOOLEAN]

\* A frame carries its event and, for publish_state, the next handshake state.
Frames ==
  [sequence : Nat, kind : Kinds, last_contiguous : Nat, next : PublishedStates]

\* The types of the shared state, of the frame under way and of every connection.
TypeOK ==
  /\ sequence \in Nat /\ published_sequence \in Nat
  /\ published \in PublishedStates
  /\ sent \in Seq(Frames)
  /\ frame \in Frames
  /\ step \in {"next", "store", "commit", "send"}
  /\ mode \in {"idle", "forkchoice", "config", "recover"}
  /\ phase \in [Consumers -> {"off", "subscribed", "based", "live", "rejected"}]
  /\ position \in [Consumers -> Nat \ {0}]
  /\ committed \in [Consumers -> Nat] /\ baseline \in [Consumers -> Nat]
  /\ cursor \in [Consumers ->
       [last_sequence : Nat, snapshot_required : BOOLEAN, generation : Nat]]
  /\ mirror \in [Consumers -> States]

InitialState ==
  [canonical |-> Genesis, forkchoice |-> View(Genesis, GenesisMark), generation |-> 1,
   effective_sequence |-> 0, recovering |-> FALSE]

\* start_service: the initial snapshot is in place before the socket is bound.
Init ==
  /\ sequence = 0 /\ published_sequence = 0
  /\ published = InitialState
  /\ sent = <<>>
  /\ frame = [sequence |-> 0, kind |-> "Snapshot", last_contiguous |-> 0, next |-> InitialState]
  /\ step = "next" /\ mode = "idle"
  /\ phase = [c \in Consumers |-> "off"]
  /\ position = [c \in Consumers |-> 1]
  /\ committed = [c \in Consumers |-> 0] /\ baseline = [c \in Consumers |-> 0]
  /\ cursor = [c \in Consumers |->
       [last_sequence |-> 0, snapshot_required |-> FALSE, generation |-> 1]]
  /\ mirror = [c \in Consumers |-> StateOf(InitialState)]

-----------------------------------------------------------------------------
(* Shared::publish_inner. *)

\* Fault: the last allocated sequence instead of the last committed one.
LastContiguousAllocated == sequence

\* announce_gap reports the last committed sequence: allocated ones may be holes.
LastContiguous == published_sequence

\* Allocation and encoding, which only the publisher thread can see.
Encode(kind, next) ==
  /\ step = "next"
  /\ sequence' = sequence + 1
  /\ frame' = [sequence |-> sequence + 1, kind |-> kind,
               last_contiguous |-> LastContiguous, next |-> next]

\* publish: the handshake state stays as it is.
Publish(kind) ==
  /\ Encode(kind, published)
  /\ step' = "commit"
  /\ UNCHANGED <<published_sequence, published, sent>>

\* publish_state.
PublishState(kind, b, v, g, recovering) ==
  /\ Encode(kind, [canonical |-> b, forkchoice |-> v, generation |-> g,
                   effective_sequence |-> sequence + 1, recovering |-> recovering])
  /\ step' = "store"
  /\ UNCHANGED <<published_sequence, published, sent>>

StoreState ==
  /\ step = "store"
  /\ published' = frame.next
  /\ step' = "commit"
  /\ UNCHANGED <<sequence, published_sequence, sent, frame, mode, consumerVars>>

CommitSequence ==
  /\ step = "commit"
  /\ published_sequence' = frame.sequence
  /\ step' = "send"
  /\ UNCHANGED <<sequence, published, sent, frame, mode, consumerVars>>

Send ==
  /\ step = "send"
  /\ sent' = Append(sent, frame)
  /\ step' = "next"
  /\ UNCHANGED <<sequence, published_sequence, published, frame, mode, consumerVars>>

-----------------------------------------------------------------------------
(* The operations of the publisher thread, as the frames they publish. *)

More == sequence < MaxSequence

\* BlockState, BlockValidated, BlockRejected and CandidatesRetired.
PublishCandidate ==
  /\ mode = "idle" /\ More
  /\ Publish("Candidate")
  /\ UNCHANGED <<mode, consumerVars>>

\* canonical: the view is absent until the matching ForkchoiceApplied.
Canonical(b) ==
  /\ mode = "idle" /\ More
  /\ b # published.canonical
  /\ PublishState("CanonicalHead", b, NoView, published.generation, FALSE)
  /\ mode' = "forkchoice"
  /\ UNCHANGED consumerVars

\* The rest of forkchoice_applied; a reaffirmed head starts here.
ForkchoiceApplied(m) ==
  /\ mode = "forkchoice" \/ (mode = "idle" /\ More)
  /\ PublishState("ForkchoiceApplied", published.canonical, View(published.canonical, m),
                  published.generation, FALSE)
  /\ mode' = "idle"
  /\ UNCHANGED consumerVars

\* activate: both frames are encoded in advance, so neither can fail any more.
Activate(b, m) ==
  /\ mode = "idle" /\ More
  /\ PublishState("ConfigActivated", b, View(b, m), published.generation + 1, FALSE)
  /\ mode' = "config"
  /\ UNCHANGED consumerVars

ActivateSnapshot ==
  /\ mode = "config"
  /\ Publish("Snapshot")
  /\ mode' = "idle"
  /\ UNCHANGED consumerVars

\* An operation fails, before it allocated a sequence or after, or a loss was
\* taken, or the canonical state was reset: recover_until_success follows.
Fail ==
  /\ step = "next"
  /\ mode = "forkchoice" \/ (mode = "idle" /\ More)
  /\ \/ UNCHANGED sequence
     \/ More /\ sequence' = sequence + 1
  /\ mode' = "recover"
  /\ UNCHANGED <<published_sequence, published, sent, frame, step, consumerVars>>

\* announce_gap, unless a gap was announced already; it may fail and be retried.
AnnounceGap ==
  /\ mode = "recover" /\ ~published.recovering
  /\ \/ PublishState("Gap", published.canonical, NoView, published.generation, TRUE)
     \/ /\ step = "next" /\ More /\ sequence' = sequence + 1
        /\ UNCHANGED <<published_sequence, published, sent, frame, step>>
  /\ UNCHANGED <<mode, consumerVars>>

\* Fault: the snapshot that ends a recovery is stored as one still recovering.
ReanchorStillRecovering(b, m) ==
  /\ mode = "recover" /\ published.recovering
  /\ PublishState("Snapshot", b, View(b, m), published.generation, TRUE)
  /\ mode' = "idle"
  /\ UNCHANGED consumerVars

\* reanchor; a failed attempt publishes and allocates nothing.
Reanchor(b, m) ==
  /\ mode = "recover" /\ published.recovering
  /\ PublishState("Snapshot", b, View(b, m), published.generation, FALSE)
  /\ mode' = "idle"
  /\ UNCHANGED consumerVars

Recovery == AnnounceGap \/ \E b \in Blocks, m \in Marks : Reanchor(b, m)

-----------------------------------------------------------------------------
(* serve_consumer, one connection at a time per consumer, and its client. *)

Subscribe(c) ==
  /\ phase[c] = "off"
  /\ phase' = [phase EXCEPT ![c] = "subscribed"]
  /\ position' = [position EXCEPT ![c] = Len(sent) + 1]
  /\ UNCHANGED <<publisherVars, committed, baseline, cursor, mirror>>

LoadCommitted(c) ==
  /\ phase[c] = "subscribed"
  /\ phase' = [phase EXCEPT ![c] = "based"]
  /\ committed' = [committed EXCEPT ![c] = published_sequence]
  /\ UNCHANGED <<publisherVars, position, baseline, cursor, mirror>>

\* Fault: a handshake between a head and its view is let through.
AdmissibleWithoutView == ~published.recovering

\* Handshakes are refused during recovery and between a head and its view.
Admissible == ~published.recovering /\ published.forkchoice # NoView

\* Fault: the handshake state may be newer than the sequence loaded before it.
BaselineCommitted(loaded) == loaded

Baseline(loaded) ==
  IF loaded > published.effective_sequence THEN loaded ELSE published.effective_sequence

\* Hello, ConfigActivated and Snapshot come from the state loaded here.
Handshake(c) ==
  /\ phase[c] = "based"
  /\ \/ /\ ~Admissible
        /\ phase' = [phase EXCEPT ![c] = "off"]
        /\ UNCHANGED <<baseline, cursor, mirror>>
     \/ /\ Admissible
        /\ LET start == Baseline(committed[c]) IN
             /\ baseline' = [baseline EXCEPT ![c] = start]
             /\ cursor' = [cursor EXCEPT ![c] =
                  [last_sequence |-> start, snapshot_required |-> FALSE,
                   generation |-> published.generation]]
        /\ mirror' = [mirror EXCEPT ![c] = StateOf(published)]
        /\ phase' = [phase EXCEPT ![c] = "live"]
  /\ UNCHANGED <<publisherVars, position, committed>>

\* StreamCursor::observe for a live frame, with validate_generation.
Accepts(cur, f) ==
  /\ \/ cur.snapshot_required
        /\ f.kind = "Snapshot" /\ f.sequence = cur.last_sequence + 1
     \/ ~cur.snapshot_required /\ f.kind = "Gap"
        /\ f.last_contiguous = cur.last_sequence /\ f.sequence > cur.last_sequence
     \/ ~cur.snapshot_required /\ f.kind # "Gap"
        /\ f.sequence = cur.last_sequence + 1
  /\ \/ f.kind = "ConfigActivated" /\ f.next.generation >= cur.generation
     \/ f.next.generation = cur.generation

\* Fault: a client that reads on after a gap.
ObserveThroughGap(f) ==
  [last_sequence |-> f.sequence, snapshot_required |-> f.kind = "ConfigActivated",
   generation |-> f.next.generation]

Observe(f) ==
  [last_sequence |-> f.sequence,
   snapshot_required |-> f.kind \in {"Gap", "ConfigActivated"},
   generation |-> f.next.generation]

\* What the event of f makes of the canonical state of a consumer that applies it.  (External:
\* statefeed-dump checks and prints a frame and keeps no values.)
Apply(s, f) ==
  CASE f.kind = "Candidate" -> s
    [] f.kind = "CanonicalHead" ->
         [s EXCEPT !.canonical = f.next.canonical, !.forkchoice = NoView]
    [] f.kind = "ForkchoiceApplied" -> [s EXCEPT !.forkchoice = f.next.forkchoice]
    [] f.kind = "ConfigActivated" -> [s EXCEPT !.generation = f.next.generation]
    [] f.kind = "Gap" -> [s EXCEPT !.forkchoice = NoView]
    [] f.kind = "Snapshot" ->
         [s EXCEPT !.canonical = f.next.canonical, !.forkchoice = f.next.forkchoice]

\* The broadcast receiver has fallen behind the ring.
Lagged(c) == Len(sent) - position[c] >= Buffer

Receive(c) ==
  /\ phase[c] = "live" /\ position[c] <= Len(sent)
  /\ IF Lagged(c)
       THEN phase' = [phase EXCEPT ![c] = "off"] /\ UNCHANGED <<position, cursor, mirror>>
       ELSE LET f == sent[position[c]] IN
            /\ position' = [position EXCEPT ![c] = @ + 1]
            /\ \/ f.sequence <= baseline[c] /\ UNCHANGED <<phase, cursor, mirror>>
               \/ /\ f.sequence > baseline[c] /\ Accepts(cursor[c], f)
                  /\ cursor' = [cursor EXCEPT ![c] = Observe(f)]
                  /\ mirror' = [mirror EXCEPT ![c] = Apply(@, f)]
                  /\ UNCHANGED phase
               \/ /\ f.sequence > baseline[c] /\ ~Accepts(cursor[c], f)
                  /\ phase' = [phase EXCEPT ![c] = "rejected"]
                  /\ UNCHANGED <<cursor, mirror>>
  /\ UNCHANGED <<publisherVars, committed, baseline>>

\* A write times out, or the client goes away.
Disconnect(c) ==
  /\ phase[c] \in {"subscribed", "based", "live"}
  /\ phase' = [phase EXCEPT ![c] = "off"]
  /\ UNCHANGED <<publisherVars, position, committed, baseline, cursor, mirror>>

-----------------------------------------------------------------------------

Consumer(c) ==
  Subscribe(c) \/ LoadCommitted(c) \/ Handshake(c) \/ Receive(c) \/ Disconnect(c)

Next ==
  \/ StoreState \/ CommitSequence \/ Send
  \/ PublishCandidate \/ ActivateSnapshot \/ Fail \/ Recovery
  \/ \E b \in Blocks : Canonical(b)
  \/ \E m \in Marks : ForkchoiceApplied(m)
  \/ \E b \in Blocks, m \in Marks : Activate(b, m)
  \/ \E c \in Consumers : Consumer(c)

Spec == Init /\ [][Next]_vars

\* The publisher thread finishes what it has begun: a frame, a forkchoice update, an
\* activation, a recovery whose provider errors are transient.
Fairness ==
  WF_vars(\/ StoreState \/ CommitSequence \/ Send \/ ActivateSnapshot \/ Recovery
          \/ mode = "forkchoice" /\ (Fail \/ \E m \in Marks : ForkchoiceApplied(m)))

FairSpec == Spec /\ Fairness

-----------------------------------------------------------------------------
(* Properties. *)

\* The frame numbered n, broadcast or under way, and the state it leaves behind.
FrameSet == {sent[i] : i \in 1 .. Len(sent)} \cup (IF step = "next" THEN {} ELSE {frame})
StateAt(n) ==
  IF n = 0 THEN InitialState ELSE (CHOOSE f \in FrameSet : f.sequence = n).next

\* Neither the handshake's three loads nor the four steps of publish_inner let a
\* client see a hole, a repetition, a wrong gap or a frame of another generation:
\* StreamCursor::observe never refuses a frame of this service.
StreamAccepted == \A c \in Consumers : phase[c] # "rejected"

\* A client that is not waiting for a snapshot holds exactly the canonical state of
\* the last frame it was given, starting from its handshake (baseline is the larger of
\* committed_sequence and effective_sequence).
MirrorExact == \A c \in Consumers :
  phase[c] = "live" /\ ~cursor[c].snapshot_required =>
    mirror[c] = StateOf(StateAt(cursor[c].last_sequence))

(* The stream as one log: the initial state and the state each frame leaves behind. *)

Entry(p) ==
  [canonical |-> p.canonical, forkchoice |-> p.forkchoice, generation |-> p.generation,
   recovering |-> p.recovering]

Log ==
  LET all == IF step = "next" THEN sent ELSE Append(sent, frame)
  IN  [i \in 1 .. Len(all) + 1 |->
         IF i = 1 THEN Entry(InitialState) ELSE Entry(all[i - 1].next)]

\* The place in the log of the frame numbered n.
PlaceOf(n) ==
  IF n = 0 THEN 1
  ELSE IF \E i \in 1 .. Len(sent) : sent[i].sequence = n
       THEN 1 + (CHOOSE i \in 1 .. Len(sent) : sent[i].sequence = n)
       ELSE Len(sent) + 2

Seen == [c \in Consumers |-> IF phase[c] = "live" THEN PlaceOf(cursor[c].last_sequence) ELSE 0]

\* A client that waits for a snapshot is owed nothing but its place in the log.
Held == [c \in Consumers |->
  IF phase[c] # "live" THEN Entry(InitialState)
  ELSE IF cursor[c].snapshot_required THEN Log[Seen[c]]
       ELSE [canonical |-> mirror[c].canonical, forkchoice |-> mirror[c].forkchoice,
             generation |-> mirror[c].generation, recovering |-> FALSE]]

Feed == INSTANCE OrderedFeed
  WITH Entries <- [canonical : Blocks, forkchoice : Views, generation : Nat,
                   recovering : BOOLEAN],
       Initial <- Entry(InitialState),
       Trusted <- LAMBDA e : ~e.recovering /\ e.forkchoice # NoView,
       log <- Log, seen <- Seen, view <- Held

\* Publication implements OrderedFeed: whatever the interleaving of publish_inner with
\* serve_consumer, every client follows the one log from a trusted entry on.
FollowsLog == Feed!Spec

\* A client never takes for current a state that a gap has disowned.
GapNotTrusted == \A c \in Consumers :
  phase[c] = "live" /\ ~cursor[c].snapshot_required =>
    ~StateAt(cursor[c].last_sequence).recovering

\* New handshakes become possible again after every gap and every head transition.
ReadmitsConsumers == []<>Admissible

==============================================================================
