------------------------- MODULE PublicationProofs -------------------------
(***************************************************************************)
(* For any number of consumers, any blocks and checkpoints and any ring: a *)
(* client accepts every frame it is sent and mirrors the published state   *)
(* exactly, and Publication implements OrderedFeed.                        *)
(***************************************************************************)
EXTENDS PublicationStream, SequenceTheorems

-----------------------------------------------------------------------------
(* What a consumer's step does to its place in the stream. *)

\* What a client starts with: the state that was loaded, and the sequence loaded before it.
LEMMA HandshakeEffect ==
  ASSUME TypeOK, NEW c \in Consumers, Handshake(c), Admissible
  PROVE  /\ phase'[c] = "live" /\ mirror'[c] = StateOf(published)
         /\ cursor'[c].snapshot_required = FALSE
         /\ cursor'[c].last_sequence = Baseline(committed[c])
         /\ cursor'[c].generation = published.generation
BY DEF Handshake, TypeOK

LEMMA KnowsState ==
  ASSUME NEW f, NEW p, f.next = p, f.kind # "Gap",
         NEW cur, cur.snapshot_required = FALSE, cur.last_sequence = f.sequence,
         cur.generation = p.generation
  PROVE  Knows(cur, StateOf(p), f)
BY DEF Knows, StateOf

LEMMA SubscribeAgrees ==
  ASSUME IInv, NEW c \in Consumers, Subscribe(c) PROVE ConsumerAgrees(c)'
BY DEF IInv, StreamInv, TypeOK, Subscribe, ConsumerAgrees, publisherVars

LEMMA LoadCommittedAgrees ==
  ASSUME IInv, NEW c \in Consumers, LoadCommitted(c) PROVE ConsumerAgrees(c)'
<1> DEFINE s == Stored
           d == Committed
<1>1. s \in Nat /\ d \in Nat /\ d <= s /\ Len(sent) <= d /\ Len(sent) \in Nat
  BY Places DEF IInv, StreamInv
<1>2. At(d).sequence = published_sequence
  BY DEF IInv, StreamInv, SharedAgrees
<1>3. /\ phase'[c] = "based" /\ committed'[c] = published_sequence /\ position' = position
  BY DEF LoadCommitted, IInv, StreamInv, TypeOK
<1>4. position[c] - 1 <= Len(sent) /\ position[c] \in Nat
  BY DEF IInv, ConsumersAgree, ConsumerAgrees, LoadCommitted, StreamInv, TypeOK
<1>5. s' = s /\ Len(sent)' = Len(sent) /\ \A i : At(i)' = At(i)
  BY ConsumerStepStays DEF IInv, StreamInv, Consumer
<1>6. Based(c)'
  <2>1. PICK k : k = d
    OBVIOUS
  <2>2. k \in 0 .. s' /\ position'[c] - 1 <= k /\ At(k)'.sequence = committed'[c]
    BY <1>1, <1>2, <1>3, <1>4, <1>5, <2>1
  <2> QED BY <2>2 DEF Based
<1> QED BY <1>3, <1>4, <1>5, <1>6 DEF ConsumerAgrees

LEMMA HandshakeAgrees ==
  ASSUME IInv, NEW c \in Consumers, Handshake(c) PROVE ConsumerAgrees(c)'
<1>1. Top' = Top /\ Len(sent)' = Len(sent) /\ \A i : At(i)' = At(i)
  BY ConsumerStepStays DEF IInv, StreamInv, Consumer
<1>2. position' = position /\ position[c] - 1 <= Len(sent) /\ Based(c)
  BY DEF IInv, ConsumersAgree, ConsumerAgrees, Handshake
<1>3. CASE phase' = [phase EXCEPT ![c] = "off"]
  <2>1. phase'[c] = "off"
    BY <1>3 DEF IInv, StreamInv, TypeOK
  <2> QED BY <2>1 DEF ConsumerAgrees
<1>4. CASE Admissible
  <2> DEFINE start == Baseline(committed[c])
  <2>1. /\ phase'[c] = "live" /\ baseline'[c] = start
        /\ cursor'[c] = [last_sequence |-> start, snapshot_required |-> FALSE,
                         generation |-> published.generation]
        /\ mirror'[c] = StateOf(published)
    BY <1>4 DEF Handshake, IInv, StreamInv, TypeOK
  <2>2. PICK k \in 0 .. Top :
          position[c] - 1 <= k /\ At(k).sequence = start /\ At(k).next = published
    BY <1>2, HandshakeBaseline DEF IInv
  <2>3. At(k).kind # "Gap"
    BY <1>4, <2>2, GapsRecover DEF IInv, Admissible
  <2>4. start \in Nat
    BY <2>2, FramesAt DEF IInv, StreamInv, Frames
  <2>5. Knows(cursor'[c], mirror'[c], At(k))
    BY <2>1, <2>2, <2>3 DEF Knows, StateOf
  <2>6. Live(c, k)'
    <3>1. At(k)' = At(k)
      BY <1>1, Zenon
    <3>2. baseline'[c] = start /\ cursor'[c].last_sequence = start
      BY <2>1
    <3> HIDE DEF start
    <3> QED BY <1>2, <2>2, <2>4, <2>5, <3>1, <3>2 DEF Live, Knows
  <2> QED BY <1>1, <1>2, <2>1, <2>6 DEF ConsumerAgrees
<1> QED BY <1>3, <1>4 DEF Handshake

\* What one delivery does to a live client: it lags and is dropped, it skips a frame it
\* knew from its handshake, or it is given the next frame and accepts it.
LEMMA ReceiveOutcome ==
  ASSUME StreamInv, NEW c \in Consumers, NEW k \in 0 .. Top, Live(c, k), Receive(c)
  PROVE  \/ phase'[c] = "off"
         \/ /\ phase'[c] = "live" /\ cursor'[c] = cursor[c] /\ mirror'[c] = mirror[c]
            /\ Live(c, k)'
         \/ /\ phase'[c] = "live" /\ k + 1 \in 1 .. Top
            /\ Follows(At(k), At(k + 1))
            /\ cursor'[c] = Observe(At(k + 1)) /\ mirror'[c] = Apply(mirror[c], At(k + 1))
            /\ Live(c, k + 1)'
<1>1. \A i : At(i)' = At(i)
  <2>1. TypeOK /\ Consumer(c)
    BY DEF StreamInv, Consumer
  <2> QED BY <2>1, ConsumerStepStays, Zenon
<1>2. CASE Lagged(c)
  BY <1>2, SMTT(30) DEF Receive, StreamInv, TypeOK
<1>3. CASE ~Lagged(c)
  <2> DEFINE p == position[c]
             f == sent[p]
  <2>1. /\ p \in 1 .. Top /\ f = At(p)
        /\ At(p).sequence <= baseline[c] => p <= k
        /\ At(p).sequence > baseline[c] =>
             k = p - 1 /\ Follows(At(k), At(p)) /\ At(k).sequence < At(p).sequence
    BY NextFrame DEF Receive
  <2>2. At(k) \in Frames /\ At(p) \in Frames
    BY <2>1, FramesAt DEF StreamInv
  <2>3. cursor[c] \in Cursors /\ mirror[c] \in States
    BY DEF StreamInv, TypeOK, Cursors
  <2>4. /\ p - 1 <= k /\ (p - 1 < k => cursor[c].last_sequence = baseline[c])
        /\ baseline[c] <= cursor[c].last_sequence
        /\ Knows(cursor[c], mirror[c], At(k))
    BY DEF Live
  <2>5. position'[c] = p + 1 /\ baseline' = baseline /\ baseline[c] \in Nat
    BY <1>3 DEF Receive, StreamInv, TypeOK
  <2>6. CASE f.sequence <= baseline[c]
    <3>1. phase' = phase /\ cursor' = cursor /\ mirror' = mirror
      <4>1. ~(f.sequence > baseline[c])
        BY <2>1, <2>2, <2>5, <2>6 DEF Frames
      <4> QED BY <1>3, <4>1 DEF Receive
    <3>2. phase[c] = "live"
      BY DEF Receive
    <3>3. p <= k
      BY <2>1, <2>6
    <3>4. position'[c] - 1 <= k
          /\ (position'[c] - 1 < k => cursor'[c].last_sequence = baseline'[c])
          /\ baseline'[c] <= cursor'[c].last_sequence
      BY <2>1, <2>4, <2>5, <3>1, <3>3
    <3>5. Knows(cursor'[c], mirror'[c], At(k)')
      BY <1>1, <2>4, <3>1
    <3> QED BY <3>1, <3>2, <3>4, <3>5, SMTT(30) DEF Live
  <2>7. CASE f.sequence > baseline[c]
    <3>1. Accepts(cursor[c], At(p)) /\ Knows(Observe(At(p)), Apply(mirror[c], At(p)), At(p))
      BY <2>1, <2>2, <2>3, <2>4, <2>7, FollowingAccepted, SMTT(30)
    <3>2. /\ cursor' = [cursor EXCEPT ![c] = Observe(At(p))]
          /\ mirror' = [mirror EXCEPT ![c] = Apply(@, At(p))]
          /\ phase' = phase
      <4>1. ~(f.sequence <= baseline[c])
        BY <2>1, <2>2, <2>5, <2>7 DEF Frames
      <4>2. Accepts(cursor[c], f)
        BY <2>1, <3>1
      <4>3. /\ cursor' = [cursor EXCEPT ![c] = Observe(f)]
            /\ mirror' = [mirror EXCEPT ![c] = Apply(@, f)]
            /\ phase' = phase
        BY <1>3, <4>1, <4>2, SMTT(30) DEF Receive
      <4> QED BY <2>1, <4>3
    <3>3. /\ cursor'[c] = Observe(At(p)) /\ mirror'[c] = Apply(mirror[c], At(p))
          /\ phase'[c] = "live"
      BY <3>2 DEF StreamInv, TypeOK, Receive
    <3>4. p = k + 1
      BY <2>1, <2>7
    <3>5. Observe(At(p)).last_sequence = At(p).sequence /\ At(p).sequence \in Nat
      BY <2>2 DEF Observe, Frames
    <3>6. Live(c, k + 1)'
      <4>1. /\ k + 1 \in Nat /\ position'[c] - 1 = k + 1
            /\ baseline'[c] <= cursor'[c].last_sequence
        BY <2>1, <2>5, <2>7, <3>3, <3>4, <3>5, SMTT(30)
      <4>2. Knows(cursor'[c], mirror'[c], At(k + 1)')
        BY <1>1, <3>1, <3>3, <3>4
      <4> QED BY <4>1, <4>2, SMTT(30) DEF Live
    <3> QED BY <2>1, <2>7, <3>3, <3>4, <3>6, SMTT(30)
  <2> QED BY <2>2, <2>5, <2>6, <2>7, <2>1, SMTT(30) DEF Frames
<1> QED BY <1>2, <1>3

LEMMA ReceiveAgrees ==
  ASSUME IInv, NEW c \in Consumers, Receive(c) PROVE ConsumerAgrees(c)'
<1>1. Top' = Top /\ Len(sent)' = Len(sent) /\ Top \in Nat
  BY ConsumerStepStays, FramesAt DEF IInv, StreamInv, Consumer
<1>2. PICK k \in 0 .. Top : Live(c, k)
  BY SMTT(30) DEF IInv, ConsumersAgree, ConsumerAgrees, Receive
<1>3. position'[c] \in {position[c], position[c] + 1} /\ position[c] <= Len(sent)
      /\ position[c] \in Nat /\ Len(sent) \in Nat
  BY DEF Receive, IInv, StreamInv, TypeOK
<1>4. position'[c] - 1 <= Len(sent)'
  BY <1>1, <1>3
<1>5. k + 1 \in 1 .. Top => k + 1 \in 0 .. Top
  OBVIOUS
<1> QED BY <1>1, <1>2, <1>4, <1>5, ReceiveOutcome DEF IInv, ConsumerAgrees

\* Whatever a consumer does, every consumer keeps its place.
LEMMA ConsumerStepAgrees ==
  ASSUME IInv, NEW c \in Consumers, Consumer(c) PROVE ConsumersAgree'
<1>1. ConsumerAgrees(c)'
  <2>1. CASE Disconnect(c)
    <3>1. phase'[c] = "off"
      BY <2>1, SMTT(30) DEF Disconnect, IInv, StreamInv, TypeOK
    <3> QED BY <3>1 DEF ConsumerAgrees
  <2> QED BY <2>1, SubscribeAgrees, LoadCommittedAgrees, HandshakeAgrees, ReceiveAgrees
          DEF Consumer
<1>2. ASSUME NEW d \in Consumers, d # c PROVE ConsumerAgrees(d)'
  <2> DEFINE s == Stored
  <2>1. /\ Top' = Top /\ s' = s /\ Len(sent)' = Len(sent)
        /\ \A i : At(i)' = At(i)
        /\ phase'[d] = phase[d] /\ position'[d] = position[d]
        /\ committed'[d] = committed[d] /\ baseline'[d] = baseline[d]
        /\ cursor'[d] = cursor[d] /\ mirror'[d] = mirror[d]
    BY <1>2, ConsumerStepStays DEF IInv, StreamInv
  <2>2. ConsumerAgrees(d)
    BY DEF IInv, ConsumersAgree
  <2>3. Based(d) => Based(d)'
    BY <2>1 DEF Based
  <2>4. \A k : Live(d, k) => Live(d, k)'
    BY <2>1 DEF Live
  <2> QED BY <2>1, <2>2, <2>3, <2>4 DEF ConsumerAgrees
<1> QED BY <1>1, <1>2 DEF ConsumersAgree

-----------------------------------------------------------------------------
(* The invariant, and what follows from it. *)

LEMMA InitialInvariant == Init => IInv
<1> SUFFICES ASSUME Init PROVE IInv
  OBVIOUS
<1>1. InitialState \in PublishedStates
  BY PublicationAssumption DEF PublicationAssumption, InitialState, PublishedStates, View, Views
<1>2. StateOf(InitialState) \in States
  BY <1>1 DEF PublishedStates, States, StateOf
<1>3. TypeOK
  <2>1. frame \in Frames
    BY <1>1 DEF Init, Frames, Kinds
  <2>2. cursor \in [Consumers -> Cursors] /\ mirror \in [Consumers -> States]
    BY <1>2 DEF Init, Cursors
  <2>3. sent \in Seq(Frames) /\ published \in PublishedStates
    BY <1>1 DEF Init
  <2> QED BY <2>1, <2>2, <2>3 DEF Init, TypeOK, Cursors
<1>4. Top = 0 /\ Stored = 0 /\ Committed = 0 /\ At(0) = Origin
  BY DEF Init, Top, Stored, Committed, At
<1>5. Increasing /\ Chained
  BY <1>4 DEF Increasing, Chained
<1>6. ModeAgrees
  BY <1>4 DEF ModeAgrees, Init, Origin
<1>7. SharedAgrees
  <2>1. /\ published_sequence = 0 /\ published = InitialState /\ step = "next"
        /\ InitialState.effective_sequence = 0
    BY DEF Init, InitialState
  <2>2. Origin.sequence = 0 /\ Origin.next = InitialState
    BY DEF Origin
  <2>3. \A k \in 0 .. Stored : k = 0
    BY <1>4
  <2> QED BY <1>4, <2>1, <2>2, <2>3 DEF SharedAgrees
<1>8. ConsumersAgree
  BY Zenon DEF ConsumersAgree, ConsumerAgrees, Init
<1> QED BY <1>3, <1>5, <1>6, <1>7, <1>8 DEF IInv, StreamInv

\* Next is a step of the publisher or of a consumer.
LEMMA Steps == Next => PublisherStep \/ \E c \in Consumers : Consumer(c)
BY Zenon DEF Next, PublisherStep, Publishes, LosesSequence, Recovery, AnnounceGap

LEMMA Stuttering == ASSUME IInv, UNCHANGED vars PROVE IInv'
<1> USE DEF vars, publisherVars, consumerVars
<1>1. Top' = Top /\ Stored' = Stored /\ Committed' = Committed /\ \A i : At(i)' = At(i)
  BY DEF Top, Stored, Committed, At
<1>2. TypeOK'
  BY DEF IInv, StreamInv, TypeOK
<1>3. Increasing' /\ Chained'
  BY <1>1, FramesAt, OrderStays DEF IInv, StreamInv
<1>4. At(Top)' = At(Top) /\ At(Stored)' = At(Stored) /\ At(Committed)' = At(Committed)
  BY DEF At, Top, Stored, Committed
<1>5. ModeAgrees' /\ SharedAgrees'
  BY <1>1, <1>4, SMTT(30) DEF IInv, StreamInv, ModeAgrees, SharedAgrees
<1>6. ConsumersAgree'
  BY <1>1 DEF IInv, ConsumersAgree, ConsumerAgrees, Based, Live
<1> QED BY <1>2, <1>3, <1>5, <1>6 DEF IInv, StreamInv

LEMMA Invariance == Spec => []IInv
<1>1. IInv /\ [Next]_vars => IInv'
  <2> SUFFICES ASSUME IInv, [Next]_vars PROVE IInv'
    OBVIOUS
  <2>1. CASE PublisherStep
    BY <2>1, PublisherStepPreserves, PublisherStepKeepsConsumers DEF IInv
  <2>2. ASSUME NEW c \in Consumers, Consumer(c) PROVE IInv'
    BY <2>2, ConsumerStepPreserves, ConsumerStepAgrees DEF IInv
  <2> QED BY <2>1, <2>2, Steps, Stuttering
<1> QED BY <1>1, InitialInvariant, PTL DEF Spec

\* The shared state, the frame under way and every connection keep their types.
THEOREM TypeCorrect == Spec => []TypeOK
<1>1. IInv => TypeOK
  BY DEF IInv, StreamInv
<1> QED BY <1>1, Invariance, PTL

\* For any number of consumers and any interleaving of serve_consumer with publish_inner,
\* StreamCursor::observe never refuses a frame.
THEOREM NoFrameRefused == Spec => []StreamAccepted
<1>1. IInv => StreamAccepted
  BY Zenon DEF IInv, ConsumersAgree, ConsumerAgrees, StreamAccepted
<1> QED BY <1>1, Invariance, PTL

\* Sequences are distinct, so the frame numbered n is the one found by its number.
LEMMA FoundByNumber ==
  ASSUME StreamInv, NEW k \in 0 .. Top PROVE StateAt(At(k).sequence) = At(k).next
<1> DEFINE n == At(k).sequence
<1>1. Top \in Nat /\ Len(sent) \in Nat /\ \A i \in 0 .. Top : At(i).sequence \in Nat
  BY FramesAt DEF StreamInv, Frames, TypeOK
<1>2. FrameSet = {At(i) : i \in 1 .. Top}
  BY <1>1 DEF FrameSet, Top, At
<1>3. \A i, j \in 0 .. Top : At(i).sequence = At(j).sequence => i = j
  BY <1>1 DEF StreamInv, Increasing
<1>4. At(0) = Origin
  BY DEF At
<1>5. CASE k = 0
  BY <1>4, <1>5 DEF StateAt, Origin
<1>6. CASE k # 0
  <2>1. k \in 1 .. Top /\ 0 \in 0 .. Top /\ \A i \in 1 .. Top : i \in 0 .. Top
    BY <1>1, <1>6
  <2>2. n # 0
    BY <1>3, <1>4, <1>6, <2>1 DEF Origin
  <2>3. At(k) \in FrameSet
    BY <1>2, <2>1
  <2>4. \A f \in FrameSet : f.sequence = n => f = At(k)
    BY <1>2, <1>3, <2>1
  <2>5. (CHOOSE f \in FrameSet : f.sequence = n) = At(k)
    BY <2>3, <2>4
  <2> QED BY <2>2, <2>5, Zenon DEF StateAt
<1> QED BY <1>5, <1>6

\* The mirror of a client that is not waiting for a snapshot is exact, and no gap has
\* disowned it.
LEMMA MirrorsAgree == IInv => MirrorExact /\ GapNotTrusted
<1> SUFFICES ASSUME IInv, NEW c \in Consumers, phase[c] = "live",
                    ~cursor[c].snapshot_required
             PROVE  /\ mirror[c] = StateOf(StateAt(cursor[c].last_sequence))
                    /\ ~StateAt(cursor[c].last_sequence).recovering
  BY DEF MirrorExact, GapNotTrusted
<1>1. PICK k \in 0 .. Top : Live(c, k)
  BY DEF IInv, ConsumersAgree, ConsumerAgrees
<1>2. /\ cursor[c].last_sequence = At(k).sequence /\ mirror[c] = StateOf(At(k).next)
      /\ At(k).kind # "Gap"
  BY <1>1 DEF Live, Knows
<1>3. StateAt(At(k).sequence) = At(k).next
  BY FoundByNumber DEF IInv
<1>4. ~At(k).next.recovering
  BY <1>2, GapsRecover DEF IInv
<1> QED BY <1>2, <1>3, <1>4

\* Every client holds exactly the state of the last frame it was given, from the
\* handshake's baseline on.
THEOREM MirrorsExact == Spec => []MirrorExact
BY Invariance, MirrorsAgree, PTL

\* No client takes a state that a gap disowned for current.
THEOREM GapsNotTrusted == Spec => []GapNotTrusted
BY Invariance, MirrorsAgree, PTL

-----------------------------------------------------------------------------
(* Publication implements OrderedFeed.  Entry n of the log is the state    *)
(* that frame n - 1 of the stream left behind, and a client that knows     *)
(* frame k has seen k + 1 entries.                                         *)

EntrySet == [canonical : Blocks, forkchoice : Views, generation : Nat, recovering : BOOLEAN]

LEMMA EntryTypes == ASSUME NEW p \in PublishedStates PROVE Entry(p) \in EntrySet
BY DEF PublishedStates, Entry, EntrySet

\* Entry n of the log is what frame n - 1 left behind.
LogShape ==
  /\ Len(Log) = Top + 1
  /\ Log = [n \in 1 .. Top + 1 |-> Entry(At(n - 1).next)]

LEMMA LogFromStream == TypeOK => LogShape
<1> SUFFICES ASSUME TypeOK PROVE LogShape
  OBVIOUS
<1> DEFINE all == IF step = "next" THEN sent ELSE Append(sent, frame)
<1>1. Top \in Nat /\ Len(all) = Top
  BY DEF TypeOK, Top
<1>2. \A i \in 1 .. Top : all[i] = At(i)
  BY DEF TypeOK, Top, At
<1>3. At(0).next = InitialState
  BY DEF At, Origin
<1>4. Log = [i \in 1 .. Top + 1 |->
               IF i = 1 THEN Entry(InitialState) ELSE Entry(all[i - 1].next)]
  BY <1>1, Zenon DEF Log
<1> HIDE DEF all
<1>5. \A i \in 1 .. Top + 1 : IF i = 1 THEN i - 1 = 0 ELSE i - 1 \in 1 .. Top
  BY <1>1
<1>6. Log = [n \in 1 .. Top + 1 |-> Entry(At(n - 1).next)]
  BY <1>2, <1>3, <1>4, <1>5
<1>7. Len(Log) = Top + 1
  BY <1>1, <1>6
<1> QED BY <1>6, <1>7, Zenon DEF LogShape

StreamOfFrames == Top \in Nat /\ \A i \in 0 .. Top : At(i) \in Frames

\* A client that knows frame k is at entry k + 1 of the log and holds it.
PlacesInLog == \A c \in Consumers : \A k \in 0 .. Top :
  phase[c] = "live" /\ Knows(cursor[c], mirror[c], At(k)) =>
    Seen[c] = k + 1 /\ Held[c] = Entry(At(k).next)

LEMMA KnownPlaces == StreamInv => PlacesInLog
<1> SUFFICES ASSUME StreamInv, NEW c \in Consumers, NEW k \in 0 .. Top, phase[c] = "live",
                    Knows(cursor[c], mirror[c], At(k))
             PROVE  Seen[c] = k + 1 /\ Held[c] = Entry(At(k).next)
  BY DEF PlacesInLog
<1>1. Top \in Nat /\ Len(sent) \in Nat /\ Len(sent) <= Top /\ Top <= Len(sent) + 1
      /\ \A i \in 0 .. Top : At(i).sequence \in Nat
  <2>1. Len(sent) \in Nat /\ Len(sent) <= Top /\ Top <= Len(sent) + 1
    BY DEF StreamInv, TypeOK, Top
  <2> QED BY <2>1, FramesAt DEF StreamInv, Frames
<1>2. \A i, j \in 0 .. Top : At(i).sequence = At(j).sequence => i = j
  BY <1>1 DEF StreamInv, Increasing
<1>3. \A i \in 1 .. Len(sent) : sent[i] = At(i) /\ i \in 0 .. Top
  BY <1>1 DEF At
<1>4. At(0).sequence = 0 /\ 0 \in 0 .. Top
  BY <1>1 DEF At, Origin
<1>5. PlaceOf(At(k).sequence) = k + 1
  <2>1. CASE k = 0
    BY <1>4, <2>1 DEF PlaceOf
  <2>2. CASE k \in 1 .. Len(sent)
    <3>1. At(k).sequence # 0
      BY <1>1, <1>2, <1>4, <2>2
    <3>2. (CHOOSE i \in 1 .. Len(sent) : sent[i].sequence = At(k).sequence) = k
      BY <1>2, <1>3, <2>2
    <3>3. \E i \in 1 .. Len(sent) : sent[i].sequence = At(k).sequence
      BY <1>3, <2>2
    <3>4. PlaceOf(At(k).sequence) =
            1 + (CHOOSE i \in 1 .. Len(sent) : sent[i].sequence = At(k).sequence)
      BY <3>1, <3>3, Zenon DEF PlaceOf
    <3>5. PlaceOf(At(k).sequence) = 1 + k
      BY <3>2, <3>4, Zenon
    <3> QED BY <3>5
  <2>3. CASE k = Len(sent) + 1
    <3>1. At(k).sequence # 0
      BY <1>1, <1>2, <1>4, <2>3
    <3>2. ~\E i \in 1 .. Len(sent) : sent[i].sequence = At(k).sequence
      BY <1>1, <1>2, <1>3, <2>3
    <3> QED BY <1>1, <2>3, <3>1, <3>2 DEF PlaceOf
  <2> QED BY <1>1, <2>1, <2>2, <2>3
<1>6. Seen[c] = k + 1
  BY <1>5 DEF Seen, Knows
<1>7. Log[k + 1] = Entry(At(k).next)
  BY <1>1, LogFromStream, SMTT(30) DEF LogShape, StreamInv
<1>8. CASE cursor[c].snapshot_required
  BY <1>6, <1>7, <1>8 DEF Held
<1>9. CASE ~cursor[c].snapshot_required
  <2>1. mirror[c] = StateOf(At(k).next) /\ At(k).kind # "Gap"
    BY <1>9 DEF Knows
  <2>2. At(k).next.recovering = FALSE
    <3>1. At(k).next.recovering \in BOOLEAN
      BY FramesAt DEF StreamInv, Frames, PublishedStates
    <3> QED BY <2>1, <3>1, GapsRecover
  <2>3. /\ mirror[c].canonical = At(k).next.canonical
        /\ mirror[c].forkchoice = At(k).next.forkchoice
        /\ mirror[c].generation = At(k).next.generation
    BY <2>1 DEF StateOf
  <2>4. Held[c] = [canonical |-> mirror[c].canonical, forkchoice |-> mirror[c].forkchoice,
                   generation |-> mirror[c].generation, recovering |-> FALSE]
    BY <1>9 DEF Held
  <2> QED BY <1>6, <2>2, <2>3, <2>4, Zenon DEF Entry
<1> QED BY <1>6, <1>8, <1>9

\* A state formula proved of every state holds of the next one too.
LEMMA NextState ==
  (TypeOK' => LogShape' /\ StreamOfFrames') /\ (StreamInv' => PlacesInLog')
<1>1. TypeOK' => LogShape' /\ StreamOfFrames'
  <2>1. TypeOK => LogShape /\ StreamOfFrames
    BY LogFromStream, FramesAt DEF StreamOfFrames
  <2> QED BY <2>1, PTL
<1>2. StreamInv' => PlacesInLog'
  BY KnownPlaces, PTL
<1> QED BY <1>1, <1>2

\* The frame a publisher step adds, if any, is the log's next entry; no client notices.
LEMMA PublisherStepRefines ==
  ASSUME IInv, IInv', PublisherStep PROVE Feed!Extend \/ UNCHANGED Feed!vars
<1>t. PICK t : t = Top
  OBVIOUS
<1>1. /\ t \in Nat /\ t <= Top' /\ Top' \in Nat
      /\ \A i \in 0 .. t : At(i)' = At(i)
      /\ UNCHANGED <<phase, position, committed, baseline, cursor, mirror>>
  BY <1>t, PublisherStepExtends DEF IInv, consumerVars
<1>2. Top' \in {t, t + 1}
  <2>1. CASE Grows
    BY <1>t, <2>1, StreamExtended DEF IInv, StreamInv
  <2>2. CASE Loses \/ StoreState \/ CommitSequence \/ Send
    BY <1>t, <2>2, StreamStays DEF IInv, StreamInv
  <2> QED BY <2>1, <2>2, PublishingGrows, LosingLoses DEF IInv, PublisherStep
<1>3. LogShape /\ LogShape' /\ PlacesInLog /\ PlacesInLog'
  BY LogFromStream, KnownPlaces, NextState DEF IInv, StreamInv
<1>4. ASSUME NEW c \in Consumers PROVE Seen'[c] = Seen[c] /\ Held'[c] = Held[c]
  <2>1. CASE phase[c] = "live"
    <3>1. PICK k \in 0 .. t : Live(c, k)
      BY <1>t, <2>1 DEF IInv, ConsumersAgree, ConsumerAgrees
    <3>2. At(k)' = At(k) /\ k \in 0 .. Top'
      BY <1>1
    <3>3. Knows(cursor[c], mirror[c], At(k))
      BY <3>1 DEF Live
    <3>4. Seen[c] = k + 1 /\ Held[c] = Entry(At(k).next)
      BY <1>t, <1>3, <2>1, <3>3, SMTT(30) DEF PlacesInLog
    <3>5. phase'[c] = "live" /\ Knows(cursor'[c], mirror'[c], At(k)')
      BY <1>1, <2>1, <3>2, <3>3, SMTT(30)
    <3>6. Seen'[c] = k + 1 /\ Held'[c] = Entry(At(k)'.next)
      BY <1>3, <3>2, <3>5, SMTT(30) DEF PlacesInLog
    <3> QED BY <3>2, <3>4, <3>6
  <2>2. CASE phase[c] # "live"
    BY <1>1, <2>2 DEF Seen, Held
  <2> QED BY <2>1, <2>2
<1>5. Seen' = Seen /\ Held' = Held
  BY <1>4, Zenon DEF Seen, Held
<1>6. /\ Log = [n \in 1 .. t + 1 |-> Entry(At(n - 1).next)] /\ Len(Log) = t + 1
      /\ Log' = [n \in 1 .. Top' + 1 |-> Entry(At(n - 1)'.next)] /\ Len(Log)' = Top' + 1
  BY <1>t, <1>3 DEF LogShape
<1>7. CASE Top' = t
  <2>1. Log' = Log
    <3>1. \A n \in 1 .. t + 1 : n - 1 \in 0 .. t
      BY <1>1
    <3>2. \A n \in 1 .. t + 1 : At(n - 1)' = At(n - 1)
      BY <1>1, <3>1, Zenon
    <3> QED BY <1>6, <1>7, <3>2
  <2> QED BY <1>5, <2>1 DEF Feed!vars
<1>8. CASE Top' = t + 1
  <2> DEFINE e == Log'[t + 2]
  <2>1. \A n \in 1 .. t + 1 : n - 1 \in 0 .. t
    BY <1>1
  <2>2. \A n \in 1 .. t + 1 : Log'[n] = Log[n]
    <3> SUFFICES ASSUME NEW n \in 1 .. t + 1 PROVE Log'[n] = Log[n]
      OBVIOUS
    <3>1. At(n - 1)' = At(n - 1)
      BY <1>1, <2>1, Zenon
    <3> QED BY <1>1, <1>6, <1>8, <3>1
  <2>3. \A n \in 1 .. t + 1 : Log[n] \in EntrySet
    <3> SUFFICES ASSUME NEW n \in 1 .. t + 1 PROVE Log[n] \in EntrySet
      OBVIOUS
    <3>1. At(n - 1).next \in PublishedStates
      BY <1>t, <2>1, FramesAt DEF IInv, StreamInv, Frames
    <3>2. Log[n] = Entry(At(n - 1).next)
      BY <1>6
    <3> QED BY <3>1, <3>2, EntryTypes
  <2>4. e \in EntrySet
    <3>1. t + 1 \in 0 .. Top' /\ t + 2 \in 1 .. Top' + 1 /\ (t + 2) - 1 = t + 1
      BY <1>1, <1>8
    <3>2. e = Entry(At(t + 1)'.next)
      BY <1>6, <3>1
    <3>3. \A i \in 0 .. Top' : At(i)' \in Frames
      BY NextState DEF IInv, StreamInv, StreamOfFrames
    <3>4. At(t + 1)'.next \in PublishedStates
      BY <3>1, <3>3 DEF Frames
    <3> QED BY <3>2, <3>4, EntryTypes
  <2>5. Log' = Append(Log, e)
    <3>1. Log \in Seq(EntrySet) /\ Len(Log) = t + 1
      BY <1>1, <1>6, <2>3
    <3>2. Log' \in Seq(EntrySet) /\ Len(Log') = t + 2
      <4>1. \A n \in 1 .. t + 2 : n \in 1 .. t + 1 \/ n = t + 2
        BY <1>1
      <4>2. \A n \in 1 .. t + 2 : Log'[n] \in EntrySet
        BY <2>2, <2>3, <2>4, <4>1
      <4> QED BY <1>1, <1>6, <1>8, <4>2
    <3>3. PICK l, m : l = Log /\ m = Log'
      OBVIOUS
    <3>4. /\ l \in Seq(EntrySet) /\ Len(l) = t + 1 /\ m \in Seq(EntrySet) /\ Len(m) = t + 2
          /\ (\A n \in 1 .. t + 1 : m[n] = l[n]) /\ m[t + 2] = e
      BY <2>2, <3>1, <3>2, <3>3
    <3> HIDE DEF e
    <3>5. /\ Append(l, e) \in Seq(EntrySet) /\ Len(Append(l, e)) = t + 2
          /\ \A n \in 1 .. t + 2 : m[n] = Append(l, e)[n]
      BY <1>1, <2>4, <3>4
    <3>6. m = Append(l, e)
      BY <3>4, <3>5, SeqEqual
    <3> QED BY <3>3, <3>6
  <2>6. Len(Log)' = t + 2 /\ Len(Log) + 1 = t + 2
    BY <1>1, <1>6, <1>8
  <2>7. Feed!Extend
    BY <1>5, <2>4, <2>5, <2>6 DEF Feed!Extend, EntrySet
  <2> QED BY <2>7
<1> QED BY <1>2, <1>7, <1>8

\* A consumer's step leaves the log alone, and what any other consumer has of it.
LEMMA OnlyOneMoves ==
  ASSUME IInv, NEW c \in Consumers, Consumer(c)
  PROVE  /\ Log' = Log
         /\ \A n, v : Seen'[c] = n /\ Held'[c] = v =>
              Seen' = [Seen EXCEPT ![c] = n] /\ Held' = [Held EXCEPT ![c] = v]
         /\ Seen'[c] = Seen[c] /\ Held'[c] = Held[c] => Seen' = Seen /\ Held' = Held
<1>1. /\ sent' = sent /\ step' = step /\ frame' = frame
      /\ \A d \in Consumers \ {c} :
           phase'[d] = phase[d] /\ cursor'[d] = cursor[d] /\ mirror'[d] = mirror[d]
  BY ConsumerStepStays, SMTT(30) DEF IInv, StreamInv, publisherVars
<1>2. Log' = Log
  BY <1>1 DEF Log
<1>3. ASSUME NEW d \in Consumers, d # c PROVE Seen'[d] = Seen[d]
  BY <1>1, <1>3, Zenon DEF Seen, PlaceOf
<1>4. ASSUME NEW d \in Consumers, d # c PROVE Held'[d] = Held[d]
  BY <1>1, <1>2, <1>3, <1>4, Zenon DEF Held
<1>5. /\ DOMAIN Seen = Consumers /\ DOMAIN Seen' = Consumers
      /\ Seen = [d \in Consumers |-> Seen[d]] /\ Seen' = [d \in Consumers |-> Seen'[d]]
  BY ZenonT(30) DEF Seen
<1>6. /\ DOMAIN Held = Consumers /\ DOMAIN Held' = Consumers
      /\ Held = [d \in Consumers |-> Held[d]] /\ Held' = [d \in Consumers |-> Held'[d]]
  BY DEF Held
<1>7. ASSUME NEW n, Seen'[c] = n PROVE Seen' = [Seen EXCEPT ![c] = n]
  BY <1>3, <1>5, <1>7
<1>8. ASSUME NEW v, Held'[c] = v PROVE Held' = [Held EXCEPT ![c] = v]
  BY <1>4, <1>6, <1>8
<1>9. ASSUME Seen'[c] = Seen[c], Held'[c] = Held[c] PROVE Seen' = Seen /\ Held' = Held
  <2>1. \A d \in Consumers : Seen'[d] = Seen[d] /\ Held'[d] = Held[d]
    BY <1>3, <1>4, <1>9, Zenon
  <2> QED BY <1>5, <1>6, <2>1, Zenon
<1> QED BY <1>2, <1>7, <1>8, <1>9, SMTT(30)

\* A connection that goes away is detached, if it was attached.
LEMMA OffRefines ==
  ASSUME IInv, NEW c \in Consumers, Consumer(c), phase'[c] = "off"
  PROVE  Feed!Detach(c) \/ UNCHANGED Feed!vars
<1>1. Seen'[c] = 0 /\ Held'[c] = Entry(InitialState)
  BY DEF Seen, Held
<1>2. Log' = Log /\ Seen' = [Seen EXCEPT ![c] = 0]
      /\ Held' = [Held EXCEPT ![c] = Entry(InitialState)]
  BY <1>1, OnlyOneMoves
<1>3. CASE phase[c] = "live"
  <2>1. PICK k \in 0 .. Top : Live(c, k)
    BY <1>3, SMTT(30) DEF IInv, ConsumersAgree, ConsumerAgrees
  <2>2. Seen[c] = k + 1
    BY <1>3, <2>1, KnownPlaces DEF IInv, PlacesInLog, Live
  <2>3. Seen[c] > 0
    BY <2>2
  <2> QED BY <1>2, <2>3, SMTT(30) DEF Feed!Detach
<1>4. CASE phase[c] # "live"
  <2>1. Seen[c] = 0 /\ Held[c] = Entry(InitialState)
    BY <1>4 DEF Seen, Held
  <2>2. Seen' = Seen /\ Held' = Held
    BY <1>1, <2>1, OnlyOneMoves
  <2> QED BY <1>2, <2>2, ZenonT(30) DEF Feed!vars
<1> QED BY <1>3, <1>4, ZenonT(30)

\* A consumer that is not live before or after its step has nothing of the log.
LEMMA NotLiveRefines ==
  ASSUME IInv, NEW c \in Consumers, Consumer(c), phase[c] # "live", phase'[c] # "live"
  PROVE  UNCHANGED Feed!vars
<1>1. Seen'[c] = 0 /\ Held'[c] = Entry(InitialState)
      /\ Seen[c] = 0 /\ Held[c] = Entry(InitialState)
  BY DEF Seen, Held
<1>2. Log' = Log /\ Seen' = Seen /\ Held' = Held
  BY <1>1, OnlyOneMoves
<1> QED BY <1>2, ZenonT(30) DEF Feed!vars

\* An admitted handshake attaches at an entry that no gap and no head transition disowns.
LEMMA HandshakeRefines ==
  ASSUME IInv, IInv', NEW c \in Consumers, Handshake(c)
  PROVE  Feed!Attach(c) \/ UNCHANGED Feed!vars
<1>1. Consumer(c) /\ phase[c] = "based"
  BY DEF Consumer, Handshake
<1>2. CASE phase' = [phase EXCEPT ![c] = "off"]
  <2>1. phase'[c] # "live"
    BY <1>2 DEF IInv, StreamInv, TypeOK
  <2> QED BY <1>1, <2>1, NotLiveRefines, SMTT(30)
<1>3. CASE Admissible
  <2>1. phase'[c] = "live" /\ mirror'[c] = StateOf(published)
        /\ cursor'[c].snapshot_required = FALSE
        /\ cursor'[c].last_sequence = Baseline(committed[c])
        /\ cursor'[c].generation = published.generation
    BY <1>3, HandshakeEffect, Zenon DEF IInv, StreamInv
  <2>2. Based(c)
    BY <1>1, ZenonT(30) DEF IInv, ConsumersAgree, ConsumerAgrees
  <2>3. PICK k \in 0 .. Top :
          At(k).sequence = Baseline(committed[c]) /\ At(k).next = published
    BY <2>2, HandshakeBaseline DEF IInv
  <2>4. At(k).kind # "Gap"
    BY <1>3, <2>3, GapsRecover, SMTT(30) DEF IInv, Admissible
  <2>5. Top' = Top /\ At(k)' = At(k)
    BY <1>1, ConsumerStepStays DEF IInv, StreamInv
  <2>6. Knows(cursor'[c], mirror'[c], At(k)')
    BY <2>1, <2>3, <2>4, <2>5, KnowsState, Zenon
  <2>7. Seen'[c] = k + 1 /\ Held'[c] = Entry(published)
    BY <2>1, <2>3, <2>5, <2>6, NextState, SMTT(30) DEF IInv, PlacesInLog
  <2>8. /\ k + 1 \in 1 .. Len(Log) /\ Log[k + 1] = Entry(published)
    <3>1. Top \in Nat /\ Len(Log) = Top + 1
          /\ Log = [n \in 1 .. Top + 1 |-> Entry(At(n - 1).next)]
      BY LogFromStream, FramesAt DEF LogShape, IInv, StreamInv
    <3>2. k + 1 \in 1 .. Top + 1 /\ (k + 1) - 1 = k
      BY <3>1
    <3> QED BY <2>3, <3>1, <3>2
  <2>9. Seen[c] = 0
    BY <1>1, SMTT(30) DEF Seen
  <2>10. /\ Seen' = [Seen EXCEPT ![c] = k + 1] /\ Held' = [Held EXCEPT ![c] = Log[k + 1]]
         /\ Log' = Log
    BY <1>1, <2>7, <2>8, OnlyOneMoves, SMTT(30)
  <2>11. ~Log[k + 1].recovering /\ Log[k + 1].forkchoice # NoView
    BY <1>3, <2>8 DEF Admissible, Entry
  <2>12. Feed!Attach(c)
    BY <2>8, <2>9, <2>10, <2>11, Zenon DEF Feed!Attach
  <2> QED BY <2>12, ZenonT(30)
<1> QED BY <1>2, <1>3, ZenonT(30) DEF Handshake

\* A delivery advances a live client by one entry, or shows it nothing, or detaches it.
LEMMA ReceiveRefines ==
  ASSUME IInv, IInv', NEW c \in Consumers, Receive(c)
  PROVE  Feed!Advance(c) \/ Feed!Detach(c) \/ UNCHANGED Feed!vars
<1>1. Consumer(c) /\ phase[c] = "live"
  BY ZenonT(30) DEF Consumer, Receive
<1>2. PICK k \in 0 .. Top : Live(c, k)
  BY <1>1, ZenonT(30) DEF IInv, ConsumersAgree, ConsumerAgrees
<1>3. Seen[c] = k + 1 /\ Held[c] = Entry(At(k).next)
  BY <1>1, <1>2, KnownPlaces, ZenonT(30) DEF IInv, PlacesInLog, Live
<1>4. Top' = Top /\ Top \in Nat /\ \A i : At(i)' = At(i)
  BY <1>1, ConsumerStepStays, FramesAt, Zenon DEF IInv, StreamInv
<1>5. \A n, v : Seen'[c] = n /\ Held'[c] = v =>
        Seen' = [Seen EXCEPT ![c] = n] /\ Held' = [Held EXCEPT ![c] = v]
  BY <1>1, OnlyOneMoves
<1>6. Log' = Log
  BY <1>1, OnlyOneMoves, SMTT(30)
<1>7. CASE phase'[c] = "off"
  BY <1>1, <1>7, OffRefines
<1>8. CASE phase'[c] = "live" /\ Live(c, k)'
  <2>1. Knows(cursor'[c], mirror'[c], At(k)')
    BY <1>8, SMTT(30) DEF Live
  <2>2. Seen'[c] = k + 1 /\ Held'[c] = Entry(At(k)'.next)
    BY <1>4, <1>8, <2>1, NextState, SMTT(30) DEF IInv, PlacesInLog
  <2>3. Seen'[c] = Seen[c] /\ Held'[c] = Held[c]
    BY <1>3, <1>4, <2>2
  <2>4. Seen' = Seen /\ Held' = Held
    BY <1>1, <2>3, OnlyOneMoves
  <2> QED BY <1>6, <2>4 DEF Feed!vars
<1>9. CASE phase'[c] = "live" /\ k + 1 \in 1 .. Top /\ Live(c, k + 1)'
  <2>1. Knows(cursor'[c], mirror'[c], At(k + 1)')
    BY <1>9 DEF Live
  <2>2. k + 1 \in 0 .. Top'
    BY <1>4, <1>9
  <2>3. Seen'[c] = (k + 1) + 1 /\ Held'[c] = Entry(At(k + 1)'.next)
    BY <1>9, <2>1, <2>2, NextState, Zenon DEF IInv, PlacesInLog
  <2>4. /\ Len(Log) = Top + 1
        /\ Log = [n \in 1 .. Top + 1 |-> Entry(At(n - 1).next)]
    BY LogFromStream DEF LogShape, IInv, StreamInv
  <2>5. k + 2 \in 1 .. Top + 1 /\ (k + 2) - 1 = k + 1 /\ (k + 1) + 1 = k + 2
    BY <1>4, <1>9
  <2>6. Log[k + 2] = Entry(At(k + 1).next)
    BY <2>4, <2>5, SMTT(30)
  <2>7. /\ Seen' = [Seen EXCEPT ![c] = (k + 1) + 1]
        /\ Held' = [Held EXCEPT ![c] = Log[(k + 1) + 1]]
    BY <1>4, <1>5, <2>3, <2>5, <2>6, SMTT(30)
  <2>8. Seen[c] > 0 /\ Seen[c] < Len(Log)
    BY <1>3, <1>4, <1>9, <2>4
  <2> QED BY <1>3, <1>6, <2>7, <2>8, ZenonT(30) DEF Feed!Advance
<1> QED BY <1>2, <1>7, <1>8, <1>9, ReceiveOutcome, SMTT(30) DEF IInv

LEMMA ConsumerStepRefines ==
  ASSUME IInv, IInv', NEW c \in Consumers, Consumer(c)
  PROVE  Feed!Attach(c) \/ Feed!Advance(c) \/ Feed!Detach(c) \/ UNCHANGED Feed!vars
<1>1. CASE Subscribe(c) \/ LoadCommitted(c)
  <2>1. phase[c] # "live" /\ phase'[c] # "live"
    BY <1>1, SMTT(30) DEF Subscribe, LoadCommitted, IInv, StreamInv, TypeOK
  <2> QED BY <2>1, NotLiveRefines, SMTT(30)
<1>2. CASE Disconnect(c)
  <2>1. phase'[c] = "off"
    BY <1>2 DEF Disconnect, IInv, StreamInv, TypeOK
  <2> QED BY <2>1, OffRefines
<1> QED BY <1>1, <1>2, HandshakeRefines, ReceiveRefines, SMTT(30) DEF Consumer

\* Whatever the interleaving of publish_inner with any number of serve_consumer tasks,
\* every client follows one log of published states, each entry once and in order, from
\* an entry that its handshake may trust.
THEOREM ImplementsOrderedFeed == Spec => FollowsLog
<1>1. Init => Feed!Init
  <2> SUFFICES ASSUME Init PROVE Feed!Init
    OBVIOUS
  <2>1. Log = <<Entry(InitialState)>>
    <3>1. step = "next" /\ sent = <<>>
      BY DEF Init
    <3>2. Log = [i \in 1 .. 1 |-> Entry(InitialState)]
      BY <3>1, SMTT(30) DEF Log
    <3> QED BY <3>2
  <2>2. Seen = [c \in Consumers |-> 0] /\ Held = [c \in Consumers |-> Entry(InitialState)]
    BY DEF Init, Seen, Held
  <2> QED BY <2>1, <2>2 DEF Feed!Init
<1>2. IInv /\ IInv' /\ [Next]_vars => [Feed!Next]_Feed!vars
  <2> SUFFICES ASSUME IInv, IInv', [Next]_vars PROVE [Feed!Next]_Feed!vars
    OBVIOUS
  <2>1. CASE PublisherStep
    BY <2>1, PublisherStepRefines DEF Feed!Next
  <2>2. ASSUME NEW c \in Consumers, Consumer(c) PROVE [Feed!Next]_Feed!vars
    BY <2>2, ConsumerStepRefines DEF Feed!Next
  <2>3. CASE UNCHANGED vars
    <3>1. Log' = Log /\ Seen' = Seen
      BY <2>3, ZenonT(30) DEF vars, publisherVars, consumerVars, Log, Seen, PlaceOf
    <3>2. Held' = Held
      BY <2>3, <3>1 DEF vars, publisherVars, consumerVars, Held
    <3> QED BY <3>1, <3>2, ZenonT(30) DEF Feed!vars
  <2> QED BY <2>1, <2>2, <2>3, Steps
<1> QED BY <1>1, <1>2, Invariance, PTL DEF Spec, FollowsLog, Feed!Spec

=============================================================================
