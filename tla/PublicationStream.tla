------------------------- MODULE PublicationStream -------------------------
(***************************************************************************)
(* The stream of frames, for any blocks and marks and without use of the   *)
(* bound on sequences.                                                     *)
(*                                                                         *)
(* The frames are looked at as one stream, At(0) .. At(Top): the origin,   *)
(* those broadcast and the one under way.  A step of the publisher leaves  *)
(* the stream alone or extends it by a frame that may follow the last.  A  *)
(* consumer has a place in the stream, which its own steps advance and the *)
(* publisher's steps leave alone.                                          *)
(***************************************************************************)
EXTENDS Publication, TLAPS

Origin ==
  [sequence |-> 0, kind |-> "Snapshot", last_contiguous |-> 0, next |-> InitialState]

Top == IF step = "next" THEN Len(sent) ELSE Len(sent) + 1
At(i) == IF i = 0 THEN Origin ELSE IF i <= Len(sent) THEN sent[i] ELSE frame

\* The last frame whose handshake state is stored, and the last whose sequence is committed.
Stored == IF step = "store" THEN Len(sent) ELSE Top
Committed == IF step = "send" THEN Top ELSE Len(sent)

\* What the publisher guarantees of frame f when it is encoded after frame p.
Follows(p, f) ==
  /\ f.kind = "Gap" => f.last_contiguous = p.sequence
  /\ f.kind # "Gap" => f.sequence = p.sequence + 1
  /\ p.kind \in {"Gap", "ConfigActivated"} => f.kind = "Snapshot"
  /\ f.kind = "ConfigActivated" => f.next.generation >= p.next.generation
  /\ f.kind # "ConfigActivated" => f.next.generation = p.next.generation
  /\ f.kind = "Candidate" => f.next = p.next
  /\ f.kind = "CanonicalHead" => f.next.forkchoice = NoView
  /\ f.kind = "ForkchoiceApplied" => f.next.canonical = p.next.canonical
  /\ f.next.recovering <=> f.kind = "Gap"

Increasing == \A i, j \in 0 .. Top : i < j => At(i).sequence < At(j).sequence

Chained == \A i \in 1 .. Top : Follows(At(i - 1), At(i))

\* What the publisher thread does next agrees with the last frame; a sequence was
\* allocated and lost only where a gap will follow.
ModeAgrees ==
  /\ step # "next" => sequence = frame.sequence
  /\ sequence >= At(Top).sequence
  /\ mode # "recover" \/ At(Top).kind = "Gap" => sequence = At(Top).sequence
  /\ mode = "idle" => At(Top).kind \notin {"Gap", "ConfigActivated"}
  /\ mode = "forkchoice" => At(Top).kind = "CanonicalHead"
  /\ mode = "config" => At(Top).kind = "ConfigActivated"
  /\ mode = "recover" => At(Top).kind # "ConfigActivated"

\* The three writes of publish_inner: every frame from effective_sequence on, as far as
\* its state is stored, left the handshake state as it is now.
SharedAgrees ==
  /\ published_sequence = At(Committed).sequence
  /\ published = At(Stored).next
  /\ \E k \in 0 .. Stored : At(k).sequence = published.effective_sequence
  /\ \A k \in 0 .. Stored :
       At(k).sequence >= published.effective_sequence => At(k).next = published
  /\ step = "store" => frame.next.effective_sequence = frame.sequence
  /\ step \in {"commit", "send"} => frame.next = published

\* The committed sequence a handshake loaded is that of a frame the receiver is not past.
Based(c) == \E k \in 0 .. Stored : position[c] - 1 <= k /\ At(k).sequence = committed[c]

\* A client whose cursor is cur and whose copy is m has been given frame f last.
Knows(cur, m, f) ==
  /\ cur.last_sequence = f.sequence
  /\ cur.generation = f.next.generation
  /\ m.generation = f.next.generation
  /\ cur.snapshot_required => f.kind \in {"Gap", "ConfigActivated"}
  /\ ~cur.snapshot_required => f.kind # "Gap" /\ m = StateOf(f.next)

\* The client knows frame k; what the receiver still reads up to k is no newer than the
\* baseline, and skipped.
Live(c, k) ==
  /\ position[c] - 1 <= k
  /\ position[c] - 1 < k => cursor[c].last_sequence = baseline[c]
  /\ baseline[c] <= cursor[c].last_sequence
  /\ Knows(cursor[c], mirror[c], At(k))

ConsumerAgrees(c) ==
  /\ phase[c] # "rejected"
  /\ phase[c] # "off" => position[c] - 1 <= Len(sent)
  /\ phase[c] = "based" => Based(c)
  /\ phase[c] = "live" => \E k \in 0 .. Top : Live(c, k)

ConsumersAgree == \A c \in Consumers : ConsumerAgrees(c)

StreamInv == TypeOK /\ Increasing /\ Chained /\ ModeAgrees /\ SharedAgrees
IInv == StreamInv /\ ConsumersAgree

-----------------------------------------------------------------------------
(* Steps of the publisher, seen as what they do to the stream. *)

\* What the publisher thread does after frame f.
ModeAfter(m, f) ==
  /\ m \in {"idle", "forkchoice", "config", "recover"}
  /\ m = "idle" => f.kind \notin {"Gap", "ConfigActivated"}
  /\ m = "forkchoice" => f.kind = "CanonicalHead"
  /\ m = "config" => f.kind = "ConfigActivated"
  /\ m = "recover" => f.kind = "Gap"

\* A frame is encoded.
Grows ==
  /\ step = "next" /\ step' \in {"store", "commit"}
  /\ sequence' = sequence + 1
  /\ frame' \in Frames /\ frame'.sequence = sequence + 1
  /\ Follows(At(Top), frame')
  /\ step' = "commit" => frame'.next = published
  /\ step' = "store" => frame'.next.effective_sequence = sequence + 1
  /\ ModeAfter(mode', frame')
  /\ UNCHANGED <<published_sequence, published, sent, consumerVars>>

\* A sequence may be lost, and the publisher has to recover.
Loses ==
  /\ step = "next" /\ sequence' \in {sequence, sequence + 1} /\ mode' = "recover"
  /\ At(Top).kind \notin {"Gap", "ConfigActivated"}
  /\ UNCHANGED <<published_sequence, published, sent, frame, step, consumerVars>>

\* The operations that encode a frame, and those that end in recovery without one.
Publishes ==
  \/ PublishCandidate \/ ActivateSnapshot
  \/ mode = "recover" /\ ~published.recovering /\ UNCHANGED <<mode, consumerVars>>
     /\ PublishState("Gap", published.canonical, NoView, published.generation, TRUE)
  \/ \E b \in Blocks, m \in Marks : Reanchor(b, m) \/ Activate(b, m)
  \/ \E b \in Blocks : Canonical(b)
  \/ \E m \in Marks : ForkchoiceApplied(m)

LosesSequence ==
  \/ Fail
  \/ /\ mode = "recover" /\ ~published.recovering
     /\ step = "next" /\ sequence' = sequence + 1
     /\ UNCHANGED <<published_sequence, published, sent, frame, step, mode, consumerVars>>

\* Frames are frames, whatever their place.
LEMMA FramesAt ==
  ASSUME TypeOK PROVE Top \in Nat /\ \A i \in 0 .. Top : At(i) \in Frames
<1>1. InitialState \in PublishedStates
  BY PublicationAssumption DEF PublicationAssumption, InitialState, PublishedStates, View, Views
<1>2. Origin \in Frames
  BY <1>1 DEF Origin, Frames, Kinds
<1> QED BY <1>2 DEF TypeOK, Top, At

\* Between two operations the shared state is that of the last frame.
LEMMA BetweenOperations ==
  ASSUME StreamInv, step = "next"
  PROVE  /\ published = At(Top).next /\ published_sequence = At(Top).sequence
         /\ published.recovering <=> At(Top).kind = "Gap"
<1>1. Top = Len(sent) /\ Stored = Top /\ Committed = Top
  BY DEF Top, Stored, Committed
<1>2. published = At(Top).next /\ published_sequence = At(Top).sequence
  BY <1>1 DEF StreamInv, SharedAgrees
<1>3. At(Top).next.recovering <=> At(Top).kind = "Gap"
  <2>1. CASE Top = 0
    BY <2>1 DEF At, Origin, InitialState
  <2>2. CASE Top # 0
    <3>1. Top \in 1 .. Top
      BY <2>2, FramesAt, SMTT(30) DEF StreamInv
    <3> QED BY <3>1, Zenon DEF StreamInv, Chained, Follows
  <2> QED BY <2>1, <2>2
<1> QED BY <1>2, <1>3

\* Every operation that encodes a frame encodes one that may follow the last.
LEMMA PublishingGrows ==
  ASSUME StreamInv, Publishes PROVE Grows
<1> DEFINE last == At(Top)
<1>1. step = "next"
  BY DEF Publishes, PublishCandidate, ActivateSnapshot, Reanchor, Activate, Canonical,
         ForkchoiceApplied, Publish, PublishState, Encode
<1>2. /\ published = last.next /\ published_sequence = last.sequence
      /\ published.recovering <=> last.kind = "Gap"
  BY <1>1, BetweenOperations
<1>3. last \in Frames
  BY FramesAt DEF StreamInv
<1>4. /\ mode # "recover" \/ last.kind = "Gap" => sequence = last.sequence
      /\ mode = "idle" => last.kind \notin {"Gap", "ConfigActivated"}
      /\ mode = "forkchoice" => last.kind = "CanonicalHead"
      /\ mode = "config" => last.kind = "ConfigActivated"
      /\ mode = "recover" => last.kind # "ConfigActivated"
  BY DEF StreamInv, ModeAgrees
<1>5. sequence \in Nat /\ published \in PublishedStates /\ published_sequence \in Nat
  BY DEF StreamInv, TypeOK
<1>6. SUFFICES Follows(last, frame') /\ frame' \in Frames /\ ModeAfter(mode', frame')
               /\ step' \in {"store", "commit"} /\ sequence' = sequence + 1
               /\ frame'.sequence = sequence + 1
               /\ (step' = "commit" => frame'.next = published)
               /\ (step' = "store" => frame'.next.effective_sequence = sequence + 1)
               /\ UNCHANGED <<published_sequence, published, sent, consumerVars>>
  BY <1>1 DEF Grows
<1> HIDE DEF last
<1> USE <1>2, <1>3, <1>4, <1>5
<1> USE DEF Encode, PublishState, Publish, LastContiguous, Follows, ModeAfter, Frames, Kinds,
            PublishedStates, View, Views, NoView
<1>7. CASE PublishCandidate
  BY <1>7 DEF PublishCandidate
<1>8. CASE ActivateSnapshot
  BY <1>8 DEF ActivateSnapshot
<1>9. CASE /\ mode = "recover" /\ ~published.recovering /\ UNCHANGED <<mode, consumerVars>>
           /\ PublishState("Gap", published.canonical, NoView, published.generation, TRUE)
  BY <1>9
<1>10. ASSUME NEW b \in Blocks, NEW m \in Marks, Reanchor(b, m) \/ Activate(b, m)
       PROVE  <1>6!1
  <2>1. CASE Reanchor(b, m)
    BY <2>1 DEF Reanchor
  <2>2. CASE Activate(b, m)
    BY <2>2 DEF Activate
  <2> QED BY <1>10, <2>1, <2>2, ZenonT(30)
<1>11. ASSUME NEW b \in Blocks, Canonical(b) PROVE <1>6!1
  BY <1>11 DEF Canonical
<1>12. ASSUME NEW m \in Marks, ForkchoiceApplied(m) PROVE <1>6!1
  BY <1>12 DEF ForkchoiceApplied
<1> QED BY <1>7, <1>8, <1>9, <1>10, <1>11, <1>12, ZenonT(30) DEF Publishes

\* A failed operation leaves the stream alone, and a gap is still to be announced.
LEMMA LosingLoses ==
  ASSUME StreamInv, LosesSequence PROVE Loses
<1>1. step = "next"
  BY DEF LosesSequence, Fail
<1>2. published.recovering <=> At(Top).kind = "Gap"
  BY <1>1, BetweenOperations
<1> QED BY <1>1, <1>2 DEF LosesSequence, Fail, Loses, StreamInv, ModeAgrees

-----------------------------------------------------------------------------
(* The stream is preserved. *)

\* Encoding adds one frame at the end of the stream.
LEMMA StreamExtended ==
  ASSUME TypeOK, Grows, NEW t, t = Top
  PROVE  /\ Len(sent) = t /\ Len(sent)' = t /\ Top' = t + 1
         /\ Stored = t /\ Stored' \in {t, t + 1}
         /\ step' = "store" <=> Stored' = t
         /\ Committed = t /\ Committed' = t
         /\ \A i \in 0 .. t : At(i)' = At(i)
         /\ At(t + 1)' = frame'
<1>1. Len(sent) \in Nat
  BY DEF TypeOK
<1> QED BY <1>1 DEF Grows, Top, Stored, Committed, At

\* The other steps leave the stream as it is.
LEMMA StreamStays ==
  ASSUME TypeOK, StoreState \/ CommitSequence \/ Send \/ Loses \/ UNCHANGED publisherVars
  PROVE  Top' = Top /\ \A i \in 0 .. Top : At(i)' = At(i)
<1>1. Len(sent) \in Nat /\ \A i \in 1 .. Len(sent) : sent[i] \in Frames
  BY DEF TypeOK
<1>2. CASE Send
  <2>1. Len(sent') = Len(sent) + 1 /\ sent'[Len(sent) + 1] = frame
        /\ \A i \in 1 .. Len(sent) : sent'[i] = sent[i]
    BY <1>2 DEF Send, TypeOK
  <2> QED BY <1>1, <1>2, <2>1 DEF Send, Top, At
<1>3. CASE StoreState \/ CommitSequence \/ Loses \/ UNCHANGED publisherVars
  BY <1>1, <1>3 DEF StoreState, CommitSequence, Loses, publisherVars, Top, At
<1> QED BY <1>2, <1>3

\* Where the stored and the committed frame are, in every step of publish_inner.
LEMMA Places ==
  ASSUME TypeOK
  PROVE  /\ Len(sent) \in Nat /\ Top \in Nat /\ Stored \in Nat /\ Committed \in Nat
         /\ Len(sent) <= Committed /\ Committed <= Stored /\ Stored <= Top
         /\ step = "next" => Len(sent) = Top
         /\ step = "store" => Stored + 1 = Top /\ Committed = Stored
         /\ step = "commit" => Committed + 1 = Top /\ Stored = Top
         /\ step = "send" => Committed = Top /\ Stored = Top
         /\ step # "next" => Len(sent) + 1 = Top /\ At(Top) = frame
<1>1. Len(sent) \in Nat
  BY DEF TypeOK
<1> QED BY <1>1 DEF TypeOK, Top, Stored, Committed, At

LEMMA GrowsPreserves ==
  ASSUME StreamInv, Grows PROVE StreamInv'
<1>t. PICK t : t = Top
  OBVIOUS
<1>1. /\ Len(sent) = t /\ Len(sent)' = t /\ Top' = t + 1 /\ t \in Nat
      /\ Stored = t /\ Stored' \in {t, t + 1} /\ (step' = "store" <=> Stored' = t)
      /\ Committed = t /\ Committed' = t
      /\ \A i \in 0 .. t : At(i)' = At(i)
      /\ At(t + 1)' = frame'
  BY <1>t, StreamExtended, FramesAt DEF StreamInv
<1>2. \A i \in 0 .. t : At(i) \in Frames
  BY <1>t, FramesAt DEF StreamInv
<1>3. TypeOK'
  BY DEF Grows, StreamInv, TypeOK, consumerVars, ModeAfter
<1>4. sequence \in Nat /\ sequence >= At(t).sequence /\ frame'.sequence = sequence + 1
  BY <1>t DEF StreamInv, ModeAgrees, Grows, TypeOK
<1>5. Increasing'
  <2> SUFFICES ASSUME NEW i \in 0 .. t + 1, NEW j \in 0 .. t + 1, i < j
               PROVE  At(i)'.sequence < At(j)'.sequence
    BY <1>1 DEF Increasing
  <2>1. CASE j <= t
    <3>1. i \in 0 .. t /\ j \in 0 .. t
      BY <1>1, <2>1
    <3>2. At(i).sequence < At(j).sequence
      BY <1>t, <3>1, Zenon DEF StreamInv, Increasing
    <3> QED BY <1>1, <3>1, <3>2
  <2>2. CASE j = t + 1
    <3>1. i \in 0 .. t /\ t \in 0 .. t
      BY <1>1, <2>2
    <3>2. i = t \/ At(i).sequence < At(t).sequence
      BY <1>t, <3>1, <1>1 DEF StreamInv, Increasing
    <3>3. At(i)' = At(i) /\ At(j)' = frame'
      BY <1>1, <2>2, <3>1
    <3>4. At(i).sequence \in Nat /\ At(t).sequence \in Nat
      BY <1>2, <3>1 DEF Frames
    <3> QED BY <1>4, <3>2, <3>3, <3>4
  <2> QED BY <1>1, <2>1, <2>2
<1>6. Chained'
  <2> SUFFICES ASSUME NEW i \in 1 .. t + 1 PROVE Follows(At(i - 1), At(i))'
    BY <1>1 DEF Chained
  <2>1. CASE i <= t
    <3>1. i \in 0 .. t /\ i - 1 \in 0 .. t /\ i \in 1 .. t
      BY <1>1, <2>1
    <3>2. Follows(At(i - 1), At(i))
      BY <1>t, <3>1, Zenon DEF StreamInv, Chained
    <3>3. At(i - 1)' = At(i - 1) /\ At(i)' = At(i)
      BY <1>1, <3>1, Zenon
    <3> QED BY <3>2, <3>3 DEF Follows
  <2>2. CASE i = t + 1
    <3>1. i - 1 = t /\ t \in 0 .. t
      BY <1>1, <2>2
    <3>2. At(t)' = At(t) /\ At(i)' = frame'
      BY <1>1, <2>2, <3>1
    <3>3. Follows(At(t), frame')
      BY <1>t DEF Grows
    <3> QED BY <3>1, <3>2, <3>3 DEF Follows
  <2> QED BY <1>1, <2>1, <2>2
<1>7. ModeAgrees'
  <2>1. At(Top)' = frame'
    BY <1>1
  <2>2. ModeAfter(mode', frame') /\ sequence' = frame'.sequence /\ sequence' \in Nat
    BY <1>4 DEF Grows
  <2> QED BY <2>1, <2>2 DEF ModeAgrees, ModeAfter
<1>8. SharedAgrees'
  <2>1. /\ published_sequence = At(t).sequence /\ published = At(t).next
        /\ \E k \in 0 .. t : At(k).sequence = published.effective_sequence
        /\ \A k \in 0 .. t :
             At(k).sequence >= published.effective_sequence => At(k).next = published
    BY <1>1 DEF StreamInv, SharedAgrees
  <2>2. /\ published' = published /\ published_sequence' = published_sequence
        /\ step' \in {"store", "commit"}
        /\ step' = "commit" => frame'.next = published
        /\ step' = "store" => frame'.next.effective_sequence = frame'.sequence
    BY DEF Grows
  <2>3. At(t)' = At(t) /\ (step' = "commit" => Stored' = t + 1)
    BY <1>1, <2>2
  <2>4. At(Stored)'.next = published /\ At(Committed)'.sequence = published_sequence
    BY <1>1, <2>1, <2>2, <2>3
  <2>5. \E k \in 0 .. Stored' : At(k)'.sequence = published.effective_sequence
    BY <1>1, <2>1
  <2>6. ASSUME NEW k \in 0 .. Stored', At(k)'.sequence >= published.effective_sequence
        PROVE  At(k)'.next = published
    <3>1. CASE k \in 0 .. t
      BY <1>1, <2>1, <2>6, <3>1
    <3>2. CASE k = t + 1
      BY <1>1, <2>2, <2>3, <2>6, <3>2
    <3> QED BY <1>1, <3>1, <3>2
  <2> QED BY <2>2, <2>4, <2>5, <2>6 DEF SharedAgrees
<1> QED BY <1>3, <1>5, <1>6, <1>7, <1>8 DEF StreamInv

\* Storing, committing, sending and losing a sequence leave the frames alone.
LEMMA OrderStays ==
  ASSUME Increasing, Chained, NEW t, t = Top, Top' = t, \A i \in 0 .. t : At(i)' = At(i),
         t \in Nat
  PROVE  Increasing' /\ Chained'
<1>1. Increasing'
  BY DEF Increasing
<1>2. Chained'
  <2> SUFFICES ASSUME NEW i \in 1 .. t PROVE Follows(At(i - 1), At(i))'
    BY DEF Chained
  <2>1. i \in 0 .. t /\ i - 1 \in 0 .. t
    OBVIOUS
  <2>2. Follows(At(i - 1), At(i))
    BY Zenon DEF Chained
  <2>3. At(i - 1)' = At(i - 1) /\ At(i)' = At(i)
    BY <2>1, Zenon
  <2> QED BY <2>2, <2>3 DEF Follows
<1> QED BY <1>1, <1>2

LEMMA StorePreserves ==
  ASSUME StreamInv, StoreState PROVE StreamInv'
<1>t. PICK t : t = Top
  OBVIOUS
<1>1. Top' = t /\ \A i \in 0 .. t : At(i)' = At(i)
  BY <1>t, StreamStays DEF StreamInv
<1>2. TypeOK'
  BY DEF StreamInv, TypeOK, StoreState, consumerVars, Frames
<1>3. /\ t \in Nat /\ Len(sent) + 1 = t /\ Committed = Len(sent) /\ Stored = Len(sent)
      /\ Stored' = t /\ Committed' = Len(sent) /\ At(t) = frame
  BY <1>t, Places DEF StreamInv, StoreState, Top, Stored, Committed
<1>4. Increasing' /\ Chained'
  BY <1>t, <1>1, <1>3, OrderStays DEF StreamInv
<1>5. At(Top)' = At(t)
  BY <1>1, <1>3
<1>6. ModeAgrees'
  BY <1>t, <1>5 DEF StreamInv, ModeAgrees, StoreState
<1>7. /\ published' = frame.next /\ frame.next.effective_sequence = frame.sequence
      /\ published_sequence' = At(Len(sent)).sequence /\ frame' = frame
      /\ step' = "commit"
  BY <1>3 DEF StreamInv, SharedAgrees, StoreState
<1>8. At(Stored)' = frame /\ At(Committed)'.sequence = published_sequence'
  BY <1>1, <1>3, <1>7
<1>9. \A k \in 0 .. t : k = t \/ At(k).sequence < frame.sequence
  BY <1>t, <1>3 DEF StreamInv, Increasing
<1>10. \A k \in 0 .. t : At(k).sequence \in Nat
  BY <1>t, FramesAt DEF StreamInv, Frames
<1>11. SharedAgrees'
  <2>1. \E k \in 0 .. t : At(k)'.sequence = frame.next.effective_sequence
    BY <1>1, <1>3, <1>7
  <2>2. ASSUME NEW k \in 0 .. t, At(k)'.sequence >= frame.next.effective_sequence
        PROVE  At(k)'.next = frame.next
    BY <1>1, <1>3, <1>7, <1>9, <1>10, <2>2
  <2> QED BY <1>3, <1>7, <1>8, <2>1, <2>2 DEF SharedAgrees
<1> QED BY <1>2, <1>4, <1>6, <1>11 DEF StreamInv

LEMMA CommitPreserves ==
  ASSUME StreamInv, CommitSequence PROVE StreamInv'
<1>t. PICK t : t = Top
  OBVIOUS
<1>1. Top' = t /\ \A i \in 0 .. t : At(i)' = At(i)
  BY <1>t, StreamStays DEF StreamInv
<1>2. TypeOK'
  BY DEF StreamInv, TypeOK, CommitSequence, consumerVars, Frames
<1>3. t \in Nat /\ Stored = t /\ Stored' = t /\ Committed' = t /\ At(t) = frame
  BY <1>t, <1>1, Places DEF StreamInv, CommitSequence, Top, Stored, Committed
<1>4. Increasing' /\ Chained'
  BY <1>t, <1>1, <1>3, OrderStays DEF StreamInv
<1>5. At(Top)' = At(t) /\ At(Stored)' = At(t) /\ At(Committed)' = frame
  BY <1>1, <1>3
<1>6. ModeAgrees'
  BY <1>t, <1>5 DEF StreamInv, ModeAgrees, CommitSequence
<1>7. SharedAgrees'
  BY <1>1, <1>3, <1>5 DEF StreamInv, SharedAgrees, CommitSequence
<1> QED BY <1>2, <1>4, <1>6, <1>7 DEF StreamInv

LEMMA SendPreserves ==
  ASSUME StreamInv, Send PROVE StreamInv'
<1>t. PICK t : t = Top
  OBVIOUS
<1>1. Top' = t /\ \A i \in 0 .. t : At(i)' = At(i)
  BY <1>t, StreamStays DEF StreamInv
<1>2. TypeOK'
  BY DEF StreamInv, TypeOK, Send, consumerVars
<1>3. /\ t \in Nat /\ Stored = t /\ Committed = t /\ At(t) = frame
      /\ Stored' = t /\ Committed' = t
  <2>1. Len(sent') = Len(sent) + 1
    BY DEF Send, StreamInv, TypeOK
  <2> QED BY <1>t, <1>1, <2>1, Places DEF StreamInv, Send, Top, Stored, Committed
<1>4. Increasing' /\ Chained'
  BY <1>t, <1>1, <1>3, OrderStays DEF StreamInv
<1>5. At(Top)' = At(t) /\ At(Stored)' = At(t) /\ At(Committed)' = At(t)
  BY <1>1, <1>3
<1>6. ModeAgrees'
  BY <1>t, <1>3, <1>5 DEF StreamInv, ModeAgrees, Send
<1>7. SharedAgrees'
  BY <1>1, <1>3, <1>5 DEF StreamInv, SharedAgrees, Send
<1> QED BY <1>2, <1>4, <1>6, <1>7 DEF StreamInv

LEMMA LosesPreserves ==
  ASSUME StreamInv, Loses PROVE StreamInv'
<1>t. PICK t : t = Top
  OBVIOUS
<1>1. Top' = t /\ \A i \in 0 .. t : At(i)' = At(i)
  BY <1>t, StreamStays DEF StreamInv
<1>2. TypeOK'
  BY DEF StreamInv, TypeOK, Loses, consumerVars
<1>3. t \in Nat /\ Stored = t /\ Committed = t /\ Stored' = t /\ Committed' = t
  BY <1>t, <1>1, Places DEF StreamInv, Loses, Top, Stored, Committed
<1>4. Increasing' /\ Chained'
  BY <1>t, <1>1, <1>3, OrderStays DEF StreamInv
<1>5. At(Top)' = At(t) /\ At(Stored)' = At(t) /\ At(Committed)' = At(t)
  BY <1>1, <1>3
<1>6. ModeAgrees'
  <2>1. At(t).sequence \in Nat
    BY <1>t, <1>3, FramesAt DEF StreamInv, Frames
  <2> QED BY <1>t, <1>5, <2>1 DEF StreamInv, ModeAgrees, Loses, TypeOK
<1>7. SharedAgrees'
  BY <1>1, <1>3, <1>5 DEF StreamInv, SharedAgrees, Loses
<1> QED BY <1>2, <1>4, <1>6, <1>7 DEF StreamInv

-----------------------------------------------------------------------------
(* Consumers keep their place in the stream. *)

\* The steps of the publisher.
PublisherStep == Publishes \/ LosesSequence \/ StoreState \/ CommitSequence \/ Send

LEMMA PublisherStepPreserves ==
  ASSUME StreamInv, PublisherStep PROVE StreamInv'
BY PublishingGrows, LosingLoses, GrowsPreserves, LosesPreserves, StorePreserves,
   CommitPreserves, SendPreserves DEF PublisherStep

\* Nothing that a consumer's place depends on is taken away by the publisher.
LEMMA PublisherStepExtends ==
  ASSUME StreamInv, PublisherStep, NEW t, t = Top
  PROVE  /\ t \in Nat /\ t <= Top' /\ Top' \in Nat
         /\ Len(sent) <= Len(sent)' /\ Stored <= Stored' /\ Stored <= t
         /\ Stored \in Nat /\ Stored' \in Nat /\ Len(sent) \in Nat /\ Len(sent)' \in Nat
         /\ \A i \in 0 .. t : At(i)' = At(i)
         /\ UNCHANGED consumerVars
<1>1. /\ t \in Nat /\ Stored <= t /\ Stored \in Nat /\ Len(sent) \in Nat
  BY Places DEF StreamInv
<1>2. CASE Grows
  <2>1. Len(sent) = t /\ Len(sent)' = t /\ Top' = t + 1 /\ Stored = t
        /\ Stored' \in {t, t + 1} /\ \A i \in 0 .. t : At(i)' = At(i)
    BY <1>2, StreamExtended DEF StreamInv
  <2> QED BY <1>1, <1>2, <2>1 DEF Grows
<1>3. CASE StoreState \/ CommitSequence \/ Send \/ Loses
  <2>1. Top' = t /\ \A i \in 0 .. t : At(i)' = At(i)
    BY <1>3, StreamStays DEF StreamInv
  <2>2. Len(sent)' \in {Len(sent), Len(sent) + 1}
    BY <1>3 DEF StoreState, CommitSequence, Send, Loses, StreamInv, TypeOK
  <2>3. Stored' \in Nat /\ Stored <= Stored'
    BY <1>1, <1>3, <2>1, <2>2, Places
       DEF StoreState, CommitSequence, Send, Loses, Stored, Top, StreamInv
  <2>4. UNCHANGED consumerVars
    BY <1>3 DEF StoreState, CommitSequence, Send, Loses
  <2> QED BY <1>1, <2>1, <2>2, <2>3, <2>4
<1> QED BY <1>2, <1>3, PublishingGrows, LosingLoses DEF PublisherStep

LEMMA PublisherStepKeepsConsumers ==
  ASSUME IInv, PublisherStep PROVE ConsumersAgree'
<1>t. PICK t : t = Top
  OBVIOUS
<1> DEFINE n == Len(sent)
           s == Stored
<1>1. /\ t \in Nat /\ t <= Top' /\ Top' \in Nat
      /\ n <= n' /\ s <= s' /\ s <= t
      /\ s \in Nat /\ s' \in Nat /\ n \in Nat /\ n' \in Nat
      /\ \A i \in 0 .. t : At(i)' = At(i)
  BY <1>t, PublisherStepExtends DEF IInv
<1>2. UNCHANGED <<phase, position, committed, baseline, cursor, mirror>>
  BY <1>t, PublisherStepExtends DEF IInv, consumerVars
<1> SUFFICES ASSUME NEW c \in Consumers PROVE ConsumerAgrees(c)'
  BY DEF ConsumersAgree
<1>3. ConsumerAgrees(c) /\ position[c] \in Nat
  BY DEF IInv, ConsumersAgree, StreamInv, TypeOK
<1>4. phase'[c] # "rejected" /\ (phase'[c] # "off" => position'[c] - 1 <= n')
  BY <1>1, <1>2, <1>3 DEF ConsumerAgrees
<1>5. ASSUME phase'[c] = "based" PROVE Based(c)'
  <2>1. PICK k \in 0 .. s : position[c] - 1 <= k /\ At(k).sequence = committed[c]
    BY <1>2, <1>3, <1>5 DEF ConsumerAgrees, Based
  <2>2. k \in 0 .. s' /\ At(k)' = At(k)
    BY <1>1
  <2> HIDE DEF s
  <2> QED BY <1>2, <2>1, <2>2 DEF Based, s
<1>6. ASSUME phase'[c] = "live" PROVE \E k \in 0 .. Top' : Live(c, k)'
  <2>1. PICK k \in 0 .. t : Live(c, k)
    BY <1>t, <1>2, <1>3, <1>6 DEF ConsumerAgrees
  <2>2. k \in 0 .. Top' /\ At(k)' = At(k)
    BY <1>1
  <2>3. Live(c, k)'
    BY <1>2, <2>1, <2>2, ZenonT(30) DEF Live, Knows
  <2> QED BY <2>2, <2>3
<1> QED BY <1>4, <1>5, <1>6 DEF ConsumerAgrees

\* A consumer's own steps leave the stream alone, and every other consumer.
LEMMA ConsumerStepStays ==
  ASSUME TypeOK, NEW c \in Consumers, Consumer(c)
  PROVE  /\ UNCHANGED publisherVars
         /\ Top' = Top /\ Stored' = Stored /\ Committed' = Committed
         /\ Len(sent)' = Len(sent)
         /\ \A i : At(i)' = At(i)
         /\ \A d \in Consumers \ {c} :
              /\ phase'[d] = phase[d] /\ position'[d] = position[d]
              /\ committed'[d] = committed[d] /\ baseline'[d] = baseline[d]
              /\ cursor'[d] = cursor[d] /\ mirror'[d] = mirror[d]
<1>1. UNCHANGED publisherVars
  BY DEF Consumer, Subscribe, LoadCommitted, Handshake, Receive, Disconnect
<1>2. Top' = Top /\ Stored' = Stored /\ Committed' = Committed
      /\ Len(sent)' = Len(sent) /\ \A i : At(i)' = At(i)
  BY <1>1, SMTT(30) DEF publisherVars, Top, Stored, Committed, At
<1>3. ASSUME NEW d \in Consumers \ {c}
      PROVE  /\ phase'[d] = phase[d] /\ position'[d] = position[d]
             /\ committed'[d] = committed[d] /\ baseline'[d] = baseline[d]
             /\ cursor'[d] = cursor[d] /\ mirror'[d] = mirror[d]
  BY <1>3, ZenonT(30) DEF TypeOK, Consumer, Subscribe, LoadCommitted, Handshake, Receive, Disconnect
<1> QED BY <1>1, <1>2, <1>3, ZenonT(30)

\* Types of what a client makes of a frame.
LEMMA ApplyTypes ==
  ASSUME NEW f \in Frames, NEW s \in States
  PROVE  Apply(s, f) \in States /\ Apply(s, f).generation \in Nat
BY Zenon DEF Frames, Kinds, States, PublishedStates, Apply, Views

Cursors == [last_sequence : Nat, snapshot_required : BOOLEAN, generation : Nat]

LEMMA ObserveTypes ==
  ASSUME NEW f \in Frames PROVE Observe(f) \in Cursors
<1>1. f.sequence \in Nat /\ f.next.generation \in Nat
  BY DEF Frames, PublishedStates
<1> DEFINE required == f.kind \in {"Gap", "ConfigActivated"}
<1>2. required \in BOOLEAN
  BY SMT
<1>3. Observe(f) = [last_sequence |-> f.sequence, snapshot_required |-> required,
                    generation |-> f.next.generation]
  BY Zenon DEF Observe
<1> HIDE DEF required
<1> QED BY <1>1, <1>2, <1>3 DEF Cursors

LEMMA ConsumerStepTypes ==
  ASSUME TypeOK, NEW c \in Consumers, Consumer(c) PROVE TypeOK'
<1> USE DEF TypeOK, publisherVars
<1>1. CASE Subscribe(c)
  BY <1>1, SMTT(30) DEF Subscribe
<1>2. CASE LoadCommitted(c)
  BY <1>2, ZenonT(30) DEF LoadCommitted
<1>3. CASE Handshake(c)
  <2>1. CASE phase' = [phase EXCEPT ![c] = "off"] /\ UNCHANGED <<baseline, cursor, mirror>>
    BY <1>3, <2>1, ZenonT(30) DEF Handshake
  <2>2. CASE Admissible
    <3> DEFINE start == Baseline(committed[c])
               cur == [last_sequence |-> start, snapshot_required |-> FALSE,
                       generation |-> published.generation]
    <3>1. start \in Nat /\ published.generation \in Nat
      BY DEF Baseline, PublishedStates
    <3>2. cur \in Cursors
      BY <3>1 DEF Cursors
    <3>3. StateOf(published) \in States
      BY ZenonT(30) DEF StateOf, States, PublishedStates
    <3>4. /\ baseline' = [baseline EXCEPT ![c] = start]
          /\ cursor' = [cursor EXCEPT ![c] = cur]
          /\ mirror' = [mirror EXCEPT ![c] = StateOf(published)]
          /\ phase' = [phase EXCEPT ![c] = "live"]
          /\ UNCHANGED <<publisherVars, position, committed>>
      BY <1>3, <2>2 DEF Handshake
    <3> HIDE DEF start, cur
    <3> QED BY <3>1, <3>2, <3>3, <3>4, SMTT(30) DEF Cursors
  <2> QED BY <1>3, <2>1, <2>2, SMTT(30) DEF Handshake
<1>4. CASE Receive(c)
  <2>1. CASE Lagged(c)
    BY <1>4, <2>1, Zenon DEF Receive
  <2>2. CASE ~Lagged(c)
    <3> DEFINE f == sent[position[c]]
    <3>1. f \in Frames
      BY <1>4 DEF Receive
    <3>2. Observe(f) \in Cursors
      BY <3>1, ObserveTypes
    <3>3. Apply(mirror[c], f) \in States
      BY <3>1, ApplyTypes, ZenonT(30)
    <3>4. position' = [position EXCEPT ![c] = @ + 1]
      BY <1>4, <2>2, ZenonT(30) DEF Receive
    <3>5. phase' = phase \/ phase' = [phase EXCEPT ![c] = "rejected"]
      BY <1>4, <2>2, ZenonT(30) DEF Receive
    <3>6. \/ UNCHANGED <<cursor, mirror>>
          \/ /\ cursor' = [cursor EXCEPT ![c] = Observe(f)]
             /\ mirror' = [mirror EXCEPT ![c] = Apply(mirror[c], f)]
      BY <1>4, <2>2, ZenonT(30) DEF Receive
    <3> HIDE DEF f
    <3>7. UNCHANGED <<publisherVars, committed, baseline>>
      BY <1>4 DEF Receive
    <3>8. cursor \in [Consumers -> Cursors] /\ mirror \in [Consumers -> States]
      BY DEF Cursors
    <3> DEFINE o == Observe(f)
               a == Apply(mirror[c], f)
    <3> HIDE DEF o, a
    <3>9. cursor' \in [Consumers -> Cursors] /\ mirror' \in [Consumers -> States]
      <4>1. o \in Cursors /\ a \in States
        BY <3>2, <3>3 DEF o, a
      <4>2. \/ UNCHANGED <<cursor, mirror>>
            \/ cursor' = [cursor EXCEPT ![c] = o] /\ mirror' = [mirror EXCEPT ![c] = a]
        BY <3>6, ZenonT(30) DEF o, a
      <4>3. cursor' \in [Consumers -> Cursors]
        BY <3>8, <4>1, <4>2, Zenon
      <4>4. mirror' \in [Consumers -> States]
        BY <3>8, <4>1, <4>2, Zenon
      <4> QED BY <4>3, <4>4
    <3>10. phase' \in [Consumers -> {"off", "subscribed", "based", "live", "rejected"}]
      BY <3>5, Zenon
    <3>11. position' \in [Consumers -> Nat \ {0}]
      BY <3>4
    <3> QED BY <3>7, <3>9, <3>10, <3>11, Zenon DEF Cursors
  <2> QED BY <2>1, <2>2, Zenon
<1>5. CASE Disconnect(c)
  BY <1>5 DEF Disconnect
<1> QED BY <1>1, <1>2, <1>3, <1>4, <1>5, Zenon DEF Consumer

\* ... and so the whole of what is said of the stream stays true.
LEMMA ConsumerStepPreserves ==
  ASSUME StreamInv, NEW c \in Consumers, Consumer(c) PROVE StreamInv'
<1>1. TypeOK'
  BY ConsumerStepTypes DEF StreamInv
<1>2. /\ UNCHANGED <<sequence, published_sequence, published, sent, frame, step, mode>>
      /\ Top' = Top /\ Stored' = Stored /\ Committed' = Committed
      /\ \A i : At(i)' = At(i)
  BY ConsumerStepStays, ZenonT(30) DEF StreamInv, publisherVars
<1>3. Increasing' /\ Chained'
  BY <1>2, FramesAt, OrderStays DEF StreamInv
<1>4. At(Top)' = At(Top) /\ At(Stored)' = At(Stored) /\ At(Committed)' = At(Committed)
  BY <1>2 DEF At, Top, Stored, Committed
<1>5. ModeAgrees'
  BY <1>2, <1>4, ZenonT(30) DEF StreamInv, ModeAgrees
<1>6. SharedAgrees'
  BY <1>2, <1>4 DEF StreamInv, SharedAgrees
<1> QED BY <1>1, <1>3, <1>5, <1>6 DEF StreamInv

\* What a frame of the stream leaves behind is a gap's state exactly if it is a gap.
LEMMA GapsRecover ==
  ASSUME StreamInv, NEW k \in 0 .. Top
  PROVE  At(k).next.recovering <=> At(k).kind = "Gap"
<1>1. CASE k = 0
  BY <1>1 DEF At, Origin, InitialState
<1>2. CASE k # 0
  <2>1. k \in 1 .. Top
    BY <1>2
  <2> QED BY <2>1, Zenon DEF StreamInv, Chained, Follows
<1> QED BY <1>1, <1>2

\* A handshake starts at a frame of the stream that the receiver is not past, and the
\* state it loads is the one that frame left behind.
LEMMA HandshakeBaseline ==
  ASSUME StreamInv, NEW c \in Consumers, Based(c)
  PROVE  \E k \in 0 .. Top :
           /\ position[c] - 1 <= k
           /\ At(k).sequence = Baseline(committed[c])
           /\ At(k).next = published
<1> DEFINE s == Stored
           e == published.effective_sequence
<1>1. s \in Nat /\ Top \in Nat /\ s <= Top
  BY Places DEF StreamInv
<1>2. PICK i \in 0 .. s : position[c] - 1 <= i /\ At(i).sequence = committed[c]
  BY SMTT(30) DEF Based
<1>3. PICK j \in 0 .. s : At(j).sequence = e
  BY DEF StreamInv, SharedAgrees
<1>4. \A k \in 0 .. s : At(k).sequence >= e => At(k).next = published
  BY DEF StreamInv, SharedAgrees
<1>5. i \in 0 .. Top /\ j \in 0 .. Top
  BY <1>1
<1>6. At(i).sequence \in Nat /\ At(j).sequence \in Nat /\ position[c] \in Nat
  BY <1>5, FramesAt, Zenon DEF StreamInv, Frames, TypeOK
<1>7. j < i => At(j).sequence < At(i).sequence
  BY <1>5 DEF StreamInv, Increasing
<1> HIDE DEF s, e
<1>8. CASE committed[c] > e
  <2>1. Baseline(committed[c]) = committed[c]
    BY <1>8 DEF Baseline, e
  <2>2. At(i).next = published
    BY <1>2, <1>3, <1>4, <1>6, <1>8
  <2> QED BY <1>2, <1>5, <2>1, <2>2
<1>9. CASE ~(committed[c] > e)
  <2>1. Baseline(committed[c]) = e
    BY <1>9 DEF Baseline, e
  <2>2. At(j).next = published
    BY <1>3, <1>4, <1>6
  <2>3. ~(j < i)
    BY <1>2, <1>3, <1>6, <1>7, <1>9
  <2>4. position[c] - 1 <= j
    BY <1>1, <1>2, <1>6, <2>3, SMTT(30)
  <2> QED BY <1>3, <1>5, <2>1, <2>2, <2>4
<1> QED BY <1>8, <1>9

\* The next frame a live client is given, unless it is skipped, is the one after the
\* frame it knows.
LEMMA NextFrame ==
  ASSUME StreamInv, NEW c \in Consumers, NEW k \in 0 .. Top, Live(c, k),
         position[c] <= Len(sent)
  PROVE  LET p == position[c] IN
         /\ p \in 1 .. Top /\ sent[p] = At(p)
         /\ At(p).sequence <= baseline[c] => p <= k
         /\ At(p).sequence > baseline[c] =>
              k = p - 1 /\ Follows(At(k), At(p)) /\ At(k).sequence < At(p).sequence
<1> DEFINE p == position[c]
<1>1. /\ p \in Nat \ {0} /\ baseline[c] \in Nat /\ cursor[c].last_sequence \in Nat
      /\ Top \in Nat /\ Len(sent) \in Nat /\ Len(sent) <= Top
  BY Places, SMTT(30) DEF StreamInv, TypeOK
<1>2. p \in 1 .. Top /\ p \in 0 .. Top /\ sent[p] = At(p)
  BY <1>1 DEF At
<1>3. At(p).sequence \in Nat /\ At(k).sequence \in Nat
  BY <1>2, FramesAt, SMTT(30) DEF StreamInv, Frames
<1>4. /\ p - 1 <= k /\ At(k).sequence = cursor[c].last_sequence
      /\ p - 1 < k => cursor[c].last_sequence = baseline[c]
      /\ baseline[c] <= cursor[c].last_sequence
  BY DEF Live, Knows
<1>5. (k < p => At(k).sequence < At(p).sequence) /\ (p < k => At(p).sequence < At(k).sequence)
  BY <1>2 DEF StreamInv, Increasing
<1>6. Follows(At(p - 1), At(p))
  BY <1>2, Zenon DEF StreamInv, Chained
<1>7. ASSUME At(p).sequence <= baseline[c] PROVE p <= k
  BY <1>1, <1>2, <1>3, <1>4, <1>5, <1>7
<1>8. ASSUME At(p).sequence > baseline[c] PROVE k = p - 1 /\ k < p
  <2>1. p # k
    BY <1>1, <1>3, <1>4, <1>8
  <2> HIDE DEF p
  <2> QED BY <1>1, <1>2, <1>3, <1>4, <1>5, <1>8, <2>1, SMTT(30)
<1>9. ASSUME At(p).sequence > baseline[c]
      PROVE  Follows(At(k), At(p)) /\ At(k).sequence < At(p).sequence
  BY <1>5, <1>6, <1>8, <1>9, ZenonT(30)
<1> QED BY <1>2, <1>7, <1>8, <1>9

\* StreamCursor::observe accepts the frame that follows the one it knows, and what the
\* client makes of its event is the state that frame left behind.
LEMMA FollowingAccepted ==
  ASSUME NEW p \in Frames, NEW f \in Frames, Follows(p, f), p.sequence < f.sequence,
         NEW cur \in Cursors, NEW m \in States, Knows(cur, m, p)
  PROVE  Accepts(cur, f) /\ Knows(Observe(f), Apply(m, f), f)
<1>1. Accepts(cur, f)
  BY DEF Follows, Knows, Accepts, Frames, PublishedStates, Cursors
<1>2. f.kind \in Kinds /\ f.next \in PublishedStates
  BY DEF Frames
<1>3. Apply(m, f).generation = f.next.generation
  BY <1>2 DEF Follows, Knows, Apply, Kinds, States
<1>4. ASSUME f.kind \notin {"Gap", "ConfigActivated"}
      PROVE  Apply(m, f) = StateOf(f.next)
  <2>1. CASE f.kind = "Candidate"
    BY <2>1 DEF Follows, Knows, Apply
  <2>2. CASE f.kind = "CanonicalHead"
    BY <2>2, Zenon DEF Follows, Knows, Apply, States, StateOf
  <2>3. CASE f.kind = "ForkchoiceApplied"
    BY <2>3 DEF Follows, Knows, Apply, States, StateOf
  <2>4. CASE f.kind = "Snapshot"
    BY <2>4, Zenon DEF Follows, Knows, Apply, States, StateOf
  <2> QED BY <1>2, <1>4, <2>1, <2>2, <2>3, <2>4 DEF Kinds
<1>5. /\ Observe(f).last_sequence = f.sequence /\ Observe(f).generation = f.next.generation
      /\ Observe(f).snapshot_required <=> f.kind \in {"Gap", "ConfigActivated"}
  BY Zenon DEF Observe
<1> QED BY <1>1, <1>3, <1>4, <1>5 DEF Knows

=============================================================================
