-------------------------- MODULE ProjectionProofs --------------------------
(***************************************************************************)
(* Proofs about Projection, for any storage, any sequence of dictionaries, *)
(* any blocks and any forks.                                               *)
(***************************************************************************)
EXTENDS Projection, WatchSetProofs

-----------------------------------------------------------------------------
(* A block's changes. *)

\* The accounts and slots of a state are those of the first one.
IsState(st) ==
  /\ DOMAIN st = DOMAIN Genesis
  /\ \A a \in DOMAIN Genesis : DOMAIN st[a] = DOMAIN Genesis[a]

IsBundle(bundle) ==
  /\ DOMAIN bundle \subseteq DOMAIN Genesis
  /\ \A a \in DOMAIN bundle : IsTouch(a, bundle[a])

\* Applied to the values before a block, its extracted changes give the values a read of its
\* own state returns: nothing watched is missed, nothing unwatched or unchanged gets in.
THEOREM ExtractionExact ==
  ASSUME NEW c, IsConfiguration(c),
         \A i \in DOMAIN c : c[i].address \in DOMAIN Genesis
                             /\ c[i].slot \in DOMAIN Genesis[c[i].address],
         NEW st, IsState(st), NEW bundle, IsBundle(bundle)
  PROVE  ApplyChanges(LoadAt(Compile(c), st), ExtractChanges(Compile(c), Recorded(bundle, st)))
           = LoadAt(Compile(c), PostState(st, Recorded(bundle, st)))
<1> DEFINE R == Recorded(bundle, st)
           changes == ExtractChanges(Compile(c), R)
           before == LoadAt(Compile(c), st)
           after == LoadAt(Compile(c), PostState(st, R))
           Touched(i) == c[i].address \in DOMAIN R /\ IsWritten(R[c[i].address], c[i].slot)
           Change(i) == [key_id |-> i, new_value |-> Written(R[c[i].address], c[i].slot)]
<1>1. /\ DOMAIN R = DOMAIN bundle
      /\ \A a \in DOMAIN bundle :
           /\ R[a].destroyed = bundle[a].destroyed
           /\ DOMAIN R[a].storage = DOMAIN bundle[a].storage
           /\ \A s \in DOMAIN bundle[a].storage :
                /\ R[a].storage[s].original = IF bundle[a].destroyed THEN 0 ELSE st[a][s]
                /\ R[a].storage[s].present = bundle[a].storage[s]
  BY DEF Recorded
<1>2. \A a \in DOMAIN R : R[a].destroyed \in BOOLEAN /\ DOMAIN R[a].storage \subseteq Nat
  BY <1>1, ProjectionAssumption, ZenonT(30) DEF IsBundle, IsTouch
<1>3. before = [i \in DOMAIN c |-> st[c[i].address][c[i].slot]]
  BY DEF LoadAt, Compile
<1>4. after = [i \in DOMAIN c |-> PostState(st, R)[c[i].address][c[i].slot]]
  BY DEF LoadAt, Compile
<1> HIDE DEF R
<1>5. \A change : change \in changes <=> \E i \in DOMAIN c : Touched(i) /\ change = Change(i)
  BY <1>2, ChangesExact
<1> HIDE DEF changes, before, after
<1>6. ASSUME NEW i \in DOMAIN c
      PROVE  IF Touched(i)
               THEN PostState(st, R)[c[i].address][c[i].slot] = Change(i).new_value
               ELSE PostState(st, R)[c[i].address][c[i].slot] = st[c[i].address][c[i].slot]
  <2> DEFINE a == c[i].address
             s == c[i].slot
  <2>1. a \in DOMAIN st /\ s \in DOMAIN st[a]
    BY SMTT(30) DEF IsState
  <2>2. PostState(st, R)[a][s] =
          IF a \notin DOMAIN R THEN st[a][s]
          ELSE IF s \in DOMAIN R[a].storage THEN R[a].storage[s].present
          ELSE IF R[a].destroyed THEN 0 ELSE st[a][s]
    BY <2>1 DEF PostState
  <2> HIDE DEF a, s
  <2>3. CASE a \notin DOMAIN R
    BY <2>2, <2>3 DEF a, s
  <2>4. CASE a \in DOMAIN R
    <3>1. IsWritten(R[a], s) => PostState(st, R)[a][s] = Written(R[a], s)
      BY <1>2, <2>2, <2>4 DEF IsWritten, Written
    <3>2. ~IsWritten(R[a], s) => PostState(st, R)[a][s] = st[a][s]
      BY <1>1, <1>2, <2>2, <2>4 DEF IsWritten, IsChanged
    <3>3. QED
      BY <2>4, <3>1, <3>2 DEF a, s
  <2>5. QED
    BY <2>3, <2>4
<1>7. ASSUME NEW i \in DOMAIN c
      PROVE  ApplyChanges(before, changes)[i] = after[i]
  <2>1. ApplyChanges(before, changes)[i] =
          IF \E change \in changes : change.key_id = i
            THEN (CHOOSE change \in changes : change.key_id = i).new_value ELSE before[i]
    BY <1>3 DEF ApplyChanges
  <2>2. \A change \in changes : change.key_id = i => Touched(i) /\ change = Change(i)
    BY <1>5
  <2>3. Touched(i) => Change(i) \in changes /\ Change(i).key_id = i
    BY <1>5
  <2> HIDE DEF Touched, Change
  <2>4. CASE Touched(i)
    <3>1. (CHOOSE change \in changes : change.key_id = i) = Change(i)
      BY <2>2, <2>3, <2>4
    <3>2. ApplyChanges(before, changes)[i] = Change(i).new_value
      BY <2>1, <2>3, <2>4, <3>1, ZenonT(30)
    <3>3. QED
      BY <1>4, <1>6, <2>4, <3>2
  <2>5. CASE ~Touched(i)
    <3>1. ApplyChanges(before, changes)[i] = before[i]
      BY <2>1, <2>2, <2>5
    <3>2. QED
      BY <1>3, <1>4, <1>6, <2>5, <3>1, ZenonT(30)
  <2>6. QED
    BY <2>4, <2>5
<1>8. DOMAIN before = DOMAIN c /\ DOMAIN after = DOMAIN c
  BY <1>3, <1>4
<1>9. ApplyChanges(before, changes) = after
  BY <1>4, <1>7, <1>8, ZenonT(30) DEF ApplyChanges
<1>10. QED
  BY <1>9 DEF before, changes, after, R

-----------------------------------------------------------------------------
(* The inductive invariant. *)

IsSequence(s) == s \in Seq({s[i] : i \in DOMAIN s})

\* Changes that lead from the values of a block's parent to its own; st and pa are the states
\* and the parents of the blocks, g a generation.
IsDelta(st, pa, g, b, changes) ==
  ApplyChanges(LoadAt(WatchSets[g], st[pa[b]]), changes) = LoadAt(WatchSets[g], st[b])

\* A projection of b for dictionary g.
IsProjection(st, pa, g, b, projection) ==
  /\ projection.values = LoadAt(WatchSets[g], st[b])
  /\ projection.bitmap # NoBitmap =>
       b # 1 /\ projection.bitmap = Differing(LoadAt(WatchSets[g], st[pa[b]]), projection.values)

\* An observed event: a block's changes are a delta for the dictionary they were extracted with.
IsEvent(st, pa, g, e) ==
  /\ e = [kind |-> e.kind, generation |-> e.generation, block |-> e.block,
          changes |-> e.changes, covered |-> e.covered]
  /\ e.generation \in 1 .. g /\ e.block \in DOMAIN st /\ e.covered \in BOOLEAN
  /\ e.kind \in {"Executed", "ValidatedFallback", "Validated"} => e.block # 1
  /\ e.kind \in {"Executed", "ValidatedFallback"} =>
       IsDelta(st, pa, e.generation, e.block, e.changes)
  /\ e.kind = "ForkchoiceApplied" => e.changes = {}

ChainInv ==
  /\ IsSequence(storage) /\ IsSequence(parent) /\ Len(parent) = Len(storage) /\ 1 \in Blocks
  /\ \A b \in Blocks : IsState(storage[b]) /\ (b # 1 => parent[b] \in Blocks)
  /\ parent[1] = 0
  /\ valid \subseteq Blocks /\ head \in Blocks
  /\ unvalidated # None => unvalidated \in Blocks \ {1}
  /\ hot = generation /\ generation \in DOMAIN Dictionaries

EventsInv ==
  /\ in_flight # None => IsEvent(storage, parent, generation, in_flight)
  /\ IsSequence(queue)
  /\ \A i \in DOMAIN queue : IsEvent(storage, parent, generation, queue[i])

\* Every cached projection is its block's, the published one even if it were None.
IsCache(st, pa, g, cache, published) ==
  /\ DOMAIN cache \subseteq DOMAIN st /\ published \in DOMAIN cache
  /\ \A b \in DOMAIN cache :
       cache[b] # None \/ b = published => IsProjection(st, pa, g, b, cache[b])

IsDeferral(st, pa, g, waiting) ==
  /\ DOMAIN waiting \subseteq DOMAIN st \ {1}
  /\ \A b \in DOMAIN waiting : IsDelta(st, pa, g, b, waiting[b])

CandidatesInv ==
  /\ loaded # None => loaded \in Blocks /\ generation < Len(Dictionaries)
  /\ IsCache(storage, parent, generation, candidates, canonical)
  /\ IsDeferral(storage, parent, generation, deferred)
  /\ IndexExact

\* A forkchoice that will still be published.
IsPending(e) == e.kind = "ForkchoiceApplied" /\ ~e.covered
PendingInFlight == in_flight # None /\ IsPending(in_flight)
PendingQueued == {i \in DOMAIN queue : IsPending(queue[i])}

\* The last forkchoice observed names the applied head: the one in flight, or else the last in
\* the queue, or else the one the reload in progress or the publisher has reached.
HeadInv ==
  /\ PendingInFlight => in_flight.block = head
  /\ \A i \in PendingQueued :
       ~PendingInFlight /\ (\A j \in PendingQueued : j <= i) => queue[i].block = head
  /\ ~PendingInFlight /\ PendingQueued = {} =>
       IF loaded = None THEN canonical = head ELSE loaded = head

Inv == ChainInv /\ EventsInv /\ CandidatesInv /\ HeadInv

-----------------------------------------------------------------------------
(* Sequences. *)

LEMMA IsSequenceOf ==
  ASSUME NEW n \in Nat, NEW s, DOMAIN s = 1 .. n, s = [i \in DOMAIN s |-> s[i]]
  PROVE  IsSequence(s) /\ Len(s) = n
<1> DEFINE S == {s[i] : i \in DOMAIN s}
<1>1. s \in [1 .. n -> S]
  OBVIOUS
<1> HIDE DEF S
<1>2. s \in Seq(S)
  BY <1>1, SeqDef
<1>3. Len(s) \in Nat /\ 1 .. Len(s) = 1 .. n
  BY <1>2, LenProperties
<1>4. Len(s) = n
  BY <1>3
<1>5. QED
  BY <1>2, <1>4 DEF IsSequence, S

LEMMA SequenceDomain ==
  ASSUME NEW s, IsSequence(s)
  PROVE  Len(s) \in Nat /\ DOMAIN s = 1 .. Len(s) /\ s = [i \in DOMAIN s |-> s[i]]
<1> DEFINE S == {s[i] : i \in DOMAIN s}
<1>1. s \in Seq(S)
  BY DEF IsSequence
<1> HIDE DEF S
<1>2. s \in [1 .. Len(s) -> S] /\ Len(s) \in Nat
  BY <1>1, LenProperties
<1>3. QED
  BY <1>2

LEMMA AppendFacts ==
  ASSUME NEW s, IsSequence(s), NEW e
  PROVE  /\ IsSequence(Append(s, e)) /\ Len(Append(s, e)) = Len(s) + 1
         /\ DOMAIN Append(s, e) = 1 .. Len(s) + 1
         /\ \A i \in DOMAIN s : Append(s, e)[i] = s[i]
         /\ Append(s, e)[Len(s) + 1] = e
<1> DEFINE S == {s[i] : i \in DOMAIN s} \cup {e}
           t == Append(s, e)
<1>1. Len(s) \in Nat /\ DOMAIN s = 1 .. Len(s) /\ s = [i \in DOMAIN s |-> s[i]]
  BY SequenceDomain
<1>2. s \in [1 .. Len(s) -> S] /\ e \in S
  BY <1>1
<1> HIDE DEF S
<1>3. s \in Seq(S)
  BY <1>1, <1>2, SeqDef
<1>4. /\ t \in Seq(S) /\ Len(t) = Len(s) + 1 /\ t[Len(s) + 1] = e
      /\ \A i \in 1 .. Len(s) : t[i] = s[i]
  BY <1>2, <1>3, AppendProperties
<1>5. t \in [1 .. Len(s) + 1 -> S]
  BY <1>4, LenProperties, ZenonT(30)
<1> DEFINE n == Len(s) + 1
<1>6. IsSequence(t)
  <2> HIDE DEF t
  <2>1. n \in Nat /\ DOMAIN t = 1 .. n /\ t = [i \in DOMAIN t |-> t[i]]
    BY <1>1, <1>5
  <2> HIDE DEF n
  <2>2. QED
    BY <2>1, IsSequenceOf
<1>7. QED
  BY <1>1, <1>4, <1>5, <1>6

LEMMA TailFacts ==
  ASSUME NEW s, IsSequence(s), s # <<>>
  PROVE  /\ 1 \in DOMAIN s /\ Head(s) = s[1]
         /\ IsSequence(Tail(s)) /\ DOMAIN Tail(s) = 1 .. Len(s) - 1
         /\ \A i \in DOMAIN Tail(s) : i + 1 \in DOMAIN s /\ Tail(s)[i] = s[i + 1]
<1> DEFINE S == {s[i] : i \in DOMAIN s}
           t == Tail(s)
<1>1. Len(s) \in Nat /\ DOMAIN s = 1 .. Len(s)
  BY SequenceDomain
<1>2. s \in Seq(S)
  BY DEF IsSequence
<1> HIDE DEF S
<1>3. Len(s) # 0
  BY <1>2, EmptySeq
<1>4. Head(s) = s[1]
  BY <1>2, HeadTailProperties
<1>5. /\ t \in Seq(S) /\ Len(t) = Len(s) - 1
      /\ \A i \in 1 .. Len(t) : t[i] = s[i + 1]
  BY <1>2, HeadTailProperties
<1>6. t \in [1 .. Len(s) - 1 -> S]
  BY <1>5, LenProperties, ZenonT(30)
<1> DEFINE n == Len(s) - 1
<1>7. IsSequence(t)
  <2> HIDE DEF t
  <2>1. n \in Nat /\ DOMAIN t = 1 .. n /\ t = [i \in DOMAIN t |-> t[i]]
    BY <1>1, <1>3, <1>6
  <2> HIDE DEF n
  <2>2. QED
    BY <2>1, IsSequenceOf
<1>8. QED
  BY <1>1, <1>3, <1>4, <1>5, <1>6, <1>7

-----------------------------------------------------------------------------
(* Dictionaries and blocks. *)

LEMMA Compiled ==
  ASSUME NEW g \in DOMAIN Dictionaries
  PROVE  /\ WatchSets[g] = Compile(Dictionaries[g]) /\ IsConfiguration(Dictionaries[g])
         /\ \A i \in DOMAIN Dictionaries[g] :
              /\ Dictionaries[g][i].address \in DOMAIN Genesis
              /\ Dictionaries[g][i].slot \in DOMAIN Genesis[Dictionaries[g][i].address]
<1> DEFINE K == [address : DOMAIN Genesis, slot : Nat]
           c == Dictionaries[g]
<1>1. c \in Seq(K)
  BY ProjectionAssumption, ElementOfSeq, LenProperties
<1>2. c \in [1 .. Len(c) -> K]
  BY <1>1, LenProperties, ZenonT(30)
<1>3. \A i \in DOMAIN c : c[i].address \in DOMAIN Genesis
  BY <1>2
<1>4. /\ \A i \in DOMAIN c : c[i].slot \in DOMAIN Genesis[c[i].address]
      /\ \A i, j \in DOMAIN c : c[i] = c[j] => i = j
  BY ProjectionAssumption DEF IsInjective
<1>5. c \in Seq([address : AddressesOf(c), slot : Nat])
  <2> HIDE DEF c
  <2> DEFINE L == [address : AddressesOf(c), slot : Nat]
  <2>1. \A i \in DOMAIN c : c[i] \in L
    BY <1>2 DEF AddressesOf
  <2> HIDE DEF L
  <2>2. c \in [1 .. Len(c) -> L] /\ Len(c) \in Nat
    BY <1>1, <1>2, <2>1, LenProperties
  <2>3. c \in Seq(L)
    BY <2>2, SeqDef
  <2>4. QED
    BY <2>3 DEF L
<1>6. QED
  BY <1>3, <1>4, <1>5 DEF WatchSets, IsConfiguration

LEMMA NonBlock ==
  ASSUME ChainInv
  PROVE  Len(storage) \in Nat /\ Blocks = 1 .. Len(storage) /\ None \notin Blocks
BY SequenceDomain, ProjectionAssumption DEF ChainInv, Blocks

LEMMA DictionaryNumbers ==
  /\ Len(Dictionaries) \in Nat /\ 1 \in DOMAIN Dictionaries
  /\ DOMAIN Dictionaries = 1 .. Len(Dictionaries)
<1>1. Dictionaries \in Seq(Seq([address : DOMAIN Genesis, slot : Nat])) /\ Len(Dictionaries) > 0
  BY ProjectionAssumption, ZenonT(30)
<1>2. Len(Dictionaries) \in Nat /\ DOMAIN Dictionaries = 1 .. Len(Dictionaries)
  BY <1>1, LenProperties, ZenonT(30)
<1>3. QED
  BY <1>1, <1>2

LEMMA Generations ==
  ASSUME ChainInv
  PROVE  hot = generation /\ generation \in Nat \ {0} /\ generation \in DOMAIN Dictionaries
<1>1. hot = generation /\ generation \in DOMAIN Dictionaries
  BY ZenonT(30) DEF ChainInv
<1>2. QED
  BY <1>1, DictionaryNumbers

LEMMA Numbers ==
  ASSUME ChainInv
  PROVE  hot \in Nat /\ \A b \in Blocks : b \in Nat
BY NonBlock, Generations

LEMMA NothingDeferred == DOMAIN <<>> = {}
OBVIOUS

\* A block that is added leaves the others alone.
LEMMA Extended ==
  ASSUME ChainInv, NEW st, NEW p,
         storage' = Append(storage, st), parent' = Append(parent, p)
  PROVE  /\ IsSequence(storage)' /\ IsSequence(parent)' /\ Len(parent)' = Len(storage)'
         /\ Blocks' = Blocks \cup {Len(storage) + 1}
         /\ Len(storage) + 1 \notin Blocks /\ Len(storage) + 1 # 1
         /\ \A b \in Blocks : storage'[b] = storage[b] /\ parent'[b] = parent[b]
         /\ storage'[Len(storage) + 1] = st /\ parent'[Len(storage) + 1] = p
<1>1. IsSequence(storage) /\ IsSequence(parent) /\ Len(parent) = Len(storage) /\ 1 \in Blocks
  BY DEF ChainInv
<1>2. Len(storage) \in Nat /\ Blocks = 1 .. Len(storage) /\ DOMAIN parent = 1 .. Len(storage)
  BY <1>1, SequenceDomain DEF Blocks
<1>3. /\ IsSequence(storage)' /\ Len(storage)' = Len(storage) + 1
      /\ DOMAIN storage' = 1 .. Len(storage) + 1
      /\ \A b \in DOMAIN storage : storage'[b] = storage[b]
      /\ storage'[Len(storage) + 1] = st
  <2> DEFINE t == Append(storage, st)
  <2>1. /\ IsSequence(t) /\ Len(t) = Len(storage) + 1 /\ DOMAIN t = 1 .. Len(storage) + 1
        /\ \A b \in DOMAIN storage : t[b] = storage[b]
        /\ t[Len(storage) + 1] = st
    BY <1>1, AppendFacts
  <2>2. storage' = t
    OBVIOUS
  <2> HIDE DEF t
  <2>3. QED
    BY <2>1, <2>2 DEF IsSequence
<1>4. /\ IsSequence(parent)' /\ Len(parent)' = Len(parent) + 1
      /\ \A b \in DOMAIN parent : parent'[b] = parent[b]
      /\ parent'[Len(parent) + 1] = p
  <2> DEFINE t == Append(parent, p)
  <2>1. /\ IsSequence(t) /\ Len(t) = Len(parent) + 1
        /\ \A b \in DOMAIN parent : t[b] = parent[b]
        /\ t[Len(parent) + 1] = p
    BY <1>1, AppendFacts
  <2>2. parent' = t
    OBVIOUS
  <2> HIDE DEF t
  <2>3. QED
    BY <2>1, <2>2 DEF IsSequence
<1>5. Blocks' = Blocks \cup {Len(storage) + 1}
  BY <1>2, <1>3 DEF Blocks
<1>6. Len(storage) + 1 \notin Blocks /\ Len(storage) + 1 # 1
  BY <1>1, <1>2
<1>7. \A b \in Blocks : storage'[b] = storage[b] /\ parent'[b] = parent[b]
  BY <1>2, <1>3, <1>4 DEF Blocks
<1>8. QED
  BY <1>1, <1>3, <1>4, <1>5, <1>6, <1>7, ZenonT(30)

LEMMA Posterior ==
  ASSUME NEW st, IsState(st), NEW R
  PROVE  IsState(PostState(st, R))
BY DEF IsState, PostState

LEMMA ChainStep ==
  ASSUME Inv, [Next]_vars
  PROVE  ChainInv'
<1> USE DEF Inv
<1>1. ASSUME NEW kind, Execute(kind)
      PROVE  ChainInv'
  <2>1. PICK p \in valid, bundle \in Bundles[Len(storage)] :
          LET b == Len(storage) + 1
              recorded == Recorded(bundle, storage[p])
          IN  /\ storage' = Append(storage, PostState(storage[p], recorded))
              /\ parent' = Append(parent, p)
              /\ unvalidated' = IF kind = "Executed" THEN b ELSE None
              /\ valid' = IF kind = "Executed" THEN valid ELSE valid \cup {b}
    BY <1>1 DEF Execute
  <2> DEFINE b == Len(storage) + 1
             st == PostState(storage[p], Recorded(bundle, storage[p]))
  <2>2. /\ IsSequence(storage)' /\ IsSequence(parent)' /\ Len(parent)' = Len(storage)'
        /\ Blocks' = Blocks \cup {b} /\ b # 1
        /\ \A x \in Blocks : storage'[x] = storage[x] /\ parent'[x] = parent[x]
        /\ storage'[b] = st /\ parent'[b] = p
    BY <2>1, Extended, ZenonT(30)
  <2>3. p \in Blocks /\ IsState(st)
    BY <2>1, Posterior DEF ChainInv
  <2>4. UNCHANGED <<head, hot, generation>>
    BY <1>1 DEF Execute, publisher_vars
  <2>5. valid' \subseteq Blocks' /\ (unvalidated' # None => unvalidated' \in Blocks' \ {1})
    BY <2>1, <2>2 DEF ChainInv
  <2> HIDE DEF b, st
  <2>6. 1 \in Blocks /\ parent[1] = 0 /\ head \in Blocks
        /\ \A x \in Blocks : IsState(storage[x]) /\ (x # 1 => parent[x] \in Blocks)
    BY ZenonT(30) DEF ChainInv
  <2>7. \A x \in Blocks' : IsState(storage'[x]) /\ (x # 1 => parent'[x] \in Blocks')
    BY <2>2, <2>3, <2>6, ZenonT(30)
  <2>8. 1 \in Blocks' /\ parent'[1] = 0 /\ head' \in Blocks'
    BY <2>2, <2>4, <2>6, ZenonT(30)
  <2>9. hot' = generation' /\ generation' \in DOMAIN Dictionaries
    BY <2>4, ZenonT(30) DEF ChainInv
  <2>10. QED
    BY <2>2, <2>5, <2>7, <2>8, <2>9, ZenonT(30) DEF ChainInv, IsState
<1>2. CASE Validate
  BY <1>2 DEF Validate, ChainInv, publisher_vars, Blocks, IsSequence, IsState
<1>3. CASE Enqueue
  BY <1>3 DEF Enqueue, ChainInv, chain_vars, publisher_vars, Blocks, IsSequence, IsState
<1>4. ASSUME NEW b \in Blocks, ApplyForkchoice(b)
      PROVE  ChainInv'
  BY <1>4 DEF ApplyForkchoice, ChainInv, publisher_vars, Blocks, IsSequence, IsState
<1>5. ASSUME NEW b \in Blocks, Evict(b)
      PROVE  ChainInv'
  BY <1>5 DEF Evict, ChainInv, chain_vars, Blocks, IsSequence, IsState
<1>6. ASSUME NEW b \in Blocks, Retire(b)
      PROVE  ChainInv'
  BY <1>6 DEF Retire, ChainInv, chain_vars, Blocks, IsSequence, IsState
<1>7. ASSUME NEW kind, HandleBlock(kind)
      PROVE  ChainInv'
  BY <1>7 DEF HandleBlock, TakeEvent, ChainInv, chain_vars, Blocks, IsSequence, IsState
<1>8. CASE HandleValidated
  BY <1>8, SMTT(30) DEF HandleValidated, TakeEvent, ChainInv, chain_vars, Blocks, IsSequence, IsState
<1>9. CASE HandleForkchoice
  BY <1>9 DEF HandleForkchoice, TakeEvent, ChainInv, chain_vars, Blocks, IsSequence, IsState
<1>10. CASE LoadLatest
  BY <1>10, SMTT(30) DEF LoadLatest, ChainInv, chain_vars, Blocks, IsSequence, IsState
<1>11. CASE Activate
  <2>1. generation + 1 \in DOMAIN Dictionaries
    <3>1. loaded # None
      BY <1>11, ZenonT(30) DEF Activate
    <3>2. QED
      BY <3>1, DictionaryNumbers, Generations, SMTT(30) DEF CandidatesInv
  <2>2. QED
    BY <1>11, <2>1, SMTT(30) DEF Activate, ChainInv, chain_vars, Blocks, IsSequence, IsState
<1>12. CASE UNCHANGED vars
  BY <1>12 DEF vars, ChainInv, Blocks, IsSequence, IsState
<1>13. QED
  BY <1>1, <1>2, <1>3, <1>4, <1>5, <1>6, <1>7, <1>8, <1>9, <1>10, <1>11, <1>12, SMTT(30) DEF Next

-----------------------------------------------------------------------------
(* Events. *)

\* What is known of a block stays true.
Extends(st, pa, next_st, next_pa) ==
  /\ DOMAIN st \subseteq DOMAIN next_st
  /\ \A b \in DOMAIN st : next_st[b] = st[b] /\ next_pa[b] = pa[b] /\ (b # 1 => pa[b] \in DOMAIN st)

LEMMA ChainExtends ==
  ASSUME Inv, [Next]_vars
  PROVE  Extends(storage, parent, storage', parent')
<1>1. ASSUME UNCHANGED <<storage, parent>>
      PROVE  Extends(storage, parent, storage', parent')
  BY <1>1 DEF Extends, Inv, ChainInv, Blocks
<1>2. ASSUME NEW kind, Execute(kind)
      PROVE  Extends(storage, parent, storage', parent')
  <2>1. PICK p, st : storage' = Append(storage, st) /\ parent' = Append(parent, p)
    BY <1>2 DEF Execute
  <2>2. /\ Blocks' = Blocks \cup {Len(storage) + 1}
        /\ \A b \in Blocks : storage'[b] = storage[b] /\ parent'[b] = parent[b]
    BY <2>1, Extended, ZenonT(30) DEF Inv
  <2>3. QED
    BY <2>2 DEF Extends, Inv, ChainInv, Blocks
<1>3. ASSUME ~(\E kind : Execute(kind))
      PROVE  UNCHANGED <<storage, parent>>
  BY <1>3, ZenonT(30) DEF Next, Validate, Enqueue, ApplyForkchoice, Evict, Retire, HandleBlock,
              HandleValidated, HandleForkchoice, TakeEvent, LoadLatest, Activate, vars, chain_vars
<1>4. QED
  BY <1>1, <1>2, <1>3

LEMMA GenerationGrows ==
  ASSUME Inv, [Next]_vars
  PROVE  generation \in Nat /\ generation' \in {generation, generation + 1}
<1>1. generation \in Nat
  <2>1. Dictionaries \in Seq(Seq([address : DOMAIN Genesis, slot : Nat]))
    BY ProjectionAssumption
  <2>2. DOMAIN Dictionaries = 1 .. Len(Dictionaries) /\ Len(Dictionaries) \in Nat
    BY <2>1, LenProperties
  <2>3. generation \in DOMAIN Dictionaries
    BY DEF Inv, ChainInv
  <2>4. QED
    BY <2>2, <2>3
<1>2. generation' \in {generation, generation + 1}
  BY ZenonT(30) DEF Next, Execute, Validate, Enqueue, ApplyForkchoice, Evict, Retire, HandleBlock,
         HandleValidated, HandleForkchoice, TakeEvent, LoadLatest, Activate, vars, publisher_vars
<1>3. QED
  BY <1>1, <1>2

LEMMA DeltaKept ==
  ASSUME NEW st, NEW pa, NEW next_st, NEW next_pa, Extends(st, pa, next_st, next_pa),
         NEW g, NEW b \in DOMAIN st \ {1}, NEW changes, IsDelta(st, pa, g, b, changes)
  PROVE  IsDelta(next_st, next_pa, g, b, changes)
BY DEF Extends, IsDelta

LEMMA EventKept ==
  ASSUME NEW st, NEW pa, NEW next_st, NEW next_pa, Extends(st, pa, next_st, next_pa),
         NEW g \in Nat, NEW h \in {g, g + 1}, NEW e, IsEvent(st, pa, g, e)
  PROVE  IsEvent(next_st, next_pa, h, e)
<1>1. e.generation \in 1 .. h
  BY DEF IsEvent
<1>2. e.block \in DOMAIN next_st
  BY DEF IsEvent, Extends
<1>3. e.kind \in {"Executed", "ValidatedFallback"} =>
        IsDelta(next_st, next_pa, e.generation, e.block, e.changes)
  BY DeltaKept DEF IsEvent
<1>4. QED
  BY <1>1, <1>2, <1>3, SMTT(30) DEF IsEvent

LEMMA EventCovered ==
  ASSUME NEW st, NEW pa, NEW g, NEW e, IsEvent(st, pa, g, e)
  PROVE  IsEvent(st, pa, g, Covered(e)) /\ Covered(e).covered
<1> DEFINE c == Covered(e)
<1>1. c = [kind |-> e.kind, generation |-> e.generation, block |-> e.block,
           changes |-> e.changes, covered |-> TRUE]
  <2>1. e \in [kind : {e.kind}, generation : {e.generation}, block : {e.block},
               changes : {e.changes}, covered : BOOLEAN]
    BY DEF IsEvent
  <2>2. \A x : [e EXCEPT !.covered = x] =
                [kind |-> e.kind, generation |-> e.generation, block |-> e.block,
                 changes |-> e.changes, covered |-> x]
    BY <2>1
  <2>3. QED
    BY <2>2, Zenon DEF Covered
<1> HIDE DEF c
<1>2. /\ c.kind = e.kind /\ c.generation = e.generation /\ c.block = e.block
      /\ c.changes = e.changes /\ c.covered = TRUE
  BY <1>1
<1>3. c = [kind |-> c.kind, generation |-> c.generation, block |-> c.block,
           changes |-> c.changes, covered |-> c.covered]
  BY <1>1
<1>4. IsEvent(st, pa, g, c)
  BY <1>2, <1>3, ZenonT(30) DEF IsEvent
<1>5. QED
  BY <1>2, <1>4 DEF c

\* The changes extracted on the engine thread are the block's delta.
LEMMA ExecuteDelta ==
  ASSUME Inv, NEW kind \in {"Executed", "ValidatedFallback"}, Execute(kind)
  PROVE  in_flight' # None => IsEvent(storage', parent', generation', in_flight')
<1>1. PICK p \in valid, bundle \in Bundles[Len(storage)] :
        LET recorded == Recorded(bundle, storage[p])
        IN  /\ storage' = Append(storage, PostState(storage[p], recorded))
            /\ parent' = Append(parent, p)
            /\ in_flight' = Event(kind, Len(storage) + 1, ExtractChanges(WatchSets[hot], recorded))
  BY ZenonT(30) DEF Execute
<1> DEFINE b == Len(storage) + 1
           c == Dictionaries[generation]
           recorded == Recorded(bundle, storage[p])
           changes == ExtractChanges(WatchSets[hot], recorded)
<1>2. /\ Blocks' = Blocks \cup {b} /\ b # 1
      /\ \A x \in Blocks : storage'[x] = storage[x]
      /\ storage'[b] = PostState(storage[p], recorded) /\ parent'[b] = p
  BY <1>1, Extended, ZenonT(30) DEF Inv
<1>3. p \in Blocks /\ IsState(storage[p])
  BY DEF Inv, ChainInv
<1>4. IsBundle(bundle)
  <2>1. Len(storage) \in 1 .. Len(Bundles)
    BY NonBlock, SMTT(30) DEF Inv, ChainInv, Execute, Blocks
  <2>2. QED
    BY <2>1, ProjectionAssumption, ZenonT(30) DEF IsBundle
<1>5. /\ hot = generation /\ generation \in DOMAIN Dictionaries /\ generation' = generation
      /\ generation \in 1 .. generation
  BY Generations, SMTT(30) DEF Inv, Execute, publisher_vars
<1>6. ApplyChanges(LoadAt(WatchSets[generation], storage[p]), changes)
        = LoadAt(WatchSets[generation], PostState(storage[p], recorded))
  BY <1>3, <1>4, <1>5, Compiled, ExtractionExact, SMTT(30)
<1>7. in_flight' = [kind |-> kind, generation |-> generation, block |-> b, changes |-> changes,
                    covered |-> FALSE]
  BY <1>1, <1>5, ZenonT(30) DEF Event
<1> HIDE DEF b, changes, recorded
<1>8. IsDelta(storage', parent', generation, b, changes)
  BY <1>2, <1>3, <1>6, ZenonT(30) DEF IsDelta
<1>9. QED
  BY <1>2, <1>5, <1>7, <1>8, ZenonT(30) DEF IsEvent, Blocks

LEMMA EventsStep ==
  ASSUME Inv, [Next]_vars
  PROVE  EventsInv'
<1> DEFINE OK(e) == IsEvent(storage, parent, generation, e)
           Kept(e) == IsEvent(storage', parent', generation', e)
<1>1. \A e : OK(e) => Kept(e)
  BY ChainExtends, GenerationGrows, EventKept
<1>2. /\ in_flight # None => Kept(in_flight)
      /\ IsSequence(queue) /\ \A i \in DOMAIN queue : Kept(queue[i])
  BY <1>1 DEF Inv, EventsInv
<1>3. ASSUME queue' = queue, in_flight' # None => Kept(in_flight')
      PROVE  EventsInv'
  BY <1>2, <1>3, SMTT(30) DEF EventsInv
<1>4. ASSUME NEW kind \in {"Executed", "ValidatedFallback"}, Execute(kind)
      PROVE  EventsInv'
  BY <1>3, <1>4, ExecuteDelta, ZenonT(30) DEF Execute
<1>5. generation \in 1 .. generation /\ hot = generation
  BY Generations DEF Inv
<1>6. CASE Validate
  <2>1. /\ in_flight' = [kind |-> "Validated", generation |-> generation, block |-> unvalidated,
                         changes |-> {}, covered |-> FALSE]
        /\ unvalidated \in DOMAIN storage' \ {1} /\ generation' = generation /\ queue' = queue
    BY <1>5, <1>6, SMTT(30) DEF Validate, Event, Inv, ChainInv, publisher_vars, Blocks
  <2>2. Kept(in_flight')
    BY <1>5, <2>1, SMTT(30) DEF IsEvent
  <2>3. QED
    BY <1>3, <2>1, <2>2, SMTT(30)
<1>7. ASSUME NEW b \in Blocks, ApplyForkchoice(b)
      PROVE  EventsInv'
  <2>1. /\ in_flight' = [kind |-> "ForkchoiceApplied", generation |-> generation, block |-> b,
                         changes |-> {}, covered |-> FALSE]
        /\ b \in DOMAIN storage' /\ generation' = generation /\ queue' = queue
    BY <1>5, <1>7 DEF ApplyForkchoice, Event, publisher_vars, Blocks
  <2>2. Kept(in_flight')
    BY <1>5, <2>1, SMTT(30) DEF IsEvent
  <2>3. QED
    BY <1>3, <2>1, <2>2, SMTT(30)
<1>8. CASE Enqueue
  <2> DEFINE t == Append(queue, in_flight)
  <2>1. queue' = t /\ in_flight # None /\ in_flight' = None
    BY <1>8 DEF Enqueue
  <2>2. /\ IsSequence(t) /\ DOMAIN t = 1 .. Len(queue) + 1 /\ t[Len(queue) + 1] = in_flight
        /\ \A i \in DOMAIN queue : t[i] = queue[i]
    BY <1>2, AppendFacts
  <2>3. Len(queue) \in Nat /\ DOMAIN queue = 1 .. Len(queue)
    BY <1>2, SequenceDomain
  <2> HIDE DEF t, Kept
  <2>4. \A i \in DOMAIN t : Kept(t[i])
    BY <1>2, <2>1, <2>2, <2>3, SMTT(30)
  <2>5. QED
    BY <2>1, <2>2, <2>4, SMTT(30) DEF EventsInv, Kept
<1>9. ASSUME NEW kind, TakeEvent(kind)
      PROVE  EventsInv'
  <2> DEFINE t == Tail(queue)
  <2>1. queue' = t /\ queue # <<>> /\ in_flight' = in_flight
    BY <1>9 DEF TakeEvent
  <2>2. IsSequence(t) /\ \A i \in DOMAIN t : i + 1 \in DOMAIN queue /\ t[i] = queue[i + 1]
    BY <1>2, <2>1, TailFacts
  <2> HIDE DEF t, Kept
  <2>3. \A i \in DOMAIN t : Kept(t[i])
    BY <1>2, <2>2, SMTT(30)
  <2>4. QED
    BY <1>2, <2>1, <2>2, <2>3, SMTT(30) DEF EventsInv, Kept
<1>10. CASE LoadLatest
  <2> DEFINE t == [i \in DOMAIN queue |-> Covered(queue[i])]
  <2>1. queue' = t /\ in_flight' = IF in_flight = None THEN None ELSE Covered(in_flight)
    BY <1>10 DEF LoadLatest
  <2>2. \A e : Kept(e) => Kept(Covered(e))
    BY EventCovered
  <2>3. Len(queue) \in Nat /\ DOMAIN t = 1 .. Len(queue) /\ t = [i \in DOMAIN t |-> t[i]]
    BY <1>2, SequenceDomain
  <2> HIDE DEF Kept
  <2>4. \A i \in DOMAIN t : Kept(t[i])
    BY <1>2, <2>2
  <2> HIDE DEF t
  <2>5. IsSequence(t)
    BY <2>3, IsSequenceOf
  <2>6. in_flight' # None => Kept(in_flight')
    BY <1>2, <2>1, <2>2, SMTT(30)
  <2>7. QED
    BY <2>1, <2>4, <2>5, <2>6, SMTT(30) DEF EventsInv, Kept
<1>11. ASSUME UNCHANGED <<in_flight, queue>>
       PROVE  EventsInv'
  BY <1>2, <1>3, <1>11, SMTT(30)
<1>12. ASSUME NEW b \in Blocks, Evict(b) \/ Retire(b)
       PROVE  EventsInv'
  BY <1>11, <1>12, SMTT(30) DEF Evict, Retire
<1>13. CASE Activate \/ UNCHANGED vars
  BY <1>11, <1>13 DEF Activate, vars
<1>14. CASE HandleBlock("Executed") \/ HandleBlock("ValidatedFallback") \/ HandleValidated
            \/ HandleForkchoice
  BY <1>9, <1>14, ZenonT(30) DEF HandleBlock, HandleValidated, HandleForkchoice
<1>15. QED
  BY <1>4, <1>6, <1>7, <1>8, <1>10, <1>12, <1>13, <1>14, SMTT(30) DEF Next

-----------------------------------------------------------------------------
(* Candidates. *)

LEMMA CacheKept ==
  ASSUME NEW st, NEW pa, NEW next_st, NEW next_pa, Extends(st, pa, next_st, next_pa),
         NEW g, NEW cache, NEW published, IsCache(st, pa, g, cache, published)
  PROVE  IsCache(next_st, next_pa, g, cache, published)
<1>1. ASSUME NEW b \in DOMAIN st, NEW projection, IsProjection(st, pa, g, b, projection)
      PROVE  IsProjection(next_st, next_pa, g, b, projection)
  BY <1>1 DEF Extends, IsProjection
<1>2. QED
  BY <1>1, SMTT(30) DEF IsCache, Extends

LEMMA DeferralKept ==
  ASSUME NEW st, NEW pa, NEW next_st, NEW next_pa, Extends(st, pa, next_st, next_pa),
         NEW g, NEW waiting, IsDeferral(st, pa, g, waiting)
  PROVE  IsDeferral(next_st, next_pa, g, waiting)
BY DeltaKept DEF IsDeferral, Extends

LEMMA CachePut ==
  ASSUME NEW st, NEW pa, NEW g, NEW cache, NEW published,
         IsCache(st, pa, g, cache, published),
         NEW b \in DOMAIN st, NEW projection, IsProjection(st, pa, g, b, projection)
  PROVE  /\ IsCache(st, pa, g, Put(cache, b, projection), published)
         /\ IsCache(st, pa, g, Put(cache, b, projection), b)
<1> DEFINE next == Put(cache, b, projection)
<1>1. /\ DOMAIN next = DOMAIN cache \cup {b} /\ next[b] = projection
      /\ \A x \in DOMAIN cache \ {b} : next[x] = cache[x]
  BY DEF Put
<1> HIDE DEF next
<1>2. IsCache(st, pa, g, next, published) /\ IsCache(st, pa, g, next, b)
  BY <1>1 DEF IsCache
<1>3. QED
  BY <1>2, SMTT(30) DEF next

LEMMA DeferralPut ==
  ASSUME NEW st, NEW pa, NEW g, NEW waiting, IsDeferral(st, pa, g, waiting),
         NEW b \in DOMAIN st \ {1}, NEW changes, IsDelta(st, pa, g, b, changes)
  PROVE  IsDeferral(st, pa, g, Put(waiting, b, changes))
BY DEF IsDeferral, Put

LEMMA DeferralDrop ==
  ASSUME NEW st, NEW pa, NEW g, NEW waiting, IsDeferral(st, pa, g, waiting), NEW b
  PROVE  IsDeferral(st, pa, g, Drop(waiting, b))
BY SMTT(30) DEF IsDeferral, Drop

\* A delta on top of the parent's values is the block's projection.
LEMMA Projected ==
  ASSUME NEW st, NEW pa, NEW g, NEW b, b # 1, NEW changes, IsDelta(st, pa, g, b, changes)
  PROVE  IsProjection(st, pa, g, b, Project(LoadAt(WatchSets[g], st[pa[b]]), changes))
BY DEF IsDelta, IsProjection, Project

\* A consumer that takes over the values that differ has the later ones.
LEMMA Followed ==
  ASSUME NEW ws, NEW st, NEW next_st
  PROVE  LET before == LoadAt(ws, st)
             after == LoadAt(ws, next_st)
         IN  [i \in DOMAIN before |-> IF i \in Differing(before, after) THEN after[i] ELSE before[i]]
               = after
BY ZenonT(30) DEF LoadAt, Differing

\* project_candidate keeps what is cached and deferred exact: it ignores changes extracted for
\* an older dictionary, and those of the active one are a delta on its parent's values, cached
\* or read.
LEMMA ProjectCandidateExact ==
  ASSUME Inv, NEW e, e.block \in Blocks \ {1}, e.generation \in 1 .. generation,
         NEW changes, e.generation = generation => IsDelta(storage, parent, generation, e.block, changes),
         NEW executed, ProjectCandidate(e, changes, executed)
  PROVE  /\ IsCache(storage, parent, generation, candidates', canonical)
         /\ IsDeferral(storage, parent, generation, deferred')
<1> DEFINE b == e.block
           p == parent[b]
<1>1. /\ IsCache(storage, parent, generation, candidates, canonical)
      /\ IsDeferral(storage, parent, generation, deferred)
  BY DEF Inv, CandidatesInv
<1>2. CASE Ignore
  BY <1>1, <1>2, ZenonT(30) DEF Ignore
<1>3. generation \in Nat
  BY Generations DEF Inv
<1>4. ASSUME ~(e.generation < generation)
      PROVE  IsDelta(storage, parent, generation, b, changes)
  BY <1>3, <1>4, SMTT(30)
<1>5. ASSUME ~(e.generation < generation),
             Insert(b, LoadAt(WatchSets[generation], storage[p]), changes)
      PROVE  /\ IsCache(storage, parent, generation, candidates', canonical)
             /\ IsDeferral(storage, parent, generation, deferred')
  <2> DEFINE projection == Project(LoadAt(WatchSets[generation], storage[p]), changes)
  <2>1. IsProjection(storage, parent, generation, b, projection)
    BY <1>4, <1>5, Projected, ZenonT(30)
  <2>2. candidates' = Put(candidates, b, projection) /\ deferred' = Drop(deferred, b)
    BY <1>5, ZenonT(30) DEF Insert
  <2> HIDE DEF projection
  <2>3. QED
    BY <1>1, <2>1, <2>2, CachePut, DeferralDrop, SMTT(30) DEF Blocks
<1>6. ASSUME ~(e.generation < generation), HasProjection(p),
             Insert(b, candidates[p].values, changes)
      PROVE  /\ IsCache(storage, parent, generation, candidates', canonical)
             /\ IsDeferral(storage, parent, generation, deferred')
  <2>1. candidates[p].values = LoadAt(WatchSets[generation], storage[p])
    BY <1>1, <1>6 DEF HasProjection, IsCache, IsProjection
  <2>2. QED
    BY <1>5, <1>6, <2>1, ZenonT(30)
<1>7. ASSUME ~(e.generation < generation), UNCHANGED candidates,
             deferred' = IF b \in DOMAIN candidates THEN deferred ELSE Put(deferred, b, changes)
      PROVE  /\ IsCache(storage, parent, generation, candidates', canonical)
             /\ IsDeferral(storage, parent, generation, deferred')
  BY <1>1, <1>4, <1>7, DeferralPut, ZenonT(30) DEF Blocks
<1>8. Loaded(p).values = LoadAt(WatchSets[generation], storage[p])
  BY ZenonT(30) DEF Loaded, Active
<1>9. \/ Ignore
      \/ ~(e.generation < generation) /\ HasProjection(p) /\ Insert(b, candidates[p].values, changes)
      \/ /\ ~(e.generation < generation) /\ UNCHANGED candidates
         /\ deferred' = IF b \in DOMAIN candidates THEN deferred ELSE Put(deferred, b, changes)
      \/ ~(e.generation < generation) /\ Insert(b, Loaded(p).values, changes)
  BY ZenonT(30) DEF ProjectCandidate
<1>10. QED
  BY <1>2, <1>5, <1>6, <1>7, <1>8, <1>9, ZenonT(30)

LEMMA CandidatesStep ==
  ASSUME Inv, [Next]_vars
  PROVE  CandidatesInv'
<1>1. /\ IsCache(storage, parent, generation, candidates, canonical)
      /\ IsDeferral(storage, parent, generation, deferred)
      /\ index = LoadAt(WatchSets[generation], storage[canonical])
      /\ loaded # None => loaded \in DOMAIN storage /\ generation < Len(Dictionaries)
  BY ZenonT(30) DEF Inv, CandidatesInv, IndexExact, Active, Blocks
<1>2. canonical \in DOMAIN storage /\ head \in DOMAIN storage /\ None \notin DOMAIN storage
  BY <1>1, NonBlock DEF IsCache, Inv, ChainInv, Blocks
<1>3. Extends(storage, parent, storage', parent')
  BY ChainExtends
<1>4. ASSUME UNCHANGED <<generation, canonical, candidates, deferred, index>>,
             loaded' # None => loaded' \in DOMAIN storage /\ generation < Len(Dictionaries)
      PROVE  CandidatesInv'
  <2>1. /\ IsCache(storage', parent', generation, candidates, canonical)
        /\ IsDeferral(storage', parent', generation, deferred)
    BY <1>1, <1>3, CacheKept, DeferralKept, SMTT(30)
  <2>2. storage'[canonical] = storage[canonical] /\ DOMAIN storage \subseteq DOMAIN storage'
    BY <1>2, <1>3, ZenonT(30) DEF Extends
  <2>3. QED
    BY <1>1, <1>4, <2>1, <2>2, SMTT(30) DEF CandidatesInv, IndexExact, Active, Blocks
<1>5. ASSUME NEW kind, Execute(kind)
      PROVE  CandidatesInv'
  BY <1>1, <1>4, <1>5, ZenonT(30) DEF Execute, publisher_vars
<1>6. CASE Validate \/ Enqueue
  BY <1>1, <1>4, <1>6, SMTT(30) DEF Validate, Enqueue, publisher_vars
<1>7. ASSUME NEW b \in Blocks, ApplyForkchoice(b)
      PROVE  CandidatesInv'
  BY <1>1, <1>4, <1>7, SMTT(30) DEF ApplyForkchoice, publisher_vars
<1>8. CASE LoadLatest
  <2>1. generation < Len(Dictionaries) /\ loaded' = head
        /\ UNCHANGED <<generation, canonical, candidates, deferred, index>>
    BY <1>8 DEF LoadLatest
  <2>2. QED
    BY <1>2, <1>4, <2>1, SMTT(30)
<1>9. CASE UNCHANGED vars
  BY <1>1, <1>4, <1>9, SMTT(30) DEF vars
<1>10. ASSUME UNCHANGED <<storage, parent, generation, canonical, index, loaded>>,
              IsCache(storage, parent, generation, candidates', canonical),
              IsDeferral(storage, parent, generation, deferred')
       PROVE  CandidatesInv'
  BY <1>1, <1>10, SMTT(30) DEF CandidatesInv, IndexExact, Active, Blocks
<1>11. ASSUME NEW b \in Blocks, Evict(b)
       PROVE  CandidatesInv'
  <2>1. /\ candidates' = [candidates EXCEPT ![b] = None] /\ b # canonical
        /\ UNCHANGED <<storage, parent, generation, canonical, index, loaded, deferred>>
    BY <1>11, SMTT(30) DEF Evict, chain_vars
  <2>2. IsCache(storage, parent, generation, candidates', canonical)
    BY <1>1, <2>1, SMTT(30) DEF IsCache
  <2>3. QED
    BY <1>1, <1>10, <2>1, <2>2, SMTT(30)
<1>12. ASSUME NEW b \in Blocks, Retire(b)
       PROVE  CandidatesInv'
  <2>1. /\ candidates' = Drop(candidates, b) /\ deferred' = Drop(deferred, b) /\ b # canonical
        /\ UNCHANGED <<storage, parent, generation, canonical, index, loaded>>
    BY <1>12, ZenonT(30) DEF Retire, chain_vars
  <2>2. IsCache(storage, parent, generation, candidates', canonical)
    BY <1>1, <2>1, ZenonT(30) DEF IsCache, Drop
  <2>3. QED
    BY <1>1, <1>10, <2>1, <2>2, DeferralDrop, SMTT(30)
<1>13. ASSUME NEW kind, TakeEvent(kind)
       PROVE  /\ UNCHANGED <<storage, parent, generation, loaded>>
              /\ IsEvent(storage, parent, generation, Head(queue)) /\ Head(queue).kind = kind
  <2>1. IsSequence(queue) /\ queue # <<>>
    BY <1>13 DEF TakeEvent, Inv, EventsInv
  <2>2. 1 \in DOMAIN queue /\ Head(queue) = queue[1]
    BY <2>1, TailFacts, SMTT(30)
  <2>3. QED
    BY <1>13, <2>2, ZenonT(30) DEF TakeEvent, Inv, EventsInv, chain_vars
<1>14. ASSUME NEW kind \in {"Executed", "ValidatedFallback"}, HandleBlock(kind)
       PROVE  CandidatesInv'
  <2> DEFINE e == Head(queue)
  <2>1. /\ UNCHANGED <<storage, parent, generation, loaded, canonical, index>>
        /\ IsEvent(storage, parent, generation, e) /\ e.kind = kind
    BY <1>13, <1>14, SMTT(30) DEF HandleBlock
  <2>2. CASE Ignore
    BY <1>1, <1>10, <2>1, <2>2, SMTT(30) DEF Ignore
  <2>3. CASE ProjectCandidate(e, e.changes, kind = "Executed")
    <3>1. /\ e.block \in Blocks \ {1} /\ e.generation \in 1 .. generation
          /\ IsDelta(storage, parent, e.generation, e.block, e.changes)
      BY <2>1, ZenonT(30) DEF IsEvent, Blocks
    <3>2. /\ IsCache(storage, parent, generation, candidates', canonical)
          /\ IsDeferral(storage, parent, generation, deferred')
      BY <2>3, <3>1, ProjectCandidateExact, ZenonT(30)
    <3>3. QED
      BY <1>10, <2>1, <3>2, ZenonT(30)
  <2>4. QED
    BY <1>14, <2>2, <2>3, SMTT(30) DEF HandleBlock

<1>15. CASE HandleValidated
  <2> DEFINE e == Head(queue)
  <2>1. /\ UNCHANGED <<storage, parent, generation, loaded, canonical, index>>
        /\ IsEvent(storage, parent, generation, e) /\ e.kind = "Validated"
    BY <1>13, <1>15, ZenonT(30) DEF HandleValidated
  <2>2. CASE Ignore
    BY <1>1, <1>10, <2>1, <2>2, SMTT(30) DEF Ignore
  <2>3. CASE e.block \in DOMAIN deferred /\ ProjectCandidate(e, deferred[e.block], FALSE)
    <3>1. /\ e.block \in Blocks \ {1} /\ e.generation \in 1 .. generation
          /\ IsDelta(storage, parent, generation, e.block, deferred[e.block])
      BY <1>1, <2>1, <2>3, ZenonT(30) DEF IsEvent, IsDeferral, Blocks
    <3>2. /\ IsCache(storage, parent, generation, candidates', canonical)
          /\ IsDeferral(storage, parent, generation, deferred')
      BY <2>3, <3>1, ProjectCandidateExact, ZenonT(30)
    <3>3. QED
      BY <1>10, <2>1, <3>2, ZenonT(30)
  <2>4. QED
    BY <1>15, <2>2, <2>3, ZenonT(30) DEF HandleValidated
<1>16. CASE HandleForkchoice
  <2> DEFINE e == Head(queue)
             b == e.block
             next == IF e.generation = generation /\ HasProjection(b) THEN candidates[b]
                     ELSE Loaded(b)
             bitmap == CanonicalBitmap(candidates[canonical], next, parent[b] = canonical)
  <2>1. /\ UNCHANGED <<storage, parent, generation, loaded>>
        /\ b \in DOMAIN storage
    BY <1>13, <1>16, ZenonT(30) DEF HandleForkchoice, IsEvent
  <2>2. CASE UNCHANGED <<canonical, index, candidates, deferred>>
    BY <1>1, <1>10, <2>1, <2>2, ZenonT(30)
  <2>3. CASE /\ canonical' = b
             /\ candidates' = Put(candidates, b, next) /\ deferred' = Drop(deferred, b)
             /\ index' = [i \in DOMAIN index |-> IF i \in bitmap THEN next.values[i] ELSE index[i]]
    <3>1. IsProjection(storage, parent, generation, b, candidates[b]) \/ ~HasProjection(b)
      BY <1>1, ZenonT(30) DEF IsCache, HasProjection
    <3>2. IsProjection(storage, parent, generation, b, Loaded(b))
      BY SMTT(30) DEF IsProjection, Loaded, Active
    <3>3. IsProjection(storage, parent, generation, b, next)
      BY <3>1, <3>2, SMTT(30)
    <3> HIDE DEF next
    <3>4. candidates[canonical].values = index
      BY <1>1 DEF IsCache, IsProjection
    <3>5. next.values = LoadAt(WatchSets[generation], storage[b])
      BY <3>3, ZenonT(30) DEF IsProjection
    <3>6. bitmap = Differing(index, next.values)
      BY <1>1, <3>3, <3>4, ZenonT(30) DEF CanonicalBitmap, IsProjection
    <3> HIDE DEF b, bitmap
    <3>7. index' = next.values
      <4> DEFINE before == LoadAt(WatchSets[generation], storage[canonical])
                 after == LoadAt(WatchSets[generation], storage[b])
      <4>1. [i \in DOMAIN before |-> IF i \in Differing(before, after) THEN after[i] ELSE before[i]]
              = after
        BY Followed
      <4> HIDE DEF before, after
      <4>2. index = before /\ next.values = after
        BY <1>1, <3>5 DEF before, after
      <4>3. QED
        BY <2>3, <3>6, <4>1, <4>2, SMTT(30)
    <3>8. IsCache(storage, parent, generation, candidates', canonical')
      BY <1>1, <2>1, <2>3, <3>3, CachePut, ZenonT(30)
    <3>9. IsDeferral(storage, parent, generation, deferred')
      BY <1>1, <2>3, DeferralDrop, ZenonT(30)
    <3>10. QED
      BY <1>1, <2>1, <2>3, <3>5, <3>7, <3>8, <3>9, ZenonT(30)
         DEF CandidatesInv, IndexExact, Active, Blocks
  <2>4. QED
    BY <1>16, <2>2, <2>3, ZenonT(30) DEF HandleForkchoice
<1>17. CASE Activate
  <2> DEFINE g == generation + 1
             values == LoadAt(WatchSets[g], storage[loaded])
  <2>1. /\ loaded # None /\ loaded' = None /\ generation' = g /\ canonical' = loaded
        /\ candidates' = [b \in {loaded} |-> [values |-> values, bitmap |-> NoBitmap]]
        /\ deferred' = <<>> /\ index' = values /\ UNCHANGED <<storage, parent>>
    BY <1>17 DEF Activate, chain_vars
  <2>2. IsProjection(storage, parent, g, loaded, [values |-> values, bitmap |-> NoBitmap])
    BY DEF IsProjection
  <2>3. DOMAIN deferred' = {}
    BY <2>1, NothingDeferred, ZenonT(30)
  <2> HIDE DEF values, g
  <2>4. IsCache(storage, parent, g, candidates', loaded)
    BY <1>1, <2>1, <2>2, ZenonT(30) DEF IsCache
  <2>5. IsDeferral(storage, parent, g, deferred')
    BY <2>3 DEF IsDeferral
  <2>6. QED
    BY <2>1, <2>4, <2>5, ZenonT(30) DEF CandidatesInv, IndexExact, Active, Blocks, values
<1>18. QED
  BY <1>5, <1>6, <1>7, <1>8, <1>9, <1>11, <1>12, <1>14, <1>15, <1>16, <1>17, SMTT(30) DEF Next

-----------------------------------------------------------------------------
(* The published head. *)

LEMMA HeadStep ==
  ASSUME Inv, [Next]_vars
  PROVE  HeadInv'
<1>1. HeadInv /\ IsSequence(queue) /\ head \in Blocks /\ None \notin Blocks
  BY NonBlock DEF Inv, EventsInv, ChainInv
<1>2. Len(queue) \in Nat /\ DOMAIN queue = 1 .. Len(queue)
  BY <1>1, SequenceDomain, SMTT(30)
<1>3. ASSUME UNCHANGED <<queue, loaded, canonical, head>>, ~PendingInFlight, ~PendingInFlight'
      PROVE  HeadInv'
  <2>1. PendingQueued' = PendingQueued
    BY <1>3, SMTT(30) DEF PendingQueued, IsPending
  <2>2. QED
    BY <1>1, <1>3, <2>1, SMTT(30) DEF HeadInv
<1>4. ASSUME UNCHANGED <<in_flight, queue, loaded, canonical, head>>
      PROVE  HeadInv'
  <2>1. PendingQueued' = PendingQueued /\ PendingInFlight' = PendingInFlight
    BY <1>4 DEF PendingQueued, PendingInFlight, IsPending
  <2>2. QED
    BY <1>1, <1>4, <2>1, SMTT(30) DEF HeadInv
<1>5. ASSUME NEW kind \in {"Executed", "ValidatedFallback"}, Execute(kind)
      PROVE  HeadInv'
  <2>1. in_flight = None /\ in_flight'.kind = kind /\ UNCHANGED <<queue, loaded, canonical, head>>
    BY <1>5 DEF Execute, Event, publisher_vars
  <2>2. QED
    BY <1>3, <2>1, ZenonT(30) DEF PendingInFlight, IsPending
<1>6. CASE Validate
  <2>1. /\ in_flight = None /\ in_flight'.kind = "Validated"
        /\ UNCHANGED <<queue, loaded, canonical, head>>
    BY <1>6 DEF Validate, Event, publisher_vars
  <2>2. QED
    BY <1>3, <2>1, SMTT(30) DEF PendingInFlight, IsPending
<1>7. ASSUME NEW b \in Blocks, ApplyForkchoice(b)
      PROVE  HeadInv'
  <2>1. /\ in_flight' = [kind |-> "ForkchoiceApplied", generation |-> hot, block |-> b,
                         changes |-> {}, covered |-> FALSE]
        /\ head' = b
    BY <1>7, ZenonT(30) DEF ApplyForkchoice, Event
  <2>2. hot \in Nat /\ b \in Nat
    BY Numbers, Zenon DEF Inv
  <2>3. in_flight' \in [kind : {"ForkchoiceApplied"}, generation : Nat, block : Nat,
                        changes : {{}}, covered : BOOLEAN]
    BY <2>1, <2>2, SMTT(30)
  <2>4. in_flight' # None
    BY <2>3, ProjectionAssumption, SMTT(30)
  <2>5. PendingInFlight' /\ in_flight'.block = head'
    BY <2>1, <2>4 DEF PendingInFlight, IsPending
  <2>6. QED
    BY <2>5 DEF HeadInv
<1>8. CASE Enqueue
  <2> DEFINE n == Len(queue) + 1
  <2>1. /\ queue' = Append(queue, in_flight) /\ in_flight # None /\ in_flight' = None
        /\ UNCHANGED <<loaded, canonical, head>>
    BY <1>8 DEF Enqueue, chain_vars, publisher_vars
  <2>2. /\ DOMAIN Append(queue, in_flight) = 1 .. n /\ Append(queue, in_flight)[n] = in_flight
        /\ \A i \in DOMAIN queue : Append(queue, in_flight)[i] = queue[i]
    BY <1>1, AppendFacts
  <2>3. /\ DOMAIN queue' = 1 .. n /\ queue'[n] = in_flight
        /\ \A i \in DOMAIN queue : queue'[i] = queue[i]
    BY <2>1, <2>2, Zenon
  <2>4. n \in Nat /\ DOMAIN queue' = DOMAIN queue \cup {n} /\ n \notin DOMAIN queue
        /\ \A i \in DOMAIN queue : i <= n
    BY <1>2, <2>3, SMTT(30)
  <2> HIDE DEF n
  <2>5. PendingQueued' = IF PendingInFlight THEN PendingQueued \cup {n} ELSE PendingQueued
    BY <2>1, <2>3, <2>4, SMTT(30) DEF PendingQueued, PendingInFlight, IsPending
  <2>6. PendingQueued \subseteq DOMAIN queue /\ DOMAIN queue \subseteq Nat
    BY <1>2 DEF PendingQueued
  <2>7. ~PendingInFlight'
    BY <2>1 DEF PendingInFlight
  <2>8. CASE PendingInFlight
    <3>1. ASSUME NEW i \in PendingQueued', \A j \in PendingQueued' : j <= i
          PROVE  queue'[i] = in_flight
      BY <2>3, <2>4, <2>5, <2>6, <2>8, <3>1, SMTT(30)
    <3>2. QED
      BY <1>1, <2>1, <2>5, <2>7, <2>8, <3>1, ZenonT(30) DEF HeadInv
  <2>9. CASE ~PendingInFlight
    BY <1>1, <2>1, <2>3, <2>5, <2>6, <2>7, <2>9, SMTT(30) DEF HeadInv
  <2>10. QED
    BY <2>8, <2>9, SMTT(30)
<1>9. ASSUME NEW kind, TakeEvent(kind),
             canonical' = IF 1 \in PendingQueued THEN queue[1].block ELSE canonical
      PROVE  HeadInv'
  <2>1. /\ queue # <<>> /\ queue' = Tail(queue) /\ loaded = None
        /\ UNCHANGED <<in_flight, loaded, head>>
    BY <1>9 DEF TakeEvent, chain_vars
  <2>2. /\ 1 \in DOMAIN queue /\ DOMAIN Tail(queue) = 1 .. Len(queue) - 1
        /\ \A i \in DOMAIN Tail(queue) : i + 1 \in DOMAIN queue /\ Tail(queue)[i] = queue[i + 1]
    BY <1>1, <2>1, TailFacts
  <2>3. /\ DOMAIN queue' = 1 .. Len(queue) - 1
        /\ \A i \in DOMAIN queue' : queue'[i] = queue[i + 1]
    BY <2>1, <2>2, Zenon
  <2>4. \A i \in DOMAIN queue' : i \in PendingQueued' <=> i + 1 \in PendingQueued
    BY <1>2, <2>3, SMTT(30) DEF PendingQueued, IsPending
  <2>5. \A i \in PendingQueued \ {1} : i - 1 \in PendingQueued'
    BY <1>2, <2>3, <2>4, SMTT(30) DEF PendingQueued
  <2>6. PendingInFlight' = PendingInFlight
    BY <2>1, SMTT(30) DEF PendingInFlight, IsPending
  <2>7. ASSUME NEW i \in PendingQueued', ~PendingInFlight, \A j \in PendingQueued' : j <= i
        PROVE  queue'[i].block = head
    <3>1. i \in DOMAIN queue' /\ i + 1 \in PendingQueued /\ queue'[i] = queue[i + 1] /\ i \in Nat
      BY <1>2, <2>3, <2>4, SMTT(30) DEF PendingQueued
    <3>2. \A j \in PendingQueued : j <= i + 1
      <4> SUFFICES ASSUME NEW j \in PendingQueued, j # 1
                   PROVE  j <= i + 1
        BY <3>1, SMTT(30)
      <4>1. j - 1 <= i /\ j \in Nat
        BY <1>2, <2>5, <2>7, SMTT(30) DEF PendingQueued
      <4>2. QED
        BY <3>1, <4>1, SMTT(30)
    <3>3. QED
      BY <1>1, <2>7, <3>1, <3>2, SMTT(30) DEF HeadInv
  <2>8. ASSUME ~PendingInFlight, PendingQueued' = {}
        PROVE  canonical' = head
    <3>1. PendingQueued \subseteq {1}
      BY <2>5, <2>8, SMTT(30)
    <3>2. CASE 1 \in PendingQueued
      BY <1>1, <1>9, <2>8, <3>1, <3>2, SMTT(30) DEF HeadInv
    <3>3. CASE PendingQueued = {}
      BY <1>1, <1>9, <2>1, <2>8, <3>3, SMTT(30) DEF HeadInv
    <3>4. QED
      BY <3>1, <3>2, <3>3, SMTT(30)
  <2>9. QED
    BY <1>1, <2>1, <2>6, <2>7, <2>8, ZenonT(30) DEF HeadInv
<1>10. ASSUME NEW kind, TakeEvent(kind)
       PROVE  Head(queue) = queue[1] /\ queue[1].kind = kind /\ 1 \in DOMAIN queue
  BY <1>1, <1>10, TailFacts, SMTT(30) DEF TakeEvent
<1>11. ASSUME NEW kind \in {"Executed", "ValidatedFallback"}, HandleBlock(kind)
       PROVE  HeadInv'
  <2>1. TakeEvent(kind) /\ canonical' = canonical
    BY <1>11 DEF HandleBlock
  <2>2. 1 \notin PendingQueued
    BY <1>10, <2>1 DEF PendingQueued, IsPending
  <2>3. QED
    BY <1>9, <2>1, <2>2, SMTT(30)
<1>12. CASE HandleValidated
  <2>1. TakeEvent("Validated") /\ canonical' = canonical
    BY <1>12 DEF HandleValidated
  <2>2. 1 \notin PendingQueued
    BY <1>10, <2>1, SMTT(30) DEF PendingQueued, IsPending
  <2>3. QED
    BY <1>9, <2>1, <2>2, SMTT(30)
<1>13. CASE HandleForkchoice
  <2>1. /\ TakeEvent("ForkchoiceApplied")
        /\ canonical' = IF Head(queue).covered \/ Head(queue).block = canonical
                          THEN canonical ELSE Head(queue).block
    BY <1>13 DEF HandleForkchoice
  <2>2. 1 \in PendingQueued <=> ~Head(queue).covered
    BY <1>10, <2>1, SMTT(30) DEF PendingQueued, IsPending
  <2>3. canonical' = IF 1 \in PendingQueued THEN queue[1].block ELSE canonical
    BY <1>10, <2>1, <2>2, SMTT(30)
  <2>4. QED
    BY <1>9, <2>1, <2>3, SMTT(30)
<1>14. CASE LoadLatest
  <2>1. /\ queue' = [i \in DOMAIN queue |-> Covered(queue[i])] /\ loaded' = head
        /\ in_flight' = IF in_flight = None THEN None ELSE Covered(in_flight)
        /\ head' = head
    BY <1>14 DEF LoadLatest, chain_vars
  <2>2. /\ \A i \in DOMAIN queue : Covered(queue[i]).covered
        /\ in_flight # None => Covered(in_flight).covered
    BY EventCovered, SMTT(30) DEF Inv, EventsInv
  <2>3. PendingQueued' = {} /\ ~PendingInFlight'
    BY <2>1, <2>2, SMTT(30) DEF PendingQueued, PendingInFlight, IsPending
  <2>4. QED
    BY <1>1, <2>1, <2>3, SMTT(30) DEF HeadInv
<1>15. CASE Activate
  <2>1. /\ loaded # None /\ loaded' = None /\ canonical' = loaded
        /\ UNCHANGED <<head, in_flight, queue>>
    BY <1>15 DEF Activate, chain_vars
  <2>2. PendingQueued' = PendingQueued /\ PendingInFlight' = PendingInFlight
    BY <2>1, SMTT(30) DEF PendingQueued, PendingInFlight, IsPending
  <2>3. QED
    BY <1>1, <2>1, <2>2, SMTT(30) DEF HeadInv
<1>16. ASSUME NEW b \in Blocks, Evict(b) \/ Retire(b)
       PROVE  HeadInv'
  BY <1>4, <1>16, SMTT(30) DEF Evict, Retire, chain_vars
<1>17. CASE UNCHANGED vars
  BY <1>4, <1>17 DEF vars
<1>18. QED
  BY <1>5, <1>6, <1>7, <1>8, <1>11, <1>12, <1>13, <1>14, <1>15, <1>16, <1>17, SMTT(30) DEF Next

-----------------------------------------------------------------------------

LEMMA InitInv ==
  ASSUME Init
  PROVE  Inv
<1>1. DOMAIN storage = 1 .. 1 /\ storage[1] = Genesis /\ DOMAIN parent = 1 .. 1 /\ parent[1] = 0
  BY DEF Init
<1>2. /\ storage = [i \in DOMAIN storage |-> storage[i]] /\ parent = [i \in DOMAIN parent |-> parent[i]]
      /\ DOMAIN queue = 1 .. 0 /\ queue = [i \in DOMAIN queue |-> queue[i]]
  BY DEF Init
<1>3. /\ IsSequence(storage) /\ IsSequence(parent) /\ IsSequence(queue)
      /\ Len(storage) = 1 /\ Len(parent) = 1
  BY <1>1, <1>2, IsSequenceOf, ZenonT(30)
<1>4. Blocks = {1}
  BY <1>1, SMTT(30) DEF Blocks
<1>5. 1 \in DOMAIN Dictionaries
  BY DictionaryNumbers, ZenonT(30)
<1>6. ChainInv
  <2>1. IsState(Genesis)
    BY DEF IsState
  <2>2. QED
    BY <1>1, <1>3, <1>4, <1>5, <2>1, SMTT(30) DEF Init, ChainInv
<1>7. EventsInv
  BY <1>2, <1>3, SMTT(30) DEF Init, EventsInv
<1>8. CandidatesInv
  <2> DEFINE values == LoadAt(WatchSets[1], Genesis)
  <2>1. /\ generation = 1 /\ canonical = 1 /\ loaded = None /\ index = values
        /\ candidates = [b \in {1} |-> [values |-> values, bitmap |-> NoBitmap]]
        /\ DOMAIN deferred = {}
    BY DEF Init
  <2> HIDE DEF values
  <2>2. IsProjection(storage, parent, 1, 1, [values |-> values, bitmap |-> NoBitmap])
    BY <1>1 DEF IsProjection, values
  <2>3. IsCache(storage, parent, 1, candidates, 1)
    BY <1>1, <2>1, <2>2 DEF IsCache
  <2>4. IsDeferral(storage, parent, 1, deferred)
    BY <2>1, ZenonT(30) DEF IsDeferral
  <2>5. QED
    BY <1>1, <2>1, <2>3, <2>4, SMTT(30) DEF CandidatesInv, IndexExact, Active, values
<1>9. HeadInv
  BY <1>2 DEF Init, HeadInv, PendingInFlight, PendingQueued
<1>10. QED
  BY <1>6, <1>7, <1>8, <1>9, SMTT(30) DEF Inv

LEMMA Invariant == Spec => []Inv
<1>1. Init => Inv
  BY InitInv
<1>2. Inv /\ [Next]_vars => Inv'
  BY ChainStep, EventsStep, CandidatesStep, HeadStep DEF Inv
<1>3. QED
  BY <1>1, <1>2, PTL DEF Spec

\* Whatever was executed, deferred, evicted, retired or reloaded in between, a cached projection
\* has the values a read of its own block's state would return and a bitmap of exactly the keys
\* its block changed: for any configurations, any chain of blocks, any destruction or rewrite of
\* accounts, and either lookup of a watched slot.
THEOREM ProjectionsExact == Spec => []ProjectionExact
<1>1. Inv => ProjectionExact
  BY SMTT(30) DEF Inv, CandidatesInv, IsCache, IsProjection, ProjectionExact, Active
<1>2. QED
  BY <1>1, Invariant, PTL

\* A consumer that applies only the set bits of every canonical update has the values of the
\* published block, across forks, reloads of the provider and changes of dictionary.
THEOREM ConsumersFollow == Spec => []IndexExact
<1>1. Inv => IndexExact
  BY SMTT(30) DEF Inv, CandidatesInv
<1>2. QED
  BY <1>1, Invariant, PTL

\* When the publisher has nothing left to do it has published the applied head, whatever
\* forkchoices a reload found queued or in flight and discarded as covered.
THEOREM HeadReached == Spec => []QuiescentHead
<1>1. Inv => QuiescentHead
  <2> SUFFICES ASSUME Inv, in_flight = None, queue = <<>>, loaded = None
               PROVE  canonical = head
    BY DEF QuiescentHead
  <2>1. ~PendingInFlight /\ PendingQueued = {}
    BY DEF PendingInFlight, PendingQueued
  <2>2. QED
    BY <2>1 DEF Inv, HeadInv
<1>2. QED
  BY <1>1, Invariant, PTL

=============================================================================
