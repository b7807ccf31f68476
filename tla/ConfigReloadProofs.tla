------------------------- MODULE ConfigReloadProofs -------------------------
(***************************************************************************)
(* Proofs about WireSize and ConfigReload, for any file contents, any      *)
(* chain views, any frame limit Config::validate allows and any number of  *)
(* saves.                                                                  *)
(***************************************************************************)
EXTENDS ConfigReload, FiniteSetTheorems, WellFoundedInduction, TLAPS

-----------------------------------------------------------------------------
(* Bounds on the frames, for every number of keys. *)

\* A varint of a length takes one to five bytes.
LEMMA VarintBound ==
  ASSUME NEW n \in Nat
  PROVE  VarintLen(n) \in 1 .. 5
BY DEF VarintLen

\* A varint below 128 takes one byte, and below 16384 at most two.
LEMMA ShortVarint ==
  ASSUME NEW n \in Nat, n < 16384
  PROVE  /\ VarintLen(n) \in 1 .. 2
         /\ n < 128 => VarintLen(n) = 1
BY DEF VarintLen

\* A scalar takes at most a tag and ten bytes.
LEMMA ScalarBound ==
  ASSUME NEW w \in Widths
  PROVE  Scalar(w) \in 0 .. 11
BY DEF Scalar, Widths

\* A hash field takes 34 bytes.
LEMMA HashLength == Hash = 34
BY DEF Hash, Delimited, VarintLen, HashBytes

\* A field of bytes takes at most six bytes more than they do.
LEMMA PackedBound ==
  ASSUME NEW n \in Nat
  PROVE  Packed(n) \in 0 .. n + 6
BY VarintBound DEF Packed, Delimited

LEMMA DelimitedBound ==
  ASSUME NEW n \in Nat
  PROVE  Delimited(n) \in Nat /\ Delimited(n) <= n + 6
BY VarintBound DEF Delimited

\* The block reference of a frame takes at most 90 bytes.
LEMMA BlockRefBound ==
  ASSUME NEW v \in Views
  PROVE  BlockRefLen(v) \in 0 .. 90
<1>1. v.number \in Widths /\ v.timestamp \in Widths
  BY DEF Views
<1> QED
  BY <1>1, ScalarBound, HashLength DEF BlockRefLen

\* A checkpoint takes at most 51 bytes with its header.
LEMMA CheckpointBound ==
  ASSUME NEW w \in Widths \cup {Absent}
  PROVE  CheckpointField(w) \in 0 .. 51
<1>1. CASE w = Absent
  BY <1>1 DEF CheckpointField
<1>2. CASE w \in Widths /\ w # Absent
  <2>1. CheckpointRefLen(w) \in 0 .. 45
    BY <1>2, ScalarBound, HashLength DEF CheckpointRefLen
  <2>2. CheckpointRefLen(w) \in Nat
    BY <2>1
  <2> DEFINE field == Delimited(CheckpointRefLen(w))
  <2>3. field \in Nat /\ field <= CheckpointRefLen(w) + 6
    BY <2>2, DelimitedBound, Zenon
  <2>4. field \in 0 .. 51
    BY <2>1, <2>3
  <2> QED
    BY <1>2, <2>4 DEF CheckpointField
<1> QED
  BY <1>1, <1>2

LEMMA ForkchoiceBound ==
  ASSUME NEW v \in Views
  PROVE  ForkchoiceViewLen(v) \in 0 .. 153
<1>1. v.number \in Widths \cup {Absent} /\ v.safe \in Widths \cup {Absent}
      /\ v.finalized \in Widths \cup {Absent}
  BY DEF Views
<1> QED
  BY <1>1, CheckpointBound, SMTT(30) DEF ForkchoiceViewLen

\* The envelope adds at most 60 bytes to its event.
LEMMA EnvelopeBound ==
  ASSUME NEW v \in Views, NEW tag \in 1 .. 2, NEW event \in Nat
  PROVE  EnvelopeLen(v, tag, event) \in 0 .. event + 60
<1>1. v.sequence \in Widths /\ v.generation \in Widths /\ v.emitted \in Widths
  BY DEF Views
<1>2. Scalar(1) = 2 /\ Delimited(16) = 18
  BY DEF Scalar, Delimited, VarintLen
<1> QED
  BY <1>1, <1>2, ScalarBound, VarintBound DEF EnvelopeLen

\* The values and the bitmap of a projection.
LEMMA ProjectionFieldsBound ==
  ASSUME NEW n \in Nat
  PROVE  /\ DivCeil(n, 8) \in Nat
         /\ ProjectionFields(n) \in 0 .. 32 * n + DivCeil(n, 8) + 12
<1>1. DivCeil(n, 8) \in Nat
  BY DEF DivCeil
<1>2. 32 * n \in Nat
  OBVIOUS
<1> QED
  BY <1>1, <1>2, PackedBound DEF ProjectionFields

LEMMA ProjectionBytesType ==
  ASSUME NEW n \in Nat
  PROVE  ProjectionBytes(n) \in Nat
BY ProjectionFieldsBound DEF ProjectionBytes

\* "required_frame_bytes": the 512 bytes Config::validate adds to the values and the bitmap
\* cover everything else in a snapshot, a block state and a canonical head, for every number of
\* keys, however wide the numbers and however many checkpoints there are.
THEOREM ProjectionBudget ==
  ASSUME NEW n \in Nat, NEW v \in Views, NEW len \in ProjectionFrames(n, v)
  PROVE  len \in 0 .. ProjectionBytes(n)
<1> DEFINE bits == DivCeil(n, 8)
<1>1. /\ bits \in Nat /\ 32 * n \in Nat
      /\ ProjectionFields(n) \in 0 .. 32 * n + bits + 12
      /\ Packed(32 * n) \in 0 .. 32 * n + 6
  BY ProjectionFieldsBound, PackedBound
<1>2. Delimited(BlockRefLen(v)) \in 0 .. 96 /\ Delimited(ForkchoiceViewLen(v)) \in 0 .. 159
  <2>1. BlockRefLen(v) \in Nat /\ ForkchoiceViewLen(v) \in Nat
    BY BlockRefBound, ForkchoiceBound
  <2> DEFINE block == Delimited(BlockRefLen(v))
             forkchoice == Delimited(ForkchoiceViewLen(v))
  <2>2. /\ block \in Nat /\ block <= BlockRefLen(v) + 6
        /\ forkchoice \in Nat /\ forkchoice <= ForkchoiceViewLen(v) + 6
    BY <2>1, DelimitedBound, Zenon
  <2>3. BlockRefLen(v) \in 0 .. 90 /\ ForkchoiceViewLen(v) \in 0 .. 153
    BY BlockRefBound, ForkchoiceBound, Zenon
  <2> QED
    BY <2>2, <2>3
<1>3. Scalar(1) = 2
  BY DEF Scalar
<1>4. SnapshotLen(n, v) \in 0 .. 32 * n + 261
  <2> DEFINE values == Packed(32 * n)
             block == Delimited(BlockRefLen(v))
             forkchoice == Delimited(ForkchoiceViewLen(v))
  <2>1. /\ values \in 0 .. 32 * n + 6 /\ block \in 0 .. 96 /\ forkchoice \in 0 .. 159
        /\ SnapshotLen(n, v) = block + values + forkchoice
    BY <1>1, <1>2, Zenon DEF SnapshotLen
  <2> HIDE DEF values, block, forkchoice
  <2> QED
    BY <2>1
<1>5. BlockStateLen(n, v) \in 0 .. 32 * n + bits + 110
  BY <1>1, <1>2, <1>3 DEF BlockStateLen
<1>6. CanonicalHeadLen(n, v) \in 0 .. 32 * n + bits + 142
  BY <1>1, <1>2, HashLength DEF CanonicalHeadLen
<1>7. CASE len = EnvelopeLen(v, 1, SnapshotLen(n, v))
  BY <1>1, <1>4, <1>7, EnvelopeBound DEF ProjectionBytes
<1>8. CASE len = EnvelopeLen(v, 1, BlockStateLen(n, v))
  BY <1>1, <1>5, <1>8, EnvelopeBound DEF ProjectionBytes
<1>9. CASE len = EnvelopeLen(v, 2, CanonicalHeadLen(n, v))
  BY <1>1, <1>6, <1>9, EnvelopeBound DEF ProjectionBytes
<1> QED
  BY <1>7, <1>8, <1>9 DEF ProjectionFrames

\* publish_retired fills a frame with as many hashes as its batch size allows and still keeps
\* within max_frame_bytes, for every limit Config::validate accepts.
THEOREM RetiredBudget ==
  ASSUME NEW v \in Views, NEW max \in Nat, max >= MinFrameBytes
  PROVE  RetiredFrame(v, max) <= max
<1>1. BatchSize(max) \in Nat /\ 34 * BatchSize(max) <= max - 256
  BY DEF BatchSize, MinFrameBytes
<1>2. Scalar(1) = 2
  BY DEF Scalar
<1>3. CandidatesRetiredLen(BatchSize(max)) \in 0 .. max - 254
  BY <1>1, <1>2, HashLength DEF CandidatesRetiredLen, MinFrameBytes
<1>4. max - 254 \in Nat
  BY SMTT(30) DEF MinFrameBytes
<1> QED
  BY <1>3, <1>4, EnvelopeBound DEF RetiredFrame

\* A forkchoice frame fits the least limit Config::validate accepts.
THEOREM ForkchoiceBudget ==
  ASSUME NEW v \in Views
  PROVE  EnvelopeLen(v, 2, ForkchoiceAppliedLen(v)) \in 0 .. MinFrameBytes
<1>1. ForkchoiceViewLen(v) \in Nat
  BY ForkchoiceBound
<1>2. /\ ForkchoiceAppliedLen(v) \in Nat
      /\ ForkchoiceAppliedLen(v) <= ForkchoiceViewLen(v) + 6
  BY <1>1, DelimitedBound, Zenon DEF ForkchoiceAppliedLen
<1>3. EnvelopeLen(v, 2, ForkchoiceAppliedLen(v)) \in 0 .. ForkchoiceAppliedLen(v) + 60
  <2>1. 2 \in 1 .. 2
    OBVIOUS
  <2> QED
    BY <1>2, <2>1, EnvelopeBound, Zenon
<1> QED
  BY <1>2, <1>3, ForkchoiceBound DEF MinFrameBytes

\* The 80 bytes Config::validate counts for a key of the dictionary, besides its id, cover what
\* the key takes in the ConfigActivated frame.
LEMMA KeyBudget ==
  ASSUME NEW key_id \in Nat, NEW id_len \in Nat
  PROVE  /\ Delimited(WatchKeyLen(key_id, id_len)) \in Nat
         /\ Delimited(WatchKeyLen(key_id, id_len)) <= 80 + id_len
<1>1. Delimited(20) = 22 /\ Delimited(HashBytes) = 34
  BY DEF Delimited, VarintLen, HashBytes
<1>2. VarintLen(key_id) \in Widths /\ VarintLen(key_id) \in 1 .. 5
  BY VarintBound DEF Widths
<1>3. Scalar(VarintLen(key_id)) \in 0 .. 6
  BY <1>2 DEF Scalar
<1>4. WatchKeyLen(key_id, id_len) \in 0 .. 68 + id_len
  BY <1>1, <1>3, PackedBound DEF WatchKeyLen
<1> QED
  BY <1>4, DelimitedBound

\* Induction over the numbers, with a set in the place of a predicate: of the intervals 1 .. n
\* with n outside the set, none is minimal for inclusion.
LEMMA NumberInduction ==
  ASSUME NEW S, 0 \in S, \A n \in Nat : n \in S => n + 1 \in S
  PROVE  Nat \subseteq S
<1> DEFINE Intervals == {1 .. n : n \in Nat \ S}
<1> SUFFICES ASSUME Intervals # {} PROVE FALSE
  OBVIOUS
<1>1. Intervals \subseteq FiniteSubsetsOf(Nat)
  <2>1. \A n \in Nat : IsFiniteSet(1 .. n) /\ 1 .. n \in SUBSET Nat
    BY FS_Interval, SMTT(30)
  <2> QED
    BY <2>1, Zenon DEF FiniteSubsetsOf
<1>2. IsWellFoundedOn(StrictSubsetOrdering(Nat), FiniteSubsetsOf(Nat))
  BY FS_StrictSubsetOrderingWellFounded
<1> HIDE DEF Intervals
<1>3. PICK x \in Intervals : \A y \in Intervals : ~(<<y, x>> \in StrictSubsetOrdering(Nat))
  BY <1>1, <1>2, WFMin
<1>4. PICK m \in Nat \ S : x = 1 .. m
  BY DEF Intervals
<1>5. m - 1 \in Nat \ S
  <2>1. m # 0 /\ m - 1 \in Nat
    BY <1>4
  <2>2. m - 1 + 1 = m
    BY <2>1
  <2> QED
    BY <1>4, <2>1, <2>2
<1>6. 1 .. m - 1 \in Intervals
  BY <1>5 DEF Intervals
<1>7. m \in 1 .. m /\ m \notin 1 .. m - 1 /\ 1 .. m - 1 \subseteq 1 .. m
      /\ 1 .. m - 1 \in SUBSET Nat /\ 1 .. m \in SUBSET Nat
  BY <1>4, <1>5
<1>8. <<1 .. m - 1, 1 .. m>> \in StrictSubsetOrdering(Nat)
  BY <1>7 DEF StrictSubsetOrdering
<1> QED
  BY <1>3, <1>4, <1>6, <1>8

\* The partial sums Total is the last of exist, for every sequence of lengths.
LEMMA PartialSums ==
  ASSUME NEW s, Len(s) \in Nat
  PROVE  \E f : /\ f = [n \in 0 .. Len(s) |-> IF n = 0 THEN 0 ELSE f[n - 1] + s[n]]
                /\ Total(s) = f[Len(s)]
<1> DEFINE Sums(f, m) == f = [n \in 0 .. m |-> IF n = 0 THEN 0 ELSE f[n - 1] + s[n]]
           S == {m \in Nat : \E f : Sums(f, m)}
<1>1. 0 \in S
  <2> DEFINE f == [n \in 0 .. 0 |-> 0]
  <2>1. Sums(f, 0)
    OBVIOUS
  <2> HIDE DEF f
  <2> QED
    BY <2>1
<1>2. ASSUME NEW m \in Nat, m \in S PROVE m + 1 \in S
  <2>1. PICK f : Sums(f, m)
    BY <1>2
  <2> DEFINE g == [n \in 0 .. m + 1 |-> IF n = m + 1 THEN f[m] + s[m + 1] ELSE f[n]]
  <2>2. \A n \in 0 .. m + 1 : g[n] = IF n = 0 THEN 0 ELSE g[n - 1] + s[n]
    <3> SUFFICES ASSUME NEW n \in 0 .. m + 1
                 PROVE  g[n] = IF n = 0 THEN 0 ELSE g[n - 1] + s[n]
      OBVIOUS
    <3>1. CASE n = m + 1
      BY <3>1
    <3>2. CASE n # m + 1
      <4>1. n \in 0 .. m /\ g[n] = f[n] /\ (n # 0 => n - 1 \in 0 .. m /\ g[n - 1] = f[n - 1])
        BY <3>2
      <4> HIDE DEF g
      <4> QED
        BY <2>1, <4>1
    <3> QED
      BY <3>1, <3>2
  <2>3. g = [n \in 0 .. m + 1 |-> g[n]]
    OBVIOUS
  <2> HIDE DEF g
  <2>4. Sums(g, m + 1)
    BY <2>2, <2>3
  <2> QED
    BY <2>4
<1> HIDE DEF S
<1>3. Len(s) \in S
  BY <1>1, <1>2, NumberInduction
<1> DEFINE first == CHOOSE f : Sums(f, Len(s))
<1>4. Sums(first, Len(s))
  BY <1>3, Zenon DEF S
<1>5. Total(s) = first[Len(s)]
  BY Zenon DEF Total
<1> HIDE DEF first
<1> QED
  BY <1>4, <1>5

\* A sum of smaller lengths is smaller.
LEMMA TotalMonotone ==
  ASSUME NEW N \in Nat, NEW s, NEW t, Len(s) = N, Len(t) = N,
         \A i \in 1 .. N : s[i] \in Nat /\ t[i] \in Nat /\ s[i] <= t[i]
  PROVE  Total(t) \in Nat /\ Total(s) \in 0 .. Total(t)
<1>1. PICK f : /\ f = [n \in 0 .. N |-> IF n = 0 THEN 0 ELSE f[n - 1] + s[n]]
               /\ Total(s) = f[N]
  BY PartialSums
<1>2. PICK g : /\ g = [n \in 0 .. N |-> IF n = 0 THEN 0 ELSE g[n - 1] + t[n]]
               /\ Total(t) = g[N]
  BY PartialSums
<1> DEFINE S == {n \in Nat : n <= N => g[n] \in Nat /\ f[n] \in 0 .. g[n]}
<1>3. 0 \in S
  <2>1. f[0] = 0 /\ g[0] = 0
    BY <1>1, <1>2
  <2> QED
    BY <2>1
<1>4. ASSUME NEW n \in Nat, n \in S PROVE n + 1 \in S
  <2> SUFFICES ASSUME n + 1 <= N PROVE g[n + 1] \in Nat /\ f[n + 1] \in 0 .. g[n + 1]
    OBVIOUS
  <2>1. n + 1 \in 0 .. N /\ n + 1 # 0 /\ n + 1 - 1 = n /\ n + 1 \in 1 .. N
    OBVIOUS
  <2>2. f[n + 1] = f[n] + s[n + 1]
    BY <1>1, <2>1
  <2>3. g[n + 1] = g[n] + t[n + 1]
    BY <1>2, <2>1
  <2>4. g[n] \in Nat /\ f[n] \in 0 .. g[n]
    BY <1>4
  <2>5. s[n + 1] \in Nat /\ t[n + 1] \in Nat /\ s[n + 1] <= t[n + 1]
    BY <2>1
  <2> QED
    BY <2>2, <2>3, <2>4, <2>5, SMTT(30)
<1> HIDE DEF S
<1>5. N \in S
  BY <1>3, <1>4, NumberInduction, ZenonT(30)
<1> QED
  BY <1>1, <1>2, <1>5 DEF S

\* The dictionary_bytes of Config::validate, formed key by key, cover the ConfigActivated frame:
\* for every dictionary, however many keys it has and however long their ids are, and whatever
\* the chain's view.
THEOREM DictionaryBudget ==
  ASSUME NEW w, Len(w) \in Nat, \A i \in 1 .. Len(w) : w[i].id_len \in Nat, NEW v \in Views
  PROVE  /\ DictionaryBytes(w) \in Nat
         /\ EnvelopeLen(v, 1, ConfigActivatedLen(w)) \in 0 .. DictionaryBytes(w)
<1> DEFINE N == Len(w)
           s == [i \in 1 .. N |-> Delimited(WatchKeyLen(i - 1, w[i].id_len))]
           t == [i \in 1 .. N |-> 80 + w[i].id_len]
<1>1. ASSUME NEW i \in 1 .. N PROVE s[i] \in Nat /\ t[i] \in Nat /\ s[i] <= t[i]
  <2>1. i - 1 \in Nat /\ w[i].id_len \in Nat
    OBVIOUS
  <2> DEFINE key == Delimited(WatchKeyLen(i - 1, w[i].id_len))
  <2>2. key \in Nat /\ key <= 80 + w[i].id_len
    BY <2>1, KeyBudget, Zenon
  <2>3. s[i] = key /\ t[i] = 80 + w[i].id_len
    BY Zenon
  <2> HIDE DEF key, s, t
  <2> QED
    BY <2>1, <2>2, <2>3
<1>2. Len(s) = N /\ Len(t) = N
  OBVIOUS
<1>3. DictionaryBytes(w) = 512 + Total(t) /\ ConfigActivatedLen(w) = Total(s)
  BY Zenon DEF DictionaryBytes, ConfigActivatedLen
<1> HIDE DEF s, t
<1>4. Total(t) \in Nat /\ Total(s) \in 0 .. Total(t)
  BY <1>1, <1>2, TotalMonotone, SMTT(30)
<1>5. EnvelopeLen(v, 1, Total(s)) \in 0 .. Total(s) + 60
  <2>1. 1 \in 1 .. 2 /\ Total(s) \in Nat
    BY <1>4
  <2> QED
    BY <2>1, EnvelopeBound, Zenon
<1> QED
  BY <1>3, <1>4, <1>5

-----------------------------------------------------------------------------
(* The inductive invariant. *)

\* There is one request at a time, and where it is decides what the two threads may do.
OneRequest ==
  /\ control # <<>> => publisher = "idle" /\ completion = "pending" /\ control[1] = request
  /\ publisher \in {"loading", "publishing", "activating"} =>
       control = <<>> /\ completion = "pending" /\ activating = request
  /\ completion = "pending" => reloader \in {"await", "stopped"}
  /\ completion = "pending" => publisher # "stopped"

\* A request whose dictionary has not been published.
Outstanding ==
  \/ reloader \in {"request", "backoff"}
  \/ control # <<>>
  \/ publisher \in {"loading", "publishing"}
  \/ reloader = "await" /\ completion # "activated" /\ publisher # "activating"

\* The next generation follows the published one, except between the publication and the
\* reloader's hearing of it.
Numbering ==
  /\ Outstanding => /\ request.generation = published.generation + 1
                    /\ request.keys # published.keys
  /\ reloader \notin {"await", "stopped"} => next_generation = published.generation + 1
  /\ reloader \in {"await", "request", "backoff"} => next_generation = request.generation
  /\ reloader = "await" /\ ~Outstanding => request.generation = published.generation
  /\ publisher = "activating" => request = published
  /\ publisher # "activating" => hot = published

\* What consumers were told of: a dictionary for every generation up to the published one.
Dense == \A g \in 1 .. published.generation : \E a \in announced : a.generation = g
ConsecutiveDiffer ==
  \A a, b \in announced : b.generation = a.generation + 1 => a.keys # b.keys

IInv ==
  /\ TypeOK /\ OneRequest /\ Numbering
  /\ GenerationNamesDictionary /\ Dense /\ ConsecutiveDiffer

-----------------------------------------------------------------------------
(* Facts about the constants. *)

\* The dictionary of any file contents is one of Dictionaries.
LEMMA DictionaryOf ==
  ASSUME NEW f \in DOMAIN Configs
  PROVE  Configs[f].watch \in Dictionaries
BY DEF Dictionaries

\* A compiled watch set is a watch set.
LEMMA CompileType ==
  ASSUME NEW g \in Nat \ {0}, NEW w \in Dictionaries
  PROVE  /\ Compile(g, w) \in WatchSets
         /\ Compile(g, w).generation = g /\ Compile(g, w).keys = w
BY DEF Compile, WatchSets

\* The fields of a watch set determine it.
LEMMA WatchSetFields ==
  ASSUME NEW s \in WatchSets
  PROVE  s.generation \in Nat \ {0} /\ s.keys \in Dictionaries
BY DEF WatchSets

\* A channel of capacity one holds nothing or one watch set.
LEMMA Channel ==
  /\ <<>> \in Seq(WatchSets) /\ Len(<<>>) <= 1
  /\ \A s \in WatchSets : <<s>> \in Seq(WatchSets) /\ Len(<<s>>) <= 1
OBVIOUS

-----------------------------------------------------------------------------
(* Types. *)

Flags == unwatched \in BOOLEAN /\ unseen \in BOOLEAN /\ sighup \in BOOLEAN /\ shutdown \in BOOLEAN

FileType == file \in DOMAIN Configs /\ saves \in 0 .. MaxSaves /\ events \in {0, 1}

Stages ==
  /\ reloader \in {"starting", "idle", "debounce", "load", "request", "await", "backoff",
                   "stopped"}
  /\ completion \in {"none", "pending", "activated", "failed", "dropped"}
  /\ publisher \in {"idle", "loading", "publishing", "activating", "stopped"}

Sets ==
  /\ next_generation \in Nat
  /\ request \in WatchSets /\ activating \in WatchSets
  /\ published \in WatchSets /\ hot \in WatchSets
  /\ control \in Seq(WatchSets) /\ Len(control) <= 1
  /\ queue \in Seq(WatchSets) /\ Len(queue) <= 1
  /\ announced \subseteq WatchSets

\* The parts of TypeOK that are proved separately.
LEMMA TypeParts == TypeOK <=> Flags /\ FileType /\ Stages /\ Sets
BY Zenon DEF TypeOK, Flags, FileType, Stages, Sets

LEMMA InitTypeOK == Init => TypeOK
<1> SUFFICES ASSUME Init PROVE Flags /\ FileType /\ Stages /\ Sets
  BY TypeParts
<1> DEFINE first == Compile(1, Configs[Initial].watch)
<1>1. Initial \in DOMAIN Configs /\ MaxSaves \in Nat
  BY ConfigReloadAssumption
<1>2. first \in WatchSets
  BY <1>1, DictionaryOf, CompileType
<1>3. /\ request = first /\ activating = first /\ published = first /\ hot = first
      /\ announced = {first} /\ control = <<>> /\ queue = <<>> /\ next_generation = 2
  BY Zenon DEF Init
<1> HIDE DEF first
<1>4. Flags
  BY Zenon DEF Init, Flags
<1>5. FileType
  BY <1>1 DEF Init, FileType
<1>6. Stages
  BY DEF Init, Stages
<1>7. Sets
  BY <1>2, <1>3 DEF Sets
<1> QED
  BY <1>4, <1>5, <1>6, <1>7

\* The flags stay Boolean.
LEMMA FlagsStep == Flags /\ [Next]_vars => Flags'
<1> SUFFICES ASSUME Flags, [Next]_vars PROVE Flags'
  OBVIOUS
<1> USE DEF Flags
<1>1. ASSUME NEW f \in DOMAIN Configs, Save(f) PROVE Flags'
  BY <1>1, Zenon DEF Save, Watching
<1>2. CASE Notify
  BY <1>2, Zenon DEF Notify, file_vars
<1>3. CASE Hangup
  BY <1>3, Zenon DEF Hangup, file_vars
<1>4. CASE Shutdown
  BY <1>4, Zenon DEF Shutdown, file_vars
<1>5. CASE Reloader
  BY <1>5, Zenon
     DEF Reloader, InstallWatcher, InstallFails, Wake, DrainEvents, Load, RequestActivation,
         Await, Supersede, Retry, StopReloader, TakeTrigger, Goto, file_vars
<1>6. CASE Publisher \/ LoadFails \/ HandleEvent \/ Extract
  BY <1>6, Zenon
     DEF Publisher, TakeControl, LoadLatest, PublishConfig, ActivateHotPath, StopPublisher,
         LoadFails, HandleEvent, Extract, file_vars
<1>7. CASE UNCHANGED vars
  BY <1>7, Zenon DEF vars, file_vars
<1> QED
  BY <1>1, <1>2, <1>3, <1>4, <1>5, <1>6, <1>7, Zenon DEF Next

\* The file is one of the known contents, saved within its bound; the channel holds one token.
LEMMA FileStep == FileType /\ [Next]_vars => FileType'
<1> SUFFICES ASSUME FileType, [Next]_vars PROVE FileType'
  OBVIOUS
<1> USE DEF FileType
<1>1. ASSUME NEW f \in DOMAIN Configs, Save(f) PROVE FileType'
  BY <1>1, ConfigReloadAssumption DEF Save
<1>2. CASE Notify \/ Hangup \/ Shutdown
  BY <1>2, SMTT(30) DEF Notify, Hangup, Shutdown, file_vars
<1>3. CASE Reloader
  BY <1>3
     DEF Reloader, InstallWatcher, InstallFails, Wake, DrainEvents, Load, RequestActivation,
         Await, Supersede, Retry, StopReloader, TakeTrigger, file_vars
<1>4. CASE Publisher \/ LoadFails \/ HandleEvent \/ Extract
  BY <1>4, ZenonT(30)
     DEF Publisher, TakeControl, LoadLatest, PublishConfig, ActivateHotPath, StopPublisher,
         LoadFails, HandleEvent, Extract, file_vars
<1>5. CASE UNCHANGED vars
  BY <1>5 DEF vars, file_vars
<1> QED
  BY <1>1, <1>2, <1>3, <1>4, <1>5, Zenon DEF Next

\* Both threads are at one of their places.
LEMMA StagesStep == Stages /\ [Next]_vars => Stages'
<1> SUFFICES ASSUME Stages, [Next]_vars PROVE Stages'
  OBVIOUS
<1> USE DEF Stages
<1>1. ASSUME NEW f \in DOMAIN Configs, Save(f) PROVE Stages'
  BY <1>1 DEF Save, reload_vars
<1>2. CASE Notify \/ Hangup \/ Shutdown
  BY <1>2, SMTT(30) DEF Notify, Hangup, Shutdown, reload_vars
<1>3. CASE Reloader
  BY <1>3
     DEF Reloader, InstallWatcher, InstallFails, Wake, DrainEvents, Load, RequestActivation,
         Await, Supersede, Retry, StopReloader, Goto
<1>4. CASE Publisher \/ LoadFails \/ HandleEvent \/ Extract
  BY <1>4, ZenonT(30)
     DEF Publisher, TakeControl, LoadLatest, PublishConfig, ActivateHotPath, StopPublisher,
         LoadFails, HandleEvent, Extract, Answer, reload_vars
<1>5. CASE UNCHANGED vars
  BY <1>5 DEF vars, reload_vars
<1> QED
  BY <1>1, <1>2, <1>3, <1>4, <1>5, Zenon DEF Next

-----------------------------------------------------------------------------
(* The steps, by what they change of the state the invariant is about. *)

Core == <<reload_vars, control, completion, publisher, activating, publish_vars, hot, queue>>

\* The reloader moves between places where it has no request of its own under way.
Roams ==
  /\ \/ reloader \in {"starting", "idle", "debounce", "load", "backoff"}
          /\ reloader' \in {"idle", "debounce", "load"}
     \/ reloader = "backoff" /\ reloader' = "request"
     \/ reloader' = "stopped"
  /\ UNCHANGED <<next_generation, request, control, completion, publisher, activating,
                 publish_vars, hot, queue>>

\* Every step is one of these.
LEMMA Steps ==
  ASSUME [Next]_vars
  PROVE  \/ UNCHANGED Core \/ Roams
         \/ Load \/ RequestActivation \/ Await
         \/ TakeControl \/ (\E v \in ChainViews : LoadLatest(v)) \/ LoadFails
         \/ PublishConfig \/ ActivateHotPath \/ HandleEvent \/ StopPublisher \/ Extract
<1>1. ASSUME NEW f \in DOMAIN Configs, Save(f) PROVE UNCHANGED Core
  BY <1>1, Zenon DEF Save, Core
<1>2. CASE Notify \/ Hangup \/ Shutdown
  BY <1>2, Zenon DEF Notify, Hangup, Shutdown, Core
<1>3. CASE \/ InstallWatcher \/ InstallFails \/ Wake \/ DrainEvents \/ Supersede \/ Retry
           \/ StopReloader
  BY <1>3
     DEF InstallWatcher, InstallFails, Wake, DrainEvents, Supersede, Retry, StopReloader, Goto,
         Roams, publish_vars
<1>4. CASE UNCHANGED vars
  BY <1>4, Zenon DEF vars, Core
<1> QED
  BY <1>1, <1>2, <1>3, <1>4, Zenon DEF Next, Reloader, Publisher

\* Watch sets stay watch sets, and the channels within their capacity.
LEMMA SetsStep == IInv /\ [Next]_vars => Sets'
<1> SUFFICES ASSUME IInv, [Next]_vars PROVE Sets'
  OBVIOUS
<1>1. Sets /\ FileType
  BY TypeParts DEF IInv
<1>2. CASE UNCHANGED Core
  BY <1>1, <1>2 DEF Core, Sets, reload_vars, publish_vars
<1>3. CASE Roams
  BY <1>1, <1>3 DEF Roams, Sets, publish_vars
<1>4. CASE Load
  <2>1. request' \in WatchSets
    <3>1. CASE reloader' = "request" /\ request' = Compile(next_generation, Configs[file].watch)
      <4>1. next_generation \in Nat \ {0}
        BY <1>1, <1>4, WatchSetFields DEF Load, IInv, Numbering, Sets
      <4> QED
        BY <1>1, <3>1, <4>1, DictionaryOf, CompileType, SMTT(30) DEF FileType
    <3>2. CASE UNCHANGED request
      BY <1>1, <3>2 DEF Sets
    <3> QED
      BY <1>4, <3>1, <3>2 DEF Load
  <2> QED
    BY <1>1, <1>4, <2>1 DEF Load, Sets, publish_vars
<1>5. CASE RequestActivation
  <2>1. control' \in Seq(WatchSets) /\ Len(control') <= 1
    BY <1>1, <1>5, Channel, Zenon DEF RequestActivation, Sets
  <2> QED
    BY <1>1, <1>5, <2>1 DEF RequestActivation, Sets, publish_vars
<1>6. CASE Await
  BY <1>1, <1>6 DEF Await, Sets, publish_vars
<1>7. CASE TakeControl
  BY <1>1, <1>7 DEF TakeControl, Sets, reload_vars, publish_vars
<1>8. CASE (\E v \in ChainViews : LoadLatest(v)) \/ LoadFails
  BY <1>1, <1>8, ZenonT(30) DEF LoadLatest, LoadFails, Sets, reload_vars, publish_vars
<1>9. CASE PublishConfig \/ ActivateHotPath
  BY <1>1, <1>9 DEF PublishConfig, ActivateHotPath, Sets, reload_vars, publish_vars
<1>10. CASE HandleEvent \/ StopPublisher \/ Extract
  <2>1. queue' \in Seq(WatchSets) /\ Len(queue') <= 1
    BY <1>1, <1>10, Channel, Zenon DEF HandleEvent, StopPublisher, Extract, Sets
  <2> QED
    BY <1>1, <1>10, <2>1
       DEF HandleEvent, StopPublisher, Extract, Sets, reload_vars, publish_vars
<1> QED
  BY <1>2, <1>3, <1>4, <1>5, <1>6, <1>7, <1>8, <1>9, <1>10, Steps

\* No second request is made before the first is answered.
LEMMA OneRequestStep == IInv /\ [Next]_vars => OneRequest'
<1> SUFFICES ASSUME IInv, [Next]_vars PROVE OneRequest'
  OBVIOUS
<1>1. Sets /\ Stages /\ OneRequest
  BY TypeParts DEF IInv
<1> USE DEF OneRequest
<1>2. CASE UNCHANGED Core
  BY <1>1, <1>2 DEF Core, reload_vars, publish_vars
<1>3. CASE Roams
  BY <1>1, <1>3 DEF Roams
<1>4. CASE Load
  BY <1>1, <1>4 DEF Load
<1>5. CASE RequestActivation
  BY <1>1, <1>5 DEF RequestActivation, Stages
<1>6. CASE Await
  BY <1>1, <1>6 DEF Await
<1>7. CASE TakeControl
  <2>1. control # <<>> => Head(control) = control[1]
    BY <1>1 DEF Sets
  <2> QED
    BY <1>1, <1>7, <2>1 DEF TakeControl, Answer, reload_vars
<1>8. CASE (\E v \in ChainViews : LoadLatest(v)) \/ LoadFails
  BY <1>1, <1>8, ZenonT(30) DEF LoadLatest, LoadFails, Answer, reload_vars
<1>9. CASE PublishConfig \/ ActivateHotPath
  BY <1>1, <1>9 DEF PublishConfig, ActivateHotPath, Answer, reload_vars
<1>10. CASE HandleEvent \/ StopPublisher \/ Extract
  BY <1>1, <1>10, SMTT(30) DEF HandleEvent, StopPublisher, Extract, reload_vars
<1> QED
  BY <1>2, <1>3, <1>4, <1>5, <1>6, <1>7, <1>8, <1>9, <1>10, Steps

\* The reloader's counter and the published generation stay in step.
LEMMA NumberingStep == IInv /\ [Next]_vars => Numbering'
<1> SUFFICES ASSUME IInv, [Next]_vars PROVE Numbering'
  OBVIOUS
<1>1. Sets /\ Stages /\ OneRequest /\ Numbering /\ FileType
  BY TypeParts DEF IInv
<1>a. published.generation \in Nat /\ request.generation \in Nat
  BY <1>1, WatchSetFields DEF Sets
<1> USE DEF Numbering, Outstanding
<1>2. CASE UNCHANGED Core
  BY <1>1, <1>2 DEF Core, reload_vars, publish_vars
<1>3. CASE Roams
  BY <1>1, <1>3, SMTT(30) DEF Roams, OneRequest, publish_vars
<1>4. CASE Load
  <2>1. next_generation \in Nat \ {0} /\ Configs[file].watch \in Dictionaries
    BY <1>1, <1>4, <1>a, DictionaryOf DEF Load, Sets, FileType
  <2>2. /\ Compile(next_generation, Configs[file].watch).generation = next_generation
        /\ Compile(next_generation, Configs[file].watch).keys = Configs[file].watch
    BY <2>1, CompileType, Zenon
  <2> QED
    BY <1>1, <1>4, <2>2, SMTT(30) DEF Load, OneRequest, publish_vars
<1>5. CASE RequestActivation
  BY <1>1, <1>5 DEF RequestActivation, OneRequest, Stages, publish_vars
<1>6. CASE Await
  BY <1>1, <1>6, <1>a DEF Await, OneRequest, publish_vars
<1>7. CASE TakeControl
  <2>1. control # <<>> /\ Head(control) = control[1]
    BY <1>1, <1>7 DEF Sets, TakeControl
  <2> QED
    BY <1>1, <1>7, <1>a, <2>1 DEF TakeControl, Answer, OneRequest, reload_vars, publish_vars
<1>8. CASE (\E v \in ChainViews : LoadLatest(v)) \/ LoadFails
  BY <1>1, <1>8, ZenonT(30) DEF LoadLatest, LoadFails, Answer, OneRequest, reload_vars, publish_vars
<1>9. CASE PublishConfig \/ ActivateHotPath
  BY <1>1, <1>9, SMTT(30) DEF PublishConfig, ActivateHotPath, Answer, OneRequest, reload_vars, publish_vars
<1>10. CASE HandleEvent \/ StopPublisher \/ Extract
  BY <1>1, <1>10, SMTT(30)
     DEF HandleEvent, StopPublisher, Extract, OneRequest, reload_vars, publish_vars
<1> QED
  BY <1>2, <1>3, <1>4, <1>5, <1>6, <1>7, <1>8, <1>9, <1>10, Steps, ZenonT(30)

\* What consumers were told keeps its meaning.
LEMMA LedgerStep ==
  IInv /\ [Next]_vars => GenerationNamesDictionary' /\ Dense' /\ ConsecutiveDiffer'
<1> SUFFICES ASSUME IInv, [Next]_vars
             PROVE  GenerationNamesDictionary' /\ Dense' /\ ConsecutiveDiffer'
  OBVIOUS
<1>1. /\ Sets /\ OneRequest /\ Numbering
      /\ GenerationNamesDictionary /\ Dense /\ ConsecutiveDiffer
  BY TypeParts DEF IInv
<1> USE DEF GenerationNamesDictionary, Dense, ConsecutiveDiffer
<1>2. CASE UNCHANGED <<published, announced, hot, queue>>
  BY <1>1, <1>2
<1>3. CASE PublishConfig
  <2>1. /\ activating.generation = published.generation + 1
        /\ activating.keys # published.keys
    BY <1>1, <1>3 DEF PublishConfig, OneRequest, Numbering, Outstanding
  <2>2. /\ published' = activating /\ announced' = announced \cup {activating}
        /\ UNCHANGED <<hot, queue>>
    BY <1>3 DEF PublishConfig
  <2>3. published.generation \in Nat /\ \A a \in announced : a.generation \in Nat
    BY <1>1, WatchSetFields DEF Sets
  <2>4. GenerationNamesDictionary'
    BY <1>1, <2>1, <2>2, <2>3
  <2>5. Dense'
    <3> SUFFICES ASSUME NEW g \in 1 .. published'.generation
                 PROVE  \E a \in announced' : a.generation = g
      OBVIOUS
    <3>1. g \in 1 .. published.generation \/ g = activating.generation
      BY <2>1, <2>2, <2>3
    <3> QED
      BY <1>1, <2>2, <3>1
  <2>6. ConsecutiveDiffer'
    BY <1>1, <2>1, <2>2, <2>3
  <2> QED
    BY <2>4, <2>5, <2>6
<1>4. CASE ActivateHotPath
  BY <1>1, <1>4 DEF ActivateHotPath, OneRequest, Numbering, publish_vars
<1>5. CASE queue' = <<>> /\ UNCHANGED <<published, announced, hot>>
  BY <1>1, <1>5
<1>6. CASE Extract
  BY <1>1, <1>6 DEF Extract, publish_vars
<1>7. \/ UNCHANGED <<published, announced, hot, queue>>
      \/ PublishConfig \/ ActivateHotPath
      \/ queue' = <<>> /\ UNCHANGED <<published, announced, hot>>
      \/ Extract
  BY Steps, Zenon
     DEF Core, Roams, Load, RequestActivation, Await, TakeControl, LoadLatest, LoadFails,
         HandleEvent, StopPublisher, publish_vars
<1> QED
  BY <1>2, <1>3, <1>4, <1>5, <1>6, <1>7

LEMMA IInvStep == IInv /\ [Next]_vars => IInv'
<1> SUFFICES ASSUME IInv, [Next]_vars PROVE IInv'
  OBVIOUS
<1>1. TypeOK'
  <2>1. Flags /\ FileType /\ Stages
    BY TypeParts DEF IInv
  <2>2. Flags' /\ FileType' /\ Stages' /\ Sets'
    BY <2>1, FlagsStep, FileStep, StagesStep, SetsStep
  <2> QED
    BY <2>2, Zenon DEF TypeOK, Flags, FileType, Stages, Sets
<1> QED
  BY <1>1, OneRequestStep, NumberingStep, LedgerStep, Zenon DEF IInv

LEMMA InitIInv == Init => IInv
<1> SUFFICES ASSUME Init PROVE IInv
  OBVIOUS
<1> DEFINE first == Compile(1, Configs[Initial].watch)
<1>1. /\ request = first /\ published = first /\ hot = first
      /\ announced = {first} /\ control = <<>> /\ queue = <<>> /\ next_generation = 2
      /\ reloader = "starting" /\ publisher = "idle" /\ completion = "none"
  BY Zenon DEF Init
<1>2. first.generation = 1
  BY DEF Compile
<1> HIDE DEF first
<1>3. OneRequest /\ Numbering
  BY <1>1, <1>2 DEF OneRequest, Numbering, Outstanding
<1>4. GenerationNamesDictionary /\ Dense /\ ConsecutiveDiffer
  BY <1>1, <1>2 DEF GenerationNamesDictionary, Dense, ConsecutiveDiffer
<1> QED
  BY <1>3, <1>4, InitTypeOK DEF IInv

\* The inductive invariant holds in every reachable state.
THEOREM Invariance == Spec => []IInv
<1>1. Init => IInv
  BY InitIInv
<1>2. IInv /\ [Next]_vars => IInv'
  BY IInvStep
<1> QED
  BY <1>1, <1>2, PTL DEF Spec

\* Every variable keeps its type: the channels of capacity one are never overfilled and no
\* step leaves a thread in a place its code does not have.
THEOREM TypeCorrect == Spec => []TypeOK
BY Invariance, PTL DEF IInv

\* A generation number names one dictionary for good, and whatever extracts or carries changes
\* does so with a dictionary consumers were told of, however reloads fail and are retried.
THEOREM GenerationsAreNames == Spec => []GenerationNamesDictionary
BY Invariance, PTL DEF IInv

\* run_config_reloader never finds its channel full: it waits for the answer to each request.
THEOREM RoomForEveryRequest == Spec => []RequestFindsRoom
<1>1. IInv => RequestFindsRoom
  BY DEF IInv, OneRequest, RequestFindsRoom
<1> QED
  BY <1>1, Invariance, PTL

\* Generations are dense and consecutive ones differ: matches_config is asked about the
\* dictionary that is still the published one when the request reaches the publisher.
THEOREM NoGenerationWasted == Spec => []NoopAllocatesNothing
<1>1. ASSUME IInv PROVE NoopAllocatesNothing
  <2>1. /\ \A a \in announced : a.generation \in Nat \ {0}
        /\ published.generation \in Nat
    BY <1>1, WatchSetFields, TypeParts DEF IInv, Sets
  <2>2. \A a \in announced : a.generation <= published.generation
    BY <1>1 DEF IInv, GenerationNamesDictionary
  <2>3. {a.generation : a \in announced} \subseteq 1 .. published.generation
    BY <2>1, <2>2
  <2>4. 1 .. published.generation \subseteq {a.generation : a \in announced}
    BY <1>1 DEF IInv, Dense
  <2> QED
    BY <1>1, <2>3, <2>4 DEF IInv, ConsecutiveDiffer, NoopAllocatesNothing
<1> QED
  BY <1>1, Invariance, PTL

-----------------------------------------------------------------------------
(* Frames. *)

\* The dictionaries whose budget is within the limit, and where they may be.
Vetted == {w \in Dictionaries : RequiredFrameBytes(w) <= MaxFrame}
AllVetted ==
  request.keys \in Vetted /\ activating.keys \in Vetted /\ published.keys \in Vetted

\* Config::load vets what the reloader requests.
LEMMA VettedStep == IInv /\ AllVetted /\ [Next]_vars => AllVetted'
<1> SUFFICES ASSUME IInv, AllVetted, [Next]_vars PROVE AllVetted'
  OBVIOUS
<1> USE DEF AllVetted
<1>1. CASE UNCHANGED <<request, activating, published>>
  BY <1>1
<1>2. CASE Load
  <2>1. CASE UNCHANGED request
    BY <1>2, <2>1 DEF Load, publish_vars
  <2>2. CASE file \in AcceptableFiles
             /\ request' = Compile(next_generation, Configs[file].watch)
    <3>1. Configs[file].watch \in Vetted
      BY <2>2, DictionaryOf, SMTT(30) DEF AcceptableFiles, Valid, Vetted
    <3>2. request'.keys = Configs[file].watch
      BY <2>2 DEF Compile
    <3> QED
      BY <1>2, <3>1, <3>2, SMTT(30) DEF Load, publish_vars
  <2> QED
    BY <1>2, <2>1, <2>2, SMTT(30) DEF Load
<1>3. CASE TakeControl
  <2>1. control # <<>> /\ Head(control) = request
    BY <1>3, TypeParts DEF TakeControl, IInv, OneRequest, Sets
  <2> QED
    BY <1>3, <2>1 DEF TakeControl, reload_vars, publish_vars
<1>4. CASE PublishConfig
  BY <1>4 DEF PublishConfig, reload_vars
<1>5. UNCHANGED <<request, activating, published>> \/ Load \/ TakeControl \/ PublishConfig
  BY Steps, Zenon
     DEF Core, Roams, RequestActivation, Await, LoadLatest, LoadFails, ActivateHotPath,
         HandleEvent, StopPublisher, Extract, reload_vars, publish_vars
<1> QED
  BY <1>1, <1>2, <1>3, <1>4, <1>5

LEMMA VettedAlways == Spec => []AllVetted
<1>1. Init => AllVetted
  <2>1. Configs[Initial].watch \in Vetted
    BY ConfigReloadAssumption, DictionaryOf DEF Valid, Vetted
  <2> QED
    BY <2>1, SMTT(30) DEF Init, AllVetted, Compile
<1>2. IInv /\ AllVetted /\ [Next]_vars => AllVetted'
  BY VettedStep
<1> QED
  BY <1>1, <1>2, Invariance, PTL DEF Spec

\* A budget within the limit bounds both of its parts.
LEMMA BudgetParts ==
  ASSUME NEW w \in Vetted, NEW v \in Views
  PROVE  /\ Len(w) \in Nat
         /\ ProjectionBytes(Len(w)) \in Nat /\ ProjectionBytes(Len(w)) <= MaxFrame
         /\ EnvelopeLen(v, 1, ConfigActivatedLen(w)) <= MaxFrame
         /\ MaxFrame \in Nat /\ MaxFrame >= MinFrameBytes
<1>1. MaxFrame \in Nat /\ MaxFrame >= MinFrameBytes
  BY ConfigReloadAssumption
<1>2. PICK f \in DOMAIN Configs : w = Configs[f].watch
  BY DEF Vetted, Dictionaries
<1>3. Len(w) \in Nat /\ \A i \in 1 .. Len(w) : w[i].id_len \in Nat
  BY <1>2, ConfigReloadAssumption
<1>4. ProjectionBytes(Len(w)) \in Nat
  BY <1>3, ProjectionBytesType, Zenon
<1> DEFINE p == ProjectionBytes(Len(w))
           d == DictionaryBytes(w)
           c == EnvelopeLen(v, 1, ConfigActivatedLen(w))
<1>5. (IF p > d THEN p ELSE d) <= MaxFrame
  BY Zenon DEF Vetted, RequiredFrameBytes
<1>6. p \in Nat /\ d \in Nat /\ c \in 0 .. d
  BY <1>3, <1>4, DictionaryBudget, Zenon
<1> HIDE DEF p, d, c
<1>7. p <= MaxFrame /\ c <= MaxFrame
  BY <1>1, <1>5, <1>6
<1> QED
  BY <1>1, <1>3, <1>4, <1>7 DEF p, d, c

\* Every frame of a vetted dictionary is within the limit, whatever the chain's view.
LEMMA VettedFits ==
  ASSUME NEW w \in Vetted, NEW v \in Views
  PROVE  /\ \A len \in ProjectionFrames(Len(w), v) : len <= MaxFrame
         /\ EnvelopeLen(v, 1, ConfigActivatedLen(w)) <= MaxFrame
         /\ \A len \in FrameLengths(w, v, MaxFrame) : len <= MaxFrame
<1> DEFINE n == Len(w)
<1>1. /\ n \in Nat /\ ProjectionBytes(n) \in Nat /\ ProjectionBytes(n) <= MaxFrame
      /\ MaxFrame \in Nat /\ MaxFrame >= MinFrameBytes
  BY BudgetParts
<1>2. \A len \in ProjectionFrames(n, v) : len <= MaxFrame
  <2> SUFFICES ASSUME NEW len \in ProjectionFrames(n, v) PROVE len <= MaxFrame
    OBVIOUS
  <2>1. len \in 0 .. ProjectionBytes(n)
    BY <1>1, ProjectionBudget, Zenon
  <2> QED
    BY <1>1, <2>1
<1>3. EnvelopeLen(v, 1, ConfigActivatedLen(w)) <= MaxFrame
  BY BudgetParts, Zenon
<1>4. RetiredFrame(v, MaxFrame) <= MaxFrame
  BY <1>1, RetiredBudget, Zenon
<1>5. EnvelopeLen(v, 2, ForkchoiceAppliedLen(v)) <= MaxFrame
  <2> DEFINE frame == EnvelopeLen(v, 2, ForkchoiceAppliedLen(v))
  <2>1. frame \in 0 .. MinFrameBytes
    BY ForkchoiceBudget
  <2> HIDE DEF frame
  <2>2. frame <= MaxFrame
    BY <1>1, <2>1 DEF MinFrameBytes
  <2> QED
    BY <2>2 DEF frame
<1> QED
  BY <1>2, <1>3, <1>4, <1>5, Zenon DEF FrameLengths

\* Config::validate budgets enough: nothing it accepts fails the preflight of activate or
\* outgrows max_frame_bytes later.
THEOREM BudgetSuffices == Spec => []FramesFit
<1>1. AllVetted => FramesFit
  <2> SUFFICES ASSUME AllVetted PROVE FramesFit
    OBVIOUS
  <2>1. ASSUME NEW w \in Vetted, NEW v \in ChainViews PROVE <<w, v>> \in PassesPreflight
    <3> DEFINE widest == [v EXCEPT !.sequence = 10, !.emitted = 10]
    <3>1. widest \in Views
      <4>1. v \in Views /\ 10 \in Widths
        BY <2>1, ConfigReloadAssumption DEF Widths
      <4> QED
        BY <4>1, ZenonT(30) DEF Views
    <3>2. w \in Dictionaries
      BY DEF Vetted
    <3> HIDE DEF widest
    <3>3. /\ \A len \in ProjectionFrames(Len(w), widest) : len <= MaxFrame
          /\ EnvelopeLen(widest, 1, ConfigActivatedLen(w)) <= MaxFrame
      BY <2>1, <3>1, <3>2, VettedFits, Zenon
    <3>4. Preflight(w, v, MaxFrame)
      BY <3>3, Zenon DEF Preflight, widest
    <3> QED
      BY <2>1, <3>2, <3>4 DEF PassesPreflight
  <2>2. ASSUME NEW w \in Vetted PROVE w \in FitsForEver
    <3>1. w \in Dictionaries
      BY DEF Vetted
    <3>2. ASSUME NEW v \in ChainViews, NEW len \in FrameLengths(w, v, MaxFrame)
          PROVE  len <= MaxFrame
      <4>1. v \in Views
        BY ConfigReloadAssumption
      <4> QED
        BY <2>2, <3>1, <3>2, <4>1, VettedFits, Zenon
    <3> QED
      BY <3>1, <3>2, Zenon DEF FitsForEver
  <2> QED
    BY <2>1, <2>2 DEF AllVetted, FramesFit
<1> QED
  BY <1>1, VettedAlways, PTL

=============================================================================
