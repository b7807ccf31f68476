--------------------------- MODULE WatchSetProofs ---------------------------
(***************************************************************************)
(* Proofs about WatchSet: what the binary search finds and what extraction *)
(* reports, for any dictionary and any account changes.                    *)
(***************************************************************************)
EXTENDS WatchSet, FiniteSetTheorems, WellFoundedInduction, SequenceTheorems, TLAPS

-----------------------------------------------------------------------------
(* Induction over the naturals, with sets in the place of predicates. *)

\* The least number principle, from the well-founded inclusion of the intervals 1 .. n.
LEMMA LeastNumber ==
  ASSUME NEW S \in SUBSET Nat, S # {}
  PROVE  \E m \in S : \A k \in S : m <= k
<1> DEFINE Intervals == {1 .. n : n \in S}
<1>1. Intervals \subseteq FiniteSubsetsOf(Nat)
  BY FS_Interval DEF FiniteSubsetsOf
<1>2. Intervals # {}
  BY ZenonT(30)
<1>3. IsWellFoundedOn(StrictSubsetOrdering(Nat), FiniteSubsetsOf(Nat))
  BY FS_StrictSubsetOrderingWellFounded
<1> HIDE DEF Intervals
<1>4. PICK x \in Intervals : \A y \in Intervals : ~(<<y, x>> \in StrictSubsetOrdering(Nat))
  BY <1>1, <1>2, <1>3, WFMin
<1>5. PICK m \in S : x = 1 .. m
  BY DEF Intervals
<1>6. ASSUME NEW k \in S, k < m
      PROVE  FALSE
  <2>1. 1 .. k \in Intervals
    BY DEF Intervals
  <2>2. m \in 1 .. m /\ m \notin 1 .. k /\ 1 .. k \subseteq 1 .. m
    BY <1>6
  <2>3. 1 .. k \in SUBSET Nat /\ 1 .. m \in SUBSET Nat
    OBVIOUS
  <2>4. <<1 .. k, 1 .. m>> \in StrictSubsetOrdering(Nat)
    BY <2>2, <2>3 DEF StrictSubsetOrdering
  <2>5. QED
    BY <1>4, <1>5, <2>1, <2>4
<1>7. QED
  BY <1>6

\* Course-of-values induction: a set that has every number whose predecessors it has.
LEMMA StrongInduction ==
  ASSUME NEW S, \A n \in Nat : (\A k \in 0 .. n - 1 : k \in S) => n \in S
  PROVE  Nat \subseteq S
<1> SUFFICES ASSUME Nat \ S # {} PROVE FALSE
  OBVIOUS
<1>1. PICK m \in Nat \ S : \A k \in Nat \ S : m <= k
  BY LeastNumber, ZenonT(30)
<1>2. \A k \in 0 .. m - 1 : k \in S
  BY <1>1
<1>3. QED
  BY <1>1, <1>2

-----------------------------------------------------------------------------
(* The sorted slots of an address. *)

\* sort_unstable_by_key has something to return: watched slots that differ can be sorted.
LEMMA SortedExists ==
  ASSUME NEW S, IsFiniteSet(S), \A x \in S : x.slot \in Nat,
         \A x, y \in S : x.slot = y.slot => x = y
  PROVE  \E s \in Bijection(1 .. Cardinality(S), S) : BySlot(s)
<1> DEFINE n == Cardinality(S)
           UpTo(x) == {y \in S : y.slot <= x.slot}
           pos == [x \in S |-> Cardinality(UpTo(x))]
<1>1. n \in Nat
  BY FS_CardinalityType
<1>2. ASSUME NEW x \in S
      PROVE  IsFiniteSet(UpTo(x)) /\ Cardinality(UpTo(x)) \in 1 .. n
  <2>1. UpTo(x) \in SUBSET S /\ x \in UpTo(x)
    OBVIOUS
  <2>2. IsFiniteSet(UpTo(x)) /\ Cardinality(UpTo(x)) <= n
    BY <2>1, FS_Subset
  <2>3. Cardinality(UpTo(x)) \in Nat /\ Cardinality(UpTo(x)) # 0
    BY <2>1, <2>2, FS_CardinalityType, FS_EmptySet
  <2>4. QED
    BY <2>2, <2>3, <1>1
<1>3. ASSUME NEW x \in S, NEW y \in S, x.slot < y.slot
      PROVE  pos[x] < pos[y]
  <2>1. UpTo(x) \in SUBSET UpTo(y) /\ y \in UpTo(y) /\ y \notin UpTo(x)
    BY <1>3
  <2>2. Cardinality(UpTo(x)) <= Cardinality(UpTo(y))
        /\ (Cardinality(UpTo(y)) = Cardinality(UpTo(x)) => UpTo(y) = UpTo(x))
    BY <2>1, <1>2, FS_Subset
  <2>3. QED
    BY <2>1, <2>2, <1>2
<1>4. pos \in [S -> 1 .. n]
  BY <1>2
<1>5. \A x, y \in S : pos[x] = pos[y] => x = y
  <2> SUFFICES ASSUME NEW x \in S, NEW y \in S, x # y PROVE pos[x] # pos[y]
    OBVIOUS
  <2>1. x.slot < y.slot \/ y.slot < x.slot
    OBVIOUS
  <2>2. pos[x] \in Nat /\ pos[y] \in Nat
    BY <1>4
  <2>3. QED
    BY <2>1, <2>2, <1>3
<1> HIDE DEF pos
<1>6. pos \in Injection(S, 1 .. n)
  BY <1>4, <1>5 DEF Injection, IsInjective
<1>7. IsFiniteSet(1 .. n) /\ Cardinality(1 .. n) = n
  BY <1>1, FS_Interval
<1>8. pos \in Surjection(S, 1 .. n)
  BY <1>6, <1>7, FS_Injection
<1>9. \A i \in 1 .. n : \E x \in S : pos[x] = i
  BY <1>8 DEF Surjection
<1> DEFINE s == [i \in 1 .. n |-> CHOOSE x \in S : pos[x] = i]
<1>10. \A i \in 1 .. n : s[i] \in S /\ pos[s[i]] = i
  BY <1>9
<1>11. s \in [1 .. n -> S] /\ DOMAIN s = 1 .. n
  BY <1>9
<1> HIDE DEF s
<1>12. s \in Bijection(1 .. n, S)
  <2>1. \A i, j \in 1 .. n : s[i] = s[j] => i = j
    BY <1>10
  <2>2. \A x \in S : pos[x] \in 1 .. n /\ s[pos[x]] = x
    BY <1>4, <1>5, <1>10
  <2>3. QED
    BY <1>11, <2>1, <2>2 DEF Bijection, Injection, Surjection, IsInjective
<1>13. ASSUME NEW i \in 1 .. n, NEW j \in 1 .. n, i < j
       PROVE  s[i].slot < s[j].slot
  <2>1. s[i] \in S /\ s[j] \in S /\ pos[s[i]] = i /\ pos[s[j]] = j
    BY <1>10
  <2>2. s[i].slot \in Nat /\ s[j].slot \in Nat /\ s[i] # s[j]
    BY <2>1, <1>13
  <2>3. s[i].slot # s[j].slot
    BY <2>1, <2>2
  <2>4. ~(s[j].slot < s[i].slot)
    BY <2>1, <1>3, <1>13
  <2>5. QED
    BY <2>2, <2>3, <2>4
<1>14. BySlot(s)
  BY <1>11, <1>13 DEF BySlot
<1>15. QED
  BY <1>12, <1>14

-----------------------------------------------------------------------------
(* Binary search. *)

\* One halving step; f searches smaller ranges.
Halve(slots, key, f, size, base) ==
  IF size <= 1 THEN base
  ELSE f[size - size \div 2]
        [IF slots[base + size \div 2].slot > key THEN base ELSE base + size \div 2]

Searches(slots, key, f, n) ==
  \A size \in 0 .. n, base \in Nat : f[size][base] = Halve(slots, key, f, size, base)

\* Halving a range of two or more leaves a smaller one that is not empty.
LEMMA HalfSize ==
  ASSUME NEW size \in Nat, size > 1
  PROVE  size \div 2 \in 1 .. size - 1 /\ 2 * (size \div 2) <= size
OBVIOUS

\* The search of ranges up to n is determined.
LEMMA SearchUnique ==
  ASSUME NEW slots, NEW key, NEW n \in Nat, NEW f, NEW g,
         Searches(slots, key, f, n), Searches(slots, key, g, n)
  PROVE  \A size \in 0 .. n, base \in Nat : f[size][base] = g[size][base]
<1> DEFINE Same == {m \in Nat : m <= n => \A base \in Nat : f[m][base] = g[m][base]}
<1>1. ASSUME NEW m \in Nat, \A k \in 0 .. m - 1 : k \in Same
      PROVE  m \in Same
  <2> SUFFICES ASSUME m <= n, NEW base \in Nat PROVE f[m][base] = g[m][base]
    OBVIOUS
  <2>1. f[m][base] = Halve(slots, key, f, m, base) /\ g[m][base] = Halve(slots, key, g, m, base)
    BY DEF Searches
  <2>2. CASE m <= 1
    BY <2>1, <2>2 DEF Halve
  <2>3. CASE m > 1
    <3> DEFINE half == m \div 2
    <3>1. half \in 1 .. m - 1
      BY <2>3, HalfSize
    <3> HIDE DEF half
    <3>2. m - half \in 0 .. m - 1 /\ m - half <= n /\ base + half \in Nat
      BY <3>1
    <3>3. \A b \in Nat : f[m - half][b] = g[m - half][b]
      BY <3>2, <1>1
    <3>4. QED
      BY <2>1, <2>3, <3>2, <3>3 DEF Halve, half
  <2>4. QED
    BY <2>2, <2>3
<1>2. Nat \subseteq Same
  BY <1>1, StrongInduction, ZenonT(30)
<1>3. QED
  BY <1>2

\* There is a search of ranges up to any n.
LEMMA SearchExists ==
  ASSUME NEW slots, NEW key
  PROVE  \A n \in Nat : \E f : Searches(slots, key, f, n)
<1> DEFINE Good == {n \in Nat : \E f : Searches(slots, key, f, n)}
<1>1. ASSUME NEW n \in Nat, \A k \in 0 .. n - 1 : k \in Good
      PROVE  n \in Good
  <2> SUFFICES \E f : Searches(slots, key, f, n)
    OBVIOUS
  <2>1. CASE n = 0
    <3> DEFINE f == [size \in 0 .. 0 |-> [base \in Nat |-> base]]
    <3>1. Searches(slots, key, f, n)
      BY <2>1 DEF Searches, Halve
    <3>2. QED
      BY <3>1
  <2>2. CASE n # 0
    <3>1. PICK g : Searches(slots, key, g, n - 1)
      BY <2>2, <1>1
    <3> DEFINE f == [size \in 0 .. n |-> [base \in Nat |->
                       IF size <= n - 1 THEN g[size][base] ELSE Halve(slots, key, g, size, base)]]
    <3>2. ASSUME NEW size \in 0 .. n, NEW base \in Nat
          PROVE  f[size][base] = Halve(slots, key, g, size, base)
      BY <3>1 DEF Searches
    <3>3. ASSUME NEW size \in 0 .. n, NEW base \in Nat
          PROVE  Halve(slots, key, g, size, base) = Halve(slots, key, f, size, base)
      <4>1. CASE size <= 1
        BY <4>1 DEF Halve
      <4>2. CASE size > 1
        <5> DEFINE half == size \div 2
        <5>1. half \in 1 .. size - 1
          BY <4>2, HalfSize
        <5> HIDE DEF half
        <5>2. size - half \in 0 .. n - 1 /\ base + half \in Nat
          BY <5>1
        <5>3. \A b \in Nat : f[size - half][b] = g[size - half][b]
          BY <5>2
        <5> HIDE DEF f
        <5>4. QED
          BY <4>2, <5>2, <5>3 DEF Halve, half
      <4>3. QED
        BY <4>1, <4>2
    <3> HIDE DEF f
    <3>4. Searches(slots, key, f, n)
      BY <3>2, <3>3 DEF Searches
    <3>5. QED
      BY <3>4
  <2>3. QED
    BY <2>1, <2>2
<1>2. Nat \subseteq Good
  BY <1>1, StrongInduction, ZenonT(30)
<1>3. QED
  BY <1>2

\* The function BinarySearch recurs through.
SearchFunction(slots, key) ==
  CHOOSE f : f = [size \in Nat |-> [base \in Nat |-> Halve(slots, key, f, size, base)]]

\* The recursion of BinarySearch is well founded: its function exists and halves every range.
LEMMA SearchDefined ==
  ASSUME NEW slots, NEW key
  PROVE  \A size, base \in Nat :
           SearchFunction(slots, key)[size][base] =
             Halve(slots, key, SearchFunction(slots, key), size, base)
<1> DEFINE Upto(n) == CHOOSE g : Searches(slots, key, g, n)
           f == [size \in Nat |-> [base \in Nat |-> Upto(size)[size][base]]]
<1>1. \A n \in Nat : Searches(slots, key, Upto(n), n)
  BY SearchExists
<1> HIDE DEF Upto
<1>2. ASSUME NEW size \in Nat, NEW base \in Nat
      PROVE  f[size][base] = Halve(slots, key, f, size, base)
  <2>1. f[size][base] = Halve(slots, key, Upto(size), size, base)
    BY <1>1 DEF Searches
  <2>2. CASE size <= 1
    BY <2>1, <2>2 DEF Halve
  <2>3. CASE size > 1
    <3> DEFINE half == size \div 2
    <3>1. half \in 1 .. size - 1
      BY <2>3, HalfSize
    <3> HIDE DEF half
    <3>2. size - half \in Nat /\ size - half <= size /\ base + half \in Nat
      BY <3>1
    <3>3. Searches(slots, key, Upto(size), size - half)
      BY <1>1, <3>2 DEF Searches
    <3>4. Searches(slots, key, Upto(size - half), size - half)
      BY <1>1, <3>2
    <3>5. \A b \in Nat : Upto(size - half)[size - half][b] = Upto(size)[size - half][b]
      <4>1. \A m \in 0 .. size - half, b \in Nat :
              Upto(size - half)[m][b] = Upto(size)[m][b]
        BY <3>2, <3>3, <3>4, SearchUnique
      <4>2. size - half \in 0 .. size - half
        BY <3>2
      <4>3. QED
        BY <4>1, <4>2
    <3>6. \A b \in Nat : f[size - half][b] = Upto(size)[size - half][b]
      BY <3>2, <3>5
    <3> HIDE DEF f
    <3>7. QED
      BY <2>1, <2>3, <3>2, <3>6 DEF Halve, half
  <2>4. QED
    BY <2>2, <2>3
<1>3. f = [size \in Nat |-> [base \in Nat |-> Halve(slots, key, f, size, base)]]
  BY <1>2
<1> HIDE DEF f
<1>4. SearchFunction(slots, key) =
        [size \in Nat |-> [base \in Nat |->
           Halve(slots, key, SearchFunction(slots, key), size, base)]]
  BY <1>3, ZenonT(30) DEF SearchFunction
<1>5. QED
  BY <1>4

\* A search stays in its range.
LEMMA SearchInRange ==
  ASSUME NEW slots, NEW key
  PROVE  \A size \in Nat \ {0}, base \in Nat :
           SearchFunction(slots, key)[size][base] \in base .. base + size - 1
<1> DEFINE f == SearchFunction(slots, key)
           Good == {size \in Nat : size # 0 => \A base \in Nat : f[size][base] \in base .. base + size - 1}
<1>1. \A size, base \in Nat : f[size][base] = Halve(slots, key, f, size, base)
  BY SearchDefined
<1> HIDE DEF f
<1>2. ASSUME NEW size \in Nat, \A k \in 0 .. size - 1 : k \in Good
      PROVE  size \in Good
  <2> SUFFICES ASSUME size # 0, NEW base \in Nat PROVE f[size][base] \in base .. base + size - 1
    OBVIOUS
  <2>1. CASE size = 1
    BY <1>1, <2>1 DEF Halve
  <2>2. CASE size > 1
    <3> DEFINE half == size \div 2
               next == IF slots[base + half].slot > key THEN base ELSE base + half
    <3>1. half \in 1 .. size - 1 /\ 2 * half <= size
      BY <2>2, HalfSize
    <3>2. f[size][base] = f[size - half][next]
      <4>1. f[size][base] = Halve(slots, key, f, size, base)
        BY <1>1
      <4>2. ~(size <= 1)
        BY <2>2
      <4>3. QED
        BY <4>1, <4>2, Zenon DEF Halve
    <3> HIDE DEF half
    <3>3. size - half \in 0 .. size - 1 /\ size - half # 0
      BY <3>1
    <3>4. next \in Nat /\ base <= next /\ next <= base + half
      BY <3>1
    <3>5. f[size - half][next] \in next .. next + (size - half) - 1
      BY <3>3, <3>4, <1>2
    <3> HIDE DEF next
    <3>6. QED
      BY <3>1, <3>2, <3>4, <3>5
  <2>3. QED
    BY <2>1, <2>2
<1>3. Nat \subseteq Good
  BY <1>2, StrongInduction, ZenonT(30)
<1>4. QED
  BY <1>3 DEF f

\* The first n slots are in increasing order.
SortedUpTo(slots, n) ==
  /\ \A i \in 1 .. n : slots[i].slot \in Nat
  /\ \A i, j \in 1 .. n : i < j => slots[i].slot < slots[j].slot

\* Among sorted slots, a search whose range holds the key's position returns it.
LEMMA SearchFinds ==
  ASSUME NEW slots, NEW key \in Nat, NEW n \in Nat, NEW p \in 1 .. n, slots[p].slot = key,
         SortedUpTo(slots, n)
  PROVE  \A size \in Nat, base \in Nat :
           1 <= base /\ base + size - 1 <= n /\ p \in base .. base + size - 1
             => SearchFunction(slots, key)[size][base] = p
<1> DEFINE f == SearchFunction(slots, key)
           Good == {size \in Nat : \A base \in Nat :
                      1 <= base /\ base + size - 1 <= n /\ p \in base .. base + size - 1
                        => f[size][base] = p}
<1>1. \A size, base \in Nat : f[size][base] = Halve(slots, key, f, size, base)
  BY SearchDefined
<1> HIDE DEF f
<1>2. ASSUME NEW size \in Nat, \A k \in 0 .. size - 1 : k \in Good
      PROVE  size \in Good
  <2> SUFFICES ASSUME NEW base \in Nat, 1 <= base, base + size - 1 <= n,
                      p \in base .. base + size - 1
               PROVE  f[size][base] = p
    OBVIOUS
  <2>1. CASE size <= 1
    <3>1. f[size][base] = Halve(slots, key, f, size, base)
      BY <1>1
    <3>2. f[size][base] = base
      BY <3>1, <2>1, Zenon DEF Halve
    <3>3. QED
      BY <3>2, <2>1
  <2>2. CASE size > 1
    <3> DEFINE half == size \div 2
               mid == base + half
               next == IF slots[mid].slot > key THEN base ELSE mid
    <3>1. half \in 1 .. size - 1 /\ 2 * half <= size
      BY <2>2, HalfSize
    <3>2. f[size][base] = f[size - half][next]
      <4>1. f[size][base] = Halve(slots, key, f, size, base)
        BY <1>1
      <4>2. ~(size <= 1)
        BY <2>2
      <4>3. QED
        BY <4>1, <4>2, Zenon DEF Halve
    <3> HIDE DEF half
    <3>3. size - half \in 0 .. size - 1 /\ mid \in 1 .. n
      BY <3>1
    <3>4. p < mid <=> slots[mid].slot > key
      BY <3>3 DEF SortedUpTo
    <3>5. next \in Nat /\ 1 <= next /\ next + (size - half) - 1 <= n
          /\ p \in next .. next + (size - half) - 1
      BY <3>1, <3>4
    <3> HIDE DEF next
    <3>6. f[size - half][next] = p
      BY <3>3, <3>5, <1>2
    <3>7. QED
      BY <3>2, <3>6
  <2>3. QED
    BY <2>1, <2>2
<1>3. Nat \subseteq Good
  BY <1>2, StrongInduction, ZenonT(30)
<1>4. QED
  BY <1>3 DEF f

\* binary_search_by_key on sorted slots finds a slot exactly when it is there.
THEOREM BinarySearchExact ==
  ASSUME NEW slots, NEW key \in Nat, Len(slots) \in Nat \ {0}, SortedUpTo(slots, Len(slots))
  PROVE  /\ \A p \in 1 .. Len(slots) : slots[p].slot = key => BinarySearch(slots, key) = p
         /\ (\A p \in 1 .. Len(slots) : slots[p].slot # key) => BinarySearch(slots, key) = 0
<1> DEFINE found == SearchFunction(slots, key)[Len(slots)][1]
<1>1. BinarySearch(slots, key) = IF slots[found].slot = key THEN found ELSE 0
  BY DEF BinarySearch, SearchFunction, Halve
<1>2. found \in 1 .. Len(slots)
  <2>1. found \in 1 .. 1 + Len(slots) - 1
    <3>1. 1 \in Nat /\ Len(slots) \in Nat \ {0}
      OBVIOUS
    <3>2. QED
      BY <3>1, SearchInRange, Zenon
  <2>2. QED
    BY <2>1
<1>3. ASSUME NEW p \in 1 .. Len(slots), slots[p].slot = key
      PROVE  found = p
  <2>1. \A size \in Nat, base \in Nat :
           1 <= base /\ base + size - 1 <= Len(slots) /\ p \in base .. base + size - 1
             => SearchFunction(slots, key)[size][base] = p
    <3>1. Len(slots) \in Nat /\ key \in Nat /\ p \in 1 .. Len(slots) /\ slots[p].slot = key
          /\ SortedUpTo(slots, Len(slots))
      BY <1>3
    <3>2. QED
      BY <3>1, SearchFinds, SMTT(30)
  <2>2. Len(slots) \in Nat /\ 1 \in Nat /\ 1 <= 1 /\ 1 + Len(slots) - 1 <= Len(slots)
        /\ p \in 1 .. 1 + Len(slots) - 1
    OBVIOUS
  <2>3. QED
    BY <2>1, <2>2, Zenon
<1> HIDE DEF found
<1>4. QED
  BY <1>1, <1>2, <1>3

-----------------------------------------------------------------------------
(* WatchSet::compile and extract_changes. *)

AddressesOf(c) == {c[i].address : i \in DOMAIN c}

\* A configuration that Config::validate accepts: no key twice.
IsConfiguration(c) ==
  /\ c \in Seq([address : AddressesOf(c), slot : Nat])
  /\ \A i, j \in DOMAIN c : c[i] = c[j] => i = j

\* The keys of one address have different slots, and there are finitely many.
LEMMA WatchedKeys ==
  ASSUME NEW c, IsConfiguration(c), NEW a
  PROVE  /\ IsFiniteSet(WatchedAt(c, a))
         /\ \A x \in WatchedAt(c, a) : x.slot \in Nat
         /\ \A x, y \in WatchedAt(c, a) : x.slot = y.slot => x = y
<1> DEFINE D == {j \in DOMAIN c : c[j].address = a}
           Key(i) == [slot |-> c[i].slot, key_id |-> i]
           f == [i \in D |-> Key(i)]
<1>1. DOMAIN c = 1 .. Len(c) /\ Len(c) \in Nat
      /\ \A i \in DOMAIN c : c[i] \in [address : AddressesOf(c), slot : Nat]
  <2> DEFINE K == [address : AddressesOf(c), slot : Nat]
  <2>1. c \in Seq(K)
    BY DEF IsConfiguration
  <2> HIDE DEF K
  <2>2. DOMAIN c = 1 .. Len(c) /\ Len(c) \in Nat /\ \A i \in DOMAIN c : c[i] \in K
    BY <2>1, LenProperties, ElementOfSeq
  <2>3. QED
    BY <2>2 DEF K
<1>2. IsFiniteSet(D)
  <2>1. IsFiniteSet(1 .. Len(c)) /\ D \in SUBSET (1 .. Len(c))
    BY <1>1, FS_Interval
  <2>2. QED
    BY <2>1, FS_Subset
<1>3. f \in Surjection(D, WatchedAt(c, a))
  BY DEF Surjection, WatchedAt
<1>4. IsFiniteSet(WatchedAt(c, a))
  BY <1>2, <1>3, FS_Surjection
<1>5. ASSUME NEW x \in WatchedAt(c, a)
      PROVE  x.slot \in Nat
  BY <1>1 DEF WatchedAt
<1>6. ASSUME NEW x \in WatchedAt(c, a), NEW y \in WatchedAt(c, a), x.slot = y.slot
      PROVE  x = y
  <2>1. PICK i \in D : x = Key(i)
    BY DEF WatchedAt
  <2>2. PICK j \in D : y = Key(j)
    BY DEF WatchedAt
  <2>3. c[i] = c[j]
    BY <1>1, <1>6, <2>1, <2>2
  <2>4. QED
    BY <2>1, <2>2, <2>3 DEF IsConfiguration
<1>7. QED
  BY <1>4, <1>5, <1>6

\* compile sorts each address's keys: the slots it stores are those configured, in order.
LEMMA SlotsCompiled ==
  ASSUME NEW c, IsConfiguration(c), NEW a, WatchedAt(c, a) # {}
  PROVE  /\ Len(SlotWatches(c, a)) \in Nat \ {0}
         /\ DOMAIN SlotWatches(c, a) = 1 .. Len(SlotWatches(c, a))
         /\ Range(SlotWatches(c, a)) = WatchedAt(c, a)
         /\ SortedUpTo(SlotWatches(c, a), Len(SlotWatches(c, a)))
<1> DEFINE W == WatchedAt(c, a)
           s == SlotWatches(c, a)
           n == Cardinality(W)
<1>1. IsFiniteSet(W) /\ (\A x \in W : x.slot \in Nat) /\ \A x, y \in W : x.slot = y.slot => x = y
  BY WatchedKeys
<1>2. n \in Nat \ {0}
  BY <1>1, FS_CardinalityType, FS_EmptySet
<1>3. s \in Bijection(1 .. n, W) /\ BySlot(s)
  BY <1>1, SortedExists DEF SlotWatches
<1> HIDE DEF s
<1>4. s \in [1 .. n -> W] /\ \A w \in W : \E i \in 1 .. n : s[i] = w
  BY <1>3 DEF Bijection, Injection, Surjection
<1> HIDE DEF W
<1>5. s \in Seq(W)
  BY <1>2, <1>4, SeqDef
<1>6. Len(s) = n
  <2>1. DOMAIN s = 1 .. Len(s) /\ Len(s) \in Nat
    BY <1>5, LenProperties
  <2>2. 1 .. Len(s) = 1 .. n
    BY <1>4, <2>1
  <2>3. QED
    BY <1>2, <2>1, <2>2
<1>7. Range(s) = W
  BY <1>4 DEF Range
<1>8. SortedUpTo(s, n)
  BY <1>1, <1>3, <1>4 DEF SortedUpTo, BySlot
<1>9. QED
  BY <1>2, <1>4, <1>6, <1>7, <1>8 DEF s, W

\* What compile stores for a watched address.
LEMMA CompiledAddress ==
  ASSUME NEW c, IsConfiguration(c), NEW a \in DOMAIN Compile(c).addresses
  PROVE  /\ WatchedAt(c, a) # {}
         /\ Compile(c).addresses[a].slots = SlotWatches(c, a)
         /\ Compile(c).addresses[a].slot_to_key =
              IF Len(SlotWatches(c, a)) > HashIndexThreshold
                THEN [s \in {SlotWatches(c, a)[i].slot : i \in DOMAIN SlotWatches(c, a)} |->
                        (CHOOSE w \in Range(SlotWatches(c, a)) : w.slot = s).key_id]
                ELSE <<>>
<1>1. a \in {c[i].address : i \in DOMAIN c}
  BY DEF Compile
<1>2. WatchedAt(c, a) # {}
  BY <1>1, ZenonT(30) DEF WatchedAt
<1>3. QED
  BY <1>1, <1>2 DEF Compile

\* Both indexes, the sorted slots and the hash map, name the key of a slot and nothing else.
LEMMA KeyOfExact ==
  ASSUME NEW c, IsConfiguration(c), NEW a \in DOMAIN Compile(c).addresses, NEW s \in Nat
  PROVE  /\ \A w \in WatchedAt(c, a) : w.slot = s => KeyOf(Compile(c).addresses[a], s) = w.key_id
         /\ (\A w \in WatchedAt(c, a) : w.slot # s) => KeyOf(Compile(c).addresses[a], s) = 0
<1> DEFINE W == WatchedAt(c, a)
           slots == SlotWatches(c, a)
           watch == Compile(c).addresses[a]
<1>1. W # {} /\ watch.slots = slots
  BY CompiledAddress, ZenonT(30)
<1>2. /\ Len(slots) \in Nat \ {0} /\ DOMAIN slots = 1 .. Len(slots)
      /\ Range(slots) = W /\ SortedUpTo(slots, Len(slots))
  BY <1>1, SlotsCompiled
<1>3. \A x, y \in W : x.slot = y.slot => x = y
  BY WatchedKeys
<1>4. CASE Len(slots) > HashIndexThreshold
  <2> DEFINE D == {slots[i].slot : i \in DOMAIN slots}
  <2>1. watch.slot_to_key = [t \in D |-> (CHOOSE w \in Range(slots) : w.slot = t).key_id]
    BY <1>4, CompiledAddress, ZenonT(30)
  <2>2. D = {w.slot : w \in W}
    BY <1>2 DEF Range
  <2>3. watch.slot_to_key # <<>>
    <3>1. D # {}
      BY <1>1, <2>2, ZenonT(30)
    <3>2. DOMAIN watch.slot_to_key = D
      BY <2>1
    <3> HIDE DEF D, watch
    <3>3. DOMAIN <<>> = {}
      OBVIOUS
    <3>4. QED
      BY <3>1, <3>2, <3>3
  <2> HIDE DEF D, watch, slots, W
  <2>4. KeyOf(watch, s) = IF s \in D THEN (CHOOSE w \in Range(slots) : w.slot = s).key_id ELSE 0
    BY <2>1, <2>3 DEF KeyOf
  <2>5. ASSUME NEW w \in W, w.slot = s
        PROVE  KeyOf(watch, s) = w.key_id
    <3>1. (CHOOSE x \in Range(slots) : x.slot = s) = w
      BY <1>2, <1>3, <2>5
    <3>2. QED
      BY <2>2, <2>4, <2>5, <3>1, ZenonT(30)
  <2>6. QED
    BY <2>2, <2>4, <2>5 DEF W, watch
<1>5. CASE ~(Len(slots) > HashIndexThreshold)
  <2>1. watch.slot_to_key = <<>>
    BY <1>5, CompiledAddress, ZenonT(30)
  <2>2. KeyOf(watch, s) = IF BinarySearch(slots, s) = 0 THEN 0
                          ELSE slots[BinarySearch(slots, s)].key_id
    BY <1>1, <2>1 DEF KeyOf
  <2>3. /\ \A p \in 1 .. Len(slots) : slots[p].slot = s => BinarySearch(slots, s) = p
        /\ (\A p \in 1 .. Len(slots) : slots[p].slot # s) => BinarySearch(slots, s) = 0
    BY <1>2, BinarySearchExact
  <2>4. ASSUME NEW w \in W, w.slot = s
        PROVE  KeyOf(watch, s) = w.key_id
    <3>1. PICK p \in 1 .. Len(slots) : slots[p] = w
      BY <1>2 DEF Range
    <3>2. BinarySearch(slots, s) = p /\ p # 0
      BY <2>3, <2>4, <3>1
    <3>3. QED
      BY <2>2, <3>1, <3>2
  <2>5. ASSUME \A w \in W : w.slot # s
        PROVE  KeyOf(watch, s) = 0
    <3>1. \A p \in 1 .. Len(slots) : slots[p] \in W
      BY <1>2 DEF Range
    <3>2. BinarySearch(slots, s) = 0
      BY <2>3, <2>5, <3>1
    <3>3. QED
      BY <2>2, <3>2
  <2>6. QED
    BY <2>4, <2>5
<1>6. QED
  BY <1>4, <1>5

\* The word a key has after an account was touched, when its entry changed or the account was
\* destroyed.
IsWritten(account, s) ==
  \/ account.destroyed
  \/ s \in DOMAIN account.storage /\ IsChanged(account.storage[s])

Written(account, s) ==
  IF s \in DOMAIN account.storage THEN account.storage[s].present ELSE 0

\* Whichever side extract_account_changes iterates, it reports the watched slots that were
\* written, each with its new word.
LEMMA AccountChanges ==
  ASSUME NEW c, IsConfiguration(c), NEW a \in DOMAIN Compile(c).addresses,
         NEW account, account.destroyed \in BOOLEAN, DOMAIN account.storage \subseteq Nat
  PROVE  ExtractAccountChanges(Compile(c).addresses[a], account) =
           {[key_id |-> w.key_id, new_value |-> Written(account, w.slot)] :
              w \in {x \in WatchedAt(c, a) : IsWritten(account, x.slot)}}
<1> DEFINE W == WatchedAt(c, a)
           watch == Compile(c).addresses[a]
           Changes == {[key_id |-> w.key_id, new_value |-> Written(account, w.slot)] :
                         w \in {x \in W : IsWritten(account, x.slot)}}
<1>1. W # {} /\ watch.slots = SlotWatches(c, a)
  BY CompiledAddress, ZenonT(30)
<1>2. Range(watch.slots) = W
  BY <1>1, SlotsCompiled
<1>3. ChangesOfWatched(watch, account) = Changes
  <2> HIDE DEF W, watch
  <2> DEFINE Seen == {x \in Range(watch.slots) :
                        \/ account.destroyed
                        \/ x.slot \in DOMAIN account.storage /\ IsChanged(account.storage[x.slot])}
  <2>1. \A x \in W : x \in Seen <=> IsWritten(account, x.slot)
    BY <1>2 DEF IsWritten
  <2>2. ChangesOfWatched(watch, account) =
          {[key_id |-> w.key_id, new_value |-> Written(account, w.slot)] : w \in Seen}
    BY DEF ChangesOfWatched, Written
  <2>3. Seen \subseteq W
    BY <1>2
  <2> HIDE DEF Seen
  <2>4. Seen = {x \in W : IsWritten(account, x.slot)}
    BY <2>1, <2>3
  <2>5. QED
    BY <2>2, <2>4
<1>4. ASSUME ~account.destroyed
      PROVE  ChangesOfEntries(watch, account) = Changes
  <2>1. ASSUME NEW s \in DOMAIN account.storage
        PROVE  /\ \A w \in W : w.slot = s => KeyOf(watch, s) = w.key_id
               /\ (\A w \in W : w.slot # s) => KeyOf(watch, s) = 0
    BY KeyOfExact
  <2>2. \A w \in W : w.key_id # 0
    BY DEF WatchedAt, IsConfiguration
  <2> HIDE DEF W, watch
  <2>3. ChangesOfEntries(watch, account) \subseteq Changes
    <3> SUFFICES ASSUME NEW s \in DOMAIN account.storage, IsChanged(account.storage[s]),
                        KeyOf(watch, s) # 0
                 PROVE  [key_id |-> KeyOf(watch, s), new_value |-> account.storage[s].present]
                          \in Changes
      BY ZenonT(30) DEF ChangesOfEntries
    <3>1. PICK w \in W : w.slot = s
      BY <2>1
    <3>2. IsWritten(account, w.slot) /\ Written(account, w.slot) = account.storage[s].present
      BY <3>1 DEF IsWritten, Written
    <3>3. KeyOf(watch, s) = w.key_id
      BY <2>1, <3>1
    <3>4. QED
      BY <3>2, <3>3
  <2>4. Changes \subseteq ChangesOfEntries(watch, account)
    <3> SUFFICES ASSUME NEW w \in W, IsWritten(account, w.slot)
                 PROVE  [key_id |-> w.key_id, new_value |-> Written(account, w.slot)]
                          \in ChangesOfEntries(watch, account)
      OBVIOUS
    <3>1. w.slot \in DOMAIN account.storage /\ IsChanged(account.storage[w.slot])
      BY <1>4 DEF IsWritten
    <3>2. KeyOf(watch, w.slot) = w.key_id /\ w.key_id # 0
      BY <2>1, <2>2, <3>1
    <3>3. QED
      BY <3>1, <3>2 DEF ChangesOfEntries, Written
  <2>5. QED
    BY <2>3, <2>4
<1>5. QED
  BY <1>3, <1>4 DEF ExtractAccountChanges

\* The changes of a block: one for every key whose slot was written.
LEMMA ChangesExact ==
  ASSUME NEW c, IsConfiguration(c), NEW R,
         \A a \in DOMAIN R : R[a].destroyed \in BOOLEAN /\ DOMAIN R[a].storage \subseteq Nat,
         NEW change
  PROVE  change \in ExtractChanges(Compile(c), R) <=>
           \E i \in DOMAIN c :
             /\ c[i].address \in DOMAIN R
             /\ IsWritten(R[c[i].address], c[i].slot)
             /\ change = [key_id |-> i, new_value |-> Written(R[c[i].address], c[i].slot)]
<1> DEFINE A == DOMAIN Compile(c).addresses
           Of(a) == {[key_id |-> w.key_id, new_value |-> Written(R[a], w.slot)] :
                       w \in {x \in WatchedAt(c, a) : IsWritten(R[a], x.slot)}}
<1>1. A = {c[i].address : i \in DOMAIN c}
  BY DEF Compile
<1>2. \A a \in A \cap DOMAIN R : ExtractAccountChanges(Compile(c).addresses[a], R[a]) = Of(a)
  BY AccountChanges
<1> HIDE DEF A
<1>3. change \in ExtractChanges(Compile(c), R) <=> \E a \in A \cap DOMAIN R : change \in Of(a)
  <2>1. change \in ExtractChanges(Compile(c), R) <=>
          \E a \in A \cap DOMAIN R :
            change \in ExtractAccountChanges(Compile(c).addresses[a], R[a])
    BY DEF ExtractChanges, A
  <2> HIDE DEF Of
  <2>2. QED
    BY <1>2, <2>1
<1>4. ASSUME NEW a
      PROVE  change \in Of(a) <=>
               \E i \in DOMAIN c :
                 /\ c[i].address = a /\ IsWritten(R[a], c[i].slot)
                 /\ change = [key_id |-> i, new_value |-> Written(R[a], c[i].slot)]
  <2>1. \A w : w \in WatchedAt(c, a) <=>
                \E i \in DOMAIN c : c[i].address = a /\ w = [slot |-> c[i].slot, key_id |-> i]
    BY DEF WatchedAt
  <2>2. ASSUME NEW w \in WatchedAt(c, a), IsWritten(R[a], w.slot),
               change = [key_id |-> w.key_id, new_value |-> Written(R[a], w.slot)]
        PROVE  \E i \in DOMAIN c :
                 /\ c[i].address = a /\ IsWritten(R[a], c[i].slot)
                 /\ change = [key_id |-> i, new_value |-> Written(R[a], c[i].slot)]
    BY <2>1, <2>2
  <2>3. ASSUME NEW i \in DOMAIN c, c[i].address = a, IsWritten(R[a], c[i].slot),
               change = [key_id |-> i, new_value |-> Written(R[a], c[i].slot)]
        PROVE  change \in Of(a)
    <3> DEFINE w == [slot |-> c[i].slot, key_id |-> i]
    <3>1. w \in WatchedAt(c, a) /\ w.slot = c[i].slot /\ w.key_id = i
      BY <2>1, <2>3
    <3> HIDE DEF w
    <3>2. QED
      BY <2>3, <3>1
  <2>4. QED
    BY <2>2, <2>3
<1> HIDE DEF Of
<1>5. ASSUME change \in ExtractChanges(Compile(c), R)
      PROVE  \E i \in DOMAIN c :
               /\ c[i].address \in DOMAIN R
               /\ IsWritten(R[c[i].address], c[i].slot)
               /\ change = [key_id |-> i, new_value |-> Written(R[c[i].address], c[i].slot)]
  BY <1>3, <1>4, <1>5
<1>6. ASSUME NEW i \in DOMAIN c, c[i].address \in DOMAIN R,
             IsWritten(R[c[i].address], c[i].slot),
             change = [key_id |-> i, new_value |-> Written(R[c[i].address], c[i].slot)]
      PROVE  change \in ExtractChanges(Compile(c), R)
  <2>1. change \in Of(c[i].address)
    BY <1>4, <1>6
  <2>2. QED
    BY <1>1, <1>3, <1>6, <2>1
<1>7. QED
  BY <1>5, <1>6

=============================================================================
