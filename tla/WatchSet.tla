------------------------------ MODULE WatchSet ------------------------------
(***************************************************************************)
(* The compiled watch set (watch.rs), the extraction of a block's watched  *)
(* changes from its execution bundle (feed.rs), and what publisher.rs and  *)
(* load_at make of them: values, changed bitmaps, canonical bitmaps.       *)
(*                                                                         *)
(* A key id is the position of a key in the configuration, from 1; a       *)
(* projection's values are a sequence and a bitmap is the set of its set   *)
(* bits.  The empty bitmap of a provider-loaded projection is NoBitmap.    *)
(***************************************************************************)
EXTENDS Integers, Sequences, FiniteSets, Functions

CONSTANTS
  HashIndexThreshold,  \* SLOT_HASH_INDEX_THRESHOLD
  NoBitmap

ASSUME WatchSetAssumption == HashIndexThreshold \in Nat

-----------------------------------------------------------------------------
(* watch.rs *)

\* The watched slots of one address.
WatchedAt(configured, a) ==
  {[slot |-> configured[i].slot, key_id |-> i] :
     i \in {j \in DOMAIN configured : configured[j].address = a}}

BySlot(slots) == \A i, j \in DOMAIN slots : i < j => slots[i].slot < slots[j].slot

\* The same, sorted by slot.
SlotWatches(configured, a) ==
  LET watched == WatchedAt(configured, a)
  IN  CHOOSE slots \in Bijection(1 .. Cardinality(watched), watched) : BySlot(slots)

\* WatchSet::compile: keys in configured order, and per address its slots with, when they are
\* many, a hash index from slot to key id.
Compile(configured) ==
  [keys |-> configured,
   addresses |->
     [a \in {configured[i].address : i \in DOMAIN configured} |->
        LET slots == SlotWatches(configured, a)
        IN  [slots |-> slots,
             slot_to_key |->
               IF Len(slots) > HashIndexThreshold
                 THEN [s \in {slots[i].slot : i \in DOMAIN slots} |->
                         (CHOOSE w \in Range(slots) : w.slot = s).key_id]
                 ELSE <<>>]]]

\* External: binary_search_by_key of the standard library, 0 when nothing is found.
BinarySearch(slots, key) ==
  LET Base[size \in Nat] ==
        [base \in Nat |->
           IF size <= 1 THEN base
           ELSE LET mid == base + size \div 2
                IN  Base[size - size \div 2][IF slots[mid].slot > key THEN base ELSE mid]]
      found == Base[Len(slots)][1]
  IN  IF slots[found].slot = key THEN found ELSE 0

-----------------------------------------------------------------------------
(* feed.rs.  A bundle maps the accounts a block touched to what became of them. *)

\* The key id a storage entry belongs to, 0 for none.
KeyOf(watch, slot) ==
  IF watch.slot_to_key = <<>>
    THEN LET i == BinarySearch(watch.slots, slot)
         IN  IF i = 0 THEN 0 ELSE watch.slots[i].key_id
    ELSE IF slot \in DOMAIN watch.slot_to_key THEN watch.slot_to_key[slot] ELSE 0

IsChanged(entry) == entry.present # entry.original

\* The loop over the watched slots.
ChangesOfWatched(watch, account) ==
  {[key_id |-> w.key_id,
    new_value |-> IF w.slot \in DOMAIN account.storage THEN account.storage[w.slot].present ELSE 0] :
     w \in {x \in Range(watch.slots) :
              \/ account.destroyed
              \/ x.slot \in DOMAIN account.storage /\ IsChanged(account.storage[x.slot])}}

\* The loop over the account's storage entries.
ChangesOfEntries(watch, account) ==
  {[key_id |-> KeyOf(watch, s), new_value |-> account.storage[s].present] :
     s \in {x \in DOMAIN account.storage :
              IsChanged(account.storage[x]) /\ KeyOf(watch, x) # 0}}

\* Fault: the smaller side is iterated even when the account was destroyed.
ExtractSmallerSide(watch, account) ==
  IF Len(watch.slots) <= Cardinality(DOMAIN account.storage)
    THEN ChangesOfWatched(watch, account) ELSE ChangesOfEntries(watch, account)

ExtractAccountChanges(watch, account) ==
  IF account.destroyed \/ Len(watch.slots) <= Cardinality(DOMAIN account.storage)
    THEN ChangesOfWatched(watch, account) ELSE ChangesOfEntries(watch, account)

\* Either loop of extract_changes visits the accounts that are watched and touched.
ExtractChanges(watch_set, bundle) ==
  UNION {ExtractAccountChanges(watch_set.addresses[a], bundle[a]) :
           a \in DOMAIN watch_set.addresses \cap DOMAIN bundle}

-----------------------------------------------------------------------------
(* publisher.rs and reth_integration.rs *)

\* External: the storage of an account after a block, from that before it.
PostState(storage, bundle) ==
  [a \in DOMAIN storage |-> [s \in DOMAIN storage[a] |->
     IF a \notin DOMAIN bundle THEN storage[a][s]
     ELSE IF s \in DOMAIN bundle[a].storage THEN bundle[a].storage[s].present
     ELSE IF bundle[a].destroyed THEN 0 ELSE storage[a][s]]]

\* load_at: every key read from a block's state.
LoadAt(watch_set, storage) ==
  [i \in DOMAIN watch_set.keys |-> storage[watch_set.keys[i].address][watch_set.keys[i].slot]]

Differing(before, after) == {i \in DOMAIN after : before[i] # after[i]}

\* project_candidate: a block's changes on top of its parent's values.
ApplyChanges(values, changes) ==
  [i \in DOMAIN values |->
     IF \E c \in changes : c.key_id = i
       THEN (CHOOSE c \in changes : c.key_id = i).new_value ELSE values[i]]

Project(values, changes) ==
  LET next == ApplyChanges(values, changes)
  IN  [values |-> next, bitmap |-> Differing(values, next)]

\* Fault: a candidate's own bitmap serves every transition to it.
CanonicalBitmapReused(previous, next, direct) ==
  IF next.bitmap # NoBitmap THEN next.bitmap ELSE Differing(previous.values, next.values)

\* canonical_changed_bitmap; direct: next is a child of previous.
CanonicalBitmap(previous, next, direct) ==
  IF direct /\ next.bitmap # NoBitmap THEN next.bitmap
  ELSE Differing(previous.values, next.values)

=============================================================================
