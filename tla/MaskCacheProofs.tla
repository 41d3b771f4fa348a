-------------------------- MODULE MaskCacheProofs --------------------------
(****************************************************************************)
(* Proofs about MaskCache for any number of threads, states, slots and      *)
(* values, any hash functions and masks of any length.                      *)
(*                                                                          *)
(* IInv adds to the properties what a call and an entry hold: every payload *)
(* an entry owns decodes to the mask of the entry's state. That survives    *)
(* eviction because a payload dies with its last entry and its identity is  *)
(* not reused while the ring still watches it, and it survives sharing      *)
(* because a payload is only shared after its words were compared. It also  *)
(* says that the live values of the ring stand under the hash of their own  *)
(* words, so a store that finds none may add one without repeating it.      *)
(****************************************************************************)
EXTENDS MaskCache, InductionFacts

----------------------------------------------------------------------------
(* Payloads *)

(* Whichever form from_words chooses, copying it out gives the words back.  *)
LEMMA DecodeEncode ==
    ASSUME NEW mask \in Masks
    PROVE  Decoded(FromWords(mask)) = mask /\ FromWords(mask) # Freed
<1> USE CacheAssumption DEF Masks, Words
<1>1. ASSUME NEW at \in SUBSET DOMAIN mask, NEW buf \in Masks,
             \A i \in DOMAIN mask \ at : buf[i] = mask[i]
      PROVE  Overwrite(buf, Listed(mask, at)) = mask
  <2>1. DOMAIN buf = 1..WordCount /\ DOMAIN mask = 1..WordCount
    OBVIOUS
  <2>2. ASSUME NEW i \in 1..WordCount
        PROVE  Overwrite(buf, Listed(mask, at))[i] = mask[i]
    <3>1. CASE i \in at
      <4>1. <<i, mask[i]>> \in Listed(mask, at)
        BY <3>1 DEF Listed
      <4>2. \A w \in Listed(mask, at) : w[1] = i => w[2] = mask[i]
        BY DEF Listed
      <4> QED
        BY <2>1, <4>1, <4>2 DEF Overwrite
    <3>2. CASE i \notin at
      <4>1. ~\E w \in Listed(mask, at) : w[1] = i
        BY <3>2 DEF Listed
      <4> QED
        BY <2>1, <3>2, <4>1, <1>1 DEF Overwrite
    <3> QED
      BY <3>1, <3>2
  <2> QED
    BY <2>1, <2>2 DEF Overwrite
<1>2. Zeros \in Masks /\ Original \in Masks
  BY DEF Zeros, Original
<1>3. Overwrite(Zeros, Listed(mask, NonZero(mask))) = mask
  BY <1>1, <1>2 DEF NonZero, Zeros
<1>4. Overwrite(Original, Listed(mask, Different(mask))) = mask
  BY <1>1, <1>2 DEF Different
<1>5. Overwrite(Zeros, Listed(mask, DOMAIN mask)) = mask
  BY <1>1, <1>2
<1> QED
  BY <1>3, <1>4, <1>5 DEF FromWords, Decoded, Freed

----------------------------------------------------------------------------
(* The value index *)

(* MaskValueIndex::get returns a payload that an entry holds and whose      *)
(* words are those asked for, or nothing.                                   *)
LEMMA GetExact ==
    ASSUME ValuesOK, NEW mask
    PROVE  \/ Get(mask) = None
           \/ /\ Get(mask) \in HeldBy(entries)
              /\ Decoded(heap[Get(mask)]) = mask
<1> DEFINE at == {i \in DOMAIN values : Matches(values[i], mask)}
<1>1. CASE at = {}
  BY <1>1 DEF Get
<1>2. CASE at # {}
  <2>1. Len(values) \in Nat /\ at \subseteq 0..Len(values)
    BY DEF ValuesOK
  <2>2. \E i \in at : \A j \in at : j <= i
    <3> HIDE DEF at
    <3> QED BY <1>2, <2>1, BoundedHasGreatest
  <2>3. PICK i \in at : Get(mask) = values[i].payload
    BY <1>2, <2>2 DEF Get
  <2> QED
    BY <2>3 DEF Matches
<1> QED
  BY <1>1, <1>2

(* The ring watches payloads. *)
LEMMA WatchedArePayloads ==
    ASSUME ValuesOK
    PROVE  \A i \in DOMAIN values : values[i].payload \in Payloads
<1> DEFINE ValueType == [hash : {MaskHash(m) : m \in Masks}, payload : Payloads]
<1>1. values \in Seq(ValueType)
  BY DEF ValuesOK
<1>2. \A v \in ValueType : v.payload \in Payloads
  OBVIOUS
<1> HIDE DEF ValueType
<1>3. \A i \in DOMAIN values : values[i] \in ValueType
  BY <1>1
<1> QED
  BY <1>2, <1>3

(* MaskValueIndex::get misses only when the ring has no live equal value.   *)
LEMMA GetMiss ==
    ASSUME ValuesOK, NEW mask, Get(mask) = None
    PROVE  \A i \in DOMAIN values : ~Matches(values[i], mask)
<1> DEFINE at == {i \in DOMAIN values : Matches(values[i], mask)}
<1>1. SUFFICES ASSUME at # {} PROVE FALSE
  OBVIOUS
<1>2. Len(values) \in Nat /\ at \subseteq 0..Len(values)
  BY DEF ValuesOK
<1>3. \E i \in at : \A j \in at : j <= i
  <2> HIDE DEF at
  <2> QED BY <1>1, <1>2, BoundedHasGreatest
<1>4. PICK i \in at : Get(mask) = values[i].payload
  BY <1>1, <1>3 DEF Get
<1>5. values[i].payload \in Payloads
  BY <1>4, WatchedArePayloads
<1> QED
  BY <1>4, <1>5, CacheAssumption

(* The elements of a sequence are no more than its length. *)
LEMMA SmallImage ==
    ASSUME NEW S, NEW s \in Seq(S), NEW f
    PROVE  LET I == {f[i] : i \in DOMAIN s}
           IN  IsFiniteSet(I) /\ Cardinality(I) <= Len(s)
<1> DEFINE I == {f[i] : i \in DOMAIN s}
           g == [i \in 1..Len(s) |-> f[i]]
<1>1. Len(s) \in Nat /\ DOMAIN s = 1..Len(s)
  OBVIOUS
<1>2. IsFiniteSet(1..Len(s)) /\ Cardinality(1..Len(s)) = Len(s)
  BY <1>1, FS_Interval
<1>3. g \in Surjection(1..Len(s), I)
  BY <1>1 DEF Surjection
<1> HIDE DEF g, I
<1>4. IsFiniteSet(I) /\ Cardinality(I) <= Cardinality(1..Len(s))
  BY <1>2, <1>3, FS_Surjection
<1> QED
  BY <1>2, <1>4 DEF I

(* An allocation is neither held nor watched. *)
LEMMA AllocateFresh ==
    ASSUME EntriesOK, ValuesOK, Bounded
    PROVE  Allocate \in Payloads /\ Allocate \notin HeldBy(entries) \union Watched
<1> DEFINE H == {entries[i].mask : i \in DOMAIN entries}
           U == HeldBy(entries) \union Watched
<1>1. IsFiniteSet(H) /\ Cardinality(H) <= Len(entries)
  <2> DEFINE f == [i \in DOMAIN entries |-> entries[i].mask]
  <2>1. H = {f[i] : i \in DOMAIN entries}
    OBVIOUS
  <2> HIDE DEF f, H
  <2> QED BY <2>1, SmallImage DEF EntriesOK
<1>2. IsFiniteSet(HeldBy(entries)) /\ Cardinality(HeldBy(entries)) <= Cardinality(H)
  <2>1. HeldBy(entries) \in SUBSET H
    BY DEF HeldBy
  <2> HIDE DEF H
  <2> QED BY <1>1, <2>1, FS_Subset
<1>3. IsFiniteSet(Watched) /\ Cardinality(Watched) <= Len(values)
  <2> DEFINE f == [i \in DOMAIN values |-> values[i].payload]
  <2>1. Watched = {f[i] : i \in DOMAIN values}
    BY DEF Watched
  <2> HIDE DEF f
  <2> QED BY <2>1, SmallImage DEF ValuesOK
<1>4. IsFiniteSet(U) /\ Cardinality(U) <= MaxEntries + MaxRecent
  <2>1. /\ IsFiniteSet(U)
        /\ Cardinality(U) = Cardinality(HeldBy(entries)) + Cardinality(Watched)
                              - Cardinality(HeldBy(entries) \cap Watched)
    BY <1>2, <1>3, FS_Union
  <2>2. IsFiniteSet(HeldBy(entries) \cap Watched)
    BY <1>2, FS_Intersection
  <2>3. /\ Cardinality(HeldBy(entries)) \in Nat /\ Cardinality(Watched) \in Nat
        /\ Cardinality(HeldBy(entries) \cap Watched) \in Nat /\ Cardinality(H) \in Nat
    BY <1>1, <1>2, <1>3, <2>2, FS_CardinalityType
  <2>4. Len(entries) \in Nat /\ Len(values) \in Nat
    BY DEF EntriesOK, ValuesOK
  <2> QED
    BY <1>1, <1>2, <1>3, <2>1, <2>3, <2>4, CacheAssumption DEF Bounded
<1>5. ~(Payloads \subseteq U)
  <2>1. SUFFICES ASSUME Payloads \in SUBSET U PROVE FALSE
    OBVIOUS
  <2>2. Cardinality(Payloads) <= Cardinality(U)
    BY <1>4, <2>1, FS_Subset
  <2>3. Cardinality(Payloads) \in Nat /\ Cardinality(U) \in Nat
    BY <1>4, AllocatorAssumption, FS_CardinalityType
  <2> QED
    BY <1>4, <2>2, <2>3, AllocatorAssumption, CacheAssumption
<1> QED
  BY <1>5 DEF Allocate

----------------------------------------------------------------------------
(* The index of the slots *)

(* A state without a listed slot has no entry at all. *)
LEMMA NoSlotNoEntry ==
    ASSUME IInv, NEW k \in Keys, SlotsFor(k) = {}
    PROVE  \A i \in DOMAIN entries : entries[i].key # k
<1> SUFFICES ASSUME NEW i \in DOMAIN entries, entries[i].key = k PROVE FALSE
  OBVIOUS
<1>1. Hash[k] \in Hashes /\ entries[i].hash = Hash[k]
  BY DEF IInv, EntriesOK, Hashes
<1>2. PICK n \in DOMAIN byHash[Hash[k]] : byHash[Hash[k]][n] = i
  BY <1>1 DEF IInv, IndexOK, IndexCoherent, ToSet
<1>3. n \in SlotsFor(k)
  BY <1>2 DEF SlotsFor, SlotsOf, IsFor
<1> QED
  BY <1>3

(* The first and the last listed slot of a state are its one entry. *)
LEMMA FoundSlot ==
    ASSUME IInv, NEW k \in Keys, SlotsFor(k) # {}
    PROVE  /\ FirstSlot(k) \in DOMAIN entries /\ entries[FirstSlot(k)].key = k
           /\ LastSlot(k) = FirstSlot(k)
<1>1. Hash[k] \in Hashes
  BY DEF Hashes
<1>2. byHash[Hash[k]] \in Seq(Nat)
  BY <1>1 DEF IInv, IndexOK
<1>3. \A n \in SlotsFor(k) :
        /\ n \in DOMAIN byHash[Hash[k]] /\ n \in Nat
        /\ byHash[Hash[k]][n] \in DOMAIN entries
        /\ entries[byHash[Hash[k]][n]].key = k
  BY <1>1, <1>2 DEF IInv, IndexOK, IndexCoherent, ToSet, SlotsFor, SlotsOf, IsFor
<1>4. \A m, n \in SlotsFor(k) : m = n
  <2> SUFFICES ASSUME NEW m \in SlotsFor(k), NEW n \in SlotsFor(k) PROVE m = n
    OBVIOUS
  <2>1. byHash[Hash[k]][m] = byHash[Hash[k]][n]
    BY <1>3 DEF IInv, IndexOK, IndexCoherent
  <2>2. IsInjective(byHash[Hash[k]])
    BY <1>1 DEF IInv, IndexOK, IndexCoherent
  <2> QED
    BY <1>3, <2>1, <2>2 DEF IsInjective
<1>5. PICK n \in SlotsFor(k) : TRUE
  OBVIOUS
<1>6. SlotsFor(k) = {n} /\ n <= n
  BY <1>3, <1>4, <1>5
<1>7. FirstSlot(k) = byHash[Hash[k]][n] /\ LastSlot(k) = byHash[Hash[k]][n]
  BY <1>6 DEF FirstSlot, LastSlot, SlotsOf
<1> QED
  BY <1>3, <1>5, <1>7

(* The elements of a sequence, by position. *)
LEMMA InToSet ==
    ASSUME NEW s, NEW n \in Nat, DOMAIN s = 1..n
    PROVE  \A x : x \in ToSet(s) <=> \E i \in 1..n : s[i] = x
  BY DEF ToSet

(* swap_remove takes one slot out of a list and nothing else. *)
LEMMA SwapRemoveExact ==
    ASSUME NEW list \in Seq(Nat), IsInjective(list), NEW slot \in ToSet(list)
    PROVE  /\ SwapRemove(list, slot) \in Seq(Nat)
           /\ IsInjective(SwapRemove(list, slot))
           /\ ToSet(SwapRemove(list, slot)) = ToSet(list) \ {slot}
<1>1. PICK n \in Nat : n = Len(list) /\ DOMAIN list = 1..n
  OBVIOUS
<1>2. PICK at : at = CHOOSE i \in DOMAIN list : list[i] = slot
  OBVIOUS
<1>3. at \in 1..n /\ list[at] = slot
  BY <1>1, <1>2 DEF ToSet
<1>4. PICK moved : moved = [list EXCEPT ![at] = list[n]]
  OBVIOUS
<1>5. /\ moved \in Seq(Nat) /\ Len(moved) = n
      /\ \A i \in 1..n : moved[i] = IF i = at THEN list[n] ELSE list[i]
  BY <1>1, <1>3, <1>4
<1>6. PICK r : r = SubSeq(moved, 1, n - 1)
  OBVIOUS
<1>7. SwapRemove(list, slot) = r
  BY <1>1, <1>2, <1>4, <1>5, <1>6 DEF SwapRemove, Front, Last
<1>8. r \in Seq(Nat) /\ Len(r) = n - 1
  BY <1>3, <1>5, <1>6
<1>9. /\ DOMAIN r = 1..(n - 1)
      /\ \A i \in 1..(n - 1) : r[i] = IF i = at THEN list[n] ELSE list[i]
  <2>1. DOMAIN r = 1..(n - 1)
    BY <1>8
  <2>2. \A i \in 1..(n - 1) : r[i] = moved[i]
    BY <1>3, <1>5, <1>6
  <2> QED
    BY <1>5, <2>1, <2>2
<1>10. \A i, j \in 1..n : list[i] = list[j] => i = j
  BY <1>1 DEF IsInjective
<1>11. IsInjective(r)
  <2> SUFFICES ASSUME NEW i \in 1..(n - 1), NEW j \in 1..(n - 1), r[i] = r[j] PROVE i = j
    BY <1>9 DEF IsInjective
  <2>1. i \in 1..n /\ j \in 1..n /\ n \in 1..n /\ i # n /\ j # n
    OBVIOUS
  <2> QED
    BY <1>9, <1>10, <2>1
<1>12. /\ \A x : x \in ToSet(r) <=> \E i \in 1..(n - 1) : r[i] = x
       /\ \A x : x \in ToSet(list) <=> \E i \in 1..n : list[i] = x
  <2>1. n - 1 \in Nat
    BY <1>3
  <2>2. \A x : x \in ToSet(r) <=> \E i \in 1..(n - 1) : r[i] = x
    BY <1>9, <2>1, InToSet
  <2>3. \A x : x \in ToSet(list) <=> \E i \in 1..n : list[i] = x
    BY <1>1, InToSet
  <2> QED
    BY <2>2, <2>3
<1>13. ASSUME NEW x \in ToSet(r) PROVE x \in ToSet(list) /\ x # slot
  <2>1. PICK i \in 1..(n - 1) : r[i] = x
    BY <1>12
  <2>2. x = IF i = at THEN list[n] ELSE list[i]
    BY <1>9, <2>1
  <2>3. i \in 1..n /\ n \in 1..n /\ i # n
    BY <2>1
  <2> QED
    BY <1>3, <1>10, <1>12, <2>2, <2>3
<1>14. ASSUME NEW x \in ToSet(list), x # slot PROVE x \in ToSet(r)
  <2>1. PICK i \in 1..n : list[i] = x
    BY <1>12
  <2>2. i # at
    BY <1>3, <1>14, <2>1
  <2>3. CASE i = n
    <3>1. at \in 1..(n - 1) /\ r[at] = x
      BY <1>3, <1>9, <2>1, <2>2, <2>3
    <3> QED
      BY <1>12, <3>1
  <2>4. CASE i # n
    <3>1. i \in 1..(n - 1) /\ r[i] = x
      BY <1>9, <2>1, <2>2, <2>4
    <3> QED
      BY <1>12, <3>1
  <2> QED
    BY <2>3, <2>4
<1>15. ToSet(r) = ToSet(list) \ {slot}
  BY <1>13, <1>14
<1> QED
  BY <1>7, <1>8, <1>11, <1>15

(* Appending a slot that is not listed. *)
LEMMA AppendSlot ==
    ASSUME NEW list \in Seq(Nat), IsInjective(list), NEW slot \in Nat, slot \notin ToSet(list)
    PROVE  /\ Append(list, slot) \in Seq(Nat)
           /\ IsInjective(Append(list, slot))
           /\ ToSet(Append(list, slot)) = ToSet(list) \union {slot}
<1>1. PICK n \in Nat : n = Len(list) /\ DOMAIN list = 1..n
  OBVIOUS
<1>2. PICK r : r = Append(list, slot)
  OBVIOUS
<1>3. /\ DOMAIN r = 1..(n + 1) /\ r \in Seq(Nat)
      /\ \A i \in 1..n : r[i] = list[i]
      /\ r[n + 1] = slot
  BY <1>1, <1>2
<1>4. /\ \A x : x \in ToSet(r) <=> \E i \in 1..(n + 1) : r[i] = x
      /\ \A x : x \in ToSet(list) <=> \E i \in 1..n : list[i] = x
  <2>1. n + 1 \in Nat
    OBVIOUS
  <2>2. \A x : x \in ToSet(r) <=> \E i \in 1..(n + 1) : r[i] = x
    BY <1>3, <2>1, InToSet
  <2>3. \A x : x \in ToSet(list) <=> \E i \in 1..n : list[i] = x
    BY <1>1, InToSet
  <2> QED
    BY <2>2, <2>3
<1>5. \A i, j \in 1..n : list[i] = list[j] => i = j
  BY <1>1 DEF IsInjective
<1>6. IsInjective(r)
  <2> SUFFICES ASSUME NEW i \in 1..(n + 1), NEW j \in 1..(n + 1), r[i] = r[j] PROVE i = j
    BY <1>3 DEF IsInjective
  <2>1. \A m \in 1..(n + 1) : m \in 1..n \/ m = n + 1
    OBVIOUS
  <2>2. \A m \in 1..n : r[m] # slot
    BY <1>3, <1>4
  <2> QED
    BY <1>3, <1>5, <2>1, <2>2
<1>7. ASSUME NEW x PROVE x \in ToSet(r) <=> x \in ToSet(list) \/ x = slot
  <2>1. /\ \A i \in 1..(n + 1) : i \in 1..n \/ i = n + 1
        /\ \A i \in 1..n : i \in 1..(n + 1)
        /\ n + 1 \in 1..(n + 1)
    OBVIOUS
  <2>2. x \in ToSet(list) \/ x = slot <=> \E i \in 1..(n + 1) : r[i] = x
    BY <1>3, <1>4, <2>1
  <2> QED BY <1>4, <2>2
<1> QED
  BY <1>2, <1>3, <1>6, <1>7

----------------------------------------------------------------------------
(* What a store does to the entries *)

EntryType == [hash : Hashes, key : Keys, mask : Payloads \union {None}]

Entry(k, p) == [hash |-> Hash[k], key |-> k, mask |-> p]

(* One slot now holds the given entry of k, and the others are as before. *)
Wrote(slot, k, p) ==
    /\ entries' \in Seq(EntryType) /\ Len(entries') <= MaxEntries
    /\ slot \in DOMAIN entries' /\ entries'[slot] = Entry(k, p)
    /\ \A i \in DOMAIN entries' \ {slot} : i \in DOMAIN entries /\ entries'[i] = entries[i]

(* A new entry grows the vector and is listed under its hash. *)
LEMMA GrowKeepsIndex ==
    ASSUME IInv, NEW k \in Keys, SlotsFor(k) = {}, NEW p \in Payloads \union {None},
           MayGrow, Place(Entry(k, p))
    PROVE  IndexOK' /\ \E slot : Wrote(slot, k, p)
<1>1. PICK n \in Nat : n = Len(entries) /\ DOMAIN entries = 1..n /\ n < MaxEntries
  BY DEF IInv, EntriesOK, MayGrow
<1>2. entries \in Seq(EntryType) /\ Entry(k, p) \in EntryType /\ Hash[k] \in Hashes
  BY DEF IInv, EntriesOK, EntryType, Entry, Hashes
<1>3. /\ entries' = Append(entries, Entry(k, p))
      /\ byHash' = [byHash EXCEPT ![Hash[k]] = Append(@, n + 1)]
      /\ nextSlot' = nextSlot
  BY <1>1 DEF Place, Entry
<1>4. /\ entries' \in Seq(EntryType) /\ Len(entries') = n + 1 /\ DOMAIN entries' = 1..(n + 1)
      /\ entries'[n + 1] = Entry(k, p)
      /\ \A i \in 1..n : entries'[i] = entries[i]
  BY <1>1, <1>2, <1>3
<1>5. Wrote(n + 1, k, p)
  <2>1. \A i \in DOMAIN entries' \ {n + 1} : i \in DOMAIN entries /\ entries'[i] = entries[i]
    BY <1>1, <1>4
  <2> QED
    BY <1>1, <1>4, <2>1, CacheAssumption DEF Wrote
<1>6. \A h \in Hashes : /\ byHash[h] \in Seq(Nat) /\ IsInjective(byHash[h])
                        /\ ToSet(byHash[h]) = {i \in 1..n : entries[i].hash = h}
  BY <1>1 DEF IInv, IndexOK, IndexCoherent
<1>7. /\ Append(byHash[Hash[k]], n + 1) \in Seq(Nat)
      /\ IsInjective(Append(byHash[Hash[k]], n + 1))
      /\ ToSet(Append(byHash[Hash[k]], n + 1)) = ToSet(byHash[Hash[k]]) \union {n + 1}
  <2>1. n + 1 \in Nat /\ n + 1 \notin ToSet(byHash[Hash[k]])
    BY <1>2, <1>6
  <2> QED
    BY <1>2, <1>6, <2>1, AppendSlot
<1>8. byHash' \in [Hashes -> Seq(Nat)]
  BY <1>2, <1>3, <1>7 DEF IInv, IndexOK
<1>9. ASSUME NEW h \in Hashes
      PROVE  /\ IsInjective(byHash'[h])
             /\ ToSet(byHash'[h]) = {i \in 1..(n + 1) : entries'[i].hash = h}
  <2>1. entries'[n + 1].hash = Hash[k]
    BY <1>4 DEF Entry
  <2>2. CASE h = Hash[k]
    <3>1. byHash'[h] = Append(byHash[Hash[k]], n + 1)
      BY <1>3, <2>2 DEF IInv, IndexOK
    <3>2. {i \in 1..(n + 1) : entries'[i].hash = h}
            = {i \in 1..n : entries[i].hash = h} \union {n + 1}
      BY <1>4, <2>1, <2>2
    <3> QED
      BY <1>6, <1>7, <2>2, <3>1, <3>2
  <2>3. CASE h # Hash[k]
    <3>1. byHash'[h] = byHash[h]
      BY <1>3, <2>3 DEF IInv, IndexOK
    <3>2. {i \in 1..(n + 1) : entries'[i].hash = h} = {i \in 1..n : entries[i].hash = h}
      BY <1>4, <2>1, <2>3
    <3> QED
      BY <1>6, <3>1, <3>2
  <2> QED
    BY <2>2, <2>3
<1>10. \A i, j \in 1..(n + 1) : entries'[i].key = entries'[j].key => i = j
  <2> SUFFICES ASSUME NEW i \in 1..(n + 1), NEW j \in 1..(n + 1),
                      entries'[i].key = entries'[j].key
               PROVE  i = j
    OBVIOUS
  <2>1. entries'[n + 1].key = k
    BY <1>4 DEF Entry
  <2>2. \A m \in 1..n : entries[m].key # k /\ entries'[m].key = entries[m].key
    BY <1>1, <1>4, NoSlotNoEntry
  <2>3. \A m \in 1..(n + 1) : m \in 1..n \/ m = n + 1
    OBVIOUS
  <2> QED
    BY <1>1, <2>1, <2>2, <2>3 DEF IInv, IndexOK, IndexCoherent
<1> QED
  BY <1>3, <1>4, <1>5, <1>8, <1>9, <1>10 DEF IInv, IndexOK, IndexCoherent

(* A new entry evicts the next slot in turn: the slot leaves the list of    *)
(* its old hash and joins that of the new one.                              *)
LEMMA EvictKeepsIndex ==
    ASSUME IInv, NEW k \in Keys, SlotsFor(k) = {}, NEW p \in Payloads \union {None},
           ~MayGrow, Place(Entry(k, p))
    PROVE  IndexOK' /\ \E slot : Wrote(slot, k, p)
<1>1. /\ Len(entries) = MaxEntries /\ DOMAIN entries = 1..MaxEntries
      /\ MaxEntries \in Nat \ {0} /\ nextSlot \in 1..MaxEntries
  BY CacheAssumption DEF IInv, EntriesOK, IndexOK, Bounded, MayGrow
<1>2. /\ entries \in Seq(EntryType) /\ Entry(k, p) \in EntryType /\ Hash[k] \in Hashes
      /\ entries[nextSlot].hash \in Hashes
  <2>1. entries \in Seq(EntryType) /\ Entry(k, p) \in EntryType /\ Hash[k] \in Hashes
    BY DEF IInv, EntriesOK, EntryType, Entry, Hashes
  <2>2. entries[nextSlot] \in EntryType
    BY <1>1, <2>1
  <2> QED
    BY <2>1, <2>2 DEF EntryType
<1>3. PICK old \in Hashes : old = entries[nextSlot].hash
  BY <1>2
<1>4. PICK index : index = [byHash EXCEPT ![old] = SwapRemove(@, nextSlot)]
  OBVIOUS
<1>5. /\ entries' = [entries EXCEPT ![nextSlot] = Entry(k, p)]
      /\ byHash' = [index EXCEPT ![Hash[k]] = Append(@, nextSlot)]
      /\ nextSlot' = (nextSlot % MaxEntries) + 1
  BY <1>3, <1>4 DEF Place, Unlink, Entry
<1>6. /\ entries' \in Seq(EntryType) /\ Len(entries') = MaxEntries
      /\ DOMAIN entries' = 1..MaxEntries
      /\ entries'[nextSlot] = Entry(k, p)
      /\ \A i \in 1..MaxEntries \ {nextSlot} : entries'[i] = entries[i]
  BY <1>1, <1>2, <1>5
<1>7. Wrote(nextSlot, k, p)
  BY <1>1, <1>6 DEF Wrote
<1>8. \A h \in Hashes : /\ byHash[h] \in Seq(Nat) /\ IsInjective(byHash[h])
                        /\ ToSet(byHash[h]) = {i \in 1..MaxEntries : entries[i].hash = h}
  BY <1>1 DEF IInv, IndexOK, IndexCoherent
<1>9. \A h \in Hashes :
        /\ index[h] \in Seq(Nat) /\ IsInjective(index[h])
        /\ ToSet(index[h]) = {i \in 1..MaxEntries \ {nextSlot} : entries[i].hash = h}
  <2> TAKE h \in Hashes
  <2>1. CASE h = old
    <3>1. nextSlot \in ToSet(byHash[old])
      BY <1>1, <1>3, <1>8
    <3>2. index[h] = SwapRemove(byHash[old], nextSlot)
      BY <1>4, <2>1 DEF IInv, IndexOK
    <3> QED
      BY <1>8, <2>1, <3>1, <3>2, SwapRemoveExact
  <2>2. CASE h # old
    <3>1. index[h] = byHash[h]
      BY <1>4, <2>2 DEF IInv, IndexOK
    <3> QED
      BY <1>3, <1>8, <2>2, <3>1
  <2> QED
    BY <2>1, <2>2
<1>10. DOMAIN index = Hashes /\ index \in [Hashes -> Seq(Nat)]
  <2>1. DOMAIN index = Hashes /\ index = [h \in Hashes |-> index[h]]
    BY <1>4 DEF IInv, IndexOK
  <2> QED
    BY <1>9, <2>1
<1>11. /\ Append(index[Hash[k]], nextSlot) \in Seq(Nat)
       /\ IsInjective(Append(index[Hash[k]], nextSlot))
       /\ ToSet(Append(index[Hash[k]], nextSlot)) = ToSet(index[Hash[k]]) \union {nextSlot}
  <2>1. nextSlot \in Nat /\ nextSlot \notin ToSet(index[Hash[k]])
    BY <1>1, <1>2, <1>9
  <2> QED
    BY <1>2, <1>9, <2>1, AppendSlot
<1>12. byHash' \in [Hashes -> Seq(Nat)]
  BY <1>2, <1>5, <1>10, <1>11
<1>13. ASSUME NEW h \in Hashes
       PROVE  /\ IsInjective(byHash'[h])
              /\ ToSet(byHash'[h]) = {i \in 1..MaxEntries : entries'[i].hash = h}
  <2>1. entries'[nextSlot].hash = Hash[k]
    BY <1>6 DEF Entry
  <2>2. CASE h = Hash[k]
    <3>1. byHash'[h] = Append(index[Hash[k]], nextSlot)
      BY <1>5, <1>10, <2>2
    <3>2. {i \in 1..MaxEntries : entries'[i].hash = h}
            = {i \in 1..MaxEntries \ {nextSlot} : entries[i].hash = h} \union {nextSlot}
      BY <1>1, <1>6, <2>1, <2>2
    <3> QED
      BY <1>9, <1>11, <2>2, <3>1, <3>2
  <2>3. CASE h # Hash[k]
    <3>1. byHash'[h] = index[h]
      BY <1>5, <1>10, <2>3
    <3>2. {i \in 1..MaxEntries : entries'[i].hash = h}
            = {i \in 1..MaxEntries \ {nextSlot} : entries[i].hash = h}
      BY <1>6, <2>1, <2>3
    <3> QED
      BY <1>9, <3>1, <3>2
  <2> QED
    BY <2>2, <2>3
<1>14. \A i, j \in 1..MaxEntries : entries'[i].key = entries'[j].key => i = j
  <2>1. entries'[nextSlot].key = k
    BY <1>6 DEF Entry
  <2>2. \A m \in 1..MaxEntries \ {nextSlot} : entries[m].key # k /\ entries'[m] = entries[m]
    BY <1>1, <1>6, NoSlotNoEntry
  <2> QED
    BY <1>1, <2>1, <2>2 DEF IInv, IndexOK, IndexCoherent
<1>15. nextSlot' \in 1..MaxEntries
  BY <1>1, <1>5
<1> QED
  BY <1>6, <1>7, <1>12, <1>13, <1>14, <1>15 DEF IndexOK, IndexCoherent

(* An upgrade rewrites the slot of its own state. *)
LEMMA UpgradeKeepsIndex ==
    ASSUME IInv, NEW k \in Keys, SlotsFor(k) # {}, NEW p \in Payloads \union {None},
           entries' = [entries EXCEPT ![FirstSlot(k)].mask = p], UNCHANGED <<byHash, nextSlot>>
    PROVE  IndexOK' /\ Wrote(FirstSlot(k), k, p)
<1>1. PICK slot \in DOMAIN entries : slot = FirstSlot(k) /\ entries[slot].key = k
  BY FoundSlot
<1>2. entries \in Seq(EntryType) /\ entries[slot].hash = Hash[k]
  BY <1>1 DEF IInv, EntriesOK, EntryType
<1>3. entries[slot] \in EntryType
  BY <1>1, <1>2
<1>4. [entries[slot] EXCEPT !.mask = p] = Entry(k, p) /\ Entry(k, p) \in EntryType
  BY <1>1, <1>2, <1>3 DEF EntryType, Entry
<1>5. entries' = [entries EXCEPT ![slot] = Entry(k, p)]
  BY <1>1, <1>4
<1>6. /\ entries' \in Seq(EntryType) /\ Len(entries') = Len(entries)
      /\ DOMAIN entries' = DOMAIN entries
      /\ entries'[slot] = Entry(k, p)
      /\ \A i \in DOMAIN entries \ {slot} : entries'[i] = entries[i]
  BY <1>1, <1>2, <1>4, <1>5
<1>7. \A i \in DOMAIN entries : /\ entries'[i].hash = entries[i].hash
                                /\ entries'[i].key = entries[i].key
  BY <1>1, <1>2, <1>6 DEF Entry
<1>8. IndexOK'
  BY <1>6, <1>7 DEF IInv, IndexOK, IndexCoherent
<1> QED
  BY <1>1, <1>6, <1>8 DEF Wrote, IInv, Bounded

----------------------------------------------------------------------------
(* What a store does to the payloads *)

LEMMA HeldArePayloads ==
    ASSUME EntriesOK
    PROVE  HeldBy(entries) \subseteq Payloads
<1>1. entries \in Seq(EntryType)
  BY DEF EntriesOK, EntryType
<1>2. \A i \in DOMAIN entries : entries[i] \in EntryType
  BY <1>1
<1> QED
  BY <1>2 DEF EntryType, HeldBy

(* The payload given to a mask is a held one with the same words or fresh.  *)
LEMMA SharedExact ==
    ASSUME IInv, NEW mask
    PROVE  /\ Shared(mask) \in Payloads
           /\ Shared(mask) \in HeldBy(entries) => Decoded(heap[Shared(mask)]) = mask
<1>1. HeldBy(entries) \subseteq Payloads
  BY HeldArePayloads DEF IInv
<1>2. CASE Get(mask) = None
  BY <1>2, AllocateFresh DEF IInv, Shared
<1>3. CASE Get(mask) # None
  BY <1>1, <1>3, GetExact DEF IInv, Shared
<1> QED
  BY <1>2, <1>3

(* Every entry decodes to the mask of its state after a store, and exactly  *)
(* the payloads of entries are alive.                                       *)
LEMMA StoreKeepsPayloads ==
    ASSUME IInv, NEW k \in Keys, NEW p \in {None, Shared(Exact[k])}, NEW slot,
           Wrote(slot, k, p), Alive(Exact[k])
    PROVE  EntriesOK' /\ {q \in Payloads : heap'[q] # Freed} = HeldBy(entries')
<1> DEFINE mask == Exact[k]
<1>1. mask \in Masks
  BY CacheAssumption DEF Masks
<1>2. Decoded(FromWords(mask)) = mask /\ FromWords(mask) # Freed
  <2> HIDE DEF mask
  <2> QED BY <1>1, DecodeEncode
<1>3. None \notin Payloads /\ p \in Payloads \union {None}
  BY CacheAssumption, SharedExact
<1>4. \A i \in DOMAIN entries' : entries'[i] \in EntryType
  BY DEF Wrote
<1>5. HeldBy(entries') \subseteq Payloads
  BY <1>4 DEF HeldBy, EntryType
<1>6. heap' = [q \in Payloads |-> IF q \notin HeldBy(entries') THEN Freed
                                   ELSE IF q \in HeldBy(entries) THEN heap[q]
                                   ELSE FromWords(mask)]
  BY DEF Alive
<1>7. \A q \in HeldBy(entries) : heap[q] # Freed
  BY DEF IInv, Bounded
<1>8. {q \in Payloads : heap'[q] # Freed} = HeldBy(entries')
  BY <1>2, <1>5, <1>6, <1>7
<1>9. ASSUME NEW i \in DOMAIN entries'
      PROVE  /\ entries'[i].hash = Hash[entries'[i].key]
             /\ entries'[i].mask # None =>
                  Decoded(heap'[entries'[i].mask]) = Exact[entries'[i].key]
  <2>1. entries'[i].mask # None => entries'[i].mask \in HeldBy(entries')
    BY DEF HeldBy
  <2>2. CASE i = slot
    <3>1. entries'[i] = Entry(k, p)
      BY <2>2 DEF Wrote
    <3>2. ASSUME p # None PROVE Decoded(heap'[p]) = mask
      <4>1. p \in HeldBy(entries') /\ p \in Payloads /\ p = Shared(mask)
        BY <1>3, <2>1, <3>1, <3>2 DEF Entry
      <4>2. CASE p \in HeldBy(entries)
        <5>1. heap'[p] = heap[p]
          BY <1>6, <4>1, <4>2
        <5> QED
          BY <4>1, <4>2, <5>1, SharedExact
      <4>3. CASE p \notin HeldBy(entries)
        <5>1. heap'[p] = FromWords(mask)
          BY <1>6, <4>1, <4>3
        <5> QED
          BY <1>2, <5>1
      <4> QED
        BY <4>2, <4>3
    <3> QED
      BY <3>1, <3>2 DEF Entry
  <2>3. CASE i # slot
    <3>1. i \in DOMAIN entries /\ entries'[i] = entries[i]
      BY <2>3 DEF Wrote
    <3>2. /\ entries[i].hash = Hash[entries[i].key]
          /\ entries[i].mask # None =>
               Decoded(heap[entries[i].mask]) = Exact[entries[i].key]
      BY <3>1 DEF IInv, EntriesOK
    <3>3. ASSUME entries[i].mask # None
          PROVE  heap'[entries[i].mask] = heap[entries[i].mask]
      <4>1. entries[i].mask \in HeldBy(entries) /\ entries[i].mask \in HeldBy(entries')
        BY <2>1, <3>1, <3>3 DEF HeldBy
      <4> QED
        BY <1>5, <1>6, <4>1
    <3> QED
      BY <3>1, <3>2, <3>3
  <2> QED
    BY <2>2, <2>3
<1> QED
  BY <1>8, <1>9 DEF EntriesOK, Wrote, EntryType

(* The ring stays within its bound and watches payloads. *)
LEMMA WatchKeepsValues ==
    ASSUME IInv, NEW mask \in Masks, Watch(mask)
    PROVE  ValuesOK' /\ Len(values') <= MaxRecent
<1> DEFINE ValueType == [hash : {MaskHash(m) : m \in Masks}, payload : Payloads]
           v == [hash |-> MaskHash(mask), payload |-> Allocate]
<1>1. CASE Get(mask) # None
  BY <1>1 DEF Watch, IInv, ValuesOK, Bounded
<1>2. CASE Get(mask) = None
  <2>1. v \in ValueType
    BY AllocateFresh DEF IInv
  <2>2. values \in Seq(ValueType) /\ nextValue \in 1..MaxRecent /\ MaxRecent \in Nat \ {0}
    BY CacheAssumption DEF IInv, ValuesOK
  <2>3. Insert(v)
    BY <1>2 DEF Watch
  <2>4. Len(values) <= MaxRecent
    BY DEF IInv, Bounded
  <2> HIDE DEF v, ValueType
  <2>5. CASE Len(values) < MaxRecent
    <3>1. values' = Append(values, v) /\ nextValue' = nextValue
      BY <2>3, <2>5 DEF Insert
    <3>2. values' \in Seq(ValueType) /\ Len(values') <= MaxRecent
      BY <2>1, <2>2, <2>5, <3>1
    <3> QED
      BY <2>2, <3>1, <3>2 DEF ValuesOK, ValueType
  <2>6. CASE ~(Len(values) < MaxRecent)
    <3>1. /\ values' = [values EXCEPT ![nextValue] = v]
          /\ nextValue' = (nextValue % MaxRecent) + 1
      BY <2>3, <2>6 DEF Insert
    <3>2. values' \in Seq(ValueType) /\ Len(values') = Len(values)
      BY <2>1, <2>2, <2>4, <2>6, <3>1
    <3>3. nextValue' \in 1..MaxRecent
      BY <2>2, <3>1
    <3> QED
      BY <2>4, <3>2, <3>3 DEF ValuesOK, ValueType
  <2> QED
    BY <2>5, <2>6
<1> QED
  BY <1>1, <1>2

(* Where the elements of the ring come from: those it had, and the new one  *)
(* when no equal value was found.                                           *)
LEMMA WatchedBefore ==
    ASSUME IInv, NEW mask, Watch(mask) \/ UNCHANGED <<values, nextValue>>,
           NEW i \in DOMAIN values'
    PROVE  \/ i \in DOMAIN values /\ values'[i] = values[i]
           \/ /\ values'[i] = [hash |-> MaskHash(mask), payload |-> Allocate]
              /\ Get(mask) = None
<1> DEFINE ValueType == [hash : {MaskHash(m) : m \in Masks}, payload : Payloads]
           v == [hash |-> MaskHash(mask), payload |-> Allocate]
<1>1. CASE UNCHANGED <<values, nextValue>>
  BY <1>1
<1>2. CASE ~UNCHANGED <<values, nextValue>>
  <2>1. Get(mask) = None /\ Insert(v)
    BY <1>2 DEF Watch
  <2>2. PICK n \in Nat : n = Len(values) /\ DOMAIN values = 1..n
    BY DEF IInv, ValuesOK
  <2>3. values \in Seq(ValueType)
    BY DEF IInv, ValuesOK
  <2> HIDE DEF v, ValueType
  <2>4. CASE values' = Append(values, v)
    BY <2>1, <2>2, <2>3, <2>4 DEF v
  <2>5. CASE values' = [values EXCEPT ![nextValue] = v]
    BY <2>1, <2>2, <2>5 DEF v
  <2> QED
    BY <2>1, <2>4, <2>5 DEF Insert
<1> QED
  BY <1>1, <1>2

(* A store keeps the live values of the ring under their own hashes and     *)
(* without repetition.                                                      *)
LEMMA StoreKeepsRing ==
    ASSUME IInv, NEW k \in Keys, NEW p \in {None, Shared(Exact[k])}, NEW slot,
           Wrote(slot, k, p), Alive(Exact[k]),
           Watch(Exact[k]) \/ UNCHANGED <<values, nextValue>>
    PROVE  RingOK'
<1>1. PICK mask \in Masks : mask = Exact[k]
  BY CacheAssumption DEF Masks
<1>2. Allocate \in Payloads /\ Allocate \notin HeldBy(entries) \union Watched
  BY AllocateFresh DEF IInv
<1>3. \A q \in HeldBy(entries') : q \in Payloads /\ (q \in HeldBy(entries) \/ q = Shared(mask))
  <2>1. \A i \in DOMAIN entries' : entries'[i] \in EntryType
    BY DEF Wrote
  <2>2. HeldBy(entries') \subseteq Payloads
    BY <2>1 DEF HeldBy, EntryType
  <2>3. \A i \in DOMAIN entries' :
          entries'[i].mask \in HeldBy(entries) \union {None, Shared(mask)}
    <3>1. entries'[slot].mask \in {None, Shared(mask)}
      BY <1>1 DEF Wrote, Entry
    <3>2. \A i \in DOMAIN entries' \ {slot} : entries'[i].mask \in HeldBy(entries) \union {None}
      BY DEF Wrote, HeldBy
    <3> QED
      BY <3>1, <3>2
  <2> QED
    BY <2>2, <2>3 DEF HeldBy
<1>4. \A q \in HeldBy(entries') :
        heap'[q] = IF q \in HeldBy(entries) THEN heap[q] ELSE FromWords(mask)
  BY <1>1, <1>3 DEF Alive
\* A value that the ring had and that is still alive was alive before.
<1>5. ASSUME NEW i \in DOMAIN values, values[i].payload \in HeldBy(entries')
      PROVE  values[i].payload \in HeldBy(entries) /\ heap'[values[i].payload] = heap[values[i].payload]
  <2>1. values[i].payload \in Watched
    BY DEF Watched
  <2>2. Shared(mask) \in HeldBy(entries) \/ Shared(mask) = Allocate
    BY GetExact DEF Shared, IInv
  <2> QED
    BY <1>2, <1>3, <1>4, <1>5, <2>1, <2>2
\* The new value, if alive, has the words of the mask, which no other has.
<1>6. ASSUME Allocate \in HeldBy(entries') PROVE Decoded(heap'[Allocate]) = mask
  BY <1>2, <1>4, <1>6, DecodeEncode
<1>7. ASSUME Get(mask) = None, NEW i \in DOMAIN values, values[i].payload \in HeldBy(entries)
      PROVE  Decoded(heap[values[i].payload]) # mask
  BY <1>7, GetMiss DEF IInv, RingOK, Matches
<1>8. ASSUME NEW i \in DOMAIN values', values'[i].payload \in HeldBy(entries')
      PROVE  \/ /\ i \in DOMAIN values /\ values'[i] = values[i]
                /\ values[i].payload \in HeldBy(entries)
                /\ heap'[values[i].payload] = heap[values[i].payload]
             \/ /\ values'[i] = [hash |-> MaskHash(mask), payload |-> Allocate]
                /\ Get(mask) = None /\ Decoded(heap'[Allocate]) = mask
  BY <1>1, <1>5, <1>6, <1>8, WatchedBefore
<1>9. ASSUME NEW i \in DOMAIN values', values'[i].payload \in HeldBy(entries')
      PROVE  values'[i].hash = MaskHash(Decoded(heap'[values'[i].payload]))
  BY <1>8, <1>9 DEF IInv, RingOK
<1>10. ASSUME NEW i \in DOMAIN values', values'[i].payload \in HeldBy(entries'),
              NEW j \in DOMAIN values', values'[j].payload \in HeldBy(entries'),
              Decoded(heap'[values'[i].payload]) = Decoded(heap'[values'[j].payload])
       PROVE  values'[i].payload = values'[j].payload
  BY <1>7, <1>8, <1>10 DEF IInv, RingOK
<1> QED
  BY <1>9, <1>10 DEF RingOK

----------------------------------------------------------------------------
(* The actions *)

(* A lookup that hits returns the mask of its state. *)
LEMMA LookupKeepsInv ==
    ASSUME IInv, NEW t \in Threads, NEW k \in Keys, Lookup(t, k)
    PROVE  IInv'
<1>1. Hit(k) => Decoded(heap[entries[LastSlot(k)].mask]) = Exact[k]
  BY FoundSlot DEF Hit, IInv, EntriesOK
<1>2. CallsOK'
  <2>1. PICK c : call' = [call EXCEPT ![t] = c] /\ CallOK(c)
    <3>1. CASE Hit(k)
      <4> DEFINE c == [pc |-> "returned", key |-> k, buf |-> Exact[k]]
      <4>1. call' = [call EXCEPT ![t] = c] /\ CallOK(c)
        BY <1>1, <3>1 DEF Lookup, CallOK
      <4> QED
        BY <4>1
    <3>2. CASE ~Hit(k)
      <4> DEFINE c == [pc |-> "walk", key |-> k, buf |-> << >>]
      <4>1. call' = [call EXCEPT ![t] = c] /\ CallOK(c)
        BY <3>2 DEF Lookup, CallOK
      <4> QED
        BY <4>1
    <3> QED
      BY <3>1, <3>2
  <2> QED
    BY <2>1 DEF IInv, CallsOK
<1> QED
  BY <1>2 DEF Lookup, IInv, EntriesOK, IndexOK, IndexCoherent, ValuesOK, Bounded, RingOK, HeldBy

(* The walk computes the mask of the state that the lookup missed. *)
LEMMA WalkKeepsInv ==
    ASSUME IInv, NEW t \in Threads, Walk(t)
    PROVE  IInv'
<1>1. call[t].key \in Keys /\ call[t] = [pc |-> "walk", key |-> call[t].key, buf |-> << >>]
  BY DEF Walk, IInv, CallsOK, CallOK, Idle
<1>2. PICK c : call' = [call EXCEPT ![t] = c] /\ CallOK(c)
  <2>1. CASE call' = [call EXCEPT ![t].pc = "walked", ![t].buf = Exact[call[t].key]]
    <3> DEFINE c == [pc |-> "walked", key |-> call[t].key, buf |-> Exact[call[t].key]]
    <3>1. DOMAIN call = Threads /\ DOMAIN call' = Threads
      BY <2>1 DEF IInv, CallsOK
    <3>2. call'[t] = c /\ \A u \in Threads \ {t} : call'[u] = call[u]
      BY <1>1, <2>1, <3>1
    <3>3. call' = [call EXCEPT ![t] = c]
      <4>1. call' = [u \in Threads |-> call'[u]]
        BY <2>1, <3>1
      <4> QED
        BY <3>1, <3>2, <4>1
    <3>4. CallOK(c)
      BY <1>1 DEF CallOK
    <3> QED
      BY <3>3, <3>4
  <2>2. CASE call' = [call EXCEPT ![t] = Idle]
    BY <2>2 DEF CallOK
  <2> QED
    BY <2>1, <2>2 DEF Walk
<1>3. CallsOK'
  BY <1>2 DEF IInv, CallsOK
<1> QED
  BY <1>3 DEF Walk, IInv, EntriesOK, IndexOK, IndexCoherent, ValuesOK, Bounded, RingOK, HeldBy

LEMMA ReturnKeepsInv ==
    ASSUME IInv, NEW t \in Threads, Return(t)
    PROVE  IInv'
<1>1. CallsOK'
  BY DEF Return, IInv, CallsOK, CallOK
<1> QED
  BY <1>1 DEF Return, IInv, EntriesOK, IndexOK, IndexCoherent, ValuesOK, Bounded, RingOK, HeldBy

(* cache_mask stores the mask of the state that the call was made for. *)
LEMMA CacheMaskKeepsInv ==
    ASSUME IInv, NEW t \in Threads, CacheMask(t)
    PROVE  IInv'
<1>1. PICK k \in Keys : call[t] = [pc |-> "walked", key |-> k, buf |-> Exact[k]]
  BY DEF CacheMask, IInv, CallsOK, CallOK, Idle
<1>2. PICK mask \in Masks : mask = Exact[k]
  BY CacheAssumption DEF Masks
<1>3. call[t].key = k /\ call[t].buf = mask
  BY <1>1, <1>2
<1>4. CallsOK'
  <2> DEFINE c == [pc |-> "returned", key |-> k, buf |-> Exact[k]]
  <2>1. [call[t] EXCEPT !.pc = "returned"] = c
    BY <1>1
  <2>2. call' = [call EXCEPT ![t] = [@ EXCEPT !.pc = "returned"]]
    BY DEF CacheMask
  <2>3. call' = [call EXCEPT ![t] = c]
    BY <2>1, <2>2
  <2>4. CallOK(c)
    BY DEF CallOK
  <2> QED
    BY <2>3, <2>4 DEF IInv, CallsOK
<1>5. Alive(mask)
  BY <1>3 DEF CacheMask
<1>6. ASSUME NEW slot, NEW p \in {None, Shared(mask)}, Wrote(slot, k, p), IndexOK',
             Watch(mask) \/ UNCHANGED <<values, nextValue>>
      PROVE  IInv'
  <2>1. EntriesOK' /\ {q \in Payloads : heap'[q] # Freed} = HeldBy(entries')
    BY <1>2, <1>5, <1>6, StoreKeepsPayloads
  <2>2. ValuesOK' /\ Len(values') <= MaxRecent
    <3>1. CASE Watch(mask)
      BY <3>1, WatchKeepsValues
    <3>2. CASE UNCHANGED <<values, nextValue>>
      BY <3>2 DEF IInv, ValuesOK, Bounded
    <3> QED
      BY <1>6, <3>1, <3>2
  <2>3. RingOK'
    BY <1>2, <1>5, <1>6, StoreKeepsRing
  <2> QED
    BY <1>4, <1>6, <2>1, <2>2, <2>3 DEF IInv, Bounded, Wrote
<1>7. Shared(mask) \in Payloads
  BY SharedExact
<1>8. CASE Upgrade(k, mask) /\ entries[FirstSlot(k)].mask = None
  <2>1. /\ SlotsFor(k) # {} /\ Watch(mask) /\ UNCHANGED <<byHash, nextSlot>>
        /\ entries' = [entries EXCEPT ![FirstSlot(k)].mask = Shared(mask)]
    BY <1>8 DEF Upgrade
  <2>2. IndexOK' /\ Wrote(FirstSlot(k), k, Shared(mask))
    BY <1>7, <2>1, UpgradeKeepsIndex
  <2> QED
    BY <1>6, <2>1, <2>2
<1>9. CASE Upgrade(k, mask) /\ entries[FirstSlot(k)].mask # None
  <2>1. UNCHANGED <<entries, values, nextValue, byHash, nextSlot>>
    BY <1>9 DEF Upgrade
  <2>2. HeldBy(entries') = HeldBy(entries) /\ HeldBy(entries) \subseteq Payloads
    BY <2>1, HeldArePayloads DEF HeldBy, IInv
  <2>3. /\ \A q \in HeldBy(entries) : heap'[q] = heap[q]
        /\ \A q \in Payloads \ HeldBy(entries) : heap'[q] = Freed
    BY <1>5, <2>2 DEF Alive
  <2>4. EntriesOK'
    <3>1. \A i \in DOMAIN entries : entries[i].mask # None => entries[i].mask \in HeldBy(entries)
      BY DEF HeldBy
    <3> QED
      BY <2>1, <2>3, <3>1 DEF IInv, EntriesOK
  <2>5. Bounded'
    BY <2>1, <2>2, <2>3 DEF IInv, Bounded
  <2>6. RingOK'
    BY <2>1, <2>2, <2>3 DEF IInv, RingOK
  <2> QED
    BY <1>4, <2>1, <2>4, <2>5, <2>6 DEF IInv, IndexOK, IndexCoherent, ValuesOK
<1>10. ASSUME NEW cheap \in BOOLEAN, Admit(k, mask, cheap) PROVE IInv'
  <2>1. PICK p \in {None, Shared(mask)} :
          /\ Place(Entry(k, p))
          /\ Watch(mask) \/ UNCHANGED <<values, nextValue>>
    BY <1>10 DEF Admit, Entry
  <2>2. SlotsFor(k) = {}
    BY <1>10 DEF Admit
  <2>3. IndexOK' /\ \E slot : Wrote(slot, k, p)
    BY <1>7, <2>1, <2>2, GrowKeepsIndex, EvictKeepsIndex
  <2> QED
    BY <1>6, <2>1, <2>3
<1> QED
  BY <1>3, <1>8, <1>9, <1>10 DEF CacheMask

LEMMA InitInv == Init => IInv
<1> SUFFICES ASSUME Init PROVE IInv
  OBVIOUS
<1>1. CallsOK
  BY DEF Init, CallsOK, CallOK
<1>2. EntriesOK /\ ValuesOK
  BY CacheAssumption DEF Init, EntriesOK, ValuesOK
<1>3. IndexOK
  BY CacheAssumption DEF Init, IndexOK, IndexCoherent, IsInjective, ToSet
<1>4. Bounded
  BY CacheAssumption DEF Init, Bounded, HeldBy
<1>5. RingOK
  BY DEF Init, RingOK
<1> QED
  BY <1>1, <1>2, <1>3, <1>4, <1>5 DEF IInv

LEMMA NextKeepsInv == IInv /\ [Next]_vars => IInv'
<1> SUFFICES ASSUME IInv, [Next]_vars PROVE IInv'
  OBVIOUS
<1>1. CASE UNCHANGED vars
  BY <1>1 DEF vars, IInv, CallsOK, EntriesOK, IndexOK, IndexCoherent, ValuesOK, Bounded, RingOK, HeldBy
<1>2. CASE Next
  BY <1>2, LookupKeepsInv, WalkKeepsInv, CacheMaskKeepsInv, ReturnKeepsInv DEF Next
<1> QED
  BY <1>1, <1>2

(* The inductive invariant of the cache: every payload an entry owns, and   *)
(* every answer a call holds, decodes to the mask of its own state; index   *)
(* and slots describe each other; the capacities hold; the live values of   *)
(* the ring are indexed by their words, and once (DynamicMaskCache).        *)
THEOREM CacheInvariant == Spec => []IInv
  BY InitInv, NextKeepsInv, PTL DEF Spec

(* A call never returns the mask of another state: whatever collides, is    *)
(* evicted, shared or re-encoded between the calls of any number of threads *)
(* (copy_cached_mask_with_predicate, cache_mask).                           *)
THEOREM CacheHitExact == Spec => []HitExact
<1>1. IInv => HitExact
  BY DEF IInv, CallsOK, CallOK, HitExact, Idle
<1> QED
  BY <1>1, CacheInvariant, PTL

(* by_hash and the slots describe each other, and no state has two entries. *)
THEOREM CacheIndexCoherent == Spec => []IndexCoherent
<1>1. IInv => IndexCoherent
  BY DEF IInv, IndexOK
<1> QED
  BY <1>1, CacheInvariant, PTL

(* States with the same mask share one payload while the ring watches them: *)
(* no collision, eviction or upgrade makes a store miss a live equal value  *)
(* (MaskValueIndex::get, cache_mask).                                       *)
THEOREM CacheSharesValues == Spec => []SharedOnce
<1>1. IInv => SharedOnce
  <2> SUFFICES ASSUME IInv, NEW i \in DOMAIN entries, NEW j \in DOMAIN entries,
                      Exact[entries[i].key] = Exact[entries[j].key],
                      entries[i].mask \in Watched, entries[j].mask \in Watched
               PROVE  entries[i].mask = entries[j].mask
    BY DEF SharedOnce
  <2>1. PICK m \in DOMAIN values, n \in DOMAIN values :
          entries[i].mask = values[m].payload /\ entries[j].mask = values[n].payload
    BY DEF Watched
  <2>2. \A x \in DOMAIN values : values[x].payload \in Payloads
    BY WatchedArePayloads DEF IInv
  <2>3. entries[i].mask # None /\ entries[j].mask # None
    BY <2>1, <2>2, CacheAssumption
  <2>4. entries[i].mask \in HeldBy(entries) /\ entries[j].mask \in HeldBy(entries)
    BY <2>3 DEF HeldBy
  <2>5. Decoded(heap[entries[i].mask]) = Decoded(heap[entries[j].mask])
    BY <2>3 DEF IInv, EntriesOK
  <2> QED
    BY <2>1, <2>4, <2>5 DEF IInv, RingOK
<1> QED
  BY <1>1, CacheInvariant, PTL

(* A store that finds its state on probation gives it a payload: "a repeat  *)
(* upgrades this entry" (mask_cache_payload.rs).                            *)
THEOREM CacheRepeatUpgrades == Spec => RepeatUpgrades
<1>1. ASSUME IInv, NEW t \in Threads PROVE UpgradesARepeat(t)
  <2>1. SUFFICES ASSUME CacheMask(t), NEW i \in DOMAIN entries, entries[i].key = call[t].key
                 PROVE  \E j \in DOMAIN entries' :
                          entries'[j].key = call[t].key /\ entries'[j].mask # None
    BY DEF UpgradesARepeat
  <2>2. PICK k \in Keys : k = call[t].key
    BY <1>1, <2>1 DEF CacheMask, IInv, CallsOK, CallOK, Idle
  <2>3. SlotsFor(k) # {}
    BY <1>1, <2>1, <2>2, NoSlotNoEntry
  <2>4. PICK mask : mask = call[t].buf /\ Upgrade(k, mask)
    BY <2>1, <2>2, <2>3 DEF CacheMask, Admit
  <2>5. /\ FirstSlot(k) \in DOMAIN entries /\ entries[FirstSlot(k)].key = k
        /\ Shared(mask) # None
    BY <1>1, <2>3, FoundSlot, SharedExact, CacheAssumption
  <2>6. CASE entries[FirstSlot(k)].mask # None
    BY <2>2, <2>4, <2>5, <2>6 DEF Upgrade
  <2>7. CASE entries[FirstSlot(k)].mask = None
    <3>1. Wrote(FirstSlot(k), k, Shared(mask))
      BY <1>1, <2>3, <2>4, <2>7, SharedExact, UpgradeKeepsIndex DEF Upgrade
    <3> QED
      BY <1>1, <2>2, <2>5, <3>1 DEF Wrote, Entry
  <2> QED
    BY <2>6, <2>7
<1>2. IInv /\ [Next]_vars => [\A t \in Threads : UpgradesARepeat(t)]_vars
  BY <1>1
<1> QED
  BY <1>2, CacheInvariant, PTL DEF Spec, RepeatUpgrades

=============================================================================
