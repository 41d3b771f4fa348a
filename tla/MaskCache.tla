----------------------------- MODULE MaskCache -----------------------------
(***************************************************************************)
(* The result cache of the dynamic mask walk (DynamicMaskCache in          *)
(* src/runtime/artifact.rs, mask_cache_payload.rs, mask_cache_values.rs)   *)
(* and the two callers in src/runtime/dynamic_mask.rs.  It belongs to a    *)
(* vocabulary and is shared by every session of a constraint, on any       *)
(* thread: a call looks its state up under the lock, walks the vocabulary  *)
(* without it, and locks again to store what it found.                     *)
(*                                                                         *)
(* Entries live in a bounded vector of slots; by_hash lists the slots of a *)
(* hash; a payload is a compressed mask, shared by the entries whose masks *)
(* are equal and found again through a ring of weak references.  A state   *)
(* key is opaque and Exact gives the mask a walk of it computes; what the  *)
(* walk does is not modelled here.                                         *)
(***************************************************************************)
EXTENDS Naturals, Sequences, SequencesExt, FiniteSets

CONSTANTS
  Threads,        \* threads inside fill_mask
  Keys,           \* DynamicMaskStateKey values
  Hash,           \* Hash[k]: dynamic_mask_state_key_hash
  Exact,          \* Exact[k]: the words of the mask of k
  Baseline,       \* all_original_token_words()
  WordCount,      \* body_mask_len()
  MaxEntries,     \* the capacity that masks of this length allow
  MaxRecent,      \* MAX_RECENT_VALUES
  SmallSparse,    \* MAX_ENTRIES of small_first_use_sparse
  MaskHash(_),    \* mask_hash
  Payloads        \* identities of payload allocations

Words == 0..1

Hashes == {Hash[k] : k \in Keys}

None == "none"

ASSUME CacheAssumption ==
  /\ Hash \in [Keys -> Nat]
  /\ WordCount \in Nat \ {0}
  /\ Exact \in [Keys -> [1..WordCount -> Words]]
  /\ Baseline \in Seq(Words)
  /\ MaxEntries \in Nat \ {0} /\ MaxRecent \in Nat \ {0}
  /\ SmallSparse \in Nat
  /\ None \notin Payloads \union Keys

(***************************************************************************)
(* Arc::new always finds memory that no strong or weak reference occupies. *)
(***************************************************************************)
ASSUME AllocatorAssumption ==
  /\ IsFiniteSet(Payloads)
  /\ Cardinality(Payloads) > MaxEntries + MaxRecent

VARIABLES
  entries,    \* the slots: hash, state key and payload of each entry
  byHash,     \* by_hash: the slots of a hash, oldest first
  nextSlot,   \* next_slot (counting slots from one)
  values,     \* the ring of weak references to recent payloads
  nextValue,  \* MaskValueIndex::next (counting from one)
  heap,       \* heap[p]: the live payload p
  call        \* call[t]: the fill_mask call of thread t

vars == <<entries, byHash, nextSlot, values, nextValue, heap, call>>

-----------------------------------------------------------------------------
(* Payloads: mask_cache_payload.rs and copy_dynamic_mask_cache_payload. *)

Zeros == [i \in 1..WordCount |-> 0]

\* "A missing baseline suffix denotes zero words".
Original == [i \in 1..WordCount |-> IF i <= Len(Baseline) THEN Baseline[i] ELSE 0]

NonZero(mask) == {i \in DOMAIN mask : mask[i] # 0}

Different(mask) == {i \in DOMAIN mask : mask[i] # Original[i]}

Listed(mask, at) == {<<i, mask[i]>> : i \in at}

(****************************************************************************)
(* from_words: the cheaper of the two sparse forms, at eight bytes a listed *)
(* word, if it beats four bytes for every word.                             *)
(****************************************************************************)
FromWords(mask) ==
  LET zero == Cardinality(NonZero(mask))
      base == Cardinality(Different(mask))
  IN IF 2 * zero < WordCount /\ zero <= base
       THEN [form |-> "SparseZero", words |-> Listed(mask, NonZero(mask))]
     ELSE IF 2 * base < WordCount
       THEN [form |-> "SparseAllOriginal", words |-> Listed(mask, Different(mask))]
     ELSE [form |-> "Dense", words |-> Listed(mask, DOMAIN mask)]

Freed == [form |-> "Freed", words |-> {}]

Overwrite(buf, words) ==
  [i \in DOMAIN buf |->
     IF \E w \in words : w[1] = i THEN (CHOOSE w \in words : w[1] = i)[2] ELSE buf[i]]

(****************************************************************************)
(* copy_dynamic_mask_cache_payload: the listed words over a buffer of zeros *)
(* or of the words of all original tokens.                                  *)
(****************************************************************************)
Decoded(payload) ==
  Overwrite(IF payload.form = "SparseAllOriginal" THEN Original ELSE Zeros, payload.words)

SmallFirstUseSparse(mask) ==
  Cardinality(NonZero(mask)) <= SmallSparse \/ Cardinality(Different(mask)) <= SmallSparse

-----------------------------------------------------------------------------
(* The value index: mask_cache_values.rs. *)

(***************************************************************************)
(* A payload lives while an entry holds it; the ring only watches it, and  *)
(* keeps its identity from being given to another.                         *)
(***************************************************************************)
HeldBy(es) == {es[i].mask : i \in DOMAIN es} \ {None}

Watched == {values[i].payload : i \in DOMAIN values}

Matches(v, mask) ==
  /\ v.hash = MaskHash(mask)
  /\ v.payload \in HeldBy(entries)
  /\ Decoded(heap[v.payload]) = mask

\* Faulty variant of Get: only the first value of the hash is compared.
GetFirstOfHash(mask) ==
  LET at == {i \in DOMAIN values : values[i].hash = MaskHash(mask)}
      first == CHOOSE i \in at : \A j \in at : i <= j
  IN IF at # {} /\ Matches(values[first], mask) THEN values[first].payload ELSE None

\* MaskValueIndex::get: the latest equal value.
Get(mask) ==
  LET at == {i \in DOMAIN values : Matches(values[i], mask)}
  IN IF at = {} THEN None ELSE values[CHOOSE i \in at : \A j \in at : j <= i].payload

\* MaskValueIndex::insert: push while there is room, then replace in turn.
Insert(v) ==
  IF Len(values) < MaxRecent
    THEN values' = Append(values, v) /\ UNCHANGED nextValue
    ELSE /\ values' = [values EXCEPT ![nextValue] = v]
         /\ nextValue' = (nextValue % MaxRecent) + 1

(***************************************************************************)
(* A new allocation differs from every one that is held or still watched;  *)
(* which one it is makes no difference.                                    *)
(***************************************************************************)
Allocate == CHOOSE p \in Payloads \ (HeldBy(entries) \union Watched) : TRUE

-----------------------------------------------------------------------------
(* The entries: copy_cached_mask_with_predicate and cache_mask. *)

SlotsOf(h) == byHash[h]

\* Faulty variant of IsFor: a slot found by its hash is taken for the state.
IsForHash(e, k) == e.hash = Hash[k]

IsFor(e, k) == e.key = k

SlotsFor(k) == {i \in DOMAIN SlotsOf(Hash[k]) : IsFor(entries[SlotsOf(Hash[k])[i]], k)}

\* The lookup takes the last match of the list, the store the first.
LastSlot(k) == SlotsOf(Hash[k])[CHOOSE i \in SlotsFor(k) : \A j \in SlotsFor(k) : j <= i]

FirstSlot(k) == SlotsOf(Hash[k])[CHOOSE i \in SlotsFor(k) : \A j \in SlotsFor(k) : i <= j]

Hit(k) == SlotsFor(k) # {} /\ entries[LastSlot(k)].mask # None

Idle == [pc |-> "idle", key |-> None, buf |-> << >>]

(****************************************************************************)
(* The lookup of fill_mask_dynamic_impl and with_recursive_vocab_mask_cache *)
(* is one critical section that copies the mask out, or misses.             *)
(****************************************************************************)
Lookup(t, k) ==
  /\ call[t].pc = "idle"
  /\ call' = [call EXCEPT ![t] =
        IF Hit(k)
          THEN [pc |-> "returned", key |-> k, buf |-> Decoded(heap[entries[LastSlot(k)].mask])]
          ELSE [pc |-> "walk", key |-> k, buf |-> << >>]]
  /\ UNCHANGED <<entries, byHash, nextSlot, values, nextValue, heap>>

\* The walk, outside the lock; it may decline or meet its deadline instead.
Walk(t) ==
  /\ call[t].pc = "walk"
  /\ \/ call' = [call EXCEPT ![t].pc = "walked", ![t].buf = Exact[call[t].key]]
     \/ call' = [call EXCEPT ![t] = Idle]
  /\ UNCHANGED <<entries, byHash, nextSlot, values, nextValue, heap>>

\* swap_remove of the position of a slot: the last of the list takes its place.
SwapRemove(list, slot) ==
  LET at == CHOOSE i \in DOMAIN list : list[i] = slot
  IN Front([list EXCEPT ![at] = Last(list)])

\* Faulty variant of Unlink: the evicted slot stays in its list.
UnlinkNothing(index, slot) == index

\* What eviction does to by_hash.
Unlink(index, slot) ==
  [index EXCEPT ![entries[slot].hash] = SwapRemove(@, slot)]

(***************************************************************************)
(* The slot of a new entry: the next one while the vector may grow, then   *)
(* round robin.                                                            *)
(***************************************************************************)
MayGrow == Len(entries) < MaxEntries

Place(entry) ==
  IF MayGrow
    THEN /\ entries' = Append(entries, entry)
         /\ byHash' = [byHash EXCEPT ![entry.hash] = Append(@, Len(entries) + 1)]
         /\ UNCHANGED nextSlot
    ELSE /\ entries' = [entries EXCEPT ![nextSlot] = entry]
         /\ byHash' = [Unlink(byHash, nextSlot) EXCEPT ![entry.hash] = Append(@, nextSlot)]
         /\ nextSlot' = (nextSlot % MaxEntries) + 1

(***************************************************************************)
(* The payload given to a mask: a live equal one, or a new one, which the  *)
(* ring then watches.                                                      *)
(***************************************************************************)
Shared(mask) == IF Get(mask) # None THEN Get(mask) ELSE Allocate

Watch(mask) ==
  IF Get(mask) # None
    THEN UNCHANGED <<values, nextValue>>
    ELSE Insert([hash |-> MaskHash(mask), payload |-> Allocate])

(***************************************************************************)
(* The payloads that are alive after a store of mask: the last entry that  *)
(* drops one frees it.                                                     *)
(***************************************************************************)
Alive(mask) ==
  heap' = [p \in Payloads |-> IF p \notin HeldBy(entries') THEN Freed
                              ELSE IF p \in HeldBy(entries) THEN heap[p] ELSE FromWords(mask)]

(****************************************************************************)
(* cache_mask.  An entry of this state that is already there, stored by     *)
(* another thread since the lookup, is only upgraded from probation;        *)
(* otherwise a new entry is placed, on probation if the walk was cheap, its *)
(* mask is not small and no equal value is at hand.                         *)
(****************************************************************************)
\* Faulty variant of Upgrade: an entry that is there already is left alone.
UpgradeNothing(k, mask) ==
  SlotsFor(k) # {} /\ UNCHANGED <<entries, values, nextValue, byHash, nextSlot>>

Upgrade(k, mask) ==
  /\ SlotsFor(k) # {}
  /\ IF entries[FirstSlot(k)].mask # None
       THEN UNCHANGED <<entries, values, nextValue>>
       ELSE /\ Watch(mask)
            /\ entries' = [entries EXCEPT ![FirstSlot(k)].mask = Shared(mask)]
  /\ UNCHANGED <<byHash, nextSlot>>

Admit(k, mask, cheap) ==
  LET entry(p) == [hash |-> Hash[k], key |-> k, mask |-> p]
  IN /\ SlotsFor(k) = {}
     /\ IF Get(mask) = None /\ cheap /\ ~SmallFirstUseSparse(mask)
          THEN Place(entry(None)) /\ UNCHANGED <<values, nextValue>>
          ELSE Place(entry(Shared(mask))) /\ Watch(mask)

CacheMask(t) ==
  LET k == call[t].key
      mask == call[t].buf
  IN /\ call[t].pc = "walked"
     /\ \/ Upgrade(k, mask)
        \/ \E cheap \in BOOLEAN : Admit(k, mask, cheap)
     /\ Alive(mask)
     /\ call' = [call EXCEPT ![t].pc = "returned"]

Return(t) ==
  /\ call[t].pc = "returned"
  /\ call' = [call EXCEPT ![t] = Idle]
  /\ UNCHANGED <<entries, byHash, nextSlot, values, nextValue, heap>>

Init ==
  /\ entries = << >>
  /\ byHash = [h \in Hashes |-> << >>]
  /\ nextSlot = 1
  /\ values = << >> /\ nextValue = 1
  /\ heap = [p \in Payloads |-> Freed]
  /\ call = [t \in Threads |-> Idle]

Next ==
  \E t \in Threads :
    \/ \E k \in Keys : Lookup(t, k)
    \/ Walk(t)
    \/ CacheMask(t)
    \/ Return(t)

Spec == Init /\ [][Next]_vars

-----------------------------------------------------------------------------

(****************************************************************************)
(* "The words restored on a hit" are those of the walk: whatever collides,  *)
(* is evicted, shared or re-encoded between the calls of several threads, a *)
(* call returns the mask of the state it was made for                       *)
(* (copy_cached_mask_with_predicate).                                       *)
(****************************************************************************)
HitExact ==
  \A t \in Threads : call[t].pc = "returned" => call[t].buf = Exact[call[t].key]

(***************************************************************************)
(* by_hash and the slots describe each other: every slot is listed once,   *)
(* under the hash of its entry, and lists nothing else, so neither an      *)
(* eviction nor two threads that missed on one state leave a second entry  *)
(* for it (cache_mask).                                                    *)
(***************************************************************************)
IndexCoherent ==
  /\ \A h \in Hashes :
       /\ IsInjective(byHash[h])
       /\ ToSet(byHash[h]) = {i \in DOMAIN entries : entries[i].hash = h}
  /\ \A i, j \in DOMAIN entries : entries[i].key = entries[j].key => i = j

(****************************************************************************)
(* "Bounded sharing of exact mask values" (mask_cache_values.rs): entries   *)
(* whose states have the same mask hold one payload, whoever stored them    *)
(* and in whichever order they were admitted, upgraded or evicted, unless   *)
(* the ring has let one of their payloads go. A collision of hashes or a    *)
(* dead value in the ring never makes the index miss a live equal one.      *)
(****************************************************************************)
SharedOnce ==
  \A i, j \in DOMAIN entries :
    /\ Exact[entries[i].key] = Exact[entries[j].key]
    /\ {entries[i].mask, entries[j].mask} \subseteq Watched
    => entries[i].mask = entries[j].mask

UpgradesARepeat(t) ==
  LET k == call[t].key
  IN CacheMask(t) /\ (\E i \in DOMAIN entries : entries[i].key = k)
       => \E i \in DOMAIN entries' : entries'[i].key = k /\ entries'[i].mask # None

(****************************************************************************)
(* A state seen a second time while its entry survives is no longer on      *)
(* probation ("a repeat upgrades this entry", mask_cache_payload.rs): a     *)
(* store never leaves the state it was made for on probation if it found it *)
(* there.                                                                   *)
(****************************************************************************)
RepeatUpgrades == [][\A t \in Threads : UpgradesARepeat(t)]_vars

-----------------------------------------------------------------------------
(* The inductive invariant of the proofs (MaskCacheProofs) *)

Masks == [1..WordCount -> Words]

\* What a call has computed so far is about the state it was made for.
CallOK(c) ==
  \/ c = Idle
  \/ c.key \in Keys /\ c = [pc |-> "walk", key |-> c.key, buf |-> << >>]
  \/ \E pc \in {"walked", "returned"} :
       c.key \in Keys /\ c = [pc |-> pc, key |-> c.key, buf |-> Exact[c.key]]

CallsOK == call = [t \in Threads |-> call[t]] /\ \A t \in Threads : CallOK(call[t])

\* An entry that has a payload decodes to the mask of its state.
EntriesOK ==
  /\ entries \in Seq([hash : Hashes, key : Keys, mask : Payloads \union {None}])
  /\ \A i \in DOMAIN entries :
       /\ entries[i].hash = Hash[entries[i].key]
       /\ entries[i].mask # None => Decoded(heap[entries[i].mask]) = Exact[entries[i].key]

IndexOK ==
  /\ byHash \in [Hashes -> Seq(Nat)]
  /\ nextSlot \in 1..MaxEntries
  /\ IndexCoherent

ValuesOK ==
  /\ values \in Seq([hash : {MaskHash(m) : m \in Masks}, payload : Payloads])
  /\ nextValue \in 1..MaxRecent

\* The capacities, which Allocate relies on, and what is alive.
Bounded ==
  /\ Len(entries) <= MaxEntries
  /\ Len(values) <= MaxRecent
  /\ {p \in Payloads : heap[p] # Freed} = HeldBy(entries)

\* The live values of the ring are indexed by their words, and once.
RingOK ==
  LET live == {i \in DOMAIN values : values[i].payload \in HeldBy(entries)}
      words(i) == Decoded(heap[values[i].payload])
  IN /\ \A i \in live : values[i].hash = MaskHash(words(i))
     /\ \A i, j \in live : words(i) = words(j) => values[i].payload = values[j].payload

IInv == CallsOK /\ EntriesOK /\ IndexOK /\ ValuesOK /\ Bounded /\ RingOK

=============================================================================
