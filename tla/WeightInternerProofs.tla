------------------------ MODULE WeightInternerProofs ------------------------
(***************************************************************************)
(* Proofs about WeightInterner, for any number of threads, allocations,    *)
(* token ids and fingerprints: interning is canonical for live Arcs, and   *)
(* a memo answer is never about allocations that have been replaced.       *)
(***************************************************************************)
EXTENDS WeightInterner, TLAPS

(* What the invariants depend on in a step. An allocation that is           *)
(* referenced, strongly or weakly, keeps its value: only a free address is  *)
(* written. A dead allocation stays dead while a weak reference remains.    *)
Pinned == \A a \in Addresses : ~Free(a) => content'[a] = content[a]
NoRevival == \A a \in Addresses : Strong(a)' /\ ~Free(a) => Strong(a)

(* Sweeps and searches remove only dead entries from the table. *)
LiveStay == \A p \in Fingerprints : \A a \in table[p] : Strong(a) => a \in table'[p]

(* A newly interned Arc is the only new one, is in its bucket, and has a    *)
(* value no live interned Arc had.                                          *)
Fresh(a) == Free(a) /\ Strong(a)'
NewInterned ==
    /\ \A a \in interned' : ~Free(a) => a \in interned
    /\ \A a \in interned' : Fresh(a) =>
          /\ a \in table'[Fingerprint[content'[a]]]
          /\ \A b \in interned : Strong(b) => content[b] # content'[a]
          /\ \A b \in interned' : Fresh(b) => a = b

(* Arcs are dropped only by idle threads; calls in progress keep theirs.    *)
Borrows == \A t \in Threads : op[t].pc # "idle" => held[t] \subseteq held'[t]

HeapStep == Pinned /\ NoRevival /\ LiveStay /\ NewInterned /\ Borrows

(* Type correctness of the result of an operation on two sets. *)
LEMMA ApplyType ==
    ASSUME NEW kind, NEW v \in Values, NEW w \in Values
    PROVE  Apply(kind, v, w) \in Values
BY DEF Apply, Values

(* An idle call record has its type. *)
LEMMA IdleType == Idle \in Op
BY HeapAssumption DEF Idle, Op, PCs, Values, Kinds

(* Leaving intern_rangeset, or moving on inside it, keeps a call record of  *)
(* the right type.                                                          *)
LEMMA CallType ==
    ASSUME op \in [Threads -> Op], NEW t \in Threads, NEW pc \in PCs
    PROVE  /\ Return(t) => op' \in [Threads -> Op]
           /\ Goto(t, pc) => op' \in [Threads -> Op]
<1>1. op[t] \in Op
  OBVIOUS
<1>2. [op[t] EXCEPT !.pc = pc] \in Op /\ [op[t] EXCEPT !.pc = "store"] \in Op
  BY <1>1 DEF Op, PCs
<1>3. Return(t) => op' \in [Threads -> Op]
  BY <1>2, IdleType DEF Return
<1>4. Goto(t, pc) => op' \in [Threads -> Op]
  BY <1>2 DEF Goto
<1> QED BY <1>3, <1>4

(* Every step keeps the types of the variables. *)
LEMMA TypeStep == ASSUME TypeOK, OpsOK, [Next]_vars PROVE TypeOK'
<1> USE HeapAssumption, CounterAssumption DEF TypeOK
<1>1. CASE UNCHANGED vars
  BY <1>1 DEF vars
<1>2. ASSUME NEW t \in Threads, Running(t) PROVE TypeOK'
  <2>0. op[t] \in Op
    OBVIOUS
  <2>1. CASE InternExisting(t)
    <3>1. PICK a \in table[Fingerprint[op[t].value]],
              dead \in SUBSET {b \in table[Fingerprint[op[t].value]] : ~Strong(b)} :
            /\ table' = [table EXCEPT ![Fingerprint[op[t].value]] = @ \ dead]
            /\ Hold(t, a)
            /\ op' = [op EXCEPT ![t] =
                  IF @.kind = "none" THEN Idle ELSE [@ EXCEPT !.pc = "store", !.result = a]]
      BY <2>1 DEF InternExisting
    <3>2. op[t].value \in Values /\ Fingerprint[op[t].value] \in Fingerprints
      BY <2>0 DEF Op
    <3>3. a \in Addresses
      BY <3>2
    <3>4. [op[t] EXCEPT !.pc = "store", !.result = a] \in Op
      BY <2>0, <3>3 DEF Op, PCs
    <3>5. op' \in [Threads -> Op]
      BY <3>1, <3>4, IdleType
    <3>6. table' \in [Fingerprints -> SUBSET Addresses]
      BY <3>1, <3>2
    <3>7. held' \in [Threads -> SUBSET Addresses]
      BY <3>1, <3>3 DEF Hold
    <3> QED BY <2>1, <3>5, <3>6, <3>7 DEF InternExisting
  <2>2. CASE InternFresh(t)
    <3>1. PICK a \in Addresses :
            /\ content' = [content EXCEPT ![a] = op[t].value]
            /\ table' = [table EXCEPT ![Fingerprint[op[t].value]] =
                   {b \in table[Fingerprint[op[t].value]] : Strong(b)} \cup {a}]
            /\ interned' = interned \cup {a}
            /\ Hold(t, a)
            /\ op' = [op EXCEPT ![t] = [@ EXCEPT !.pc = "deferral", !.result = a]]
      BY <2>2 DEF InternFresh
    <3>2. op[t].value \in Values /\ Fingerprint[op[t].value] \in Fingerprints
      BY <2>0 DEF Op
    <3>3. [op[t] EXCEPT !.pc = "deferral", !.result = a] \in Op
      BY <2>0 DEF Op, PCs
    <3>4. op' \in [Threads -> Op]
      BY <3>1, <3>3
    <3>5. table' \in [Fingerprints -> SUBSET Addresses]
      BY <3>1, <3>2
    <3>6. held' \in [Threads -> SUBSET Addresses]
      BY <3>1 DEF Hold
    <3>7. content' \in [Addresses -> Values] /\ interned' \subseteq Addresses
      BY <3>1, <3>2
    <3> QED BY <2>2, <3>4, <3>5, <3>6, <3>7 DEF InternFresh
  <2>3. CASE CheckDeferral(t)
    <3>1. op' \in [Threads -> Op]
      BY <2>3, CallType DEF CheckDeferral, PCs
    <3> QED BY <2>3, <3>1 DEF CheckDeferral
  <2>4. CASE CountInsert(t)
    <3>1. op' \in [Threads -> Op]
      BY <2>4, CallType DEF CountInsert, PCs
    <3> QED BY <2>4, <3>1 DEF CountInsert
  <2>5. CASE ClaimGate(t)
    <3>1. op' \in [Threads -> Op]
      BY <2>5, CallType DEF ClaimGate, PCs
    <3> QED BY <2>5, <3>1 DEF ClaimGate
  <2>6. CASE ResetCounter(t)
    BY <2>0, <2>6 DEF ResetCounter, Op, PCs
  <2>7. ASSUME NEW p \in Fingerprints, SweepBucket(t, p) PROVE TypeOK'
    BY <2>0, <2>7 DEF SweepBucket, Prune, Op, PCs
  <2>8. CASE ReleaseGate(t)
    <3>1. op' \in [Threads -> Op]
      BY <2>8, CallType DEF ReleaseGate, PCs
    <3> QED BY <2>8, <3>1 DEF ReleaseGate
  <2>9. CASE StaleReset(t)
    <3>1. op' \in [Threads -> Op]
      BY <2>9, CallType DEF StaleReset, PCs
    <3> QED BY <2>9, <3>1 DEF StaleReset
  <2>10. CASE StaleRelease(t)
    BY <2>10, IdleType DEF StaleRelease
  <2>11. CASE StoreMemo(t)
    <3>1. \A e \in memo'[t] : e \in MemoEntries
      <4>1. op[t].kind \in Kinds
        BY <2>0, <2>11 DEF OpsOK, OpOK, StoreMemo, Op
      <4>2. MemoEntry(op[t].kind, op[t].left, op[t].right, op[t].result) \in MemoEntries
        BY <2>0, <4>1 DEF MemoEntry, MemoEntries, Op
      <4> QED BY <2>11, <4>2 DEF StoreMemo
    <3>2. inserts' \in [Threads -> Nat]
      BY <2>11 DEF StoreMemo
    <3> QED BY <2>11, <3>1, <3>2, IdleType DEF StoreMemo
  <2> QED
    BY <1>2, <2>1, <2>2, <2>3, <2>4, <2>5, <2>6, <2>7, <2>8, <2>9, <2>10, <2>11 DEF Running
<1>3. ASSUME NEW t \in Threads, Calls(t) PROVE TypeOK'
  <2>1. ASSUME NEW v \in Values, SharedRangeset(t, v) PROVE TypeOK'
    <3>1. [Idle EXCEPT !.pc = "intern", !.value = v] \in Op
      BY IdleType DEF Op, PCs
    <3> QED BY <2>1, <3>1 DEF SharedRangeset
  <2>2. ASSUME NEW v \in Values, ArtifactLocal(t, v) PROVE TypeOK'
    BY <2>2 DEF ArtifactLocal, Hold
  <2>3. CASE Defer(t)
    BY <2>3 DEF Defer
  <2>4. CASE ReleaseDeferral(t) \/ ClearStaleWeights(t)
    <3>1. [Idle EXCEPT !.pc = "stale_sweep", !.rest = Fingerprints] \in Op
      BY IdleType DEF Op, PCs
    <3>2. op' \in [Threads -> Op]
      BY <2>4, <3>1 DEF ReleaseDeferral, ClearStaleWeights, ClearStaleFrom
    <3>3. guards' \in [Threads -> BOOLEAN]
      BY <2>4 DEF ReleaseDeferral, ClearStaleWeights
    <3> QED BY <2>4, <3>2, <3>3 DEF ReleaseDeferral, ClearStaleWeights
  <2>5. ASSUME NEW kind \in Kinds, NEW a \in Addresses, NEW b \in Addresses, MemoHit(t, kind, a, b)
        PROVE  TypeOK'
    <3>1. PICK e \in memo[t] : Hold(t, Representative(kind, a, b, e.result))
      BY <2>5 DEF MemoHit, EntriesFor
    <3>2. e.result \in Addresses
      BY DEF MemoEntries
    <3>3. Representative(kind, a, b, e.result) \in Addresses
      BY <3>2 DEF Representative
    <3> QED BY <2>5, <3>1, <3>3 DEF MemoHit, Hold
  <2>6. ASSUME NEW kind \in Kinds, NEW a \in Addresses, NEW b \in Addresses, MemoMiss(t, kind, a, b)
        PROVE  TypeOK'
    <3>1. Apply(kind, content[a], content[b]) \in Values
      BY ApplyType
    <3> QED BY <2>6, <3>1 DEF MemoMiss, Op, PCs
  <2>7. ASSUME NEW a \in Addresses, Drop(t, a) PROVE TypeOK'
    BY <2>7 DEF Drop
  <2>8. ASSUME NEW u \in Threads, NEW a \in Addresses, Send(t, u, a) PROVE TypeOK'
    BY <2>8 DEF Send, Hold
  <2> QED BY <1>3, <2>1, <2>2, <2>3, <2>4, <2>5, <2>6, <2>7, <2>8 DEF Calls
<1> QED BY <1>1, <1>2, <1>3 DEF Next

(* A step that leaves the heap alone, and at most prunes dead entries from  *)
(* the table, satisfies HeapStep.                                           *)
LEMMA QuietStep ==
    ASSUME TypeOK, UNCHANGED <<content, interned, held>>, LiveStay
    PROVE  HeapStep
BY DEF HeapStep, Pinned, NoRevival, NewInterned, Fresh, Borrows, Free, Strong

(* The same for a step in which a thread takes a live Arc. *)
LEMMA HoldStep ==
    ASSUME TypeOK, UNCHANGED <<content, interned>>, LiveStay,
           NEW t \in Threads, NEW a \in Addresses, Strong(a), Hold(t, a)
    PROVE  HeapStep
<1>1. \A b \in Addresses : Strong(b)' => Strong(b)
  BY DEF Hold, Strong, TypeOK
<1>2. \A u \in Threads : held[u] \subseteq held'[u]
  BY DEF Hold, TypeOK
<1> QED BY <1>1, <1>2 DEF HeapStep, Pinned, NoRevival, NewInterned, Fresh, Borrows, Free, TypeOK

(* The same for a step that allocates at a free address. *)
LEMMA AllocStep ==
    ASSUME TypeOK, NEW t \in Threads, NEW a \in Addresses, NEW v \in Values, Free(a), Hold(t, a),
           content' = [content EXCEPT ![a] = v]
    PROVE  /\ Pinned /\ NoRevival /\ Borrows
           /\ \A b \in Addresses : Fresh(b) => b = a
           /\ content'[a] = v
<1>1. a # EmptySet
  BY DEF Free, Strong
<1>2. \A b \in Addresses : Strong(b)' => Strong(b) \/ b = a
  BY DEF Hold, Strong, TypeOK
<1>3. \A b \in Addresses : b # a => content'[b] = content[b]
  BY DEF TypeOK
<1>4. Pinned
  BY <1>3 DEF Pinned
<1>5. NoRevival
  BY <1>2 DEF NoRevival
<1>6. Borrows
  BY DEF Borrows, Hold, TypeOK
<1>7. \A b \in Addresses : Fresh(b) => b = a
  BY <1>2 DEF Fresh, Free
<1> QED BY <1>4, <1>5, <1>6, <1>7 DEF TypeOK

(* Every step of intern_rangeset, of the sweeps and of the memo operations  *)
(* is a HeapStep.                                                           *)
LEMMA EveryHeapStep == ASSUME IInv, [Next]_vars PROVE HeapStep
<1> USE HeapAssumption
<1>0. TypeOK
  BY DEF IInv
<1>1. CASE UNCHANGED vars
  <2>1. LiveStay
    BY <1>1 DEF vars, LiveStay
  <2> QED BY <1>0, <1>1, <2>1, QuietStep DEF vars
<1>2. ASSUME NEW t \in Threads, Running(t) PROVE HeapStep
  <2>0. op[t] \in Op
    BY <1>0 DEF TypeOK
  <2>1. CASE InternExisting(t)
    <3> DEFINE p == Fingerprint[op[t].value]
    <3>1. PICK a \in table[p], dead \in SUBSET {b \in table[p] : ~Strong(b)} :
            /\ Strong(a) /\ Hold(t, a)
            /\ table' = [table EXCEPT ![p] = @ \ dead]
      BY <2>1 DEF InternExisting
    <3>2. p \in Fingerprints
      BY <2>0 DEF Op
    <3>3. a \in Addresses
      BY <1>0, <3>2 DEF TypeOK
    <3>4. LiveStay
      BY <1>0, <3>1, <3>2 DEF LiveStay, TypeOK
    <3> QED BY <1>0, <2>1, <3>1, <3>3, <3>4, HoldStep DEF InternExisting
  <2>2. CASE InternFresh(t)
    <3> DEFINE v == op[t].value
               p == Fingerprint[v]
    <3>1. PICK a \in Addresses :
            /\ Free(a) /\ Hold(t, a)
            /\ content' = [content EXCEPT ![a] = v]
            /\ table' = [table EXCEPT ![p] = {b \in table[p] : Strong(b)} \cup {a}]
            /\ interned' = interned \cup {a}
      BY <2>2 DEF InternFresh
    <3>2. v \in Values /\ p \in Fingerprints
      BY <2>0 DEF Op
    <3> HIDE DEF v, p
    <3>3. /\ Pinned /\ NoRevival /\ Borrows
          /\ \A b \in Addresses : Fresh(b) => b = a
          /\ content'[a] = v
      BY <1>0, <3>1, <3>2, AllocStep
    <3>4. LiveStay
      BY <1>0, <3>1, <3>2 DEF LiveStay, TypeOK
    <3>5. \A b \in interned : Strong(b) => content[b] # v
      <4>1. \A b \in table[p] : Strong(b) => content[b] # v
        BY <2>2 DEF InternFresh, p, v
      <4>2. \A b \in interned : Strong(b) => b \in table[Fingerprint[content[b]]]
        BY DEF IInv, Tabled
      <4> QED BY <4>1, <4>2 DEF p
    <3>6. a \in table'[p]
      BY <1>0, <3>1, <3>2 DEF TypeOK
    <3>7. NewInterned
      <4>1. interned' \subseteq Addresses
        BY <1>0, <3>1 DEF TypeOK
      <4>2. \A b \in interned' : ~Free(b) => b \in interned
        BY <3>1
      <4>3. a \in table'[Fingerprint[content'[a]]]
        BY <3>3, <3>6 DEF p
      <4> QED BY <3>3, <3>5, <4>1, <4>2, <4>3 DEF NewInterned
    <3> QED BY <3>3, <3>4, <3>7 DEF HeapStep
  <2>3. ASSUME NEW p \in Fingerprints, SweepBucket(t, p) PROVE HeapStep
    <3>1. LiveStay
      BY <1>0, <2>3 DEF SweepBucket, Prune, LiveStay, TypeOK
    <3> QED BY <1>0, <2>3, <3>1, QuietStep DEF SweepBucket
  <2>4. CASE CheckDeferral(t) \/ CountInsert(t) \/ ClaimGate(t) \/ ResetCounter(t)
             \/ ReleaseGate(t) \/ StaleReset(t) \/ StaleRelease(t) \/ StoreMemo(t)
    <3>1. UNCHANGED <<content, interned, held, table>>
      BY <2>4 DEF CheckDeferral, CountInsert, ClaimGate, ResetCounter, ReleaseGate, StaleReset,
                  StaleRelease, StoreMemo
    <3>2. LiveStay
      BY <3>1 DEF LiveStay
    <3> QED BY <1>0, <3>1, <3>2, QuietStep
  <2> QED BY <1>2, <2>1, <2>2, <2>3, <2>4 DEF Running
<1>3. ASSUME NEW t \in Threads, Calls(t) PROVE HeapStep
  <2>1. CASE \/ \E v \in Values : SharedRangeset(t, v)
             \/ Defer(t) \/ ReleaseDeferral(t) \/ ClearStaleWeights(t)
             \/ \E kind \in Kinds, a, b \in Addresses : MemoMiss(t, kind, a, b)
    <3>1. UNCHANGED <<content, interned, held, table>>
      <4>1. CASE \E v \in Values : SharedRangeset(t, v)
        BY <4>1 DEF SharedRangeset
      <4>2. CASE Defer(t) \/ ReleaseDeferral(t) \/ ClearStaleWeights(t)
        BY <4>2 DEF Defer, ReleaseDeferral, ClearStaleWeights
      <4>3. CASE \E kind \in Kinds, a, b \in Addresses : MemoMiss(t, kind, a, b)
        BY <4>3 DEF MemoMiss
      <4> QED BY <2>1, <4>1, <4>2, <4>3
    <3>2. LiveStay
      BY <3>1 DEF LiveStay
    <3> QED BY <1>0, <3>1, <3>2, QuietStep
  <2>2. ASSUME NEW v \in Values, ArtifactLocal(t, v) PROVE HeapStep
    <3>1. PICK a \in Addresses :
            /\ Free(a) /\ Hold(t, a)
            /\ content' = [content EXCEPT ![a] = v]
            /\ interned' = interned \ {a}
      BY <2>2 DEF ArtifactLocal
    <3>2. /\ Pinned /\ NoRevival /\ Borrows
          /\ \A b \in Addresses : Fresh(b) => b = a
      BY <1>0, <3>1, AllocStep
    <3>3. LiveStay
      BY <2>2 DEF ArtifactLocal, LiveStay
    <3>4. NewInterned
      BY <1>0, <3>1, <3>2 DEF NewInterned, TypeOK
    <3> QED BY <3>2, <3>3, <3>4 DEF HeapStep
  <2>3. ASSUME NEW kind \in Kinds, NEW a \in Addresses, NEW b \in Addresses, MemoHit(t, kind, a, b)
        PROVE  HeapStep
    <3>1. PICK e \in memo[t] : Answers(e) /\ Hold(t, Representative(kind, a, b, e.result))
      BY <2>3 DEF MemoHit, EntriesFor
    <3>2. e.result \in Addresses /\ Strong(e.result)
      BY <1>0, <3>1 DEF MemoEntries, TypeOK, Answers
    <3>3. Strong(a) /\ Strong(b)
      BY <2>3 DEF MemoHit, Strong
    <3>4. /\ Representative(kind, a, b, e.result) \in Addresses
          /\ Strong(Representative(kind, a, b, e.result))
      BY <3>2, <3>3 DEF Representative
    <3>5. LiveStay
      BY <2>3 DEF MemoHit, LiveStay
    <3> QED BY <1>0, <2>3, <3>1, <3>4, <3>5, HoldStep DEF MemoHit
  <2>4. ASSUME NEW a \in Addresses, Drop(t, a) PROVE HeapStep
    <3>1. \A b \in Addresses : Strong(b)' => Strong(b)
      BY <1>0, <2>4 DEF Drop, Strong, TypeOK
    <3>2. Borrows
      BY <1>0, <2>4 DEF Drop, Borrows, TypeOK
    <3>3. UNCHANGED <<content, interned, table>>
      BY <2>4 DEF Drop
    <3> QED BY <1>0, <3>1, <3>2, <3>3
            DEF HeapStep, Pinned, NoRevival, LiveStay, NewInterned, Fresh, Free, TypeOK
  <2>5. ASSUME NEW u \in Threads, NEW a \in Addresses, Send(t, u, a) PROVE HeapStep
    <3>1. Strong(a)
      BY <2>5 DEF Send, Strong
    <3>2. LiveStay
      BY <2>5 DEF Send, LiveStay
    <3> QED BY <1>0, <2>5, <3>1, <3>2, HoldStep DEF Send
  <2> QED BY <1>3, <2>1, <2>2, <2>3, <2>4, <2>5 DEF Calls
<1> QED BY <1>1, <1>2, <1>3 DEF Next

(* The empty set stays empty, live interned Arcs stay in the table, and no  *)
(* second Arc is interned beside a live one of the same value.              *)
LEMMA TableStep ==
    ASSUME IInv, [Next]_vars PROVE EmptySetOK' /\ Tabled' /\ OneArcPerValue'
<1>0. TypeOK /\ TypeOK' /\ HeapStep
  BY TypeStep, EveryHeapStep DEF IInv
<1>1. interned' \subseteq Addresses
  BY <1>0 DEF TypeOK
<1>2. EmptySetOK'
  BY <1>0, HeapAssumption DEF EmptySetOK, IInv, HeapStep, Pinned, Free, Strong
<1>3. \A a \in interned' : Strong(a)' /\ ~Fresh(a) =>
          a \in interned /\ Strong(a) /\ content'[a] = content[a]
  BY <1>0, <1>1 DEF HeapStep, NewInterned, Pinned, NoRevival, Fresh
<1>4. ASSUME NEW a \in interned', Strong(a)' PROVE a \in table'[Fingerprint[content'[a]]]
  <2>1. CASE Fresh(a)
    BY <1>0, <2>1 DEF HeapStep, NewInterned
  <2>2. CASE ~Fresh(a)
    <3>1. a \in interned /\ Strong(a) /\ content'[a] = content[a]
      BY <1>3, <1>4, <2>2
    <3>2. a \in table[Fingerprint[content[a]]]
      BY <3>1 DEF IInv, Tabled
    <3>3. Fingerprint[content[a]] \in Fingerprints
      BY <1>0, <1>1, HeapAssumption DEF TypeOK
    <3> QED BY <1>0, <3>1, <3>2, <3>3 DEF HeapStep, LiveStay
  <2> QED BY <2>1, <2>2
<1>5. ASSUME NEW a \in interned', NEW b \in interned', Strong(a)', Strong(b)', content'[a] = content'[b]
      PROVE  a = b
  <2>1. CASE Fresh(a) /\ Fresh(b)
    BY <1>0, <2>1 DEF HeapStep, NewInterned
  <2>2. CASE ~Fresh(a) /\ ~Fresh(b)
    BY <1>3, <1>5, <2>2 DEF IInv, OneArcPerValue
  <2>3. CASE Fresh(a) /\ ~Fresh(b)
    BY <1>0, <1>3, <1>5, <2>3 DEF HeapStep, NewInterned
  <2>4. CASE ~Fresh(a) /\ Fresh(b)
    BY <1>0, <1>3, <1>5, <2>4 DEF HeapStep, NewInterned
  <2> QED BY <2>1, <2>2, <2>3, <2>4
<1>6. Tabled'
  BY <1>4 DEF Tabled
<1>7. OneArcPerValue'
  BY <1>5 DEF OneArcPerValue
<1> QED BY <1>2, <1>6, <1>7

(* What a step adds to a memo is the result its thread just computed        *)
(* (store_token_set is the only insertion).                                 *)
LEMMA MemoGrowth ==
    ASSUME IInv, [Next]_vars, NEW t \in Threads, NEW e \in memo'[t]
    PROVE  \/ e \in memo[t]
           \/ /\ op[t].pc = "store" /\ content' = content
              /\ e = MemoEntry(op[t].kind, op[t].left, op[t].right, op[t].result)
<1>0. memo \in [Threads -> SUBSET MemoEntries]
  BY DEF IInv, TypeOK
<1>1. CASE UNCHANGED vars
  BY <1>1 DEF vars
<1>2. ASSUME NEW u \in Threads, StoreMemo(u)
      PROVE  \/ e \in memo[t]
             \/ /\ op[t].pc = "store" /\ content' = content
                /\ e = MemoEntry(op[t].kind, op[t].left, op[t].right, op[t].result)
  BY <1>0, <1>2 DEF StoreMemo
<1>3. ASSUME NEW u \in Threads, NEW kind \in Kinds, NEW a \in Addresses, NEW b \in Addresses,
             MemoMiss(u, kind, a, b)
      PROVE  e \in memo[t]
  BY <1>0, <1>3 DEF MemoMiss
<1>4. ASSUME NEW u \in Threads, Running(u), ~StoreMemo(u) PROVE memo' = memo
  BY <1>4 DEF Running, InternExisting, InternFresh, CheckDeferral, CountInsert, ClaimGate,
              ResetCounter, SweepBucket, ReleaseGate, StaleReset, StaleRelease
<1>5. ASSUME NEW u \in Threads, Calls(u),
             ~\E kind \in Kinds, a, b \in Addresses : MemoMiss(u, kind, a, b)
      PROVE  memo' = memo
  BY <1>5 DEF Calls, SharedRangeset, ArtifactLocal, Defer, ReleaseDeferral, ClearStaleWeights,
              MemoHit, Drop, Send
<1> QED BY <1>1, <1>2, <1>3, <1>4, <1>5 DEF Next

(* Memo entries stay true: the weak references of an entry keep its three   *)
(* allocations from being replaced.                                         *)
LEMMA MemoStep == ASSUME IInv, [Next]_vars PROVE MemoOK'
<1>0. TypeOK /\ HeapStep /\ OpsOK /\ MemoOK
  BY EveryHeapStep DEF IInv
<1> SUFFICES ASSUME NEW t \in Threads, NEW e \in memo'[t]
             PROVE  /\ e.key = {e.left, e.right}
                    /\ content'[e.result] = Apply(e.kind, content'[e.left], content'[e.right])
  BY DEF MemoOK
<1>1. CASE e \in memo[t]
  <2>1. e.left \in Addresses /\ e.right \in Addresses /\ e.result \in Addresses
    BY <1>0, <1>1 DEF TypeOK, MemoEntries
  <2>2. {e.left, e.right, e.result} \subseteq MemoRefs(t)
    BY <1>1 DEF MemoRefs
  <2>3. ~Free(e.left) /\ ~Free(e.right) /\ ~Free(e.result)
    BY <2>2 DEF Free, Weak
  <2> QED BY <1>0, <1>1, <2>1, <2>3 DEF HeapStep, Pinned, MemoOK
<1>2. CASE /\ op[t].pc = "store" /\ content' = content
           /\ e = MemoEntry(op[t].kind, op[t].left, op[t].right, op[t].result)
  <2>1. op[t].kind # "none" /\ Known(op[t])
    BY <1>0, <1>2 DEF OpsOK, OpOK, Known
  <2>2. content[op[t].result] = Apply(op[t].kind, content[op[t].left], content[op[t].right])
    BY <1>0, <2>1 DEF OpsOK, OpOK
  <2> QED BY <1>2, <2>2 DEF MemoEntry
<1> QED BY <1>1, <1>2, MemoGrowth

(* A thread that left its call satisfies OpOK. *)
LEMMA CallLeft == ASSUME NEW u \in Threads, op'[u] = Idle PROVE OpOK(u)'
BY DEF OpOK, Known, Idle

(* A call that goes on with the same operands and result keeps OpOK: what   *)
(* it borrows is neither dropped nor replaced.                              *)
LEMMA CallKept ==
    ASSUME IInv, HeapStep, NEW u \in Threads, op[u].pc # "idle",
           op'[u].pc # "idle", op'[u].pc = "store" => op[u].kind # "none",
           op'[u].kind = op[u].kind, op'[u].left = op[u].left, op'[u].right = op[u].right,
           op'[u].value = op[u].value,
           Known(op'[u]) => Known(op[u]) /\ op'[u].result = op[u].result
    PROVE  OpOK(u)'
<1>0. TypeOK /\ OpOK(u) /\ op[u] \in Op
  BY DEF IInv, OpsOK, TypeOK
<1>1. held[u] \subseteq held'[u]
  BY DEF HeapStep, Borrows
<1>2. \A a \in held[u] \cup {EmptySet} : content'[a] = content[a]
  BY <1>0, HeapAssumption DEF HeapStep, Pinned, Free, Strong, TypeOK
<1>3. op[u].kind # "none" =>
         /\ {op[u].left, op[u].right} \subseteq held'[u]
         /\ op[u].value = Apply(op[u].kind, content'[op[u].left], content'[op[u].right])
  BY <1>0, <1>1, <1>2 DEF OpOK
<1>4. Known(op[u]) => /\ op[u].result \in held'[u] \cup {EmptySet}
                      /\ content'[op[u].result] = op[u].value
  BY <1>0, <1>1, <1>2 DEF OpOK
<1> QED BY <1>3, <1>4 DEF OpOK

(* A thread whose call record does not change keeps OpOK. *)
LEMMA CallUnchanged ==
    ASSUME IInv, HeapStep, NEW u \in Threads, op'[u] = op[u] PROVE OpOK(u)'
<1>1. OpOK(u)
  BY DEF IInv, OpsOK
<1>2. CASE op[u].pc = "idle"
  BY <1>1, <1>2 DEF OpOK, Known
<1>3. CASE op[u].pc # "idle"
  <2>1. op[u].pc = "store" => op[u].kind # "none"
    BY <1>1 DEF OpOK
  <2> QED BY <1>3, <2>1, CallKept
<1> QED BY <1>2, <1>3

(* Leaving the cleanup after an insertion (Return) or moving on inside it.  *)
LEMMA CallMoves ==
    ASSUME IInv, HeapStep, NEW t \in Threads, Known(op[t]), NEW pc \in PCs \ {"idle", "store"},
           Return(t) \/ Goto(t, pc)
    PROVE  OpOK(t)'
<1>0. op \in [Threads -> Op]
  BY DEF IInv, TypeOK
<1>1. op[t] \in Op /\ op[t].pc # "idle"
  BY <1>0 DEF Known
<1>2. CASE Return(t) /\ op[t].kind = "none"
  <2>1. op'[t] = Idle
    BY <1>0, <1>2 DEF Return
  <2> QED BY <2>1, CallLeft
<1>3. CASE Return(t) /\ op[t].kind # "none"
  <2>1. op'[t] = [op[t] EXCEPT !.pc = "store"]
    BY <1>0, <1>3 DEF Return
  <2> QED BY <1>1, <1>3, <2>1, CallKept DEF Op
<1>4. CASE Goto(t, pc)
  <2>1. op'[t] = [op[t] EXCEPT !.pc = pc]
    BY <1>0, <1>4 DEF Goto
  <2> QED BY <1>1, <2>1, CallKept DEF Op
<1> QED BY <1>2, <1>3, <1>4

(* Calls in progress keep their operands and results. *)
LEMMA OpsStep == ASSUME IInv, [Next]_vars PROVE OpsOK'
<1>0. TypeOK /\ TypeOK' /\ HeapStep /\ OpsOK /\ op \in [Threads -> Op]
  BY TypeStep, EveryHeapStep DEF IInv, TypeOK
<1>1. CASE UNCHANGED vars
  BY <1>0, <1>1, CallUnchanged DEF vars, OpsOK
<1>2. ASSUME NEW t \in Threads, Running(t), NEW u \in Threads PROVE OpOK(u)'
  <2>1. CASE u # t
    <3>1. op'[u] = op[u]
      BY <1>0, <1>2, <2>1
         DEF Running, InternExisting, InternFresh, CheckDeferral, CountInsert, ClaimGate,
             ResetCounter, SweepBucket, ReleaseGate, StaleReset, StaleRelease, StoreMemo,
             Return, Goto
    <3> QED BY <1>0, <3>1, CallUnchanged
  <2>2. CASE u = t
    <3>0. op[t] \in Op /\ OpOK(t)
      BY <1>0 DEF OpsOK
    <3>1. CASE InternExisting(t)
      <4>1. PICK a \in table[Fingerprint[op[t].value]] :
              /\ Strong(a) /\ content[a] = op[t].value /\ Hold(t, a)
              /\ op' = [op EXCEPT ![t] =
                    IF @.kind = "none" THEN Idle ELSE [@ EXCEPT !.pc = "store", !.result = a]]
        BY <3>1 DEF InternExisting
      <4>2. CASE op[t].kind = "none"
        BY <1>0, <2>2, <4>1, <4>2, CallLeft
      <4>3. CASE op[t].kind # "none"
        <5>1. op'[t] = [op[t] EXCEPT !.pc = "store", !.result = a]
          BY <1>0, <4>1, <4>3
        <5>2. /\ op'[t].pc = "store" /\ op'[t].kind = op[t].kind /\ op'[t].left = op[t].left
              /\ op'[t].right = op[t].right /\ op'[t].value = op[t].value /\ op'[t].result = a
          BY <3>0, <5>1 DEF Op
        <5>3. content' = content /\ held[t] \subseteq held'[t] /\ a \in held'[t] \cup {EmptySet}
          BY <1>0, <3>1, <4>1 DEF InternExisting, Hold, TypeOK
        <5> QED BY <2>2, <3>0, <4>1, <4>3, <5>2, <5>3 DEF OpOK
      <4> QED BY <4>2, <4>3
    <3>2. CASE InternFresh(t)
      <4>1. PICK a \in Addresses :
              /\ Free(a) /\ Hold(t, a) /\ content' = [content EXCEPT ![a] = op[t].value]
              /\ op' = [op EXCEPT ![t] = [@ EXCEPT !.pc = "deferral", !.result = a]]
        BY <3>2 DEF InternFresh
      <4>2. op'[t] = [op[t] EXCEPT !.pc = "deferral", !.result = a]
        BY <1>0, <4>1
      <4>3. /\ op'[t].pc = "deferral" /\ op'[t].kind = op[t].kind /\ op'[t].left = op[t].left
            /\ op'[t].right = op[t].right /\ op'[t].value = op[t].value /\ op'[t].result = a
        BY <3>0, <4>2 DEF Op
      <4>4. content'[a] = op[t].value /\ held[t] \subseteq held'[t] /\ a \in held'[t] \cup {EmptySet}
        BY <1>0, <4>1 DEF Hold, TypeOK
      <4>5. \A b \in held[t] : content'[b] = content[b]
        BY <1>0 DEF HeapStep, Pinned, Free, Strong, TypeOK
      <4> QED BY <2>2, <3>0, <4>3, <4>4, <4>5 DEF OpOK
    <3>3. CASE CheckDeferral(t)
      BY <1>0, <2>2, <3>3, CallMoves DEF CheckDeferral, Known, PCs
    <3>4. CASE CountInsert(t)
      BY <1>0, <2>2, <3>4, CallMoves DEF CountInsert, Known, PCs
    <3>5. CASE ClaimGate(t)
      BY <1>0, <2>2, <3>5, CallMoves DEF ClaimGate, Known, PCs
    <3>6. CASE ReleaseGate(t)
      BY <1>0, <2>2, <3>6, CallMoves DEF ReleaseGate, Known, PCs
    <3>7. CASE ResetCounter(t)
      <4>1. op'[t] = [op[t] EXCEPT !.pc = "sweep", !.rest = Fingerprints]
        BY <1>0, <3>7 DEF ResetCounter
      <4> QED BY <1>0, <2>2, <3>0, <3>7, <4>1, CallKept DEF ResetCounter, Known, Op
    <3>8. ASSUME NEW p \in Fingerprints, SweepBucket(t, p) PROVE OpOK(t)'
      <4> DEFINE next == IF op[t].rest # {p} THEN op[t].pc
                         ELSE IF op[t].pc = "sweep" THEN "release" ELSE "stale_reset"
      <4>1. op'[t] = [op[t] EXCEPT !.rest = @ \ {p}, !.pc = next]
        BY <1>0, <3>8 DEF SweepBucket
      <4>2. op[t].pc \in {"sweep", "stale_sweep"}
        BY <3>8 DEF SweepBucket
      <4>3. /\ next \in {"sweep", "stale_sweep", "release", "stale_reset"}
            /\ next \in {"sweep", "release"} => op[t].pc = "sweep"
        BY <4>2
      <4> HIDE DEF next
      <4>4. /\ op'[t].pc = next /\ op'[t].kind = op[t].kind /\ op'[t].left = op[t].left
            /\ op'[t].right = op[t].right /\ op'[t].value = op[t].value
            /\ op'[t].result = op[t].result
        BY <3>0, <4>1 DEF Op
      <4> QED BY <1>0, <4>2, <4>3, <4>4, CallKept DEF Known
    <3>9. CASE StaleReset(t)
      <4>1. op'[t] = [op[t] EXCEPT !.pc = "stale_release"]
        BY <1>0, <3>9 DEF StaleReset, Goto
      <4> QED BY <1>0, <2>2, <3>0, <3>9, <4>1, CallKept DEF StaleReset, Known, Op
    <3>10. CASE StaleRelease(t) \/ StoreMemo(t)
      <4>1. op'[t] = Idle
        BY <1>0, <3>10 DEF StaleRelease, StoreMemo
      <4> QED BY <2>2, <4>1, CallLeft
    <3> QED BY <1>2, <2>2, <3>1, <3>2, <3>3, <3>4, <3>5, <3>6, <3>7, <3>8, <3>9, <3>10 DEF Running
  <2> QED BY <2>1, <2>2
<1>3. ASSUME NEW t \in Threads, Calls(t), NEW u \in Threads PROVE OpOK(u)'
  <2>1. ASSUME NEW v \in Values, SharedRangeset(t, v) PROVE OpOK(u)'
    <3>1. CASE u # t
      BY <1>0, <2>1, <3>1, CallUnchanged DEF SharedRangeset
    <3>2. CASE u = t
      <4>1. op'[t] = [Idle EXCEPT !.pc = "intern", !.value = v]
        BY <1>0, <2>1 DEF SharedRangeset
      <4> QED BY <3>2, <4>1 DEF OpOK, Known, Idle
    <3> QED BY <3>1, <3>2
  <2>2. ASSUME NEW kind \in Kinds, NEW a \in Addresses, NEW b \in Addresses, MemoMiss(t, kind, a, b)
        PROVE  OpOK(u)'
    <3>1. CASE u # t
      BY <1>0, <2>2, <3>1, CallUnchanged DEF MemoMiss
    <3>2. CASE u = t
      <4> DEFINE v == Apply(kind, content[a], content[b])
                 known == IF v = content[a] THEN a ELSE IF v = content[b] THEN b ELSE EmptySet
                 pc == IF v \in {content[a], content[b], {}} THEN "store" ELSE "intern"
      <4>1. op'[t] = [pc |-> pc, kind |-> kind, left |-> a, right |-> b, value |-> v,
                      result |-> known, rest |-> {}]
        BY <1>0, <2>2 DEF MemoMiss
      <4>2. a \in held[t] /\ b \in held[t] /\ UNCHANGED <<held, content>>
        BY <2>2 DEF MemoMiss
      <4>3. pc = "store" => known \in held[t] \cup {EmptySet} /\ content[known] = v
        BY <4>2 DEF IInv, EmptySetOK
      <4>4. pc \in {"store", "intern"} /\ kind # "none"
        BY DEF Kinds
      <4>5. v = Apply(kind, content[a], content[b])
        OBVIOUS
      <4> HIDE DEF v, known, pc
      <4> QED BY <3>2, <4>1, <4>2, <4>3, <4>4, <4>5 DEF OpOK, Known
    <3> QED BY <3>1, <3>2
  <2>3. CASE ReleaseDeferral(t) \/ ClearStaleWeights(t)
    <3>1. CASE op'[u] = op[u]
      BY <1>0, <3>1, CallUnchanged
    <3>2. CASE op'[u] # op[u]
      <4>1. op'[u] = [Idle EXCEPT !.pc = "stale_sweep", !.rest = Fingerprints]
        BY <1>0, <2>3, <3>2 DEF ReleaseDeferral, ClearStaleWeights, ClearStaleFrom
      <4> QED BY <4>1 DEF OpOK, Known, Idle
    <3> QED BY <3>1, <3>2
  <2>4. CASE \/ \E v \in Values : ArtifactLocal(t, v)
             \/ Defer(t)
             \/ \E kind \in Kinds, a, b \in Addresses : MemoHit(t, kind, a, b)
             \/ \E a \in Addresses : Drop(t, a)
             \/ \E w \in Threads, a \in Addresses : Send(t, w, a)
    <3>1. op' = op
      BY <2>4 DEF ArtifactLocal, Defer, MemoHit, Drop, Send
    <3> QED BY <1>0, <3>1, CallUnchanged
  <2> QED BY <1>3, <2>1, <2>2, <2>3, <2>4 DEF Calls
<1> QED BY <1>1, <1>2, <1>3 DEF Next, OpsOK

(* The invariant holds initially and is kept by every step. *)
LEMMA InvInit == Init => IInv
<1> SUFFICES ASSUME Init PROVE IInv
  OBVIOUS
<1>1. TypeOK
  BY IdleType, HeapAssumption DEF Init, TypeOK, Values
<1>2. EmptySetOK /\ Tabled /\ OneArcPerValue /\ MemoOK
  BY HeapAssumption DEF Init, EmptySetOK, Tabled, OneArcPerValue, MemoOK
<1>3. OpsOK
  BY DEF Init, OpsOK, OpOK, Known, Idle
<1> QED BY <1>1, <1>2, <1>3 DEF IInv

LEMMA InvStep == IInv /\ [Next]_vars => IInv'
BY TypeStep, TableStep, MemoStep, OpsStep DEF IInv

(* An answer of a memo entry is about the key its caller presents. *)
LEMMA MemoAnswers == IInv => MemoSound
<1> SUFFICES ASSUME IInv, NEW t \in Threads, NEW a \in Addresses, NEW b \in Addresses,
                    NEW kind \in Kinds, NEW e \in EntriesFor(t, kind, a, b)
             PROVE  content[e.result] = Apply(kind, content[a], content[b])
  BY DEF MemoSound
<1>1. e \in memo[t] /\ e.kind = kind /\ e.key = {a, b}
  BY DEF EntriesFor
<1>2. e.key = {e.left, e.right} /\ content[e.result] = Apply(kind, content[e.left], content[e.right])
  BY <1>1 DEF IInv, MemoOK
<1>3. (e.left = a /\ e.right = b) \/ (e.left = b /\ e.right = a)
  BY <1>1, <1>2
<1>4. \A v, w : Apply(kind, v, w) = Apply(kind, w, v)
  BY DEF Apply
<1> QED BY <1>2, <1>3, <1>4

(* Interning is canonical: at no time do two live Arcs from intern_rangeset *)
(* carry the same value, whatever sweeps, drops and clones happen in any    *)
(* number of threads.                                                       *)
THEOREM InterningIsCanonical == Spec => []OneArcPerValue
<1>1. IInv => OneArcPerValue
  BY DEF IInv
<1> QED BY InvInit, InvStep, <1>1, PTL DEF Spec

(* Memo lookups by address are never fooled by address reuse: an answer is  *)
(* the result for the sets now at the addresses (lookup_token_set).         *)
THEOREM MemoIsSound == Spec => []MemoSound
BY InvInit, InvStep, MemoAnswers, PTL DEF Spec
=============================================================================
