--------------------------- MODULE WeightInterner ---------------------------
(***************************************************************************)
(* The global token-set interner of crates/glrmask-weight, the per-thread  *)
(* memo of set operations in front of it, and the sweeps that remove dead  *)
(* entries (src/implementation.rs).                                        *)
(*                                                                         *)
(* The interner maps a fingerprint to a bucket of weak references; the     *)
(* bucket's shard lock is held from the search to the insertion, so one    *)
(* call of intern_rangeset is one step up to the insertion. Everything     *)
(* after it (the deferral test, the counter, the gate, the scan bucket by  *)
(* bucket, the release) is a step of its own.                              *)
(*                                                                         *)
(* A memo key is a pair of addresses. An address is reused when neither a  *)
(* strong nor a weak reference to it is left, as for Arc and Weak of the   *)
(* standard library. The weight table is a second instance of the same     *)
(* code over maps and is not repeated here.                                *)
(***************************************************************************)
EXTENDS Naturals, FiniteSets

CONSTANTS
    Threads,
    Addresses,   \* addresses of Arc allocations
    EmptySet,    \* the address of EMPTY_RANGESET
    Ids,         \* token ids
    Fingerprints,      \* fingerprints
    Fingerprint,       \* Fingerprint[v]: rangeset_fingerprint of the set v
    Interval,    \* INTERNER_CLEANUP_INTERVAL
    MaxInserts   \* bound on the insertions between two resets of the counter

Values == SUBSET Ids

ASSUME HeapAssumption == EmptySet \in Addresses /\ Fingerprint \in [Values -> Fingerprints]
ASSUME CounterAssumption == Interval \in Nat \ {0} /\ MaxInserts \in Nat

VARIABLES
    content,     \* [Addresses -> Values]: what the allocation holds
    held,        \* [Threads -> SUBSET Addresses]: the Arcs of a thread
    interned,    \* history: addresses that intern_rangeset handed out
    table,       \* GLOBAL_TOKEN_SETS: [Fingerprints -> set of weak references]
    memo,        \* token_set_results of each thread
    inserts,     \* inserts_since_cleanup of each thread's memo
    counter,     \* TOKEN_INSERTS_SINCE_CLEANUP
    inProgress,  \* TOKEN_CLEANUP_IN_PROGRESS
    guards,      \* [Threads -> BOOLEAN]: live WeightInternerCleanupDeferral
    op           \* [Threads -> Op]: the call a thread is in

vars == <<content, held, interned, table, memo, inserts, counter, inProgress, guards, op>>

Kinds == {"union", "intersection"}
Apply(kind, v, w) == IF kind = "union" THEN v \cup w ELSE v \cap w

MemoEntries == [kind : Kinds, key : SUBSET Addresses, left : Addresses, right : Addresses,
                result : Addresses]

PCs == {"idle", "intern", "deferral", "count", "gate", "reset", "sweep", "release", "store",
        "stale_sweep", "stale_reset", "stale_release"}
Op == [pc : PCs, kind : Kinds \cup {"none"}, left : Addresses, right : Addresses,
       value : Values, result : Addresses, rest : SUBSET Fingerprints]
Idle == [pc |-> "idle", kind |-> "none", left |-> EmptySet, right |-> EmptySet,
         value |-> {}, result |-> EmptySet, rest |-> {}]

TypeOK ==
    /\ content \in [Addresses -> Values]
    /\ held \in [Threads -> SUBSET Addresses]
    /\ interned \subseteq Addresses
    /\ table \in [Fingerprints -> SUBSET Addresses]
    /\ memo \in [Threads -> SUBSET MemoEntries]
    /\ inserts \in [Threads -> Nat]
    /\ counter \in Nat /\ inProgress \in BOOLEAN
    /\ guards \in [Threads -> BOOLEAN]
    /\ op \in [Threads -> Op]

Init ==
    /\ content = [a \in Addresses |-> {}]
    /\ held = [t \in Threads |-> {}]
    /\ interned = {}
    /\ table = [p \in Fingerprints |-> {}]
    /\ memo = [t \in Threads |-> {}]
    /\ inserts = [t \in Threads |-> 0]
    /\ counter = 0 /\ inProgress = FALSE
    /\ guards = [t \in Threads |-> FALSE]
    /\ op = [t \in Threads |-> Idle]

----------------------------------------------------------------------------
(* References *)

Strong(a) == a = EmptySet \/ \E t \in Threads : a \in held[t]
MemoRefs(t) == {e.left : e \in memo[t]} \cup {e.right : e \in memo[t]}
                 \cup {e.result : e \in memo[t]}
Weak(a) == (\E p \in Fingerprints : a \in table[p]) \/ (\E t \in Threads : a \in MemoRefs(t))
Free(a) == ~Strong(a) /\ ~Weak(a)

(* Memory suffices for the calls in progress and one more. *)
Room == Cardinality({a \in Addresses : Free(a)}) >
        Cardinality({t \in Threads : op[t].pc = "intern"})

(* A thread takes one more Arc; the static empty set needs no counting. *)
Hold(t, a) == held' = [held EXCEPT ![t] = @ \cup ({a} \ {EmptySet})]

Goto(t, pc) == op' = [op EXCEPT ![t].pc = pc]
(* The end of intern_rangeset: an operation goes on to store its result.    *)
Return(t) ==
    op' = [op EXCEPT ![t] = IF @.kind = "none" THEN Idle ELSE [@ EXCEPT !.pc = "store"]]

----------------------------------------------------------------------------
(* intern_rangeset *)

(* shared_rangeset(v) of a non-empty set; an empty one is EMPTY_RANGESET.   *)
SharedRangeset(t, v) ==
    /\ op[t].pc = "idle" /\ v # {} /\ Room /\ counter < MaxInserts
    /\ op' = [op EXCEPT ![t] = [Idle EXCEPT !.pc = "intern", !.value = v]]
    /\ UNCHANGED <<content, held, interned, table, memo, inserts, counter, inProgress, guards>>

(* The live entry that is found; dead entries met before it are removed.    *)
InternExisting(t) ==
    LET v == op[t].value
        p == Fingerprint[v]
    IN /\ op[t].pc = "intern"
       /\ \E a \in table[p], dead \in SUBSET {b \in table[p] : ~Strong(b)} :
             /\ Strong(a) /\ content[a] = v
             /\ table' = [table EXCEPT ![p] = @ \ dead]
             /\ Hold(t, a)
             /\ op' = [op EXCEPT ![t] =
                   IF @.kind = "none" THEN Idle ELSE [@ EXCEPT !.pc = "store", !.result = a]]
       /\ UNCHANGED <<content, interned, memo, inserts, counter, inProgress, guards>>

(* No live entry has this value: every dead one is gone by the end of the   *)
(* search, and a new allocation is entered.                                 *)
InternFresh(t) ==
    LET v == op[t].value
        p == Fingerprint[v]
        live == {b \in table[p] : Strong(b)}
    IN /\ op[t].pc = "intern"
       /\ \A b \in live : content[b] # v
       /\ \E a \in Addresses :
             /\ Free(a)
             /\ content' = [content EXCEPT ![a] = v]
             /\ table' = [table EXCEPT ![p] = live \cup {a}]
             /\ interned' = interned \cup {a}
             /\ Hold(t, a)
             /\ op' = [op EXCEPT ![t] = [@ EXCEPT !.pc = "deferral", !.result = a]]
       /\ UNCHANGED <<memo, inserts, counter, inProgress, guards>>

(* shared_rangeset_artifact_local: an Arc outside the table. *)
ArtifactLocal(t, v) ==
    /\ op[t].pc = "idle" /\ v # {} /\ Room
    /\ \E a \in Addresses :
          /\ Free(a)
          /\ content' = [content EXCEPT ![a] = v]
          /\ interned' = interned \ {a}
          /\ Hold(t, a)
    /\ UNCHANGED <<table, memo, inserts, counter, inProgress, guards, op>>

----------------------------------------------------------------------------
(* maybe_cleanup_token_sets *)

Deferred == \E t \in Threads : guards[t]

CheckDeferral(t) ==
    /\ op[t].pc = "deferral"
    /\ IF Deferred THEN Return(t) ELSE Goto(t, "count")
    /\ UNCHANGED <<content, held, interned, table, memo, inserts, counter, inProgress, guards>>

(* claim_interner_cleanup: fetch_add, compare_exchange, store. *)
CountInsert(t) ==
    /\ op[t].pc = "count"
    /\ counter' = counter + 1
    /\ IF counter + 1 < Interval THEN Return(t) ELSE Goto(t, "gate")
    /\ UNCHANGED <<content, held, interned, table, memo, inserts, inProgress, guards>>

ClaimGate(t) ==
    /\ op[t].pc = "gate"
    /\ inProgress' = TRUE
    /\ IF inProgress THEN Return(t) ELSE Goto(t, "reset")
    /\ UNCHANGED <<content, held, interned, table, memo, inserts, counter, guards>>

ResetCounter(t) ==
    /\ op[t].pc = "reset"
    /\ counter' = 0
    /\ op' = [op EXCEPT ![t].pc = "sweep", ![t].rest = Fingerprints]
    /\ UNCHANGED <<content, held, interned, table, memo, inserts, inProgress, guards>>

(* Faulty variant of Prune: a strong count of one is taken for none.        *)
PruneLastHolder(bucket) ==
    {a \in bucket : \E t, u \in Threads : t # u /\ a \in held[t] \cap held[u]}

(* The closure of prune_dead_token_sets. *)
Prune(bucket) == {a \in bucket : Strong(a)}

(* One bucket of the scan, under the lock of its shard. *)
SweepBucket(t, p) ==
    /\ op[t].pc \in {"sweep", "stale_sweep"} /\ p \in op[t].rest
    /\ table' = [table EXCEPT ![p] = Prune(@)]
    /\ op' = [op EXCEPT ![t].rest = @ \ {p},
                        ![t].pc = IF op[t].rest # {p} THEN @
                                  ELSE IF @ = "sweep" THEN "release" ELSE "stale_reset"]
    /\ UNCHANGED <<content, held, interned, memo, inserts, counter, inProgress, guards>>

(* Faulty variant of ReleaseGate: the gate is left closed.                  *)
ReleaseNothing(t) ==
    /\ op[t].pc = "release"
    /\ Return(t)
    /\ UNCHANGED <<content, held, interned, table, memo, inserts, counter, inProgress, guards>>

ReleaseGate(t) ==
    /\ op[t].pc = "release"
    /\ inProgress' = FALSE
    /\ Return(t)
    /\ UNCHANGED <<content, held, interned, table, memo, inserts, counter, guards>>

(* defer_weight_interner_cleanup, and the end of a deferral: the last one   *)
(* runs interner_clear_stale, as clear_stale_weights does at any time.      *)
Defer(t) ==
    /\ op[t].pc = "idle" /\ ~guards[t]
    /\ guards' = [guards EXCEPT ![t] = TRUE]
    /\ UNCHANGED <<content, held, interned, table, memo, inserts, counter, inProgress, op>>

ClearStaleFrom(t) == op' = [op EXCEPT ![t] = [Idle EXCEPT !.pc = "stale_sweep", !.rest = Fingerprints]]

ReleaseDeferral(t) ==
    /\ op[t].pc = "idle" /\ guards[t]
    /\ guards' = [guards EXCEPT ![t] = FALSE]
    /\ IF \E u \in Threads \ {t} : guards[u] THEN UNCHANGED op ELSE ClearStaleFrom(t)
    /\ UNCHANGED <<content, held, interned, table, memo, inserts, counter, inProgress>>

ClearStaleWeights(t) ==
    /\ op[t].pc = "idle"
    /\ ClearStaleFrom(t)
    /\ UNCHANGED <<content, held, interned, table, memo, inserts, counter, inProgress, guards>>

StaleReset(t) ==
    /\ op[t].pc = "stale_reset"
    /\ counter' = 0
    /\ Goto(t, "stale_release")
    /\ UNCHANGED <<content, held, interned, table, memo, inserts, inProgress, guards>>

StaleRelease(t) ==
    /\ op[t].pc = "stale_release"
    /\ inProgress' = FALSE
    /\ op' = [op EXCEPT ![t] = Idle]
    /\ UNCHANGED <<content, held, interned, table, memo, inserts, counter, guards>>

----------------------------------------------------------------------------
(* Memoised set operations *)

(* The cases that shared_token_union and shared_token_intersection decide   *)
(* without looking at the memo return one of their operands.                *)
Memoised(kind, a, b) ==
    IF kind = "union" THEN ~(content[a] \subseteq content[b]) /\ ~(content[b] \subseteq content[a])
    ELSE a # b /\ content[a] # {} /\ content[b] # {}

EntriesFor(t, kind, a, b) == {e \in memo[t] : e.kind = kind /\ e.key = {a, b}}
OperandDied(e) == ~Strong(e.left) \/ ~Strong(e.right)

(* lookup_token_set answers with a result that is still alive. *)
Answers(e) == ~OperandDied(e) /\ Strong(e.result)

(* An intersection as large as an operand is that operand. *)
Representative(kind, a, b, r) ==
    IF kind = "intersection" /\ Cardinality(content[r]) = Cardinality(content[a]) THEN a
    ELSE IF kind = "intersection" /\ Cardinality(content[r]) = Cardinality(content[b]) THEN b
    ELSE r

MemoHit(t, kind, a, b) ==
    /\ op[t].pc = "idle" /\ a \in held[t] /\ b \in held[t] /\ Memoised(kind, a, b)
    /\ \E e \in EntriesFor(t, kind, a, b) :
          /\ Answers(e)
          /\ Hold(t, Representative(kind, a, b, e.result))
    /\ UNCHANGED <<content, interned, table, memo, inserts, counter, inProgress, guards, op>>

(* No answer: an entry with a dead operand is removed, and the result is an *)
(* operand, the empty set, or a set to intern.                              *)
MemoMiss(t, kind, a, b) ==
    LET v == Apply(kind, content[a], content[b])
        known == IF v = content[a] THEN a ELSE IF v = content[b] THEN b ELSE EmptySet
    IN /\ op[t].pc = "idle" /\ a \in held[t] /\ b \in held[t] /\ Memoised(kind, a, b)
       /\ v \in {content[a], content[b], {}} \/ (Room /\ counter < MaxInserts)
       /\ \A e \in EntriesFor(t, kind, a, b) : ~Answers(e)
       /\ memo' = [memo EXCEPT ![t] = @ \ {e \in EntriesFor(t, kind, a, b) : OperandDied(e)}]
       /\ op' = [op EXCEPT ![t] =
             [pc |-> IF v \in {content[a], content[b], {}} THEN "store" ELSE "intern",
              kind |-> kind, left |-> a, right |-> b, value |-> v, result |-> known, rest |-> {}]]
       /\ UNCHANGED <<content, held, interned, table, inserts, counter, inProgress, guards>>

(* Faulty variant of MemoEntry: only the left operand is referenced.        *)
MemoEntryLeftOnly(kind, a, b, r) ==
    [kind |-> kind, key |-> {a, b}, left |-> a, right |-> a, result |-> r]

(* TokenSetOpMemoEntry: weak references to the result and both operands.    *)
MemoEntry(kind, a, b, r) ==
    [kind |-> kind, key |-> {a, b}, left |-> a, right |-> b, result |-> r]

(* store_token_set, with its own occasional cleanup. *)
StoreMemo(t) ==
    LET c == op[t]
        full == inserts[t] >= Interval
        kept == {e \in memo[t] : (full => Strong(e.result)) /\ ~(e.kind = c.kind /\ e.key = {c.left, c.right})}
    IN /\ c.pc = "store"
       /\ memo' = [memo EXCEPT ![t] = kept \cup {MemoEntry(c.kind, c.left, c.right, c.result)}]
       /\ inserts' = [inserts EXCEPT ![t] = IF full THEN 1 ELSE @ + 1]
       /\ op' = [op EXCEPT ![t] = Idle]
       /\ UNCHANGED <<content, held, interned, table, counter, inProgress, guards>>

(* An Arc is dropped, or cloned for another thread. *)
Drop(t, a) ==
    /\ op[t].pc = "idle" /\ a \in held[t]
    /\ held' = [held EXCEPT ![t] = @ \ {a}]
    /\ UNCHANGED <<content, interned, table, memo, inserts, counter, inProgress, guards, op>>

Send(t, u, a) ==
    /\ op[t].pc = "idle" /\ a \in held[t] /\ a \notin held[u]
    /\ Hold(u, a)
    /\ UNCHANGED <<content, interned, table, memo, inserts, counter, inProgress, guards, op>>

----------------------------------------------------------------------------

(* The steps of a call in progress. *)
Running(t) ==
    \/ InternExisting(t) \/ InternFresh(t)
    \/ CheckDeferral(t) \/ CountInsert(t) \/ ClaimGate(t) \/ ResetCounter(t)
    \/ \E p \in Fingerprints : SweepBucket(t, p)
    \/ ReleaseGate(t) \/ StaleReset(t) \/ StaleRelease(t)
    \/ StoreMemo(t)

(* The calls a thread may make. *)
Calls(t) ==
    \/ \E v \in Values : SharedRangeset(t, v)
    \/ \E v \in Values : ArtifactLocal(t, v)
    \/ Defer(t) \/ ReleaseDeferral(t) \/ ClearStaleWeights(t)
    \/ \E kind \in Kinds, a, b \in Addresses : MemoHit(t, kind, a, b)
    \/ \E kind \in Kinds, a, b \in Addresses : MemoMiss(t, kind, a, b)
    \/ \E a \in Addresses : Drop(t, a)
    \/ \E u \in Threads, a \in Addresses : Send(t, u, a)

Next == \E t \in Threads : Running(t) \/ Calls(t)

Spec == Init /\ [][Next]_vars

(* A thread that has entered a call is scheduled until it leaves it. *)
FairSpec == Spec /\ \A t \in Threads : WF_vars(Running(t))

----------------------------------------------------------------------------
(* Properties *)

(* Two live Arcs from intern_rangeset with the same value are one Arc,      *)
(* whatever sweeps ran between the two calls ("Fresh interning remains      *)
(* exact; only the timing of weak-entry removal changes").                  *)
OneArcPerValue ==
    \A a, b \in interned : Strong(a) /\ Strong(b) /\ content[a] = content[b] => a = b

(* An answer of the memo is the result of the operation on the sets that    *)
(* are now at the two addresses of its key, however often allocations died  *)
(* and addresses were reused since it was stored (the ABA guard of          *)
(* TokenSetOpMemoEntry).                                                    *)
MemoSound ==
    \A t \in Threads : \A a, b \in Addresses : \A kind \in Kinds :
        Strong(a) /\ Strong(b) =>
          \A e \in EntriesFor(t, kind, a, b) :
            Answers(e) => content[e.result] = Apply(kind, content[a], content[b])

(* A claimed sweep ends and opens the gate again (maybe_cleanup_token_sets).*)
GateReopens == inProgress ~> ~inProgress

----------------------------------------------------------------------------
(* The inductive invariant behind OneArcPerValue and MemoSound *)

EmptySetOK == content[EmptySet] = {}

(* A live interned Arc is in its bucket: a search cannot miss it.           *)
Tabled == \A a \in interned : Strong(a) => a \in table[Fingerprint[content[a]]]

(* A memo entry speaks of the allocations at its addresses for as long as   *)
(* it exists: its weak references keep all three from being reused.         *)
MemoOK ==
    \A t \in Threads : \A e \in memo[t] :
        /\ e.key = {e.left, e.right}
        /\ content[e.result] = Apply(e.kind, content[e.left], content[e.right])

(* A thread in an operation holds its operands and, once it is known, the   *)
(* result.                                                                  *)
Known(c) == c.pc \in {"deferral", "count", "gate", "reset", "sweep", "release", "store"}
OpOK(t) ==
    LET c == op[t]
    IN /\ c.pc = "idle" => c.kind = "none"
       /\ c.pc = "store" => c.kind # "none"
       /\ c.kind # "none" => /\ {c.left, c.right} \subseteq held[t]
                             /\ c.value = Apply(c.kind, content[c.left], content[c.right])
       /\ Known(c) => c.result \in held[t] \cup {EmptySet} /\ content[c.result] = c.value
OpsOK == \A t \in Threads : OpOK(t)

IInv == TypeOK /\ EmptySetOK /\ Tabled /\ OneArcPerValue /\ MemoOK /\ OpsOK
=============================================================================
