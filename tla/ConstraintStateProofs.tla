----------------------- MODULE ConstraintStateProofs -----------------------
(***************************************************************************)
(* Proofs about ConstraintState for every value of its constants: type     *)
(* correctness, and, for artifacts whose DWA carries its special-token     *)
(* edges, that every mask is exact and decides the next commit.            *)
(***************************************************************************)
EXTENDS ConstraintState, TLAPS

(* What the engines compute for a frontier is a set of known ids, and the   *)
(* last filter of fill_mask turns it into what a commit accepts. The parser *)
(* DWA gives the same once its special-token edges are in, the walk's own   *)
(* or the ones the overlay adds; what it says of open slots is dropped.     *)
LEMMA BodyFacts ==
    ASSUME NEW b \in Backends, NEW f \in Frontiers
    PROVE  /\ Body(f) \subseteq Tokens
           /\ Admitted(b, f) \subseteq Tokens
           /\ Overlay(b, f) \subseteq Tokens
           /\ IsBody(b, f, Body(f))
           /\ \A m : IsBody(b, f, m) => IsBody(b, f, m \cup Overlay(b, f))
           /\ \A m : IsBody(b, f, m) => IsBody(b, f, ClearPlaceholders(b, f, m))
           /\ \A s \in SUBSET SpecialLive[f] :
                 SpecialLive[f] \subseteq Expand(DwaDense[f]) \cup s
                    => IsBody(b, f, Expand(DwaDense[f]) \cup s)
<1>1. ByteLive[f] \subseteq Tokens /\ SpecialLive[f] \subseteq Tokens
  BY EngineAssumption
<1>2. Placeholders \cap Tokens = {}
  BY ObjectsAssumption
<1>3. Body(f) \subseteq Tokens /\ Admitted(b, f) \subseteq Tokens /\ Overlay(b, f) \subseteq Tokens
  BY <1>1 DEF Body, Admitted, Overlay
<1>4. IsBody(b, f, Body(f))
  BY <1>1, <1>2 DEF Body, IsBody, Admitted, ClearPlaceholders
<1>5. ASSUME NEW m, IsBody(b, f, m) PROVE IsBody(b, f, m \cup Overlay(b, f))
  BY <1>1, <1>2, <1>5 DEF IsBody, Admitted, Overlay, ClearPlaceholders
<1>6. ASSUME NEW m, IsBody(b, f, m) PROVE IsBody(b, f, ClearPlaceholders(b, f, m))
  BY <1>6 DEF IsBody, ClearPlaceholders
<1>7. ASSUME NEW s \in SUBSET SpecialLive[f],
             SpecialLive[f] \subseteq Expand(DwaDense[f]) \cup s
      PROVE  IsBody(b, f, Expand(DwaDense[f]) \cup s)
  <2>1. /\ ByteLive[f] \subseteq Expand(DwaDense[f])
        /\ Expand(DwaDense[f]) \subseteq ByteLive[f] \cup SpecialLive[f] \cup Placeholders
    BY EngineAssumption DEF Body
  <2> QED BY <1>1, <1>2, <1>7, <2>1 DEF IsBody, Admitted, ClearPlaceholders
<1> QED BY <1>3, <1>4, <1>5, <1>6, <1>7

(* A set of internal classes denotes ids the caller may be shown            *)
(* (internal_token_to_tokens).                                              *)
LEMMA ExpandType == \A dense : Expand(dense) \in SUBSET Ids
BY ObjectsAssumption DEF Expand, Ids

(* The parser DWA walk gives the body mask when it has the special edges.   *)
LEMMA StaticBody ==
    ASSUME DwaHasSpecials, NEW b \in Backends, b = "static", NEW f \in Frontiers
    PROVE  IsBody(b, f, Expand(DwaDense[f]))
<1>1. SpecialLive[f] \subseteq Expand(DwaDense[f]) \cup {}
  BY DEF DwaHasSpecials
<1>2. IsBody(b, f, Expand(DwaDense[f]) \cup {})
  BY <1>1, BodyFacts
<1>3. Expand(DwaDense[f]) \cup {} = Expand(DwaDense[f])
  OBVIOUS
<1> QED BY <1>2, <1>3

(* Patching a cached mask with the classes that left and joined gives the   *)
(* expansion of the new bitmap (apply_internal_dense_delta_to_buf).         *)
LEMMA DeltaExact ==
    ASSUME NEW entry, NEW dense, entry.mask = Expand(entry.dense)
    PROVE  ApplyDenseDelta(entry, dense) = Expand(dense)
BY DEF ApplyDenseDelta, Expand

(* Re-stamping a cache entry keeps everything but its generation            *)
(* (touch_mask_cache_generation, finish_commit_generation).                 *)
LEMMA Restamp ==
    ASSUME NEW e \in CacheEntry, NEW n \in Nat
    PROVE  /\ [e EXCEPT !.generation = n] \in CacheEntry
           /\ [e EXCEPT !.generation = n].generation = n
           /\ [e EXCEPT !.generation = n].some = e.some
           /\ [e EXCEPT !.generation = n].mask = e.mask
           /\ [e EXCEPT !.generation = n].hasDense = e.hasDense
           /\ [e EXCEPT !.generation = n].dense = e.dense
BY DEF CacheEntry

(* Every action keeps the variables in their types, and a thread inside     *)
(* fill_mask on a state.                                                    *)
TypeInv == TypeOK /\ BorrowOK

LEMMA TypeStep == TypeInv /\ [Next]_vars => TypeInv'
<1> SUFFICES ASSUME TypeInv, [Next]_vars PROVE TypeInv'
  OBVIOUS
<1> USE ObjectsAssumption DEF TypeInv
<1>a. \A dense : Expand(dense) \in SUBSET Ids
  BY ExpandType
<1>b. \A f \in Frontiers : Body(f) \in SUBSET Ids /\ Overlay(backend, f) \in SUBSET Ids
  BY BodyFacts DEF Ids, TypeOK
<1>c. ASSUME NEW t \in Threads, call[t].pc # "idle"
      PROVE  /\ call[t].handle \in Handles
             /\ frontier[call[t].handle] \in Frontiers
             /\ cache[call[t].handle] \in CacheEntry
             /\ DwaDense[frontier[call[t].handle]] \in SUBSET Classes
             /\ call[t].buf \in SUBSET Ids
  BY <1>c, EngineAssumption DEF TypeOK, BorrowOK, Call
<1>d. ASSUME NEW t \in Threads, call[t].pc # "idle", NEW pc \in PCs, NEW buf \in SUBSET Ids,
             NEW touch \in BOOLEAN, NEW dirty \in BOOLEAN,
             MoveTo(t, pc, buf, touch, dirty)
      PROVE  call' \in [Threads -> Call] /\ BorrowOK'
  BY <1>d DEF TypeOK, BorrowOK, MoveTo, Call
<1>1. ASSUME NEW t \in Threads, NEW h \in Handles, FillMaskBegin(t, h) PROVE TypeInv'
  BY <1>1 DEF TypeOK, BorrowOK, FillMaskBegin, CacheHit, Call, PCs, CacheEntry
<1>2. ASSUME NEW t \in Threads, ComputeStatic(t) PROVE TypeInv'
  <2> DEFINE entry == cache[call[t].handle]
             dense == DwaDense[frontier[call[t].handle]]
  <2>0. call[t].pc # "idle" BY <1>2 DEF ComputeStatic
  <2>1. entry.mask \in SUBSET Ids /\ ApplyDenseDelta(entry, dense) \in SUBSET Ids
    BY <1>a, <1>c, <2>0 DEF CacheEntry, ApplyDenseDelta
  <2>2. \/ MoveTo(t, "store", entry.mask, TRUE, FALSE)
        \/ MoveTo(t, "store", ApplyDenseDelta(entry, dense), FALSE, FALSE)
        \/ \E dirty \in BOOLEAN : MoveTo(t, "store", Expand(dense), FALSE, dirty)
    BY <1>2 DEF ComputeStatic
  <2>3. call' \in [Threads -> Call] /\ BorrowOK'
    <3>0. "store" \in PCs
      BY DEF PCs
    <3>1. CASE MoveTo(t, "store", entry.mask, TRUE, FALSE)
      BY <1>d, <2>0, <2>1, <3>0, <3>1
    <3>2. CASE MoveTo(t, "store", ApplyDenseDelta(entry, dense), FALSE, FALSE)
      BY <1>d, <2>0, <2>1, <3>0, <3>2
    <3>3. Expand(dense) \in SUBSET Ids
      BY <1>a
    <3>4. CASE MoveTo(t, "store", Expand(dense), FALSE, FALSE)
      BY <1>d, <2>0, <3>0, <3>3, <3>4
    <3>5. CASE MoveTo(t, "store", Expand(dense), FALSE, TRUE)
      BY <1>d, <2>0, <3>0, <3>3, <3>5
    <3> QED BY <2>2, <3>1, <3>2, <3>4, <3>5
  <2> QED BY <1>2, <2>3 DEF ComputeStatic, TypeOK
<1>3. ASSUME NEW t \in Threads, StoreStatic(t) PROVE TypeInv'
  <2> DEFINE h == call[t].handle
  <2>0. call[t].pc # "idle" BY <1>3 DEF StoreStatic
  <2>1. call' \in [Threads -> Call] /\ BorrowOK'
    BY <1>3, <1>c, <1>d, <2>0 DEF StoreStatic, PCs
  <2>2. cache' \in [Handles -> CacheEntry]
    <3>1. PICK e \in CacheEntry : cache' = [cache EXCEPT ![h] = e]
      <4>1. generation[h] \in Nat /\ cache[h] \in CacheEntry /\ call[t].buf \in SUBSET Ids
            /\ DwaDense[frontier[h]] \in SUBSET Classes
        BY <1>c, <2>0 DEF TypeOK
      <4>2. CASE call[t].touch
        <5>1. [cache[h] EXCEPT !.generation = generation[h]] \in CacheEntry
          BY <4>1, Restamp
        <5> QED BY <1>3, <4>1, <4>2, <5>1 DEF StoreStatic, TouchMaskCacheGeneration
      <4>3. CASE ~call[t].touch
        BY <1>3, <4>1, <4>3 DEF StoreStatic, StoreMaskCache, StoreMaskCacheReuseDense, CacheEntry
      <4> QED BY <4>2, <4>3
    <3> QED BY <3>1 DEF TypeOK
  <2> QED BY <1>3, <2>1, <2>2 DEF StoreStatic, TypeOK
<1>4. ASSUME NEW t \in Threads, OverlayStatic(t) PROVE TypeInv'
  <2>0. call[t].pc # "idle" BY <1>4 DEF OverlayStatic
  <2>1. call[t].buf \cup Overlay(backend, frontier[call[t].handle]) \in SUBSET Ids
    BY <1>b, <1>c, <2>0
  <2>2. call' \in [Threads -> Call] /\ BorrowOK'
    BY <1>4, <1>d, <2>0, <2>1 DEF OverlayStatic, PCs
  <2> QED BY <1>4, <2>2 DEF OverlayStatic, TypeOK
<1>5. ASSUME NEW t \in Threads, ComputeDynamic(t) PROVE TypeInv'
  <2>0. call[t].pc # "idle" BY <1>5 DEF ComputeDynamic
  <2>1. call' \in [Threads -> Call] /\ BorrowOK'
    BY <1>5, <1>b, <1>c, <1>d, <2>0 DEF ComputeDynamic, PCs
  <2> QED BY <1>5, <2>1 DEF ComputeDynamic, TypeOK
<1>6. ASSUME NEW t \in Threads, ComputeSegmented(t) PROVE TypeInv'
  <2> DEFINE f == frontier[call[t].handle]
  <2>0. call[t].pc # "idle" BY <1>6 DEF ComputeSegmented
  <2>1. /\ ClearPlaceholders(backend, f, Body(f)) \in SUBSET Ids
        /\ ClearPlaceholders(backend, f, Expand(DwaDense[f]) \cup Overlay(backend, f)) \in SUBSET Ids
    BY <1>a, <1>b, <1>c, <2>0 DEF ClearPlaceholders
  <2>2. call' \in [Threads -> Call] /\ BorrowOK'
    BY <1>6, <1>d, <2>0, <2>1 DEF ComputeSegmented, PCs
  <2> QED BY <1>6, <2>2 DEF ComputeSegmented, TypeOK
<1>7. ASSUME NEW t \in Threads, Restore(t) PROVE TypeInv'
  <2>0. call[t].pc # "idle" BY <1>7 DEF Restore
  <2>1. call' \in [Threads -> Call] /\ BorrowOK'
    BY <1>7, <1>c, <1>d, <2>0 DEF Restore, PCs
  <2>2. cache' \in [Handles -> CacheEntry]
    BY <1>7, <1>c, <2>0 DEF Restore, StoreMaskCacheReuseDense, TypeOK, CacheEntry
  <2> QED BY <1>7, <2>1, <2>2 DEF Restore, TypeOK
<1>8. ASSUME NEW t \in Threads, FillMaskFinish(t) PROVE TypeInv'
  <2> DEFINE f == frontier[call[t].handle]
  <2>0. call[t].pc # "idle" BY <1>8 DEF FillMaskFinish
  <2>1. WithEndTokens(f, ClearPlaceholders(backend, f, call[t].buf)) \in SUBSET Ids
    BY <1>c, <2>0 DEF WithEndTokens, ClearPlaceholders, Ids
  <2>2. call' \in [Threads -> Call] /\ BorrowOK'
    BY <1>8, <1>d, <2>0, <2>1 DEF FillMaskFinish, PCs
  <2> QED BY <1>8, <2>2 DEF FillMaskFinish, TypeOK
<1>9. ASSUME NEW t \in Threads, FillMaskReturn(t) PROVE TypeInv'
  <2>0. call[t].pc # "idle" BY <1>9 DEF FillMaskReturn
  <2>1. seen' \in [Handles -> Seen]
    BY <1>9, <1>c, <2>0 DEF FillMaskReturn, TypeOK, Seen
  <2>2. call' \in [Threads -> Call] /\ BorrowOK'
    BY <1>9 DEF FillMaskReturn, TypeOK, BorrowOK, Call, Idle, PCs
  <2> QED BY <1>9, <2>1, <2>2 DEF FillMaskReturn, TypeOK
<1>e. ASSUME NEW h \in Handles, RejectAfterFailedCommit(h)
      PROVE  /\ frontier' \in [Handles -> Frontiers] /\ terminated' \in [Handles -> BOOLEAN]
             /\ generation' \in [Handles -> Nat] /\ cache' \in [Handles -> CacheEntry]
  BY <1>e DEF RejectAfterFailedCommit, TypeOK, CacheEntry, NoCache
<1>f. ASSUME NEW h \in Handles, NEW g \in Frontiers, FinishCommitGeneration(h, g)
      PROVE  /\ frontier' \in [Handles -> Frontiers] /\ terminated' \in [Handles -> BOOLEAN]
             /\ generation' \in [Handles -> Nat] /\ cache' \in [Handles -> CacheEntry]
  <2>1. cache[h] \in CacheEntry /\ generation[h] + 1 \in Nat
    BY DEF TypeOK
  <2>2. [cache[h] EXCEPT !.generation = generation[h] + 1] \in CacheEntry
    BY <2>1, Restamp
  <2>3. PICK e \in CacheEntry : cache' = [cache EXCEPT ![h] = e]
    BY <1>f, <2>1, <2>2 DEF FinishCommitGeneration
  <2> QED BY <1>f, <2>3 DEF FinishCommitGeneration, TypeOK
<1>g. ASSUME NEW h \in Handles, Terminate(h)
      PROVE  /\ frontier' \in [Handles -> Frontiers] /\ terminated' \in [Handles -> BOOLEAN]
             /\ generation' \in [Handles -> Nat] /\ cache' \in [Handles -> CacheEntry]
  BY <1>g DEF Terminate, TypeOK, CacheEntry, NoCache
<1>h. \A h \in Handles : [seen EXCEPT ![h] = Unseen] \in [Handles -> Seen]
  BY DEF TypeOK, Seen, Unseen
<1>10. ASSUME NEW h \in Handles, NEW x \in Ids, CommitToken(h, x) PROVE TypeInv'
  <2>1. /\ frontier' \in [Handles -> Frontiers] /\ terminated' \in [Handles -> BOOLEAN]
        /\ generation' \in [Handles -> Nat] /\ cache' \in [Handles -> CacheEntry]
    <3>1. CASE ~Accepts(h, x) BY <1>10, <1>e, <3>1 DEF CommitToken
    <3>2. CASE Accepts(h, x) /\ x \in EndTokens BY <1>10, <1>g, <3>2 DEF CommitToken
    <3>3. CASE Accepts(h, x) /\ x \notin EndTokens
      <4>1. Step[frontier[h]][x] \in Frontiers
        BY <3>3, EngineAssumption DEF Accepts, EndTokenAllowed, TypeOK
      <4> QED BY <1>10, <1>f, <3>3, <4>1 DEF CommitToken
    <3> QED BY <3>1, <3>2, <3>3
  <2>2. seen' \in [Handles -> Seen] /\ last' \in Last
    <3>1. seen[h].some \in BOOLEAN /\ Accepts(h, x) \in BOOLEAN
      BY DEF TypeOK, Seen, Accepts
    <3> QED BY <1>10, <1>h, <3>1 DEF CommitToken, Record, Last
  <2> QED BY <1>10, <2>1, <2>2 DEF CommitToken, TypeOK, BorrowOK
<1>11. ASSUME NEW h \in Handles, NEW c \in Chunks, CommitBytes(h, c) PROVE TypeInv'
  <2>1. Step[frontier[h]][c] \in Frontiers
    BY EngineAssumption DEF TypeOK
  <2>2. /\ frontier' \in [Handles -> Frontiers] /\ terminated' \in [Handles -> BOOLEAN]
        /\ generation' \in [Handles -> Nat] /\ cache' \in [Handles -> CacheEntry]
    BY <1>11, <1>e, <1>f, <2>1 DEF CommitBytes
  <2> QED BY <1>11, <1>h, <2>2 DEF CommitBytes, TypeOK, BorrowOK
<1>12. ASSUME NEW h \in Handles, CommitResourceLimit(h) PROVE TypeInv'
  BY <1>12, <1>e, <1>h DEF CommitResourceLimit, TypeOK, BorrowOK
<1>13. ASSUME NEW h \in Handles, NEW src \in Handles, CopySnapshotFrom(h, src) PROVE TypeInv'
  BY <1>13, <1>h DEF CopySnapshotFrom, TypeOK, BorrowOK, CacheEntry, NoCache
<1>14. CASE UNCHANGED vars
  BY <1>14 DEF vars, TypeOK, BorrowOK
<1> QED
  BY <1>1, <1>2, <1>3, <1>4, <1>5, <1>6, <1>7, <1>8, <1>9, <1>10, <1>11, <1>12, <1>13,
     <1>14 DEF Next

(* The fields of every session keep their types (state.rs). *)
THEOREM TypeCorrect == Spec => []TypeOK
<1>1. Init => TypeInv
  BY ObjectsAssumption DEF Init, TypeInv, TypeOK, BorrowOK, CacheEntry, NoCache, Call, Idle,
     PCs, Seen, Unseen, Last
<1>2. TypeInv => TypeOK BY DEF TypeInv
<1> QED BY <1>1, <1>2, TypeStep, PTL DEF Spec
----------------------------------------------------------------------------

(* The mask of a state and its commit answer the same question for every id *)
(* (ExactMask against commit_token_raw_inner).                              *)
LEMMA MaskDecides ==
    ASSUME TypeOK, NEW h \in Handles, NEW x \in Ids
    PROVE  x \in ExactMask(h) <=> Accepts(h, x)
<1> DEFINE f == frontier[h]
<1>1. f \in Frontiers BY DEF TypeOK
<1>2. Admitted(backend, f) \subseteq Tokens BY <1>1, BodyFacts DEF TypeOK
<1>3. CASE x \in EndTokens
  BY <1>3 DEF ExactMask, Accepts, EndTokenAllowed, WithEndTokens
<1>4. CASE x \notin EndTokens
  <2>1. x \in Tokens => (Step[f][x] # Dead <=> x \in Admitted(backend, f))
    BY <1>1, EngineAssumption DEF TypeOK
  <2> QED BY <1>2, <1>4, <2>1 DEF ExactMask, Accepts, EndTokenAllowed, WithEndTokens
<1> QED BY <1>3, <1>4

(* What fill_mask changes when it only moves thread t: nothing but t's own  *)
(* obligation has to be shown again.                                        *)
LEMMA ReaderMoves ==
    ASSUME IInv, NEW t \in Threads, NEW c,
           call' = [call EXCEPT ![t] = c],
           UNCHANGED <<backend, frontier, terminated, generation, cache, seen, last>>,
           ReaderOK(t)'
    PROVE  /\ GenerationOrder' /\ CacheCoherent' /\ DenseCoherent' /\ ReadersOK'
           /\ SeenOK' /\ TerminatedComplete' /\ MaskPredictsCommit'
<1>1. GenerationOrder' /\ CacheCoherent' /\ DenseCoherent'
  BY DEF IInv, GenerationOrder, CacheCoherent, CacheHit, DenseCoherent
<1>2. SeenOK' /\ TerminatedComplete' /\ MaskPredictsCommit'
  BY DEF IInv, SeenOK, ExactMask, TerminatedComplete, MaskPredictsCommit
<1>3. ASSUME NEW u \in Threads, u # t PROVE ReaderOK(u)'
  <2>1. call'[u] = call[u] BY <1>3 DEF IInv, TypeOK
  <2>2. ReaderOK(u) BY DEF IInv, ReadersOK
  <2> QED BY <2>1, <2>2 DEF ReaderOK, TouchReady, CacheHit, ExactMask
<1> QED BY <1>1, <1>2, <1>3 DEF ReadersOK

(* Storing under the lock a body mask stamped with the current generation   *)
(* keeps the cache coherent and every waiting toucher ready.                *)
LEMMA GoodStore ==
    ASSUME IInv, NEW t \in Threads, NEW h \in Handles, NEW c, NEW e \in CacheEntry,
           h = call[t].handle,
           e.some, e.generation = generation[h], IsBody(backend, frontier[h], e.mask),
           e.hasDense => e.mask = Expand(e.dense),
           cache' = [cache EXCEPT ![h] = e],
           call' = [call EXCEPT ![t] = c],
           UNCHANGED <<backend, frontier, terminated, generation, seen, last>>,
           c.handle = h, c.pc \in {"overlay", "finish"}, IsBody(backend, frontier[h], c.buf),
           c.pc = "overlay" => backend = "static", ~terminated[h]
    PROVE  /\ GenerationOrder' /\ CacheCoherent' /\ DenseCoherent' /\ ReadersOK'
           /\ SeenOK' /\ TerminatedComplete' /\ MaskPredictsCommit'
<1>1. cache'[h] = e /\ \A k \in Handles : k # h => cache'[k] = cache[k]
  BY DEF IInv, TypeOK
<1>2. GenerationOrder' /\ CacheCoherent' /\ DenseCoherent'
  <2>1. generation[h] \in Nat BY DEF IInv, TypeOK
  <2> QED BY <1>1, <2>1 DEF IInv, GenerationOrder, CacheCoherent, CacheHit, DenseCoherent
<1>3. SeenOK' /\ TerminatedComplete' /\ MaskPredictsCommit'
  BY DEF IInv, SeenOK, ExactMask, TerminatedComplete, MaskPredictsCommit
<1>4. ASSUME NEW u \in Threads, u # t PROVE ReaderOK(u)'
  <2>1. call'[u] = call[u] BY <1>4 DEF IInv, TypeOK
  <2>2. ReaderOK(u) BY DEF IInv, ReadersOK
  <2>3. call[u].pc # "idle" => call[u].handle \in Handles BY DEF IInv, BorrowOK
  <2>4. ASSUME call[u].pc = "store", call[u].touch PROVE TouchReady(call[u].handle)'
    <3>1. TouchReady(call[u].handle) BY <2>2, <2>4 DEF ReaderOK
    <3> QED BY <1>1, <2>1, <2>3, <2>4, <3>1 DEF TouchReady, CacheHit
  <2> QED BY <2>1, <2>2, <2>4 DEF ReaderOK, ExactMask
<1>5. ReaderOK(t)'
  <2>1. call'[t] = c BY DEF IInv, TypeOK
  <2> QED BY <2>1 DEF ReaderOK
<1> QED BY <1>2, <1>3, <1>4, <1>5 DEF ReadersOK

(* A commit owns its state: with no reader inside fill_mask it may replace  *)
(* frontier, flags and cache together, provided an entry that hits in the   *)
(* new generation describes the new frontier.                               *)
LEMMA GoodCommit ==
    ASSUME IInv, NEW h \in Handles, ~Borrowed(h),
           NEW g \in Frontiers, NEW b \in BOOLEAN, NEW n \in Nat, NEW e \in CacheEntry,
           frontier' = [frontier EXCEPT ![h] = g],
           terminated' = [terminated EXCEPT ![h] = b],
           generation' = [generation EXCEPT ![h] = n],
           cache' = [cache EXCEPT ![h] = e],
           seen' = [seen EXCEPT ![h] = Unseen],
           UNCHANGED <<backend, call>>,
           b => g \in Complete,
           e.some => e.generation <= n,
           e.some /\ e.generation = n => IsBody(backend, g, e.mask),
           e.some /\ e.hasDense => e.mask = Expand(e.dense)
    PROVE  /\ GenerationOrder' /\ CacheCoherent' /\ DenseCoherent' /\ ReadersOK'
           /\ SeenOK' /\ TerminatedComplete'
<1>1. /\ frontier'[h] = g /\ terminated'[h] = b /\ generation'[h] = n /\ cache'[h] = e
      /\ seen'[h] = Unseen
  BY DEF IInv, TypeOK
<1>2. ASSUME NEW k \in Handles, k # h
      PROVE  /\ frontier'[k] = frontier[k] /\ terminated'[k] = terminated[k]
             /\ generation'[k] = generation[k] /\ cache'[k] = cache[k] /\ seen'[k] = seen[k]
  BY <1>2 DEF IInv, TypeOK
<1>3. GenerationOrder' /\ CacheCoherent' /\ DenseCoherent'
  BY <1>1, <1>2 DEF IInv, GenerationOrder, CacheCoherent, CacheHit, DenseCoherent
<1>4. SeenOK' /\ TerminatedComplete'
  BY <1>1, <1>2 DEF IInv, SeenOK, ExactMask, TerminatedComplete, Unseen
<1>5. ASSUME NEW u \in Threads PROVE ReaderOK(u)'
  <2>1. ReaderOK(u) BY DEF IInv, ReadersOK
  <2>2. CASE call[u].pc = "idle" BY <2>2 DEF ReaderOK
  <2>3. CASE call[u].pc # "idle"
    <3>1. call[u].handle \in Handles /\ call[u].handle # h
      BY <2>3 DEF IInv, BorrowOK, Borrowed
    <3> QED BY <1>2, <2>1, <3>1 DEF ReaderOK, TouchReady, CacheHit, ExactMask
  <2> QED BY <2>2, <2>3
<1> QED BY <1>3, <1>4, <1>5 DEF ReadersOK

(* A commit that fails, ends the session or succeeds keeps the invariant    *)
(* parts that speak of states, readers and caches.                          *)
Parts == /\ GenerationOrder /\ CacheCoherent /\ DenseCoherent /\ ReadersOK
         /\ SeenOK /\ TerminatedComplete

LEMMA RejectKeeps ==
    ASSUME IInv, NEW h \in Handles, ~Borrowed(h), RejectAfterFailedCommit(h),
           seen' = [seen EXCEPT ![h] = Unseen], UNCHANGED <<backend, call>>
    PROVE  Parts'
<1>1. Dead \in Frontiers /\ NoCache \in CacheEntry /\ ~NoCache.some
  BY ObjectsAssumption DEF NoCache, CacheEntry
<1>2. generation[h] + 1 \in Nat BY DEF IInv, TypeOK
<1>3. generation' = [generation EXCEPT ![h] = generation[h] + 1]
  BY DEF RejectAfterFailedCommit
<1> QED BY <1>1, <1>2, <1>3, GoodCommit DEF RejectAfterFailedCommit, Parts

(* commit_end_token: the frontier stays, complete, and the cache goes.      *)
LEMMA TerminateKeeps ==
    ASSUME IInv, NEW h \in Handles, ~Borrowed(h), Terminate(h), frontier[h] \in Complete,
           seen' = [seen EXCEPT ![h] = Unseen], UNCHANGED <<backend, call>>
    PROVE  Parts'
<1>1. NoCache \in CacheEntry /\ ~NoCache.some
  BY DEF NoCache, CacheEntry
<1>2. generation[h] + 1 \in Nat /\ frontier[h] \in Frontiers
      /\ frontier' = [frontier EXCEPT ![h] = frontier[h]]
  BY DEF IInv, TypeOK, Terminate
<1>3. generation' = [generation EXCEPT ![h] = generation[h] + 1]
  BY DEF Terminate
<1> QED BY <1>1, <1>2, <1>3, GoodCommit DEF Terminate, Parts

(* A successful commit: the cached mask moves to the new generation only    *)
(* when the old and the new frontier have the same mask; every other entry  *)
(* is left behind by the generation.                                        *)
LEMMA SuccessKeeps ==
    ASSUME IInv, NEW h \in Handles, ~Borrowed(h), ~terminated[h],
           NEW g \in Frontiers, FinishCommitGeneration(h, g),
           seen' = [seen EXCEPT ![h] = Unseen], UNCHANGED <<backend, call>>
    PROVE  Parts'
<1> DEFINE n == generation[h] + 1
           e == [cache[h] EXCEPT !.generation = n]
           keep == /\ cache[h].some /\ cache[h].generation = generation[h]
                   /\ MaskStateUnchanged(frontier[h], g)
<1>1. /\ n \in Nat /\ generation[h] \in Nat /\ cache[h] \in CacheEntry
      /\ frontier[h] \in Frontiers /\ cache[h].generation \in Nat
  BY DEF IInv, TypeOK, CacheEntry
<1>2. /\ frontier' = [frontier EXCEPT ![h] = g]
      /\ terminated' = [terminated EXCEPT ![h] = FALSE]
      /\ generation' = [generation EXCEPT ![h] = n]
  BY DEF FinishCommitGeneration, IInv, TypeOK
<1>3. cache[h].some /\ cache[h].hasDense => cache[h].mask = Expand(cache[h].dense)
  BY DEF IInv, DenseCoherent
<1>4. CASE keep
  <2>1. IsBody(backend, frontier[h], cache[h].mask)
    BY <1>4 DEF IInv, CacheCoherent, CacheHit
  <2>2. IsBody(backend, g, cache[h].mask)
    <3>1. ASSUME <<frontier[h], g>> \in SameMask
          PROVE  ByteLive[frontier[h]] = ByteLive[g] /\ SpecialLive[frontier[h]] = SpecialLive[g]
      BY <3>1, EngineAssumption
    <3> QED BY <1>4, <2>1, <3>1 DEF MaskStateUnchanged, IsBody, Admitted, ClearPlaceholders
  <2>3. /\ e \in CacheEntry /\ e.generation = n /\ e.some = cache[h].some
        /\ e.mask = cache[h].mask /\ e.hasDense = cache[h].hasDense
        /\ e.dense = cache[h].dense
    BY <1>1, Restamp
  <2>4. cache' = [cache EXCEPT ![h] = e] BY <1>4 DEF FinishCommitGeneration
  <2>5. /\ e.some => e.generation <= n
        /\ e.some /\ e.generation = n => IsBody(backend, g, e.mask)
        /\ e.some /\ e.hasDense => e.mask = Expand(e.dense)
    BY <1>1, <1>3, <2>1, <2>2, <2>3
  <2> HIDE DEF n, e, keep
  <2> QED BY <1>1, <1>2, <2>3, <2>4, <2>5, GoodCommit DEF Parts
<1>5. CASE ~keep
  <2>1. cache' = [cache EXCEPT ![h] = cache[h]]
    BY <1>5 DEF FinishCommitGeneration
  <2>2. cache[h].some => cache[h].generation <= generation[h]
    BY DEF IInv, GenerationOrder
  <2>3. cache[h].some => cache[h].generation <= n /\ cache[h].generation # n
    BY <1>1, <2>2
  <2> HIDE DEF n
  <2> QED BY <1>1, <1>2, <1>3, <2>1, <2>3, GoodCommit DEF Parts
<1> QED BY <1>4, <1>5

(* Every step of a session whose DWA carries its special-token edges keeps  *)
(* the inductive invariant.                                                 *)
LEMMA InvStep == DwaHasSpecials /\ IInv /\ [Next]_vars => IInv'
<1> SUFFICES ASSUME DwaHasSpecials, IInv, [Next]_vars PROVE IInv'
  OBVIOUS
<1>a. TypeOK' /\ BorrowOK' /\ TypeOK /\ BorrowOK
  BY TypeStep DEF TypeInv, IInv
<1>b. ASSUME NEW t \in Threads, call[t].pc # "idle"
      PROVE  /\ call[t].handle \in Handles
             /\ frontier[call[t].handle] \in Frontiers
             /\ generation[call[t].handle] \in Nat
             /\ cache[call[t].handle] \in CacheEntry
             /\ call[t] \in Call
             /\ DwaDense[frontier[call[t].handle]] \in SUBSET Classes
             /\ ReaderOK(t)
  BY <1>a, <1>b, EngineAssumption DEF TypeOK, BorrowOK, IInv, ReadersOK
\* A move of one thread that establishes its own obligation.
<1>c. ASSUME NEW t \in Threads, NEW pc, NEW buf, NEW touch, NEW dirty,
             MoveTo(t, pc, buf, touch, dirty),
             UNCHANGED <<backend, frontier, terminated, generation, cache, seen, last>>,
             ReaderOK(t)'
      PROVE  IInv'
  BY <1>a, <1>c, ReaderMoves DEF MoveTo, IInv
<1>1. ASSUME NEW t \in Threads, NEW h \in Handles, FillMaskBegin(t, h) PROVE IInv'
  <2> DEFINE c == [pc |-> IF terminated[h] THEN "returned"
                          ELSE IF CacheHit(h) THEN "finish" ELSE "compute",
                   handle |-> h,
                   buf |-> IF ~terminated[h] /\ CacheHit(h) THEN cache[h].mask ELSE {},
                   touch |-> FALSE, dirty |-> FALSE]
  <2>1. call' = [call EXCEPT ![t] = c]
    BY <1>1 DEF FillMaskBegin
  <2>2. call'[t] = c BY <1>a, <2>1 DEF TypeOK
  <2>3. CacheHit(h) => IsBody(backend, frontier[h], cache[h].mask) BY DEF IInv, CacheCoherent
  <2>4. ReaderOK(t)'
    BY <1>1, <2>1, <2>2, <2>3 DEF FillMaskBegin, ReaderOK, ExactMask
  <2> QED BY <1>1, <1>a, <2>1, <2>4, ReaderMoves DEF FillMaskBegin, IInv
<1>2. ASSUME NEW t \in Threads, ComputeStatic(t) PROVE IInv'
  <2> DEFINE h == call[t].handle
             dense == DwaDense[frontier[h]]
             entry == cache[h]
  <2>0. call[t].pc = "compute" /\ backend = "static" BY <1>2 DEF ComputeStatic
  <2>1. IsBody(backend, frontier[h], Expand(dense)) BY <1>a, <1>b, <2>0, StaticBody DEF TypeOK
  <2>2. entry.some /\ entry.hasDense => entry.mask = Expand(entry.dense)
    BY <1>b, <2>0 DEF IInv, DenseCoherent
  <2>3. entry.some /\ entry.hasDense => ApplyDenseDelta(entry, dense) = Expand(dense)
    BY <2>2, DeltaExact
  <2>4. PICK touch \in BOOLEAN, dirty \in BOOLEAN :
           /\ MoveTo(t, "store", Expand(dense), touch, dirty)
           /\ touch => entry.some /\ entry.hasDense /\ entry.dense = dense
    BY <1>2, <2>2, <2>3 DEF ComputeStatic
  <2>5. UNCHANGED <<backend, frontier, terminated, generation, cache, seen, last>>
    BY <1>2 DEF ComputeStatic
  <2>6. ~terminated[h] BY <1>b, <2>0 DEF ReaderOK
  <2>7. ReaderOK(t)'
    <3>1. call'[t] = [pc |-> "store", handle |-> h, buf |-> Expand(dense),
                      touch |-> touch, dirty |-> dirty]
      BY <1>a, <2>4 DEF MoveTo, TypeOK
    <3> QED BY <2>0, <2>1, <2>4, <2>5, <2>6, <3>1 DEF ReaderOK, TouchReady
  <2> QED BY <1>c, <2>4, <2>5, <2>7
<1>3. ASSUME NEW t \in Threads, StoreStatic(t) PROVE IInv'
  <2> DEFINE h == call[t].handle
             dense == DwaDense[frontier[h]]
             c == [pc |-> "overlay", handle |-> h, buf |-> call[t].buf,
                   touch |-> FALSE, dirty |-> FALSE]
  <2>0. call[t].pc = "store" /\ call[t].pc # "idle" BY <1>3 DEF StoreStatic
  <2>1. /\ backend = "static" /\ ~terminated[h] /\ IsBody(backend, frontier[h], call[t].buf)
        /\ call[t].buf = Expand(dense)
        /\ call[t].touch => TouchReady(h)
    BY <1>b, <2>0 DEF ReaderOK
  <2>2. IsBody(backend, frontier[h], Expand(dense)) BY <2>1
  <2>3. PICK e \in CacheEntry :
           /\ cache' = [cache EXCEPT ![h] = e]
           /\ e.some /\ e.generation = generation[h] /\ IsBody(backend, frontier[h], e.mask)
           /\ e.hasDense => e.mask = Expand(e.dense)
    <3>1. CASE call[t].touch
      <4> DEFINE r == [cache[h] EXCEPT !.generation = generation[h]]
      <4>1. cache[h].some /\ cache' = [cache EXCEPT ![h] = r]
        BY <1>3, <2>1, <3>1 DEF StoreStatic, TouchMaskCacheGeneration, TouchReady
      <4>2. /\ r \in CacheEntry /\ r.generation = generation[h] /\ r.some = cache[h].some
            /\ r.mask = cache[h].mask /\ r.hasDense = cache[h].hasDense
            /\ r.dense = cache[h].dense
        BY <1>b, <2>0, Restamp
      <4>3. cache[h].hasDense => cache[h].mask = Expand(cache[h].dense)
        BY <1>b, <2>0, <4>1 DEF IInv, DenseCoherent
      <4>4. IsBody(backend, frontier[h], cache[h].mask)
        <5>1. CASE CacheHit(h) BY <1>b, <2>0, <5>1 DEF IInv, CacheCoherent
        <5>2. CASE ~CacheHit(h) BY <2>1, <2>2, <3>1, <4>3, <5>2 DEF TouchReady
        <5> QED BY <5>1, <5>2
      <4> HIDE DEF r
      <4> QED BY <4>1, <4>2, <4>3, <4>4
    <3>2. CASE ~call[t].touch /\ call[t].dirty
      <4> DEFINE r == [some |-> TRUE, generation |-> generation[h], mask |-> call[t].buf,
                       hasDense |-> FALSE, dense |-> {}]
      <4>1. cache' = [cache EXCEPT ![h] = r]
        BY <1>3, <3>2 DEF StoreStatic, StoreMaskCacheReuseDense
      <4>2. r \in CacheEntry BY <1>b, <2>0 DEF CacheEntry, Call
      <4> QED BY <2>1, <4>1, <4>2
    <3>3. CASE ~call[t].touch /\ ~call[t].dirty
      <4> DEFINE r == [some |-> TRUE, generation |-> generation[h], mask |-> call[t].buf,
                       hasDense |-> TRUE, dense |-> dense]
      <4>1. cache' = [cache EXCEPT ![h] = r]
        BY <1>3, <3>3 DEF StoreStatic, StoreMaskCache
      <4>2. r \in CacheEntry BY <1>b, <2>0 DEF CacheEntry, Call
      <4> QED BY <2>1, <2>2, <4>1, <4>2
    <3> QED BY <3>1, <3>2, <3>3
  <2>4. /\ call' = [call EXCEPT ![t] = c]
        /\ UNCHANGED <<backend, frontier, terminated, generation, seen, last>>
    BY <1>3 DEF StoreStatic, MoveTo
  <2>5. c.handle = h /\ c.pc = "overlay" /\ IsBody(backend, frontier[h], c.buf) BY <2>1
  <2>6. h \in Handles BY <1>b, <2>0
  <2> HIDE DEF c
  <2> QED BY <1>a, <2>1, <2>3, <2>4, <2>5, <2>6, GoodStore DEF IInv
<1>4. ASSUME NEW t \in Threads, OverlayStatic(t) PROVE IInv'
  <2> DEFINE h == call[t].handle
             pc == IF HasControls \/ Compact(backend) THEN "restore" ELSE "finish"
             m == call[t].buf \cup Overlay(backend, frontier[h])
  <2>0. call[t].pc = "overlay" /\ call[t].pc # "idle" BY <1>4 DEF OverlayStatic
  <2>1. ~terminated[h] /\ IsBody(backend, frontier[h], call[t].buf) BY <1>b, <2>0 DEF ReaderOK
  <2>2. IsBody(backend, frontier[h], m) BY <1>a, <1>b, <2>0, <2>1, BodyFacts DEF TypeOK
  <2>3. /\ MoveTo(t, pc, m, FALSE, FALSE)
        /\ UNCHANGED <<backend, frontier, terminated, generation, cache, seen, last>>
    BY <1>4, <2>2 DEF OverlayStatic
  <2>4. ReaderOK(t)'
    <3>1. call'[t] = [pc |-> pc, handle |-> h, buf |-> m, touch |-> FALSE, dirty |-> FALSE]
      BY <1>a, <2>3 DEF MoveTo, TypeOK
    <3> HIDE DEF m
    <3> QED BY <2>1, <2>2, <2>3, <3>1 DEF ReaderOK
  <2> QED BY <1>c, <2>3, <2>4
<1>5. ASSUME NEW t \in Threads, ComputeDynamic(t) PROVE IInv'
  <2> DEFINE h == call[t].handle
  <2>0. call[t].pc = "compute" /\ call[t].pc # "idle" BY <1>5 DEF ComputeDynamic
  <2>1. ~terminated[h] BY <1>b, <2>0 DEF ReaderOK
  <2>2. /\ MoveTo(t, "restore", Body(frontier[h]), FALSE, FALSE)
        /\ UNCHANGED <<backend, frontier, terminated, generation, cache, seen, last>>
    BY <1>5 DEF ComputeDynamic
  <2>3. ReaderOK(t)'
    <3>1. call'[t] = [pc |-> "restore", handle |-> h, buf |-> Body(frontier[h]),
                      touch |-> FALSE, dirty |-> FALSE]
      BY <1>a, <2>2 DEF MoveTo, TypeOK
    <3>2. IsBody(backend, frontier[h], Body(frontier[h])) BY <1>a, <1>b, <2>0, BodyFacts DEF TypeOK
    <3> QED BY <2>1, <2>2, <3>1, <3>2 DEF ReaderOK
  <2> QED BY <1>c, <2>2, <2>3
<1>6. ASSUME NEW t \in Threads, ComputeSegmented(t) PROVE IInv'
  <2> DEFINE h == call[t].handle
             f == frontier[h]
  <2>0. call[t].pc = "compute" /\ call[t].pc # "idle" /\ backend = "segmented"
    BY <1>6 DEF ComputeSegmented
  <2>1. ~terminated[h] BY <1>b, <2>0 DEF ReaderOK
  <2>2. IsBody(backend, f, Expand(DwaDense[f]) \cup Overlay(backend, f))
    <3>1. Overlay(backend, f) = SpecialLive[f] BY <2>0 DEF Overlay, Compact
    <3> QED BY <1>a, <1>b, <2>0, <3>1, BodyFacts DEF TypeOK
  <2>3. IsBody(backend, f, Body(f)) BY <1>a, <1>b, <2>0, BodyFacts DEF TypeOK
  <2>4. UNCHANGED <<backend, frontier, terminated, generation, cache, seen, last>>
    BY <1>6 DEF ComputeSegmented
  <2>5. ASSUME NEW pc \in {"restore", "finish"}, NEW m, IsBody(backend, f, m),
               MoveTo(t, pc, ClearPlaceholders(backend, f, m), FALSE, FALSE)
        PROVE  IInv'
    <3> DEFINE buf == ClearPlaceholders(backend, f, m)
    <3>1. call'[t] = [pc |-> pc, handle |-> h, buf |-> buf, touch |-> FALSE, dirty |-> FALSE]
      BY <1>a, <2>5 DEF MoveTo, TypeOK
    <3>2. IsBody(backend, f, buf)
      BY <1>a, <1>b, <2>0, <2>5, BodyFacts DEF TypeOK
    <3> HIDE DEF buf
    <3>3. ReaderOK(t)'
      BY <2>1, <2>4, <2>5, <3>1, <3>2 DEF ReaderOK
    <3> QED BY <1>c, <2>4, <2>5, <3>3
  <2>6. CASE MoveTo(t, "restore", ClearPlaceholders(backend, f,
                       Expand(DwaDense[f]) \cup Overlay(backend, f)), FALSE, FALSE)
    BY <2>2, <2>5, <2>6
  <2>7. CASE MoveTo(t, "finish", ClearPlaceholders(backend, f, Body(f)), FALSE, FALSE)
    BY <2>3, <2>5, <2>7
  <2> QED BY <1>6, <2>6, <2>7 DEF ComputeSegmented
<1>7. ASSUME NEW t \in Threads, Restore(t) PROVE IInv'
  <2> DEFINE h == call[t].handle
             c == [pc |-> "finish", handle |-> h, buf |-> call[t].buf,
                   touch |-> FALSE, dirty |-> FALSE]
             e == [some |-> TRUE, generation |-> generation[h], mask |-> call[t].buf,
                   hasDense |-> FALSE, dense |-> {}]
  <2>0. call[t].pc = "restore" /\ call[t].pc # "idle" BY <1>7 DEF Restore
  <2>1. ~terminated[h] /\ IsBody(backend, frontier[h], call[t].buf) BY <1>b, <2>0 DEF ReaderOK
  <2>2. e \in CacheEntry BY <1>b, <2>0 DEF CacheEntry, Call
  <2>3. /\ e.some /\ e.generation = generation[h] /\ IsBody(backend, frontier[h], e.mask) /\ ~e.hasDense
        /\ c.handle = h /\ c.pc = "finish" /\ IsBody(backend, frontier[h], c.buf)
    BY <2>1
  <2>4. /\ cache' = [cache EXCEPT ![h] = e] /\ call' = [call EXCEPT ![t] = c]
        /\ UNCHANGED <<backend, frontier, terminated, generation, seen, last>>
    BY <1>7 DEF Restore, MoveTo, StoreMaskCacheReuseDense
  <2>5. h \in Handles BY <1>b, <2>0
  <2> HIDE DEF c, e
  <2> QED BY <1>a, <2>1, <2>2, <2>3, <2>4, <2>5, GoodStore DEF IInv
<1>8. ASSUME NEW t \in Threads, FillMaskFinish(t) PROVE IInv'
  <2> DEFINE h == call[t].handle
             m == WithEndTokens(frontier[h], ClearPlaceholders(backend, frontier[h], call[t].buf))
  <2>0. call[t].pc = "finish" /\ call[t].pc # "idle" BY <1>8 DEF FillMaskFinish
  <2>1. ~terminated[h] /\ IsBody(backend, frontier[h], call[t].buf) BY <1>b, <2>0 DEF ReaderOK
  <2>2. m = ExactMask(h) BY <2>1 DEF ExactMask, IsBody
  <2>3. /\ MoveTo(t, "returned", ExactMask(h), FALSE, FALSE)
        /\ UNCHANGED <<backend, frontier, terminated, generation, cache, seen, last>>
    BY <1>8, <2>2 DEF FillMaskFinish
  <2>4. ReaderOK(t)'
    <3>1. call'[t] = [pc |-> "returned", handle |-> h, buf |-> ExactMask(h),
                      touch |-> FALSE, dirty |-> FALSE]
      BY <1>a, <2>3 DEF MoveTo, TypeOK
    <3> QED BY <2>3, <3>1 DEF ReaderOK, ExactMask
  <2> QED BY <1>c, <2>3, <2>4
<1>9. ASSUME NEW t \in Threads, FillMaskReturn(t) PROVE IInv'
  <2> DEFINE h == call[t].handle
  <2>0. call[t].pc = "returned" /\ call[t].pc # "idle" BY <1>9 DEF FillMaskReturn
  <2>1. call[t].buf = ExactMask(h) /\ h \in Handles BY <1>b, <2>0 DEF ReaderOK
  <2>2. GenerationOrder' /\ CacheCoherent' /\ DenseCoherent'
    BY <1>9 DEF FillMaskReturn, IInv, GenerationOrder, CacheCoherent, CacheHit, DenseCoherent
  <2>3. TerminatedComplete' /\ MaskPredictsCommit'
    BY <1>9 DEF FillMaskReturn, IInv, TerminatedComplete, MaskPredictsCommit
  <2>4. SeenOK'
    <3>1. \A k \in Handles : seen'[k] = IF k = h THEN [some |-> TRUE, mask |-> call[t].buf]
                                                ELSE seen[k]
      BY <1>9, <1>a DEF FillMaskReturn, TypeOK
    <3> QED BY <1>9, <2>1, <3>1 DEF FillMaskReturn, IInv, SeenOK, ExactMask
  <2>5. ASSUME NEW u \in Threads PROVE ReaderOK(u)'
    <3>1. ReaderOK(u) BY DEF IInv, ReadersOK
    <3>2. call'[u] = IF u = t THEN Idle ELSE call[u]
      BY <1>9, <1>a DEF FillMaskReturn, TypeOK
    <3> QED BY <1>9, <3>1, <3>2
          DEF FillMaskReturn, ReaderOK, TouchReady, CacheHit, ExactMask, Idle
  <2> QED BY <1>a, <2>2, <2>3, <2>4, <2>5 DEF IInv, ReadersOK
<1>10. ASSUME NEW h \in Handles, NEW x \in Ids, CommitToken(h, x) PROVE IInv'
  <2>1. /\ ~Borrowed(h) /\ seen' = [seen EXCEPT ![h] = Unseen] /\ UNCHANGED <<backend, call>>
    BY <1>10 DEF CommitToken, Exclusive, Record
  <2>2. Parts'
    <3>1. CASE ~Accepts(h, x) BY <1>10, <2>1, <3>1, RejectKeeps DEF CommitToken
    <3>2. CASE Accepts(h, x) /\ x \in EndTokens
      BY <1>10, <2>1, <3>2, TerminateKeeps DEF CommitToken, Accepts, EndTokenAllowed
    <3>3. CASE Accepts(h, x) /\ x \notin EndTokens
      <4>1. Step[frontier[h]][x] \in Frontiers /\ ~terminated[h]
        BY <1>a, <3>3, EngineAssumption DEF Accepts, EndTokenAllowed, TypeOK
      <4> QED BY <1>10, <2>1, <3>3, <4>1, SuccessKeeps DEF CommitToken
    <3> QED BY <3>1, <3>2, <3>3
  <2>3. MaskPredictsCommit'
    <3>1. seen[h].some => (x \in seen[h].mask <=> Accepts(h, x))
      BY <1>a, MaskDecides DEF IInv, SeenOK
    <3>2. /\ last'.some = seen[h].some
          /\ last'.ok = (seen[h].some /\ Accepts(h, x))
          /\ last'.allowed = (x \in seen[h].mask)
      BY <1>10 DEF CommitToken, Record
    <3> QED BY <3>1, <3>2 DEF MaskPredictsCommit
  <2> QED BY <1>a, <2>2, <2>3 DEF IInv, Parts
<1>11. ASSUME NEW h \in Handles, NEW c \in Chunks, CommitBytes(h, c) PROVE IInv'
  <2>1. /\ ~Borrowed(h) /\ seen' = [seen EXCEPT ![h] = Unseen] /\ UNCHANGED <<backend, call, last>>
    BY <1>11 DEF CommitBytes, Exclusive
  <2>2. Step[frontier[h]][c] \in Frontiers BY <1>a, EngineAssumption DEF TypeOK
  <2>3. Parts'
    <3>1. CASE terminated[h] \/ Step[frontier[h]][c] = Dead
      BY <1>11, <2>1, <3>1, RejectKeeps DEF CommitBytes
    <3>2. CASE ~(terminated[h] \/ Step[frontier[h]][c] = Dead)
      BY <1>11, <2>1, <2>2, <3>2, SuccessKeeps DEF CommitBytes
    <3> QED BY <3>1, <3>2
  <2> QED BY <1>a, <2>1, <2>3 DEF IInv, Parts, MaskPredictsCommit
<1>12. ASSUME NEW h \in Handles, CommitResourceLimit(h) PROVE IInv'
  <2>1. Parts' BY <1>12, RejectKeeps DEF CommitResourceLimit, Exclusive
  <2> QED BY <1>12, <1>a, <2>1 DEF CommitResourceLimit, IInv, Parts, MaskPredictsCommit
<1>13. ASSUME NEW h \in Handles, NEW src \in Handles, CopySnapshotFrom(h, src) PROVE IInv'
  <2>1. /\ frontier[src] \in Frontiers /\ terminated[src] \in BOOLEAN
        /\ generation[src] \in Nat /\ NoCache \in CacheEntry /\ ~NoCache.some
        /\ terminated[src] => frontier[src] \in Complete
    BY <1>a DEF IInv, TypeOK, TerminatedComplete, NoCache, CacheEntry
  <2>2. Parts' BY <1>13, <2>1, GoodCommit DEF CopySnapshotFrom, Parts
  <2> QED BY <1>13, <1>a, <2>2 DEF CopySnapshotFrom, IInv, Parts, MaskPredictsCommit
<1>14. CASE UNCHANGED vars
  BY <1>14, <1>a DEF vars, IInv, GenerationOrder, CacheCoherent, CacheHit, DenseCoherent,
     ReadersOK, ReaderOK, TouchReady, SeenOK, ExactMask, TerminatedComplete, MaskPredictsCommit
<1> QED
  BY <1>1, <1>2, <1>3, <1>4, <1>5, <1>6, <1>7, <1>8, <1>9, <1>10, <1>11, <1>12, <1>13,
     <1>14 DEF Next

(* A fresh session satisfies the invariant. *)
LEMMA InvInit == Init => IInv
<1> SUFFICES ASSUME Init PROVE IInv
  OBVIOUS
<1>1. TypeOK /\ BorrowOK
  BY ObjectsAssumption DEF Init, TypeOK, BorrowOK, CacheEntry, NoCache, Call, Idle,
     PCs, Seen, Unseen, Last
<1> QED BY <1>1 DEF Init, IInv, GenerationOrder, CacheCoherent, CacheHit, DenseCoherent,
     ReadersOK, ReaderOK, SeenOK, TerminatedComplete, MaskPredictsCommit, NoCache, Idle, Unseen

(* Every fill_mask returns exactly the mask of the state it reads, however  *)
(* calls, stores and commits interleave, when the static artifact carries   *)
(* its special-token edges.                                                 *)
THEOREM MasksAreExact == DwaHasSpecials => (Spec => []MaskExact)
<1> SUFFICES ASSUME DwaHasSpecials PROVE Spec => []MaskExact
  OBVIOUS
<1>1. IInv /\ [Next]_vars => IInv' BY InvStep
<1>2. IInv => MaskExact BY DEF IInv, ReadersOK, ReaderOK, MaskExact
<1> QED BY <1>1, <1>2, InvInit, PTL DEF Spec

(* A cache entry of the current generation is the body mask of the current  *)
(* frontier (try_fill_mask_from_cache may return it without recomputing).   *)
THEOREM CacheIsCoherent == DwaHasSpecials => (Spec => []CacheCoherent)
<1> SUFFICES ASSUME DwaHasSpecials PROVE Spec => []CacheCoherent
  OBVIOUS
<1>1. IInv /\ [Next]_vars => IInv' BY InvStep
<1>2. IInv => CacheCoherent BY DEF IInv
<1> QED BY <1>1, <1>2, InvInit, PTL DEF Spec

(* The mask a caller was given and the next commit_token agree on every id. *)
THEOREM MasksPredictCommits == DwaHasSpecials => (Spec => []MaskPredictsCommit)
<1> SUFFICES ASSUME DwaHasSpecials PROVE Spec => []MaskPredictsCommit
  OBVIOUS
<1>1. IInv /\ [Next]_vars => IInv' BY InvStep
<1>2. IInv => MaskPredictsCommit BY DEF IInv
<1> QED BY <1>1, <1>2, InvInit, PTL DEF Spec
----------------------------------------------------------------------------

(* The ways a step may change what a state is: not at all, rejected, ended  *)
(* on a complete frontier, advanced by the engine, or overwritten.          *)
Moves(k) ==
    \/ UNCHANGED <<frontier[k], terminated[k]>>
    \/ frontier'[k] = Dead /\ ~terminated'[k]
    \/ ~terminated[k] /\ frontier'[k] = frontier[k] /\ frontier[k] \in Complete
    \/ /\ ~terminated[k] /\ ~terminated'[k]
       /\ \E x \in Tokens \cup Chunks : Step[frontier[k]][x] # Dead
    \/ \E src \in Handles \ {k} : /\ frontier'[k] = frontier[src]
                                   /\ terminated'[k] = terminated[src]

(* Every step of Next moves every state in one of those ways; this needs no *)
(* assumption on the artifact.                                              *)
LEMMA MovesStep ==
    ASSUME TypeOK, [Next]_vars, NEW k \in Handles
    PROVE  Moves(k)
<1>1. CASE UNCHANGED <<frontier, terminated>>
  BY <1>1 DEF Moves
<1>2. ASSUME NEW h \in Handles, RejectAfterFailedCommit(h) PROVE Moves(k)
  BY <1>2 DEF RejectAfterFailedCommit, TypeOK, Moves
<1>3. ASSUME NEW h \in Handles, NEW x \in Tokens \cup Chunks, ~terminated[h],
             Step[frontier[h]][x] # Dead,
             FinishCommitGeneration(h, Step[frontier[h]][x])
      PROVE  Moves(k)
  <2>1. CASE k = h BY <1>3, <2>1 DEF FinishCommitGeneration, Moves
  <2>2. CASE k # h BY <1>3, <2>2 DEF FinishCommitGeneration, TypeOK, Moves
  <2> QED BY <2>1, <2>2
<1>4. ASSUME NEW h \in Handles, NEW x \in Ids, CommitToken(h, x) PROVE Moves(k)
  <2>1. CASE ~Accepts(h, x) BY <1>4, <1>2, <2>1 DEF CommitToken
  <2>2. CASE Accepts(h, x) /\ x \in EndTokens
    BY <1>4, <2>2 DEF CommitToken, Terminate, Accepts, EndTokenAllowed, TypeOK, Moves
  <2>3. CASE Accepts(h, x) /\ x \notin EndTokens
    BY <1>4, <1>3, <2>3 DEF CommitToken, Accepts, EndTokenAllowed
  <2> QED BY <2>1, <2>2, <2>3
<1>5. ASSUME NEW h \in Handles, NEW c \in Chunks, CommitBytes(h, c) PROVE Moves(k)
  BY <1>5, <1>2, <1>3 DEF CommitBytes
<1>6. ASSUME NEW h \in Handles, CommitResourceLimit(h) PROVE Moves(k)
  BY <1>6, <1>2 DEF CommitResourceLimit
<1>7. ASSUME NEW h \in Handles, NEW src \in Handles, CopySnapshotFrom(h, src) PROVE Moves(k)
  BY <1>7 DEF CopySnapshotFrom, TypeOK, Moves
<1>8. ASSUME NEW t \in Threads,
             \/ \E h \in Handles : FillMaskBegin(t, h)
             \/ ComputeStatic(t) \/ StoreStatic(t) \/ OverlayStatic(t)
             \/ ComputeDynamic(t) \/ ComputeSegmented(t) \/ Restore(t)
             \/ FillMaskFinish(t) \/ FillMaskReturn(t)
      PROVE  UNCHANGED <<frontier, terminated>>
  BY <1>8 DEF FillMaskBegin, ComputeStatic, StoreStatic, OverlayStatic, ComputeDynamic,
     ComputeSegmented, Restore, FillMaskFinish, FillMaskReturn
<1> QED BY <1>1, <1>4, <1>5, <1>6, <1>7, <1>8 DEF Next, vars

(* is_accepting never answers true on an incomplete frontier: an end token  *)
(* is only taken on a complete one, and a rejection clears the flag.        *)
THEOREM AcceptingNeedsCompletion == Spec => []AcceptingIsComplete
<1> DEFINE J == TypeInv /\ TerminatedComplete
<1>1. Init => J
  BY ObjectsAssumption DEF Init, TypeInv, TypeOK, BorrowOK, CacheEntry, NoCache, Call, Idle,
     PCs, Seen, Unseen, Last, TerminatedComplete
<1>2. J /\ [Next]_vars => J'
  <2> SUFFICES ASSUME J, [Next]_vars PROVE J'
    OBVIOUS
  <2>1. TypeInv' BY TypeStep
  <2>2. ASSUME NEW k \in Handles, terminated'[k] PROVE frontier'[k] \in Complete
    <3>1. Moves(k) BY MovesStep DEF TypeInv
    <3> QED BY <2>2, <3>1 DEF Moves, TerminatedComplete
  <2> QED BY <2>1, <2>2 DEF TerminatedComplete
<1>3. J => AcceptingIsComplete
  BY DEF TerminatedComplete, AcceptingIsComplete, IsAccepting
<1> QED BY <1>1, <1>2, <1>3, PTL DEF Spec

(* No commit revives a rejected or terminated state (commit_transaction).   *)
THEOREM SessionsStaySealed == Spec => SealedSession
<1>1. TypeInv /\ [Next]_vars => [\A h \in Handles : SealedStep(h)]_vars
  <2> SUFFICES ASSUME TypeInv, [Next]_vars, NEW h \in Handles,
                      terminated[h] \/ frontier[h] = Dead
               PROVE  SealedStep(h)
    BY DEF SealedStep
  <2>1. Moves(h) BY MovesStep DEF TypeInv
  <2>2. Dead \notin Complete BY ObjectsAssumption
  <2>3. ASSUME frontier[h] = Dead, NEW x \in Tokens \cup Chunks PROVE Step[frontier[h]][x] = Dead
    BY <2>3, EngineAssumption
  <2> QED BY <2>1, <2>2, <2>3 DEF Moves, SealedStep
<1>2. Init => TypeInv
  BY ObjectsAssumption DEF Init, TypeInv, TypeOK, BorrowOK, CacheEntry, NoCache, Call, Idle,
     PCs, Seen, Unseen, Last
<1> QED BY <1>1, <1>2, TypeStep, PTL DEF Spec, SealedSession
=============================================================================
