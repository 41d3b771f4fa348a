-------------------------- MODULE ConstraintState --------------------------
(****************************************************************************)
(* A generation session: the ConstraintState objects of                     *)
(* src/runtime/state.rs, the commit operations of src/runtime/commit/       *)
(* mod.rs that mutate them, and fill_mask of src/runtime/mask/mod.rs, which *)
(* reads them through a generation-keyed mask cache behind a mutex.         *)
(*                                                                          *)
(* The commit engine (lexer, parser stacks) and the mask engines (parser    *)
(* DWA walk, dynamic token-trie walk) are parameters: a frontier is an      *)
(* opaque value, Step gives the frontier a commit leaves, and DwaDense,     *)
(* ByteLive and SpecialLive say what the engines compute for a frontier.    *)
(* What is modelled is everything the session adds around them: rejection,  *)
(* end tokens, generations, the cache and its three ways of being reused,   *)
(* and several threads in fill_mask on one state (it takes &self), while    *)
(* a commit needs &mut self and so excludes them.                           *)
(****************************************************************************)
EXTENDS Naturals, FiniteSets

CONSTANTS
    Handles,         \* ConstraintState objects of one Constraint
    NoHandle,        \* what an idle thread borrows
    Threads,         \* threads that may be inside fill_mask
    Frontiers,       \* values of the field `state` (ParserStateMap)
    Dead,            \* the empty map
    Start,           \* the map Constraint::start() gives
    Complete,        \* frontiers for which frontier_complete() holds
    Tokens,          \* ids the vocabulary or a special terminal knows
    UnknownTokens,   \* ids neither knows
    Placeholders,    \* ids that stand for unresolved late grammar slots
    EndTokens,       \* constraint.end_tokens
    EmptyTokens,     \* constraint.empty_byte_token_ids
    Chunks,          \* byte strings given to commit_bytes
    Step,            \* Step[f][x]: the frontier a commit of x leaves, Dead on Err
    ByteLive,        \* ByteLive[f]: ids whose bytes the engines admit at f
    SpecialLive,     \* SpecialLive[f]: ids with a live exact special terminal
    Classes,         \* internal token classes of the static artifact
    ClassOf,         \* ClassOf[t]: the class of id t
    DwaDense,        \* DwaDense[f]: classes the parser-DWA walk collects
    SameMask,        \* frontier pairs the dynamic commit-reuse tests accept
    Backends,        \* the branches of fill_body_mask a constraint may be built for
    HasControls,     \* parser_has_controls()
    HasTemplate,     \* has_template_parser()
    MaxGeneration    \* bound on the commits of one history

Ids == Tokens \cup UnknownTokens \cup EndTokens

(* The classes partition the ids, so a set of classes denotes a set of ids. *)
Expand(dense) == {t \in Tokens \cup Placeholders : ClassOf[t] \in dense}

(* uses_compact_segmented_parser_runtime() *)
Compact(b) == b = "segmented"

(* Zero-byte ids are not byte transitions in these configurations; only a   *)
(* constraint that runs an LR table under the static backend keeps them.    *)
NoEmptySteps(b) == IF HasTemplate \/ b = "dynamic" \/ Compact(b) THEN EmptyTokens ELSE {}

(* What the engines compute for f, and what is left once the zero-byte rule *)
(* is applied: the ids a commit at f accepts.                               *)
Body(f) == ByteLive[f] \cup SpecialLive[f]
Admitted(b, f) == (ByteLive[f] \ NoEmptySteps(b)) \cup SpecialLive[f]

ASSUME ObjectsAssumption ==
    /\ Dead \in Frontiers /\ Start \in Frontiers
    /\ Complete \subseteq Frontiers \ {Dead}
    /\ EmptyTokens \subseteq Tokens
    /\ UnknownTokens \cap (Tokens \cup EndTokens) = {}
    /\ Placeholders \subseteq UnknownTokens
    /\ NoHandle \notin Handles
    /\ Backends \subseteq {"static", "dynamic", "segmented"}
    /\ HasControls \in BOOLEAN /\ HasTemplate \in BOOLEAN
    /\ MaxGeneration \in Nat

ASSUME EngineAssumption ==
    /\ Step \in [Frontiers -> [Tokens \cup Chunks -> Frontiers]]
    /\ ByteLive \in [Frontiers -> SUBSET Tokens]
    /\ SpecialLive \in [Frontiers -> SUBSET Tokens]
    /\ ClassOf \in [Tokens \cup Placeholders -> Classes]
    /\ DwaDense \in [Frontiers -> SUBSET Classes]
    /\ SameMask \subseteq Frontiers \X Frontiers
    \* An empty frontier offers nothing and cannot be left.
    /\ \A x \in Tokens \cup Chunks : Step[Dead][x] = Dead
    /\ ByteLive[Dead] = {} /\ SpecialLive[Dead] = {} /\ DwaDense[Dead] = {}
    \* Mask and commit engines agree (the NOTE at the end of
    \* fill_mask_uncached_queue makes this the engines' obligation).
    /\ \A b \in Backends, f \in Frontiers, t \in Tokens :
          Step[f][t] # Dead <=> t \in Admitted(b, f)
    \* The parser DWA covers the byte language, and no more than the engines
    \* admit, but for the slots it was compiled with.
    /\ \A f \in Frontiers :
          /\ ByteLive[f] \subseteq Expand(DwaDense[f])
          /\ Expand(DwaDense[f]) \subseteq Body(f) \cup Placeholders
    \* The projection tests accept two frontiers only when their masks agree.
    /\ \A p \in SameMask : /\ ByteLive[p[1]] = ByteLive[p[2]]
                           /\ SpecialLive[p[1]] = SpecialLive[p[2]]

----------------------------------------------------------------------------

VARIABLES
    backend,     \* what the constraint was built for; it never changes
    frontier,    \* [Handles -> Frontiers]     field state
    terminated,  \* [Handles -> BOOLEAN]       field terminated
    generation,  \* [Handles -> Nat]           field generation
    cache,       \* [Handles -> CacheEntry]    field mask_cache
    call,        \* [Threads -> Call]          a fill_mask call in progress
    seen,        \* [Handles -> Seen]          history: last mask the caller got
    last         \* history: the last commit_token, with the mask it followed

vars == <<backend, frontier, terminated, generation, cache, call, seen, last>>

(* MaskCacheData, with `some` for the Option around it and hasDense FALSE   *)
(* for an empty merged_dense vector, which never equals a walked one.       *)
CacheEntry == [some : BOOLEAN, generation : Nat, mask : SUBSET Ids,
               hasDense : BOOLEAN, dense : SUBSET Classes]
NoCache == [some |-> FALSE, generation |-> 0, mask |-> {},
            hasDense |-> FALSE, dense |-> {}]

PCs == {"idle", "compute", "store", "overlay", "restore", "finish", "returned"}
Call == [pc : PCs, handle : Handles \cup {NoHandle}, buf : SUBSET Ids, touch : BOOLEAN, dirty : BOOLEAN]

Idle == [pc |-> "idle", handle |-> NoHandle, buf |-> {}, touch |-> FALSE, dirty |-> FALSE]

Seen == [some : BOOLEAN, mask : SUBSET Ids]
Unseen == [some |-> FALSE, mask |-> {}]
Last == [some : BOOLEAN, ok : BOOLEAN, allowed : BOOLEAN]

TypeOK ==
    /\ backend \in Backends
    /\ frontier \in [Handles -> Frontiers]
    /\ terminated \in [Handles -> BOOLEAN]
    /\ generation \in [Handles -> Nat]
    /\ cache \in [Handles -> CacheEntry]
    /\ call \in [Threads -> Call]
    /\ seen \in [Handles -> Seen]
    /\ last \in Last

Init ==
    /\ backend \in Backends
    /\ frontier = [h \in Handles |-> Start]
    /\ terminated = [h \in Handles |-> FALSE]
    /\ generation = [h \in Handles |-> 0]
    /\ cache = [h \in Handles |-> NoCache]
    /\ call = [t \in Threads |-> Idle]
    /\ seen = [h \in Handles |-> Unseen]
    /\ last = [some |-> FALSE, ok |-> FALSE, allowed |-> FALSE]

----------------------------------------------------------------------------
(* fill_mask *)

(* update_control_special_token_mask: the exact special ids it ORs in.      *)
Overlay(b, f) == IF HasControls \/ Compact(b) \/ HasTemplate THEN SpecialLive[f] ELSE {}

(* clear_late_grammar_placeholder_mask: an unresolved slot is no model      *)
(* token, and (enforce_empty_byte_token_domain) a zero-byte id stays only   *)
(* through its exact action.                                                *)
ClearPlaceholders(b, f, m) == m \ (Placeholders \cup (NoEmptySteps(b) \ SpecialLive[f]))

(* The last statements of fill_mask: end ids are set or cleared outside the *)
(* cached body mask.                                                        *)
WithEndTokens(f, m) ==
    IF f \in Complete THEN m \cup EndTokens ELSE m \ EndTokens

Borrowed(h) == \E t \in Threads : call[t].pc # "idle" /\ call[t].handle = h

(* store_mask_cache and store_mask_cache_reuse_dense, which drops the dense *)
(* bitmap whatever its name says.                                           *)
StoreMaskCache(h, buf, dense) ==
    cache' = [cache EXCEPT ![h] =
        [some |-> TRUE, generation |-> generation[h], mask |-> buf,
         hasDense |-> TRUE, dense |-> dense]]

StoreMaskCacheReuseDense(h, buf) ==
    cache' = [cache EXCEPT ![h] =
        [some |-> TRUE, generation |-> generation[h], mask |-> buf,
         hasDense |-> FALSE, dense |-> {}]]

TouchMaskCacheGeneration(h) ==
    cache' = [cache EXCEPT ![h] =
        IF @.some THEN [@ EXCEPT !.generation = generation[h]] ELSE @]

(* Faulty variant of CacheHit: the entry is not compared with the state.    *)
CacheHitAnyGeneration(h) == cache[h].some

CacheHit(h) == cache[h].some /\ cache[h].generation = generation[h]

(* fill_mask up to try_fill_mask_from_cache, which copies the cached mask   *)
(* under the lock. A terminated state answers the empty mask at once.       *)
FillMaskBegin(t, h) ==
    /\ call[t].pc = "idle"
    /\ call' = [call EXCEPT ![t] =
          [pc |-> IF terminated[h] THEN "returned"
                  ELSE IF CacheHit(h) THEN "finish" ELSE "compute",
           handle |-> h,
           buf |-> IF ~terminated[h] /\ CacheHit(h) THEN cache[h].mask ELSE {},
           touch |-> FALSE, dirty |-> FALSE]]
    /\ UNCHANGED <<backend, frontier, terminated, generation, cache, seen, last>>

MoveTo(t, pc, buf, touch, dirty) ==
    call' = [call EXCEPT ![t] = [pc |-> pc, handle |-> call[t].handle, buf |-> buf,
                                 touch |-> touch, dirty |-> dirty]]

(* Faulty variant of ApplyDenseDelta: the joining classes are not expanded  *)
(* to the ids they stand for.                                               *)
ApplyDenseDeltaUnexpanded(entry, dense) ==
    (entry.mask \ Expand(entry.dense \ dense)) \cup (dense \ entry.dense)

(* apply_internal_dense_delta_to_buf: replay onto the cached mask the       *)
(* classes that left and the classes that joined since it was computed.     *)
ApplyDenseDelta(entry, dense) ==
    (entry.mask \ Expand(entry.dense \ dense)) \cup Expand(dense \ entry.dense)

(* The static engines. With an unchanged dense bitmap the cached mask is    *)
(* copied and later only touched; with a changed one it may be patched; or  *)
(* the mask is expanded from scratch, by the single-path kernel possibly    *)
(* straight into the buffer (dirty), which leaves no dense bitmap to keep.  *)
ComputeStatic(t) ==
    LET h == call[t].handle
        dense == DwaDense[frontier[h]]
        entry == cache[h]
    IN /\ call[t].pc = "compute" /\ backend = "static"
       /\ \/ /\ entry.some /\ entry.hasDense /\ entry.dense = dense
             /\ MoveTo(t, "store", entry.mask, TRUE, FALSE)
          \/ /\ entry.some /\ entry.hasDense /\ entry.dense # dense
             /\ MoveTo(t, "store", ApplyDenseDelta(entry, dense), FALSE, FALSE)
          \/ \E dirty \in BOOLEAN : MoveTo(t, "store", Expand(dense), FALSE, dirty)
       /\ UNCHANGED <<backend, frontier, terminated, generation, cache, seen, last>>

(* The end of the static engines: one more lock of the cache. *)
StoreStatic(t) ==
    LET h == call[t].handle
    IN /\ call[t].pc = "store"
       /\ IF call[t].touch THEN TouchMaskCacheGeneration(h)
          ELSE IF call[t].dirty THEN StoreMaskCacheReuseDense(h, call[t].buf)
          ELSE StoreMaskCache(h, call[t].buf, DwaDense[frontier[h]])
       /\ MoveTo(t, "overlay", call[t].buf, FALSE, FALSE)
       /\ UNCHANGED <<backend, frontier, terminated, generation, seen, last>>

(* update_control_special_token_mask, then the second store, which only     *)
(* constraints with controls (or segmented ones) make.                      *)
OverlayStatic(t) ==
    /\ call[t].pc = "overlay"
    /\ MoveTo(t, IF HasControls \/ Compact(backend) THEN "restore" ELSE "finish",
              call[t].buf \cup Overlay(backend, frontier[call[t].handle]), FALSE, FALSE)
    /\ UNCHANGED <<backend, frontier, terminated, generation, cache, seen, last>>

(* fill_mask_dynamic walks lexer and parser directly: bytes and specials.   *)
ComputeDynamic(t) ==
    LET f == frontier[call[t].handle]
    IN /\ call[t].pc = "compute" /\ backend = "dynamic"
       /\ MoveTo(t, "restore", Body(f), FALSE, FALSE)
       /\ UNCHANGED <<backend, frontier, terminated, generation, cache, seen, last>>

(* The segmented projection stores its overlaid and filtered mask; when it  *)
(* declines, the dynamic walker answers and nothing is stored.              *)
ComputeSegmented(t) ==
    LET f == frontier[call[t].handle]
    IN /\ call[t].pc = "compute" /\ backend = "segmented"
       /\ \/ MoveTo(t, "restore",
                    ClearPlaceholders(backend, f, Expand(DwaDense[f]) \cup Overlay(backend, f)),
                    FALSE, FALSE)
          \/ MoveTo(t, "finish", ClearPlaceholders(backend, f, Body(f)), FALSE, FALSE)
       /\ UNCHANGED <<backend, frontier, terminated, generation, cache, seen, last>>

Restore(t) ==
    /\ call[t].pc = "restore"
    /\ StoreMaskCacheReuseDense(call[t].handle, call[t].buf)
    /\ MoveTo(t, "finish", call[t].buf, FALSE, FALSE)
    /\ UNCHANGED <<backend, frontier, terminated, generation, seen, last>>

(* The filters fill_mask applies after the body mask, cached or not. *)
FillMaskFinish(t) ==
    LET f == frontier[call[t].handle]
    IN /\ call[t].pc = "finish"
       /\ MoveTo(t, "returned", WithEndTokens(f, ClearPlaceholders(backend, f, call[t].buf)),
                 FALSE, FALSE)
       /\ UNCHANGED <<backend, frontier, terminated, generation, cache, seen, last>>

(* The caller takes the mask and ends its borrow. *)
FillMaskReturn(t) ==
    /\ call[t].pc = "returned"
    /\ seen' = [seen EXCEPT ![call[t].handle] = [some |-> TRUE, mask |-> call[t].buf]]
    /\ call' = [call EXCEPT ![t] = Idle]
    /\ UNCHANGED <<backend, frontier, terminated, generation, cache, last>>

----------------------------------------------------------------------------
(* Commits *)

(* Faulty variant of RejectAfterFailedCommit: the flag survives.            *)
RejectKeepingTermination(h) ==
    /\ frontier' = [frontier EXCEPT ![h] = Dead]
    /\ generation' = [generation EXCEPT ![h] = @ + 1]
    /\ cache' = [cache EXCEPT ![h] = NoCache]
    /\ UNCHANGED terminated

(* reject_after_failed_commit *)
RejectAfterFailedCommit(h) ==
    /\ frontier' = [frontier EXCEPT ![h] = Dead]
    /\ terminated' = [terminated EXCEPT ![h] = FALSE]
    /\ generation' = [generation EXCEPT ![h] = @ + 1]
    /\ cache' = [cache EXCEPT ![h] = NoCache]

(* commit_end_token on a live, complete body. *)
Terminate(h) ==
    /\ terminated' = [terminated EXCEPT ![h] = TRUE]
    /\ generation' = [generation EXCEPT ![h] = @ + 1]
    /\ cache' = [cache EXCEPT ![h] = NoCache]
    /\ UNCHANGED frontier

(* Faulty variant of MaskStateUnchanged: an entry always moves along.       *)
MaskStateAlwaysUnchanged(f, g) == TRUE

(* The test of finish_commit_generation for keeping the cached mask. *)
MaskStateUnchanged(f, g) == f = g \/ (backend = "dynamic" /\ <<f, g>> \in SameMask)

(* commit_*_actual succeeding with frontier g, then                         *)
(* finish_commit_generation: the generation advances, and a cached mask of  *)
(* the old generation survives when the mask state did not change.          *)
FinishCommitGeneration(h, g) ==
    /\ frontier' = [frontier EXCEPT ![h] = g]
    /\ generation' = [generation EXCEPT ![h] = @ + 1]
    /\ cache' = [cache EXCEPT ![h] =
          IF @.some /\ @.generation = generation[h]
                    /\ MaskStateUnchanged(frontier[h], g)
          THEN [@ EXCEPT !.generation = generation[h] + 1]
          ELSE @]
    /\ UNCHANGED terminated

(* Faulty variants: an end token taken on any live body, and a commit that  *)
(* does not look at the terminated flag.                                    *)
EndTokenAlwaysAllowed(h, x) == x \in EndTokens /\ frontier[h] # Dead
(* What commit_token_raw_inner answers. *)
EndTokenAllowed(h, x) == x \in EndTokens /\ frontier[h] \in Complete
AcceptsPastTheEnd(h, x) ==
    \/ EndTokenAllowed(h, x)
    \/ x \notin EndTokens /\ x \in Tokens /\ Step[frontier[h]][x] # Dead
Accepts(h, x) ==
    /\ ~terminated[h]
    /\ \/ EndTokenAllowed(h, x)
       \/ x \notin EndTokens /\ x \in Tokens /\ Step[frontier[h]][x] # Dead

Exclusive(h) == ~Borrowed(h) /\ generation[h] < MaxGeneration

Record(h, x, ok) ==
    /\ last' = [some |-> seen[h].some, ok |-> seen[h].some /\ ok,
                allowed |-> x \in seen[h].mask]
    /\ seen' = [seen EXCEPT ![h] = Unseen]

(* commit_token: end-token policy, unknown ids, then the engine. Every      *)
(* refusal rejects the state.                                               *)
CommitToken(h, x) ==
    /\ Exclusive(h)
    /\ IF ~Accepts(h, x) THEN RejectAfterFailedCommit(h)
       ELSE IF x \in EndTokens THEN Terminate(h)
       ELSE FinishCommitGeneration(h, Step[frontier[h]][x])
    /\ Record(h, x, Accepts(h, x))
    /\ UNCHANGED <<backend, call>>

(* commit_bytes of a non-empty byte string. *)
CommitBytes(h, c) ==
    /\ Exclusive(h)
    /\ IF terminated[h] \/ Step[frontier[h]][c] = Dead
       THEN RejectAfterFailedCommit(h)
       ELSE FinishCommitGeneration(h, Step[frontier[h]][c])
    /\ seen' = [seen EXCEPT ![h] = Unseen]
    /\ UNCHANGED <<backend, call, last>>

(* A control chain that exceeds its resource limit unwinds out of either    *)
(* commit; reject_after_control_resource_limit also drops the (possibly     *)
(* poisoned) cache and scratch.                                             *)
CommitResourceLimit(h) ==
    /\ Exclusive(h) /\ HasControls /\ ~terminated[h] /\ frontier[h] # Dead
    /\ RejectAfterFailedCommit(h)
    /\ seen' = [seen EXCEPT ![h] = Unseen]
    /\ UNCHANGED <<backend, call, last>>

(* Faulty variant of CopySnapshotFrom: the cache of the old state stays.    *)
CopySnapshotKeepingCache(h, src) ==
    /\ h # src /\ ~Borrowed(h)
    /\ frontier' = [frontier EXCEPT ![h] = frontier[src]]
    /\ terminated' = [terminated EXCEPT ![h] = terminated[src]]
    /\ generation' = [generation EXCEPT ![h] = generation[src]]
    /\ seen' = [seen EXCEPT ![h] = Unseen]
    /\ UNCHANGED <<backend, cache, call, last>>

(* h.copy_snapshot_from(src), and equally h = src.clone(): fresh buffers,   *)
(* an empty cache, and the generation of the source, which may be lower     *)
(* than the one h had.                                                      *)
CopySnapshotFrom(h, src) ==
    /\ h # src /\ ~Borrowed(h)
    /\ frontier' = [frontier EXCEPT ![h] = frontier[src]]
    /\ terminated' = [terminated EXCEPT ![h] = terminated[src]]
    /\ generation' = [generation EXCEPT ![h] = generation[src]]
    /\ cache' = [cache EXCEPT ![h] = NoCache]
    /\ seen' = [seen EXCEPT ![h] = Unseen]
    /\ UNCHANGED <<backend, call, last>>

----------------------------------------------------------------------------

Next ==
    \/ \E t \in Threads :
          \/ \E h \in Handles : FillMaskBegin(t, h)
          \/ ComputeStatic(t)
          \/ StoreStatic(t)
          \/ OverlayStatic(t)
          \/ ComputeDynamic(t)
          \/ ComputeSegmented(t)
          \/ Restore(t)
          \/ FillMaskFinish(t)
          \/ FillMaskReturn(t)
    \/ \E h \in Handles :
          \/ \E x \in Ids : CommitToken(h, x)
          \/ \E c \in Chunks : CommitBytes(h, c)
          \/ CommitResourceLimit(h)
          \/ \E src \in Handles : CopySnapshotFrom(h, src)

Spec == Init /\ [][Next]_vars

----------------------------------------------------------------------------
(* Properties *)

(* The mask the documentation of mask() promises for the current state.     *)
ExactMask(h) ==
    IF terminated[h] THEN {} ELSE WithEndTokens(frontier[h], Admitted(backend, frontier[h]))

(* is_accepting() *)
IsAccepting(h) == IF EndTokens # {} THEN terminated[h] ELSE frontier[h] \in Complete

(* Every fill_mask, whatever it found in the cache and whatever other       *)
(* threads stored meanwhile, returns exactly the mask of the state it was   *)
(* called on ("fill_mask is a pure function of this state and the immutable *)
(* constraint", commit/mod.rs, finish_commit_generation).                   *)
MaskExact ==
    \A t \in Threads : call[t].pc = "returned" => call[t].buf = ExactMask(call[t].handle)

(* A mask handed to the caller decides the next commit_token: it succeeds   *)
(* if and only if its id is in the mask (fill_mask and commit_token).       *)
MaskPredictsCommit == last.some => (last.ok <=> last.allowed)

(* A state reports acceptance only while its frontier is a complete match,  *)
(* also after a commit past the end token was rejected (is_accepting).      *)
AcceptingIsComplete == \A h \in Handles : IsAccepting(h) => frontier[h] \in Complete

(* Once a state is rejected, or terminated by an end token, every commit    *)
(* leaves it rejected: the only way back is copying another state into it   *)
(* (commit_transaction: "every later commit errors").                       *)
SealedStep(h) ==
    (terminated[h] \/ frontier[h] = Dead) =>
       \/ UNCHANGED <<frontier[h], terminated[h]>>
       \/ frontier'[h] = Dead /\ ~terminated'[h]
       \/ \E src \in Handles \ {h} : /\ frontier'[h] = frontier[src]
                                      /\ terminated'[h] = terminated[src]
SealedSession == [][\A h \in Handles : SealedStep(h)]_vars

(* m is the body mask of f, up to the ids the final filter drops.           *)
IsBody(b, f, m) == ClearPlaceholders(b, f, m) = Admitted(b, f)

(* A cached mask of the current generation is the body mask of the current  *)
(* frontier (MaskCacheData, keyed on the generation counter).               *)
CacheCoherent ==
    \A h \in Handles : CacheHit(h) => IsBody(backend, frontier[h], cache[h].mask)

(* The static artifact carries the exact special-token edges itself, as     *)
(* every constraint compiled from a grammar source does.                    *)
DwaHasSpecials ==
    "static" \in Backends => \A f \in Frontiers : SpecialLive[f] \subseteq Expand(DwaDense[f])
----------------------------------------------------------------------------
(* The inductive invariant behind MaskExact and MaskPredictsCommit *)

(* A cache entry never carries a generation its state has not reached, so a *)
(* commit, which advances the generation, always turns a hit into a miss    *)
(* unless it moves the entry along.                                         *)
GenerationOrder ==
    \A h \in Handles : cache[h].some => cache[h].generation <= generation[h]

(* An entry that keeps its dense bitmap is the expansion of that bitmap,    *)
(* whatever generation it belongs to: this is what makes patching and       *)
(* touching an old entry sound.                                             *)
DenseCoherent ==
    \A h \in Handles : cache[h].some /\ cache[h].hasDense =>
        cache[h].mask = Expand(cache[h].dense)

(* A thread that decided to touch finds, when it locks the cache again,     *)
(* either the entry it saw or a newer one of the current generation.        *)
TouchReady(h) ==
    /\ cache[h].some
    /\ CacheHit(h) \/ (cache[h].hasDense /\ cache[h].dense = DwaDense[frontier[h]])

(* A thread inside fill_mask borrows a state. *)
BorrowOK == \A t \in Threads : call[t].pc # "idle" => call[t].handle \in Handles

ReaderOK(t) ==
    LET h == call[t].handle
        buf == call[t].buf
    IN /\ call[t].pc \notin {"idle", "returned"} => ~terminated[h]
       /\ call[t].pc \in {"store", "overlay"} => backend = "static"
       /\ call[t].pc = "store" => buf = Expand(DwaDense[frontier[h]])
       /\ call[t].pc = "store" /\ call[t].touch => TouchReady(h)
       /\ call[t].pc \in {"store", "overlay", "restore", "finish"} =>
             IsBody(backend, frontier[h], buf)
       /\ call[t].pc = "returned" => buf = ExactMask(h)
ReadersOK == \A t \in Threads : ReaderOK(t)

(* The mask a caller holds stays the exact one until the next commit. *)
SeenOK == \A h \in Handles : seen[h].some => seen[h].mask = ExactMask(h)

TerminatedComplete == \A h \in Handles : terminated[h] => frontier[h] \in Complete

IInv ==
    /\ TypeOK /\ BorrowOK /\ GenerationOrder /\ CacheCoherent /\ DenseCoherent
    /\ ReadersOK /\ SeenOK /\ TerminatedComplete /\ MaskPredictsCommit
=============================================================================
