# glrmask: a TLA+ development

glrmask constrains the output of a language model to a grammar. A grammar is
compiled once, against a vocabulary, into an immutable `Constraint`. A
generation session is a `ConstraintState`: it is asked for the mask of token
ids that may come next, one id is sampled, the id is committed, and so on until
an end token. The masks must allow exactly the ids that can still lead to a
match, for any grammar, any way the text is cut into tokens, and any order of
calls.

This directory models the parts of that system where state changes over time,
checks them with TLC on small instances and proves the central claims with
TLAPS for all instances. Paths below are relative to the repository root;
`PROJECT.json` prefixes them with `src/` and maps every definition to the lines
it models.

## 1. Inventory

| Part | Where | State | Operations | What makes it correct |
|---|---|---|---|---|
| Session | `src/runtime/state.rs`, commit wrappers in `src/runtime/commit/mod.rs`, `fill_mask` in `src/runtime/mask/mod.rs` | frontier, `terminated`, `generation`, mask cache behind a mutex | start, clone, copy_snapshot_from, commit_token, commit_bytes, end tokens, fill_mask (also concurrently) | a mask depends on the state only; a mask decides the next commit; a finished or rejected session stays so |
| Commit engine | `src/runtime/commit/`, lexer execution, GSS merge | map from lexer states to graph-structured stacks with exclusions | queue over byte offsets, special-token paths, pruning of exclusions | the frontier depends on the text, not on how it was cut into commits |
| Mask engines | `src/runtime/mask/`, `src/runtime/dynamic_mask.rs` | scratch only | parser-DWA walk, trie walk | agree with the commit engine |
| Result cache of the dynamic walk | `DynamicMaskCache` in `src/runtime/artifact.rs`, `mask_cache_payload.rs`, `mask_cache_values.rs` | slots, hash index, ring of weak payloads, shared by all sessions of a vocabulary | look up, store, evict, share and encode payloads | a hit is the mask of its own state; equal masks share one payload |
| Weight interner | `crates/glrmask-weight` | global weak tables, counters, gates, thread-local memos | intern, union, intersect, sweep, defer | one live Arc per value; memo answers are right; sweeps neither lose entries nor stop |
| GSS and GLR driver | `crates/glrmask-glr` | persistent stacks | advance, merge, prune | represents exactly the set of stacks |
| Task graph of a build | `src/compiler/pipeline.rs` | join states and result slots behind mutexes | eleven tasks that launch each other | every result is there when the scope joins, whatever the schedule |
| Compiler stages | `src/compiler`, `crates/glrmask-*-dwa`, `crates/glrmask-weighted-automata`, lexer construction | none that outlives a call | pure transformations | equivalence with the grammar |
| Build budgets | `crates/glrmask-invariant`, `src/compiler/build_budget.rs`, `src/public_api.rs`, `src/public_api/module.rs` | shared work counter, thread-local handle | enter, charge, unwind, drop, rescue, fall back | a build is declined for its own work only; exhausted budgets fall back |
| Markers, forcing | `src/runtime/markers.rs`, `src/runtime/commit/forcing_reference.rs` | byte offsets and events; scratch sessions | observe a commit; extend while only one continuation exists | events at the right bytes; forced text is a prefix of every match |
| Artifact, serialisation, vocabulary, front ends, bindings | `src/runtime/artifact.rs`, `serde.rs`, `crates/glrmask-artifact`, `-vocab`, `-grammar`, `-json-schema`, `bindings/`, `python/` | immutable data | encode, decode, translate | round trips |

How they interact. A compile enters a budget scope, whose pool runs the parts of
a composition and inside them the task graph of a build; its stages intern
weights under a deferral guard, and an exhausted budget unwinds out of any of
them. Markers observe the commit engine from inside its loop. The dynamic walk
asks the result cache of its vocabulary first and stores into it afterwards,
without holding its lock in between. The session calls the commit engine through `&mut self` and the
mask engines through `&self`, so several threads may compute a mask of one state
at once while a commit excludes them all. The only channel between two masks of
one state is the mask cache, keyed by a generation number that every commit
advances; snapshots share nothing but the constraint. The commit engine reads
lexer tables and the LR driver; what it remembers of earlier commits is the
frontier and, inside it, the exclusions.

Where it is hard: reuse of cached masks across generations and threads; the
order of storing a mask and finishing it; rejection and termination in every
order of calls; longest match decided before the rest of the text is known;
merging of derivations that carry different exclusions; lock-free bookkeeping
around a concurrent weak table; memo keys that are addresses; joins whose last
input launches the next stage; a budget that travels with the thread instead of
with the compile; slots and payloads reused under a cache entry. The list, each at
its line, is under `hazards` in `PROJECT.json`.

## 2. Modules

    ConstraintState  <-  MCConstraintState      six-frontier constraint, three configurations
                     <-  ConstraintStateProofs  TLAPS
    CommitEngine     <-  MCCommitEngine         three small grammars
                     <-  CommitEngineProofs     TLAPS
                     <-  Markers                the commit engine with its observer
                                                (MCMarkers: the first grammar, with markers)
    Markers, CommitEngineProofs  <-  MarkersProofs   TLAPS
    CompileContract  <-  CompileDag             INSTANCE ... WITH answer <- outcome
    CompileDag       <-  MCCompileDag           every shape and fate of a build,
                                                and the one whose derivation declines
                     <-  CompileDagProofs       TLAPS
    BuildBudget      <-  MCBuildBudget          two compiles, two parts, two charges
                     <-  BuildBudgetProofs      TLAPS
    MaskCache        <-  MCMaskCache            four states, two slots
                     <-  MaskCacheProofs        TLAPS
    WeightInterner   <-  MCWeightInterner       two-id token sets
                     <-  WeightInternerProofs   TLAPS
    InductionFacts                              TLAPS: induction, recursive functions and sums,
                                                used by the commit, budget and cache proofs

`ConstraintState` and `CommitEngine` meet at the frontier: the first takes the
commit engine as the function `Step` and the mask engines as `ByteLive`,
`SpecialLive` and `DwaDense`, with named assumptions on how they agree
(`EngineAssumption`); the second is what `Step` stands for.

### ConstraintState

| Model | Code |
|---|---|
| `frontier`, `terminated`, `generation`, `cache` | fields `state`, `terminated`, `generation`, `mask_cache` |
| `call[t]` | the local state of one `fill_mask` call; one program counter per lock acquisition |
| `seen`, `last` | history: the last mask a caller took, the last commit made after one |
| `FillMaskBegin` .. `FillMaskReturn` | `fill_mask` and `fill_body_mask`, one branch per `Backend` |
| `ComputeStatic` | the three ways the static engine uses an old cache entry: equal dense bitmap (copy, later touch), different bitmap (patch), none (expand) |
| `StoreStatic`, `OverlayStatic`, `Restore` | first store inside the engine, special-token overlay, second store |
| `ClearPlaceholders`, `WithEndTokens` | the filters on the caller's buffer after the stores: late grammar slots and zero-byte ids out, end ids in |
| `CommitToken`, `CommitBytes`, `Terminate`, `RejectAfterFailedCommit` | `commit_token_raw_inner`, `commit_bytes_raw_inner`, `commit_end_token`, `reject_after_failed_commit` |
| `FinishCommitGeneration` | `finish_commit_generation`: new generation, and the entry moves along when the mask cannot have changed |
| `CommitResourceLimit` | unwinding through `reject_after_control_resource_limit` |
| `CopySnapshotFrom` | `copy_snapshot_from` and `Clone`; the generation may go down |

Masks are sets of ids. The dense bitmap is a set of internal token classes and
`Expand` is its expansion to ids. A frontier is opaque. The
variable `backend`, chosen among `Backends` and never changed, and the constants
`HasControls` and `HasTemplate` select the configuration. Three steps of
`fill_body_mask` that only experiments switch on are left out: the boundary
overlay (`or_two_dwa_boundary_parser_mask`, which does nothing unless
`GLRMASK_EXPERIMENT_TWO_DWA_RUNTIME` or
`GLRMASK_EXPERIMENT_COMPOSE_COMPONENTS_ONLY_STATIC` built an overlay without
segmented components), `add_admissible_scoped_ignore_tokens`
(`GLRMASK_EXPERIMENT_SCOPED_IGNORE_EXACT_OVERLAY`) and the lookahead shadow
(`GLRMASK_EXPERIMENT_MASK_LOOKAHEAD_FACTOR`); so are the diagnostic switches.

### CommitEngine

| Model | Code |
|---|---|
| `frontier`, `queue`, `pending` | `ParserStateMap`, `processing_queue`, `pending_state` |
| a GSS: stacks with one accumulator each | `ParserGSS` with `TerminalsDisallowed` |
| `Merge`, `AdvanceStacks` | GSS merge with union of accumulators; `advance_parser_stacks` |
| `ApplyFutureTerminalDisallow` | an extendable match of `t` is taken provided `t` does not match again |
| `Prune`, `MovedExclusions`, `Violated` | `advance_terminals_disallowed_over_bytes` and its callers |
| `LoadQueue`, `ProcessEntry`, `NextOffset`, `FinishCommit` | `commit_bytes_impl_inner_observed`; the entries of one offset come from a hash map, hence in any order |
| `SpecialPaths`, `CommitToken` | `advance_special_token_paths`, `commit_token_impl_observed` |

The reference (`Lexeme`, `Cuts`, `InProgress`) is stated on the whole text: it
is cut into lexemes, every terminal takes its longest match, and where one
commit ended leaves no trace. `texts` records what the session may have read; an
id with a spelling and a special terminal gives two readings.

The queue is the general algorithm. In front of it the code tries specialised
kernels for common frontiers (`single_cursor.rs`, `simple_read_shift.rs`,
`flat_template.rs` and others); they are meant to leave the frontier the queue
would and are not modelled yet. Behind it, `commit_bytes_impl_observed` asks an
exact liveness query of every lexer state if the tokenizer requires one, which
may drop entries, reject or fail; that pass and product lexer states are left out
too, and there is one ignored terminal.

### Markers

| Model | Code |
|---|---|
| `events`, `byteOffset`, `lastPositions` | fields of `MarkerState` |
| `base`, `reported` | history: where the last commit began, what earlier batches said |
| `Marked...` | each action of `CommitEngine` composed with its observer calls |
| `ObserveEntry` | `observer.stack` for every match an entry of the queue takes |
| `FinishMarkers` | `observer.frontier` after the bytes and after the special paths, then `MarkerState::finish` |
| `OverflowCommit` | "marker byte position overflow", after `begin` and before the engine ran |

A stack admits a probe or does not (`Probe`); `MaxOffset` stands for
`u64::MAX`. The reference, `Passed`, is stated on the whole text like that of
`CommitEngine`.

### CompileDag and CompileContract

| Model | Code |
|---|---|
| `pc[t]` | the eleven tasks; one step per lock, so a store and the launch test that follows it are two steps |
| `slots` | the `Option` fields of the join states, the result slots and the error slots |
| `launched`, `captured` | the launched flags; the id map the parser stage took along |
| `Launch...DagIfReady` | the three launch functions; classify clones its inputs, the others take them |
| `Panic` | a stage unwinds, in the flat and the analysis lane also after it has spawned others; rayon lets the others finish and resumes the panic after the join |
| `JoinedAnswer` | what follows the scope: panic, error slots, `expect`s, `Arc::try_unwrap` |
| `FinalMap`, `CommonMap`, `UsesPrebuilt` | in which coordinates the possible matches end up, and the map they are remapped into |

A request fixes the environment switches and what the grammar makes of each
stage. `CompileContract` is what the caller is promised: one answer, which the
request decides. The refinement mapping is the identity on the request and
`outcome` for the answer; every step before `Return` is a stutter.

### BuildBudget

| Model | Code |
|---|---|
| `units[s]` | `TemplateBuildBudget::units` of one scope |
| `handle[h]` | the thread-local handle of a calling thread; `WorkerHandles` gives those of the threads a part runs on |
| `frames[h]` | the compiles on the stack of a thread: a rayon worker that waits may start another |
| `EnterWithLimit`, `Leave`, `HandleAfterDrop` | `BuildBudgetScope::enter`, the end of the attempt, `Drop` |
| `Charge`, `Declined` | a charge and the unwind it may cause; the per-part fallback |
| `After` | which of attempt, rescue, fallback and answer comes next |
| `TokenTrieFallback` | the fallback of the whole composition, outside the scope: a constraint, or its own error |

Work is counted in unit charges. `finish_template_attempt` and
`Module::compile_with` have the same shape and are one model.

### MaskCache

| Model | Code |
|---|---|
| `entries`, `byHash`, `nextSlot` | the fields of `DynamicMaskCache` |
| `values`, `nextValue`, `heap` | `MaskValueIndex`, and the payloads that are alive |
| `FromWords`, `Decoded`, `Matches` | the encodings of a mask, their decoding, the comparison without decoding (by what it decides) |
| `Lookup`, `Walk`, `CacheMask` | one critical section, the walk outside it, another critical section |
| `Admit`, `Upgrade`, `Place`, `Unlink` | probation, upgrade, growth and round-robin replacement |

The walk of a state is `Exact`; all masks of one cache have one length.

### WeightInterner

| Model | Code |
|---|---|
| `table` | `GLOBAL_TOKEN_SETS`, a bucket of weak references per fingerprint |
| `memo[t]`, `inserts[t]` | the thread-local `WeightOpMemo` |
| `counter`, `inProgress`, `guards` | the cleanup counter, the gate, the live deferral guards (the depth is their number) |
| `InternExisting`, `InternFresh` | `intern_rangeset` under its shard lock |
| `CheckDeferral` .. `ReleaseGate` | `maybe_cleanup_token_sets`, one step per atomic operation and per bucket |
| `ReleaseDeferral`, `ClearStaleWeights`, `StaleReset`, `StaleRelease` | `interner_clear_stale` and its two callers |
| `MemoHit`, `MemoMiss`, `StoreMemo` | `shared_token_union`, `shared_token_intersection` and the memo behind them |
| `Strong`, `Weak`, `Free` | `Arc` and `Weak` of the standard library: an address is reused when no reference of either kind is left |

Token sets are TLA+ sets, so union and intersection are computed, not assumed.

## 3. Runs

| Run | Instance | Checks |
|---|---|---|
| `SessionStatic` | static backend, one state, two threads | `TypeOK`, `MaskExact`, `CacheCoherent` |
| `SessionDirect` | dynamic or compact segmented backend with controls, two states, two threads, end token, late grammar slot, resource limits | `MaskExact`, `MaskPredictsCommit`, `AcceptingIsComplete`, `SealedSession` |
| `SessionDataOnly` | template parser without controls | `MaskExact` is violated (finding 1) |
| `CommitMixed` | two lexer partitions, keyword inside an identifier, ignored terminal, special tokens, texts up to 8 symbols, two markers, offsets up to 6 | `TypeOK`, `FrontierSound`, `FrontierKeepsParses`, `MergesAgree`, `ExclusionsJustified`, `CompletionIsReal`, `BatchSound`, `BatchComplete`, `RejectedIsSilent` |
| `CommitMerge` | two derivations meeting in one stack | `CompleteTextIsRecognised` is violated (finding 2) |
| `CommitReentrant` | lexer start re-entered inside a lexeme | `CompletionIsReal` is violated (finding 3) |
| `InternSweep` | two threads, two allocations, two ids, fair | `OneArcPerValue`, `MemoSound`, `GateReopens` |
| `CompileDag` | three workers, every combination of the switches that change the graph, each failure, tasks that unwind, fair | `JoinComplete`, `SpawnedOnce`, `ImplementsContract` |
| `CompileUnderived` | a single-use terminal whose possible matches cannot be derived | `RemapRefines` is violated (finding 5) |
| `BuildBudget` | two compiles on two plain threads or on one pool worker, nine requests, a limit of two, pools that cannot be built, fair | `TypeOK`, `DeclinedIffOverrun`, `CallerRestored`, `DeclineIsFinal`, `EveryCompileAnswers` |
| `BudgetPartFallback` | Auto, a parent above the limit, a retained child | `AutoFallsBack` is violated (finding 4) |
| `MaskCache` | two threads, four states in two colliding pairs, two slots, a ring of two | `HitExact`, `IndexCoherent`, `SharedOnce`, `RepeatUpgrades` |

What the properties say. `MaskExact`: every `fill_mask` returns the mask of the
state it was called on, whatever it found in the cache. `CacheCoherent`: a cache
entry of the current generation is the body mask of the current frontier.
`MaskPredictsCommit`: the next commit succeeds if and only if its id was in the
mask. `AcceptingIsComplete`: acceptance is only reported on a complete match,
also after calls past the end. `SealedSession`: a rejected or terminated session
is reopened only by copying another state into it. `FrontierSound` and
`FrontierKeepsParses`: between commits the frontier holds only longest-match
parses of the whole text, and all of them that can still be continued.
`MergesAgree`: wherever a commit merges (a match into a later offset, a residual
or a special-token path into the result), a stack that comes from two sides has
the same exclusions on both. It is the condition under which the proofs below
show that no parse is lost, and what fails in `CommitMerge`.
`ExclusionsJustified`: an exclusion carried between commits is about a lexeme
that really is open in the text. `CompletionIsReal`: `is_accepting` is only true
of a complete match. `BatchSound` and `BatchComplete`: a commit
reports only, and all, markers that parses of the whole text pass in it and no
earlier batch reported.
`RejectedIsSilent`: a rejected state reports nothing and keeps its offset, also
when the offset overflowed. `OneArcPerValue`: two live interned Arcs never carry
one value. `MemoSound`: a memo answer is about the sets now at its addresses.
`GateReopens`: a sweep gate that closes opens again. `JoinComplete`: the
`expect`s and unwraps after the scope never fire. `SpawnedOnce`: no stage is
spawned twice. `RemapRefines`: the prebuilt id map is fine enough for what is
remapped into it; it is what fails in `CompileUnderived`. `ImplementsContract`: one answer, decided by the request, and
there is one. `DeclinedIffOverrun`: a build is declined for its own work and for
nothing else. `CallerRestored`: a thread holds a handle only while the scope that
installed it is running on its stack. `DeclineIsFinal`: no fallback or rescue is
skipped, no explicit strategy replaced. `EveryCompileAnswers`: every compile
returns. `HitExact`, `IndexCoherent`, `SharedOnce`, `RepeatUpgrades`: a hit is the
mask of its own state; index and slots describe each other; entries with the same
mask hold one payload while the ring watches theirs, whatever collided, died or was
stored in between; a state stored twice leaves probation.

Bounds. `MaxGeneration` bounds the commits of a history; the interesting
histories (a mask, a commit that keeps or changes it, a copy, a mask again) need
three, the runs use four or more. The six frontiers contain a pair with equal masks,
a pair whose masks differ only in the special ids, a zero-byte id and a dead
end. `MaxText` is large enough for an exclusion to be created, moved, hit and
dropped in separate commits. `MaxOffset` is below `MaxText`, so that offsets overflow in
sessions that could go on. Two allocations beside the empty set are enough for
an address to be reused under a memo entry and for an intersection of two sets to
be memoised, but not for a union, whose result would need a third: that path is
covered by the theorem `MemoIsSound` only. `MaxInserts` bounds the counter, not
the number of operations. In `CompileDag` three workers are enough for every
pair of a join to run at once while a third task is late; fewer workers are
schedules of the same model. `CompileUnderived` adds coordinates in which the eager
map separates two ids that the families merge. In `BuildBudget` the requests lie one charge below
and above a limit of two. In `MaskCache` two slots and four states make every
store an eviction sooner or later, a ring of two forgets a live payload, and the
masks take all three encodings; five payload identities are never exhausted.
Symmetry is used over states and threads, never in a run with a liveness
property. Deadlock checking is off only in the four runs whose system ends:
a build, or all compiles, have returned.

Fairness. `InternSweep`: a thread that has entered a call keeps running until the
call returns (`WF_vars(Running(t))`), which is what a preemptive scheduler
provides; no lock is held across two of the modelled steps; nothing obliges a
thread to start a call. `CompileDag`: `WF_vars(Next)`, rayon keeps running tasks
while there are any, and every behaviour is finite. `BuildBudget`:
`WF_vars(Step(c))` for each compile: its threads are scheduled, and a worker that
is occupied by an inner compile makes the step of the outer one disabled, not
unfair. The session and the commit engine are driven by their caller and promise
nothing about time.

## 4. Proofs

`ConstraintStateProofs` proves, for any sets of states, threads, frontiers and
ids and any generation bound, from `ObjectsAssumption` and `EngineAssumption`:
`TypeCorrect`, `AcceptingNeedsCompletion` and `SessionsStaySealed` without
further conditions, and `MasksAreExact`, `CacheIsCoherent`,
`MasksPredictCommits` under `DwaHasSpecials` (a static artifact carries its
special-token edges itself, which is what finding 1 shows to be necessary).

The argument. Exactness of a returned mask is not inductive: a mask may come
from an entry another thread stored, or patch one that is generations old. The
invariant `IInv` adds that an entry's generation never exceeds its state's
(`GenerationOrder`, so that a commit turns every hit into a miss unless it moves
the entry), that an entry with a dense bitmap is the expansion of that bitmap
whatever its generation (`DenseCoherent`, which makes patching sound: lemma
`DeltaExact`), and, for every thread inside `fill_mask`, what its buffer is at
each program counter, including that a thread about to touch the cache finds the
entry it saw or a newer valid one (`TouchReady`: lemma `Restamp`).

`WeightInternerProofs` proves `InterningIsCanonical` and `MemoIsSound` for any
number of threads, allocations and ids, from `HeapAssumption` and
`CounterAssumption`. `IInv` adds that a live interned Arc is in its bucket
(`Tabled`), that a memo entry is true of the allocations at its addresses
(`MemoOK`), and that a thread inside an operation holds its operands and result
(`OpsOK`). One lemma, `EveryHeapStep`, says what any step may do to the heap
(nothing referenced is overwritten, nothing dead revives, sweeps remove only
dead entries, a new interned Arc has a value no live one had); the invariants
follow from it without looking at the actions again. Neither theorem needs the
sweep gate: overlapping sweeps are wasteful, not wrong.

`CompileDagProofs` proves, for any set of requests and any number of workers,
from `BuildAssumption`: `JoinsAreComplete`, `StagesSpawnOnce` and
`DagImplementsContract` (the safety part of the contract). The
invariant `IInv` (`DagInvariant`) says that slots, flags and errors are functions
of where the tasks are (`SlotsOK`, `SpawnsOK`, `ErrorsOK`; what a task has spawned
is open once it has unwound, as it may have unwound after spawning), that a launched stage
had its inputs (`InputsOK`), and, as the heart of it, that a stage whose inputs
are complete and which was not launched still has one of their publishers in
front of its launch test (`LaunchesOK`). At the join nobody is in front of
anything, so every stage was launched (lemma `JoinedAnswers`). That the build
does answer is left to TLC.

`InductionFacts` holds what the remaining proofs need of induction. The rules of
the library take the property as an operator, which the installed provers cannot
instantiate; stated with the *set* of the values that have the property, they can
be. From the well-foundedness of the naturals it derives such rules for naturals
and for finite sets, that a recursive function over an interval exists and
satisfies its equation, and how a sum over a finite set changes with one summand.

`MaskCacheProofs` proves `CacheHitExact`, `CacheIndexCoherent`, `CacheSharesValues` and
`CacheRepeatUpgrades` for any threads, states, hash functions, slots, ring size
and mask length, from `CacheAssumption` and `AllocatorAssumption` (there are more
payload identities than the entries and the ring can name, as with memory that
is not exhausted). `IInv` (`CacheInvariant`) says of every entry that its payload
decodes to the mask of the entry's state (`EntriesOK`), of every call between its
two critical sections what it holds (`CallsOK`), that index and slots are inverse
(`IndexOK`), that the ring is well formed (`ValuesOK`), and that its live values are
listed under the hash of their words and no two of them have the same words
(`RingOK`, from which `SharedOnce` follows: a payload enters the ring only after
`get` found no live equal one there, and eviction only takes values away). A payload is shared only
after its words were compared (lemma `DecodeEncode`: the three encodings lose
nothing), and a new one takes an identity that no entry owns and the ring does
not watch; that there is one follows from `Bounded` and the assumption.

`BuildBudgetProofs` proves `BudgetTyped`, `BudgetDeterministic`,
`BudgetCallerRestored` and `BudgetDeclineIsFinal` for any compiles, requests,
threads, parts and limit, from `BudgetAssumption`. `IInv` (`BudgetInvariant`)
ties the handles to the stacks of the threads (`FramesOK`, `HandlesOK`), the
outcome of each attempt to those before it (`StagesOK`), and a counter to the work
behind it (`AccountsOK`): until a charge is refused (`Within`) it is the sum of
what the jobs of the attempt spent; afterwards (`Exceeded`) the work of the
attempt is above the limit and some job is declined, or is a trie fallback that
has a charge still to make and will be. That a TokenTrie build charges at least
once, for the closure of its LR table, is part of the type of a request.

`CommitEngineProofs` proves, for every lexer, parser and vocabulary, `CommitTyped`
without conditions and `CommitSound`, `CommitExclusionsJustified`,
`CommitCompletionIsReal` from three hypotheses on the lexer, each a definition
at the end of `CommitEngine`: `NoReentry` (no lexer state leads back to the
start; finding 3 shows what happens otherwise), `OnePartition` (of the states one
byte leads to, at most one is about a given terminal, which is how partitions are
made) and `IgnoredRestart` (a byte that continues an ignored match begins an
ignored lexeme, and nothing else, at the start, as with whitespace; section 5
says what happens otherwise). The lexer of `CommitMixed` satisfies all three: TLC evaluates
`MixedIsCovered` in `MCMarkers`.

The argument. Soundness is not inductive, because a stack may be in the frontier
although its last lexeme still might grow, and later bytes decide. `SInv` says
what a stack with exclusions `E` means (`Held`): for *every* continuation of the
text that hits none of `E`, it is a parse of the text up to its cut. Taking a
match adds the exclusion that makes this true; consuming bytes moves the
exclusions and drops the stacks they hit, which keeps it true; at the end of the
text the empty continuation gives `FrontierSound`. Merging takes the union of
exclusions and so only weakens what is promised of a stack, which is why merging
is sound although it loses parses (finding 2). Each exclusion is `Justified` by a
lexeme open in the text, which gives `ExclusionsJustified`. The lemmas below
relate running the lexer over a text in pieces to running it at once, the cuts of
a text to those of its prefixes, and the queue entries of one commit to places
in the text; ignored matches, which carry no exclusion, are the hard case
(`InsideIgnored`).

The other direction needs no hypothesis on the lexer, only `MergesAgree`:
`CommitKeepsParses` and `CommitRecognisesComplete` state `Spec => ([]MergesAgree
=> ...)`. The temporal hypothesis is about the session, not the grammar: TLC
checks that the grammar of `CommitMixed`, whose identifiers do leave exclusions,
satisfies it in every reachable state, and the one of `CommitMerge` does not. The
invariant `KInv` says, for every continuation `v` of the text, where each parse
of the text with `v` has to be at this point of the drain. `Due` are the parses
whose last cut is before the entry at an offset and a lexer state, `Takes` the
matches that a parse of the whole text takes from there. An entry that is
`Waiting` still holds what is due to it; from one that was processed everything
was `Sent`: each match taken is at its later offset, and a lexeme still open at
the end of the bytes is among the residuals. `KeptAt` is what "holds" means: the
stack is there and `v` hits none of its exclusions. Advancing and pruning keep
this (an exclusion is only ever recorded about a longer match of the same
lexeme, so a parse that takes this match has a `v` that does not hit it), and a
merge keeps it because both sides have the same exclusions (lemma `AgreeKept`).
At the end of the bytes nothing waits, so everything was sent (`AllSent`).

`CommitKeepsAll` removes the temporal hypothesis for the lexers in which only
matches of ignored terminals can grow (`OnlyIgnoredGrows`, together with
`OnePartition`): no exclusion is ever recorded (`NoExclusions` is inductive), so
merging agrees for every grammar. With the hypotheses of `CommitSound`,
`frontier_complete()` is then exact (`CommitCompletionIsExact`).

`MarkersProofs` carries this over to the engine with its observer (`MarkedTyped`,
`MarkedSound`, `MarkedKeepsParses`: every marked step is a step of the engine,
except the commit that overflows) and adds `MarkersRejectedIsSilent` and `MarkersGivenOnce`, which hold
for every lexer and grammar, and `MarkersBatchSound` under the hypotheses above.
`MarkersGivenOnce` needs to know that `lastPositions` is the last offset at which
a marker was given and that nothing given lies behind the current offset
(`OnceInv`); `MarkersBatchSound` needs that what was observed in the middle of a
commit is passed by a parse of the whole text so far (`PassedInv`), which follows
from `SInv` for the entry the observer saw. `MarkersBatchComplete` is the
converse, under `[]MergesAgree`: of every entry that is no longer waiting, each
match that a parse takes was observed (`NotedInv`, along `KInv`), and `finish`
drops an observation only if the same event was given before, because
`lastPositions` never names an event that was not given (`LastInv`).
`MarkersMissNone` holds for every grammar where only ignored matches can grow.

Only model-checked: `MergesAgree` where other than ignored matches can grow, as
it depends on the grammar (finding 2) and on the texts; `GateReopens`,
`EveryCompileAnswers` and the liveness half of `ImplementsContract`, because
liveness under fairness is out of the prover's reach, as is ENABLED; and the
violation runs. What recursive definitions compute is proved only as far as
`InductionFacts` carries (the lexer along a text, cuts, sums); no module with a
theorem declares a RECURSIVE operator.

## 5. Findings

1. Static template-parser constraints without controls: the mask is cached
   before the special ids are added and not stored again, so a second mask of
   the same state lacks them (`SessionDataOnly`).
2. Merging two derivations takes the union of their exclusions, so a valid parse
   is lost with its neighbour, depending on how the text is cut: every commit
   returns `Ok`, and `is_accepting()` is false on a complete text
   (`CommitMerge`). In the queue it is the only way to
   lose one (`CommitKeepsParses`).
3. Completion is read off the lexer start state, which a minimal automaton may
   re-enter inside a lexeme (`CommitReentrant`).
4. Auto's fallback for one part of a composition runs in the scope that part has
   exhausted, and grammar preparation charges it, so the fallback is declined
   too (`BudgetPartFallback`).
5. If the derivation for a single-use terminal declines after the gate selected
   it, the possible matches are computed eagerly after the parser stage has built
   the common id map from the families' coordinates and the deferred ones, and are
   remapped into that map, which need not refine them as
   `remap_into_existing_common` asks; nothing checks it in a release build
   (`CompileUnderived`). The coordinates of the run are an assumption about data
   the model does not compute: the code says that families' equivalence is unsound for
   possible matches in general, and nothing in it excludes them.

Observed while modelling, without a run of their own:

- `docs/design/dynamic-lr-runtime.md` says an unknown id errors without mutating
  the state; `commit_token_raw_inner` rejects the state, which is what
  `ConstraintState.CommitToken` does.
- An ignored terminal is not held to its longest match across commits: its match
  is queued without `apply_future_terminal_disallow`. With the ignored
  `COM = /#a*/`, `A = "a"` and `start: A`, committing `#` and then `a` leaves a
  complete match (a comment and an `A`), although `#a` is one comment. This is
  the hypothesis `IgnoredRestart` of the commit proofs; the ignored terminal of
  `CommitMixed` satisfies it.
- `choose_direct_linear_step` takes an ignored terminal at its shortest match and
  keeps no residual of it; the queue takes the longest and keeps one.
- `interner_clear_stale` opens the gate of a sweep it did not start, so sweeps
  may overlap, against the comment on `claim_interner_cleanup`; the proofs show
  that this is only wasteful.
- A pool worker that waits in `install` may run another compile inside the first;
  the inner one shares the outer counter, against "no concurrent compile can
  reset or share it" in `build_budget.rs`. `DeclinedIffOverrun` and
  `DeclineIsFinal` except compiles whose callers are workers of one pool
  (`Alone`); that such compiles answer and leave the handle in place is checked, the
  shared counter itself is caught by no property.
- Work on a thread without a handle is not counted: the import thread for large
  sources on Windows, and rayon's global pool when the scope's own pool cannot be
  built. `DeclinedIffOverrun` bounds such builds from one side only.

## 6. Plan

Done: the session, the general commit queue with markers, the token-set
interner, the task graph of a build, the build budget, the result cache of the
dynamic walk, and the proofs of their safety properties.
Next, in this order:

1. The kernels in front of the queue, each as a refinement of it; product lexer
   states (`expand_runtime_product_states`,
   `coalesce_uniform_runtime_source_states`) and the admission cache.
2. A composition of `ConstraintState` and `CommitEngine`, in which `Step` is the
   engine, and of `ConstraintState` and `MaskCache`, in which the walk is cached
   twice.
3. Forcing on top of the session.
4. Pure algorithms against references: the parser-DWA walk, the dynamic trie
   walk, the levelled GSS operations, the range-set intersection.

How much of the code this is. `PROJECT.json` maps about 4 000 source lines, out
of some 520 000 lines of Rust under `src/` and `crates/` (in-file unit tests
included). The modelled part is the runtime's authority on masks, commits and
sessions and the state that threads share: caches, interner, joins and budgets.
The bulk of the remainder is compile-time construction and specialised kernels,
and nothing here speaks for it.

## 7. Not modelled

LR table construction, lexer construction, the weighted-automata stages, front
ends, serialisation and bindings: sequential transformations of immutable data,
with no state that outlives a call. What one of them computes is a function of
its input, and a TLA+ model of it would be a transliteration; differential tests,
which the repository has, serve them better. The mask walks, the levelled GSS and
the specialised commit kernels are algorithms too, but with a reference inside
this project (`CommitEngine`), and stay on the plan.
