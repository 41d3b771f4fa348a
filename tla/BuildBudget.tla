---------------------------- MODULE BuildBudget ----------------------------
(***************************************************************************)
(* The work budget of a template build (crates/glrmask-invariant,          *)
(* src/compiler/build_budget.rs) and the compiles that spend it            *)
(* (Module::compile_with and Grammar::finish_template_attempt).            *)
(*                                                                         *)
(* A compile makes up to two template attempts, the ordinary one and the   *)
(* opt-in terminal-ended rescue, and each enters a BuildBudgetScope: a     *)
(* fresh counter, a dedicated pool whose workers hold its handle, and the  *)
(* same handle on the calling thread until the scope is dropped.  A caller *)
(* that already holds a handle shares it and runs inline.  The parts of a  *)
(* composition are prepared in parallel, each charging the counter through *)
(* the handle of whatever thread it runs on; the charge that finds the     *)
(* total above the limit unwinds.  Auto then falls back to TokenTrie, part *)
(* by part when the composition retains static work, as a whole otherwise. *)
(*                                                                         *)
(* Work is counted in unit charges; what a part builds is left out.        *)
(***************************************************************************)
EXTENDS Integers, Sequences, FiniteSets, FiniteSetsExt, Functions

CONSTANTS
  Compiles,     \* the compiles that callers request
  Requests,     \* what a compile may be asked for
  Hosts,        \* the threads that call compile
  PoolHosts,    \* those that are workers of a rayon pool of the application
  Hostings,     \* which thread calls which compile
  Parts,        \* the modules of a composition that must be built
  Limit,        \* resolved_limit()
  PoolMayFail   \* ThreadPoolBuilder::build may fail

None == "none"

\* A thread that does no budgeted work.
NoHandle == << >>

Kinds == {"attempt", "rescue"}

Handles == Compiles \X Kinds

\* The one job of a rescue: the flattened source grammar.
Whole == "whole"

Jobs(kind) == IF kind = "rescue" THEN {Whole} ELSE Parts

AllJobs == Parts \union {Whole}

(****************************************************************************)
(* A request: Auto or an explicit strategy; whether a part of the           *)
(* composition keeps precompiled static work; the two rescue experiments;   *)
(* whether the source is imported on a thread of its own (Windows, a source *)
(* of 64 KiB or more); the charges each job makes as a template build and   *)
(* as a TokenTrie build, at least one for the closure of its LR table; the  *)
(* jobs the template strategy does not support, and those whose source does *)
(* not compile at all.                                                      *)
(****************************************************************************)
RequestType ==
  [auto : BOOLEAN, retained : BOOLEAN, rescue : BOOLEAN, first : BOOLEAN,
   large : BOOLEAN, template : [AllJobs -> Nat], trie : [AllJobs -> Nat \ {0}],
   unsupported : SUBSET AllJobs, broken : SUBSET AllJobs]

ASSUME BudgetAssumption ==
  /\ IsFiniteSet(Parts) /\ Whole \notin Parts
  /\ PoolHosts \subseteq Hosts
  /\ Hostings \subseteq [Compiles -> Hosts]
  /\ Requests \subseteq RequestType
  /\ Limit \in Nat
  /\ PoolMayFail \in BOOLEAN

VARIABLES
  host,      \* host[c]: the thread that calls compile c
  request,   \* request[c]: what compile c was asked for
  pc,        \* pc[c]: where compile c is
  kind,      \* kind[c]: the attempt it is making
  scope,     \* scope[c]: its BuildBudgetScope
  jobs,      \* jobs[c][j]: engine, charges made and state of a job
  handle,    \* handle[h]: TEMPLATE_BUILD_BUDGET_HANDLE of a calling thread
  frames,    \* frames[h]: the compiles on the stack of a calling thread
  units,     \* units[s]: TemplateBuildBudget::units of scope s
  ended,     \* ended[s]: how scope s ended, and whether its pool ran it
  answer     \* answer[c]: what the caller was given

vars == <<host, request, pc, kind, scope, jobs, handle, frames, units, ended, answer>>

Fresh(engine) == [engine |-> engine, made |-> 0, state |-> "ready"]

Init ==
  /\ host \in Hostings
  /\ request \in [Compiles -> Requests]
  /\ pc = [c \in Compiles |-> "idle"]
  /\ kind = [c \in Compiles |-> "attempt"]
  /\ scope = [c \in Compiles |-> [owns |-> FALSE, pool |-> FALSE]]
  /\ jobs = [c \in Compiles |-> [j \in AllJobs |-> Fresh("template")]]
  /\ handle = [h \in Hosts |-> NoHandle]
  /\ frames = [h \in Hosts |-> << >>]
  /\ units = [s \in Handles |-> 0]
  /\ ended = [s \in Handles |-> [how |-> None, pooled |-> FALSE]]
  /\ answer = [c \in Compiles |-> None]

OnTop(c) == frames[host[c]] # << >> /\ Head(frames[host[c]]) = c

(***************************************************************************)
(* A thread that waits in ThreadPool::install, or in a parallel iterator,  *)
(* runs other jobs of the rayon pool it belongs to; a plain thread blocks. *)
(***************************************************************************)
FreeToRun(h) ==
  IF frames[h] = << >> THEN TRUE ELSE h \in PoolHosts /\ pc[Head(frames[h])] = "running"

(***************************************************************************)
(* The rescue goes first only when both experiments are on.                *)
(***************************************************************************)
Begin(c) ==
  /\ pc[c] = "idle"
  /\ FreeToRun(host[c])
  /\ frames' = [frames EXCEPT ![host[c]] = <<c>> \o @]
  /\ kind' = [kind EXCEPT ![c] = IF request[c].rescue /\ request[c].first
                                  THEN "rescue" ELSE "attempt"]
  /\ pc' = [pc EXCEPT ![c] = "enter"]
  /\ UNCHANGED <<host, request, scope, jobs, handle, units, ended, answer>>

(****************************************************************************)
(* BuildBudgetScope::enter and the start of install.  A caller that holds a *)
(* handle makes a nested scope; otherwise the scope owns a new counter, its *)
(* pool (unless the pool cannot be built) and the caller's handle.          *)
(****************************************************************************)
EnterWithLimit(c) ==
  LET h == host[c]
      nested == handle[h] # NoHandle
  IN /\ pc[c] = "enter" /\ OnTop(c)
     /\ \E built \in BOOLEAN :
          /\ built \/ nested \/ PoolMayFail
          /\ nested => ~built
          /\ scope' = [scope EXCEPT ![c] = [owns |-> ~nested, pool |-> built]]
     /\ handle' = IF nested THEN handle ELSE [handle EXCEPT ![h] = <<c, kind[c]>>]
     /\ jobs' = [jobs EXCEPT ![c] = [j \in AllJobs |-> Fresh("template")]]
     /\ pc' = [pc EXCEPT ![c] = "running"]
     /\ UNCHANGED <<host, request, kind, frames, units, ended, answer>>

(****************************************************************************)
(* The handles of the threads a job of c may run on: the workers of the     *)
(* scope's pool; the import thread and the shared compile pool, which hold  *)
(* none; with no pool of its own, the workers of the application's pool or, *)
(* from a plain thread, the caller and rayon's global workers.              *)
(****************************************************************************)
WorkerHandles(c) ==
  CASE request[c].large -> {NoHandle}
    [] scope[c].pool /\ ~request[c].large -> {<<c, kind[c]>>}
    [] ~scope[c].pool /\ ~request[c].large ->
         IF host[c] \in PoolHosts
           THEN {handle[h] : h \in PoolHosts}
           ELSE {handle[host[c]], NoHandle}

Demand(c, j) ==
  IF jobs[c][j].engine = "template" THEN request[c].template[j] ELSE request[c].trie[j]

(***************************************************************************)
(* The per-part fallback: Auto, with retained work, prepares a declined    *)
(* part again as TokenTrie, on the same thread and in the same scope.      *)
(***************************************************************************)
FallsBackByPart(c, k) == request[c].auto /\ request[c].retained /\ k = "attempt"

Declined(c, j) ==
  IF FallsBackByPart(c, kind[c]) /\ jobs[c][j].engine = "template"
    THEN Fresh("trie")
    ELSE [jobs[c][j] EXCEPT !.state = "declined"]

(***************************************************************************)
(* TemplateBuildBudget::charge: add, then compare the total the addition   *)
(* produced with the limit.                                                *)
(***************************************************************************)
\* Faulty variant of Exhausts: a build may not spend its last unit.
ExhaustsAtLimit(total) == total >= Limit

Exhausts(total) == total > Limit

Charge(c, j) ==
  /\ pc[c] = "running"
  /\ j \in Jobs(kind[c])
  /\ jobs[c][j].state = "ready"
  /\ jobs[c][j].made < Demand(c, j)
  /\ \E s \in WorkerHandles(c) :
       LET charged == [jobs[c][j] EXCEPT !.made = @ + 1]
           total == IF s = NoHandle THEN 0 ELSE units[s] + 1
       IN /\ units' = IF s = NoHandle THEN units ELSE [units EXCEPT ![s] = total]
          /\ jobs' = [jobs EXCEPT ![c][j] =
                        IF s # NoHandle /\ Exhausts(total) THEN Declined(c, j) ELSE charged]
  /\ UNCHANGED <<host, request, pc, kind, scope, handle, frames, ended, answer>>

FinishJob(c, j) ==
  /\ pc[c] = "running"
  /\ j \in Jobs(kind[c])
  /\ jobs[c][j].state = "ready"
  /\ jobs[c][j].made = Demand(c, j)
  /\ jobs' = [jobs EXCEPT ![c][j] =
                IF j \in request[c].broken THEN [@ EXCEPT !.state = "error"]
                ELSE IF j \in request[c].unsupported /\ @.engine = "template" THEN Declined(c, j)
                ELSE [@ EXCEPT !.state = "ok"]]
  /\ UNCHANGED <<host, request, pc, kind, scope, handle, frames, units, ended, answer>>

(***************************************************************************)
(* A parallel collect skips the jobs it has not begun once one has failed. *)
(***************************************************************************)
Failures(c) == {jobs[c][j].state : j \in Jobs(kind[c])} \ {"ready", "ok"}

\* Faulty variant of Settled: only parts that succeed are counted.
SettledWhenAllSucceed(c) == \A j \in Jobs(kind[c]) : jobs[c][j].state = "ok"

Settled(c) ==
  \A j \in Jobs(kind[c]) :
    \/ jobs[c][j].state # "ready"
    \/ Failures(c) # {} /\ jobs[c][j] = Fresh("template")

(***************************************************************************)
(* What install returns: with several failures, whichever is met first.    *)
(***************************************************************************)
Outcomes(c) == IF Failures(c) = {} THEN {"ok"} ELSE Failures(c)

(***************************************************************************)
(* Drop for BuildBudgetScope.                                              *)
(***************************************************************************)
\* Faulty variant of HandleAfterDrop: the caller keeps the handle.
HandleKept(c) == handle

\* Faulty variant of HandleAfterDrop: the caller is left with the scope's slot.
HandleOfNobody(c) == IF scope[c].owns THEN [handle EXCEPT ![host[c]] = <<c>>] ELSE handle

HandleAfterDrop(c) ==
  IF scope[c].owns THEN [handle EXCEPT ![host[c]] = NoHandle] ELSE handle

(****************************************************************************)
(* What follows: a constraint is returned, and so is an error that is not a *)
(* decline, except that a rescue may fail in any way.  After a declined     *)
(* attempt comes the rescue, if it is enabled and has not been tried; after *)
(* a failed rescue that went first, the attempt; otherwise the TokenTrie    *)
(* fallback of the whole composition, for Auto with nothing retained, or    *)
(* the decline.                                                             *)
(****************************************************************************)
\* Faulty variant of After: the terminal-ended rescue is forgotten.
AfterNoRescue(c, how) ==
  [kind |-> kind[c],
   pc |-> IF how = "ok" THEN "built"
          ELSE IF how = "error" THEN "error"
          ELSE IF request[c].auto /\ ~request[c].retained THEN "fallback" ELSE "declined"]

After(c, how) ==
  LET r == request[c]
      next(where, k) == [pc |-> where, kind |-> k]
  IN IF how = "ok" THEN next("built", kind[c])
     ELSE IF kind[c] = "rescue" /\ r.first THEN next("enter", "attempt")
     ELSE IF kind[c] = "attempt" /\ how = "error" THEN next("error", kind[c])
     ELSE IF kind[c] = "attempt" /\ r.rescue /\ ~r.first THEN next("enter", "rescue")
     ELSE IF r.auto /\ ~r.retained THEN next("fallback", kind[c])
     ELSE next("declined", kind[c])

(****************************************************************************)
(* The attempt returns on the calling thread, once it is back on top of the *)
(* thread's stack: catch_template_attempt turns the unwind into a decline   *)
(* and the scope is dropped before anything else is tried.                  *)
(****************************************************************************)
Leave(c) ==
  /\ pc[c] = "running" /\ OnTop(c) /\ Settled(c)
  /\ \E how \in Outcomes(c) :
       /\ ended' = [ended EXCEPT ![<<c, kind[c]>>] =
                      [how |-> how, pooled |-> scope[c].pool /\ ~request[c].large]]
       /\ pc' = [pc EXCEPT ![c] = After(c, how).pc]
       /\ kind' = [kind EXCEPT ![c] = After(c, how).kind]
  /\ handle' = HandleAfterDrop(c)
  /\ scope' = [scope EXCEPT ![c] = [owns |-> FALSE, pool |-> FALSE]]
  /\ jobs' = [jobs EXCEPT ![c] = [j \in AllJobs |-> Fresh("template")]]
  /\ UNCHANGED <<host, request, frames, units, answer>>

(***************************************************************************)
(* compile_requested_token_trie for the whole composition.  It charges as  *)
(* any grammar preparation does, to the handle the caller still holds, and *)
(* returns its own error when the flattened source does not compile.       *)
(* Flattening itself only repeats bindings that were accepted when made.   *)
(***************************************************************************)
TokenTrieFallback(c) ==
  LET s == handle[host[c]]
      work == request[c].trie[Whole]
      total == IF s = NoHandle THEN 0 ELSE units[s] + work
  IN /\ pc[c] = "fallback" /\ OnTop(c)
     /\ units' = IF s = NoHandle THEN units ELSE [units EXCEPT ![s] = total]
     /\ pc' = [pc EXCEPT ![c] = IF s # NoHandle /\ work > 0 /\ Exhausts(total) THEN "declined"
                                ELSE IF Whole \in request[c].broken THEN "error" ELSE "built"]
     /\ UNCHANGED <<host, request, kind, scope, jobs, handle, frames, ended, answer>>

Return(c) ==
  /\ pc[c] \in {"built", "declined", "error"} /\ OnTop(c)
  /\ answer' = [answer EXCEPT ![c] = pc[c]]
  /\ frames' = [frames EXCEPT ![host[c]] = Tail(@)]
  /\ pc' = [pc EXCEPT ![c] = "returned"]
  /\ UNCHANGED <<host, request, kind, scope, jobs, handle, units, ended>>

Step(c) ==
  \/ Begin(c)
  \/ EnterWithLimit(c)
  \/ \E j \in AllJobs : Charge(c, j)
  \/ \E j \in AllJobs : FinishJob(c, j)
  \/ Leave(c)
  \/ TokenTrieFallback(c)
  \/ Return(c)

Next == \E c \in Compiles : Step(c)

Spec == Init /\ [][Next]_vars

FairSpec == Spec /\ \A c \in Compiles : WF_vars(Step(c))

-----------------------------------------------------------------------------

TypeOK ==
  /\ host \in Hostings
  /\ request \in [Compiles -> Requests]
  /\ pc \in [Compiles -> {"idle", "enter", "running", "fallback",
                          "built", "declined", "error", "returned"}]
  /\ kind \in [Compiles -> Kinds]
  /\ scope \in [Compiles -> [owns : BOOLEAN, pool : BOOLEAN]]
  /\ jobs \in [Compiles -> [AllJobs -> [engine : {"template", "trie"}, made : Nat,
                                        state : {"ready", "ok", "declined", "error"}]]]
  /\ handle \in [Hosts -> Handles \union {NoHandle}]
  /\ frames \in [Hosts -> Seq(Compiles)]
  /\ units \in [Handles -> Nat]
  /\ ended \in [Handles -> [how : {None, "ok", "declined", "error"}, pooled : BOOLEAN]]
  /\ answer \in [Compiles -> {None, "built", "declined", "error"}]

(***************************************************************************)
(* The charges of scope s while nothing is exhausted: its template builds, *)
(* and the TokenTrie builds of the parts the strategy does not support.    *)
(***************************************************************************)
Unsupported(s) == request[s[1]].unsupported \intersect Jobs(s[2])

Cost(s) ==
  SumFunctionOnSet(request[s[1]].template, Jobs(s[2]))
    + IF FallsBackByPart(s[1], s[2])
        THEN SumFunctionOnSet(request[s[1]].trie, Unsupported(s)) ELSE 0

(***************************************************************************)
(* A compile whose caller is a plain thread, or the only worker of the     *)
(* application's pool that compiles: nothing else runs on its stack.       *)
(***************************************************************************)
Alone(c) == \A d \in Compiles \ {c} : ~({host[c], host[d]} \subseteq PoolHosts)

(***************************************************************************)
(* The budget of build_budget.rs is deterministic: an attempt that its own *)
(* pool ran is declined exactly when its own work exceeds the limit or its *)
(* strategy does not apply, however its parts interleave, whatever other   *)
(* compiles charge meanwhile and whatever was declined before it; an       *)
(* attempt that lost its pool is never declined for less than that.  Two   *)
(* compiles that workers of one application pool start are excepted: rayon *)
(* may run one inside the other, which then shares its counter.            *)
(***************************************************************************)
DeclinedIffOverrun ==
  \A s \in {s \in Handles : Alone(s[1])} :
    /\ ended[s].how = "declined" =>
         \/ Cost(s) > Limit
         \/ Unsupported(s) # {} /\ ~FallsBackByPart(s[1], s[2])
    /\ ended[s].how = "ok" /\ ended[s].pooled => Cost(s) <= Limit

(****************************************************************************)
(* Drop returns the calling thread to unbudgeted work: it holds a handle    *)
(* only while the scope that installed it is running below on its stack, so *)
(* the rescue starts a counter of its own and the TokenTrie fallback of a   *)
(* top-level compile is charged to nobody.                                  *)
(****************************************************************************)
CallerRestored ==
  \A h \in Hosts :
    handle[h] # NoHandle =>
      \E i \in DOMAIN frames[h] :
        /\ frames[h][i] = handle[h][1]
        /\ pc[frames[h][i]] = "running"
        /\ scope[frames[h][i]].owns

(****************************************************************************)
(* An explicit strategy is never silently replaced, and Auto with nothing   *)
(* retained ends with what TokenTrie gives, a constraint or its error: a    *)
(* declined answer means that the last attempt was declined and no fallback *)
(* was open to the request.                                                 *)
(****************************************************************************)
DeclineIsFinal ==
  \A c \in {c \in Compiles : Alone(c)} :
    answer[c] = "declined" =>
      /\ request[c].auto => request[c].retained
      /\ ended[<<c, "attempt">>].how = "declined"
      /\ request[c].rescue => ended[<<c, "rescue">>].how \in {"declined", "error"}

(****************************************************************************)
(* Every compile that is requested is answered: neither a declined part nor *)
(* a caller that waits in install, with another compile on its stack, holds *)
(* one up forever.                                                          *)
(****************************************************************************)
EveryCompileAnswers == \A c \in Compiles : <>(answer[c] # None)

(****************************************************************************)
(* "Auto must fall back for the parent only" (budget_fallback_tests.rs) and *)
(* "TokenTrie itself is never charged" (build_budget.rs): a request for     *)
(* Auto is not declined while TokenTrie can build every part.               *)
(****************************************************************************)
AutoFallsBack == \A c \in Compiles : request[c].auto => answer[c] # "declined"

-----------------------------------------------------------------------------
(* The inductive invariant of the proofs (BuildBudgetProofs) *)

Active(c) == pc[c] \notin {"idle", "returned"}

(***************************************************************************)
(* Every compile in progress is on the stack of its thread, and only a     *)
(* worker of the application's pool has several.                           *)
(***************************************************************************)
FramesOK ==
  /\ \A c \in Compiles : Active(c) => \E i \in DOMAIN frames[host[c]] : frames[host[c]][i] = c
  /\ \A c, d \in Compiles :
       Active(c) /\ Active(d) /\ c # d /\ host[c] = host[d] => host[c] \in PoolHosts

\* A thread's handle is that of the one running scope that owns it.
HandlesOK ==
  /\ \A h \in Hosts : handle[h] # NoHandle =>
       \E c \in Compiles : handle[h] = <<c, kind[c]>> /\ scope[c].owns /\ host[c] = h
  /\ \A c \in Compiles : scope[c].owns => pc[c] = "running" /\ handle[host[c]] = <<c, kind[c]>>
  /\ \A c \in Compiles : scope[c].pool => scope[c].owns

\* Which attempts have ended, and how, where a compile is.
StageOK(c) ==
  LET r == request[c]
      attempt == ended[<<c, "attempt">>].how
      rescue == ended[<<c, "rescue">>].how
  IN /\ pc[c] = "idle" => attempt = None /\ rescue = None /\ answer[c] = None
     /\ pc[c] \in {"enter", "running"} /\ kind[c] = "attempt" =>
          /\ attempt = None
          /\ IF r.rescue /\ r.first THEN rescue \in {"declined", "error"} ELSE rescue = None
     /\ pc[c] \in {"enter", "running"} /\ kind[c] = "rescue" =>
          /\ r.rescue /\ rescue = None
          /\ attempt = IF r.first THEN None ELSE "declined"
     /\ pc[c] = "fallback" => r.auto /\ ~r.retained
     /\ Alone(c) /\ "declined" \in {pc[c], answer[c]} =>
          /\ r.auto => r.retained
          /\ attempt = "declined"
          /\ r.rescue => rescue \in {"declined", "error"}

StagesOK == \A c \in Compiles : StageOK(c)

(***************************************************************************)
(* The charges a job has made if it was not declined for its budget, and   *)
(* all those it makes then.                                                *)
(***************************************************************************)
Spent(c) ==
  [j \in AllJobs |-> jobs[c][j].made
                       + IF jobs[c][j].engine = "trie" THEN request[c].template[j] ELSE 0]

Owed(s) ==
  [j \in AllJobs |-> request[s[1]].template[j]
                       + IF FallsBackByPart(s[1], s[2]) /\ j \in Unsupported(s)
                           THEN request[s[1]].trie[j] ELSE 0]

Pooled(c) == scope[c].pool /\ ~request[c].large

JobWithin(c, j) ==
  LET job == jobs[c][j]
      byPart == FallsBackByPart(c, kind[c])
  IN /\ job.made <= Demand(c, j)
     /\ job.engine = "trie" => j \in request[c].unsupported /\ byPart
     /\ job.state = "declined" => j \in request[c].unsupported /\ ~byPart
     /\ job.state = "ok" =>
          /\ job.made = Demand(c, j)
          /\ j \in request[c].unsupported => job.engine = "trie"

\* No charge of the attempt was refused yet: its counter is what its jobs spent.
Within(c) ==
  LET spent == SumFunctionOnSet(Spent(c), Jobs(kind[c]))
  IN /\ units[<<c, kind[c]>>] <= Limit
     /\ units[<<c, kind[c]>>] <= spent
     /\ Pooled(c) => units[<<c, kind[c]>>] = spent
     /\ \A j \in Jobs(kind[c]) : JobWithin(c, j)

\* A charge was refused: the attempt costs too much, and cannot succeed in its pool.
Exceeded(c) ==
  /\ Cost(<<c, kind[c]>>) > Limit
  /\ Pooled(c) =>
       /\ units[<<c, kind[c]>>] > Limit
       /\ \E j \in Jobs(kind[c]) :
            \/ jobs[c][j].state = "declined"
            \/ /\ jobs[c][j].engine = "trie" /\ jobs[c][j].state = "ready"
               /\ jobs[c][j].made < request[c].trie[j]

AccountsOK ==
  \A c \in Compiles : Alone(c) =>
    /\ pc[c] = "running" => Within(c) \/ Exceeded(c)
    /\ \A k \in Kinds :
         ended[<<c, k>>].how = None /\ ~(pc[c] = "running" /\ kind[c] = k) => units[<<c, k>>] = 0

IInv ==
  /\ TypeOK /\ FramesOK /\ HandlesOK /\ StagesOK
  /\ AccountsOK /\ DeclinedIffOverrun

=============================================================================
