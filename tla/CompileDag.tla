----------------------------- MODULE CompileDag -----------------------------
(***************************************************************************)
(* One static build: the task graph that                                   *)
(* compile_prepared_with_profile_and_table_construction (src/compiler/     *)
(* pipeline.rs) runs in a rayon scope. There is no graph object: each task *)
(* stores its result in a slot behind a mutex and then calls               *)
(* launch_*_dag_if_ready, which spawns the next stage if this result was   *)
(* the last one missing. The stages themselves are opaque; what is         *)
(* modelled is every slot, every spawn, every early return, the unwinding  *)
(* of a task, and what the caller does when the scope has joined.          *)
(*                                                                         *)
(* With GLRMASK_DISABLE_MACRO_PARALLELISM a spawn runs its task in place,  *)
(* which is one of the schedules below.                                    *)
(***************************************************************************)
EXTENDS Naturals, FiniteSets

CONSTANTS
    Requests,      \* the builds asked for, see Request
    Workers,       \* threads of the compile pool
    MayPanic,      \* a stage may unwind (an exhausted build budget does)
    Ids,           \* original ids of the internal id maps
    Classes,       \* internal ids
    Coordinates    \* the id map of each possible-matches computation

Tasks == {"tokenizer", "runtime", "cpm", "flat", "analysis", "glr", "coloring",
          "templates", "classify", "terminal", "parser"}

(* The switches and facts of a build that its control flow depends on.      *)
(*   eagerFlag    GLRMASK_EAGER_POSSIBLE_MATCHES                            *)
(*   singleUse    derive_single_use_terminal_possible_matches               *)
(*   derivable    complete_single_use_terminal_possible_matches_from_l1     *)
(*                returns Some                                              *)
(*   deferred     the tokenizer lane leaves a deferred runtime tokenizer    *)
(*   earlyCache   GLRMASK_EARLY_TOKEN_CACHE_PREBUILD                        *)
(*   parserOnly   DwaPossibleMatchesMode::ParserReconcile, the default      *)
Request == [normalForm : BOOLEAN, terminalEnded : BOOLEAN, certified : BOOLEAN,
            templatesBuild : BOOLEAN, eagerFlag : BOOLEAN, singleUse : BOOLEAN,
            derivable : BOOLEAN, deferred : BOOLEAN, earlyCache : BOOLEAN,
            parserOnly : BOOLEAN, useColoring : BOOLEAN]

IdMap == [Ids -> Classes]

ASSUME BuildAssumption ==
    /\ Requests \subseteq Request
    /\ Workers \in Nat \ {0}
    /\ MayPanic \in BOOLEAN
    /\ Coordinates \in [{"family", "deferred", "eager"} -> IdMap]

VARIABLES
    request,   \* the arguments of the build
    pc,        \* [Tasks -> Steps]: where each task is
    slots,     \* the Option fields that are Some
    launched,  \* the launched flags that are set
    captured,  \* the id map the parser launch took along
    outcome    \* what the call returned

vars == <<request, pc, slots, launched, captured, outcome>>

Ended == {"done", "failed", "panicked"}
Steps == {"none", "queued", "build", "spawn", "publish", "classify", "terminal", "parser"} \cup Ended

TerminalSlots == {"tokenizer", "flat_global", "analysis", "classify", "coloring"}
ParserSlots == {"terminal", "templates", "id_map"}
ResultSlots == {"cpm", "runtime", "result"}
ErrorSlots == {"table_error", "template_error"}
Slots == TerminalSlots \cup ParserSlots \cup ResultSlots \cup ErrorSlots

Outcomes == {"pending", "ok", "table_error", "template_error", "panicked", "missing", "outlived"}

TypeOK ==
    /\ request \in Requests
    /\ pc \in [Tasks -> Steps]
    /\ slots \subseteq Slots
    /\ launched \subseteq {"classify", "terminal", "parser"}
    /\ captured \in {"none", "deferred", "eager"}
    /\ outcome \in Outcomes

(* The scope closure spawns the tokenizer task and the analysis task.       *)
Init ==
    /\ request \in Requests
    /\ pc = [t \in Tasks |-> IF t \in {"tokenizer", "analysis"} THEN "queued" ELSE "none"]
    /\ slots = {} /\ launched = {} /\ captured = "none"
    /\ outcome = "pending"

----------------------------------------------------------------------------
(* Tasks *)

Running == {t \in Tasks : pc[t] \notin {"none", "queued"} \cup Ended}

(* macro_scope_spawn: t goes on to `step`, the tasks of `spawned` are queued. *)
Move(t, step, spawned) ==
    pc' = [u \in Tasks |-> IF u = t THEN step ELSE IF u \in spawned THEN "queued" ELSE pc[u]]

Eager == request.eagerFlag /\ ~request.singleUse

(* A free worker of the pool takes a queued task. *)
Start(t) ==
    /\ pc[t] = "queued" /\ Cardinality(Running) < Workers
    /\ Move(t, "build", {})
    /\ UNCHANGED <<request, slots, launched, captured, outcome>>

(* A stage unwinds while it builds; the flat lane and the analysis lane have *)
(* more to compute after they have spawned a task. Rayon keeps the payload  *)
(* and lets the other tasks, the ones t has spawned included, run on.       *)
Panic(t) ==
    /\ MayPanic
    /\ pc[t] = "build" \/ (t \in {"flat", "analysis"} /\ pc[t] = "publish")
    /\ Move(t, "panicked", {})
    /\ UNCHANGED <<request, slots, launched, captured, outcome>>

(* Tokenizer task: the runtime tokenizer is stored, or left to a task.      *)
TokenizerBuild ==
    /\ pc["tokenizer"] = "build"
    /\ Move("tokenizer", "spawn", IF request.deferred THEN {"runtime"} ELSE {})
    /\ slots' = IF request.deferred THEN slots ELSE slots \cup {"runtime"}
    /\ UNCHANGED <<request, launched, captured, outcome>>

TokenizerSpawn ==
    /\ pc["tokenizer"] = "spawn"
    /\ Move("tokenizer", "publish", {"flat"} \cup (IF Eager THEN {} ELSE {"cpm"}))
    /\ UNCHANGED <<request, slots, launched, captured, outcome>>

RuntimeBuild ==
    /\ pc["runtime"] = "build"
    /\ Move("runtime", "done", {})
    /\ slots' = slots \cup {"runtime"}
    /\ UNCHANGED <<request, launched, captured, outcome>>

(* Possible matches: the id map goes to the parser join first, if the early *)
(* token cache is enabled, and the result to its slot afterwards.           *)
CpmBuild ==
    /\ pc["cpm"] = "build"
    /\ Move("cpm", "publish", {})
    /\ slots' = IF request.earlyCache THEN slots \cup {"id_map"} ELSE slots
    /\ UNCHANGED <<request, launched, captured, outcome>>

CpmPublish ==
    /\ pc["cpm"] = "publish"
    /\ Move("cpm", "done", {})
    /\ slots' = slots \cup {"cpm"}
    /\ UNCHANGED <<request, launched, captured, outcome>>

(* Flat transition table, then (eagerly) possible matches beside the        *)
(* max-length state map, which is computed before FlatPublish.              *)
FlatBuild ==
    /\ pc["flat"] = "build"
    /\ Move("flat", "publish", IF Eager THEN {"cpm"} ELSE {})
    /\ UNCHANGED <<request, slots, launched, captured, outcome>>

(* Grammar analysis: a grammar outside the normal form ends the lane here.  *)
(* The follow sets are computed beside the table, before AnalysisPublish.   *)
AnalysisBuild ==
    /\ pc["analysis"] = "build"
    /\ IF request.normalForm
       THEN Move("analysis", "publish", {"glr"}) /\ slots' = slots
       ELSE Move("analysis", "failed", {}) /\ slots' = slots \cup {"table_error"}
    /\ UNCHANGED <<request, launched, captured, outcome>>

(* Faulty variant of GlrBuild: the certificate is not asked for.            *)
GlrBuildUncertified ==
    /\ pc["glr"] = "build"
    /\ Move("glr", "done", {"templates"} \cup (IF request.useColoring THEN {"coloring"} ELSE {}))
    /\ UNCHANGED <<request, slots, launched, captured, outcome>>

(* LR table, with the certificate and its one retry under TerminalEnded.    *)
GlrBuild ==
    /\ pc["glr"] = "build"
    /\ IF request.terminalEnded /\ ~request.certified
       THEN Move("glr", "failed", {}) /\ slots' = slots \cup {"table_error"}
       ELSE /\ Move("glr", "done",
                    {"templates"} \cup (IF request.useColoring THEN {"coloring"} ELSE {}))
            /\ slots' = slots
    /\ UNCHANGED <<request, launched, captured, outcome>>

TemplatesBuild ==
    /\ pc["templates"] = "build"
    /\ IF request.templatesBuild
       THEN Move("templates", "parser", {}) /\ slots' = slots \cup {"templates"}
       ELSE Move("templates", "failed", {}) /\ slots' = slots \cup {"template_error"}
    /\ UNCHANGED <<request, launched, captured, outcome>>

(* The stages that end by filling one slot: t stores s, then tries `step`.  *)
Publish(t, from, s, step) ==
    /\ pc[t] = from
    /\ Move(t, step, {})
    /\ slots' = slots \cup {s}
    /\ UNCHANGED <<request, launched, captured, outcome>>

(* Faulty variant of FlatPublish: it relies on a later task to launch.      *)
FlatPublishOnly == Publish("flat", "publish", "flat_global", "done")

TokenizerPublish == Publish("tokenizer", "publish", "tokenizer", "classify")
AnalysisPublish == Publish("analysis", "publish", "analysis", "classify")
FlatPublish == Publish("flat", "publish", "flat_global", "terminal")
ColoringBuild == Publish("coloring", "build", "coloring", "terminal")
ClassifyBuild == Publish("classify", "build", "classify", "terminal")
TerminalBuild == Publish("terminal", "build", "terminal", "parser")
ParserBuild == Publish("parser", "build", "result", "done")

----------------------------------------------------------------------------
(* Joins: one lock of the join state decides and takes the inputs. *)

(* Faulty variant of ClassifyReady: the flag is not consulted.              *)
ClassifyReadyAgain == {"tokenizer", "analysis"} \subseteq slots

ClassifyReady == "classify" \notin launched /\ {"tokenizer", "analysis"} \subseteq slots

(* launch_classify_dag_if_ready clones its inputs and leaves them. *)
LaunchClassifyDagIfReady(t) ==
    /\ pc[t] = "classify"
    /\ IF ClassifyReady
       THEN Move(t, "terminal", {"classify"}) /\ launched' = launched \cup {"classify"}
       ELSE Move(t, "terminal", {}) /\ UNCHANGED launched
    /\ UNCHANGED <<request, slots, captured, outcome>>

TerminalInputs == IF request.useColoring THEN TerminalSlots ELSE TerminalSlots \ {"coloring"}

TerminalReady == "terminal" \notin launched /\ TerminalInputs \subseteq slots

(* launch_terminal_dag_if_ready takes its inputs out of the join state. *)
LaunchTerminalDagIfReady(t) ==
    /\ pc[t] = "terminal"
    /\ IF TerminalReady
       THEN /\ Move(t, "done", {"terminal"})
            /\ launched' = launched \cup {"terminal"}
            /\ slots' = slots \ TerminalSlots
       ELSE Move(t, "done", {}) /\ UNCHANGED <<launched, slots>>
    /\ UNCHANGED <<request, captured, outcome>>

(* The map of the possible matches as the cpm task computed them. *)
PublishedMap == IF Eager THEN "eager" ELSE "deferred"

ParserReady == "parser" \notin launched /\ {"terminal", "templates"} \subseteq slots

(* launch_parser_dag_if_ready takes both results, and the id map if the cpm *)
(* task has already published it.                                           *)
LaunchParserDagIfReady(t) ==
    /\ pc[t] = "parser"
    /\ IF ParserReady
       THEN /\ Move(t, "done", {"parser"})
            /\ launched' = launched \cup {"parser"}
            /\ captured' = IF "id_map" \in slots THEN PublishedMap ELSE "none"
            /\ slots' = slots \ ParserSlots
       ELSE Move(t, "done", {}) /\ UNCHANGED <<launched, slots, captured>>
    /\ UNCHANGED <<request, outcome>>

----------------------------------------------------------------------------
(* After the scope *)

Joined == \A t \in Tasks : pc[t] \in {"none"} \cup Ended

(* Slots that still own an Arc of the tokenizer, the analysed grammar or    *)
(* the table when the caller unwraps those Arcs.                            *)
ArcSlots == {"tokenizer", "analysis", "terminal", "templates"}

(* The answer of a joined scope: a panic is raised again, then the error    *)
(* slots in order, then the expects on the result slots, then the unwraps.  *)
JoinedAnswer ==
    IF \E t \in Tasks : pc[t] = "panicked" THEN "panicked"
    ELSE IF "table_error" \in slots THEN "table_error"
    ELSE IF "template_error" \in slots THEN "template_error"
    ELSE IF ~(ResultSlots \subseteq slots) THEN "missing"
    ELSE IF slots \cap ArcSlots # {} THEN "outlived"
    ELSE "ok"

Return ==
    /\ outcome = "pending" /\ Joined
    /\ outcome' = JoinedAnswer
    /\ UNCHANGED <<request, pc, slots, launched, captured>>

(* The possible matches of the artifact: those of the cpm task, or, for a   *)
(* single-use terminal, derived from the terminal family or computed anew.  *)
FinalMap ==
    IF Eager THEN "eager"
    ELSE IF ~request.singleUse THEN "deferred"
    ELSE IF request.derivable THEN "family" ELSE "eager"

(* The parser task builds the common id map of the terminal families and    *)
(* the captured map; the caller remaps the parser automaton and the         *)
(* possible matches into it, else it reconciles the two afresh.             *)
UsesPrebuilt == request.parserOnly /\ request.earlyCache /\ captured # "none"
CommonMap == [i \in Ids |-> <<Coordinates["family"][i], Coordinates[captured][i]>>]

----------------------------------------------------------------------------

Step(t) ==
    \/ LaunchClassifyDagIfReady(t)
    \/ LaunchTerminalDagIfReady(t)
    \/ LaunchParserDagIfReady(t)

Next ==
    \/ \E t \in Tasks : Start(t) \/ Panic(t) \/ Step(t)
    \/ TokenizerBuild \/ TokenizerSpawn \/ TokenizerPublish
    \/ RuntimeBuild \/ CpmBuild \/ CpmPublish \/ FlatBuild \/ FlatPublish
    \/ AnalysisBuild \/ AnalysisPublish \/ GlrBuild \/ ColoringBuild \/ TemplatesBuild
    \/ ClassifyBuild \/ TerminalBuild \/ ParserBuild
    \/ Return

Spec == Init /\ [][Next]_vars

(* The pool keeps running tasks while there are any: no task waits for      *)
(* another, and no lock is held across two steps.                           *)
FairSpec == Spec /\ WF_vars(Next)

----------------------------------------------------------------------------
(* Properties *)

(* When the scope has joined without an error or a panic, every result slot *)
(* is filled and nothing else owns the Arcs the caller unwraps: no schedule *)
(* loses the last launch_*_dag_if_ready of a join, so the expects ("compile *)
(* DAG did not produce a result", "references outlived compile DAG") never  *)
(* fire (pipeline.rs, after the scope).                                     *)
JoinComplete == outcome \notin {"missing", "outlived"}

(* A stage is spawned at most once, whichever of its inputs comes last and  *)
(* however many tasks call its launch function (the launched flags).        *)
SpawnedOnce ==
    [][\A t \in Tasks : pc[t] \notin {"none", "queued"} => pc'[t] # "queued"]_vars

(* a is constant on the classes of b. *)
Refines(b, a) == \A i, j \in Ids : b[i] = b[j] => a[i] = a[j]

(* Whenever the caller remaps into the prebuilt common map, that map refines *)
(* the coordinates of the parser automaton and of the possible matches that *)
(* ended up in the artifact, also when they are not the ones the cpm task   *)
(* published (remap_into_existing_common: "The supplied map must refine     *)
(* this artifact's current coordinates"). A single-use terminal whose       *)
(* matches cannot be derived breaks it: they are computed anew after the    *)
(* common map was built from the deferred ones.                             *)
RemapRefines ==
    outcome = "ok" /\ UsesPrebuilt =>
        /\ Refines(CommonMap, Coordinates["family"])
        /\ Refines(CommonMap, Coordinates[FinalMap])

(* The build answers its caller once, with what the request alone decides,  *)
(* and does answer, with any number of workers.                             *)
Contract == INSTANCE CompileContract WITH answer <- outcome
ImplementsContract == Contract!ContractSpec
----------------------------------------------------------------------------
(* The inductive invariant behind JoinComplete and the contract *)

(* The steps of a lane after its slot was filled. *)
LanePublished == {"classify", "terminal", "done"}
StagePublished == {"terminal", "done"}
ResultPublished == {"parser", "done"}

(* The steps each task can be at. *)
AnyTask == {"none", "queued", "build", "panicked"}
StepsOK ==
    /\ pc["tokenizer"] \in AnyTask \cup {"spawn", "publish"} \cup LanePublished
    /\ pc["analysis"] \in AnyTask \cup {"publish", "failed"} \cup LanePublished
    /\ pc["flat"] \in AnyTask \cup {"publish"} \cup StagePublished
    /\ pc["cpm"] \in AnyTask \cup {"publish", "done"}
    /\ pc["glr"] \in AnyTask \cup {"failed", "done"}
    /\ pc["templates"] \in AnyTask \cup {"failed"} \cup ResultPublished
    /\ pc["coloring"] \in AnyTask \cup StagePublished
    /\ pc["classify"] \in AnyTask \cup StagePublished
    /\ pc["terminal"] \in AnyTask \cup ResultPublished
    /\ pc["runtime"] \in AnyTask \cup {"done"}
    /\ pc["parser"] \in AnyTask \cup {"done"}

(* u was spawned by t on its way to `after`; t may have unwound since. *)
Spawned(u, t, after) ==
    /\ pc[t] \in after => pc[u] # "none"
    /\ pc[u] # "none" => pc[t] \in after \cup {"panicked"}

(* Which tasks exist. *)
SpawnsOK ==
    /\ pc["tokenizer"] # "none" /\ pc["analysis"] # "none"
    /\ pc["flat"] # "none" <=> pc["tokenizer"] \in {"publish"} \cup LanePublished
    /\ pc["runtime"] # "none" <=>
          request.deferred /\ pc["tokenizer"] \in {"spawn", "publish"} \cup LanePublished
    /\ ~Eager => (pc["cpm"] # "none" <=> pc["tokenizer"] \in {"publish"} \cup LanePublished)
    /\ Eager => Spawned("cpm", "flat", {"publish"} \cup StagePublished)
    /\ Spawned("glr", "analysis", {"publish"} \cup LanePublished)
    /\ pc["templates"] # "none" <=> pc["glr"] = "done"
    /\ pc["coloring"] # "none" <=> request.useColoring /\ pc["glr"] = "done"
    /\ \A t \in {"classify", "terminal", "parser"} : pc[t] # "none" <=> t \in launched

(* Which slots are filled: what was published and not taken by a launch. *)
SlotsOK ==
    /\ \A t \in {"tokenizer", "analysis"} :
          t \in slots <=> pc[t] \in LanePublished /\ "terminal" \notin launched
    /\ "flat_global" \in slots <=> pc["flat"] \in StagePublished /\ "terminal" \notin launched
    /\ \A t \in {"classify", "coloring"} :
          t \in slots <=> pc[t] \in StagePublished /\ "terminal" \notin launched
    /\ \A t \in {"terminal", "templates"} :
          t \in slots <=> pc[t] \in ResultPublished /\ "parser" \notin launched
    /\ "cpm" \in slots <=> pc["cpm"] = "done"
    /\ "runtime" \in slots <=>
          IF request.deferred THEN pc["runtime"] = "done"
          ELSE pc["tokenizer"] \in {"spawn", "publish"} \cup LanePublished
    /\ "result" \in slots <=> pc["parser"] = "done"

(* A stage runs on published inputs. *)
InputsOK ==
    /\ launched \cap {"classify", "terminal"} # {} =>
          pc["tokenizer"] \in LanePublished /\ pc["analysis"] \in LanePublished
    /\ "terminal" \in launched =>
          /\ pc["flat"] \in StagePublished /\ pc["classify"] \in StagePublished
          /\ request.useColoring => pc["coloring"] \in StagePublished
    /\ "parser" \in launched =>
          pc["terminal"] \in ResultPublished /\ pc["templates"] \in ResultPublished

(* No launch is lost: a stage whose inputs are all there, and which was not *)
(* launched, still has one of their publishers before its launch call.      *)
LaunchesOK ==
    /\ ClassifyReady => "classify" \in {pc["tokenizer"], pc["analysis"]}
    /\ TerminalReady =>
          \/ {pc["tokenizer"], pc["analysis"]} \cap {"classify", "terminal"} # {}
          \/ "terminal" \in {pc["flat"], pc["classify"], pc["coloring"]}
    /\ ParserReady => "parser" \in {pc["terminal"], pc["templates"]}

(* The error slots and the tasks that returned early. *)
ErrorsOK ==
    /\ "table_error" \in slots <=> "failed" \in {pc["analysis"], pc["glr"]}
    /\ "template_error" \in slots <=> pc["templates"] = "failed"
    /\ pc["analysis"] = "failed" => ~request.normalForm
    /\ pc["analysis"] \in {"publish"} \cup LanePublished => request.normalForm
    /\ pc["glr"] = "failed" => request.terminalEnded /\ ~request.certified
    /\ pc["glr"] = "done" => ~request.terminalEnded \/ request.certified
    /\ pc["templates"] = "failed" => ~request.templatesBuild
    /\ pc["templates"] \in ResultPublished => request.templatesBuild
    /\ (\E t \in Tasks : pc[t] = "panicked") => MayPanic

OutcomeOK == outcome # "pending" => Joined /\ outcome = JoinedAnswer

CapturedOK == captured \in {"none", PublishedMap}

IInv ==
    /\ TypeOK /\ StepsOK /\ SpawnsOK /\ SlotsOK /\ InputsOK /\ LaunchesOK
    /\ ErrorsOK /\ OutcomeOK /\ CapturedOK
=============================================================================
