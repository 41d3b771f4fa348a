-------------------------- MODULE CompileContract --------------------------
(****************************************************************************)
(* What compile_prepared_with_profile_and_table_construction (src/compiler/ *)
(* pipeline.rs) promises its caller: one answer, which the request decides  *)
(* and the thread schedule does not. Panics raised inside a stage (such as  *)
(* an exhausted build budget) are passed on; no panic is of its own making. *)
(****************************************************************************)
CONSTANT MayPanic    \* a stage of this build may unwind

VARIABLES
    request,   \* the prepared grammar and the switches it is built under
    answer     \* "pending" until the call returns

contractVars == <<request, answer>>

(* normalForm: check_table_build_normal_form or its dynamic variant holds.  *)
(* certified: the table, or its one Lalr retry, passes the terminal-ended   *)
(* certificate. templatesBuild: build_templates_for_compile succeeds.       *)
Answer(r) ==
    IF ~r.normalForm \/ (r.terminalEnded /\ ~r.certified) THEN "table_error"
    ELSE IF ~r.templatesBuild THEN "template_error"
    ELSE "ok"

ContractInit == answer = "pending"

Reply ==
    /\ answer = "pending"
    /\ answer' \in {Answer(request)} \cup (IF MayPanic THEN {"panicked"} ELSE {})
    /\ UNCHANGED request

ContractSafety == ContractInit /\ [][Reply]_contractVars
ContractSpec == ContractSafety /\ WF_contractVars(Reply)
=============================================================================
