---------------------------- MODULE MCCompileDag ----------------------------
(***************************************************************************)
(* Builds for the task graph: every combination of the switches that       *)
(* change its shape, and each way a build can fail.                        *)
(***************************************************************************)
EXTENDS CompileDag, TLC

Plain == [normalForm |-> TRUE, terminalEnded |-> FALSE, certified |-> FALSE,
          templatesBuild |-> TRUE, eagerFlag |-> TRUE, singleUse |-> FALSE,
          derivable |-> FALSE, deferred |-> FALSE, earlyCache |-> TRUE,
          parserOnly |-> TRUE, useColoring |-> FALSE]

(* What may go wrong, under both policies. *)
Fates == {[Plain EXCEPT !.normalForm = FALSE],
          [Plain EXCEPT !.terminalEnded = TRUE],
          [Plain EXCEPT !.terminalEnded = TRUE, !.certified = TRUE],
          [Plain EXCEPT !.templatesBuild = FALSE]}

(* A single-use terminal, whether its matches can be derived, as its gate   *)
(* expects, or not; the switches that only add a task are varied one with   *)
(* another.                                                                 *)
Shapes == {r \in Request : /\ r.normalForm /\ r.templatesBuild /\ ~r.terminalEnded
                           /\ ~r.certified /\ r.parserOnly
                           /\ (r.derivable => r.singleUse)
                           /\ (r.singleUse => r.eagerFlag)
                           /\ (r.earlyCache \/ ~(r.deferred \/ r.useColoring))}

AllRequests == Shapes \cup Fates

(* The gate selected a single-use terminal and the derivation declines. *)
Underived == {[Plain EXCEPT !.singleUse = TRUE]}

(* The families distinguish ids the deferred (empty) map does not, and the  *)
(* eager one distinguishes ids the families do not.                         *)
SmallCoordinates == [family |-> <<1, 1, 2>>, deferred |-> <<1, 1, 1>>, eager |-> <<1, 2, 2>>]
=============================================================================
