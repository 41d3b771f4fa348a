----------------------------- MODULE MCMarkers -----------------------------
(***************************************************************************)
(* The grammar "mixed" of MCCommitEngine with markers.                     *)
(***************************************************************************)
EXTENDS MCCommitEngine, Markers

(* Markers around A, after KW and before and after SP, where no byte is     *)
(* read between the two.                                                    *)
MixedProbe == [s \in MixedStacks |->
    CASE s = "s0" -> {1} [] s = "sA" -> {1, 2} [] s = "sSP" -> {1} [] s = "sKW" -> {2}
      [] s = "sSPA" -> {2} [] OTHER -> {}]

(* The lexer of "mixed" is one that the soundness theorems are about. *)
ASSUME MixedIsCovered == NoReentry /\ OnePartition /\ IgnoredRestart
=============================================================================
