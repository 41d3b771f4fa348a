------------------------- MODULE MCConstraintState -------------------------
(***************************************************************************)
(* A six-frontier constraint for ConstraintState. The grammar is           *)
(*     root = A (B* | SP) ; A = "a", B = "b", SP = exact special id        *)
(* over the ids a, b, ab, sp, a zero-byte id `nil`, an unknown id, the id  *)
(* `slot` of a late grammar slot that may stand where SP does, and an end  *)
(* id. q0 is the start, q1 follows A, q2 follows A B+, and q3 follows      *)
(* SP. q2 has the mask of q1 minus the special and zero-byte ids; r2 is a  *)
(* second lexer residual of q2 with the same mask and a different          *)
(* completion status.                                                      *)
(***************************************************************************)
EXTENDS ConstraintState, TLC

CONSTANT DwaSpecialEdges  \* whether the parser DWA has the special-token edges

MCFrontiers == {"dead", "q0", "q1", "q2", "r2", "q3"}
MCTokens == {"a", "b", "ab", "sp", "nil"}
MCUnknown == {"bad", "slot"}
MCPlaceholders == {"slot"}
MCEnd == {"eos"}
MCChunks == {"bytes_ab"}
MCComplete == {"q1", "q2", "q3"}

MCByteLive == [f \in MCFrontiers |->
    CASE f = "q0" -> {"a", "ab"} [] f = "q1" -> {"b", "nil"} [] f \in {"q2", "r2"} -> {"b"}
      [] OTHER -> {}]
MCSpecialLive == [f \in MCFrontiers |-> IF f = "q1" THEN {"sp"} ELSE {}]

(* The commit engine on this grammar; a zero-byte id is a step that stays,  *)
(* where it is a step at all.                                               *)
MCNext(f, x) ==
    CASE f = "q0" /\ x = "a" -> "q1"
      [] f = "q0" /\ x \in {"ab", "bytes_ab"} -> "q2"
      [] f = "q1" /\ x = "b" -> "q2"
      [] f = "q1" /\ x = "sp" -> "q3"
      [] f = "q1" /\ x = "nil" /\ \E b \in Backends : x \notin NoEmptySteps(b) -> "q1"
      [] f = "q2" /\ x = "b" -> "r2"
      [] f = "r2" /\ x = "b" -> "q2"
      [] OTHER -> "dead"
MCStep == [f \in MCFrontiers |-> [x \in MCTokens \cup MCChunks |-> MCNext(f, x)]]

(* Two ids share a class when no frontier tells them apart. *)
MCClasses == {"A", "B", "S", "N", "L"}
MCClassOf == [t \in MCTokens \cup MCPlaceholders |->
    CASE t \in {"a", "ab"} -> "A" [] t = "b" -> "B" [] t = "sp" -> "S" [] t = "slot" -> "L"
      [] OTHER -> "N"]
MCDwaDense == [f \in MCFrontiers |->
    {MCClassOf[t] : t \in MCByteLive[f] \cup (IF f = "q1" THEN MCPlaceholders ELSE {}) \cup
                          (IF DwaSpecialEdges THEN MCSpecialLive[f] ELSE {})}]
Symmetry == Permutations(Handles) \cup Permutations(Threads)
MCSameMask == {"q2", "r2"} \X {"q2", "r2"}
=============================================================================
