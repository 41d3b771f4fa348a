-------------------------- MODULE MCWeightInterner --------------------------
(***************************************************************************)
(* Small interners: two token ids, so that {1} and {2} are incomparable    *)
(* and their union and intersection are both memoised.                     *)
(***************************************************************************)
EXTENDS WeightInterner, TLC

(* One fingerprint for all sets: every pair collides.                       *)
Colliding == [v \in Values |-> "p"]
=============================================================================
