---------------------------- MODULE MCMaskCache ----------------------------
(****************************************************************************)
(* Four states over masks of three words, two slots and a ring of two       *)
(* values.  Two pairs of states collide; the masks are encoded in the three *)
(* forms, and two states have the same one.                                 *)
(****************************************************************************)
EXTENDS MaskCache, TLC

CONSTANTS k1, k2, k3, k4

MCHash == (k1 :> 1) @@ (k2 :> 1) @@ (k3 :> 2) @@ (k4 :> 2)

MCExact == (k1 :> <<1, 0, 0>>) @@ (k2 :> <<1, 1, 0>>) @@ (k3 :> <<0, 1, 1>>)
             @@ (k4 :> <<1, 1, 0>>)

MCBaseline == <<1, 1>>

\* Every mask has the same fingerprint.
MCMaskHash(mask) == 0

Symmetry == Permutations(Threads)

=============================================================================
