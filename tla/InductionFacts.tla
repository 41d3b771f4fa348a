--------------------------- MODULE InductionFacts ---------------------------
(***************************************************************************)
(* Induction over data for the proofs of this project. The induction rules *)
(* of the library quantify over an operator; here the property is the set  *)
(* of the values that have it, so that a prover can be given one.          *)
(***************************************************************************)
EXTENDS Integers, FiniteSets, Functions, WellFoundedInduction, FiniteSetTheorems, TLAPS

(* Induction over the naturals, for the set S of those that have a property. *)
LEMMA NatSetInduction ==
    ASSUME NEW S, 0 \in S, \A n \in Nat : n \in S => n + 1 \in S
    PROVE  Nat \subseteq S
<1> DEFINE Less == {p \in Nat \X Nat : p[1] < p[2]}
           Without == Nat \ S
<1> SUFFICES ASSUME Without # {} PROVE FALSE
  OBVIOUS
<1>1. IsWellFoundedOn(Less, Nat)
  BY NatLessThanWellFounded DEF OpToRel
<1>2. PICK n \in Without : \A m \in Without : <<m, n>> \notin Less
  <2> HIDE DEF Less
  <2> QED BY <1>1, WFMin
<1>3. n - 1 \in Without /\ <<n - 1, n>> \in Less
  BY <1>2
<1> QED
  BY <1>2, <1>3

(* Induction over the subsets of a finite set, for the family F of those    *)
(* that have a property.                                                    *)
LEMMA FiniteSubsetInduction ==
    ASSUME NEW U, IsFiniteSet(U), NEW F,
           \A A \in SUBSET U : (\A x \in A : A \ {x} \in F) => A \in F
    PROVE  SUBSET U \subseteq F
<1> DEFINE Less == StrictSubsetOrdering(U)
           Without == (SUBSET U) \ F
<1> SUFFICES ASSUME Without # {} PROVE FALSE
  OBVIOUS
<1>1. IsWellFoundedOn(Less, SUBSET U)
  <2>1. IsWellFoundedOn(StrictSubsetOrdering(U), FiniteSubsetsOf(U))
    BY FS_StrictSubsetOrderingWellFounded
  <2>2. FiniteSubsetsOf(U) = SUBSET U
    BY FS_FiniteSubsetsOfFinite
  <2> QED BY <2>1, <2>2
<1>2. PICK A \in Without : \A B \in Without : <<B, A>> \notin Less
  <2> HIDE DEF Less
  <2> QED BY <1>1, WFMin
<1>3. PICK x \in A : A \ {x} \notin F
  <2>1. A \in SUBSET U /\ A \notin F
    BY <1>2
  <2> HIDE DEF Without
  <2> QED BY <2>1
<1>4. A \ {x} \in Without /\ <<A \ {x}, A>> \in Less
  BY <1>3 DEF StrictSubsetOrdering
<1> QED
  BY <1>2, <1>4

(* A non-empty set of bounded naturals has a greatest element. *)
LEMMA BoundedHasGreatest ==
    ASSUME NEW n \in Nat, NEW A, A \subseteq 0..n, A # {}
    PROVE  \E i \in A : \A j \in A : j <= i
<1> DEFINE S == {m \in Nat : \A B \in SUBSET (0..m) : B # {} => \E i \in B : \A j \in B : j <= i}
<1>1. 0 \in S
  <2> SUFFICES ASSUME NEW B \in SUBSET (0..0), B # {}
               PROVE  \E i \in B : \A j \in B : j <= i
    OBVIOUS
  <2>1. \A j \in B : j = 0
    OBVIOUS
  <2>2. PICK i \in B : TRUE
    OBVIOUS
  <2>3. \A j \in B : j <= i
    BY <2>1, <2>2
  <2> QED
    BY <2>2, <2>3
<1>2. ASSUME NEW m \in Nat, m \in S PROVE m + 1 \in S
  <2> SUFFICES ASSUME NEW B \in SUBSET (0..(m + 1)), B # {}
               PROVE  \E i \in B : \A j \in B : j <= i
    OBVIOUS
  <2>1. CASE m + 1 \in B
    BY <2>1
  <2>2. CASE m + 1 \notin B
    <3>1. B \in SUBSET (0..m)
      BY <2>2
    <3> QED
      BY <3>1, <1>2
  <2> QED
    BY <2>1, <2>2
<1> HIDE DEF S
<1>3. n \in S
  BY <1>1, <1>2, NatSetInduction
<1> QED
  BY <1>3 DEF S

(* H[k][f] is the value at k of a recursive function f over 0..N with       *)
(* values in V, and depends on those below k only.                          *)
IsRecursion(H, N, V) ==
    /\ \A k \in 0..N : \A g \in [0..N -> V] : H[k][g] \in V
    /\ \A k \in 0..N : \A g, h \in [0..N -> V] :
         (\A i \in 0..(k - 1) : g[i] = h[i]) => H[k][g] = H[k][h]

Solves(f, H, N) == \A k \in 0..N : f[k] = H[k][f]

(* A recursive function exists. *)
LEMMA RecursionExists ==
    ASSUME NEW V, NEW a \in V, NEW N \in Nat, NEW H, IsRecursion(H, N, V)
    PROVE  \E f \in [0..N -> V] : Solves(f, H, N)
<1> USE DEF IsRecursion
<1> DEFINE S == {m \in Nat : \E f \in [0..N -> V] : \A k \in 0..N : k <= m => f[k] = H[k][f]}
<1>1. 0 \in S
  <2>1. PICK g \in [0..N -> V] : g = [i \in 0..N |-> a]
    OBVIOUS
  <2>2. PICK v \in V : v = H[0][g]
    OBVIOUS
  <2>3. PICK f \in [0..N -> V] : f = [i \in 0..N |-> v]
    OBVIOUS
  <2>4. H[0][f] = H[0][g]
    <3>1. 0 \in 0..N /\ \A i \in 0..(0 - 1) : f[i] = g[i]
      OBVIOUS
    <3> QED BY <3>1
  <2>5. \A k \in 0..N : k <= 0 => f[k] = H[k][f]
    BY <2>2, <2>3, <2>4
  <2> QED BY <2>5
<1>2. ASSUME NEW m \in Nat, m \in S PROVE m + 1 \in S
  <2>1. PICK f \in [0..N -> V] : \A k \in 0..N : k <= m => f[k] = H[k][f]
    BY <1>2
  <2>2. CASE m + 1 > N
    <3>1. \A k \in 0..N : k <= m + 1 => f[k] = H[k][f]
      BY <2>1, <2>2
    <3> QED BY <3>1
  <2>3. CASE m + 1 <= N
    <3>1. m + 1 \in 0..N
      BY <2>3
    <3>2. PICK v \in V : v = H[m + 1][f]
      BY <3>1
    <3>3. PICK g \in [0..N -> V] : g = [f EXCEPT ![m + 1] = v]
      OBVIOUS
    <3>4. g[m + 1] = v /\ \A i \in 0..N : i <= m => g[i] = f[i]
      BY <3>1, <3>3
    <3>5. ASSUME NEW k \in 0..N, k <= m + 1 PROVE H[k][g] = H[k][f]
      <4>1. \A i \in 0..(k - 1) : g[i] = f[i]
        BY <3>4, <3>5
      <4> QED BY <4>1
    <3>6. ASSUME NEW k \in 0..N, k <= m + 1 PROVE g[k] = H[k][g]
      <4>1. CASE k = m + 1
        BY <3>2, <3>4, <3>5, <4>1
      <4>2. CASE k # m + 1
        <5>1. k <= m
          BY <3>6, <4>2
        <5> QED BY <2>1, <3>4, <3>5, <5>1
      <4> QED BY <4>1, <4>2
    <3> QED BY <3>6
  <2> QED
    BY <2>2, <2>3
<1> HIDE DEF S
<1>3. N \in S
  BY <1>1, <1>2, NatSetInduction
<1>4. PICK f \in [0..N -> V] : \A k \in 0..N : k <= N => f[k] = H[k][f]
  BY <1>3 DEF S
<1>5. Solves(f, H, N)
  BY <1>4 DEF Solves
<1> QED
  BY <1>5

----------------------------------------------------------------------------
(* Sums over finite sets *)

Pick(A) == CHOOSE x \in A : TRUE

(* g is what summing f over the subsets of U computes, element by element.  *)
SumsOf(g, f, U) ==
    g = [A \in SUBSET U |-> IF A = {} THEN 0 ELSE f[Pick(A)] + g[A \ {Pick(A)}]]

LEMMA SumIsChosen ==
    ASSUME NEW f, NEW U
    PROVE  SumFunctionOnSet(f, U) = (CHOOSE g : SumsOf(g, f, U))[U]
  BY DEF SumFunctionOnSet, FoldFunctionOnSet, MapThenFoldSet, SumsOf, Pick

LEMMA SumsUnique ==
    ASSUME NEW U, IsFiniteSet(U), NEW f, NEW g, NEW h, SumsOf(g, f, U), SumsOf(h, f, U)
    PROVE  g[U] = h[U]
<1> DEFINE F == {A \in SUBSET U : g[A] = h[A]}
<1>1. ASSUME NEW A \in SUBSET U, \A x \in A : A \ {x} \in F PROVE A \in F
  <2>1. /\ g[A] = IF A = {} THEN 0 ELSE f[Pick(A)] + g[A \ {Pick(A)}]
        /\ h[A] = IF A = {} THEN 0 ELSE f[Pick(A)] + h[A \ {Pick(A)}]
    BY DEF SumsOf
  <2>2. A # {} => g[A \ {Pick(A)}] = h[A \ {Pick(A)}]
    BY <1>1 DEF Pick
  <2> QED
    BY <2>1, <2>2
<1> HIDE DEF F
<1>2. U \in F
  BY <1>1, FiniteSubsetInduction
<1> QED
  BY <1>2 DEF F

(* The library's sum unfolds as its recursive definition says. *)
LEMMA SumUnfold ==
    ASSUME NEW U, IsFiniteSet(U), NEW f
    PROVE  \A A \in SUBSET U :
             SumFunctionOnSet(f, A) = IF A = {} THEN 0
                ELSE f[Pick(A)] + SumFunctionOnSet(f, A \ {Pick(A)})
<1> DEFINE Unfolded(A) == IF A = {} THEN 0
                           ELSE f[Pick(A)] + SumFunctionOnSet(f, A \ {Pick(A)})
           Good(A) == SumFunctionOnSet(f, A) = Unfolded(A)
           F == {A \in SUBSET U : \A B \in SUBSET A : Good(B)}
<1>1. ASSUME NEW A \in SUBSET U, \A x \in A : A \ {x} \in F PROVE A \in F
  <2>1. ASSUME NEW B \in SUBSET A, B # A PROVE Good(B)
    <3>1. PICK x \in A : x \notin B
      BY <2>1
    <3>2. B \in SUBSET (A \ {x})
      BY <3>1
    <3> QED
      BY <1>1, <3>1, <3>2
  <2> DEFINE h == [B \in SUBSET A |-> Unfolded(B)]
  <2>2. SumsOf(h, f, A)
    <3>1. ASSUME NEW B \in SUBSET A, B # {}
          PROVE  h[B \ {Pick(B)}] = SumFunctionOnSet(f, B \ {Pick(B)})
      <4>1. B \ {Pick(B)} \in SUBSET A /\ B \ {Pick(B)} # A
        BY <3>1 DEF Pick
      <4> QED
        BY <2>1, <4>1
    <3> QED
      BY <3>1 DEF SumsOf
  <2>3. IsFiniteSet(A)
    BY FS_Subset
  <2>4. PICK g : g = CHOOSE y : SumsOf(y, f, A)
    OBVIOUS
  <2> HIDE DEF h
  <2>5. SumsOf(g, f, A)
    BY <2>2, <2>4
  <2>6. g[A] = h[A]
    BY <2>2, <2>3, <2>5, SumsUnique
  <2>7. SumFunctionOnSet(f, A) = g[A]
    BY <2>4, SumIsChosen
  <2>8. Good(A)
    BY <2>6, <2>7 DEF h
  <2> HIDE DEF Good
  <2> QED
    BY <2>1, <2>8
<1> HIDE DEF F
<1>2. U \in F
  BY <1>1, FiniteSubsetInduction
<1> QED
  BY <1>2 DEF F

(* A sum of naturals is a natural, and any element may be summed first. *)
LEMMA SumStep ==
    ASSUME NEW U, IsFiniteSet(U), NEW f, \A x \in U : f[x] \in Nat
    PROVE  /\ SumFunctionOnSet(f, {}) = 0
           /\ SumFunctionOnSet(f, U) \in Nat
           /\ \A x \in U : SumFunctionOnSet(f, U) = f[x] + SumFunctionOnSet(f, U \ {x})
<1> DEFINE Total(A) == SumFunctionOnSet(f, A)
           Good(A) == Total(A) \in Nat /\ \A x \in A : Total(A) = f[x] + Total(A \ {x})
           F == {A \in SUBSET U : \A B \in SUBSET A : Good(B)}
<1>0. \A A \in SUBSET U : Total(A) = IF A = {} THEN 0 ELSE f[Pick(A)] + Total(A \ {Pick(A)})
  BY SumUnfold
<1> HIDE DEF Total
<1>1. ASSUME NEW A \in SUBSET U, \A x \in A : A \ {x} \in F PROVE A \in F
  <2>1. ASSUME NEW B \in SUBSET A, B # A PROVE Good(B)
    <3>1. PICK x \in A : x \notin B
      BY <2>1
    <3>2. B \in SUBSET (A \ {x})
      BY <3>1
    <3> QED
      BY <1>1, <3>1, <3>2
  <2>2. CASE A = {}
    <3>1. Good(A)
      BY <1>0, <2>2
    <3> HIDE DEF Good
    <3> QED
      BY <2>1, <3>1
  <2>3. CASE A # {}
    <3>1. PICK p \in A : p = Pick(A)
      BY <2>3 DEF Pick
    <3>2. Total(A) = f[p] + Total(A \ {p})
      BY <1>0, <2>3, <3>1
    <3>3. Total(A \ {p}) \in Nat /\ \A x \in A \ {p} :
            Total(A \ {p}) = f[x] + Total((A \ {p}) \ {x})
      BY <2>1, <3>1
    <3>4. ASSUME NEW x \in A, x # p PROVE Total(A) = f[x] + Total(A \ {x})
      <4>1. Total(A \ {p}) = f[x] + Total((A \ {p}) \ {x})
        BY <3>3, <3>4
      <4>2. Total(A \ {x}) = f[p] + Total((A \ {x}) \ {p})
        <5>1. A \ {x} \in SUBSET A /\ A \ {x} # A /\ p \in A \ {x}
          BY <3>1, <3>4
        <5>2. Good(A \ {x})
          <6> HIDE DEF Good
          <6> QED BY <2>1, <5>1
        <5> QED
          BY <5>1, <5>2
      <4>3. (A \ {x}) \ {p} = (A \ {p}) \ {x}
        OBVIOUS
      <4>4. Total((A \ {p}) \ {x}) \in Nat /\ f[x] \in Nat /\ f[p] \in Nat
        <5>1. (A \ {p}) \ {x} \in SUBSET A /\ (A \ {p}) \ {x} # A
          BY <3>1
        <5>2. Good((A \ {p}) \ {x})
          <6> HIDE DEF Good
          <6> QED BY <2>1, <5>1
        <5> QED
          BY <3>1, <5>2
      <4>5. Total(A \ {x}) = f[p] + Total((A \ {p}) \ {x})
        BY <4>2, <4>3
      <4> QED
        BY <3>2, <4>1, <4>4, <4>5
    <3>5. Good(A)
      BY <3>1, <3>2, <3>3, <3>4
    <3> HIDE DEF Good
    <3> QED
      BY <2>1, <3>5
  <2> QED
    BY <2>2, <2>3
<1>2. U \in F
  <2> HIDE DEF F
  <2> QED BY <1>1, FiniteSubsetInduction
<1>3. Total({}) = 0
  BY <1>0
<1> QED
  BY <1>2, <1>3 DEF Total

(* A sum grows with its terms. *)
LEMMA SumMonotone ==
    ASSUME NEW U, IsFiniteSet(U), NEW f, NEW g,
           \A x \in U : f[x] \in Nat /\ g[x] \in Nat /\ f[x] <= g[x]
    PROVE  SumFunctionOnSet(f, U) <= SumFunctionOnSet(g, U)
<1> DEFINE S(A) == SumFunctionOnSet(f, A)
           T(A) == SumFunctionOnSet(g, A)
           F == {A \in SUBSET U : S(A) <= T(A)}
<1>1. ASSUME NEW A \in SUBSET U, \A x \in A : A \ {x} \in F PROVE A \in F
  <2>1. /\ S({}) = 0 /\ S(A) \in Nat /\ \A x \in A : S(A) = f[x] + S(A \ {x})
        /\ T({}) = 0 /\ T(A) \in Nat /\ \A x \in A : T(A) = g[x] + T(A \ {x})
    BY FS_Subset, SumStep
  <2>2. ASSUME NEW x \in A
        PROVE  S(A \ {x}) \in Nat /\ T(A \ {x}) \in Nat /\ S(A \ {x}) <= T(A \ {x})
    <3>1. IsFiniteSet(A \ {x})
      BY FS_Subset
    <3> QED
      BY <1>1, <3>1, SumStep
  <2> HIDE DEF S, T
  <2>3. CASE A = {}
    <3>1. S(A) <= T(A)
      BY <2>1, <2>3
    <3> QED BY <3>1
  <2>4. CASE A # {}
    <3>1. PICK x \in A : TRUE
      BY <2>4
    <3>2. f[x] \in Nat /\ g[x] \in Nat /\ f[x] <= g[x]
      OBVIOUS
    <3>3. S(A) = f[x] + S(A \ {x}) /\ T(A) = g[x] + T(A \ {x})
      BY <2>1, <3>1
    <3>4. S(A \ {x}) \in Nat /\ T(A \ {x}) \in Nat /\ S(A \ {x}) <= T(A \ {x})
      BY <2>2, <3>1
    <3>5. S(A) <= T(A)
      BY <3>2, <3>3, <3>4
    <3> QED BY <3>5
  <2> QED
    BY <2>3, <2>4
<1> HIDE DEF F
<1>2. U \in F
  BY <1>1, FiniteSubsetInduction
<1> QED
  BY <1>2 DEF F

(* Two functions that agree on a set have one sum over it. *)
LEMMA SumSame ==
    ASSUME NEW U, IsFiniteSet(U), NEW f, NEW g, \A x \in U : f[x] \in Nat /\ g[x] = f[x]
    PROVE  SumFunctionOnSet(f, U) = SumFunctionOnSet(g, U)
<1>1. SumFunctionOnSet(f, U) <= SumFunctionOnSet(g, U)
  BY SumMonotone
<1>2. SumFunctionOnSet(g, U) <= SumFunctionOnSet(f, U)
  BY SumMonotone
<1>3. SumFunctionOnSet(f, U) \in Nat /\ SumFunctionOnSet(g, U) \in Nat
  BY SumStep
<1> QED
  BY <1>1, <1>2, <1>3

(* Changing one term changes the sum by as much. *)
LEMMA SumUpdate ==
    ASSUME NEW U, IsFiniteSet(U), NEW f, NEW g, NEW x \in U,
           \A y \in U : f[y] \in Nat /\ g[y] \in Nat,
           \A y \in U \ {x} : g[y] = f[y]
    PROVE  SumFunctionOnSet(g, U) + f[x] = SumFunctionOnSet(f, U) + g[x]
<1>1. IsFiniteSet(U \ {x})
  BY FS_Subset
<1>2. SumFunctionOnSet(f, U \ {x}) = SumFunctionOnSet(g, U \ {x})
  BY <1>1, SumSame
<1>3. SumFunctionOnSet(f, U \ {x}) \in Nat
  BY <1>1, SumStep
<1>4. SumFunctionOnSet(f, U) = f[x] + SumFunctionOnSet(f, U \ {x})
  BY SumStep
<1>5. SumFunctionOnSet(g, U) = g[x] + SumFunctionOnSet(g, U \ {x})
  BY SumStep
<1> QED
  BY <1>2, <1>3, <1>4, <1>5

(* A sum in which only the terms of T have a second part. *)
LEMMA SumSplit ==
    ASSUME NEW U, IsFiniteSet(U), NEW T \in SUBSET U, NEW f, NEW g, NEW h,
           \A x \in U : f[x] \in Nat /\ g[x] \in Nat,
           \A x \in U : h[x] = f[x] + IF x \in T THEN g[x] ELSE 0
    PROVE  SumFunctionOnSet(h, U) = SumFunctionOnSet(f, U) + SumFunctionOnSet(g, T)
<1> DEFINE H(A) == SumFunctionOnSet(h, A)
           S(A) == SumFunctionOnSet(f, A)
           G(A) == SumFunctionOnSet(g, A)
           F == {A \in SUBSET U : H(A) = S(A) + G(A \cap T)}
<1>1. ASSUME NEW A \in SUBSET U, \A x \in A : A \ {x} \in F PROVE A \in F
  <2>0. IsFiniteSet(A) /\ IsFiniteSet(A \cap T) /\ \A x \in A : h[x] \in Nat
    BY FS_Subset
  <2>1. /\ H({}) = 0 /\ \A x \in A : H(A) = h[x] + H(A \ {x})
        /\ S({}) = 0 /\ \A x \in A : S(A) = f[x] + S(A \ {x})
    BY <2>0, SumStep
  <2>2. G({}) = 0 /\ \A x \in A \cap T : G(A \cap T) = g[x] + G((A \cap T) \ {x})
    BY <2>0, SumStep
  <2>3. ASSUME NEW x \in A
        PROVE  /\ H(A \ {x}) = S(A \ {x}) + G((A \ {x}) \cap T)
               /\ S(A \ {x}) \in Nat /\ G((A \ {x}) \cap T) \in Nat
    <3>1. IsFiniteSet(A \ {x}) /\ IsFiniteSet((A \ {x}) \cap T)
      BY FS_Subset
    <3>2. S(A \ {x}) \in Nat
      BY <3>1, SumStep
    <3>3. G((A \ {x}) \cap T) \in Nat
      BY <3>1, SumStep
    <3>4. H(A \ {x}) = S(A \ {x}) + G((A \ {x}) \cap T)
      BY <1>1
    <3> QED
      BY <3>2, <3>3, <3>4
  <2>4. CASE A = {}
    <3>1. A \cap T = {}
      BY <2>4
    <3> HIDE DEF H, S, G
    <3> QED
      BY <2>1, <2>2, <2>4, <3>1
  <2>5. CASE A # {}
    <3>1. PICK x \in A : TRUE
      BY <2>5
    <3>2. CASE x \in T
      <4>1. (A \ {x}) \cap T = (A \cap T) \ {x} /\ x \in A \cap T
        BY <3>1, <3>2
      <4>2. h[x] = f[x] + g[x] /\ f[x] \in Nat /\ g[x] \in Nat
        BY <3>1, <3>2
      <4> HIDE DEF H, S, G
      <4>3. H(A) = S(A) + G(A \cap T)
        <5>1. G(A \cap T) = g[x] + G((A \ {x}) \cap T)
          BY <2>2, <4>1
        <5>2. H(A) = h[x] + H(A \ {x}) /\ S(A) = f[x] + S(A \ {x})
          BY <2>1, <3>1
        <5>3. /\ H(A \ {x}) = S(A \ {x}) + G((A \ {x}) \cap T)
              /\ S(A \ {x}) \in Nat /\ G((A \ {x}) \cap T) \in Nat
          BY <2>3, <3>1
        <5> QED
          BY <4>2, <5>1, <5>2, <5>3
      <4> QED
        BY <4>3
    <3>3. CASE x \notin T
      <4>1. (A \ {x}) \cap T = A \cap T
        BY <3>1, <3>3
      <4>2. h[x] = f[x] /\ f[x] \in Nat
        BY <3>1, <3>3
      <4> HIDE DEF H, S, G
      <4>3. H(A) = S(A) + G(A \cap T)
        <5>1. H(A) = h[x] + H(A \ {x}) /\ S(A) = f[x] + S(A \ {x})
          BY <2>1, <3>1
        <5>2. H(A \ {x}) = S(A \ {x}) + G(A \cap T) /\ S(A \ {x}) \in Nat /\ G(A \cap T) \in Nat
          BY <2>3, <4>1
        <5> QED
          BY <4>2, <5>1, <5>2
      <4> QED
        BY <4>3
    <3> QED
      BY <3>2, <3>3
  <2> QED
    BY <2>4, <2>5
<1>2. U \in F
  <2> HIDE DEF F
  <2> QED BY <1>1, FiniteSubsetInduction
<1>3. U \cap T = T
  OBVIOUS
<1> QED
  BY <1>2, <1>3

(* A sum of zeros is zero. *)
LEMMA SumZero ==
    ASSUME NEW U, IsFiniteSet(U), NEW f, \A x \in U : f[x] = 0
    PROVE  SumFunctionOnSet(f, U) = 0
<1>1. PICK n \in Nat : n = SumFunctionOnSet(f, U)
  BY SumStep
<1>2. U \in SUBSET U /\ \A x \in U : f[x] \in Nat
  OBVIOUS
<1>3. \A x \in U : f[x] = f[x] + IF x \in U THEN f[x] ELSE 0
  OBVIOUS
<1>4. SumFunctionOnSet(f, U) = SumFunctionOnSet(f, U) + SumFunctionOnSet(f, U)
  BY <1>2, <1>3, SumSplit
<1>5. n = n + n
  BY <1>1, <1>4
<1>6. n = 0
  BY <1>5
<1> QED
  BY <1>1, <1>6

=============================================================================
