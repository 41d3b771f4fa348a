------------------------- MODULE CommitEngineProofs -------------------------
(***************************************************************************)
(* Proofs about the commit engine, for every lexer, parser and vocabulary: *)
(* the frontier holds only parses of the text, and, where merging agrees,  *)
(* all of them that can still go on.                                       *)
(***************************************************************************)
EXTENDS CommitEngine, InductionFacts

(***************************************************************************)
(* The lexer along a text                                                  *)
(***************************************************************************)

LEMMA MovesType ==
    ASSUME NEW S \in SUBSET LexStates, NEW b
    PROVE  Moves(S, b) \in SUBSET LexStates
  BY LexerAssumption DEF Moves, Trans

(* R is what running the lexer over w from q computes, byte by byte. *)
RunsOver(R, q, w) ==
    R = [n \in 0..Len(w) |-> IF n = 0 THEN {q} ELSE Moves(R[n - 1], w[n])]

LEMMA RunIsChosen ==
    ASSUME NEW q, NEW w
    PROVE  Run(q, w) = CHOOSE R : RunsOver(R, q, w)
  BY DEF Run, RunsOver

LEMMA RunUnfold ==
    ASSUME NEW q \in LexStates, NEW A, NEW w \in Seq(A)
    PROVE  /\ Run(q, w) \in [0..Len(w) -> SUBSET LexStates]
           /\ Run(q, w)[0] = {q}
           /\ \A n \in 1..Len(w) : Run(q, w)[n] = Moves(Run(q, w)[n - 1], w[n])
<1> DEFINE V == SUBSET LexStates
           N == Len(w)
           H == [k \in 0..N |-> [g \in [0..N -> V] |->
                   IF k = 0 THEN {q} ELSE Moves(g[k - 1], w[k])]]
<1>1. N \in Nat /\ {q} \in V
  OBVIOUS
<1>2. \A k \in 0..N : \A g \in [0..N -> V] : H[k][g] \in V
  <2> SUFFICES ASSUME NEW k \in 0..N, NEW g \in [0..N -> V] PROVE H[k][g] \in V
    OBVIOUS
  <2>1. CASE k = 0
    BY <2>1
  <2>2. CASE k # 0
    <3>1. k - 1 \in 0..N
      BY <1>1, <2>2
    <3>2. g[k - 1] \subseteq LexStates
      BY <3>1
    <3> QED BY <2>2, <3>2, MovesType
  <2> QED BY <2>1, <2>2
<1>3. \A k \in 0..N : \A g, h \in [0..N -> V] :
        (\A i \in 0..(k - 1) : g[i] = h[i]) => H[k][g] = H[k][h]
  <2> SUFFICES ASSUME NEW k \in 0..N, NEW g \in [0..N -> V], NEW h \in [0..N -> V],
                      \A i \in 0..(k - 1) : g[i] = h[i]
               PROVE  H[k][g] = H[k][h]
    OBVIOUS
  <2>1. CASE k = 0
    BY <2>1
  <2>2. CASE k # 0
    <3>1. k - 1 \in 0..(k - 1)
      BY <1>1, <2>2
    <3>2. g[k - 1] = h[k - 1]
      BY <3>1
    <3>3. H[k][g] = Moves(g[k - 1], w[k])
      BY <2>2
    <3>4. H[k][h] = Moves(h[k - 1], w[k])
      BY <2>2
    <3> HIDE DEF H
    <3> QED BY <3>2, <3>3, <3>4
  <2> QED BY <2>1, <2>2
<1>4. \E f \in [0..N -> V] : Solves(f, H, N)
  <2> HIDE DEF V, N, H
  <2>1. IsRecursion(H, N, V)
    BY <1>2, <1>3 DEF IsRecursion
  <2> QED BY <1>1, <2>1, RecursionExists
<1>5. PICK f \in [0..N -> V] : \A k \in 0..N : f[k] = H[k][f]
  BY <1>4 DEF Solves
<1>6. \A k \in 0..N : f[k] = IF k = 0 THEN {q} ELSE Moves(f[k - 1], w[k])
  BY <1>5
<1>7. RunsOver(f, q, w)
  BY <1>6 DEF RunsOver
<1>8. PICK R : R = Run(q, w)
  OBVIOUS
<1>9. RunsOver(R, q, w)
  BY <1>7, <1>8, RunIsChosen
<1> HIDE DEF N, V, H
<1>10. /\ DOMAIN R = 0..N /\ R = [n \in 0..N |-> R[n]] /\ R[0] = {q}
       /\ \A n \in 1..N : R[n] = Moves(R[n - 1], w[n])
  <2>1. R = [n \in 0..N |-> IF n = 0 THEN {q} ELSE Moves(R[n - 1], w[n])]
    BY <1>9 DEF RunsOver, N
  <2>2. 0 \in 0..N /\ \A n \in 1..N : n \in 0..N /\ n # 0
    BY <1>1
  <2> QED BY <2>1, <2>2
<1> DEFINE S == {n \in Nat : n <= N => R[n] \subseteq LexStates}
<1>11. 0 \in S
  BY <1>10
<1>12. ASSUME NEW n \in Nat, n \in S PROVE n + 1 \in S
  <2>1. CASE n + 1 <= N
    <3>1. n + 1 \in 1..N /\ R[n] \subseteq LexStates
      BY <1>1, <1>12, <2>1
    <3>2. PICK m \in 1..N : m = n + 1 /\ m - 1 = n
      BY <3>1
    <3>3. R[m] = Moves(R[n], w[m])
      BY <1>10, <3>2
    <3>4. R[m] \subseteq LexStates
      BY <3>1, <3>3, MovesType
    <3> QED BY <3>2, <3>4
  <2>2. CASE ~(n + 1 <= N)
    BY <2>2
  <2> QED BY <2>1, <2>2
<1>13. Nat \subseteq S
  <2> HIDE DEF S
  <2> QED BY <1>11, <1>12, NatSetInduction
<1>14. R \in [0..N -> SUBSET LexStates]
  <2>1. \A n \in 0..N : R[n] \in SUBSET LexStates
    BY <1>1, <1>13
  <2> QED BY <1>10, <2>1
<1> QED
  BY <1>8, <1>10, <1>14 DEF N

LEMMA SuffixFacts ==
    ASSUME NEW y \in Seq(Symbols), NEW a \in 0..Len(y)
    PROVE  /\ Suffix(y, a) \in Seq(Symbols)
           /\ Len(Suffix(y, a)) = Len(y) - a
           /\ \A k \in 1..(Len(y) - a) : Suffix(y, a)[k] = y[a + k]
<1>1. Len(y) \in Nat /\ a + 1 \in 1..(Len(y) + 1)
  OBVIOUS
<1>2. \A k \in (a + 1)..Len(y) : y[k] \in Symbols
  OBVIOUS
<1>3. SubSeq(y, a + 1, Len(y)) \in Seq(Symbols)
  BY <1>1, <1>2
<1>4. Len(SubSeq(y, a + 1, Len(y))) = Len(y) - a
  BY <1>1
<1>5. \A k \in 1..(Len(y) - a) : SubSeq(y, a + 1, Len(y))[k] = y[a + k]
  <2> SUFFICES ASSUME NEW k \in 1..(Len(y) - a) PROVE SubSeq(y, a + 1, Len(y))[k] = y[a + k]
    OBVIOUS
  <2>1. SubSeq(y, a + 1, Len(y))[k] = y[(a + 1) + k - 1]
    BY <1>1
  <2>2. (a + 1) + k - 1 = a + k
    BY <1>1
  <2> QED BY <2>1, <2>2
<1> QED
  BY <1>3, <1>4, <1>5 DEF Suffix

LEMMA BytesAreSymbols == Seq(Bytes) \subseteq Seq(Symbols)
  BY DEF Symbols

(* The lexer states n symbols after position a of y, started from q there.  *)
States(q, y, a, n) == Run(q, Suffix(y, a))[n]

LEMMA StatesUnfold ==
    ASSUME NEW q \in LexStates, NEW y \in Seq(Symbols), NEW a \in 0..Len(y)
    PROVE  /\ \A n \in 0..(Len(y) - a) : States(q, y, a, n) \in SUBSET LexStates
           /\ States(q, y, a, 0) = {q}
           /\ \A n \in Nat : a + n + 1 <= Len(y) =>
                States(q, y, a, n + 1) = Moves(States(q, y, a, n), y[a + n + 1])
<1> DEFINE w == Suffix(y, a)
<1>1. w \in Seq(Symbols) /\ Len(w) = Len(y) - a /\ \A k \in 1..(Len(y) - a) : w[k] = y[a + k]
  BY SuffixFacts
<1> HIDE DEF w
<1>2. /\ Run(q, w) \in [0..Len(w) -> SUBSET LexStates]
      /\ Run(q, w)[0] = {q}
      /\ \A n \in 1..Len(w) : Run(q, w)[n] = Moves(Run(q, w)[n - 1], w[n])
  <2>1. w \in Seq(Symbols)
    BY <1>1
  <2>2. \A u \in Seq(Symbols) :
          /\ Run(q, u) \in [0..Len(u) -> SUBSET LexStates]
          /\ Run(q, u)[0] = {q}
          /\ \A n \in 1..Len(u) : Run(q, u)[n] = Moves(Run(q, u)[n - 1], u[n])
    BY RunUnfold, Zenon
  <2> QED BY <2>1, <2>2, Zenon
<1>3. \A n \in 0..(Len(y) - a) : States(q, y, a, n) \in SUBSET LexStates
  BY <1>1, <1>2 DEF States, w
<1>4. States(q, y, a, 0) = {q}
  BY <1>2 DEF States, w
<1>5. ASSUME NEW n \in Nat, a + n + 1 <= Len(y)
      PROVE  States(q, y, a, n + 1) = Moves(States(q, y, a, n), y[a + n + 1])
  <2>1. PICK m \in 1..Len(w) : m = n + 1 /\ m - 1 = n
    BY <1>1, <1>5
  <2>2. w[m] = y[a + m] /\ a + m = a + n + 1
    BY <1>1, <2>1
  <2>3. Run(q, w)[m] = Moves(Run(q, w)[n], w[m])
    BY <1>2, <2>1
  <2>4. Run(q, w)[n + 1] = Moves(Run(q, w)[n], y[a + n + 1])
    BY <2>1, <2>2, <2>3
  <2> QED BY <2>4 DEF States, w
<1> QED
  BY <1>3, <1>4, <1>5

LEMMA InMoves ==
    ASSUME NEW S, NEW b, NEW r
    PROVE  r \in Moves(S, b) <=> \E p \in S : r \in Trans(p, b)
  BY DEF Moves

(* Reading k symbols and then m more is reading k + m. *)
LEMMA StatesSplit ==
    ASSUME NEW q \in LexStates, NEW y \in Seq(Symbols), NEW a \in Nat, NEW k \in Nat, NEW m \in Nat,
           a + k + m <= Len(y), NEW r
    PROVE  r \in States(q, y, a, k + m) <=> \E p \in States(q, y, a, k) : r \in States(p, y, a + k, m)
<1>0. a \in 0..Len(y) /\ a + k \in 0..Len(y) /\ k \in 0..(Len(y) - a)
  OBVIOUS
<1>1. States(q, y, a, k) \in SUBSET LexStates
  BY <1>0, StatesUnfold
<1> DEFINE Same(n) == \A u : u \in States(q, y, a, k + n)
                              <=> \E p \in States(q, y, a, k) : u \in States(p, y, a + k, n)
           S == {n \in Nat : a + k + n <= Len(y) => Same(n)}
<1>2. 0 \in S
  <2>1. \A p \in States(q, y, a, k) : States(p, y, a + k, 0) = {p}
    BY <1>0, <1>1, StatesUnfold
  <2>2. k + 0 = k
    OBVIOUS
  <2>3. Same(0)
    BY <2>1, <2>2
  <2> QED BY <2>3
<1>3. ASSUME NEW n \in Nat, n \in S PROVE n + 1 \in S
  <2> SUFFICES ASSUME a + k + (n + 1) <= Len(y), NEW u PROVE
                 u \in States(q, y, a, k + (n + 1))
                   <=> \E p \in States(q, y, a, k) : u \in States(p, y, a + k, n + 1)
    OBVIOUS
  <2>1. PICK b : b = y[a + k + n + 1]
    OBVIOUS
  <2>2. States(q, y, a, k + (n + 1)) = Moves(States(q, y, a, k + n), b)
    <3>1. PICK l \in Nat : l = k + n
      OBVIOUS
    <3>2. a + l + 1 <= Len(y) /\ a + l + 1 = a + k + n + 1 /\ l + 1 = k + (n + 1)
      BY <3>1
    <3>3. States(q, y, a, l + 1) = Moves(States(q, y, a, l), y[a + l + 1])
      BY <1>0, <3>2, StatesUnfold
    <3> QED BY <2>1, <3>1, <3>2, <3>3
  <2>3. ASSUME NEW p \in States(q, y, a, k)
        PROVE  States(p, y, a + k, n + 1) = Moves(States(p, y, a + k, n), b)
    <3>1. PICK c \in 0..Len(y) : c = a + k
      BY <1>0
    <3>2. c + n + 1 <= Len(y) /\ c + n + 1 = a + k + n + 1 /\ p \in LexStates
      BY <1>1, <3>1
    <3>3. States(p, y, c, n + 1) = Moves(States(p, y, c, n), y[c + n + 1])
      BY <3>2, StatesUnfold
    <3> QED BY <2>1, <3>1, <3>2, <3>3
  <2>4. Same(n)
    <3>1. a + k + n <= Len(y)
      OBVIOUS
    <3> HIDE DEF Same
    <3> QED BY <1>3, <3>1
  <2>5. u \in Moves(States(q, y, a, k + n), b) <=> \E v \in States(q, y, a, k + n) : u \in Trans(v, b)
    BY InMoves
  <2>6. \A p : u \in Moves(States(p, y, a + k, n), b)
                 <=> \E v \in States(p, y, a + k, n) : u \in Trans(v, b)
    BY InMoves
  <2> QED BY <2>2, <2>3, <2>4, <2>5, <2>6
<1>4. m \in S
  <2> HIDE DEF S
  <2> QED BY <1>2, <1>3, NatSetInduction
<1> QED
  BY <1>4

(* The n symbols of y after position a are those of z after position b. *)
SameSymbols(y, a, z, b, n) == \A k \in 1..n : y[a + k] = z[b + k]

(* What the lexer reaches depends on the symbols it reads only. *)
LEMMA StatesSame ==
    ASSUME NEW q \in LexStates, NEW y \in Seq(Symbols), NEW z \in Seq(Symbols),
           NEW a \in Nat, NEW b \in Nat, NEW n \in Nat, a + n <= Len(y), b + n <= Len(z),
           SameSymbols(y, a, z, b, n)
    PROVE  States(q, y, a, n) = States(q, z, b, n)
<1>0. a \in 0..Len(y) /\ b \in 0..Len(z)
  OBVIOUS
<1> DEFINE S == {m \in Nat : m <= n => States(q, y, a, m) = States(q, z, b, m)}
<1>1. 0 \in S
  <2>1. States(q, y, a, 0) = {q} /\ States(q, z, b, 0) = {q}
    BY <1>0, StatesUnfold
  <2> QED BY <2>1
<1>2. ASSUME NEW m \in Nat, m \in S PROVE m + 1 \in S
  <2> SUFFICES ASSUME m + 1 <= n PROVE States(q, y, a, m + 1) = States(q, z, b, m + 1)
    OBVIOUS
  <2>1. a + m + 1 <= Len(y) /\ b + m + 1 <= Len(z) /\ m <= n
    OBVIOUS
  <2>2. y[a + (m + 1)] = z[b + (m + 1)]
    <3>1. PICK j \in 1..n : j = m + 1
      OBVIOUS
    <3>2. y[a + j] = z[b + j]
      BY DEF SameSymbols
    <3> QED BY <3>1, <3>2
  <2>3. a + (m + 1) = a + m + 1 /\ b + (m + 1) = b + m + 1
    OBVIOUS
  <2>4. States(q, y, a, m + 1) = Moves(States(q, y, a, m), y[a + m + 1])
    BY <1>0, <2>1, StatesUnfold
  <2>5. States(q, z, b, m + 1) = Moves(States(q, z, b, m), z[b + m + 1])
    BY <1>0, <2>1, StatesUnfold
  <2>6. States(q, y, a, m) = States(q, z, b, m)
    BY <1>2, <2>1
  <2> QED BY <2>2, <2>3, <2>4, <2>5, <2>6
<1>3. n \in S
  <2> HIDE DEF S
  <2> QED BY <1>1, <1>2, NatSetInduction
<1> QED
  BY <1>3

(* A symbol that is no byte ends every lexeme. *)
LEMMA NoByteNoState ==
    ASSUME NEW q \in LexStates, NEW y \in Seq(Symbols), NEW a \in Nat, NEW n \in Nat, a + n <= Len(y),
           NEW k \in 1..n, y[a + k] \notin Bytes
    PROVE  States(q, y, a, n) = {}
<1> SUFFICES ASSUME NEW r \in States(q, y, a, n) PROVE FALSE
  OBVIOUS
<1>1. PICK j \in Nat, m \in Nat : j + 1 = k /\ k + m = n
  <2>1. k - 1 \in Nat /\ n - k \in Nat /\ (k - 1) + 1 = k /\ k + (n - k) = n
    OBVIOUS
  <2> QED BY <2>1
<1>2. a \in 0..Len(y) /\ a + k + m <= Len(y) /\ a + j + 1 <= Len(y) /\ a + j + 1 = a + k /\ k \in Nat
  BY <1>1
<1>3. PICK p \in States(q, y, a, k) : TRUE
  <2>1. r \in States(q, y, a, k + m)
    BY <1>1
  <2>2. k \in Nat /\ m \in Nat /\ a + k + m <= Len(y)
    BY <1>1, <1>2
  <2>3. r \in States(q, y, a, k + m) <=> \E p \in States(q, y, a, k) : r \in States(p, y, a + k, m)
    BY ONLY <2>2, StatesSplit, q \in LexStates, y \in Seq(Symbols), a \in Nat
  <2> QED BY <2>1, <2>3
<1>4. States(q, y, a, j + 1) = Moves(States(q, y, a, j), y[a + j + 1])
  BY <1>2, StatesUnfold
<1>5. p \in Moves(States(q, y, a, j), y[a + k])
  BY <1>1, <1>2, <1>3, <1>4
<1> QED
  BY <1>5 DEF Moves, Trans

----------------------------------------------------------------------------
(* Terminals that are still possible *)

LEMMA FutureClosed ==
    ASSUME NEW q \in LexStates, NEW b, NEW p \in Trans(q, b)
    PROVE  p \in LexStates /\ Live(p) \subseteq Future[q]
<1>1. b \in Bytes /\ p \in Successors(q) /\ p \in LexStates
  BY LexerAssumption DEF Trans, Successors
<1>2. p \in Reachable(q)
  BY <1>1 DEF Reachable
<1>3. Reachable(p) \subseteq Reachable(q)
  BY <1>1 DEF Reachable
<1> QED
  BY <1>1, <1>2, <1>3 DEF Live, Future

(* A terminal that is possible after some symbols was possible before them. *)
LEMMA LiveBefore ==
    ASSUME NEW q \in LexStates, NEW y \in Seq(Symbols), NEW a \in Nat, NEW n \in Nat, a + n <= Len(y),
           NEW p \in States(q, y, a, n)
    PROVE  /\ p \in LexStates /\ Live(p) \subseteq Live(q)
           /\ n > 0 => Live(p) \subseteq Future[q]
<1>0. a \in 0..Len(y)
  OBVIOUS
<1> DEFINE S == {m \in Nat : a + m <= Len(y) => \A r \in States(q, y, a, m) :
                    /\ r \in LexStates /\ Live(r) \subseteq Live(q)
                    /\ m > 0 => Live(r) \subseteq Future[q]}
<1>1. 0 \in S
  <2>1. States(q, y, a, 0) = {q}
    BY <1>0, StatesUnfold
  <2> QED BY <2>1
<1>2. ASSUME NEW m \in Nat, m \in S PROVE m + 1 \in S
  <2> SUFFICES ASSUME a + (m + 1) <= Len(y), NEW r \in States(q, y, a, m + 1)
               PROVE  r \in LexStates /\ Live(r) \subseteq Future[q] /\ Live(r) \subseteq Live(q)
    OBVIOUS
  <2>1. a + m + 1 <= Len(y) /\ a + m <= Len(y)
    OBVIOUS
  <2>2. States(q, y, a, m + 1) = Moves(States(q, y, a, m), y[a + m + 1])
    BY <1>0, <2>1, StatesUnfold
  <2>3. PICK u \in States(q, y, a, m) : r \in Trans(u, y[a + m + 1])
    BY <2>2, InMoves
  <2>4. /\ u \in LexStates /\ Live(u) \subseteq Live(q)
        /\ m > 0 => Live(u) \subseteq Future[q]
    BY <1>2, <2>1
  <2>5. r \in LexStates /\ Live(r) \subseteq Future[u]
    BY <2>3, <2>4, FutureClosed
  <2>6. m = 0 => u = q
    <3>1. States(q, y, a, 0) = {q}
      BY <1>0, StatesUnfold
    <3> QED BY <3>1
  <2>7. Live(r) \subseteq Future[q]
    BY <2>4, <2>5, <2>6 DEF Live
  <2> QED BY <2>5, <2>7 DEF Live
<1>3. n \in S
  <2> HIDE DEF S
  <2> QED BY <1>1, <1>2, NatSetInduction
<1> QED
  BY <1>3

(* One lexer partition per terminal: from one state, the same symbols lead  *)
(* to one state at most from which t is possible.                           *)
LEMMA OneLive ==
    ASSUME OnePartition, NEW q \in LexStates, NEW y \in Seq(Symbols), NEW a \in Nat, NEW n \in Nat,
           a + n <= Len(y), NEW p \in States(q, y, a, n), NEW r \in States(q, y, a, n),
           NEW t \in Live(p), t \in Live(r)
    PROVE  p = r
<1>0. a \in 0..Len(y)
  OBVIOUS
<1> DEFINE S == {m \in Nat : a + m <= Len(y) =>
                    \A u, v \in States(q, y, a, m) : t \in Live(u) /\ t \in Live(v) => u = v}
<1>1. 0 \in S
  <2>1. States(q, y, a, 0) = {q}
    BY <1>0, StatesUnfold
  <2> QED BY <2>1
<1>2. ASSUME NEW m \in Nat, m \in S PROVE m + 1 \in S
  <2> SUFFICES ASSUME a + (m + 1) <= Len(y),
                      NEW u \in States(q, y, a, m + 1), NEW v \in States(q, y, a, m + 1),
                      t \in Live(u), t \in Live(v)
               PROVE  u = v
    OBVIOUS
  <2>1. a + m + 1 <= Len(y) /\ a + m <= Len(y)
    OBVIOUS
  <2>2. PICK b : b = y[a + m + 1]
    OBVIOUS
  <2>3. States(q, y, a, m + 1) = Moves(States(q, y, a, m), b)
    BY <1>0, <2>1, <2>2, StatesUnfold
  <2>4. PICK c \in States(q, y, a, m) : u \in Trans(c, b)
    BY <2>3, InMoves
  <2>5. PICK d \in States(q, y, a, m) : v \in Trans(d, b)
    BY <2>3, InMoves
  <2>6. c \in LexStates /\ d \in LexStates
    BY <2>1, LiveBefore
  <2>7. t \in Live(c) /\ t \in Live(d)
    BY <2>4, <2>5, <2>6, FutureClosed DEF Live
  <2>8. c = d
    BY <1>2, <2>1, <2>7
  <2>9. b \in Bytes /\ u \in Delta[c][b] /\ v \in Delta[c][b]
    BY <2>4, <2>5, <2>8 DEF Trans
  <2> QED BY <2>6, <2>9 DEF OnePartition
<1>3. n \in S
  <2> HIDE DEF S
  <2> QED BY <1>1, <1>2, NatSetInduction
<1> QED
  BY <1>3

----------------------------------------------------------------------------
(* Matches *)

(* t has a match of n symbols at position a of y. *)
Matches(q, y, a, n, t) == \E p \in States(q, y, a, n) : t \in Matched[p]

LEMMA InWidths ==
    ASSUME NEW y \in Seq(Symbols), NEW a \in 0..Len(y), NEW q, NEW t, NEW n
    PROVE  n \in MatchWidths(q, Suffix(y, a), t)
             <=> n \in 1..(Len(y) - a) /\ Matches(q, y, a, n, t)
<1>1. Len(Suffix(y, a)) = Len(y) - a
  BY SuffixFacts
<1> QED
  BY <1>1 DEF MatchWidths, Matches, States

LEMMA InEndStates ==
    ASSUME NEW y \in Seq(Symbols), NEW a \in 0..Len(y), NEW q
    PROVE  EndStates(q, Suffix(y, a)) = States(q, y, a, Len(y) - a)
<1>1. Len(Suffix(y, a)) = Len(y) - a
  BY SuffixFacts
<1> QED
  BY <1>1 DEF EndStates, States

LEMMA WholeSuffix ==
    ASSUME NEW w \in Seq(Symbols)
    PROVE  Suffix(w, 0) = w
<1>1. Suffix(w, 0) \in Seq(Symbols) /\ Len(Suffix(w, 0)) = Len(w)
      /\ \A k \in 1..Len(w) : Suffix(w, 0)[k] = w[k]
  <2>1. 0 \in 0..Len(w) /\ Len(w) - 0 = Len(w) /\ \A k \in 1..Len(w) : 0 + k = k
    OBVIOUS
  <2> QED BY <2>1, SuffixFacts
<1>2. PICK z \in Seq(Symbols) : z = Suffix(w, 0)
  BY <1>1
<1> QED
  BY <1>1, <1>2

----------------------------------------------------------------------------
(* Types *)

LEMMA EndStatesType ==
    ASSUME NEW q \in LexStates, NEW w \in Seq(Bytes)
    PROVE  EndStates(q, w) \subseteq LexStates
<1>1. Run(q, w) \in [0..Len(w) -> SUBSET LexStates] /\ Len(w) \in 0..Len(w)
  BY RunUnfold
<1> QED
  BY <1>1 DEF EndStates

LEMMA FutureType ==
    ASSUME NEW q \in LexStates
    PROVE  Future[q] \subseteq Terminals
<1>1. Reachable(q) \subseteq LexStates
  BY DEF Reachable
<1> QED
  BY <1>1, LexerAssumption DEF Future

LEMMA GssIntro ==
    ASSUME NEW g, NEW D, D \subseteq Stacks, g = [s \in D |-> g[s]], \A s \in D : g[s] \in Exclusions
    PROVE  IsGss(g)
<1>1. DOMAIN g = D
  OBVIOUS
<1> QED
  BY <1>1 DEF IsGss

LEMMA GssElim ==
    ASSUME NEW g, IsGss(g)
    PROVE  /\ DOMAIN g \subseteq Stacks
           /\ g = [s \in DOMAIN g |-> g[s]]
           /\ \A s \in DOMAIN g : g[s] \in Exclusions
  BY DEF IsGss

LEMMA EmptyType == IsGss(EmptyGss) /\ DOMAIN EmptyGss = {}
<1>1. DOMAIN EmptyGss = {}
  BY DEF EmptyGss
<1>2. EmptyGss = [s \in {} |-> EmptyGss[s]]
  BY DEF EmptyGss
<1> QED
  BY <1>1, <1>2, GssIntro

LEMMA AccType ==
    ASSUME NEW g, IsGss(g), NEW s
    PROVE  Acc(g, s) \in Exclusions
  BY GssElim DEF Acc, Exclusions

LEMMA MergeType ==
    ASSUME NEW g, NEW h, IsGss(g), IsGss(h)
    PROVE  IsGss(Merge(g, h))
<1> DEFINE m == Merge(g, h)
           D == DOMAIN g \cup DOMAIN h
<1>1. D \subseteq Stacks
  BY GssElim
<1>2. m = [s \in D |-> m[s]] /\ \A s \in D : m[s] = Acc(g, s) \cup Acc(h, s)
  BY DEF Merge
<1>3. \A s \in D : m[s] \in Exclusions
  <2> SUFFICES ASSUME NEW s \in D PROVE m[s] \in Exclusions
    OBVIOUS
  <2>1. Acc(g, s) \in Exclusions /\ Acc(h, s) \in Exclusions
    BY AccType
  <2> HIDE DEF m, D
  <2> QED BY <1>2, <2>1 DEF Exclusions
<1> HIDE DEF m, D
<1>4. IsGss(m)
  BY <1>1, <1>2, <1>3, GssIntro
<1> QED
  BY <1>4 DEF m

LEMMA InAdvance ==
    ASSUME NEW g, NEW t
    PROVE  /\ \A s2 : s2 \in DOMAIN AdvanceStacks(g, t) <=> \E s \in DOMAIN g : s2 \in Advance[s][t]
           /\ \A s2 \in DOMAIN AdvanceStacks(g, t) : \A e :
                e \in AdvanceStacks(g, t)[s2] <=>
                  \E s \in DOMAIN g : s2 \in Advance[s][t] /\ e \in g[s]
           /\ AdvanceStacks(g, t) = [s \in DOMAIN AdvanceStacks(g, t) |-> AdvanceStacks(g, t)[s]]
  BY DEF AdvanceStacks

LEMMA AdvanceType ==
    ASSUME NEW g, IsGss(g), NEW t \in Terminals
    PROVE  IsGss(AdvanceStacks(g, t))
<1> DEFINE m == AdvanceStacks(g, t)
           D == DOMAIN m
<1>0. DOMAIN g \subseteq Stacks /\ \A s \in DOMAIN g : g[s] \subseteq LexStates \X Terminals
  BY GssElim DEF Exclusions
<1>1. D \subseteq Stacks
  <2>1. \A s2 \in D : \E s \in DOMAIN g : s2 \in Advance[s][t]
    BY InAdvance
  <2> QED BY <1>0, <2>1, ParserAssumption
<1>2. m = [s \in D |-> m[s]]
  BY InAdvance
<1>3. \A s \in D : m[s] \in Exclusions
  <2> SUFFICES ASSUME NEW s2 \in D, NEW e \in m[s2] PROVE e \in LexStates \X Terminals
    BY DEF Exclusions
  <2>1. PICK s \in DOMAIN g : e \in g[s]
    BY InAdvance
  <2> QED BY <1>0, <2>1
<1> HIDE DEF m, D
<1>4. IsGss(m)
  BY <1>1, <1>2, <1>3, GssIntro
<1> QED
  BY <1>4 DEF m

(* The exclusions a match of t records where the lexer may go on. *)
Recorded(ends, t) == {<<q, t>> : q \in {p \in ends : t \in Future[p]}}

LEMMA DisallowType ==
    ASSUME NEW g, IsGss(g), NEW t \in Terminals, NEW ends \in SUBSET LexStates
    PROVE  IsGss(ApplyFutureTerminalDisallow(g, ends, t))
<1> DEFINE m == ApplyFutureTerminalDisallow(g, ends, t)
           D == DOMAIN g
<1>1. D \subseteq Stacks /\ \A s \in D : g[s] \in Exclusions
  BY GssElim
<1>2. m = [s \in D |-> m[s]] /\ \A s \in D : m[s] = g[s] \cup Recorded(ends, t)
  BY DEF ApplyFutureTerminalDisallow, Recorded
<1>3. Recorded(ends, t) \in Exclusions
  BY DEF Recorded, Exclusions
<1>4. \A s \in D : m[s] \in Exclusions
  <2> HIDE DEF m, D
  <2> QED BY <1>1, <1>2, <1>3 DEF Exclusions
<1> HIDE DEF m, D
<1>5. IsGss(m)
  BY <1>1, <1>2, <1>4, GssIntro
<1> QED
  BY <1>5 DEF m

LEMMA InMoved ==
    ASSUME NEW E, NEW w, NEW e
    PROVE  e \in MovedExclusions(E, w) <=>
             \E d \in E : \E p \in EndStates(d[1], w) : d[2] \in Future[p] /\ e = <<p, d[2]>>
  BY DEF MovedExclusions

LEMMA MovedType ==
    ASSUME NEW E \in Exclusions, NEW w \in Seq(Bytes)
    PROVE  MovedExclusions(E, w) \in Exclusions
<1> SUFFICES ASSUME NEW e \in MovedExclusions(E, w) PROVE e \in LexStates \X Terminals
  BY DEF Exclusions
<1>1. PICK d \in E : \E p \in EndStates(d[1], w) : d[2] \in Future[p] /\ e = <<p, d[2]>>
  BY InMoved
<1>2. d[1] \in LexStates /\ d[2] \in Terminals
  BY DEF Exclusions
<1>3. EndStates(d[1], w) \subseteq LexStates
  BY <1>2, EndStatesType
<1> QED
  BY <1>1, <1>2, <1>3

LEMMA PruneType ==
    ASSUME NEW g, IsGss(g), NEW w \in Seq(Bytes)
    PROVE  IsGss(Prune(g, w))
<1> DEFINE m == Prune(g, w)
           D == {s \in DOMAIN g : ~Violated(g[s], w)}
<1>1. D \subseteq Stacks /\ \A s \in D : g[s] \in Exclusions
  BY GssElim
<1>2. m = [s \in D |-> m[s]] /\ \A s \in D : m[s] = MovedExclusions(g[s], w)
  BY DEF Prune
<1>3. \A s \in D : m[s] \in Exclusions
  BY <1>1, <1>2, MovedType
<1> HIDE DEF m, D
<1>4. IsGss(m)
  BY <1>1, <1>2, <1>3, GssIntro
<1> QED
  BY <1>4 DEF m

LEMMA RestFacts ==
    ASSUME TypeOK
    PROVE  Rest \in Seq(Bytes) /\ Rest = Suffix(bytes, offset) /\ Len(Rest) = Len(bytes) - offset
<1>1. bytes \in Seq(Bytes) /\ offset \in 0..Len(bytes)
  BY DEF TypeOK
<1>2. offset + 1 \in 1..(Len(bytes) + 1) /\ \A k \in (offset + 1)..Len(bytes) : bytes[k] \in Bytes
  BY <1>1
<1>3. SubSeq(bytes, offset + 1, Len(bytes)) \in Seq(Bytes)
  BY <1>1, <1>2
<1>4. Len(SubSeq(bytes, offset + 1, Len(bytes))) = Len(bytes) - offset
  BY <1>1
<1> QED
  BY <1>3, <1>4 DEF Rest, Suffix

LEMMA AfterMatchType ==
    ASSUME TypeOK, NEW g, IsGss(g), NEW q \in LexStates, NEW t \in Terminals
    PROVE  IsGss(AfterMatch(g, q, t))
<1>1. EndStates(q, Rest) \in SUBSET LexStates
  BY RestFacts, EndStatesType
<1>2. IsGss(ApplyFutureTerminalDisallow(AdvanceStacks(g, t), EndStates(q, Rest), t))
  BY <1>1, AdvanceType, DisallowType
<1> QED
  BY <1>2 DEF AfterMatch

(* A match of t from entry q takes the queue to offset i. *)
Arrives(q, i, t) == i > offset /\ LongestMatch(q, Rest, t, i - offset)

LEMMA InArrivals ==
    ASSUME NEW g, NEW q, NEW i
    PROVE  /\ \A s : s \in DOMAIN Arrivals(g, q, i) <=>
                \E t \in Terminals : Arrives(q, i, t) /\ s \in DOMAIN AfterMatch(g, q, t)
           /\ \A s \in DOMAIN Arrivals(g, q, i) : \A e :
                e \in Arrivals(g, q, i)[s] <=>
                  \E t \in Terminals : Arrives(q, i, t) /\ e \in Acc(AfterMatch(g, q, t), s)
           /\ Arrivals(g, q, i) = [s \in DOMAIN Arrivals(g, q, i) |-> Arrivals(g, q, i)[s]]
  BY DEF Arrivals, Arrives

LEMMA ArrivalsType ==
    ASSUME TypeOK, NEW g, IsGss(g), NEW q \in LexStates, NEW i
    PROVE  IsGss(Arrivals(g, q, i))
<1> DEFINE m == Arrivals(g, q, i)
           D == DOMAIN m
<1>0. \A t \in Terminals : IsGss(AfterMatch(g, q, t))
  BY AfterMatchType
<1>1. D \subseteq Stacks
  <2> SUFFICES ASSUME NEW s \in D PROVE s \in Stacks
    OBVIOUS
  <2>1. PICK t \in Terminals : s \in DOMAIN AfterMatch(g, q, t)
    BY InArrivals
  <2> QED BY <1>0, <2>1, GssElim
<1>2. m = [s \in D |-> m[s]]
  BY InArrivals
<1>3. \A s \in D : m[s] \in Exclusions
  <2> SUFFICES ASSUME NEW s \in D, NEW e \in m[s] PROVE e \in LexStates \X Terminals
    BY DEF Exclusions
  <2>1. PICK t \in Terminals : e \in Acc(AfterMatch(g, q, t), s)
    BY InArrivals
  <2>2. Acc(AfterMatch(g, q, t), s) \in Exclusions
    BY <1>0, AccType
  <2> QED BY <2>1, <2>2 DEF Exclusions
<1> HIDE DEF m, D
<1>4. IsGss(m)
  BY <1>1, <1>2, <1>3, GssIntro
<1> QED
  BY <1>4 DEF m

LEMMA StateMapElim ==
    ASSUME NEW f, IsStateMap(f)
    PROVE  DOMAIN f = LexStates /\ \A q \in LexStates : IsGss(f[q])
<1>1. f = [q \in LexStates |-> f[q]] /\ \A q \in LexStates : IsGss(f[q])
  BY DEF IsStateMap
<1> QED
  BY <1>1

LEMMA NoStatesType == IsStateMap(NoStates) /\ \A q \in LexStates : NoStates[q] = EmptyGss
<1>1. \A q \in LexStates : NoStates[q] = EmptyGss
  BY DEF NoStates
<1>2. NoStates = [q \in LexStates |-> NoStates[q]]
  BY DEF NoStates
<1> QED
  BY <1>1, <1>2, EmptyType DEF IsStateMap

LEMMA UpdateType ==
    ASSUME NEW f, IsStateMap(f), NEW r \in LexStates, NEW g, IsGss(g)
    PROVE  /\ IsStateMap([f EXCEPT ![r] = g])
           /\ \A q \in LexStates : [f EXCEPT ![r] = g][q] = IF q = r THEN g ELSE f[q]
<1>1. f = [q \in LexStates |-> f[q]] /\ \A q \in LexStates : IsGss(f[q])
  BY DEF IsStateMap
<1>2. PICK m : m = [f EXCEPT ![r] = g]
  OBVIOUS
<1>3. \A q \in LexStates : m[q] = IF q = r THEN g ELSE f[q]
  BY <1>1, <1>2
<1>4. m = [q \in LexStates |-> m[q]]
  BY <1>1, <1>2
<1>5. \A q \in LexStates : IsGss(m[q])
  BY <1>1, <1>3
<1> QED
  BY <1>2, <1>3, <1>4, <1>5 DEF IsStateMap

LEMMA MergeIntoType ==
    ASSUME NEW f, IsStateMap(f), NEW r \in LexStates, NEW g, IsGss(g)
    PROVE  /\ IsStateMap(MergeInto(f, r, g))
           /\ \A q \in LexStates : MergeInto(f, r, g)[q] = IF q = r THEN Merge(f[r], g) ELSE f[q]
<1>1. MergeInto(f, r, g) = [f EXCEPT ![r] = Merge(f[r], g)]
  BY DEF MergeInto
<1>2. IsGss(Merge(f[r], g))
  BY StateMapElim, MergeType
<1>3. PICK h : h = Merge(f[r], g)
  OBVIOUS
<1>4. IsGss(h)
  BY <1>2, <1>3
<1>5. /\ IsStateMap([f EXCEPT ![r] = h])
      /\ \A q \in LexStates : [f EXCEPT ![r] = h][q] = IF q = r THEN h ELSE f[q]
  BY <1>4, UpdateType
<1>6. MergeInto(f, r, g) = [f EXCEPT ![r] = h]
  BY <1>1, <1>3
<1> QED
  BY <1>3, <1>5, <1>6

LEMMA AtOffsetType ==
    ASSUME TypeOK, NEW q \in LexStates
    PROVE  IsGss(AtOffset(q))
<1>1. bytes \in Seq(Bytes) /\ offset \in 0..Len(bytes) /\ 0 \in 0..Len(bytes)
  BY DEF TypeOK
<1>2. IsStateMap(queue[0]) /\ IsStateMap(queue[offset])
  BY <1>1 DEF TypeOK
<1>3. IsGss(queue[0][q]) /\ IsGss(queue[offset][q])
  BY <1>2, StateMapElim
<1>4. IsGss(Prune(queue[0][q], bytes))
  BY <1>1, <1>3, PruneType
<1> QED
  BY <1>3, <1>4 DEF AtOffset

LEMMA ResidualsType ==
    ASSUME NEW g, IsGss(g), NEW q
    PROVE  /\ IsStateMap(Residuals(g, q))
           /\ \A p \in LexStates : Residuals(g, q)[p] =
                IF g # EmptyGss /\ p \in EndStates(q, Rest) /\ EndStateMayAdvance(g, p)
                THEN g ELSE EmptyGss
<1> DEFINE m == Residuals(g, q)
<1>1. \A p \in LexStates : m[p] =
                IF g # EmptyGss /\ p \in EndStates(q, Rest) /\ EndStateMayAdvance(g, p)
                THEN g ELSE EmptyGss
  BY DEF Residuals
<1>2. m = [p \in LexStates |-> m[p]]
  BY DEF Residuals
<1>3. \A p \in LexStates : IsGss(m[p])
  BY <1>1, EmptyType
<1> QED
  BY <1>1, <1>2, <1>3 DEF IsStateMap

(* What one iteration of the inner loop does to the queue. *)
LEMMA ProcessQueue ==
    ASSUME TypeOK, NEW q \in LexStates, ProcessEntry(q)
    PROVE  /\ queue' = [i \in 0..Len(bytes) |-> queue'[i]]
           /\ \A i \in 0..Len(bytes) :
                /\ IsStateMap(queue'[i])
                /\ i = offset => \A p \in LexStates :
                     queue'[i][p] = IF p = q THEN EmptyGss ELSE queue[i][p]
                /\ i # offset /\ i = Len(bytes) => queue'[i] = queue[i]
                /\ i # offset /\ i # Len(bytes) => \A p \in LexStates :
                     queue'[i][p] = IF p = LexStart
                        THEN Merge(queue[i][LexStart], Arrivals(AtOffset(q), q, i)) ELSE queue[i][p]
<1> DEFINE g == AtOffset(q)
           New(i) == IF i = offset THEN [queue[i] EXCEPT ![q] = EmptyGss]
             ELSE IF i = Len(bytes) THEN queue[i]
             ELSE MergeInto(queue[i], LexStart, Arrivals(g, q, i))
<1>1. queue' = [i \in 0..Len(bytes) |-> New(i)]
  BY DEF ProcessEntry
<1>2. \A i \in 0..Len(bytes) : queue'[i] = New(i)
  <2> HIDE DEF New
  <2> QED BY <1>1
<1>3. queue' = [i \in 0..Len(bytes) |-> queue'[i]]
  <2> HIDE DEF New
  <2> QED BY <1>1
<1>4. ASSUME NEW i \in 0..Len(bytes)
      PROVE  /\ IsStateMap(queue'[i])
             /\ i = offset => \A p \in LexStates :
                  queue'[i][p] = IF p = q THEN EmptyGss ELSE queue[i][p]
             /\ i # offset /\ i = Len(bytes) => queue'[i] = queue[i]
             /\ i # offset /\ i # Len(bytes) => \A p \in LexStates :
                  queue'[i][p] = IF p = LexStart
                     THEN Merge(queue[i][LexStart], Arrivals(g, q, i)) ELSE queue[i][p]
  <2>0. IsStateMap(queue[i]) /\ LexStart \in LexStates
    BY LexerAssumption DEF TypeOK
  <2>1. CASE i = offset
    <3>1. queue'[i] = [queue[i] EXCEPT ![q] = EmptyGss]
      BY <1>2, <2>1
    <3>2. /\ IsStateMap([queue[i] EXCEPT ![q] = EmptyGss])
          /\ \A p \in LexStates :
               [queue[i] EXCEPT ![q] = EmptyGss][p] = IF p = q THEN EmptyGss ELSE queue[i][p]
      BY <2>0, EmptyType, UpdateType
    <3> QED BY <2>1, <3>1, <3>2
  <2>2. CASE i # offset /\ i = Len(bytes)
    BY <1>2, <2>0, <2>2
  <2>3. CASE i # offset /\ i # Len(bytes)
    <3>1. queue'[i] = MergeInto(queue[i], LexStart, Arrivals(g, q, i))
      BY <1>2, <2>3
    <3>2. IsGss(Arrivals(g, q, i))
      BY AtOffsetType, ArrivalsType
    <3> HIDE DEF g
    <3>3. /\ IsStateMap(MergeInto(queue[i], LexStart, Arrivals(g, q, i)))
          /\ \A p \in LexStates : MergeInto(queue[i], LexStart, Arrivals(g, q, i))[p] =
               IF p = LexStart THEN Merge(queue[i][LexStart], Arrivals(g, q, i)) ELSE queue[i][p]
      BY <2>0, <3>2, MergeIntoType
    <3> QED BY <2>3, <3>1, <3>3
  <2> QED BY <2>1, <2>2, <2>3
<1> QED
  BY <1>3, <1>4

LEMMA ProcessPending ==
    ASSUME TypeOK, NEW q \in LexStates, ProcessEntry(q)
    PROVE  /\ IsStateMap(pending')
           /\ \A p \in LexStates :
                pending'[p] = Merge(IF p = LexStart
                   THEN Merge(pending[p], Arrivals(AtOffset(q), q, Len(bytes))) ELSE pending[p],
                   Residuals(AtOffset(q), q)[p])
<1> DEFINE g == AtOffset(q)
           a == Arrivals(g, q, Len(bytes))
           m == MergeInto(pending, LexStart, a)
           r == Residuals(g, q)
<1>1. pending' = [p \in LexStates |-> Merge(m[p], r[p])]
  BY DEF ProcessEntry
<1>2. IsGss(g) /\ IsGss(a) /\ IsStateMap(pending) /\ LexStart \in LexStates
  BY AtOffsetType, ArrivalsType, LexerAssumption DEF TypeOK
<1> HIDE DEF a
<1>3. IsStateMap(m) /\ \A p \in LexStates : m[p] = IF p = LexStart THEN Merge(pending[LexStart], a) ELSE pending[p]
  BY <1>2, MergeIntoType
<1>4. IsStateMap(r)
  BY <1>2, ResidualsType
<1> HIDE DEF m, r, g
<1>5. \A p \in LexStates : IsGss(Merge(m[p], r[p]))
  BY <1>3, <1>4, StateMapElim, MergeType
<1>6. \A p \in LexStates : pending'[p] = Merge(m[p], r[p])
  BY <1>1
<1>7. pending' = [p \in LexStates |-> pending'[p]]
  BY <1>1
<1>8. IsStateMap(pending')
  BY <1>5, <1>6, <1>7 DEF IsStateMap
<1>9. \A p \in LexStates : pending'[p] = Merge(IF p = LexStart THEN Merge(pending[p], a) ELSE pending[p], r[p])
  BY <1>3, <1>6
<1> QED
  BY <1>8, <1>9 DEF a, r, g

LEMMA LoadFacts ==
    ASSUME TypeOK, NEW w \in Seq(Bytes), LoadQueue(w)
    PROVE  /\ bytes' = w /\ offset' = 0 /\ busy' = TRUE
           /\ frontier' = NoStates /\ pending' = NoStates
           /\ queue' = [i \in 0..Len(w) |-> queue'[i]]
           /\ queue'[0] = IF w = <<>> THEN NoStates ELSE frontier
           /\ \A i \in 1..Len(w) : queue'[i] = NoStates
<1> DEFINE f == IF w = <<>> THEN NoStates ELSE frontier
<1>1. queue' = [NoQueue(w) EXCEPT ![0] = f]
  BY DEF LoadQueue
<1>2. 0 \in 0..Len(w) /\ \A i \in 1..Len(w) : i \in 0..Len(w) /\ i # 0
  OBVIOUS
<1>3. NoQueue(w) = [i \in 0..Len(w) |-> NoStates]
  BY DEF NoQueue
<1> HIDE DEF f
<1>4. /\ queue' = [i \in 0..Len(w) |-> queue'[i]] /\ queue'[0] = f
      /\ \A i \in 1..Len(w) : queue'[i] = NoStates
  BY <1>1, <1>2, <1>3
<1> QED
  BY <1>4 DEF LoadQueue, f

LEMMA LoadType ==
    ASSUME TypeOK, NEW w \in Seq(Bytes), LoadQueue(w), IsGss(special'), texts' \subseteq Seq(Symbols)
    PROVE  TypeOK'
<1>1. /\ bytes' = w /\ offset' = 0 /\ busy' = TRUE
      /\ frontier' = NoStates /\ pending' = NoStates
      /\ queue' = [i \in 0..Len(w) |-> queue'[i]]
      /\ queue'[0] = IF w = <<>> THEN NoStates ELSE frontier
      /\ \A i \in 1..Len(w) : queue'[i] = NoStates
  BY LoadFacts
<1>2. IsStateMap(frontier) /\ IsStateMap(NoStates)
  BY NoStatesType DEF TypeOK
<1>3. 0 \in 0..Len(w) /\ \A i \in 0..Len(w) : i = 0 \/ i \in 1..Len(w)
  OBVIOUS
<1>4. \A i \in 0..Len(w) : IsStateMap(queue'[i])
  BY <1>1, <1>2, <1>3
<1> QED
  BY <1>1, <1>2, <1>3, <1>4 DEF TypeOK

(* The parses the exact special terminals of id k lead to. *)
LEMMA InSpecialPaths ==
    ASSUME NEW k
    PROVE  /\ \A s2 : s2 \in DOMAIN SpecialPaths(k) <=>
                \E t \in TokenSpecials[k] : \E s \in DOMAIN frontier[LexStart] : s2 \in Advance[s][t]
           /\ \A s2 \in DOMAIN SpecialPaths(k) : SpecialPaths(k)[s2] = {}
           /\ SpecialPaths(k) = [s \in DOMAIN SpecialPaths(k) |-> SpecialPaths(k)[s]]
<1>1. PICK cleared : cleared = [s \in DOMAIN frontier[LexStart] |-> {}]
  OBVIOUS
<1>2. PICK reached : reached = UNION {DOMAIN AdvanceStacks(cleared, t) : t \in TokenSpecials[k]}
  OBVIOUS
<1>3. SpecialPaths(k) = [s \in reached |-> {}]
  BY <1>1, <1>2 DEF SpecialPaths
<1>4. DOMAIN cleared = DOMAIN frontier[LexStart]
  BY <1>1
<1>5. \A s2 : s2 \in reached <=> \E t \in TokenSpecials[k] : s2 \in DOMAIN AdvanceStacks(cleared, t)
  BY <1>2
<1>6. \A s2, t : s2 \in DOMAIN AdvanceStacks(cleared, t) <=> \E s \in DOMAIN cleared : s2 \in Advance[s][t]
  BY InAdvance
<1> QED
  BY <1>3, <1>4, <1>5, <1>6

LEMMA SpecialType ==
    ASSUME TypeOK, NEW k \in Tokens
    PROVE  IsGss(SpecialPaths(k))
<1> DEFINE m == SpecialPaths(k)
           D == DOMAIN m
<1>1. DOMAIN frontier[LexStart] \subseteq Stacks
  BY StateMapElim, GssElim, LexerAssumption DEF TypeOK
<1>2. D \subseteq Stacks
  <2> SUFFICES ASSUME NEW s2 \in D PROVE s2 \in Stacks
    OBVIOUS
  <2>1. PICK t \in TokenSpecials[k] : \E s \in DOMAIN frontier[LexStart] : s2 \in Advance[s][t]
    BY InSpecialPaths
  <2>2. t \in Terminals
    BY TokenAssumption
  <2> QED BY <1>1, <2>1, <2>2, ParserAssumption
<1>3. m = [s \in D |-> m[s]] /\ \A s \in D : m[s] \in Exclusions
  BY InSpecialPaths DEF Exclusions
<1> HIDE DEF m, D
<1>4. IsGss(m)
  BY <1>2, <1>3, GssIntro
<1> QED
  BY <1>4 DEF m

LEMMA StartFacts ==
    /\ IsStateMap(StartFrontier)
    /\ DOMAIN StartFrontier[LexStart] = {StartStack} /\ StartFrontier[LexStart][StartStack] = {}
    /\ \A q \in LexStates \ {LexStart} : StartFrontier[q] = EmptyGss
<1>1. PICK g : g = [s \in {StartStack} |-> {}]
  OBVIOUS
<1>2. DOMAIN g = {StartStack} /\ g[StartStack] = {} /\ g = [s \in {StartStack} |-> g[s]]
  BY <1>1
<1>3. IsGss(g)
  BY <1>2, GssIntro, ParserAssumption DEF Exclusions
<1>4. StartFrontier = [NoStates EXCEPT ![LexStart] = g]
  BY <1>1 DEF StartFrontier
<1>5. /\ IsStateMap([NoStates EXCEPT ![LexStart] = g])
      /\ \A q \in LexStates : [NoStates EXCEPT ![LexStart] = g][q] = IF q = LexStart THEN g ELSE NoStates[q]
  BY <1>3, NoStatesType, UpdateType, LexerAssumption
<1> QED
  BY <1>2, <1>4, <1>5, NoStatesType, LexerAssumption

LEMMA NoQueueType ==
    /\ <<>> \in Seq(Bytes) /\ 0 \in 0..Len(<<>>)
    /\ NoQueue(<<>>) = [i \in 0..Len(<<>>) |-> NoQueue(<<>>)[i]]
    /\ \A i \in 0..Len(<<>>) : IsStateMap(NoQueue(<<>>)[i])
<1>1. \A i \in 0..Len(<<>>) : NoQueue(<<>>)[i] = NoStates
  BY DEF NoQueue
<1>2. NoQueue(<<>>) = [i \in 0..Len(<<>>) |-> NoQueue(<<>>)[i]]
  BY DEF NoQueue
<1> QED
  BY <1>1, <1>2, NoStatesType

LEMMA InitType ==
    ASSUME Init
    PROVE  TypeOK
<1>1. IsStateMap(frontier) /\ IsStateMap(pending) /\ IsGss(special)
  BY StartFacts, NoStatesType, EmptyType DEF Init
<1>2. bytes \in Seq(Bytes) /\ offset \in 0..Len(bytes) /\ busy \in BOOLEAN
  BY NoQueueType DEF Init
<1>3. queue = [i \in 0..Len(bytes) |-> queue[i]] /\ \A i \in 0..Len(bytes) : IsStateMap(queue[i])
  BY NoQueueType DEF Init
<1>4. texts \subseteq Seq(Symbols)
  BY DEF Init
<1> QED
  BY <1>1, <1>2, <1>3, <1>4 DEF TypeOK

LEMMA TextsGrow ==
    ASSUME TypeOK, NEW w \in Seq(Bytes)
    PROVE  {x \o w : x \in texts} \subseteq Seq(Symbols)
<1>1. w \in Seq(Symbols) /\ texts \subseteq Seq(Symbols)
  BY BytesAreSymbols DEF TypeOK
<1>2. \A x \in texts : x \o w \in Seq(Symbols)
  BY <1>1
<1> QED
  BY <1>2

LEMMA TokenTexts ==
    ASSUME TypeOK, NEW k \in Tokens
    PROVE  {Append(x, t) : x \in texts, t \in TokenSpecials[k]} \subseteq Seq(Symbols)
<1>1. texts \subseteq Seq(Symbols) /\ TokenSpecials[k] \subseteq Symbols
  BY TokenAssumption DEF TypeOK, Symbols
<1>2. \A x \in texts, t \in TokenSpecials[k] : Append(x, t) \in Seq(Symbols)
  BY <1>1
<1> QED
  BY <1>2

LEMMA FinishType ==
    ASSUME TypeOK, FinishCommit
    PROVE  TypeOK' /\ \A q \in LexStates : frontier'[q] = IF q = LexStart THEN Merge(pending[q], special) ELSE pending[q]
<1>1. /\ IsStateMap(frontier')
      /\ \A q \in LexStates : frontier'[q] = IF q = LexStart THEN Merge(pending[q], special) ELSE pending[q]
  <2>1. IsStateMap(pending) /\ IsGss(special) /\ frontier' = MergeInto(pending, LexStart, special)
    BY DEF TypeOK, FinishCommit
  <2> QED BY <2>1, MergeIntoType, LexerAssumption
<1>2. IsStateMap(pending') /\ IsGss(special')
  BY NoStatesType, EmptyType DEF FinishCommit
<1>3. bytes' \in Seq(Bytes) /\ offset' \in 0..Len(bytes') /\ busy' \in BOOLEAN
  BY NoQueueType DEF FinishCommit
<1>4. queue' = [i \in 0..Len(bytes') |-> queue'[i]] /\ \A i \in 0..Len(bytes') : IsStateMap(queue'[i])
  BY NoQueueType DEF FinishCommit
<1>5. texts' \subseteq Seq(Symbols)
  BY DEF TypeOK, FinishCommit
<1> QED
  BY <1>1, <1>2, <1>3, <1>4, <1>5 DEF TypeOK

LEMMA NextType ==
    ASSUME TypeOK, [Next]_vars
    PROVE  TypeOK'
<1>1. CASE Start
  <2>1. IsStateMap(frontier') /\ texts' \subseteq Seq(Symbols)
    BY <1>1, StartFacts DEF Start
  <2> QED BY <1>1, <2>1 DEF Start, TypeOK
<1>2. ASSUME NEW k \in Tokens, CommitToken(k) PROVE TypeOK'
  <2>1. PICK w \in Seq(Bytes) : w = TokenBytes[k]
    BY TokenAssumption
  <2>2. LoadQueue(w) /\ IsGss(special')
    BY <1>2, <2>1, SpecialType DEF CommitToken
  <2>3. texts' = (IF w = <<>> THEN {} ELSE {x \o w : x \in texts})
                   \cup {Append(x, t) : x \in texts, t \in TokenSpecials[k]}
    BY <1>2, <2>1 DEF CommitToken
  <2>4. texts' \subseteq Seq(Symbols)
    <3> DEFINE A == {x \o w : x \in texts}
               B == {Append(x, t) : x \in texts, t \in TokenSpecials[k]}
    <3>1. A \subseteq Seq(Symbols)
      BY TextsGrow
    <3>2. B \subseteq Seq(Symbols)
      BY TokenTexts
    <3>3. texts' = (IF w = <<>> THEN {} ELSE A) \cup B
      BY <2>3
    <3> HIDE DEF A, B
    <3> QED BY <3>1, <3>2, <3>3
  <2> QED BY <2>2, <2>4, LoadType
<1>3. ASSUME NEW k \in Tokens, CommitBytes(TokenBytes[k]) PROVE TypeOK'
  <2>1. PICK w \in Seq(Bytes) : w = TokenBytes[k]
    BY TokenAssumption
  <2>2. LoadQueue(w) /\ IsGss(special') /\ texts' \subseteq Seq(Symbols)
    BY <1>3, <2>1, EmptyType, TextsGrow DEF CommitBytes
  <2> QED BY <2>2, LoadType
<1>4. ASSUME NEW q \in LexStates, ProcessEntry(q) PROVE TypeOK'
  <2>1. IsStateMap(pending')
    BY <1>4, ProcessPending
  <2>2. queue' = [i \in 0..Len(bytes) |-> queue'[i]] /\ \A i \in 0..Len(bytes) : IsStateMap(queue'[i])
    BY <1>4, ProcessQueue
  <2>3. UNCHANGED <<frontier, special, bytes, offset, busy, texts>>
    BY <1>4 DEF ProcessEntry
  <2> QED BY <2>1, <2>2, <2>3 DEF TypeOK
<1>5. CASE NextOffset
  <2>1. offset \in 0..Len(bytes) /\ offset < Len(bytes) /\ offset' = offset + 1 /\ Len(bytes) \in Nat
    BY <1>5 DEF NextOffset, TypeOK
  <2>2. offset' \in 0..Len(bytes)
    BY <2>1
  <2> QED BY <1>5, <2>2 DEF NextOffset, TypeOK
<1>6. CASE FinishCommit
  BY <1>6, FinishType
<1>7. CASE UNCHANGED vars
  BY <1>7 DEF vars, TypeOK
<1> QED
  BY <1>1, <1>2, <1>3, <1>4, <1>5, <1>6, <1>7 DEF Next

(* Every queue entry, residual and frontier is a map from lexer states to   *)
(* stacks with exclusions, and the queue reaches exactly to the end of the  *)
(* bytes being committed, whatever the lexer, the parser and the tokens.    *)
THEOREM CommitTyped == Spec => []TypeOK
<1>1. Init => TypeOK
  BY InitType
<1>2. TypeOK /\ [Next]_vars => TypeOK'
  BY NextType
<1> QED
  BY <1>1, <1>2, PTL DEF Spec

----------------------------------------------------------------------------
(* The reference parses of a text *)

Ends(C, x, k) == UNION {Shifted(C[l[1]], l[2]) : l \in LexemesTo(x, k)}

LEMMA InShifted ==
    ASSUME NEW S, NEW t, NEW z
    PROVE  z \in Shifted(S, t) <=> IF t \in Ignored THEN z \in S ELSE \E s \in S : z \in Advance[s][t]
  BY DEF Shifted

LEMMA InEnds ==
    ASSUME NEW C, NEW x, NEW k, NEW z
    PROVE  z \in Ends(C, x, k) <=>
             \E i \in 0..(k - 1) : \E t \in Terminals : Lexeme(x, i, k, t) /\ z \in Shifted(C[i], t)
<1>1. z \in Ends(C, x, k) <=> \E l \in LexemesTo(x, k) : z \in Shifted(C[l[1]], l[2])
  BY DEF Ends
<1>2. ASSUME NEW l \in LexemesTo(x, k), z \in Shifted(C[l[1]], l[2])
      PROVE  \E i \in 0..(k - 1) : \E t \in Terminals : Lexeme(x, i, k, t) /\ z \in Shifted(C[i], t)
  <2>1. l[1] \in 0..(k - 1) /\ l[2] \in Terminals /\ Lexeme(x, l[1], k, l[2])
    BY DEF LexemesTo
  <2> QED BY <1>2, <2>1
<1>3. ASSUME NEW i \in 0..(k - 1), NEW t \in Terminals, Lexeme(x, i, k, t), z \in Shifted(C[i], t)
      PROVE  \E l \in LexemesTo(x, k) : z \in Shifted(C[l[1]], l[2])
  <2>1. PICK l : l = <<i, t>>
    OBVIOUS
  <2>2. l \in (0..(k - 1)) \X Terminals /\ l[1] = i /\ l[2] = t
    BY <2>1
  <2>3. l \in LexemesTo(x, k)
    BY <1>3, <2>2 DEF LexemesTo
  <2> QED BY <1>3, <2>2, <2>3
<1> QED
  BY <1>1, <1>2, <1>3

CutsOver(C, x) == C = [k \in 0..Len(x) |-> IF k = 0 THEN {StartStack} ELSE Ends(C, x, k)]

LEMMA CutsIsChosen ==
    ASSUME NEW x
    PROVE  Cuts(x) = CHOOSE C : CutsOver(C, x)
  BY DEF Cuts, CutsOver, Ends

LEMMA EndsType ==
    ASSUME NEW x, NEW k \in Nat, NEW C, \A i \in 0..(k - 1) : C[i] \subseteq Stacks
    PROVE  Ends(C, x, k) \subseteq Stacks
<1> SUFFICES ASSUME NEW z \in Ends(C, x, k) PROVE z \in Stacks
  OBVIOUS
<1>1. PICK i \in 0..(k - 1), t \in Terminals : z \in Shifted(C[i], t)
  BY InEnds
<1>2. IF t \in Ignored THEN z \in C[i] ELSE \E s \in C[i] : z \in Advance[s][t]
  BY <1>1, InShifted
<1>3. C[i] \subseteq Stacks
  BY <1>1
<1> QED
  BY <1>1, <1>2, <1>3, ParserAssumption

LEMMA EndsSame ==
    ASSUME NEW x, NEW k \in Nat, NEW C, NEW D, \A i \in 0..(k - 1) : C[i] = D[i]
    PROVE  Ends(C, x, k) = Ends(D, x, k)
<1>1. \A z : z \in Ends(C, x, k) <=>
         \E i \in 0..(k - 1) : \E t \in Terminals : Lexeme(x, i, k, t) /\ z \in Shifted(C[i], t)
  BY InEnds
<1>2. \A z : z \in Ends(D, x, k) <=>
         \E i \in 0..(k - 1) : \E t \in Terminals : Lexeme(x, i, k, t) /\ z \in Shifted(D[i], t)
  BY InEnds
<1> QED
  BY <1>1, <1>2

LEMMA CutsUnfold ==
    ASSUME NEW x \in Seq(Symbols)
    PROVE  /\ Cuts(x)[0] = {StartStack}
           /\ \A k \in 0..Len(x) : Cuts(x)[k] \subseteq Stacks
           /\ \A k \in 1..Len(x) : Cuts(x)[k] = Ends(Cuts(x), x, k)
<1> DEFINE V == SUBSET Stacks
           N == Len(x)
           H == [k \in 0..N |-> [g \in [0..N -> V] |-> IF k = 0 THEN {StartStack} ELSE Ends(g, x, k)]]
<1>1. N \in Nat /\ {StartStack} \in V
  BY ParserAssumption
<1>2. \A k \in 0..N : \A g \in [0..N -> V] : H[k][g] \in V
  <2> SUFFICES ASSUME NEW k \in 0..N, NEW g \in [0..N -> V] PROVE H[k][g] \in V
    OBVIOUS
  <2>1. \A i \in 0..(k - 1) : i \in 0..N
    BY <1>1
  <2>2. \A i \in 0..(k - 1) : g[i] \subseteq Stacks
    BY <2>1
  <2>3. Ends(g, x, k) \subseteq Stacks
    BY <1>1, <2>2, EndsType
  <2> QED BY <1>1, <2>3
<1>3. \A k \in 0..N : \A g, h \in [0..N -> V] :
        (\A i \in 0..(k - 1) : g[i] = h[i]) => H[k][g] = H[k][h]
  <2> SUFFICES ASSUME NEW k \in 0..N, NEW g \in [0..N -> V], NEW h \in [0..N -> V],
                      \A i \in 0..(k - 1) : g[i] = h[i]
               PROVE  H[k][g] = H[k][h]
    OBVIOUS
  <2>1. Ends(g, x, k) = Ends(h, x, k)
    BY <1>1, EndsSame
  <2> QED BY <2>1
<1>4. \E f \in [0..N -> V] : Solves(f, H, N)
  <2> HIDE DEF V, N, H
  <2>1. IsRecursion(H, N, V)
    BY <1>2, <1>3 DEF IsRecursion
  <2> QED BY <1>1, <2>1, RecursionExists
<1>5. PICK f \in [0..N -> V] : \A k \in 0..N : f[k] = H[k][f]
  BY <1>4 DEF Solves
<1>6. \A k \in 0..N : f[k] = IF k = 0 THEN {StartStack} ELSE Ends(f, x, k)
  BY <1>5
<1>7. CutsOver(f, x)
  BY <1>6 DEF CutsOver
<1>8. PICK C : C = Cuts(x)
  OBVIOUS
<1>9. CutsOver(C, x)
  BY <1>7, <1>8, CutsIsChosen
<1> HIDE DEF N, V, H
<1>10. C[0] = {StartStack} /\ \A k \in 1..N : C[k] = Ends(C, x, k)
  <2>1. C = [k \in 0..N |-> IF k = 0 THEN {StartStack} ELSE Ends(C, x, k)]
    BY <1>9 DEF CutsOver, N
  <2>2. 0 \in 0..N /\ \A k \in 1..N : k \in 0..N /\ k # 0
    BY <1>1
  <2> QED BY <2>1, <2>2
<1> DEFINE S == {n \in Nat : \A k \in 0..N : k <= n => C[k] \subseteq Stacks}
<1>11. 0 \in S
  <2>1. \A k \in 0..N : k <= 0 => k = 0
    BY <1>1
  <2> QED BY <1>1, <1>10, <2>1
<1>12. ASSUME NEW n \in Nat, n \in S PROVE n + 1 \in S
  <2> SUFFICES ASSUME NEW k \in 0..N, k <= n + 1 PROVE C[k] \subseteq Stacks
    OBVIOUS
  <2>1. CASE k <= n
    BY <1>12, <2>1
  <2>2. CASE k = n + 1
    <3>1. \A i \in 0..(k - 1) : i \in 0..N /\ i <= n
      BY <1>1, <2>2
    <3>2. \A i \in 0..(k - 1) : C[i] \subseteq Stacks
      BY <1>12, <3>1
    <3>3. k \in 1..N /\ k \in Nat
      BY <1>1, <2>2
    <3>4. Ends(C, x, k) \subseteq Stacks
      BY <3>2, <3>3, EndsType
    <3> QED BY <1>10, <3>3, <3>4
  <2> QED BY <1>1, <2>1, <2>2
<1>13. Nat \subseteq S
  <2> HIDE DEF S
  <2> QED BY <1>11, <1>12, NatSetInduction
<1>14. \A k \in 0..N : C[k] \subseteq Stacks
  BY <1>1, <1>13
<1> QED
  BY <1>8, <1>10, <1>14 DEF N

(* A parse goes on by one lexeme. *)
LEMMA CutsIntro ==
    ASSUME NEW x \in Seq(Symbols), NEW k \in 1..Len(x), NEW i \in 0..(k - 1), NEW t \in Terminals,
           Lexeme(x, i, k, t), NEW z \in Shifted(Cuts(x)[i], t)
    PROVE  z \in Cuts(x)[k]
<1>1. z \in Ends(Cuts(x), x, k)
  BY InEnds
<1> QED
  BY <1>1, CutsUnfold

----------------------------------------------------------------------------
(* A text and its continuation *)

LEMMA ConcatFacts ==
    ASSUME NEW x \in Seq(Symbols), NEW v \in Seq(Bytes)
    PROVE  /\ v \in Seq(Symbols) /\ x \o v \in Seq(Symbols) /\ Len(x \o v) = Len(x) + Len(v)
           /\ \A k \in 1..Len(x) : (x \o v)[k] = x[k]
           /\ \A k \in 1..Len(v) : (x \o v)[Len(x) + k] = v[k]
<1>1. v \in Seq(Symbols)
  BY BytesAreSymbols
<1> QED
  BY <1>1

LEMMA ConcatAssoc ==
    ASSUME NEW x \in Seq(Symbols), NEW w \in Seq(Bytes), NEW v \in Seq(Bytes)
    PROVE  w \o v \in Seq(Bytes) /\ (x \o w) \o v = x \o (w \o v)
<1>1. w \in Seq(Symbols) /\ v \in Seq(Symbols)
  BY BytesAreSymbols
<1> QED
  BY <1>1

LEMMA ConcatEmpty ==
    ASSUME NEW x \in Seq(Symbols)
    PROVE  <<>> \in Seq(Bytes) /\ x \o <<>> = x
  OBVIOUS

LEMMA PrefixStates ==
    ASSUME NEW q \in LexStates, NEW x \in Seq(Symbols), NEW v \in Seq(Bytes), NEW a \in Nat, NEW n \in Nat,
           a + n <= Len(x)
    PROVE  States(q, x \o v, a, n) = States(q, x, a, n)
<1>1. PICK y \in Seq(Symbols) : y = x \o v /\ Len(y) = Len(x) + Len(v) /\ \A k \in 1..Len(x) : y[k] = x[k]
  BY ConcatFacts
<1>2. \A k \in 1..n : a + k \in 1..Len(x)
  OBVIOUS
<1>3. SameSymbols(y, a, x, a, n)
  BY <1>1, <1>2 DEF SameSymbols
<1>4. a + n <= Len(y) /\ Len(v) \in Nat
  BY <1>1
<1>5. States(q, y, a, n) = States(q, x, a, n)
  BY <1>3, <1>4, StatesSame
<1> QED
  BY <1>1, <1>5

LEMMA TailStates ==
    ASSUME NEW q \in LexStates, NEW x \in Seq(Symbols), NEW v \in Seq(Bytes), NEW n \in Nat, n <= Len(v)
    PROVE  States(q, x \o v, Len(x), n) = States(q, v, 0, n)
<1>1. PICK y \in Seq(Symbols) : y = x \o v /\ Len(y) = Len(x) + Len(v)
                                /\ \A k \in 1..Len(v) : y[Len(x) + k] = v[k]
  BY ConcatFacts
<1>2. \A k \in 1..n : k \in 1..Len(v) /\ 0 + k = k
  OBVIOUS
<1>3. \A k \in 1..n : y[Len(x) + k] = v[0 + k]
  BY <1>1, <1>2
<1>4. v \in Seq(Symbols) /\ Len(x) \in Nat /\ Len(x) + n <= Len(y) /\ 0 + n <= Len(v) /\ 0 \in Nat
  BY <1>1, BytesAreSymbols
<1>5. PICK a, b \in Nat : a = Len(x) /\ b = 0
  BY <1>4
<1>6. a + n <= Len(y) /\ b + n <= Len(v) /\ SameSymbols(y, a, v, b, n)
  BY <1>3, <1>4, <1>5 DEF SameSymbols
<1>7. States(q, y, a, n) = States(q, v, b, n)
  BY <1>4, <1>6, StatesSame
<1> QED
  BY <1>1, <1>5, <1>7

LEMMA EndStatesOf ==
    ASSUME NEW w \in Seq(Bytes), NEW q
    PROVE  EndStates(q, w) = States(q, w, 0, Len(w))
<1>1. w \in Seq(Symbols) /\ Suffix(w, 0) = w
  BY BytesAreSymbols, WholeSuffix
<1> QED
  BY <1>1 DEF EndStates, States

LEMMA WidthsOf ==
    ASSUME NEW w \in Seq(Bytes), NEW q, NEW t, NEW n
    PROVE  n \in MatchWidths(q, w, t) <=> n \in 1..Len(w) /\ Matches(q, w, 0, n, t)
<1>1. w \in Seq(Symbols) /\ Suffix(w, 0) = w
  BY BytesAreSymbols, WholeSuffix
<1> QED
  BY <1>1 DEF MatchWidths, Matches, States

LEMMA IsViolated ==
    ASSUME NEW w \in Seq(Bytes), NEW E
    PROVE  Violated(E, w) <=> \E e \in E : \E n \in 1..Len(w) : Matches(e[1], w, 0, n, e[2])
<1>1. \A e \in E : MatchWidths(e[1], w, e[2]) # {} <=> \E n \in 1..Len(w) : Matches(e[1], w, 0, n, e[2])
  <2> SUFFICES ASSUME NEW e \in E
               PROVE  MatchWidths(e[1], w, e[2]) # {} <=> \E n \in 1..Len(w) : Matches(e[1], w, 0, n, e[2])
    OBVIOUS
  <2>1. \A n : n \in MatchWidths(e[1], w, e[2]) <=> n \in 1..Len(w) /\ Matches(e[1], w, 0, n, e[2])
    BY WidthsOf
  <2> QED BY <2>1
<1> QED
  BY <1>1 DEF Violated

LEMMA NothingViolated ==
    ASSUME NEW E
    PROVE  ~Violated(E, <<>>)
<1>1. <<>> \in Seq(Bytes) /\ 1..Len(<<>>) = {}
  OBVIOUS
<1> QED
  BY <1>1, IsViolated

LEMMA ViolatedMonotone ==
    ASSUME NEW E, NEW F, E \subseteq F, NEW v, ~Violated(F, v)
    PROVE  ~Violated(E, v)
  BY DEF Violated

(* Settling exclusions over w and then over v is settling them over both.   *)
LEMMA ViolatedSplit ==
    ASSUME NEW E \in Exclusions, NEW w \in Seq(Bytes), NEW v \in Seq(Bytes),
           ~Violated(E, w), ~Violated(MovedExclusions(E, w), v)
    PROVE  ~Violated(E, w \o v)
<1> SUFFICES ASSUME Violated(E, w \o v) PROVE FALSE
  OBVIOUS
<1>1. PICK y \in Seq(Bytes) : y = w \o v /\ Len(y) = Len(w) + Len(v)
  <2>1. w \o v \in Seq(Bytes) /\ Len(w \o v) = Len(w) + Len(v)
    OBVIOUS
  <2> QED BY <2>1
<1>2. PICK e \in E, n \in 1..Len(y) : Matches(e[1], y, 0, n, e[2])
  BY <1>1, IsViolated
<1>3. PICK q \in LexStates, t \in Terminals : q = e[1] /\ t = e[2]
  BY DEF Exclusions
<1>4. PICK p \in States(q, y, 0, n) : t \in Matched[p]
  BY <1>2, <1>3 DEF Matches
<1>5. w \in Seq(Symbols) /\ y \in Seq(Symbols) /\ Len(w) \in Nat /\ Len(v) \in Nat /\ n \in Nat
  BY BytesAreSymbols
<1>6. n > Len(w)
  <2> SUFFICES ASSUME n <= Len(w) PROVE FALSE
    BY <1>5
  <2>1. 0 + n <= Len(w)
    BY <1>5
  <2>2. States(q, y, 0, n) = States(q, w, 0, n)
    BY <1>1, <1>5, <2>1, PrefixStates
  <2>3. n \in 1..Len(w) /\ Matches(e[1], w, 0, n, e[2])
    BY <1>3, <1>4, <1>5, <2>2 DEF Matches
  <2> QED BY <2>3, IsViolated
<1>7. PICK l, m \in Nat : l = Len(w) /\ l + m = n /\ m \in 1..Len(v)
  <2>1. n - Len(w) \in Nat /\ Len(w) + (n - Len(w)) = n /\ n - Len(w) \in 1..Len(v)
    BY <1>1, <1>5, <1>6
  <2> QED BY <1>5, <2>1
<1>8. PICK r \in States(q, y, 0, l) : p \in States(r, y, l, m)
  <2>1. 0 + l + m <= Len(y) /\ 0 + l = l
    BY <1>1, <1>5, <1>7
  <2>2. p \in States(q, y, 0, l + m) <=> \E r \in States(q, y, 0, l) : p \in States(r, y, 0 + l, m)
    BY <1>5, <2>1, StatesSplit
  <2> QED BY <1>4, <1>7, <2>1, <2>2
<1>9. States(q, y, 0, l) = EndStates(q, w)
  <2>1. 0 + l <= Len(w)
    BY <1>7
  <2>2. States(q, y, 0, l) = States(q, w, 0, l)
    BY <1>1, <1>5, <2>1, PrefixStates
  <2> QED BY <1>7, <2>2, EndStatesOf
<1>10. r \in LexStates
  BY <1>8, <1>9, EndStatesType
<1>11. p \in States(r, v, 0, m)
  <2>1. States(r, y, l, m) = States(r, v, 0, m)
    BY <1>1, <1>5, <1>7, <1>10, TailStates
  <2> QED BY <1>8, <2>1
<1>12. t \in Future[r]
  <2>1. v \in Seq(Symbols) /\ 0 + m <= Len(v) /\ m > 0
    BY <1>7, BytesAreSymbols
  <2>2. Live(p) \subseteq Future[r]
    BY <1>10, <1>11, <2>1, LiveBefore
  <2> QED BY <1>4, <2>2 DEF Live
<1>13. PICK d : d = <<r, t>>
  OBVIOUS
<1>14. d \in MovedExclusions(E, w) /\ d[1] = r /\ d[2] = t
  BY <1>3, <1>8, <1>9, <1>12, <1>13, InMoved
<1>15. Matches(d[1], v, 0, m, d[2])
  BY <1>4, <1>11, <1>14 DEF Matches
<1> QED
  BY <1>7, <1>14, <1>15, IsViolated

----------------------------------------------------------------------------
(* Where the engine may start a lexeme *)

(* t has a match at j that is longer than n. *)
Larger(y, j, n, t) == \E m \in 1..(Len(y) - j) : m > n /\ Matches(LexStart, y, j, m, t)

(* The match of n symbols of t at j is not the longest one. *)
Grows(y, j, n, t) == n >= 1 /\ Matches(LexStart, y, j, n, t) /\ Larger(y, j, n, t)

(* s is a parse of the first i symbols of y, up to ignored lexemes that the *)
(* engine ended too early: those are queued without an exclusion.           *)
AtCut(s, i, y) ==
    \/ s \in Cuts(y)[i]
    \/ \E j, n \in Nat : \E t \in Ignored : j + n = i /\ s \in Cuts(y)[j] /\ Grows(y, j, n, t)

LEMMA LexemeIntro ==
    ASSUME NEW y \in Seq(Symbols), NEW j \in Nat, NEW n \in Nat, n >= 1, j + n <= Len(y), NEW t,
           Matches(LexStart, y, j, n, t), ~Larger(y, j, n, t)
    PROVE  Lexeme(y, j, j + n, t)
<1> DEFINE W == MatchWidths(LexStart, Suffix(y, j), t)
<1>1. j \in 0..Len(y) /\ Len(y) \in Nat /\ n \in 1..(Len(y) - j) /\ (j + n) - j = n
  OBVIOUS
<1>2. \A m : m \in W <=> m \in 1..(Len(y) - j) /\ Matches(LexStart, y, j, m, t)
  BY <1>1, InWidths
<1> HIDE DEF W
<1>3. n \in W
  BY <1>1, <1>2
<1>4. \A m \in W : m <= n
  BY <1>1, <1>2 DEF Larger
<1>5. (j + n) - j \in W /\ \A m \in W : m <= (j + n) - j
  BY <1>1, <1>3, <1>4
<1> QED
  BY <1>5 DEF Lexeme, W

(* The match of l symbols at j ends in q and goes on to one of m symbols    *)
(* through z, the one state the lexer start reaches with the next byte.     *)
GoesOn(y, j, l, m, t, q, z) ==
    /\ q \in States(LexStart, y, j, l) /\ z \in LexStates /\ Live(z) = {t}
    /\ z \in States(q, y, j + l, 1) /\ States(LexStart, y, j + l, 1) = {z}
    /\ \E h \in Nat : l + (1 + h) = m /\ \E r \in States(z, y, (j + l) + 1, h) : t \in Matched[r]

LEMMA IgnoredGoesOn ==
    ASSUME OnePartition, IgnoredRestart, NEW y \in Seq(Symbols), NEW j \in Nat, NEW l \in Nat,
           NEW t \in Ignored, Matches(LexStart, y, j, l, t),
           NEW m \in 1..(Len(y) - j), m > l, Matches(LexStart, y, j, m, t)
    PROVE  \E q, z : GoesOn(y, j, l, m, t, q, z)
<1>0. LexStart \in LexStates /\ Len(y) \in Nat /\ j \in 0..Len(y) /\ j + l <= Len(y)
  BY LexerAssumption
<1>1. PICK q \in States(LexStart, y, j, l) : t \in Matched[q]
  BY DEF Matches
<1>2. q \in LexStates
  BY <1>0, LiveBefore
<1>3. PICK r \in States(LexStart, y, j, m) : t \in Matched[r]
  BY DEF Matches
<1>4. PICK h \in Nat : l + (1 + h) = m
  <2>1. m - l - 1 \in Nat /\ l + (1 + (m - l - 1)) = m
    BY <1>0
  <2> QED BY <2>1
<1>5. PICK c \in Nat : c = j + l
  OBVIOUS
<1>6. c + 1 + h <= Len(y) /\ c \in 0..Len(y) /\ 1 + h \in Nat /\ j + l + (1 + h) <= Len(y) /\ c + (1 + h) <= Len(y)
  BY <1>0, <1>4, <1>5
<1>7. PICK u \in States(LexStart, y, j, l) : r \in States(u, y, c, 1 + h)
  <2>1. r \in States(LexStart, y, j, l + (1 + h)) <=>
          \E u \in States(LexStart, y, j, l) : r \in States(u, y, j + l, 1 + h)
    BY <1>0, <1>6, StatesSplit
  <2> QED BY <1>3, <1>4, <1>5, <2>1
<1>8. u \in LexStates
  BY <1>0, LiveBefore
<1>9. t \in Live(u)
  <2>1. Live(r) \subseteq Live(u)
    BY <1>6, <1>7, <1>8, LiveBefore
  <2> QED BY <1>3, <2>1 DEF Live
<1>10. t \in Live(q)
  BY <1>1 DEF Live
<1>11. u = q
  BY <1>0, <1>9, <1>10, OneLive
<1>12. PICK z \in States(q, y, c, 1) : r \in States(z, y, c + 1, h)
  <2>1. r \in States(q, y, c, 1 + h) <=> \E z \in States(q, y, c, 1) : r \in States(z, y, c + 1, h)
    BY <1>2, <1>6, StatesSplit
  <2> QED BY <1>7, <1>11, <2>1
<1>13. PICK b : b = y[c + 0 + 1]
  OBVIOUS
<1>14. \A d \in LexStates : States(d, y, c, 1) = Trans(d, b)
  <2> SUFFICES ASSUME NEW d \in LexStates PROVE States(d, y, c, 1) = Trans(d, b)
    OBVIOUS
  <2>1. States(d, y, c, 0) = {d} /\ 0 \in Nat /\ c + 0 + 1 <= Len(y) /\ 0 + 1 = 1
    BY <1>6, StatesUnfold
  <2>2. States(d, y, c, 0 + 1) = Moves(States(d, y, c, 0), y[c + 0 + 1])
    BY <1>6, <2>1, StatesUnfold
  <2>3. Moves({d}, b) = Trans(d, b)
    BY DEF Moves
  <2> QED BY <1>13, <2>1, <2>2, <2>3
<1>15. z \in LexStates /\ t \in Live(z)
  <2>1. z \in LexStates
    BY <1>2, <1>12, <1>14, FutureClosed
  <2>2. c + 1 \in Nat /\ (c + 1) + h <= Len(y)
    BY <1>6
  <2>3. Live(r) \subseteq Live(z)
    BY <1>12, <2>1, <2>2, LiveBefore
  <2> QED BY <1>3, <2>1, <2>3 DEF Live
<1>16. b \in Bytes /\ z \in Delta[q][b]
  BY <1>2, <1>12, <1>14 DEF Trans
<1>17. Delta[LexStart][b] = {z} /\ Live(z) = {t}
  BY <1>1, <1>2, <1>15, <1>16 DEF IgnoredRestart
<1>18. States(LexStart, y, c, 1) = {z}
  BY <1>0, <1>14, <1>16, <1>17 DEF Trans
<1> QED
  BY <1>1, <1>3, <1>4, <1>5, <1>12, <1>15, <1>17, <1>18 DEF GoesOn

(* A longer match of the ignored terminal is a match from the place where   *)
(* the shorter one ended.                                                   *)
LEMMA LongerFromIgnored ==
    ASSUME OnePartition, IgnoredRestart, NEW y \in Seq(Symbols), NEW j \in Nat, NEW l \in Nat,
           NEW t \in Ignored, Matches(LexStart, y, j, l, t),
           NEW m \in 1..(Len(y) - j), m > l, Matches(LexStart, y, j, m, t)
    PROVE  Matches(LexStart, y, j + l, m - l, t)
<1>1. PICK q, z : GoesOn(y, j, l, m, t, q, z)
  BY IgnoredGoesOn
<1>2. PICK h \in Nat : l + (1 + h) = m /\ \E r \in States(z, y, (j + l) + 1, h) : t \in Matched[r]
  BY <1>1 DEF GoesOn
<1>3. PICK r \in States(z, y, (j + l) + 1, h) : t \in Matched[r]
  BY <1>2
<1>4. (j + l) + 1 + h <= Len(y) /\ j + l \in Nat /\ 1 \in Nat /\ m - l = 1 + h /\ LexStart \in LexStates
  BY <1>2, LexerAssumption
<1>5. r \in States(LexStart, y, j + l, 1 + h) <=>
        \E d \in States(LexStart, y, j + l, 1) : r \in States(d, y, (j + l) + 1, h)
  BY <1>4, StatesSplit
<1>6. r \in States(LexStart, y, j + l, m - l)
  BY <1>1, <1>3, <1>4, <1>5 DEF GoesOn
<1> QED
  BY <1>3, <1>6 DEF Matches

(* A lexeme that the engine starts inside an ignored one follows it, state  *)
(* by state, and is about the same ignored terminal only.                   *)
LEMMA InsideIgnored ==
    ASSUME OnePartition, IgnoredRestart, NEW y \in Seq(Symbols), NEW j \in Nat, NEW l \in Nat,
           NEW t \in Ignored, Grows(y, j, l, t), NEW n \in Nat, n >= 1, j + l + n <= Len(y),
           NEW p \in States(LexStart, y, j + l, n)
    PROVE  p \in States(LexStart, y, j, l + n) /\ Live(p) \subseteq {t}
<1>0. LexStart \in LexStates /\ Len(y) \in Nat /\ j \in 0..Len(y) /\ j + l <= Len(y)
  BY LexerAssumption
<1>1. PICK m \in 1..(Len(y) - j) : m > l /\ Matches(LexStart, y, j, m, t)
  BY DEF Grows, Larger
<1>2. Matches(LexStart, y, j, l, t)
  BY DEF Grows
<1>3. PICK q, z : GoesOn(y, j, l, m, t, q, z)
  BY <1>1, <1>2, IgnoredGoesOn
<1>4. /\ q \in States(LexStart, y, j, l) /\ q \in LexStates /\ z \in LexStates /\ Live(z) = {t}
      /\ z \in States(q, y, j + l, 1) /\ States(LexStart, y, j + l, 1) = {z}
  <2>1. q \in States(LexStart, y, j, l)
    BY <1>3 DEF GoesOn
  <2>2. q \in LexStates
    BY <1>0, <2>1, LiveBefore
  <2> QED BY <1>3, <2>1, <2>2 DEF GoesOn
<1>5. PICK c \in Nat : c = j + l
  OBVIOUS
<1>6. States(LexStart, y, c, 1) = {z}
  BY <1>4, <1>5
<1>7. PICK k \in Nat : 1 + k = n
  <2>1. n - 1 \in Nat /\ 1 + (n - 1) = n
    OBVIOUS
  <2> QED BY <2>1
<1>8. c + 1 + k <= Len(y) /\ c + 1 \in Nat /\ (c + 1) + k <= Len(y)
  BY <1>0, <1>5, <1>7
<1>9. p \in States(z, y, c + 1, k)
  <2>1. p \in States(LexStart, y, c, 1 + k) <=>
          \E d \in States(LexStart, y, c, 1) : p \in States(d, y, c + 1, k)
    BY <1>0, <1>8, StatesSplit
  <2> QED BY <1>5, <1>6, <1>7, <2>1
<1>10. Live(p) \subseteq {t}
  <2>1. Live(p) \subseteq Live(z)
    BY <1>4, <1>8, <1>9, LiveBefore
  <2> QED BY <1>4, <2>1
<1>11. p \in States(q, y, c, 1 + k)
  <2>1. p \in States(q, y, c, 1 + k) <=> \E d \in States(q, y, c, 1) : p \in States(d, y, c + 1, k)
    BY <1>4, <1>8, StatesSplit
  <2> QED BY <1>4, <1>5, <1>9, <2>1
<1>12. p \in States(LexStart, y, j, l + n)
  <2>1. j + l + n <= Len(y)
    OBVIOUS
  <2>2. p \in States(LexStart, y, j, l + n) <=>
          \E d \in States(LexStart, y, j, l) : p \in States(d, y, j + l, n)
    BY <1>0, <2>1, StatesSplit
  <2> QED BY <1>4, <1>5, <1>7, <1>11, <2>2
<1> QED
  BY <1>10, <1>12

LEMMA MatchFollowsIgnored ==
    ASSUME OnePartition, IgnoredRestart, NEW y \in Seq(Symbols), NEW j \in Nat, NEW l \in Nat,
           NEW u \in Ignored, Grows(y, j, l, u), NEW n \in Nat, n >= 1, j + l + n <= Len(y),
           NEW t, Matches(LexStart, y, j + l, n, t)
    PROVE  t = u /\ Matches(LexStart, y, j, l + n, t)
<1>1. PICK p \in States(LexStart, y, j + l, n) : t \in Matched[p]
  BY DEF Matches
<1>2. p \in States(LexStart, y, j, l + n) /\ Live(p) \subseteq {u}
  BY InsideIgnored
<1> QED
  BY <1>1, <1>2 DEF Live, Matches

(* A terminal that is not ignored is matched from real cuts only. *)
LEMMA CutOfMatch ==
    ASSUME OnePartition, IgnoredRestart, NEW y \in Seq(Symbols), NEW i \in Nat, NEW n \in Nat, n >= 1,
           i + n <= Len(y), NEW t, t \notin Ignored, Matches(LexStart, y, i, n, t), NEW s, AtCut(s, i, y)
    PROVE  s \in Cuts(y)[i]
<1> SUFFICES ASSUME NEW j \in Nat, NEW l \in Nat, NEW u \in Ignored, j + l = i, Grows(y, j, l, u)
             PROVE  FALSE
  BY DEF AtCut
<1>1. j + l + n <= Len(y) /\ Matches(LexStart, y, j + l, n, t)
  OBVIOUS
<1>2. t = u
  BY <1>1, MatchFollowsIgnored
<1> QED
  BY <1>2

LEMMA ShiftStep ==
    ASSUME OnePartition, IgnoredRestart, NEW y \in Seq(Symbols), NEW i \in Nat, NEW n \in Nat, n >= 1,
           i + n <= Len(y), NEW t \in Terminals, t \notin Ignored, Matches(LexStart, y, i, n, t),
           ~Larger(y, i, n, t), NEW s, AtCut(s, i, y), NEW z \in Advance[s][t]
    PROVE  AtCut(z, i + n, y)
<1>1. s \in Cuts(y)[i]
  BY CutOfMatch
<1>2. Lexeme(y, i, i + n, t)
  BY LexemeIntro
<1>3. z \in Shifted(Cuts(y)[i], t)
  BY <1>1, InShifted
<1>4. PICK k \in 1..Len(y) : k = i + n
  OBVIOUS
<1>5. i \in 0..(k - 1) /\ Lexeme(y, i, k, t)
  BY <1>2, <1>4
<1>6. z \in Cuts(y)[k]
  BY <1>3, <1>5, CutsIntro
<1> QED
  BY <1>4, <1>6 DEF AtCut

LEMMA IgnoredStep ==
    ASSUME OnePartition, IgnoredRestart, NEW y \in Seq(Symbols), NEW i \in Nat, NEW n \in Nat, n >= 1,
           i + n <= Len(y), NEW t \in Ignored, Matches(LexStart, y, i, n, t), NEW s, AtCut(s, i, y)
    PROVE  AtCut(s, i + n, y)
<1>1. ASSUME NEW j \in Nat, NEW m \in Nat, m >= 1, j + m = i + n, s \in Cuts(y)[j],
             Matches(LexStart, y, j, m, t)
      PROVE  AtCut(s, i + n, y)
  <2>1. CASE Larger(y, j, m, t)
    BY <1>1, <2>1 DEF AtCut, Grows
  <2>2. CASE ~Larger(y, j, m, t)
    <3>1. j + m <= Len(y)
      BY <1>1
    <3>2. Lexeme(y, j, j + m, t)
      BY <1>1, <2>2, <3>1, LexemeIntro
    <3>3. s \in Shifted(Cuts(y)[j], t)
      BY <1>1, InShifted
    <3>4. PICK k \in 1..Len(y) : k = j + m
      BY <1>1, <3>1
    <3>5. j \in 0..(k - 1) /\ Lexeme(y, j, k, t) /\ t \in Terminals
      BY <1>1, <3>2, <3>4, ParserAssumption
    <3>6. s \in Cuts(y)[k]
      BY <3>3, <3>5, CutsIntro
    <3> QED BY <1>1, <3>4, <3>6 DEF AtCut
  <2> QED BY <2>1, <2>2
<1>2. CASE s \in Cuts(y)[i]
  BY <1>1, <1>2
<1>3. ASSUME NEW j \in Nat, NEW l \in Nat, NEW u \in Ignored, j + l = i, s \in Cuts(y)[j], Grows(y, j, l, u)
      PROVE  AtCut(s, i + n, y)
  <2>1. j + l + n <= Len(y) /\ Matches(LexStart, y, j + l, n, t) /\ l + n \in Nat /\ l + n >= 1
        /\ j + (l + n) = i + n
    BY <1>3
  <2>2. Matches(LexStart, y, j, l + n, t)
    BY <1>3, <2>1, MatchFollowsIgnored
  <2> QED BY <1>1, <1>3, <2>1, <2>2
<1> QED
  BY <1>2, <1>3 DEF AtCut

(* The text Y is what came before position c, then z, then v. *)
Layout(Y, c, z, v) ==
    /\ Y \in Seq(Symbols) /\ c \in Nat /\ z \in Seq(Bytes) /\ v \in Seq(Bytes)
    /\ Len(Y) = c + Len(z) + Len(v)
    /\ SameSymbols(Y, c, z, 0, Len(z))
    /\ SameSymbols(Y, c + Len(z), v, 0, Len(v))

LEMMA SameShorter ==
    ASSUME NEW y, NEW a, NEW z, NEW b, NEW n \in Nat, NEW m \in Nat, m <= n, SameSymbols(y, a, z, b, n)
    PROVE  SameSymbols(y, a, z, b, m)
  BY DEF SameSymbols

LEMMA LayoutStates ==
    ASSUME NEW Y, NEW c, NEW z, NEW v, Layout(Y, c, z, v), NEW q \in LexStates, NEW n \in Nat
    PROVE  /\ n <= Len(z) => States(q, Y, c, n) = States(q, z, 0, n)
           /\ n <= Len(v) => States(q, Y, c + Len(z), n) = States(q, v, 0, n)
<1>1. /\ Y \in Seq(Symbols) /\ c \in Nat /\ z \in Seq(Symbols) /\ v \in Seq(Symbols) /\ Len(z) \in Nat /\ Len(v) \in Nat
      /\ Len(Y) = c + Len(z) + Len(v) /\ c + Len(z) \in Nat /\ 0 \in Nat
  BY BytesAreSymbols DEF Layout
<1>2. ASSUME n <= Len(z) PROVE States(q, Y, c, n) = States(q, z, 0, n)
  <2>1. SameSymbols(Y, c, z, 0, n)
    BY <1>1, <1>2, SameShorter DEF Layout
  <2>2. c + n <= Len(Y) /\ 0 + n <= Len(z)
    BY <1>1, <1>2
  <2> QED BY <1>1, <2>1, <2>2, StatesSame
<1>3. ASSUME n <= Len(v) PROVE States(q, Y, c + Len(z), n) = States(q, v, 0, n)
  <2>1. SameSymbols(Y, c + Len(z), v, 0, n)
    BY <1>1, <1>3, SameShorter DEF Layout
  <2>2. (c + Len(z)) + n <= Len(Y) /\ 0 + n <= Len(v)
    BY <1>1, <1>3
  <2> QED BY <1>1, <2>1, <2>2, StatesSame
<1> QED
  BY <1>2, <1>3

(* A match from an entry is a match of the lexeme that led to the entry. *)
LEMMA EntryMatch ==
    ASSUME NEW Y, NEW i \in Nat, NEW d \in Nat, NEW z, NEW v, Layout(Y, i + d, z, v),
           NEW q \in States(LexStart, Y, i, d), NEW t, NEW n \in MatchWidths(q, z, t)
    PROVE  n \in 1..Len(z) /\ i + (d + n) <= Len(Y) /\ Matches(LexStart, Y, i, d + n, t)
<1>1. /\ Y \in Seq(Symbols) /\ z \in Seq(Bytes) /\ Len(z) \in Nat /\ Len(v) \in Nat
      /\ Len(Y) = i + d + Len(z) + Len(v) /\ LexStart \in LexStates
  BY LexerAssumption DEF Layout
<1>2. q \in LexStates
  <2>1. i + d <= Len(Y)
    BY <1>1
  <2> QED BY <1>1, <2>1, LiveBefore
<1>3. n \in 1..Len(z) /\ Matches(q, z, 0, n, t)
  BY <1>1, WidthsOf
<1>4. PICK p \in States(q, z, 0, n) : t \in Matched[p]
  BY <1>3 DEF Matches
<1>5. n \in Nat /\ n <= Len(z)
  BY <1>3
<1>6. p \in States(q, Y, i + d, n)
  BY <1>2, <1>4, <1>5, LayoutStates
<1>7. i + d + n <= Len(Y) /\ i + (d + n) <= Len(Y)
  BY <1>1, <1>5
<1>8. p \in States(LexStart, Y, i, d + n) <=>
        \E r \in States(LexStart, Y, i, d) : p \in States(r, Y, i + d, n)
  BY <1>1, <1>5, <1>7, StatesSplit
<1>9. p \in States(LexStart, Y, i, d + n)
  BY <1>6, <1>8
<1> QED
  BY <1>3, <1>4, <1>7, <1>9 DEF Matches

(* The exclusions recorded with a longest match keep it the longest. *)
LEMMA EntryLongest ==
    ASSUME OnePartition, NEW Y, NEW i \in Nat, NEW d \in Nat, NEW z, NEW v, Layout(Y, i + d, z, v),
           NEW q \in States(LexStart, Y, i, d), NEW t, NEW n, LongestMatch(q, z, t, n),
           ~Violated(Recorded(EndStates(q, z), t), v)
    PROVE  ~Larger(Y, i, d + n, t)
<1> SUFFICES ASSUME Larger(Y, i, d + n, t) PROVE FALSE
  OBVIOUS
<1>1. /\ Y \in Seq(Symbols) /\ z \in Seq(Bytes) /\ v \in Seq(Bytes) /\ Len(z) \in Nat /\ Len(v) \in Nat
      /\ Len(Y) = i + d + Len(z) + Len(v) /\ LexStart \in LexStates /\ i + d <= Len(Y)
  BY LexerAssumption DEF Layout
<1>2. q \in LexStates
  BY <1>1, LiveBefore
<1>3. n \in MatchWidths(q, z, t) /\ \A m \in MatchWidths(q, z, t) : m <= n
  BY DEF LongestMatch
<1>4. n \in 1..Len(z) /\ Matches(q, z, 0, n, t)
  BY <1>1, <1>3, WidthsOf
<1>5. PICK m \in 1..(Len(Y) - i) : m > d + n /\ Matches(LexStart, Y, i, m, t)
  BY DEF Larger
<1>6. PICK h \in Nat : d + h = m /\ h > n /\ i + d + h <= Len(Y)
  <2>1. m - d \in Nat /\ d + (m - d) = m /\ m - d > n /\ i + d + (m - d) <= Len(Y)
    BY <1>1, <1>4, <1>5
  <2> QED BY <2>1
<1>7. PICK p \in States(LexStart, Y, i, d + h) : t \in Matched[p]
  BY <1>5, <1>6 DEF Matches
<1>8. PICK u \in States(LexStart, Y, i, d) : p \in States(u, Y, i + d, h)
  <2>1. p \in States(LexStart, Y, i, d + h) <=>
          \E r \in States(LexStart, Y, i, d) : p \in States(r, Y, i + d, h)
    BY <1>1, <1>6, StatesSplit
  <2> QED BY <1>7, <2>1
<1>9. PICK c \in Nat : c = i + d
  OBVIOUS
<1>10. Layout(Y, c, z, v) /\ c + h <= Len(Y)
  BY <1>6, <1>9
<1>11. u \in LexStates
  BY <1>1, LiveBefore
<1>12. t \in Live(u)
  <2>1. p \in States(u, Y, c, h)
    BY <1>8, <1>9
  <2>2. Live(p) \subseteq Live(u)
    BY <1>1, <1>10, <1>11, <2>1, LiveBefore
  <2> QED BY <1>7, <2>2 DEF Live
<1>13. t \in Live(q)
  <2>1. PICK r \in States(q, z, 0, n) : t \in Matched[r]
    BY <1>4 DEF Matches
  <2>2. z \in Seq(Symbols) /\ n \in Nat /\ 0 + n <= Len(z)
    BY <1>1, <1>4, BytesAreSymbols
  <2>3. Live(r) \subseteq Live(q)
    BY <1>2, <2>1, <2>2, LiveBefore
  <2> QED BY <2>1, <2>3 DEF Live
<1>14. u = q
  <2>1. Y \in Seq(Symbols) /\ LexStart \in LexStates /\ i + d <= Len(Y)
    BY <1>1
  <2> QED BY <1>12, <1>13, <2>1, OneLive
<1>15. p \in States(q, Y, c, h)
  BY <1>8, <1>9, <1>14
<1>16. h > Len(z)
  <2> SUFFICES ASSUME h <= Len(z) PROVE FALSE
    BY <1>1
  <2>1. States(q, Y, c, h) = States(q, z, 0, h)
    BY <1>2, <1>10, LayoutStates
  <2>2. Matches(q, z, 0, h, t) /\ h \in 1..Len(z)
    BY <1>1, <1>4, <1>6, <1>7, <1>15, <2>1 DEF Matches
  <2>3. h \in MatchWidths(q, z, t)
    BY <1>1, <2>2, WidthsOf
  <2> QED BY <1>3, <1>4, <1>6, <2>3
<1>17. PICK l, k \in Nat : l = Len(z) /\ l + k = h /\ k \in 1..Len(v) /\ c + l + k <= Len(Y)
  <2>1. /\ h - Len(z) \in Nat /\ Len(z) + (h - Len(z)) = h
        /\ h - Len(z) \in 1..Len(v) /\ c + Len(z) + (h - Len(z)) <= Len(Y)
    BY <1>1, <1>6, <1>9, <1>16
  <2> QED BY <1>1, <2>1
<1>18. PICK r \in States(q, Y, c, l) : p \in States(r, Y, c + l, k)
  <2>1. p \in States(q, Y, c, l + k) <=> \E r \in States(q, Y, c, l) : p \in States(r, Y, c + l, k)
    BY <1>1, <1>2, <1>17, StatesSplit
  <2> QED BY <1>15, <1>17, <2>1
<1>19. r \in EndStates(q, z) /\ r \in LexStates
  <2>1. l <= Len(z)
    BY <1>17
  <2>2. States(q, Y, c, l) = States(q, z, 0, l)
    BY <1>2, <1>10, <2>1, LayoutStates
  <2>3. States(q, z, 0, l) = EndStates(q, z)
    BY <1>1, <1>17, EndStatesOf
  <2> QED BY <1>1, <1>2, <1>18, <2>2, <2>3, EndStatesType
<1>20. p \in States(r, v, 0, k)
  <2>1. k <= Len(v) /\ k \in Nat
    BY <1>17
  <2>2. States(r, Y, c + Len(z), k) = States(r, v, 0, k)
    BY <1>10, <1>19, <2>1, LayoutStates
  <2> QED BY <1>17, <1>18, <2>2
<1>21. t \in Future[r]
  <2>1. v \in Seq(Symbols) /\ 0 + k <= Len(v) /\ k > 0
    BY <1>1, <1>17, BytesAreSymbols
  <2>2. Live(p) \subseteq Future[r]
    BY <1>19, <1>20, <2>1, LiveBefore
  <2> QED BY <1>7, <2>2 DEF Live
<1>22. PICK e : e = <<r, t>>
  OBVIOUS
<1>23. e \in Recorded(EndStates(q, z), t) /\ e[1] = r /\ e[2] = t
  BY <1>19, <1>21, <1>22 DEF Recorded
<1>24. Matches(e[1], v, 0, k, e[2])
  BY <1>7, <1>20, <1>23 DEF Matches
<1> QED
  BY <1>1, <1>17, <1>23, <1>24, IsViolated

----------------------------------------------------------------------------
(* A special token ends every lexeme, so it changes no parse before it *)

LEMMA SpecialText ==
    ASSUME NEW x \in Seq(Symbols), NEW t \in Terminals, NEW v \in Seq(Bytes)
    PROVE  /\ Append(x, t) \in Seq(Symbols) /\ Len(Append(x, t)) = Len(x) + 1
           /\ Append(x, t) \o v \in Seq(Symbols) /\ Len(Append(x, t) \o v) = Len(x) + 1 + Len(v)
           /\ \A k \in 1..Len(x) : (Append(x, t) \o v)[k] = x[k]
           /\ (Append(x, t) \o v)[Len(x) + 1] = t /\ t \notin Bytes
<1>0. t \in Symbols /\ t \notin Bytes
  BY LexerAssumption DEF Symbols
<1>1. PICK y \in Seq(Symbols) : /\ y = Append(x, t) /\ Len(y) = Len(x) + 1 /\ y[Len(x) + 1] = t
                                /\ \A k \in 1..Len(x) : y[k] = x[k]
  <2>1. Append(x, t) \in Seq(Symbols) /\ Len(Append(x, t)) = Len(x) + 1
        /\ Append(x, t)[Len(x) + 1] = t /\ \A k \in 1..Len(x) : Append(x, t)[k] = x[k]
    BY <1>0
  <2> QED BY <2>1
<1>2. y \o v \in Seq(Symbols) /\ Len(y \o v) = Len(y) + Len(v) /\ \A k \in 1..Len(y) : (y \o v)[k] = y[k]
  BY ConcatFacts
<1>3. Len(x) \in Nat /\ Len(x) + 1 \in 1..Len(y) /\ \A k \in 1..Len(x) : k \in 1..Len(y)
  BY <1>1
<1> QED
  BY <1>0, <1>1, <1>2, <1>3

LEMMA WidthsAtSpecial ==
    ASSUME NEW x \in Seq(Symbols), NEW y \in Seq(Symbols), Len(y) >= Len(x) + 1,
           \A k \in 1..Len(x) : y[k] = x[k], y[Len(x) + 1] \notin Bytes, NEW i \in 0..Len(x), NEW t
    PROVE  MatchWidths(LexStart, Suffix(y, i), t) = MatchWidths(LexStart, Suffix(x, i), t)
<1>1. Len(x) \in Nat /\ Len(y) \in Nat /\ i \in 0..Len(y) /\ i \in Nat /\ LexStart \in LexStates
  BY LexerAssumption
<1>2. \A n : n \in MatchWidths(LexStart, Suffix(y, i), t) <=>
               n \in 1..(Len(y) - i) /\ Matches(LexStart, y, i, n, t)
  BY <1>1, InWidths
<1>3. \A n : n \in MatchWidths(LexStart, Suffix(x, i), t) <=>
               n \in 1..(Len(x) - i) /\ Matches(LexStart, x, i, n, t)
  BY <1>1, InWidths
<1>4. ASSUME NEW n \in 1..(Len(x) - i)
      PROVE  Matches(LexStart, y, i, n, t) <=> Matches(LexStart, x, i, n, t)
  <2>1. n \in Nat /\ i + n <= Len(x) /\ i + n <= Len(y) /\ \A k \in 1..n : i + k \in 1..Len(x)
    BY <1>1
  <2>2. SameSymbols(y, i, x, i, n)
    BY <2>1 DEF SameSymbols
  <2>3. States(LexStart, y, i, n) = States(LexStart, x, i, n)
    BY <1>1, <2>1, <2>2, StatesSame
  <2> QED BY <2>3 DEF Matches
<1>5. ASSUME NEW n \in 1..(Len(y) - i), n > Len(x) - i
      PROVE  ~Matches(LexStart, y, i, n, t)
  <2>1. PICK k \in 1..n : i + k = Len(x) + 1
    <3>1. Len(x) + 1 - i \in 1..n /\ i + (Len(x) + 1 - i) = Len(x) + 1
      BY <1>1, <1>5
    <3> QED BY <3>1
  <2>2. n \in Nat /\ i + n <= Len(y) /\ y[i + k] \notin Bytes
    BY <1>1, <2>1
  <2>3. States(LexStart, y, i, n) = {}
    BY <1>1, <2>2, NoByteNoState
  <2> QED BY <2>3 DEF Matches
<1>6. \A n : n \in 1..(Len(y) - i) => (n \in 1..(Len(x) - i) \/ n > Len(x) - i)
  BY <1>1
<1>7. \A n : n \in 1..(Len(x) - i) => n \in 1..(Len(y) - i)
  BY <1>1
<1> QED
  BY <1>2, <1>3, <1>4, <1>5, <1>6, <1>7

LEMMA CutsAtSpecial ==
    ASSUME NEW x \in Seq(Symbols), NEW y \in Seq(Symbols), Len(y) >= Len(x) + 1,
           \A k \in 1..Len(x) : y[k] = x[k], y[Len(x) + 1] \notin Bytes
    PROVE  \A k \in 0..Len(x) : Cuts(x)[k] \subseteq Cuts(y)[k]
<1>1. Len(x) \in Nat /\ Len(y) \in Nat
  OBVIOUS
<1> DEFINE S == {n \in Nat : \A k \in 0..Len(x) : k <= n => Cuts(x)[k] \subseteq Cuts(y)[k]}
<1>2. 0 \in S
  <2>1. Cuts(x)[0] = {StartStack} /\ Cuts(y)[0] = {StartStack}
    BY CutsUnfold
  <2>2. \A k \in 0..Len(x) : k <= 0 => k = 0
    OBVIOUS
  <2> QED BY <2>1, <2>2
<1>3. ASSUME NEW n \in Nat, n \in S PROVE n + 1 \in S
  <2> SUFFICES ASSUME NEW k \in 0..Len(x), k <= n + 1 PROVE Cuts(x)[k] \subseteq Cuts(y)[k]
    OBVIOUS
  <2>1. CASE k <= n
    BY <1>3, <2>1
  <2>2. CASE k = n + 1
    <3> SUFFICES ASSUME NEW z \in Cuts(x)[k] PROVE z \in Cuts(y)[k]
      OBVIOUS
    <3>1. k \in 1..Len(x) /\ k \in 1..Len(y)
      BY <1>1, <2>2
    <3>2. z \in Ends(Cuts(x), x, k)
      BY <3>1, CutsUnfold
    <3>3. PICK i \in 0..(k - 1), t \in Terminals : Lexeme(x, i, k, t) /\ z \in Shifted(Cuts(x)[i], t)
      BY <3>2, InEnds
    <3>4. i \in 0..Len(x) /\ i <= n
      BY <1>1, <2>2
    <3>5. Cuts(x)[i] \subseteq Cuts(y)[i]
      BY <1>3, <3>4
    <3>6. z \in Shifted(Cuts(y)[i], t)
      BY <3>3, <3>5, InShifted
    <3>7. MatchWidths(LexStart, Suffix(y, i), t) = MatchWidths(LexStart, Suffix(x, i), t)
      BY <3>4, WidthsAtSpecial
    <3>8. y[k] = x[k]
      BY <3>1
    <3>9. Lexeme(y, i, k, t)
      BY <3>3, <3>7, <3>8 DEF Lexeme
    <3> QED BY <3>1, <3>6, <3>9, CutsIntro
  <2> QED BY <1>1, <2>1, <2>2
<1>4. Nat \subseteq S
  <2> HIDE DEF S
  <2> QED BY <1>2, <1>3, NatSetInduction
<1> QED
  BY <1>1, <1>4

LEMMA SpecialCut ==
    ASSUME NEW x \in Seq(Symbols), NEW t \in Terminals, t \notin Ignored, NEW v \in Seq(Bytes),
           NEW s \in Cuts(x)[Len(x)], NEW z \in Advance[s][t]
    PROVE  z \in Cuts(Append(x, t) \o v)[Len(x) + 1]
<1>1. PICK y \in Seq(Symbols) : /\ y = Append(x, t) \o v /\ Len(y) = Len(x) + 1 + Len(v)
                                /\ \A k \in 1..Len(x) : y[k] = x[k]
                                /\ y[Len(x) + 1] = t /\ t \notin Bytes
  BY SpecialText
<1>2. Len(x) \in Nat /\ Len(v) \in Nat /\ Len(y) >= Len(x) + 1 /\ Len(x) \in 0..Len(x)
  BY <1>1
<1>3. s \in Cuts(y)[Len(x)]
  <2>1. y[Len(x) + 1] \notin Bytes
    BY <1>1
  <2>2. \A k \in 0..Len(x) : Cuts(x)[k] \subseteq Cuts(y)[k]
    BY <1>1, <1>2, <2>1, CutsAtSpecial
  <2> QED BY <1>2, <2>2
<1>4. z \in Shifted(Cuts(y)[Len(x)], t)
  BY <1>3, InShifted
<1>5. PICK k \in 1..Len(y) : k = Len(x) + 1
  BY <1>1, <1>2
<1>6. Len(x) \in 0..(k - 1) /\ Lexeme(y, Len(x), k, t)
  BY <1>1, <1>2, <1>5 DEF Lexeme
<1>7. z \in Cuts(y)[k]
  BY <1>4, <1>6, CutsIntro
<1> QED
  BY <1>1, <1>5, <1>7

----------------------------------------------------------------------------
(* The inductive invariant *)

(* Whatever bytes follow x, s is a parse of its first i symbols, unless one *)
(* of the exclusions E is hit.                                              *)
Held(s, E, i, x) == \A v \in Seq(Bytes) : ~Violated(E, v) => AtCut(s, i, x \o v)

(* The lexeme of exclusion e begins at i, has matched, and is open in x. *)
Open(e, x, i) ==
    /\ i < Len(x)
    /\ e[1] \in States(LexStart, x, i, Len(x) - i) /\ e[2] \in Future[e[1]]
    /\ \E n \in 1..(Len(x) - i) : Matches(LexStart, x, i, n, e[2])

Justified(e, E, X) ==
    \E x \in X : \E i \in Nat :
        Open(e, x, i) /\ \A v \in Seq(Bytes) : ~Violated(E, v) => Cuts(x \o v)[i] # {}

(* A place is a position in a text. Every stack of g is a parse at one of   *)
(* the places P, and its exclusions are about open lexemes of the texts X.  *)
Grounded(s, E, P, X) == (\E r \in P : Held(s, E, r[1], r[2])) /\ \A e \in E : Justified(e, E, X)

GssOK(g, P, X) == \A s \in DOMAIN g : Grounded(s, g[s], P, X)

Places == Nat \X Seq(Symbols)

(* The places of the texts X from which the lexer is in q at the end. *)
At(q, X) ==
    {r \in Places : r[2] \in X /\ r[1] <= Len(r[2]) /\ q \in States(LexStart, r[2], r[1], Len(r[2]) - r[1])}

MapOK(f, X) == \A q \in LexStates : GssOK(f[q], At(q, X), X)

(* The texts before the bytes being committed. *)
Before == {y \in Seq(Symbols) : y \o bytes \in texts}

(* Offset o of the bytes being committed. *)
AtQueue(o) == {r \in Places : \E y \in Before : r[1] = Len(y) + o /\ r[2] = y \o bytes}

SInv ==
    IF busy
    THEN /\ MapOK(queue[0], Before)
         /\ \A o \in 1..Len(bytes) :
              /\ \A q \in LexStates \ {LexStart} : queue[o][q] = EmptyGss
              /\ GssOK(queue[o][LexStart], AtQueue(o), texts)
         /\ MapOK(pending, texts)
         /\ GssOK(special, At(LexStart, texts), texts)
    ELSE MapOK(frontier, texts)

LEMMA HeldMonotone ==
    ASSUME NEW s, NEW E, NEW F, E \subseteq F, NEW i, NEW x, Held(s, E, i, x)
    PROVE  Held(s, F, i, x)
  BY ViolatedMonotone DEF Held

LEMMA JustifiedMonotone ==
    ASSUME NEW e, NEW E, NEW F, E \subseteq F, NEW X, NEW Y, X \subseteq Y, Justified(e, E, X)
    PROVE  Justified(e, F, Y)
<1>1. \A v : ~Violated(F, v) => ~Violated(E, v)
  BY ViolatedMonotone
<1> QED
  BY <1>1 DEF Justified

LEMMA GroundedMonotone ==
    ASSUME NEW s, NEW E, NEW P, NEW Q, P \subseteq Q, NEW X, NEW Y, X \subseteq Y, Grounded(s, E, P, X)
    PROVE  Grounded(s, E, Q, Y)
  BY JustifiedMonotone DEF Grounded

LEMMA GssMonotone ==
    ASSUME NEW g, NEW P, NEW Q, P \subseteq Q, NEW X, NEW Y, X \subseteq Y, GssOK(g, P, X)
    PROVE  GssOK(g, Q, Y)
  BY GroundedMonotone DEF GssOK

LEMMA AtMonotone ==
    ASSUME NEW q, NEW X, NEW Y, X \subseteq Y
    PROVE  At(q, X) \subseteq At(q, Y)
  BY DEF At

LEMMA MapMonotone ==
    ASSUME NEW f, NEW X, NEW Y, X \subseteq Y, MapOK(f, X)
    PROVE  MapOK(f, Y)
  BY AtMonotone, GssMonotone DEF MapOK

LEMMA EmptyOK ==
    ASSUME NEW P, NEW X
    PROVE  GssOK(EmptyGss, P, X)
  BY EmptyType DEF GssOK

LEMMA NoStatesOK ==
    ASSUME NEW X
    PROVE  MapOK(NoStates, X)
  BY EmptyOK, NoStatesType DEF MapOK

(* Stacks of the same places merge: a parse that is one of either is one of *)
(* the merged stack, under all the exclusions of both.                      *)
LEMMA GroundedUnion ==
    ASSUME NEW s, NEW E, NEW P, NEW X, NEW F, E \subseteq F, Grounded(s, E, P, X),
           \A e \in F : \E D : D \subseteq F /\ Justified(e, D, X)
    PROVE  Grounded(s, F, P, X)
<1>1. \E r \in P : Held(s, F, r[1], r[2])
  BY HeldMonotone DEF Grounded
<1>2. \A e \in F : Justified(e, F, X)
  BY JustifiedMonotone
<1> QED
  BY <1>1, <1>2 DEF Grounded

LEMMA MergeOK ==
    ASSUME NEW g, NEW h, NEW P, NEW X, GssOK(g, P, X), GssOK(h, P, X)
    PROVE  GssOK(Merge(g, h), P, X)
<1> SUFFICES ASSUME NEW s \in DOMAIN Merge(g, h) PROVE Grounded(s, Merge(g, h)[s], P, X)
  BY DEF GssOK
<1>1. PICK F : F = Merge(g, h)[s]
  OBVIOUS
<1>2. F = Acc(g, s) \cup Acc(h, s) /\ (s \in DOMAIN g \/ s \in DOMAIN h)
  BY <1>1 DEF Merge
<1>3. s \in DOMAIN g => Acc(g, s) = g[s] /\ Grounded(s, g[s], P, X)
  BY DEF Acc, GssOK
<1>4. s \in DOMAIN h => Acc(h, s) = h[s] /\ Grounded(s, h[s], P, X)
  BY DEF Acc, GssOK
<1>5. \A e \in Acc(g, s) : Justified(e, Acc(g, s), X)
  BY <1>3 DEF Acc, Grounded
<1>6. \A e \in Acc(h, s) : Justified(e, Acc(h, s), X)
  BY <1>4 DEF Acc, Grounded
<1>7. \A e \in F : \E D : D \subseteq F /\ Justified(e, D, X)
  BY <1>2, <1>5, <1>6
<1>8. \E E : E \subseteq F /\ Grounded(s, E, P, X)
  BY <1>2, <1>3, <1>4
<1>9. Grounded(s, F, P, X)
  BY <1>7, <1>8, GroundedUnion
<1> QED
  BY <1>1, <1>9

----------------------------------------------------------------------------
(* Settling the exclusions over the bytes of a commit *)

LEMMA MovedHeld ==
    ASSUME NEW E \in Exclusions, NEW w \in Seq(Bytes), ~Violated(E, w), NEW x \in Seq(Symbols), NEW i, NEW s,
           Held(s, E, i, x)
    PROVE  Held(s, MovedExclusions(E, w), i, x \o w)
<1> SUFFICES ASSUME NEW v \in Seq(Bytes), ~Violated(MovedExclusions(E, w), v)
             PROVE  AtCut(s, i, (x \o w) \o v)
  BY DEF Held
<1>1. w \o v \in Seq(Bytes) /\ (x \o w) \o v = x \o (w \o v)
  BY ConcatAssoc
<1>2. ~Violated(E, w \o v)
  BY ViolatedSplit
<1> QED
  BY <1>1, <1>2 DEF Held

(* An exclusion that moves over w stays with the lexeme it is about. *)
LEMMA MovedOpen ==
    ASSUME NEW w \in Seq(Bytes), NEW x \in Seq(Symbols), NEW i \in Nat, NEW d \in LexStates \X Terminals,
           Open(d, x, i), NEW p \in EndStates(d[1], w), d[2] \in Future[p], NEW e, e = <<p, d[2]>>
    PROVE  Open(e, x \o w, i)
<1>1. PICK y \in Seq(Symbols) : y = x \o w /\ Len(y) = Len(x) + Len(w)
  BY ConcatFacts
<1>2. Len(x) \in Nat /\ Len(w) \in Nat /\ i < Len(x) /\ i < Len(y) /\ LexStart \in LexStates
  BY <1>1, LexerAssumption DEF Open
<1>3. PICK l, m \in Nat : l = Len(x) - i /\ m = Len(w) /\ i + l = Len(x)
  <2>1. Len(x) - i \in Nat /\ i + (Len(x) - i) = Len(x)
    BY <1>2
  <2> QED BY <1>2, <2>1
<1>4. i + l <= Len(x) /\ i + l + m <= Len(y) /\ l + m = Len(y) - i /\ m <= Len(w)
  BY <1>1, <1>2, <1>3
<1>5. d[1] \in States(LexStart, y, i, l)
  <2>1. d[1] \in States(LexStart, x, i, l)
    BY <1>3 DEF Open
  <2> QED BY <1>1, <1>2, <1>4, <2>1, PrefixStates
<1>6. p \in States(d[1], y, i + l, m)
  <2>1. p \in States(d[1], w, 0, m)
    BY <1>3, EndStatesOf
  <2>2. States(d[1], y, Len(x), m) = States(d[1], w, 0, m)
    BY <1>1, <1>4, TailStates
  <2> QED BY <1>3, <2>1, <2>2
<1>7. p \in States(LexStart, y, i, l + m)
  <2>1. p \in States(LexStart, y, i, l + m) <=>
          \E r \in States(LexStart, y, i, l) : p \in States(r, y, i + l, m)
    BY <1>2, <1>4, StatesSplit
  <2> QED BY <1>5, <1>6, <2>1
<1>8. PICK n \in 1..(Len(x) - i) : Matches(LexStart, x, i, n, d[2])
  BY DEF Open
<1>9. n \in Nat /\ i + n <= Len(x) /\ n \in 1..(Len(y) - i)
  BY <1>1, <1>2
<1>10. Matches(LexStart, y, i, n, d[2])
  <2>1. States(LexStart, y, i, n) = States(LexStart, x, i, n)
    BY <1>1, <1>2, <1>9, PrefixStates
  <2> QED BY <1>8, <2>1 DEF Matches
<1>11. e[1] = p /\ e[2] = d[2]
  OBVIOUS
<1>12. Open(e, y, i)
  BY <1>2, <1>4, <1>7, <1>9, <1>10, <1>11 DEF Open
<1> QED
  BY <1>1, <1>12

LEMMA MovedJustified ==
    ASSUME NEW E \in Exclusions, NEW w \in Seq(Bytes), ~Violated(E, w), NEW X \in SUBSET Seq(Symbols), NEW Y,
           \A x \in X : x \o w \in Y, \A d \in E : Justified(d, E, X), NEW e \in MovedExclusions(E, w)
    PROVE  Justified(e, MovedExclusions(E, w), Y)
<1>0. PICK d \in E : \E p \in EndStates(d[1], w) : d[2] \in Future[p] /\ e = <<p, d[2]>>
  BY InMoved
<1>1. PICK p \in EndStates(d[1], w) : d[2] \in Future[p] /\ e = <<p, d[2]>>
  BY <1>0
<1>2. d \in LexStates \X Terminals
  BY DEF Exclusions
<1>3. PICK x \in X, i \in Nat :
        Open(d, x, i) /\ \A v \in Seq(Bytes) : ~Violated(E, v) => Cuts(x \o v)[i] # {}
  BY DEF Justified
<1>4. x \in Seq(Symbols)
  OBVIOUS
<1>5. Open(e, x \o w, i)
  BY <1>1, <1>2, <1>3, <1>4, MovedOpen
<1>6. ASSUME NEW v \in Seq(Bytes), ~Violated(MovedExclusions(E, w), v)
      PROVE  Cuts((x \o w) \o v)[i] # {}
  <2>1. w \o v \in Seq(Bytes) /\ (x \o w) \o v = x \o (w \o v)
    BY <1>4, ConcatAssoc
  <2>2. ~Violated(E, w \o v)
    BY <1>6, ViolatedSplit
  <2> QED BY <1>3, <2>1, <2>2
<1>7. x \o w \in Y
  OBVIOUS
<1> QED
  BY <1>5, <1>6, <1>7 DEF Justified

(* The places from which the lexer is in q at the offset being processed. *)
AtEntry(q) ==
    {r \in Places : \E y \in Before : \E d \in Nat :
        r[1] + d = Len(y) + offset /\ r[2] = y \o bytes /\ q \in States(LexStart, r[2], r[1], d)}

LEMMA BeforeFacts ==
    ASSUME TypeOK, NEW y \in Before
    PROVE  y \in Seq(Symbols) /\ y \o bytes \in texts /\ y \o bytes \in Seq(Symbols)
           /\ Len(y \o bytes) = Len(y) + Len(bytes)
<1>1. y \in Seq(Symbols) /\ y \o bytes \in texts /\ bytes \in Seq(Bytes)
  BY DEF Before, TypeOK
<1> QED
  BY <1>1, ConcatFacts

LEMMA SettledOK ==
    ASSUME TypeOK, offset = 0, NEW q \in LexStates, GssOK(queue[0][q], At(q, Before), Before)
    PROVE  GssOK(AtOffset(q), AtEntry(q), texts)
<1>1. PICK g : g = queue[0][q]
  OBVIOUS
<1>2. IsGss(g) /\ bytes \in Seq(Bytes) /\ 0 \in 0..Len(bytes)
  BY <1>1, StateMapElim DEF TypeOK
<1>3. AtOffset(q) = Prune(g, bytes)
  BY <1>1 DEF AtOffset
<1> SUFFICES ASSUME NEW s \in DOMAIN Prune(g, bytes)
             PROVE  Grounded(s, Prune(g, bytes)[s], AtEntry(q), texts)
  BY <1>3 DEF GssOK
<1>4. s \in DOMAIN g /\ ~Violated(g[s], bytes) /\ Prune(g, bytes)[s] = MovedExclusions(g[s], bytes)
  BY DEF Prune
<1>5. PICK E \in Exclusions : E = g[s]
  BY <1>2, <1>4, GssElim
<1>6. Grounded(s, E, At(q, Before), Before)
  BY <1>1, <1>4, <1>5 DEF GssOK
<1>7. PICK r \in At(q, Before) : Held(s, E, r[1], r[2])
  BY <1>6 DEF Grounded
<1>8. PICK y \in Before, i \in Nat : /\ y = r[2] /\ i = r[1] /\ i <= Len(y)
                                     /\ q \in States(LexStart, y, i, Len(y) - i)
  BY <1>7 DEF At, Places
<1>9. y \in Seq(Symbols) /\ y \o bytes \in texts /\ y \o bytes \in Seq(Symbols) /\ Len(y) \in Nat
  BY BeforeFacts
<1>10. Held(s, MovedExclusions(E, bytes), i, y \o bytes)
  BY <1>2, <1>4, <1>5, <1>7, <1>8, <1>9, MovedHeld
<1>11. PICK d \in Nat : d = Len(y) - i /\ i + d = Len(y)
  <2>1. Len(y) - i \in Nat /\ i + (Len(y) - i) = Len(y)
    BY <1>8, <1>9
  <2> QED BY <2>1
<1>12. q \in States(LexStart, y \o bytes, i, d)
  <2>1. i + d <= Len(y) /\ LexStart \in LexStates
    BY <1>9, <1>11, LexerAssumption
  <2> QED BY <1>2, <1>8, <1>9, <1>11, <2>1, PrefixStates
<1>13. PICK z : z = <<i, y \o bytes>>
  OBVIOUS
<1>14. z \in AtEntry(q) /\ z[1] = i /\ z[2] = y \o bytes
  <2>1. z \in Places /\ z[1] = i /\ z[2] = y \o bytes
    BY <1>9, <1>13 DEF Places
  <2>2. z[1] + d = Len(y) + offset
    BY <1>9, <1>11, <2>1
  <2> QED BY <1>12, <2>1, <2>2 DEF AtEntry
<1>15. \A e \in MovedExclusions(E, bytes) : Justified(e, MovedExclusions(E, bytes), texts)
  <2>1. \A x \in Before : x \o bytes \in texts
    BY BeforeFacts
  <2>2. Before \in SUBSET Seq(Symbols)
    BY DEF Before
  <2>3. \A e \in E : Justified(e, E, Before)
    BY <1>6 DEF Grounded
  <2> QED BY <1>2, <1>4, <1>5, <2>1, <2>2, <2>3, MovedJustified
<1> QED
  BY <1>4, <1>5, <1>10, <1>14, <1>15 DEF Grounded

----------------------------------------------------------------------------
(* Processing an entry of the queue *)

LEMMA LayoutAt ==
    ASSUME TypeOK, NEW y \in Before, NEW o \in 0..Len(bytes), NEW v \in Seq(Bytes)
    PROVE  Layout((y \o bytes) \o v, Len(y) + o, Suffix(bytes, o), v)
<1>1. /\ bytes \in Seq(Bytes) /\ bytes \in Seq(Symbols) /\ Len(bytes) \in Nat /\ o \in Nat
      /\ y \in Seq(Symbols) /\ Len(y) \in Nat
  BY BeforeFacts, BytesAreSymbols DEF TypeOK
<1>2. PICK z \in Seq(Bytes) : /\ z = Suffix(bytes, o) /\ Len(z) = Len(bytes) - o
                              /\ \A k \in 1..(Len(bytes) - o) : z[k] = bytes[o + k]
  <2>1. SubSeq(bytes, o + 1, Len(bytes)) \in Seq(Bytes)
    BY <1>1
  <2> QED BY <1>1, <2>1, SuffixFacts DEF Suffix
<1>3. PICK x \in Seq(Symbols) : /\ x = y \o bytes /\ Len(x) = Len(y) + Len(bytes)
                                /\ \A k \in 1..Len(bytes) : x[Len(y) + k] = bytes[k]
  BY <1>1, ConcatFacts
<1>4. PICK Y \in Seq(Symbols) : /\ Y = x \o v /\ Len(Y) = Len(x) + Len(v)
                                /\ \A k \in 1..Len(x) : Y[k] = x[k]
                                /\ \A k \in 1..Len(v) : Y[Len(x) + k] = v[k]
  BY ConcatFacts
<1>5. PICK c \in Nat : c = Len(y) + o
  BY <1>1
<1>6. Len(v) \in Nat /\ Len(Y) = c + Len(z) + Len(v) /\ c + Len(z) = Len(x)
  BY <1>1, <1>2, <1>3, <1>4, <1>5
<1>7. SameSymbols(Y, c, z, 0, Len(z))
  <2> SUFFICES ASSUME NEW k \in 1..Len(z) PROVE Y[c + k] = z[0 + k]
    BY DEF SameSymbols
  <2>1. k \in 1..(Len(bytes) - o) /\ 0 + k = k
    BY <1>1, <1>2
  <2>2. z[k] = bytes[o + k]
    BY <1>2, <2>1
  <2>3. PICK m \in 1..Len(bytes) : m = o + k /\ Len(y) + m = c + k /\ Len(y) + m \in 1..Len(x)
    <3>1. o + k \in 1..Len(bytes) /\ Len(y) + (o + k) = c + k /\ Len(y) + (o + k) \in 1..Len(x)
      BY <1>1, <1>3, <1>5, <2>1
    <3> QED BY <3>1
  <2>4. Y[Len(y) + m] = x[Len(y) + m] /\ x[Len(y) + m] = bytes[m]
    BY <1>3, <1>4, <2>3
  <2> QED BY <2>1, <2>2, <2>3, <2>4
<1>8. SameSymbols(Y, c + Len(z), v, 0, Len(v))
  <2> SUFFICES ASSUME NEW k \in 1..Len(v) PROVE Y[(c + Len(z)) + k] = v[0 + k]
    BY DEF SameSymbols
  <2>1. 0 + k = k
    OBVIOUS
  <2> QED BY <1>4, <1>6, <2>1
<1>9. Layout(Y, c, z, v)
  BY <1>6, <1>7, <1>8 DEF Layout
<1> QED
  BY <1>2, <1>3, <1>4, <1>5, <1>9

LEMMA LayoutOf ==
    ASSUME TypeOK, NEW y \in Before, NEW v \in Seq(Bytes)
    PROVE  Layout((y \o bytes) \o v, Len(y) + offset, Rest, v)
<1>1. offset \in 0..Len(bytes) /\ Rest = Suffix(bytes, offset)
  BY RestFacts DEF TypeOK
<1> QED
  BY <1>1, LayoutAt

(* Entry(q, i, d, y): a lexeme that began at position i of the text has the *)
(* lexer in q at the offset being processed, d symbols later.               *)
Entry(q, i, d, y) ==
    /\ y \in Before /\ i \in Nat /\ d \in Nat /\ i + d = Len(y) + offset
    /\ q \in States(LexStart, y \o bytes, i, d)

LEMMA EntryLayout ==
    ASSUME TypeOK, NEW q, NEW i, NEW d, NEW y, Entry(q, i, d, y), NEW v \in Seq(Bytes)
    PROVE  Layout((y \o bytes) \o v, i + d, Rest, v) /\ q \in States(LexStart, (y \o bytes) \o v, i, d)
<1>1. /\ y \in Before /\ i \in Nat /\ d \in Nat /\ i + d = Len(y) + offset
      /\ q \in States(LexStart, y \o bytes, i, d)
  BY DEF Entry
<1>2. Layout((y \o bytes) \o v, i + d, Rest, v)
  BY <1>1, LayoutOf
<1>3. PICK x \in Seq(Symbols) : x = y \o bytes /\ Len(x) = Len(y) + Len(bytes) /\ Len(y) \in Nat
  <2>1. y \in Seq(Symbols) /\ y \o bytes \in Seq(Symbols) /\ Len(y \o bytes) = Len(y) + Len(bytes)
    BY <1>1, BeforeFacts
  <2>2. Len(y) \in Nat
    BY <2>1
  <2> QED BY <2>1, <2>2
<1>4. offset \in 0..Len(bytes) /\ Len(bytes) \in Nat /\ LexStart \in LexStates
  BY LexerAssumption DEF TypeOK
<1>5. i + d <= Len(x)
  BY <1>1, <1>3, <1>4
<1>6. States(LexStart, x \o v, i, d) = States(LexStart, x, i, d)
  BY <1>1, <1>4, <1>5, PrefixStates
<1> QED
  BY <1>1, <1>2, <1>3, <1>6

(* What a match from an entry is in the text, whatever follows. *)
LEMMA ArrivalMatch ==
    ASSUME TypeOK, NEW q, NEW i, NEW d, NEW y, Entry(q, i, d, y), NEW v \in Seq(Bytes),
           NEW k \in 1..Len(bytes), NEW t, Arrives(q, k, t)
    PROVE  \E n \in Nat : /\ n >= 1 /\ i + n = Len(y) + k /\ i + n <= Len((y \o bytes) \o v)
                          /\ (y \o bytes) \o v \in Seq(Symbols)
                          /\ Matches(LexStart, (y \o bytes) \o v, i, n, t)
                          /\ n = d + (k - offset)
<1>1. Layout((y \o bytes) \o v, i + d, Rest, v) /\ q \in States(LexStart, (y \o bytes) \o v, i, d)
  BY EntryLayout
<1>2. i \in Nat /\ d \in Nat /\ i + d = Len(y) + offset /\ y \in Before
  BY DEF Entry
<1>3. PICK Y \in Seq(Symbols) : Y = (y \o bytes) \o v
  BY <1>1 DEF Layout
<1>4. PICK m : m = k - offset
  OBVIOUS
<1>5. m \in MatchWidths(q, Rest, t) /\ k > offset
  BY <1>4 DEF Arrives, LongestMatch
<1>6. m \in 1..Len(Rest) /\ i + (d + m) <= Len(Y) /\ Matches(LexStart, Y, i, d + m, t)
  BY <1>1, <1>2, <1>3, <1>5, EntryMatch
<1>7. Len(y) \in Nat /\ offset \in Nat /\ k \in Nat
  BY <1>2, BeforeFacts DEF TypeOK
<1>8. m \in Nat /\ m >= 1
  BY <1>5, <1>4, <1>7
<1>9. PICK n \in Nat : n = d + m
  BY <1>2, <1>8
<1>10. n >= 1 /\ i + n = Len(y) + k /\ i + n <= Len(Y) /\ n = d + (k - offset)
  <2>1. i + n <= Len(Y)
    BY <1>6, <1>9
  <2>2. n >= 1 /\ n = d + (k - offset)
    BY <1>2, <1>4, <1>8, <1>9
  <2>3. PICK l \in Nat : l = Len(y)
    BY <1>7
  <2>4. k = offset + m
    BY <1>4, <1>7, <1>8
  <2>5. i + d = l + offset
    BY <1>2, <2>3
  <2>6. i + (d + m) = (i + d) + m /\ (l + offset) + m = l + (offset + m)
    BY <1>2, <1>7, <1>8, <2>3
  <2>7. i + n = l + k
    BY <1>9, <2>4, <2>5, <2>6
  <2> QED BY <2>1, <2>2, <2>3, <2>7
<1>11. Matches(LexStart, Y, i, n, t)
  BY <1>6, <1>9
<1> QED
  BY <1>3, <1>10, <1>11

LEMMA IgnoredHeld ==
    ASSUME OnePartition, IgnoredRestart, TypeOK, NEW q, NEW i, NEW d, NEW y, Entry(q, i, d, y),
           NEW k \in 1..Len(bytes), NEW t \in Ignored, Arrives(q, k, t), NEW s, NEW E,
           Held(s, E, i, y \o bytes)
    PROVE  Held(s, E, Len(y) + k, y \o bytes)
<1> SUFFICES ASSUME NEW v \in Seq(Bytes), ~Violated(E, v)
             PROVE  AtCut(s, Len(y) + k, (y \o bytes) \o v)
  BY DEF Held
<1>1. PICK Y : Y = (y \o bytes) \o v
  OBVIOUS
<1>2. PICK n \in Nat : /\ n >= 1 /\ i + n = Len(y) + k /\ i + n <= Len(Y) /\ Y \in Seq(Symbols)
                       /\ Matches(LexStart, Y, i, n, t)
  BY <1>1, ArrivalMatch
<1>3. i \in Nat
  BY DEF Entry
<1>4. AtCut(s, i, Y)
  BY <1>1 DEF Held
<1>5. AtCut(s, i + n, Y)
  BY <1>2, <1>3, <1>4, IgnoredStep
<1> QED
  BY <1>1, <1>2, <1>5

LEMMA ShiftHeld ==
    ASSUME OnePartition, IgnoredRestart, TypeOK, NEW q, NEW i, NEW d, NEW y, Entry(q, i, d, y),
           NEW k \in 1..Len(bytes), NEW t \in Terminals, t \notin Ignored, Arrives(q, k, t), NEW s, NEW E,
           Held(s, E, i, y \o bytes), NEW z \in Advance[s][t],
           NEW F, E \subseteq F, Recorded(EndStates(q, Rest), t) \subseteq F
    PROVE  Held(z, F, Len(y) + k, y \o bytes)
<1> SUFFICES ASSUME NEW v \in Seq(Bytes), ~Violated(F, v)
             PROVE  AtCut(z, Len(y) + k, (y \o bytes) \o v)
  BY DEF Held
<1>1. PICK Y : Y = (y \o bytes) \o v
  OBVIOUS
<1>2. PICK n \in Nat : /\ n >= 1 /\ i + n = Len(y) + k /\ i + n <= Len(Y) /\ Y \in Seq(Symbols)
                       /\ Matches(LexStart, Y, i, n, t) /\ n = d + (k - offset)
  BY <1>1, ArrivalMatch
<1>3. i \in Nat /\ d \in Nat
  BY DEF Entry
<1>4. ~Violated(E, v) /\ ~Violated(Recorded(EndStates(q, Rest), t), v)
  BY ViolatedMonotone
<1>5. AtCut(s, i, Y)
  BY <1>1, <1>4 DEF Held
<1>6. Layout(Y, i + d, Rest, v) /\ q \in States(LexStart, Y, i, d)
  BY <1>1, EntryLayout
<1>7. PICK m : m = k - offset
  OBVIOUS
<1>8. LongestMatch(q, Rest, t, m)
  BY <1>7 DEF Arrives
<1>9. ~Larger(Y, i, d + m, t)
  BY <1>3, <1>4, <1>6, <1>8, EntryLongest
<1>10. ~Larger(Y, i, n, t)
  BY <1>2, <1>7, <1>9
<1>11. AtCut(z, i + n, Y)
  BY <1>2, <1>3, <1>5, <1>10, ShiftStep
<1> QED
  BY <1>1, <1>2, <1>11

LEMMA RecordedJustified ==
    ASSUME OnePartition, IgnoredRestart, TypeOK, NEW q, NEW i, NEW d, NEW y, Entry(q, i, d, y),
           NEW k \in 1..Len(bytes), NEW t \in Terminals, t \notin Ignored, Arrives(q, k, t), NEW s, NEW E,
           Held(s, E, i, y \o bytes), NEW F, E \subseteq F, NEW e \in Recorded(EndStates(q, Rest), t)
    PROVE  Justified(e, F, texts)
<1>1. PICK p \in EndStates(q, Rest) : t \in Future[p] /\ e[1] = p /\ e[2] = t
  BY DEF Recorded
<1>2. PICK x \in Seq(Symbols) : x = y \o bytes /\ x \in texts /\ Len(x) = Len(y) + Len(bytes) /\ Len(y) \in Nat
  <2>1. y \in Seq(Symbols) /\ y \o bytes \in texts /\ y \o bytes \in Seq(Symbols)
        /\ Len(y \o bytes) = Len(y) + Len(bytes)
    BY BeforeFacts DEF Entry
  <2>2. Len(y) \in Nat
    BY <2>1
  <2> QED BY <2>1, <2>2
<1>3. i \in Nat /\ d \in Nat /\ i + d = Len(y) + offset
  BY DEF Entry
<1>4. <<>> \in Seq(Bytes) /\ x \o <<>> = x
  BY ConcatEmpty
<1>5. PICK v \in Seq(Bytes) : v = <<>> /\ x \o v = x
  BY <1>4
<1>6. Layout(x, i + d, Rest, v) /\ q \in States(LexStart, x, i, d)
  BY <1>2, <1>5, EntryLayout
<1>7. /\ offset \in Nat /\ Len(bytes) \in Nat /\ k > offset /\ LexStart \in LexStates
      /\ Rest \in Seq(Bytes) /\ Len(Rest) = Len(bytes) - offset /\ Len(Rest) \in Nat
  BY RestFacts, LexerAssumption DEF TypeOK, Arrives
<1>8. i < Len(x)
  BY <1>2, <1>3, <1>7
<1>9. q \in LexStates
  <2>1. i + d <= Len(x)
    BY <1>2, <1>3, <1>7
  <2> QED BY <1>3, <1>6, <1>7, <2>1, LiveBefore
<1>10. PICK l \in Nat : l = Len(Rest) /\ i + d + l <= Len(x) /\ d + l = Len(x) - i
  <2>1. PICK a, b, c \in Nat : a = Len(y) /\ b = Len(bytes) /\ c = Len(x) /\ c = a + b
    <3>1. Len(x) \in Nat /\ Len(x) = Len(y) + Len(bytes) /\ Len(y) \in Nat
      BY <1>2
    <3> QED BY <1>7, <3>1
  <2>2. PICK l \in Nat : l = Len(Rest)
    BY <1>7
  <2>3. i + d = a + offset /\ l = b - offset
    BY <1>3, <1>7, <2>1, <2>2
  <2>4. i + d + l <= c /\ d + l = c - i
    <3>1. i \in Nat /\ d \in Nat /\ a \in Nat /\ b \in Nat /\ c = a + b /\ offset \in Nat
      BY <1>3, <1>7, <2>1
    <3> QED BY ONLY <2>3, <3>1
  <2> QED BY <2>1, <2>2, <2>4
<1>11. p \in States(q, x, i + d, l)
  <2>1. p \in States(q, Rest, 0, l)
    BY <1>1, <1>7, <1>10, EndStatesOf
  <2>2. l <= Len(Rest)
    BY <1>10
  <2>3. States(q, x, i + d, l) = States(q, Rest, 0, l)
    BY <1>6, <1>9, <2>2, LayoutStates
  <2> QED BY <2>1, <2>3
<1>12. p \in States(LexStart, x, i, d + l)
  <2>1. p \in States(LexStart, x, i, d + l) <=> \E r \in States(LexStart, x, i, d) : p \in States(r, x, i + d, l)
    BY <1>3, <1>7, <1>10, StatesSplit
  <2> QED BY <1>6, <1>11, <2>1
<1>13. PICK n \in Nat : n >= 1 /\ i + n <= Len(x) /\ Matches(LexStart, x, i, n, t)
  <2>1. PICK Y : Y = (y \o bytes) \o v
    OBVIOUS
  <2>2. \E n \in Nat : n >= 1 /\ i + n <= Len(Y) /\ Matches(LexStart, Y, i, n, t)
    BY <2>1, ArrivalMatch
  <2>3. Y = x
    BY <1>2, <1>5, <2>1
  <2> QED BY <2>2, <2>3
<1>14. Open(e, x, i)
  <2>1. n \in 1..(Len(x) - i)
    BY <1>2, <1>3, <1>7, <1>13
  <2> QED BY <1>1, <1>8, <1>10, <1>12, <1>13, <2>1 DEF Open
<1>15. ASSUME NEW u \in Seq(Bytes), ~Violated(F, u) PROVE Cuts(x \o u)[i] # {}
  <2>1. PICK Y : Y = (y \o bytes) \o u
    OBVIOUS
  <2>2. PICK m \in Nat : m >= 1 /\ i + m <= Len(Y) /\ Y \in Seq(Symbols) /\ Matches(LexStart, Y, i, m, t)
    BY <2>1, ArrivalMatch
  <2>3. ~Violated(E, u)
    BY <1>15, ViolatedMonotone
  <2>4. AtCut(s, i, Y)
    BY <2>1, <2>3 DEF Held
  <2>5. s \in Cuts(Y)[i]
    BY <1>3, <2>2, <2>4, CutOfMatch
  <2> QED BY <1>2, <2>1, <2>5
<1> QED
  BY <1>2, <1>3, <1>14, <1>15 DEF Justified

LEMMA EntryPlace ==
    ASSUME NEW q, NEW r \in AtEntry(q)
    PROVE  \E y, d : Entry(q, r[1], d, y) /\ r[2] = y \o bytes
<1>1. PICK y \in Before, d \in Nat :
        r[1] + d = Len(y) + offset /\ r[2] = y \o bytes /\ q \in States(LexStart, r[2], r[1], d)
  BY DEF AtEntry
<1>2. r[1] \in Nat
  BY DEF AtEntry, Places
<1> QED
  BY <1>1, <1>2 DEF Entry

LEMMA QueuePlace ==
    ASSUME TypeOK, NEW y \in Before, NEW k \in 1..Len(bytes)
    PROVE  \E r \in AtQueue(k) : r[1] = Len(y) + k /\ r[2] = y \o bytes
<1>1. y \in Seq(Symbols) /\ y \o bytes \in Seq(Symbols)
  BY BeforeFacts
<1>2. Len(y) + k \in Nat
  BY <1>1
<1>3. PICK r : r = <<Len(y) + k, y \o bytes>>
  OBVIOUS
<1>4. r \in Places /\ r[1] = Len(y) + k /\ r[2] = y \o bytes
  BY <1>1, <1>2, <1>3 DEF Places
<1> QED
  BY <1>4 DEF AtQueue

LEMMA AfterMatchOK ==
    ASSUME OnePartition, IgnoredRestart, TypeOK, NEW q, NEW g, GssOK(g, AtEntry(q), texts),
           NEW k \in 1..Len(bytes), NEW t \in Terminals, Arrives(q, k, t)
    PROVE  GssOK(AfterMatch(g, q, t), AtQueue(k), texts)
<1>0. ASSUME NEW s \in DOMAIN g
      PROVE  /\ \E i, d, y : Entry(q, i, d, y) /\ Held(s, g[s], i, y \o bytes)
             /\ \A e \in g[s] : Justified(e, g[s], texts)
  <2>1. Grounded(s, g[s], AtEntry(q), texts)
    BY DEF GssOK
  <2>2. PICK r \in AtEntry(q) : Held(s, g[s], r[1], r[2])
    BY <2>1 DEF Grounded
  <2>3. PICK y, d : Entry(q, r[1], d, y) /\ r[2] = y \o bytes
    BY EntryPlace
  <2> QED BY <2>1, <2>2, <2>3 DEF Grounded
<1>1. CASE t \in Ignored
  <2>1. AfterMatch(g, q, t) = g
    BY <1>1 DEF AfterMatch
  <2> SUFFICES ASSUME NEW s \in DOMAIN g PROVE Grounded(s, g[s], AtQueue(k), texts)
    BY <2>1 DEF GssOK
  <2>2. PICK i, d, y : Entry(q, i, d, y) /\ Held(s, g[s], i, y \o bytes)
    BY <1>0
  <2>3. Held(s, g[s], Len(y) + k, y \o bytes)
    BY <1>1, <2>2, IgnoredHeld
  <2>4. y \in Before
    BY <2>2 DEF Entry
  <2>5. PICK r \in AtQueue(k) : r[1] = Len(y) + k /\ r[2] = y \o bytes
    BY <2>4, QueuePlace
  <2> QED BY <1>0, <2>3, <2>5 DEF Grounded
<1>2. CASE t \notin Ignored
  <2> DEFINE A == AdvanceStacks(g, t)
             N == Recorded(EndStates(q, Rest), t)
  <2>1. /\ \A z : z \in DOMAIN A <=> \E s \in DOMAIN g : z \in Advance[s][t]
        /\ \A z \in DOMAIN A : \A e : e \in A[z] <=> \E s \in DOMAIN g : z \in Advance[s][t] /\ e \in g[s]
    BY InAdvance
  <2>2. /\ DOMAIN AfterMatch(g, q, t) = DOMAIN A
        /\ \A z \in DOMAIN A : AfterMatch(g, q, t)[z] = A[z] \cup N
    BY <1>2 DEF AfterMatch, ApplyFutureTerminalDisallow, Recorded
  <2> HIDE DEF A, N
  <2> SUFFICES ASSUME NEW z \in DOMAIN A, NEW F, F = A[z] \cup N
               PROVE  Grounded(z, F, AtQueue(k), texts)
    BY <2>2 DEF GssOK
  <2>3. \A s \in DOMAIN g : z \in Advance[s][t] => g[s] \subseteq F
    BY <2>1
  <2>4. PICK s \in DOMAIN g : z \in Advance[s][t]
    BY <2>1
  <2>5. PICK i, d, y : Entry(q, i, d, y) /\ Held(s, g[s], i, y \o bytes)
    BY <1>0
  <2>6. N \subseteq F /\ g[s] \subseteq F
    BY <2>3, <2>4
  <2>7. Held(z, F, Len(y) + k, y \o bytes)
    BY <1>2, <2>4, <2>5, <2>6, ShiftHeld DEF N
  <2>8. y \in Before
    BY <2>5 DEF Entry
  <2>9. PICK r \in AtQueue(k) : r[1] = Len(y) + k /\ r[2] = y \o bytes
    BY <2>8, QueuePlace
  <2>10. ASSUME NEW e \in F PROVE Justified(e, F, texts)
    <3>1. CASE e \in N
      BY <1>2, <2>5, <2>6, <3>1, RecordedJustified DEF N
    <3>2. CASE e \in A[z]
      <4>1. PICK s1 \in DOMAIN g : z \in Advance[s1][t] /\ e \in g[s1]
        BY <2>1, <3>2
      <4>2. Justified(e, g[s1], texts) /\ g[s1] \subseteq F
        BY <1>0, <2>3, <4>1
      <4> QED BY <4>2, JustifiedMonotone
    <3> QED BY <3>1, <3>2
  <2> QED BY <2>7, <2>9, <2>10 DEF Grounded
<1> QED
  BY <1>1, <1>2

LEMMA ArrivalsOK ==
    ASSUME OnePartition, IgnoredRestart, TypeOK, NEW q, NEW g, GssOK(g, AtEntry(q), texts),
           NEW k \in 1..Len(bytes)
    PROVE  GssOK(Arrivals(g, q, k), AtQueue(k), texts)
<1> SUFFICES ASSUME NEW s \in DOMAIN Arrivals(g, q, k), NEW F, F = Arrivals(g, q, k)[s]
             PROVE  Grounded(s, F, AtQueue(k), texts)
  BY DEF GssOK
<1>1. \A e : e \in F <=> \E t \in Terminals : Arrives(q, k, t) /\ e \in Acc(AfterMatch(g, q, t), s)
  BY InArrivals
<1>2. PICK t \in Terminals : Arrives(q, k, t) /\ s \in DOMAIN AfterMatch(g, q, t)
  BY InArrivals
<1>3. ASSUME NEW u \in Terminals, Arrives(q, k, u), s \in DOMAIN AfterMatch(g, q, u)
      PROVE  /\ Acc(AfterMatch(g, q, u), s) \subseteq F
             /\ Grounded(s, Acc(AfterMatch(g, q, u), s), AtQueue(k), texts)
  <2>1. Acc(AfterMatch(g, q, u), s) = AfterMatch(g, q, u)[s]
    BY <1>3 DEF Acc
  <2>2. GssOK(AfterMatch(g, q, u), AtQueue(k), texts)
    BY <1>3, AfterMatchOK
  <2> QED BY <1>1, <1>3, <2>1, <2>2 DEF GssOK
<1>4. ASSUME NEW e \in F PROVE \E D : D \subseteq F /\ Justified(e, D, texts)
  <2>1. PICK u \in Terminals : Arrives(q, k, u) /\ e \in Acc(AfterMatch(g, q, u), s)
    BY <1>1
  <2>2. s \in DOMAIN AfterMatch(g, q, u)
    BY <2>1 DEF Acc
  <2> QED BY <1>3, <2>1, <2>2 DEF Grounded
<1> QED
  BY <1>2, <1>3, <1>4, GroundedUnion

LEMMA ResidualPlace ==
    ASSUME TypeOK, NEW q \in LexStates, NEW p \in EndStates(q, Rest)
    PROVE  AtEntry(q) \subseteq At(p, texts)
<1> SUFFICES ASSUME NEW r \in AtEntry(q) PROVE r \in At(p, texts)
  OBVIOUS
<1>1. PICK y, d : Entry(q, r[1], d, y) /\ r[2] = y \o bytes
  BY EntryPlace
<1>2. PICK i \in Nat : i = r[1] /\ d \in Nat /\ i + d = Len(y) + offset /\ y \in Before
  BY <1>1 DEF Entry
<1>3. PICK x \in Seq(Symbols) : x = y \o bytes /\ x \in texts
  BY <1>2, BeforeFacts
<1>4. PICK v \in Seq(Bytes) : x \o v = x /\ Len(v) = 0
  <2>1. <<>> \in Seq(Bytes) /\ x \o <<>> = x /\ Len(<<>>) = 0
    BY ConcatEmpty
  <2> QED BY <2>1
<1>5. Layout(x, i + d, Rest, v) /\ q \in States(LexStart, x, i, d)
  <2>1. Entry(q, i, d, y)
    BY <1>1, <1>2
  <2>2. PICK Y : Y = (y \o bytes) \o v
    OBVIOUS
  <2>3. Layout(Y, i + d, Rest, v) /\ q \in States(LexStart, Y, i, d)
    BY <2>1, <2>2, EntryLayout
  <2>4. Y = x
    BY <1>3, <1>4, <2>2
  <2> QED BY <2>3, <2>4
<1>6. Rest \in Seq(Bytes) /\ Len(Rest) \in Nat /\ Len(x) = i + d + Len(Rest) /\ LexStart \in LexStates
  BY <1>2, <1>4, <1>5, RestFacts, LexerAssumption DEF Layout
<1>7. PICK l \in Nat : l = Len(Rest)
  BY <1>6
<1>8. i + d + l <= Len(x) /\ d + l = Len(x) - i /\ i <= Len(x) /\ l <= Len(Rest)
  <2>1. PICK c \in Nat : c = Len(x)
    OBVIOUS
  <2>2. c = i + d + l /\ i \in Nat /\ d \in Nat /\ l \in Nat
    BY <1>2, <1>6, <1>7, <2>1
  <2>3. i + d + l <= c /\ d + l = c - i /\ i <= c
    BY ONLY <2>2
  <2> QED BY <1>7, <2>1, <2>3
<1>9. p \in States(q, x, i + d, l)
  <2>1. p \in States(q, Rest, 0, l)
    BY <1>6, <1>7, EndStatesOf
  <2>2. States(q, x, i + d, l) = States(q, Rest, 0, l)
    BY <1>5, <1>8, LayoutStates
  <2> QED BY <2>1, <2>2
<1>10. p \in States(LexStart, x, i, d + l)
  <2>1. p \in States(LexStart, x, i, d + l) <=> \E z \in States(LexStart, x, i, d) : p \in States(z, x, i + d, l)
    BY <1>2, <1>6, <1>8, StatesSplit
  <2> QED BY <1>5, <1>9, <2>1
<1>11. r \in Places /\ r[1] = i /\ r[2] = x
  BY <1>1, <1>2, <1>3 DEF AtEntry
<1> QED
  BY <1>3, <1>8, <1>10, <1>11 DEF At

LEMMA EndPlace ==
    ASSUME TypeOK, bytes # <<>>
    PROVE  AtQueue(Len(bytes)) \subseteq At(LexStart, texts)
<1> SUFFICES ASSUME NEW r \in AtQueue(Len(bytes)) PROVE r \in At(LexStart, texts)
  OBVIOUS
<1>1. PICK y \in Before : r[1] = Len(y) + Len(bytes) /\ r[2] = y \o bytes
  BY DEF AtQueue
<1>2. PICK x \in Seq(Symbols) : x = y \o bytes /\ x \in texts /\ Len(x) = Len(y) + Len(bytes)
  <2>1. y \o bytes \in Seq(Symbols) /\ y \o bytes \in texts /\ Len(y \o bytes) = Len(y) + Len(bytes)
    BY BeforeFacts
  <2> QED BY <2>1
<1>3. Len(x) \in Nat /\ Len(x) \in 0..Len(x) /\ Len(x) - Len(x) = 0 /\ Len(x) <= Len(x) /\ LexStart \in LexStates
  BY LexerAssumption
<1>4. States(LexStart, x, Len(x), 0) = {LexStart}
  BY <1>3, StatesUnfold
<1>5. r \in Places /\ r[1] = Len(x) /\ r[2] = x
  BY <1>1, <1>2 DEF AtQueue
<1> QED
  BY <1>2, <1>3, <1>4, <1>5 DEF At

----------------------------------------------------------------------------
(* Every step keeps the invariant *)

LEMMA StartOK == MapOK(StartFrontier, {<<>>})
<1> SUFFICES ASSUME NEW q \in LexStates, NEW s \in DOMAIN StartFrontier[q]
             PROVE  Grounded(s, StartFrontier[q][s], At(q, {<<>>}), {<<>>})
  BY DEF MapOK, GssOK
<1>1. q = LexStart /\ s = StartStack /\ StartFrontier[q][s] = {}
  BY StartFacts, EmptyType
<1>2. PICK x \in Seq(Symbols) : x = <<>> /\ Len(x) = 0
  <2>1. <<>> \in Seq(Symbols) /\ Len(<<>>) = 0
    OBVIOUS
  <2> QED BY <2>1
<1>3. PICK r : r = <<0, x>>
  OBVIOUS
<1>4. r \in Places /\ r[1] = 0 /\ r[2] = x
  BY <1>3 DEF Places
<1>5. LexStart \in States(LexStart, x, 0, 0)
  <2>1. 0 \in 0..Len(x) /\ LexStart \in LexStates
    BY <1>2, LexerAssumption
  <2>2. States(LexStart, x, 0, 0) = {LexStart}
    BY <2>1, StatesUnfold
  <2> QED BY <2>2
<1>6. r \in At(LexStart, {<<>>})
  BY <1>2, <1>4, <1>5 DEF At
<1>7. Held(StartStack, {}, 0, x)
  <2> SUFFICES ASSUME NEW v \in Seq(Bytes) PROVE AtCut(StartStack, 0, x \o v)
    BY DEF Held
  <2>1. x \o v \in Seq(Symbols)
    BY ConcatFacts
  <2>2. Cuts(x \o v)[0] = {StartStack}
    BY <2>1, CutsUnfold
  <2> QED BY <2>2 DEF AtCut
<1> QED
  BY <1>1, <1>4, <1>6, <1>7 DEF Grounded

(* Between commits a stack at the lexer start has no lexeme open. *)
LEMMA AtStart ==
    ASSUME NoReentry, NEW x \in Seq(Symbols), NEW i \in Nat, i <= Len(x),
           LexStart \in States(LexStart, x, i, Len(x) - i)
    PROVE  i = Len(x)
<1> SUFFICES ASSUME i < Len(x) PROVE FALSE
  OBVIOUS
<1>1. LexStart \in LexStates /\ Len(x) \in Nat /\ i \in 0..Len(x)
  BY LexerAssumption
<1>2. PICK n \in Nat : Len(x) - i = n + 1 /\ i + n + 1 <= Len(x)
  <2>1. Len(x) - i - 1 \in Nat /\ Len(x) - i = (Len(x) - i - 1) + 1 /\ i + (Len(x) - i - 1) + 1 <= Len(x)
    BY <1>1
  <2> QED BY <2>1
<1>3. LexStart \in Moves(States(LexStart, x, i, n), x[i + n + 1])
  <2>1. States(LexStart, x, i, n + 1) = Moves(States(LexStart, x, i, n), x[i + n + 1])
    BY <1>1, <1>2, StatesUnfold
  <2> QED BY <1>2, <2>1
<1>4. PICK p \in States(LexStart, x, i, n) : LexStart \in Trans(p, x[i + n + 1])
  BY <1>3, InMoves
<1>5. p \in LexStates
  <2>1. i + n <= Len(x)
    BY <1>1, <1>2
  <2> QED BY <1>1, <2>1, LiveBefore
<1> QED
  BY <1>4, <1>5 DEF Trans, NoReentry

(* At the end of the text every cut is a real one. *)
LEMMA AtEnd ==
    ASSUME NEW x \in Seq(Symbols), NEW s, AtCut(s, Len(x), x)
    PROVE  s \in Cuts(x)[Len(x)]
<1> SUFFICES ASSUME NEW j \in Nat, NEW n \in Nat, NEW t, j + n = Len(x), Grows(x, j, n, t) PROVE FALSE
  BY DEF AtCut
<1>1. PICK m \in 1..(Len(x) - j) : m > n
  BY DEF Grows, Larger
<1> QED
  BY <1>1

(* Nothing follows x yet: a stack held at i is at a cut of x itself. *)
LEMMA HeldNow ==
    ASSUME NEW x \in Seq(Symbols), NEW s, NEW E, NEW i, Held(s, E, i, x)
    PROVE  AtCut(s, i, x)
<1>1. <<>> \in Seq(Bytes) /\ x \o <<>> = x /\ ~Violated(E, <<>>)
  BY ConcatEmpty, NothingViolated
<1>2. PICK v \in Seq(Bytes) : x \o v = x /\ ~Violated(E, v)
  BY <1>1
<1>3. AtCut(s, i, x \o v)
  BY <1>2 DEF Held
<1> QED
  BY <1>2, <1>3

LEMMA StartIsCut ==
    ASSUME NoReentry, NEW X \in SUBSET Seq(Symbols), NEW s, NEW E, Grounded(s, E, At(LexStart, X), X)
    PROVE  \E x \in X : s \in Cuts(x)[Len(x)]
<1>1. PICK r \in At(LexStart, X) : Held(s, E, r[1], r[2])
  BY DEF Grounded
<1>2. PICK x \in X, i \in Nat : /\ x = r[2] /\ i = r[1] /\ i <= Len(x)
                                /\ LexStart \in States(LexStart, x, i, Len(x) - i)
  BY <1>1 DEF At, Places
<1>3. x \in Seq(Symbols)
  OBVIOUS
<1>4. i = Len(x)
  BY <1>2, <1>3, AtStart
<1>5. AtCut(s, Len(x), x)
  BY <1>1, <1>2, <1>3, <1>4, HeldNow
<1> QED
  BY <1>3, <1>5, AtEnd

LEMMA SpecialOK ==
    ASSUME NoReentry, TypeOK, MapOK(frontier, texts), NEW k \in Tokens, NEW X,
           \A x \in texts : \A t \in TokenSpecials[k] : Append(x, t) \in X
    PROVE  GssOK(SpecialPaths(k), At(LexStart, X), X)
<1> SUFFICES ASSUME NEW z \in DOMAIN SpecialPaths(k)
             PROVE  Grounded(z, SpecialPaths(k)[z], At(LexStart, X), X)
  BY DEF GssOK
<1>1. SpecialPaths(k)[z] = {}
  BY InSpecialPaths
<1>2. PICK t \in TokenSpecials[k], s \in DOMAIN frontier[LexStart] : z \in Advance[s][t]
  BY InSpecialPaths
<1>3. t \in Terminals /\ t \notin Ignored /\ LexStart \in LexStates /\ texts \in SUBSET Seq(Symbols)
  BY TokenAssumption, LexerAssumption DEF TypeOK
<1>4. Grounded(s, frontier[LexStart][s], At(LexStart, texts), texts)
  BY <1>3 DEF MapOK, GssOK
<1>5. PICK x \in texts : s \in Cuts(x)[Len(x)]
  BY <1>3, <1>4, StartIsCut
<1>6. x \in Seq(Symbols) /\ Len(x) \in Nat
  BY <1>3
<1>7. PICK y \in Seq(Symbols) : y = Append(x, t) /\ Len(y) = Len(x) + 1 /\ y \in X
  <2>1. PICK v \in Seq(Bytes) : v = <<>>
    BY <1>6, ConcatEmpty
  <2>2. Append(x, t) \in Seq(Symbols) /\ Len(Append(x, t)) = Len(x) + 1
    BY <1>3, <1>6, SpecialText
  <2> QED BY <1>2, <1>5, <2>2
<1>8. Held(z, {}, Len(y), y)
  <2> SUFFICES ASSUME NEW v \in Seq(Bytes) PROVE AtCut(z, Len(y), y \o v)
    BY DEF Held
  <2>1. z \in Cuts(Append(x, t) \o v)[Len(x) + 1]
    BY <1>2, <1>3, <1>5, <1>6, SpecialCut
  <2> QED BY <1>7, <2>1 DEF AtCut
<1>9. PICK r : r = <<Len(y), y>>
  OBVIOUS
<1>10. r \in Places /\ r[1] = Len(y) /\ r[2] = y
  BY <1>9 DEF Places
<1>11. r \in At(LexStart, X)
  <2>1. Len(y) \in 0..Len(y) /\ Len(y) - Len(y) = 0 /\ Len(y) <= Len(y)
    OBVIOUS
  <2>2. States(LexStart, y, Len(y), 0) = {LexStart}
    BY <1>3, <2>1, StatesUnfold
  <2> QED BY <1>7, <1>10, <2>1, <2>2 DEF At
<1> QED
  BY <1>1, <1>8, <1>10, <1>11 DEF Grounded

LEMMA LoadOK ==
    ASSUME TypeOK, MapOK(frontier, texts), NEW w \in Seq(Bytes), LoadQueue(w),
           w # <<>> => \A x \in texts : x \o w \in texts',
           GssOK(special', At(LexStart, texts'), texts')
    PROVE  SInv'
<1>1. /\ bytes' = w /\ busy' = TRUE /\ pending' = NoStates
      /\ queue'[0] = IF w = <<>> THEN NoStates ELSE frontier
      /\ \A i \in 1..Len(w) : queue'[i] = NoStates
  BY LoadFacts
<1>2. MapOK(queue'[0], Before')
  <2>1. CASE w = <<>>
    BY <1>1, <2>1, NoStatesOK
  <2>2. CASE w # <<>>
    <3>1. texts \subseteq Before'
      BY <1>1, <2>2 DEF Before, TypeOK
    <3>2. MapOK(frontier, Before')
      BY <3>1, MapMonotone
    <3> QED BY <1>1, <2>2, <3>2
  <2> QED BY <2>1, <2>2
<1>3. LexStart \in LexStates /\ \A q \in LexStates : NoStates[q] = EmptyGss
  BY NoStatesType, LexerAssumption
<1>4. ASSUME NEW o \in 1..Len(w)
      PROVE  /\ \A q \in LexStates \ {LexStart} : queue'[o][q] = EmptyGss
             /\ GssOK(queue'[o][LexStart], AtQueue(o)', texts')
  BY <1>1, <1>3, EmptyOK
<1>5. MapOK(pending', texts')
  BY <1>1, NoStatesOK
<1> QED
  BY <1>1, <1>2, <1>4, <1>5 DEF SInv

(* The entry being processed, its exclusions settled when it is at offset 0 *)
LEMMA EntryOK ==
    ASSUME TypeOK, SInv, busy, NEW q \in LexStates, offset < Len(bytes)
    PROVE  GssOK(AtOffset(q), AtEntry(q), texts)
<1>1. offset \in Nat /\ Len(bytes) \in Nat
  BY DEF TypeOK
<1>2. CASE offset = 0
  BY <1>2, SettledOK DEF SInv, MapOK
<1>3. CASE offset # 0
  <2>1. offset \in 1..Len(bytes) /\ AtOffset(q) = queue[offset][q]
    BY <1>1, <1>3 DEF AtOffset
  <2>2. CASE q # LexStart
    BY <2>1, <2>2, EmptyOK DEF SInv
  <2>3. CASE q = LexStart
    <3>1. AtQueue(offset) \subseteq AtEntry(LexStart)
      <4> SUFFICES ASSUME NEW r \in AtQueue(offset) PROVE r \in AtEntry(LexStart)
        OBVIOUS
      <4>1. PICK y \in Before : r[1] = Len(y) + offset /\ r[2] = y \o bytes /\ r \in Places
        BY DEF AtQueue
      <4>2. PICK x \in Seq(Symbols) : x = y \o bytes
        BY BeforeFacts
      <4>3. Len(y) \in Nat /\ Len(x) = Len(y) + Len(bytes)
        <5>1. y \in Seq(Symbols) /\ Len(y \o bytes) = Len(y) + Len(bytes)
          BY BeforeFacts
        <5>2. Len(y) \in Nat
          BY <5>1
        <5> QED BY <4>2, <5>1, <5>2
      <4>4. PICK c \in 0..Len(x) : c = Len(y) + offset /\ c + 0 = c
        BY <1>1, <2>1, <4>3
      <4>5. States(LexStart, x, c, 0) = {LexStart}
        BY StatesUnfold, LexerAssumption
      <4> QED BY <4>1, <4>2, <4>4, <4>5 DEF AtEntry
    <3>2. GssOK(queue[offset][LexStart], AtQueue(offset), texts)
      BY <2>1 DEF SInv
    <3>3. GssOK(queue[offset][LexStart], AtEntry(LexStart), texts)
      BY <3>1, <3>2, GssMonotone
    <3> QED BY <2>1, <2>3, <3>3
  <2> QED BY <2>2, <2>3
<1> QED
  BY <1>2, <1>3

LEMMA NoArrivals ==
    ASSUME NEW g, NEW q, NEW i, ~(i > offset), NEW P, NEW X
    PROVE  GssOK(Arrivals(g, q, i), P, X)
<1>1. \A s : s \notin DOMAIN Arrivals(g, q, i)
  BY InArrivals DEF Arrives
<1> QED
  BY <1>1 DEF GssOK

LEMMA ProcessOK ==
    ASSUME OnePartition, IgnoredRestart, TypeOK, SInv, NEW q \in LexStates, ProcessEntry(q)
    PROVE  SInv'
<1>0. /\ busy /\ offset < Len(bytes) /\ offset \in Nat /\ Len(bytes) \in Nat /\ 0 \in 0..Len(bytes)
      /\ bytes \in Seq(Bytes) /\ LexStart \in LexStates
      /\ UNCHANGED <<special, bytes, offset, busy, texts>>
  BY LexerAssumption DEF ProcessEntry, TypeOK
<1>1. Before' = Before /\ \A o : AtQueue(o)' = AtQueue(o)
  BY <1>0 DEF Before, AtQueue
<1>2. PICK g : g = AtOffset(q)
  OBVIOUS
<1>3. GssOK(g, AtEntry(q), texts) /\ IsGss(g)
  BY <1>0, <1>2, EntryOK, AtOffsetType
<1>4. /\ MapOK(queue[0], Before)
      /\ \A o \in 1..Len(bytes) :
           /\ \A p \in LexStates \ {LexStart} : queue[o][p] = EmptyGss
           /\ GssOK(queue[o][LexStart], AtQueue(o), texts)
      /\ MapOK(pending, texts)
      /\ GssOK(special, At(LexStart, texts), texts)
  BY <1>0 DEF SInv
<1>5. ASSUME NEW i \in 0..Len(bytes)
      PROVE  /\ i = offset => \A p \in LexStates :
                  queue'[i][p] = IF p = q THEN EmptyGss ELSE queue[i][p]
             /\ i # offset /\ i = Len(bytes) => queue'[i] = queue[i]
             /\ i # offset /\ i # Len(bytes) => \A p \in LexStates :
                  queue'[i][p] = IF p = LexStart
                     THEN Merge(queue[i][LexStart], Arrivals(g, q, i)) ELSE queue[i][p]
  BY <1>2, ProcessQueue
<1>6. MapOK(queue'[0], Before)
  <2> SUFFICES ASSUME NEW p \in LexStates PROVE GssOK(queue'[0][p], At(p, Before), Before)
    BY DEF MapOK
  <2>1. GssOK(queue[0][p], At(p, Before), Before)
    BY <1>4 DEF MapOK
  <2>2. CASE offset = 0
    <3>1. queue'[0][p] = IF p = q THEN EmptyGss ELSE queue[0][p]
      BY <1>0, <1>5, <2>2
    <3> QED BY <2>1, <3>1, EmptyOK
  <2>3. CASE offset # 0
    <3>1. 0 # Len(bytes) /\ ~(0 > offset) /\ 0 # offset
      BY <1>0, <2>3
    <3>2. queue'[0][p] = IF p = LexStart THEN Merge(queue[0][LexStart], Arrivals(g, q, 0)) ELSE queue[0][p]
      BY <1>0, <1>5, <3>1
    <3>3. GssOK(Arrivals(g, q, 0), At(p, Before), Before)
      BY <3>1, NoArrivals
    <3>4. p = LexStart => GssOK(Merge(queue[0][LexStart], Arrivals(g, q, 0)), At(p, Before), Before)
      BY <2>1, <3>3, MergeOK
    <3> QED BY <2>1, <3>2, <3>4
  <2> QED BY <2>2, <2>3
<1>7. ASSUME NEW o \in 1..Len(bytes)
      PROVE  /\ \A p \in LexStates \ {LexStart} : queue'[o][p] = EmptyGss
             /\ GssOK(queue'[o][LexStart], AtQueue(o), texts)
  <2>0. o \in 0..Len(bytes)
    BY <1>0
  <2>1. CASE o = offset
    <3>1. \A p \in LexStates : queue'[o][p] = IF p = q THEN EmptyGss ELSE queue[o][p]
      BY <1>5, <2>0, <2>1
    <3> QED BY <1>0, <1>4, <3>1, EmptyOK
  <2>2. CASE o # offset /\ o = Len(bytes)
    BY <1>4, <1>5, <2>0, <2>2
  <2>3. CASE o # offset /\ o # Len(bytes)
    <3>1. \A p \in LexStates : queue'[o][p] = IF p = LexStart
                     THEN Merge(queue[o][LexStart], Arrivals(g, q, o)) ELSE queue[o][p]
      BY <1>5, <2>0, <2>3
    <3>2. GssOK(Arrivals(g, q, o), AtQueue(o), texts)
      BY <1>3, ArrivalsOK
    <3>3. GssOK(Merge(queue[o][LexStart], Arrivals(g, q, o)), AtQueue(o), texts)
      BY <1>4, <3>2, MergeOK
    <3> QED BY <1>0, <1>4, <3>1, <3>3
  <2> QED BY <2>1, <2>2, <2>3
<1>8. MapOK(pending', texts)
  <2> SUFFICES ASSUME NEW p \in LexStates PROVE GssOK(pending'[p], At(p, texts), texts)
    BY DEF MapOK
  <2>1. pending'[p] = Merge(IF p = LexStart THEN Merge(pending[p], Arrivals(g, q, Len(bytes))) ELSE pending[p],
                            Residuals(g, q)[p])
    BY <1>2, ProcessPending
  <2>2. GssOK(pending[p], At(p, texts), texts)
    BY <1>4 DEF MapOK
  <2>3. p = LexStart => GssOK(Arrivals(g, q, Len(bytes)), At(p, texts), texts)
    <3>1. Len(bytes) \in 1..Len(bytes) /\ bytes # <<>>
      BY <1>0
    <3>2. GssOK(Arrivals(g, q, Len(bytes)), AtQueue(Len(bytes)), texts)
      BY <1>3, <3>1, ArrivalsOK
    <3> QED BY <3>1, <3>2, EndPlace, GssMonotone
  <2>4. GssOK(Residuals(g, q)[p], At(p, texts), texts)
    <3>1. Residuals(g, q)[p] = IF g # EmptyGss /\ p \in EndStates(q, Rest) /\ EndStateMayAdvance(g, p)
                               THEN g ELSE EmptyGss
      BY <1>3, ResidualsType
    <3>2. p \in EndStates(q, Rest) => GssOK(g, At(p, texts), texts)
      BY <1>3, ResidualPlace, GssMonotone
    <3> QED BY <3>1, <3>2, EmptyOK
  <2>5. PICK a : a = IF p = LexStart THEN Merge(pending[p], Arrivals(g, q, Len(bytes))) ELSE pending[p]
    OBVIOUS
  <2>6. GssOK(a, At(p, texts), texts)
    BY <2>2, <2>3, <2>5, MergeOK
  <2> QED BY <2>1, <2>4, <2>5, <2>6, MergeOK
<1> QED
  BY <1>0, <1>1, <1>4, <1>6, <1>7, <1>8 DEF SInv

LEMMA FinishOK ==
    ASSUME TypeOK, SInv, FinishCommit
    PROVE  SInv'
<1>1. MapOK(pending, texts) /\ GssOK(special, At(LexStart, texts), texts)
  BY DEF SInv, FinishCommit
<1>2. \A q \in LexStates : frontier'[q] = IF q = LexStart THEN Merge(pending[q], special) ELSE pending[q]
  BY FinishType
<1>3. MapOK(frontier', texts)
  <2> SUFFICES ASSUME NEW q \in LexStates PROVE GssOK(frontier'[q], At(q, texts), texts)
    BY DEF MapOK
  <2>1. GssOK(pending[q], At(q, texts), texts)
    BY <1>1 DEF MapOK
  <2>2. q = LexStart => GssOK(Merge(pending[q], special), At(q, texts), texts)
    BY <1>1, <2>1, MergeOK
  <2> QED BY <1>2, <2>1, <2>2
<1> QED
  BY <1>3 DEF SInv, FinishCommit

LEMMA NextOK ==
    ASSUME NoReentry, OnePartition, IgnoredRestart, TypeOK, SInv, [Next]_vars
    PROVE  SInv'
<1>1. CASE Start
  BY <1>1, StartOK DEF Start, SInv
<1>2. ASSUME NEW k \in Tokens, CommitToken(k) PROVE SInv'
  <2>1. PICK w \in Seq(Bytes) : w = TokenBytes[k]
    BY TokenAssumption
  <2>2. LoadQueue(w) /\ special' = SpecialPaths(k) /\ MapOK(frontier, texts)
    BY <1>2, <2>1 DEF CommitToken, SInv
  <2> DEFINE A == {x \o w : x \in texts}
             B == {Append(x, t) : x \in texts, t \in TokenSpecials[k]}
  <2>3. texts' = (IF w = <<>> THEN {} ELSE A) \cup B
    BY <1>2, <2>1 DEF CommitToken
  <2>4. \A x \in texts : x \o w \in A
    OBVIOUS
  <2>5. \A x \in texts : \A t \in TokenSpecials[k] : Append(x, t) \in B
    OBVIOUS
  <2> HIDE DEF A, B
  <2>6. \A x \in texts : \A t \in TokenSpecials[k] : Append(x, t) \in texts'
    BY <2>3, <2>5
  <2>7. w # <<>> => \A x \in texts : x \o w \in texts'
    BY <2>3, <2>4
  <2>8. GssOK(special', At(LexStart, texts'), texts')
    BY <2>2, <2>6, SpecialOK
  <2> QED BY <2>2, <2>7, <2>8, LoadOK
<1>3. ASSUME NEW k \in Tokens, CommitBytes(TokenBytes[k]) PROVE SInv'
  <2>1. PICK w \in Seq(Bytes) : w = TokenBytes[k]
    BY TokenAssumption
  <2>2. LoadQueue(w) /\ MapOK(frontier, texts) /\ special' = EmptyGss /\ texts' = {x \o w : x \in texts}
    BY <1>3, <2>1 DEF CommitBytes, SInv
  <2>3. GssOK(special', At(LexStart, texts'), texts')
    BY <2>2, EmptyOK
  <2>4. \A x \in texts : x \o w \in texts'
    BY <2>2
  <2> QED BY <2>2, <2>3, <2>4, LoadOK
<1>4. ASSUME NEW q \in LexStates, ProcessEntry(q) PROVE SInv'
  BY <1>4, ProcessOK
<1>5. CASE NextOffset
  <2>1. UNCHANGED <<frontier, queue, pending, special, bytes, busy, texts>>
    BY <1>5 DEF NextOffset
  <2>2. Before' = Before /\ \A o : AtQueue(o)' = AtQueue(o)
    BY <2>1 DEF Before, AtQueue
  <2> QED BY <2>1, <2>2 DEF SInv
<1>6. CASE FinishCommit
  BY <1>6, FinishOK
<1>7. CASE UNCHANGED vars
  <2>1. UNCHANGED <<frontier, queue, pending, special, bytes, busy, texts>>
    BY <1>7 DEF vars
  <2>2. Before' = Before /\ \A o : AtQueue(o)' = AtQueue(o)
    BY <2>1 DEF Before, AtQueue
  <2> QED BY <2>1, <2>2 DEF SInv
<1> QED
  BY <1>1, <1>2, <1>3, <1>4, <1>5, <1>6, <1>7 DEF Next

----------------------------------------------------------------------------
(* What the invariant says between commits *)

LEMMA OpenIsInProgress ==
    ASSUME OnePartition, IgnoredRestart, NEW q \in LexStates \ {LexStart}, NEW X \in SUBSET Seq(Symbols),
           NEW s, NEW E, Grounded(s, E, At(q, X), X)
    PROVE  \E x \in X : s \in InProgress(x, q)
<1>1. PICK r \in At(q, X) : Held(s, E, r[1], r[2])
  BY DEF Grounded
<1>2. PICK x \in X, i \in Nat : /\ x = r[2] /\ i = r[1] /\ i <= Len(x)
                                /\ q \in States(LexStart, x, i, Len(x) - i)
  BY <1>1 DEF At, Places
<1>3. x \in Seq(Symbols) /\ Len(x) \in Nat /\ LexStart \in LexStates
  BY LexerAssumption
<1>4. i < Len(x)
  <2> SUFFICES ASSUME i = Len(x) PROVE FALSE
    BY <1>2, <1>3
  <2>1. i \in 0..Len(x) /\ Len(x) - i = 0
    BY <1>3
  <2>2. States(LexStart, x, i, 0) = {LexStart}
    BY <1>3, <2>1, StatesUnfold
  <2> QED BY <1>2, <2>1, <2>2
<1>5. AtCut(s, i, x)
  BY <1>1, <1>2, <1>3, HeldNow
<1>6. ASSUME NEW j \in Nat, j < Len(x), s \in Cuts(x)[j], q \in States(LexStart, x, j, Len(x) - j)
      PROVE  s \in InProgress(x, q)
  <2>1. j \in 0..Len(x) /\ j \in 0..(Len(x) - 1)
    BY <1>3, <1>6
  <2>2. q \in EndStates(LexStart, Suffix(x, j))
    BY <1>3, <1>6, <2>1, InEndStates
  <2> QED BY <1>6, <2>1, <2>2 DEF InProgress
<1>7. CASE s \in Cuts(x)[i]
  BY <1>2, <1>4, <1>6, <1>7
<1>8. ASSUME NEW j \in Nat, NEW l \in Nat, NEW t \in Ignored, j + l = i, s \in Cuts(x)[j], Grows(x, j, l, t)
      PROVE  s \in InProgress(x, q)
  <2>1. PICK n \in Nat : n = Len(x) - i /\ n >= 1 /\ j + l + n <= Len(x) /\ l + n = Len(x) - j /\ j < Len(x)
    <3>1. PICK c \in Nat : c = Len(x)
      BY <1>3
    <3>2. c - i \in Nat /\ c - i >= 1 /\ j + l + (c - i) <= c /\ l + (c - i) = c - j /\ j < c
      <4>1. i < c /\ j + l = i /\ i \in Nat
        BY <1>2, <1>4, <1>8, <3>1
      <4> QED BY <4>1
    <3> QED BY <3>1, <3>2
  <2>2. q \in States(LexStart, x, j + l, n)
    BY <1>2, <1>8, <2>1
  <2>3. q \in States(LexStart, x, j, l + n)
    BY <1>3, <1>8, <2>1, <2>2, InsideIgnored
  <2>4. q \in States(LexStart, x, j, Len(x) - j)
    BY <2>1, <2>3
  <2> QED BY <1>6, <1>8, <2>1, <2>4
<1>9. CASE s \notin Cuts(x)[i]
  <2>1. PICK j, l \in Nat : \E t \in Ignored : j + l = i /\ s \in Cuts(x)[j] /\ Grows(x, j, l, t)
    BY <1>5, <1>9 DEF AtCut
  <2>2. PICK t \in Ignored : j + l = i /\ s \in Cuts(x)[j] /\ Grows(x, j, l, t)
    BY <2>1
  <2> QED BY <1>8, <2>2
<1> QED
  BY <1>7, <1>9

LEMMA SoundNow ==
    ASSUME NoReentry, OnePartition, IgnoredRestart, TypeOK, SInv
    PROVE  FrontierSound
<1> SUFFICES ASSUME ~busy PROVE
      /\ DOMAIN frontier[LexStart] \subseteq UNION {Cuts(x)[Len(x)] : x \in texts}
      /\ \A q \in LexStates \ {LexStart} :
            DOMAIN frontier[q] \subseteq UNION {InProgress(x, q) : x \in texts}
  BY DEF FrontierSound
<1>1. MapOK(frontier, texts) /\ texts \in SUBSET Seq(Symbols) /\ LexStart \in LexStates
  BY LexerAssumption DEF SInv, TypeOK
<1>2. ASSUME NEW q \in LexStates, NEW s \in DOMAIN frontier[q]
      PROVE  Grounded(s, frontier[q][s], At(q, texts), texts)
  BY <1>1 DEF MapOK, GssOK
<1>3. ASSUME NEW s \in DOMAIN frontier[LexStart] PROVE s \in UNION {Cuts(x)[Len(x)] : x \in texts}
  <2>1. \E x \in texts : s \in Cuts(x)[Len(x)]
    BY <1>1, <1>2, StartIsCut
  <2> QED BY <2>1
<1>4. ASSUME NEW q \in LexStates \ {LexStart}, NEW s \in DOMAIN frontier[q]
      PROVE  s \in UNION {InProgress(x, q) : x \in texts}
  <2>1. \E x \in texts : s \in InProgress(x, q)
    BY <1>1, <1>2, OpenIsInProgress
  <2> QED BY <2>1
<1> QED
  BY <1>3, <1>4

LEMMA JustifiedNow ==
    ASSUME TypeOK, SInv
    PROVE  ExclusionsJustified
<1> SUFFICES ASSUME ~busy, NEW q \in LexStates, NEW s \in DOMAIN frontier[q], NEW e \in frontier[q][s]
    PROVE
        \E x \in texts : \E i \in 0..(Len(x) - 1) :
            /\ Cuts(x)[i] # {}
            /\ e[1] \in EndStates(LexStart, Suffix(x, i))
            /\ e[2] \in Future[e[1]]
            /\ MatchWidths(LexStart, Suffix(x, i), e[2]) # {}
  BY DEF ExclusionsJustified
<1>1. MapOK(frontier, texts) /\ texts \in SUBSET Seq(Symbols)
  BY DEF SInv, TypeOK
<1>2. PICK E : E = frontier[q][s] /\ Justified(e, E, texts)
  BY <1>1 DEF MapOK, GssOK, Grounded
<1>3. PICK x \in texts, i \in Nat :
        Open(e, x, i) /\ \A v \in Seq(Bytes) : ~Violated(E, v) => Cuts(x \o v)[i] # {}
  BY <1>2 DEF Justified
<1>4. x \in Seq(Symbols) /\ Len(x) \in Nat
  BY <1>1
<1>5. PICK v \in Seq(Bytes) : x \o v = x /\ ~Violated(E, v)
  <2>1. <<>> \in Seq(Bytes) /\ x \o <<>> = x /\ ~Violated(E, <<>>)
    BY <1>4, ConcatEmpty, NothingViolated
  <2> QED BY <2>1
<1>6. Cuts(x)[i] # {}
  <2>1. Cuts(x \o v)[i] # {}
    BY <1>3, <1>5
  <2> QED BY <1>5, <2>1
<1>7. i \in 0..(Len(x) - 1) /\ i \in 0..Len(x)
  BY <1>3, <1>4 DEF Open
<1>8. e[1] \in EndStates(LexStart, Suffix(x, i)) /\ e[2] \in Future[e[1]]
  <2>1. EndStates(LexStart, Suffix(x, i)) = States(LexStart, x, i, Len(x) - i)
    BY <1>4, <1>7, InEndStates
  <2> QED BY <1>3, <2>1 DEF Open
<1>9. MatchWidths(LexStart, Suffix(x, i), e[2]) # {}
  <2>1. PICK n \in 1..(Len(x) - i) : Matches(LexStart, x, i, n, e[2])
    BY <1>3 DEF Open
  <2>2. n \in MatchWidths(LexStart, Suffix(x, i), e[2])
    BY <1>4, <1>7, <2>1, InWidths
  <2> QED BY <2>2
<1> QED
  BY <1>6, <1>7, <1>8, <1>9

LEMMA RealNow ==
    ASSUME FrontierSound
    PROVE  CompletionIsReal
<1> SUFFICES ASSUME ~busy, FrontierComplete PROVE RefComplete
  BY DEF CompletionIsReal
<1>1. PICK s \in DOMAIN frontier[LexStart] : s \in Finished
  BY DEF FrontierComplete
<1>2. s \in UNION {Cuts(x)[Len(x)] : x \in texts}
  BY DEF FrontierSound
<1>3. PICK x \in texts : s \in Cuts(x)[Len(x)]
  BY <1>2
<1> QED
  BY <1>1, <1>3 DEF RefComplete

LEMMA InitOK ==
    ASSUME Init
    PROVE  SInv
  BY StartOK DEF Init, SInv

(* The inductive invariant: whatever bytes come next, every stack in the    *)
(* frontier, the queue, the residuals and the special paths is a parse of   *)
(* the text read so far, unless one of its own exclusions is hit.           *)
THEOREM CommitInvariant ==
    ASSUME NoReentry, OnePartition, IgnoredRestart
    PROVE  Spec => [](TypeOK /\ SInv)
<1>1. Init => TypeOK /\ SInv
  BY InitType, InitOK
<1>2. TypeOK /\ SInv /\ [Next]_vars => TypeOK' /\ SInv'
  BY NextType, NextOK
<1> QED
  BY <1>1, <1>2, PTL DEF Spec

(* However a text is divided into commits and in whatever order the queue   *)
(* is drained, the frontier between commits holds no parse that the longest *)
(* match of the whole text does not give.                                   *)
THEOREM CommitSound ==
    ASSUME NoReentry, OnePartition, IgnoredRestart
    PROVE  Spec => []FrontierSound
<1>1. TypeOK /\ SInv => FrontierSound
  BY SoundNow
<1> QED
  BY <1>1, CommitInvariant, PTL

(* No exclusion outlives the lexeme it is about.                            *)
THEOREM CommitExclusionsJustified ==
    ASSUME NoReentry, OnePartition, IgnoredRestart
    PROVE  Spec => []ExclusionsJustified
<1>1. TypeOK /\ SInv => ExclusionsJustified
  BY JustifiedNow
<1> QED
  BY <1>1, CommitInvariant, PTL

(* frontier_complete() is only said of a text that is a complete match.     *)
THEOREM CommitCompletionIsReal ==
    ASSUME NoReentry, OnePartition, IgnoredRestart
    PROVE  Spec => []CompletionIsReal
<1>1. FrontierSound => CompletionIsReal
  BY RealNow
<1> QED
  BY <1>1, CommitSound, PTL

----------------------------------------------------------------------------
(* Longest matches and what they leave behind *)

(* The converse of ViolatedSplit. *)
LEMMA ViolatedLater ==
    ASSUME NEW E \in Exclusions, NEW w \in Seq(Bytes), NEW v \in Seq(Bytes), ~Violated(E, w \o v)
    PROVE  ~Violated(E, w) /\ ~Violated(MovedExclusions(E, w), v)
<1>1. PICK y \in Seq(Bytes) : y = w \o v /\ Len(y) = Len(w) + Len(v)
  <2>1. w \o v \in Seq(Bytes) /\ Len(w \o v) = Len(w) + Len(v)
    OBVIOUS
  <2> QED BY <2>1
<1>2. w \in Seq(Symbols) /\ v \in Seq(Symbols) /\ y \in Seq(Symbols) /\ Len(w) \in Nat /\ Len(v) \in Nat /\ Len(y) \in Nat
  BY BytesAreSymbols
<1>3. ASSUME NEW e \in E, NEW n \in 1..Len(y), Matches(e[1], y, 0, n, e[2]) PROVE FALSE
  BY <1>1, <1>3, IsViolated
<1>4. ASSUME Violated(E, w) PROVE FALSE
  <2>1. PICK e \in E, n \in 1..Len(w) : Matches(e[1], w, 0, n, e[2])
    BY <1>4, IsViolated
  <2>2. e[1] \in LexStates /\ n \in Nat /\ 0 + n <= Len(w) /\ n \in 1..Len(y)
    BY <1>1, <1>2 DEF Exclusions
  <2>3. States(e[1], w \o v, 0, n) = States(e[1], w, 0, n)
    BY <1>2, <2>2, PrefixStates
  <2>4. Matches(e[1], y, 0, n, e[2])
    BY <1>1, <2>1, <2>3 DEF Matches
  <2> QED BY <1>3, <2>2, <2>4
<1>5. ASSUME Violated(MovedExclusions(E, w), v) PROVE FALSE
  <2>1. PICK d \in MovedExclusions(E, w), m \in 1..Len(v) : Matches(d[1], v, 0, m, d[2])
    BY <1>5, IsViolated
  <2>2. PICK e \in E : \E r \in EndStates(e[1], w) : e[2] \in Future[r] /\ d = <<r, e[2]>>
    BY InMoved
  <2>3. PICK r \in EndStates(e[1], w) : d = <<r, e[2]>>
    BY <2>2
  <2>4. PICK q \in LexStates, t \in Terminals : q = e[1] /\ t = e[2]
    BY DEF Exclusions
  <2>5. d[1] = r /\ d[2] = t /\ r \in LexStates
    BY <2>3, <2>4, EndStatesType
  <2>6. PICK p \in States(r, v, 0, m) : t \in Matched[p]
    BY <2>1, <2>5 DEF Matches
  <2>7. PICK l \in Nat : l = Len(w)
    BY <1>2
  <2>8. m \in Nat /\ m <= Len(v) /\ 0 + l <= Len(w) /\ 0 + l + m <= Len(y) /\ 0 + l = l /\ l + m \in 1..Len(y)
    BY <1>1, <1>2, <2>7
  <2>9. r \in States(q, y, 0, l)
    <3>1. States(q, w \o v, 0, l) = States(q, w, 0, l)
      BY <1>2, <2>8, PrefixStates
    <3> QED BY <1>1, <2>3, <2>4, <2>7, <3>1, EndStatesOf
  <2>10. p \in States(r, y, l, m)
    <3>1. States(r, w \o v, Len(w), m) = States(r, v, 0, m)
      BY <1>2, <2>5, <2>8, TailStates
    <3> QED BY <1>1, <2>6, <2>7, <3>1
  <2>11. p \in States(q, y, 0, l + m)
    <3>1. p \in States(q, y, 0, l + m) <=> \E u \in States(q, y, 0, l) : p \in States(u, y, 0 + l, m)
      BY <1>2, <2>8, StatesSplit
    <3> QED BY <2>8, <2>9, <2>10, <3>1
  <2>12. Matches(e[1], y, 0, l + m, e[2])
    BY <2>4, <2>6, <2>11 DEF Matches
  <2> QED BY <1>3, <2>8, <2>12
<1> QED
  BY <1>4, <1>5

(* A match from an entry that is the longest of its lexeme is the longest   *)
(* of the entry.                                                            *)
LEMMA LongestFromEntry ==
    ASSUME NEW Y, NEW i \in Nat, NEW d \in Nat, NEW z, NEW v, Layout(Y, i + d, z, v),
           NEW q \in States(LexStart, Y, i, d), NEW t, NEW n \in 1..Len(z),
           NEW p \in States(q, Y, i + d, n), t \in Matched[p], ~Larger(Y, i, d + n, t)
    PROVE  LongestMatch(q, z, t, n)
<1>1. /\ Y \in Seq(Symbols) /\ z \in Seq(Bytes) /\ Len(z) \in Nat /\ Len(v) \in Nat /\ n \in Nat /\ n <= Len(z)
      /\ Len(Y) = i + d + Len(z) + Len(v) /\ LexStart \in LexStates /\ i + d <= Len(Y)
  BY LexerAssumption DEF Layout
<1>2. q \in LexStates
  BY <1>1, LiveBefore
<1>3. n \in MatchWidths(q, z, t)
  <2>1. p \in States(q, z, 0, n)
    BY <1>1, <1>2, LayoutStates
  <2>2. Matches(q, z, 0, n, t)
    BY <2>1 DEF Matches
  <2> QED BY <1>1, <2>2, WidthsOf
<1>4. ASSUME NEW m \in MatchWidths(q, z, t) PROVE m <= n
  <2>1. m \in 1..Len(z) /\ i + (d + m) <= Len(Y) /\ Matches(LexStart, Y, i, d + m, t)
    BY EntryMatch
  <2>2. m \in Nat /\ d + m \in 1..(Len(Y) - i)
    BY <1>1, <2>1
  <2>3. ~(d + m > d + n)
    BY <2>1, <2>2 DEF Larger
  <2> QED BY <1>1, <2>2, <2>3
<1> QED
  BY <1>3, <1>4 DEF LongestMatch

(* Conversely the exclusions recorded with it are never hit. *)
LEMMA RecordedIsMet ==
    ASSUME NEW Y, NEW i \in Nat, NEW d \in Nat, NEW z, NEW v, Layout(Y, i + d, z, v),
           NEW q \in States(LexStart, Y, i, d), NEW t, NEW n \in 1..Len(z), ~Larger(Y, i, d + n, t)
    PROVE  ~Violated(Recorded(EndStates(q, z), t), v)
<1> SUFFICES ASSUME Violated(Recorded(EndStates(q, z), t), v) PROVE FALSE
  OBVIOUS
<1>1. /\ Y \in Seq(Symbols) /\ z \in Seq(Bytes) /\ v \in Seq(Bytes) /\ Len(z) \in Nat /\ Len(v) \in Nat
      /\ Len(Y) = i + d + Len(z) + Len(v) /\ LexStart \in LexStates /\ i + d <= Len(Y) /\ n \in Nat /\ n <= Len(z)
  BY LexerAssumption DEF Layout
<1>2. q \in LexStates
  BY <1>1, LiveBefore
<1>3. PICK e \in Recorded(EndStates(q, z), t), k \in 1..Len(v) : Matches(e[1], v, 0, k, e[2])
  BY <1>1, IsViolated
<1>4. PICK r \in EndStates(q, z) : e = <<r, t>>
  BY DEF Recorded
<1>5. r \in LexStates /\ e[1] = r /\ e[2] = t
  BY <1>1, <1>2, <1>4, EndStatesType
<1>6. PICK p \in States(r, v, 0, k) : t \in Matched[p]
  BY <1>3, <1>5 DEF Matches
<1>7. PICK l \in Nat, c \in Nat : l = Len(z) /\ c = i + d
  BY <1>1
<1>8. k \in Nat /\ k <= Len(v) /\ l <= Len(z) /\ c + l + k <= Len(Y) /\ Layout(Y, c, z, v)
  BY <1>1, <1>7
<1>9. r \in States(q, Y, c, l)
  <2>1. States(q, Y, c, l) = States(q, z, 0, l)
    BY <1>2, <1>8, LayoutStates
  <2> QED BY <1>1, <1>4, <1>7, <2>1, EndStatesOf
<1>10. p \in States(r, Y, c + l, k)
  <2>1. States(r, Y, c + Len(z), k) = States(r, v, 0, k)
    BY <1>5, <1>8, LayoutStates
  <2> QED BY <1>6, <1>7, <2>1
<1>11. p \in States(q, Y, c, l + k)
  <2>1. p \in States(q, Y, c, l + k) <=> \E u \in States(q, Y, c, l) : p \in States(u, Y, c + l, k)
    BY <1>1, <1>2, <1>8, StatesSplit
  <2> QED BY <1>9, <1>10, <2>1
<1>12. PICK h \in Nat : h = l + k /\ i + d + h <= Len(Y) /\ h > n
  <2>1. l + k \in Nat /\ i + d + (l + k) <= Len(Y) /\ l + k > n
    BY <1>1, <1>7, <1>8
  <2> QED BY <2>1
<1>13. p \in States(LexStart, Y, i, d + h)
  <2>1. p \in States(LexStart, Y, i, d + h) <=> \E u \in States(LexStart, Y, i, d) : p \in States(u, Y, i + d, h)
    BY <1>1, <1>12, StatesSplit
  <2> QED BY <1>7, <1>11, <1>12, <2>1
<1>14. d + h \in 1..(Len(Y) - i) /\ d + h > d + n
  BY <1>1, <1>12
<1>15. Matches(LexStart, Y, i, d + h, t)
  BY <1>6, <1>13 DEF Matches
<1> QED
  BY <1>14, <1>15 DEF Larger

(* A special token ends every lexeme: the parses before it are those of the *)
(* text without it.                                                         *)
LEMMA CutsBeforeSpecial ==
    ASSUME NEW x \in Seq(Symbols), NEW y \in Seq(Symbols), Len(y) >= Len(x) + 1,
           \A k \in 1..Len(x) : y[k] = x[k], y[Len(x) + 1] \notin Bytes
    PROVE  \A k \in 0..Len(x) : Cuts(y)[k] \subseteq Cuts(x)[k]
<1>1. Len(x) \in Nat /\ Len(y) \in Nat
  OBVIOUS
<1> DEFINE S == {n \in Nat : \A k \in 0..Len(x) : k <= n => Cuts(y)[k] \subseteq Cuts(x)[k]}
<1>2. 0 \in S
  <2>1. Cuts(x)[0] = {StartStack} /\ Cuts(y)[0] = {StartStack}
    BY CutsUnfold
  <2>2. \A k \in 0..Len(x) : k <= 0 => k = 0
    OBVIOUS
  <2> QED BY <2>1, <2>2
<1>3. ASSUME NEW n \in Nat, n \in S PROVE n + 1 \in S
  <2> SUFFICES ASSUME NEW k \in 0..Len(x), k <= n + 1 PROVE Cuts(y)[k] \subseteq Cuts(x)[k]
    OBVIOUS
  <2>1. CASE k <= n
    BY <1>3, <2>1
  <2>2. CASE k = n + 1
    <3> SUFFICES ASSUME NEW z \in Cuts(y)[k] PROVE z \in Cuts(x)[k]
      OBVIOUS
    <3>1. k \in 1..Len(x) /\ k \in 1..Len(y)
      BY <1>1, <2>2
    <3>2. z \in Ends(Cuts(y), y, k)
      BY <3>1, CutsUnfold
    <3>3. PICK i \in 0..(k - 1), t \in Terminals : Lexeme(y, i, k, t) /\ z \in Shifted(Cuts(y)[i], t)
      BY <3>2, InEnds
    <3>4. i \in 0..Len(x) /\ i <= n
      BY <1>1, <2>2
    <3>5. Cuts(y)[i] \subseteq Cuts(x)[i]
      BY <1>3, <3>4
    <3>6. z \in Shifted(Cuts(x)[i], t)
      BY <3>3, <3>5, InShifted
    <3>7. MatchWidths(LexStart, Suffix(y, i), t) = MatchWidths(LexStart, Suffix(x, i), t)
      BY <3>4, WidthsAtSpecial
    <3>8. y[k] = x[k]
      BY <3>1
    <3>9. Lexeme(x, i, k, t)
      BY <3>3, <3>7, <3>8 DEF Lexeme
    <3> QED BY <3>1, <3>6, <3>9, CutsIntro
  <2> QED BY <1>1, <2>1, <2>2
<1>4. Nat \subseteq S
  <2> HIDE DEF S
  <2> QED BY <1>2, <1>3, NatSetInduction
<1> QED
  BY <1>1, <1>4

(* The parses after a special token come from it alone. *)
LEMMA OnlySpecialCut ==
    ASSUME NEW x \in Seq(Symbols), NEW t \in Terminals, t \notin Ignored, NEW v \in Seq(Bytes),
           NEW z \in Cuts(Append(x, t) \o v)[Len(x) + 1]
    PROVE  \E s \in Cuts(x)[Len(x)] : z \in Advance[s][t]
<1>1. PICK y \in Seq(Symbols) : /\ y = Append(x, t) \o v /\ Len(y) = Len(x) + 1 + Len(v)
                                /\ \A k \in 1..Len(x) : y[k] = x[k]
                                /\ y[Len(x) + 1] = t /\ t \notin Bytes
  BY SpecialText
<1>2. Len(x) \in Nat /\ Len(v) \in Nat /\ Len(y) >= Len(x) + 1 /\ Len(x) \in 0..Len(x) /\ Len(y) \in Nat
  BY <1>1
<1>3. PICK k \in 1..Len(y) : k = Len(x) + 1
  BY <1>1, <1>2
<1>4. z \in Ends(Cuts(y), y, k)
  BY <1>1, <1>3, CutsUnfold
<1>5. PICK i \in 0..(k - 1), u \in Terminals : Lexeme(y, i, k, u) /\ z \in Shifted(Cuts(y)[i], u)
  BY <1>4, InEnds
<1>6. k - i \notin MatchWidths(LexStart, Suffix(y, i), u)
  <2>1. i \in 0..Len(x) /\ k - i > Len(x) - i
    BY <1>2, <1>3
  <2>2. MatchWidths(LexStart, Suffix(y, i), u) = MatchWidths(LexStart, Suffix(x, i), u)
    <3>1. y[Len(x) + 1] \notin Bytes /\ \A j \in 1..Len(x) : y[j] = x[j]
      BY <1>1
    <3>2. Len(y) >= Len(x) + 1
      BY <1>2
    <3> HIDE <1>1
    <3> QED BY <2>1, <3>1, <3>2, WidthsAtSpecial
  <2>3. k - i \notin MatchWidths(LexStart, Suffix(x, i), u)
    <3>1. \A n : n \in MatchWidths(LexStart, Suffix(x, i), u) =>
                   n \in 1..(Len(x) - i) /\ Matches(LexStart, x, i, n, u)
      BY <2>1, InWidths
    <3>2. k - i \notin 1..(Len(x) - i)
      BY <1>2, <2>1
    <3> QED BY <3>1, <3>2
  <2> QED BY <2>2, <2>3
<1>7. k = i + 1 /\ u = t
  BY <1>1, <1>3, <1>5, <1>6 DEF Lexeme
<1>8. i = Len(x)
  BY <1>2, <1>3, <1>7
<1>9. PICK s \in Cuts(y)[Len(x)] : z \in Advance[s][t]
  BY <1>5, <1>7, <1>8, InShifted
<1>10. Cuts(y)[Len(x)] \subseteq Cuts(x)[Len(x)]
  BY <1>1, <1>2, CutsBeforeSpecial
<1> QED
  BY <1>9, <1>10

(* A text that ends in bytes has one beginning. *)
LEMMA OneBeginning ==
    ASSUME NEW x \in Seq(Symbols), NEW y \in Seq(Symbols), NEW w \in Seq(Bytes), x \o w = y \o w
    PROVE  x = y
<1>1. PICK a \in Seq(Symbols) : /\ a = x \o w /\ Len(a) = Len(x) + Len(w) /\ \A k \in 1..Len(x) : a[k] = x[k]
  BY ConcatFacts
<1>2. Len(a) = Len(y) + Len(w) /\ \A k \in 1..Len(y) : a[k] = y[k]
  BY <1>1, ConcatFacts
<1>3. Len(x) \in Nat /\ Len(y) \in Nat /\ Len(w) \in Nat
  OBVIOUS
<1>4. Len(x) = Len(y)
  BY <1>1, <1>2, <1>3
<1>5. \A k \in 1..Len(x) : x[k] = y[k]
  BY <1>1, <1>2, <1>4
<1> QED
  BY <1>4, <1>5

(* A text that ends in bytes does not end in a special token. *)
LEMMA NotSpecial ==
    ASSUME NEW x \in Seq(Symbols), NEW y \in Seq(Symbols), NEW w \in Seq(Bytes), w # <<>>,
           NEW t \in Terminals
    PROVE  y \o w # Append(x, t)
<1> SUFFICES ASSUME y \o w = Append(x, t) PROVE FALSE
  OBVIOUS
<1>1. PICK v \in Seq(Bytes) : v = <<>>
  BY ConcatEmpty
<1>2. PICK a \in Seq(Symbols) : /\ a = y \o w /\ Len(a) = Len(y) + Len(w)
                                /\ \A k \in 1..Len(w) : a[Len(y) + k] = w[k]
  BY ConcatFacts
<1>3. Len(y) \in Nat /\ Len(w) \in Nat /\ Len(w) \in 1..Len(w)
  OBVIOUS
<1>4. a[Len(a)] \in Bytes
  <2>1. w[Len(w)] \in Bytes
    BY <1>3
  <2> QED BY <1>2, <1>3, <2>1
<1>5. Len(Append(x, t)) = Len(x) + 1 /\ Append(x, t)[Len(x) + 1] = t /\ t \notin Bytes
  <2>1. t \in Symbols /\ t \notin Bytes
    BY LexerAssumption DEF Symbols
  <2> QED BY <2>1
<1> QED
  BY <1>2, <1>4, <1>5

----------------------------------------------------------------------------
(* Where a parse of the text is due in the queue *)

(* The text being committed, and bytes that may follow it. *)
Text(y, v) == (y \o bytes) \o v

(* The lexeme that begins at position i of the text has the lexer in q at   *)
(* offset o: the entry of the queue it is read from.                        *)
From(o, q, i, y) ==
    /\ y \in Before /\ i \in Nat
    /\ IF o = 0 THEN i <= Len(y) /\ q \in States(LexStart, y, i, Len(y) - i)
                ELSE q = LexStart /\ i = Len(y) + o

(* The parse s of the first i symbols can go on from entry q of offset o. *)
Due(o, q, i, y, v, s) ==
    /\ From(o, q, i, y) /\ v \in Seq(Bytes) /\ s \in Cuts(Text(y, v))[i]
    /\ i = Len(y) + o \/ MayAdvanceExact({s}, q)

(* The longest match of t from there ends at offset k. *)
Takes(o, q, i, y, v, t, k) ==
    /\ k > o /\ LongestMatch(q, Suffix(bytes, o), t, k - o)
    /\ ~Larger(Text(y, v), i, (Len(y) + k) - i, t)

LEMMA TextFacts ==
    ASSUME TypeOK, NEW y \in Before, NEW v \in Seq(Bytes)
    PROVE  /\ y \in Seq(Symbols) /\ Len(y) \in Nat /\ Len(bytes) \in Nat /\ bytes \in Seq(Bytes)
           /\ Text(y, v) \in Seq(Symbols) /\ Len(Text(y, v)) = Len(y) + Len(bytes) + Len(v)
           /\ \A k \in 1..Len(bytes) : Text(y, v)[Len(y) + k] \in Bytes
<1>1. bytes \in Seq(Bytes) /\ y \in Seq(Symbols) /\ Len(bytes) \in Nat /\ Len(y) \in Nat
  BY BeforeFacts DEF TypeOK
<1>2. PICK x \in Seq(Symbols) : /\ x = y \o bytes /\ Len(x) = Len(y) + Len(bytes)
                                /\ \A k \in 1..Len(bytes) : x[Len(y) + k] = bytes[k]
  BY <1>1, ConcatFacts
<1>3. x \o v \in Seq(Symbols) /\ Len(x \o v) = Len(x) + Len(v) /\ \A k \in 1..Len(x) : (x \o v)[k] = x[k]
  BY ConcatFacts
<1>4. ASSUME NEW k \in 1..Len(bytes) PROVE (x \o v)[Len(y) + k] \in Bytes
  <2>1. Len(y) + k \in 1..Len(x) /\ bytes[k] \in Bytes
    BY <1>1, <1>2
  <2> QED BY <1>2, <1>3, <2>1
<1> QED
  BY <1>1, <1>2, <1>3, <1>4 DEF Text

LEMMA TextContinues ==
    ASSUME NEW y \in Seq(Symbols), bytes \in Seq(Bytes), NEW v \in Seq(Bytes)
    PROVE  \E u \in Seq(Bytes) : Text(y, v) = y \o u
<1>1. bytes \o v \in Seq(Bytes) /\ (y \o bytes) \o v = y \o (bytes \o v)
  BY ConcatAssoc
<1> QED
  BY <1>1 DEF Text

LEMMA FromEntry ==
    ASSUME TypeOK, NEW o \in 0..Len(bytes), NEW q, NEW i, NEW y, From(o, q, i, y), NEW v \in Seq(Bytes)
    PROVE  \E d \in Nat : /\ i + d = Len(y) + o /\ i \in Nat /\ y \in Before
                          /\ q \in States(LexStart, Text(y, v), i, d) /\ q \in LexStates
                          /\ Layout(Text(y, v), i + d, Suffix(bytes, o), v)
<1>1. y \in Before /\ i \in Nat /\ LexStart \in LexStates
  BY LexerAssumption DEF From
<1>2. /\ y \in Seq(Symbols) /\ Len(y) \in Nat /\ Len(bytes) \in Nat /\ bytes \in Seq(Bytes)
      /\ Text(y, v) \in Seq(Symbols) /\ Len(Text(y, v)) = Len(y) + Len(bytes) + Len(v)
  BY <1>1, TextFacts
<1>3. PICK Y \in Seq(Symbols) : Y = Text(y, v) /\ Len(Y) = Len(y) + Len(bytes) + Len(v)
  BY <1>2
<1>4. Layout(Y, Len(y) + o, Suffix(bytes, o), v)
  BY <1>1, <1>3, LayoutAt DEF Text
<1>5. Len(v) \in Nat /\ o \in Nat
  BY <1>2
<1>6. CASE o = 0
  <2>1. PICK d \in Nat : d = Len(y) - i /\ i + d = Len(y) + o /\ i + d <= Len(y)
    <3>1. Len(y) - i \in Nat /\ i + (Len(y) - i) = Len(y) + o /\ i + (Len(y) - i) <= Len(y)
      BY <1>1, <1>2, <1>6 DEF From
    <3> QED BY <3>1
  <2>2. q \in States(LexStart, y, i, d)
    BY <1>6, <2>1 DEF From
  <2>3. PICK u \in Seq(Bytes) : Y = y \o u
    BY <1>2, <1>3, TextContinues
  <2>4. States(LexStart, y \o u, i, d) = States(LexStart, y, i, d)
    BY <1>1, <1>2, <2>1, PrefixStates
  <2>5. q \in States(LexStart, Y, i, d)
    BY <2>2, <2>3, <2>4
  <2>6. q \in LexStates
    <3>1. i + d <= Len(Y)
      BY <1>2, <1>3, <1>5, <2>1
    <3> QED BY <1>1, <2>5, <3>1, LiveBefore
  <2> QED BY <1>1, <1>3, <1>4, <2>1, <2>5, <2>6
<1>7. CASE o # 0
  <2>1. q = LexStart /\ i = Len(y) + o /\ i + 0 = Len(y) + o /\ i + 0 = i
    BY <1>1, <1>7 DEF From
  <2>2. i \in 0..Len(Y)
    BY <1>1, <1>2, <1>3, <1>5, <2>1
  <2>3. States(LexStart, Y, i, 0) = {LexStart}
    BY <1>1, <2>2, StatesUnfold
  <2>4. q \in States(LexStart, Y, i, 0) /\ 0 \in Nat
    BY <2>1, <2>3
  <2> QED BY <1>1, <1>3, <1>4, <2>1, <2>4
<1> QED
  BY <1>6, <1>7

(* The m symbols from i on lead to lexer state p through an entry of the    *)
(* queue, d symbols after i and h symbols before p.                         *)
ReadFromEntry(y, v, i, m, p) ==
    \E o, d, h \in Nat : \E q \in LexStates :
        /\ From(o, q, i, y) /\ i + d = Len(y) + o /\ d + h = m /\ h >= 1 /\ o < Len(bytes)
        /\ q \in States(LexStart, Text(y, v), i, d) /\ p \in States(q, Text(y, v), i + d, h)
        /\ i = Len(y) + o \/ Live(p) \subseteq Future[q]

(* Every lexeme that reaches beyond the beginning of the bytes is read from *)
(* an entry of the queue.                                                   *)
LEMMA EntryOf ==
    ASSUME TypeOK, NEW y \in Before, NEW v \in Seq(Bytes), NEW i \in Nat, NEW m \in Nat,
           i < i + m, Len(y) < i + m, i + m <= Len(y) + Len(bytes), NEW p \in States(LexStart, Text(y, v), i, m)
    PROVE  ReadFromEntry(y, v, i, m, p)
<1>1. /\ y \in Seq(Symbols) /\ Len(y) \in Nat /\ Len(bytes) \in Nat /\ bytes \in Seq(Bytes) /\ LexStart \in LexStates
      /\ Text(y, v) \in Seq(Symbols) /\ Len(Text(y, v)) = Len(y) + Len(bytes) + Len(v) /\ Len(v) \in Nat
  BY TextFacts, LexerAssumption
<1>2. PICK Y \in Seq(Symbols) : Y = Text(y, v) /\ Len(Y) = Len(y) + Len(bytes) + Len(v)
  BY <1>1
<1>3. CASE i <= Len(y)
  <2>1. PICK d, h \in Nat : /\ d = Len(y) - i /\ d + h = m /\ i + d = Len(y) + 0 /\ h >= 1 /\ i + d <= Len(y)
                            /\ i + d + h <= Len(Y) /\ 0 < Len(bytes)
    <3>1. PICK l \in Nat : l = Len(y)
      BY <1>1
    <3>2. /\ l - i \in Nat /\ m - (l - i) \in Nat /\ (l - i) + (m - (l - i)) = m /\ i + (l - i) = l + 0
          /\ m - (l - i) >= 1 /\ i + (l - i) <= l /\ i + (l - i) + (m - (l - i)) <= Len(Y) /\ 0 < Len(bytes)
      BY <1>1, <1>2, <1>3, <3>1
    <3> QED BY <3>1, <3>2
  <2>2. PICK q \in States(LexStart, Y, i, d) : p \in States(q, Y, i + d, h)
    <3>1. p \in States(LexStart, Y, i, d + h) <=> \E u \in States(LexStart, Y, i, d) : p \in States(u, Y, i + d, h)
      BY <1>1, <2>1, StatesSplit
    <3> QED BY <1>2, <2>1, <3>1
  <2>3. PICK u \in Seq(Bytes) : Y = y \o u
    BY <1>1, <1>2, TextContinues
  <2>4. States(LexStart, y \o u, i, d) = States(LexStart, y, i, d)
    BY <1>1, <2>1, PrefixStates
  <2>5. From(0, q, i, y)
    BY <1>3, <2>1, <2>2, <2>3, <2>4 DEF From
  <2>6. q \in LexStates
    <3>1. i + d <= Len(Y)
      BY <1>1, <1>2, <2>1
    <3> QED BY <1>1, <2>2, <3>1, LiveBefore
  <2>7. Live(p) \subseteq Future[q]
    <3>0. i + d \in Nat /\ (i + d) + h <= Len(Y) /\ h > 0
      BY <2>1
    <3>1. PICK c \in Nat : c = i + d /\ c + h <= Len(Y) /\ h > 0
      BY <3>0
    <3>2. p \in States(q, Y, c, h)
      BY <2>2, <3>1
    <3> QED BY <2>6, <3>1, <3>2, LiveBefore
  <2>8. 0 \in Nat
    OBVIOUS
  <2> QED BY <1>2, <2>1, <2>2, <2>5, <2>6, <2>7, <2>8 DEF ReadFromEntry
<1>4. CASE i > Len(y)
  <2>1. PICK o \in Nat : i = Len(y) + o /\ o # 0 /\ o < Len(bytes)
    <3>1. i - Len(y) \in Nat /\ i = Len(y) + (i - Len(y)) /\ i - Len(y) # 0 /\ i - Len(y) < Len(bytes)
      BY <1>1, <1>4
    <3> QED BY <3>1
  <2>2. From(o, LexStart, i, y)
    BY <2>1 DEF From
  <2>3. i + 0 = i /\ 0 + m = m /\ m >= 1 /\ 0 \in Nat /\ i \in 0..Len(Y)
    BY <1>1, <1>2
  <2>4. States(LexStart, Y, i, 0) = {LexStart}
    BY <1>1, <2>3, StatesUnfold
  <2>5. LexStart \in States(LexStart, Y, i, 0) /\ p \in States(LexStart, Y, i + 0, m)
    BY <1>2, <2>3, <2>4
  <2> QED BY <1>1, <1>2, <2>1, <2>2, <2>3, <2>5 DEF ReadFromEntry
<1>5. i <= Len(y) \/ i > Len(y)
  BY <1>1
<1> QED
  BY <1>3, <1>4, <1>5

LEMMA EntryWidths ==
    ASSUME NEW i \in Nat, NEW m \in Nat, NEW d \in Nat, NEW h \in Nat, NEW o \in Nat, NEW l \in Nat, NEW b \in Nat,
           NEW k \in Nat, k <= b, i + m = l + k, i + d = l + o, d + h = m, h >= 1
    PROVE  o \in 0..(k - 1) /\ k - o = h /\ k > o /\ o \in 0..b /\ (l + k) - i = m
<1>1. k = o + h
  OBVIOUS
<1> QED
  BY <1>1

(* Every parse that ends inside the bytes comes from a longest match of an  *)
(* entry where it was due.                                                  *)
LEMMA Cover ==
    ASSUME TypeOK, NEW y \in Before, NEW v \in Seq(Bytes), NEW k \in 1..Len(bytes),
           NEW z \in Cuts(Text(y, v))[Len(y) + k]
    PROVE  \E o \in 0..(k - 1) : \E q \in LexStates : \E i, s : \E t \in Terminals :
              Due(o, q, i, y, v, s) /\ Takes(o, q, i, y, v, t, k) /\ z \in Shifted({s}, t)
<1>1. /\ y \in Seq(Symbols) /\ Len(y) \in Nat /\ Len(bytes) \in Nat /\ bytes \in Seq(Bytes) /\ LexStart \in LexStates
      /\ Text(y, v) \in Seq(Symbols) /\ Len(Text(y, v)) = Len(y) + Len(bytes) + Len(v) /\ Len(v) \in Nat
      /\ Text(y, v)[Len(y) + k] \in Bytes
  BY TextFacts, LexerAssumption
<1>2. PICK Y \in Seq(Symbols) : Y = Text(y, v) /\ Len(Y) = Len(y) + Len(bytes) + Len(v)
  BY <1>1
<1>3. PICK K \in 1..Len(Y) : K = Len(y) + k /\ Y[K] \in Bytes
  BY <1>1, <1>2
<1>4. z \in Ends(Cuts(Y), Y, K)
  BY <1>2, <1>3, CutsUnfold
<1>5. PICK i \in 0..(K - 1), t \in Terminals : Lexeme(Y, i, K, t) /\ z \in Shifted(Cuts(Y)[i], t)
  BY <1>4, InEnds
<1>6. PICK m \in Nat : m = K - i /\ i + m = K /\ m >= 1 /\ i \in Nat /\ i \in 0..Len(Y)
  <2>1. K - i \in Nat /\ i + (K - i) = K /\ K - i >= 1 /\ i \in Nat /\ i \in 0..Len(Y)
    BY <1>1, <1>2, <1>3
  <2> QED BY <2>1
<1>7. Matches(LexStart, Y, i, m, t) /\ ~Larger(Y, i, m, t)
  <2> DEFINE W == MatchWidths(LexStart, Suffix(Y, i), t)
  <2>1. Y[K] # t
    BY <1>3, <1>5, LexerAssumption
  <2>2. m \in W /\ \A n \in W : n <= m
    BY <1>5, <1>6, <2>1 DEF Lexeme
  <2>3. \A n : n \in W <=> n \in 1..(Len(Y) - i) /\ Matches(LexStart, Y, i, n, t)
    BY <1>6, InWidths
  <2> HIDE DEF W
  <2>4. \A n \in 1..(Len(Y) - i) : Matches(LexStart, Y, i, n, t) => ~(n > m)
    BY <1>6, <2>2, <2>3
  <2> QED BY <2>2, <2>3, <2>4 DEF Larger
<1>8. PICK s \in Cuts(Y)[i] : z \in Shifted({s}, t)
  <2>1. IF t \in Ignored THEN z \in Cuts(Y)[i] ELSE \E s \in Cuts(Y)[i] : z \in Advance[s][t]
    BY <1>5, InShifted
  <2>2. \A s : z \in Shifted({s}, t) <=> IF t \in Ignored THEN z \in {s} ELSE z \in Advance[s][t]
    BY InShifted
  <2> QED BY <2>1, <2>2
<1>9. PICK p \in States(LexStart, Y, i, m) : t \in Matched[p]
  BY <1>7 DEF Matches
<1>10. PICK o, d, h \in Nat, q \in LexStates :
              /\ From(o, q, i, y) /\ i + d = Len(y) + o /\ d + h = m /\ h >= 1 /\ o < Len(bytes)
              /\ q \in States(LexStart, Y, i, d) /\ p \in States(q, Y, i + d, h)
              /\ i = Len(y) + o \/ Live(p) \subseteq Future[q]
  <2>1. i < i + m /\ Len(y) < i + m /\ i + m <= Len(y) + Len(bytes) /\ p \in States(LexStart, Text(y, v), i, m)
    <3>1. PICK l \in Nat, b \in Nat : l = Len(y) /\ b = Len(bytes)
      BY <1>1
    <3>2. K = l + k /\ k \in 1..b /\ i + m = K /\ m >= 1 /\ i \in Nat
      BY <1>3, <1>6, <3>1
    <3>3. i < i + m /\ l < i + m /\ i + m <= l + b
      BY <3>2
    <3>4. p \in States(LexStart, Text(y, v), i, m)
      BY <1>2, <1>9
    <3> QED BY <3>1, <3>3, <3>4
  <2>2. ReadFromEntry(y, v, i, m, p)
    BY <1>6, <2>1, EntryOf
  <2> QED BY <1>2, <2>2 DEF ReadFromEntry
<1>11. o \in 0..(k - 1) /\ k - o = h /\ k > o /\ o \in 0..Len(bytes) /\ (Len(y) + k) - i = m
  <2>1. PICK l, b \in Nat : l = Len(y) /\ b = Len(bytes)
    BY <1>1
  <2>2. /\ i + m = l + k /\ i + d = l + o /\ d + h = m /\ h >= 1 /\ o < b
        /\ i \in Nat /\ m \in Nat /\ d \in Nat /\ h \in Nat /\ o \in Nat /\ l \in Nat /\ b \in Nat /\ k \in Nat /\ k <= b
    BY <1>3, <1>6, <1>10, <2>1
  <2>3. PICK j, r \in Nat : j = i /\ r = k
    BY <2>2
  <2>4. j + m = l + r /\ j + d = l + o /\ r <= b
    BY <2>2, <2>3
  <2>5. o \in 0..(r - 1) /\ r - o = h /\ r > o /\ o \in 0..b /\ (l + r) - j = m
    BY <2>2, <2>4, EntryWidths
  <2>6. o \in 0..(k - 1) /\ k - o = h /\ k > o /\ o \in 0..b /\ (l + k) - i = m
    BY <2>3, <2>5
  <2> QED BY <2>1, <2>6
<1>12. Due(o, q, i, y, v, s)
  <2>1. i = Len(y) + o \/ MayAdvanceExact({s}, q)
    <3> SUFFICES ASSUME Live(p) \subseteq Future[q] PROVE MayAdvanceExact({s}, q)
      BY <1>10
    <3>1. t \in Future[q]
      BY <1>9 DEF Live
    <3>2. t \in Ignored \/ Advance[s][t] # {}
      BY <1>8, InShifted
    <3> QED BY <3>1, <3>2 DEF MayAdvanceExact
  <2> QED BY <1>2, <1>8, <1>10, <2>1 DEF Due
<1>13. Takes(o, q, i, y, v, t, k)
  <2>1. PICK w \in Seq(Bytes) : w = Suffix(bytes, o) /\ Layout(Y, i + d, w, v)
    <3>1. Layout(Y, Len(y) + o, Suffix(bytes, o), v)
      BY <1>2, <1>11, LayoutAt DEF Text
    <3> QED BY <1>10, <3>1 DEF Layout
  <2>2. Len(w) = Len(bytes) - o
    BY <1>1, <1>11, <2>1, SuffixFacts, BytesAreSymbols
  <2>3. h \in 1..Len(w)
    BY <1>1, <1>10, <1>11, <2>2
  <2>4. ~Larger(Y, i, d + h, t)
    BY <1>7, <1>10
  <2>5. LongestMatch(q, w, t, h)
    BY <1>6, <1>9, <1>10, <2>1, <2>3, <2>4, LongestFromEntry
  <2> QED BY <1>2, <1>7, <1>11, <2>1, <2>5 DEF Takes
<1> QED
  BY <1>8, <1>11, <1>12, <1>13

(* Every open lexeme of the text is read from an entry where it was due.    *)
LEMMA CoverOpen ==
    ASSUME TypeOK, NEW y \in Before, NEW v \in Seq(Bytes), NEW i \in Nat, i < Len(y) + Len(bytes),
           bytes # <<>>, NEW p \in States(LexStart, y \o bytes, i, (Len(y) + Len(bytes)) - i),
           NEW s \in Cuts(Text(y, v))[i], MayAdvanceExact({s}, p)
    PROVE  \E o \in 0..(Len(bytes) - 1) : \E q \in LexStates :
              Due(o, q, i, y, v, s) /\ p \in EndStates(q, Suffix(bytes, o))
<1>1. /\ y \in Seq(Symbols) /\ Len(y) \in Nat /\ Len(bytes) \in Nat /\ bytes \in Seq(Bytes) /\ LexStart \in LexStates
      /\ Text(y, v) \in Seq(Symbols) /\ Len(Text(y, v)) = Len(y) + Len(bytes) + Len(v) /\ Len(v) \in Nat
      /\ Len(bytes) > 0
  BY TextFacts, LexerAssumption
<1>2. PICK Y \in Seq(Symbols) : Y = Text(y, v) /\ Len(Y) = Len(y) + Len(bytes) + Len(v)
  BY <1>1
<1>3. PICK K \in Nat : K = Len(y) + Len(bytes)
  BY <1>1
<1>4. PICK m \in Nat : m = K - i /\ i + m = K /\ m >= 1
  <2>1. K - i \in Nat /\ i + (K - i) = K /\ K - i >= 1
    BY <1>1, <1>3
  <2> QED BY <2>1
<1>5. p \in States(LexStart, Y, i, m)
  <2>1. PICK x \in Seq(Symbols) : x = y \o bytes /\ Len(x) = Len(y) + Len(bytes)
    BY <1>1, ConcatFacts
  <2>2. i + m <= Len(x)
    BY <1>1, <1>3, <1>4, <2>1
  <2>3. States(LexStart, x \o v, i, m) = States(LexStart, x, i, m)
    BY <1>1, <2>2, PrefixStates
  <2> QED BY <1>2, <1>3, <1>4, <2>1, <2>3 DEF Text
<1>6. PICK o, d, h \in Nat, q \in LexStates :
              /\ From(o, q, i, y) /\ i + d = Len(y) + o /\ d + h = m /\ h >= 1 /\ o < Len(bytes)
              /\ q \in States(LexStart, Y, i, d) /\ p \in States(q, Y, i + d, h)
              /\ i = Len(y) + o \/ Live(p) \subseteq Future[q]
  <2>1. i < i + m /\ Len(y) < i + m /\ i + m <= Len(y) + Len(bytes) /\ p \in States(LexStart, Text(y, v), i, m)
    <3>1. PICK l, b \in Nat : l = Len(y) /\ b = Len(bytes) /\ b > 0
      BY <1>1
    <3>2. i + m = l + b /\ m >= 1
      BY <1>3, <1>4, <3>1
    <3>3. i < i + m /\ l < i + m /\ i + m <= l + b
      BY <3>1, <3>2
    <3>4. p \in States(LexStart, Text(y, v), i, m)
      BY <1>2, <1>5
    <3> QED BY <3>1, <3>3, <3>4
  <2>2. ReadFromEntry(y, v, i, m, p)
    BY <2>1, EntryOf
  <2> QED BY <1>2, <2>2 DEF ReadFromEntry
<1>7. o \in 0..(Len(bytes) - 1) /\ o \in 0..Len(bytes) /\ h = Len(bytes) - o
  <2>1. PICK l, b \in Nat : l = Len(y) /\ b = Len(bytes)
    BY <1>1
  <2>2. /\ i + m = l + b /\ i + d = l + o /\ d + h = m /\ h >= 1 /\ o < b
        /\ i \in Nat /\ m \in Nat /\ d \in Nat /\ h \in Nat /\ o \in Nat /\ l \in Nat /\ b \in Nat /\ b <= b
    BY <1>6, <1>3, <1>4, <2>1
  <2>3. d + h = m
    BY <1>6
  <2>4. b = o + h
    <3>1. i + (d + h) = l + b
      BY <2>2, <2>3
    <3>2. i + (d + h) = (i + d) + h
      BY <2>2
    <3> QED BY <2>2, <3>1, <3>2
  <2>5. o \in 0..(b - 1) /\ o \in 0..b /\ h = b - o
    BY <2>2, <2>4
  <2> QED BY <2>1, <2>5
<1>8. Due(o, q, i, y, v, s)
  <2>1. i = Len(y) + o \/ MayAdvanceExact({s}, q)
    <3> SUFFICES ASSUME Live(p) \subseteq Future[q] PROVE MayAdvanceExact({s}, q)
      BY <1>6
    <3>1. Future[p] \subseteq Future[q]
      BY DEF Live
    <3> QED BY <3>1 DEF MayAdvanceExact
  <2> QED BY <1>6, <2>1 DEF Due
<1>9. p \in EndStates(q, Suffix(bytes, o))
  <2>1. PICK w \in Seq(Bytes) : w = Suffix(bytes, o) /\ Layout(Y, i + d, w, v)
    <3>1. Layout(Y, Len(y) + o, Suffix(bytes, o), v)
      BY <1>2, <1>7, LayoutAt DEF Text
    <3> QED BY <1>6, <3>1 DEF Layout
  <2>2. Len(w) = h
    <3>1. Len(w) = Len(bytes) - o
      BY <1>1, <1>7, <2>1, SuffixFacts, BytesAreSymbols
    <3> QED BY <1>7, <3>1
  <2>3. States(q, Y, i + d, h) = States(q, w, 0, h)
    BY <1>6, <2>1, <2>2, LayoutStates
  <2> QED BY <1>6, <2>1, <2>2, <2>3, EndStatesOf
<1> QED
  BY <1>7, <1>8, <1>9

----------------------------------------------------------------------------
(* What one entry brings to its destinations *)

(* The exclusions that stack s carries over a match of t from entry q. *)
Carried(g, s, q, t) == IF t \in Ignored THEN g[s] ELSE g[s] \cup Recorded(EndStates(q, Rest), t)

LEMMA InAfterMatch ==
    ASSUME NEW g, NEW q, NEW t
    PROVE  /\ \A z : z \in DOMAIN AfterMatch(g, q, t) <=> \E s \in DOMAIN g : z \in Shifted({s}, t)
           /\ \A z \in DOMAIN AfterMatch(g, q, t) : \A e :
                e \in AfterMatch(g, q, t)[z] <=> \E s \in DOMAIN g : z \in Shifted({s}, t) /\ e \in Carried(g, s, q, t)
<1>1. \A s, z : z \in Shifted({s}, t) <=> IF t \in Ignored THEN z = s ELSE z \in Advance[s][t]
  BY DEF Shifted
<1>2. CASE t \in Ignored
  <2>1. AfterMatch(g, q, t) = g /\ \A s : Carried(g, s, q, t) = g[s]
    BY <1>2 DEF AfterMatch, Carried
  <2>2. \A s, z : z \in Shifted({s}, t) <=> z = s
    <3> SUFFICES ASSUME NEW s, NEW z PROVE z \in Shifted({s}, t) <=> z = s
      OBVIOUS
    <3>1. Shifted({s}, t) = {s}
      BY <1>2 DEF Shifted
    <3> QED BY <3>1
  <2>3. \A z : z \in DOMAIN g <=> \E s \in DOMAIN g : z \in Shifted({s}, t)
    <3>1. ASSUME NEW z \in DOMAIN g PROVE \E s \in DOMAIN g : z \in Shifted({s}, t)
      <4>1. z \in Shifted({z}, t)
        BY <2>2
      <4> QED BY <4>1
    <3>2. ASSUME NEW z, NEW s \in DOMAIN g, z \in Shifted({s}, t) PROVE z \in DOMAIN g
      <4>1. z = s
        BY <2>2, <3>2, Zenon
      <4> QED BY <4>1
    <3> QED BY <3>1, <3>2
  <2>4. ASSUME NEW z \in DOMAIN g, NEW e
        PROVE  e \in g[z] <=> \E s \in DOMAIN g : z \in Shifted({s}, t) /\ e \in Carried(g, s, q, t)
    <3>1. ASSUME e \in g[z] PROVE \E s \in DOMAIN g : z \in Shifted({s}, t) /\ e \in Carried(g, s, q, t)
      <4>1. z \in Shifted({z}, t) /\ e \in Carried(g, z, q, t)
        BY <2>1, <2>2, <3>1
      <4> QED BY <4>1
    <3>2. ASSUME NEW s \in DOMAIN g, z \in Shifted({s}, t), e \in Carried(g, s, q, t) PROVE e \in g[z]
      <4>1. z = s
        BY <2>2, <3>2
      <4>2. Carried(g, s, q, t) = g[s]
        BY <2>1
      <4> QED BY <3>2, <4>1, <4>2
    <3> QED BY <3>1, <3>2
  <2> QED BY <2>1, <2>3, <2>4
<1>3. CASE t \notin Ignored
  <2>1. PICK h : h = AdvanceStacks(g, t)
    OBVIOUS
  <2>2. PICK R : R = Recorded(EndStates(q, Rest), t)
    OBVIOUS
  <2>3. PICK a : a = AfterMatch(g, q, t)
    OBVIOUS
  <2>4. DOMAIN a = DOMAIN h /\ \A z \in DOMAIN h : a[z] = h[z] \cup R
    BY <1>3, <2>1, <2>2, <2>3 DEF AfterMatch, ApplyFutureTerminalDisallow, Recorded
  <2>5. /\ \A z : z \in DOMAIN h <=> \E s \in DOMAIN g : z \in Advance[s][t]
        /\ \A z \in DOMAIN h : \A e : e \in h[z] <=> \E s \in DOMAIN g : z \in Advance[s][t] /\ e \in g[s]
    BY <2>1, InAdvance
  <2>6. \A s : Carried(g, s, q, t) = g[s] \cup R
    BY <1>3, <2>2 DEF Carried
  <2>7. \A s, z : z \in Shifted({s}, t) <=> z \in Advance[s][t]
    BY <1>1, <1>3
  <2>8. \A z : z \in DOMAIN a <=> \E s \in DOMAIN g : z \in Shifted({s}, t)
    BY <2>4, <2>5, <2>7
  <2>9. ASSUME NEW z \in DOMAIN a, NEW e
        PROVE  e \in a[z] <=> \E s \in DOMAIN g : z \in Shifted({s}, t) /\ e \in Carried(g, s, q, t)
    <3>1. z \in DOMAIN h /\ a[z] = h[z] \cup R
      BY <2>4
    <3>2. PICK u \in DOMAIN g : z \in Advance[u][t]
      BY <2>5, <3>1
    <3>3. ASSUME e \in a[z] PROVE \E s \in DOMAIN g : z \in Shifted({s}, t) /\ e \in Carried(g, s, q, t)
      <4>1. CASE e \in h[z]
        <5>1. PICK s \in DOMAIN g : z \in Advance[s][t] /\ e \in g[s]
          BY <2>5, <3>1, <4>1
        <5> QED BY <2>6, <2>7, <5>1
      <4>2. CASE e \in R
        BY <2>6, <2>7, <3>2, <4>2
      <4> QED BY <3>1, <3>3, <4>1, <4>2
    <3>4. ASSUME NEW s \in DOMAIN g, z \in Shifted({s}, t), e \in Carried(g, s, q, t) PROVE e \in a[z]
      <4>1. e \in g[s] \cup R /\ z \in Advance[s][t]
        BY <2>6, <2>7, <3>4
      <4> QED BY <2>5, <3>1, <4>1
    <3> QED BY <3>3, <3>4
  <2> QED BY <2>3, <2>8, <2>9
<1> QED
  BY <1>2, <1>3

(* The stacks that entry q has for a match of t that ends at offset i. *)
Brings(g, q, i, t, s, z) == s \in DOMAIN g /\ t \in Terminals /\ Arrives(q, i, t) /\ z \in Shifted({s}, t)

LEMMA ArrivalsFrom ==
    ASSUME NEW g, NEW q, NEW i
    PROVE  /\ \A z, s, t : Brings(g, q, i, t, s, z) =>
                z \in DOMAIN Arrivals(g, q, i) /\ Carried(g, s, q, t) \subseteq Arrivals(g, q, i)[z]
           /\ \A z \in DOMAIN Arrivals(g, q, i) : \A e \in Arrivals(g, q, i)[z] :
                \E s, t : Brings(g, q, i, t, s, z) /\ e \in Carried(g, s, q, t)
<1>1. PICK a : a = Arrivals(g, q, i)
  OBVIOUS
<1>2. /\ \A z : z \in DOMAIN a <=> \E t \in Terminals : Arrives(q, i, t) /\ z \in DOMAIN AfterMatch(g, q, t)
      /\ \A z \in DOMAIN a : \A e :
            e \in a[z] <=> \E t \in Terminals : Arrives(q, i, t) /\ e \in Acc(AfterMatch(g, q, t), z)
  BY <1>1, InArrivals
<1>3. ASSUME NEW z, NEW s, NEW t, Brings(g, q, i, t, s, z)
      PROVE  z \in DOMAIN a /\ Carried(g, s, q, t) \subseteq a[z]
  <2>1. s \in DOMAIN g /\ t \in Terminals /\ Arrives(q, i, t) /\ z \in Shifted({s}, t)
    BY <1>3 DEF Brings
  <2>2. z \in DOMAIN AfterMatch(g, q, t)
    BY <2>1, InAfterMatch
  <2>3. z \in DOMAIN a
    BY <1>2, <2>1, <2>2
  <2>4. ASSUME NEW e \in Carried(g, s, q, t) PROVE e \in a[z]
    <3>1. e \in AfterMatch(g, q, t)[z]
      BY <2>1, <2>2, InAfterMatch
    <3>2. e \in Acc(AfterMatch(g, q, t), z)
      BY <2>2, <3>1 DEF Acc
    <3> QED BY <1>2, <2>1, <2>3, <3>2
  <2> QED BY <2>3, <2>4
<1>4. ASSUME NEW z \in DOMAIN a, NEW e \in a[z]
      PROVE  \E s, t : Brings(g, q, i, t, s, z) /\ e \in Carried(g, s, q, t)
  <2>1. PICK t \in Terminals : Arrives(q, i, t) /\ e \in Acc(AfterMatch(g, q, t), z)
    BY <1>2
  <2>2. z \in DOMAIN AfterMatch(g, q, t) /\ e \in AfterMatch(g, q, t)[z]
    BY <2>1 DEF Acc
  <2>3. PICK s \in DOMAIN g : z \in Shifted({s}, t) /\ e \in Carried(g, s, q, t)
    BY <2>2, InAfterMatch
  <2> QED BY <2>1, <2>3 DEF Brings
<1> QED
  BY <1>1, <1>3, <1>4

LEMMA InPairs ==
    ASSUME NEW g
    PROVE  /\ \A s \in DOMAIN g : <<s, g[s]>> \in Pairs(g)
           /\ \A a \in Pairs(g) : a[1] \in DOMAIN g /\ a[2] = g[a[1]]
  BY DEF Pairs

LEMMA DerivationIntro ==
    ASSUME NEW q, NEW i, NEW t, NEW s, NEW z, Brings(AtOffset(q), q, i, t, s, z)
    PROVE  <<z, Carried(AtOffset(q), s, q, t)>> \in Derivations(q, i)
<1>1. PICK g : g = AtOffset(q)
  OBVIOUS
<1>2. PICK h : h = Single(g, s)
  OBVIOUS
<1>3. DOMAIN h = {s} /\ h[s] = g[s]
  BY <1>2 DEF Single
<1>4. s \in DOMAIN g /\ t \in Terminals /\ Arrives(q, i, t) /\ z \in Shifted({s}, t)
  BY <1>1 DEF Brings
<1>5. z \in DOMAIN AfterMatch(h, q, t)
  BY <1>3, <1>4, InAfterMatch
<1>6. Carried(h, s, q, t) = Carried(g, s, q, t)
  BY <1>3 DEF Carried
<1>7. AfterMatch(h, q, t)[z] = Carried(g, s, q, t)
  <2>1. \A e : e \in AfterMatch(h, q, t)[z] <=> e \in Carried(h, s, q, t)
    BY <1>3, <1>4, <1>5, InAfterMatch
  <2>2. AfterMatch(h, q, t)[z] = Carried(h, s, q, t)
    <3>1. CASE t \in Ignored
      <4>1. AfterMatch(h, q, t) = h /\ Carried(h, s, q, t) = h[s]
        BY <3>1 DEF AfterMatch, Carried
      <4>2. z = s
        BY <1>3, <1>5, <4>1
      <4> QED BY <4>1, <4>2
    <3>2. CASE t \notin Ignored
      <4>1. PICK R : R = Recorded(EndStates(q, Rest), t)
        OBVIOUS
      <4>2. z \in DOMAIN AdvanceStacks(h, t) /\ AfterMatch(h, q, t)[z] = AdvanceStacks(h, t)[z] \cup R
        BY <1>5, <3>2, <4>1 DEF AfterMatch, ApplyFutureTerminalDisallow, Recorded
      <4>3. Carried(h, s, q, t) = h[s] \cup R
        BY <3>2, <4>1 DEF Carried
      <4> QED BY <2>1, <4>2, <4>3
    <3> QED BY <3>1, <3>2
  <2> QED BY <1>6, <2>2
<1>8. PICK b : b = AfterMatch(h, q, t)
  OBVIOUS
<1>9. <<z, Carried(g, s, q, t)>> \in Pairs(b)
  BY <1>5, <1>7, <1>8, InPairs
<1>10. PICK l : l = <<s, t>>
  OBVIOUS
<1>11. l \in (DOMAIN g) \X Terminals /\ l[1] = s /\ l[2] = t /\ LongestMatch(q, Rest, l[2], i - offset)
  BY <1>4, <1>10 DEF Arrives
<1>12. Pairs(b) \subseteq Derivations(q, i)
  <2>1. l \in {m \in (DOMAIN AtOffset(q)) \X Terminals : LongestMatch(q, Rest, m[2], i - offset)}
    BY <1>1, <1>11
  <2>2. Pairs(b) = Pairs(AfterMatch(Single(AtOffset(q), l[1]), q, l[2]))
    BY <1>1, <1>2, <1>8, <1>11
  <2> QED BY <2>1, <2>2 DEF Derivations
<1> QED
  BY <1>1, <1>9, <1>12

(* Every exclusion of m is one of the pairs S that were merged into it. *)
OnlyFrom(m, S) == \A s \in DOMAIN m : \A e \in m[s] : \E a \in S : a[1] = s /\ e \in a[2]

(* Stack s is in g and no exclusion stops it from reading v. *)
KeptAt(g, s, v) == s \in DOMAIN g /\ ~Violated(g[s], v)

LEMMA OnlyPairs ==
    ASSUME NEW g
    PROVE  OnlyFrom(g, Pairs(g))
<1> SUFFICES ASSUME NEW s \in DOMAIN g, NEW e \in g[s] PROVE \E a \in Pairs(g) : a[1] = s /\ e \in a[2]
  BY DEF OnlyFrom
<1>1. PICK a : a = <<s, g[s]>>
  OBVIOUS
<1> QED
  BY <1>1, InPairs

LEMMA OnlyMerged ==
    ASSUME NEW g, NEW h, NEW S, NEW T, OnlyFrom(g, S), OnlyFrom(h, T)
    PROVE  OnlyFrom(Merge(g, h), S \cup T) /\ DOMAIN Merge(g, h) = DOMAIN g \cup DOMAIN h
<1>1. PICK m : m = Merge(g, h)
  OBVIOUS
<1>2. DOMAIN m = DOMAIN g \cup DOMAIN h /\ \A s \in DOMAIN m : m[s] = Acc(g, s) \cup Acc(h, s)
  BY <1>1 DEF Merge
<1>3. ASSUME NEW s \in DOMAIN m, NEW e \in m[s] PROVE \E a \in S \cup T : a[1] = s /\ e \in a[2]
  <2>1. e \in Acc(g, s) \/ e \in Acc(h, s)
    BY <1>2
  <2>2. CASE e \in Acc(g, s)
    <3>1. s \in DOMAIN g /\ e \in g[s]
      BY <2>2 DEF Acc
    <3> QED BY <3>1 DEF OnlyFrom
  <2>3. CASE e \in Acc(h, s)
    <3>1. s \in DOMAIN h /\ e \in h[s]
      BY <2>3 DEF Acc
    <3> QED BY <3>1 DEF OnlyFrom
  <2> QED BY <2>1, <2>2, <2>3
<1> QED
  BY <1>1, <1>2, <1>3 DEF OnlyFrom

LEMMA OnlyGrows ==
    ASSUME NEW m, NEW S, NEW T, S \subseteq T, OnlyFrom(m, S)
    PROVE  OnlyFrom(m, T)
  BY DEF OnlyFrom

(* Where the merged accumulators agree, each stack keeps what it may read.  *)
LEMMA AgreeKept ==
    ASSUME NEW m, NEW S, OnlyFrom(m, S), OneAccumulator(S), NEW s \in DOMAIN m, NEW E, <<s, E>> \in S,
           NEW v, ~Violated(E, v)
    PROVE  KeptAt(m, s, v)
<1>1. PICK a : a = <<s, E>>
  OBVIOUS
<1>2. a \in S /\ a[1] = s /\ a[2] = E
  BY <1>1
<1>3. ASSUME NEW e \in m[s] PROVE e \in E
  <2>1. PICK b \in S : b[1] = s /\ e \in b[2]
    BY DEF OnlyFrom
  <2>2. b[2] = E
    BY <1>2, <2>1 DEF OneAccumulator
  <2> QED BY <2>1, <2>2
<1>4. m[s] \subseteq E
  BY <1>3
<1>5. ~Violated(m[s], v)
  BY <1>4, ViolatedMonotone
<1> QED
  BY <1>5 DEF KeptAt

LEMMA ArrivalsOnly ==
    ASSUME NEW q, NEW i
    PROVE  OnlyFrom(Arrivals(AtOffset(q), q, i), Derivations(q, i))
<1>1. PICK g : g = AtOffset(q)
  OBVIOUS
<1>2. PICK m : m = Arrivals(g, q, i)
  OBVIOUS
<1> SUFFICES ASSUME NEW z \in DOMAIN m, NEW e \in m[z] PROVE \E a \in Derivations(q, i) : a[1] = z /\ e \in a[2]
  BY <1>1, <1>2 DEF OnlyFrom
<1>3. PICK s, t : Brings(g, q, i, t, s, z) /\ e \in Carried(g, s, q, t)
  BY <1>2, ArrivalsFrom
<1>4. PICK a : a = <<z, Carried(g, s, q, t)>>
  OBVIOUS
<1>5. a \in Derivations(q, i)
  BY <1>1, <1>3, <1>4, DerivationIntro
<1> QED
  BY <1>3, <1>4, <1>5

(* What ProcessEntry(q) leaves at a later offset: what was there, and what  *)
(* the entry offers.                                                        *)
LEMMA DestAfter ==
    ASSUME TypeOK, NEW q \in LexStates, ProcessEntry(q), NEW i \in (offset + 1)..Len(bytes), NEW p \in LexStates
    PROVE  /\ OnlyFrom(Dest(i, p)', Pairs(Dest(i, p)) \cup Offers(q, i, p))
           /\ DOMAIN Dest(i, p) \subseteq DOMAIN Dest(i, p)'
           /\ p = LexStart => DOMAIN Arrivals(AtOffset(q), q, i) \subseteq DOMAIN Dest(i, p)'
           /\ i = Len(bytes) => DOMAIN Residuals(AtOffset(q), q)[p] \subseteq DOMAIN Dest(i, p)'
<1>1. /\ offset \in Nat /\ Len(bytes) \in Nat /\ i \in 0..Len(bytes) /\ i # offset /\ bytes' = bytes
      /\ IsGss(AtOffset(q))
  BY AtOffsetType DEF TypeOK, ProcessEntry
<1> DEFINE A == Arrivals(AtOffset(q), q, i)
           R == Residuals(AtOffset(q), q)[p]
           D == Derivations(q, i)
<1>2. OnlyFrom(A, D)
  BY ArrivalsOnly
<1>3. OnlyFrom(R, Pairs(R))
  BY OnlyPairs
<1>4. OnlyFrom(Dest(i, p), Pairs(Dest(i, p)))
  BY OnlyPairs
<1>5. Offers(q, i, p) = (IF p = LexStart THEN D ELSE {}) \cup (IF i = Len(bytes) THEN Pairs(R) ELSE {})
  BY DEF Offers
<1> DEFINE P == Pairs(Dest(i, p))
<1>6. CASE i # Len(bytes)
  <2>1. Dest(i, p) = queue[i][p] /\ Dest(i, p)' = queue'[i][p]
    BY <1>1, <1>6 DEF Dest
  <2>2. queue'[i][p] = IF p = LexStart THEN Merge(queue[i][LexStart], A) ELSE queue[i][p]
    BY <1>1, <1>6, ProcessQueue
  <2> HIDE DEF A, R, D, P
  <2>3. CASE p = LexStart
    <3>1. Dest(i, p)' = Merge(Dest(i, p), A)
      BY <2>1, <2>2, <2>3
    <3>2. OnlyFrom(Merge(Dest(i, p), A), P \cup D) /\ DOMAIN Merge(Dest(i, p), A) = DOMAIN Dest(i, p) \cup DOMAIN A
      BY <1>2, <1>4, OnlyMerged DEF P
    <3>3. P \cup D \subseteq P \cup Offers(q, i, p)
      BY <1>5, <2>3
    <3>4. OnlyFrom(Dest(i, p)', P \cup Offers(q, i, p))
      BY <3>1, <3>2, <3>3, OnlyGrows
    <3> QED BY <1>6, <3>1, <3>2, <3>4 DEF A, P
  <2>4. CASE p # LexStart
    <3>1. Dest(i, p)' = Dest(i, p)
      BY <2>1, <2>2, <2>4
    <3>2. OnlyFrom(Dest(i, p)', P \cup Offers(q, i, p))
      BY <1>4, <3>1, OnlyGrows DEF P
    <3> QED BY <1>6, <2>4, <3>1, <3>2 DEF P
  <2> QED BY <2>3, <2>4
<1>7. CASE i = Len(bytes)
  <2>1. Dest(i, p) = pending[p] /\ Dest(i, p)' = pending'[p]
    BY <1>1, <1>7 DEF Dest
  <2>2. pending'[p] = Merge(IF p = LexStart THEN Merge(pending[p], A) ELSE pending[p], R)
    BY <1>7, ProcessPending
  <2> HIDE DEF A, R, D, P
  <2>3. CASE p = LexStart
    <3>1. Dest(i, p)' = Merge(Merge(Dest(i, p), A), R)
      BY <2>1, <2>2, <2>3
    <3>2. PICK m : m = Merge(Dest(i, p), A)
      OBVIOUS
    <3>3. OnlyFrom(m, P \cup D) /\ DOMAIN m = DOMAIN Dest(i, p) \cup DOMAIN A
      BY <1>2, <1>4, <3>2, OnlyMerged DEF P
    <3>4. OnlyFrom(Merge(m, R), (P \cup D) \cup Pairs(R)) /\ DOMAIN Merge(m, R) = DOMAIN m \cup DOMAIN R
      BY <1>3, <3>3, OnlyMerged
    <3>5. (P \cup D) \cup Pairs(R) \subseteq P \cup Offers(q, i, p)
      BY <1>5, <1>7, <2>3
    <3>6. OnlyFrom(Dest(i, p)', P \cup Offers(q, i, p))
      BY <3>1, <3>2, <3>4, <3>5, OnlyGrows
    <3> QED BY <3>1, <3>2, <3>3, <3>4, <3>6 DEF A, R, P
  <2>4. CASE p # LexStart
    <3>1. Dest(i, p)' = Merge(Dest(i, p), R)
      BY <2>1, <2>2, <2>4
    <3>2. OnlyFrom(Merge(Dest(i, p), R), P \cup Pairs(R)) /\ DOMAIN Merge(Dest(i, p), R) = DOMAIN Dest(i, p) \cup DOMAIN R
      BY <1>3, <1>4, OnlyMerged DEF P
    <3>3. P \cup Pairs(R) \subseteq P \cup Offers(q, i, p)
      BY <1>5, <1>7
    <3>4. OnlyFrom(Dest(i, p)', P \cup Offers(q, i, p))
      BY <3>1, <3>2, <3>3, OnlyGrows
    <3> QED BY <2>4, <3>1, <3>2, <3>4 DEF R, P
  <2> QED BY <2>3, <2>4
<1> QED
  BY <1>6, <1>7

----------------------------------------------------------------------------
(* Nothing that is due is lost between the entries of the queue *)

(* Entry q of the current offset has every parse that is due there. *)
Waiting(q) == \A i, y, v, s : Due(offset, q, i, y, v, s) => KeptAt(AtOffset(q), s, v)

(* What was due at entry q of offset o is where its matches and its open    *)
(* lexeme take it, as far as the queue has not gone past.                   *)
Delivered(o, q, i, y, v, s) ==
    /\ \A t \in Terminals, k \in 1..Len(bytes) : \A z \in Shifted({s}, t) :
          Takes(o, q, i, y, v, t, k) /\ (k > offset \/ k = Len(bytes)) => KeptAt(Dest(k, LexStart), z, v)
    /\ \A p \in EndStates(q, Suffix(bytes, o)) : MayAdvanceExact({s}, p) => KeptAt(pending[p], s, v)

Sent(o, q) == \A i, y, v, s : Due(o, q, i, y, v, s) => Delivered(o, q, i, y, v, s)

LEMMA AgreeNow ==
    ASSUME TypeOK, MergesAgree, NEW q \in LexStates, ProcessEntry(q), NEW i \in (offset + 1)..Len(bytes), NEW p \in LexStates
    PROVE  OneAccumulator(Pairs(Dest(i, p)) \cup Offers(q, i, p))
<1>1. busy /\ offset < Len(bytes) /\ queue[offset][q] # EmptyGss
  BY DEF ProcessEntry
<1> QED
  BY <1>1 DEF MergesAgree

LEMMA StaysKept ==
    ASSUME TypeOK, MergesAgree, NEW q \in LexStates, ProcessEntry(q), NEW i \in (offset + 1)..Len(bytes),
           NEW p \in LexStates, NEW s, NEW v, KeptAt(Dest(i, p), s, v)
    PROVE  KeptAt(Dest(i, p)', s, v)
<1>1. PICK g : g = Dest(i, p)
  OBVIOUS
<1>2. PICK m : m = Dest(i, p)'
  OBVIOUS
<1>3. s \in DOMAIN g /\ ~Violated(g[s], v)
  BY <1>1 DEF KeptAt
<1>4. PICK S : S = Pairs(g) \cup Offers(q, i, p)
  OBVIOUS
<1>5. OnlyFrom(m, S) /\ s \in DOMAIN m /\ OneAccumulator(S)
  BY <1>1, <1>2, <1>3, <1>4, DestAfter, AgreeNow
<1>6. <<s, g[s]>> \in S
  BY <1>3, <1>4, InPairs
<1>7. KeptAt(m, s, v)
  BY <1>3, <1>5, <1>6, AgreeKept
<1> QED
  BY <1>2, <1>7

LEMMA ArrivesKept ==
    ASSUME TypeOK, MergesAgree, NEW q \in LexStates, ProcessEntry(q), NEW i \in (offset + 1)..Len(bytes),
           NEW t, NEW s, NEW z, Brings(AtOffset(q), q, i, t, s, z), NEW v, ~Violated(Carried(AtOffset(q), s, q, t), v)
    PROVE  KeptAt(Dest(i, LexStart)', z, v)
<1>1. LexStart \in LexStates
  BY LexerAssumption
<1>2. PICK m : m = Dest(i, LexStart)'
  OBVIOUS
<1>3. PICK S : S = Pairs(Dest(i, LexStart)) \cup Offers(q, i, LexStart)
  OBVIOUS
<1>4. z \in DOMAIN Arrivals(AtOffset(q), q, i)
  BY ArrivalsFrom
<1>5. OnlyFrom(m, S) /\ z \in DOMAIN m /\ OneAccumulator(S)
  BY <1>1, <1>2, <1>3, <1>4, DestAfter, AgreeNow
<1>6. PICK E : E = Carried(AtOffset(q), s, q, t)
  OBVIOUS
<1>7. <<z, E>> \in S
  <2>1. <<z, E>> \in Derivations(q, i)
    BY <1>6, DerivationIntro
  <2> QED BY <1>3, <2>1 DEF Offers
<1>8. KeptAt(m, z, v)
  BY <1>5, <1>6, <1>7, AgreeKept
<1> QED
  BY <1>2, <1>8

LEMMA ResidualKept ==
    ASSUME TypeOK, MergesAgree, NEW q \in LexStates, ProcessEntry(q), NEW s, NEW v, KeptAt(AtOffset(q), s, v),
           NEW p \in EndStates(q, Rest), MayAdvanceExact({s}, p)
    PROVE  KeptAt(pending'[p], s, v)
<1>1. p \in LexStates
  BY RestFacts, EndStatesType
<1>2. PICK i \in (offset + 1)..Len(bytes) : i = Len(bytes)
  <2>1. offset \in Nat /\ Len(bytes) \in Nat /\ offset < Len(bytes)
    BY DEF TypeOK, ProcessEntry
  <2>2. Len(bytes) \in (offset + 1)..Len(bytes)
    BY <2>1
  <2> QED BY <2>2
<1>3. PICK m : m = pending'[p] /\ m = Dest(i, p)'
  <2>1. bytes' = bytes
    BY DEF ProcessEntry
  <2>2. Dest(i, p)' = pending'[p]
    BY <1>2, <2>1 DEF Dest
  <2> QED BY <2>2
<1>4. PICK g : g = AtOffset(q)
  OBVIOUS
<1>5. s \in DOMAIN g /\ ~Violated(g[s], v) /\ IsGss(g)
  BY <1>4, AtOffsetType DEF KeptAt
<1>6. Residuals(g, q)[p] = g
  <2>1. g # EmptyGss
    BY <1>5, EmptyType
  <2>2. MayAdvanceExact(DOMAIN g, p)
    BY <1>5 DEF MayAdvanceExact
  <2>3. EndStateMayAdvance(g, p)
    BY <2>2 DEF EndStateMayAdvance
  <2> QED BY <1>1, <1>5, <2>1, <2>3, ResidualsType
<1>7. PICK S : S = Pairs(Dest(i, p)) \cup Offers(q, i, p)
  OBVIOUS
<1>8. OnlyFrom(m, S) /\ s \in DOMAIN m /\ OneAccumulator(S)
  <2>1. OnlyFrom(m, S) /\ OneAccumulator(S)
    BY <1>1, <1>3, <1>7, DestAfter, AgreeNow
  <2>2. DOMAIN Residuals(g, q)[p] \subseteq DOMAIN m
    BY <1>1, <1>2, <1>3, <1>4, DestAfter
  <2> QED BY <1>5, <1>6, <2>1, <2>2
<1>9. <<s, g[s]>> \in S
  <2>1. Pairs(g) \subseteq Offers(q, i, p)
    BY <1>2, <1>4, <1>6 DEF Offers
  <2> QED BY <1>5, <1>7, <2>1, InPairs
<1>10. KeptAt(m, s, v)
  BY <1>5, <1>8, <1>9, AgreeKept
<1> QED
  BY <1>3, <1>10

(* Where a parse is due depends on the text and the bytes alone. *)
LEMMA DueSame ==
    ASSUME bytes' = bytes, texts' = texts, NEW o, NEW q, NEW i, NEW y, NEW v, NEW s
    PROVE  /\ Due(o, q, i, y, v, s)' <=> Due(o, q, i, y, v, s)
           /\ \A t, k : Takes(o, q, i, y, v, t, k)' <=> Takes(o, q, i, y, v, t, k)
           /\ Text(y, v)' = Text(y, v) /\ Before' = Before
<1>1. Text(y, v)' = Text(y, v) /\ Before' = Before
  BY DEF Text, Before
<1>2. From(o, q, i, y)' <=> From(o, q, i, y)
  BY <1>1 DEF From
<1> QED
  BY <1>1, <1>2 DEF Due, Takes

LEMMA CarriedIsMet ==
    ASSUME TypeOK, offset < Len(bytes), NEW q \in LexStates, NEW i, NEW y, NEW v, NEW s,
           Due(offset, q, i, y, v, s), KeptAt(AtOffset(q), s, v), NEW t \in Terminals, NEW k \in 1..Len(bytes),
           Takes(offset, q, i, y, v, t, k)
    PROVE  k \in (offset + 1)..Len(bytes) /\ Arrives(q, k, t) /\ ~Violated(Carried(AtOffset(q), s, q, t), v)
<1>1. PICK o \in 0..Len(bytes) : o = offset
  BY DEF TypeOK
<1>2. Rest \in Seq(Bytes) /\ Rest = Suffix(bytes, o) /\ Len(Rest) = Len(bytes) - o
  BY <1>1, RestFacts
<1>3. k > o /\ LongestMatch(q, Rest, t, k - o) /\ ~Larger(Text(y, v), i, (Len(y) + k) - i, t)
  BY <1>1, <1>2 DEF Takes
<1>4. k \in (offset + 1)..Len(bytes) /\ Arrives(q, k, t)
  BY <1>1, <1>3 DEF Arrives
<1>5. v \in Seq(Bytes) /\ From(o, q, i, y)
  BY <1>1 DEF Due
<1>6. PICK d \in Nat : /\ i + d = Len(y) + o /\ i \in Nat /\ y \in Before
                       /\ q \in States(LexStart, Text(y, v), i, d)
                       /\ Layout(Text(y, v), i + d, Suffix(bytes, o), v)
  BY <1>5, FromEntry
<1>7. Len(y) \in Nat /\ Len(bytes) \in Nat
  BY <1>5, <1>6, TextFacts
<1>8. PICK n \in 1..Len(Rest) : n = k - o /\ d + n = (Len(y) + k) - i
  <2>1. k - o \in 1..Len(Rest) /\ d + (k - o) = (Len(y) + k) - i
    BY <1>2, <1>3, <1>6, <1>7
  <2> QED BY <2>1
<1>9. ~Violated(Recorded(EndStates(q, Rest), t), v)
  <2>1. PICK Y : Y = Text(y, v)
    OBVIOUS
  <2>2. Layout(Y, i + d, Rest, v) /\ q \in States(LexStart, Y, i, d) /\ ~Larger(Y, i, d + n, t)
    BY <1>2, <1>3, <1>6, <1>8, <2>1
  <2> QED BY <1>6, <2>2, RecordedIsMet
<1>10. PICK E, F : E = AtOffset(q)[s] /\ F = Recorded(EndStates(q, Rest), t)
  OBVIOUS
<1>11. ~Violated(E, v) /\ ~Violated(F, v)
  BY <1>9, <1>10 DEF KeptAt
<1>12. ~Violated(E \cup F, v)
  BY <1>11 DEF Violated
<1>13. Carried(AtOffset(q), s, q, t) \in {E, E \cup F}
  BY <1>10 DEF Carried
<1> QED
  BY <1>4, <1>11, <1>12, <1>13

LEMMA EntrySent ==
    ASSUME TypeOK, MergesAgree, NEW q \in LexStates, ProcessEntry(q), Waiting(q), NEW o, o = offset
    PROVE  Sent(o, q)'
<1>1. bytes' = bytes /\ texts' = texts /\ offset' = offset /\ offset < Len(bytes)
  BY DEF ProcessEntry
<1> SUFFICES ASSUME NEW i, NEW y, NEW v, NEW s, Due(o, q, i, y, v, s)' PROVE Delivered(o, q, i, y, v, s)'
  BY DEF Sent
<1>2. Due(o, q, i, y, v, s) /\ \A t, k : Takes(o, q, i, y, v, t, k)' <=> Takes(o, q, i, y, v, t, k)
  BY <1>1, DueSame
<1>3. KeptAt(AtOffset(q), s, v)
  BY <1>2 DEF Waiting
<1>4. ASSUME NEW t \in Terminals, NEW k \in 1..Len(bytes), NEW z \in Shifted({s}, t), Takes(o, q, i, y, v, t, k)
      PROVE  KeptAt(Dest(k, LexStart)', z, v)
  <2>1. k \in (offset + 1)..Len(bytes) /\ Arrives(q, k, t) /\ ~Violated(Carried(AtOffset(q), s, q, t), v)
    BY <1>1, <1>2, <1>3, <1>4, CarriedIsMet
  <2>2. Brings(AtOffset(q), q, k, t, s, z)
    BY <1>3, <2>1 DEF Brings, KeptAt
  <2> QED BY <2>1, <2>2, ArrivesKept
<1>5. ASSUME NEW p \in EndStates(q, Suffix(bytes, o)), MayAdvanceExact({s}, p)
      PROVE  KeptAt(pending'[p], s, v)
  <2>1. p \in EndStates(q, Rest)
    BY RestFacts
  <2> QED BY <1>3, <1>5, <2>1, ResidualKept
<1>6. ASSUME NEW t \in Terminals, NEW k \in 1..Len(bytes'), NEW z \in Shifted({s}, t), Takes(o, q, i, y, v, t, k)'
      PROVE  KeptAt(Dest(k, LexStart)', z, v)
  BY <1>1, <1>2, <1>4, <1>6
<1>7. ASSUME NEW p \in EndStates(q, Suffix(bytes', o)), MayAdvanceExact({s}, p)
      PROVE  KeptAt(pending'[p], s, v)
  BY <1>1, <1>5, <1>7
<1> QED
  BY <1>6, <1>7 DEF Delivered, KeptAt

(* What the frontier f keeps of the texts X: the parses that end with the   *)
(* text, and those whose open lexeme has the lexer in q, where it may go on *)
MapKeeps(f, X) ==
    \A q \in LexStates : \A r \in At(q, X), v \in Seq(Bytes) : \A s \in Cuts(r[2] \o v)[r[1]] :
        r[1] = Len(r[2]) \/ MayAdvanceExact({s}, q) => KeptAt(f[q], s, v)

(* x ends in a special token, and special has its parses. *)
AfterSpecial(x) ==
    /\ x # <<>> /\ x[Len(x)] \notin Bytes
    /\ \A v \in Seq(Bytes) : \A s \in Cuts(x \o v)[Len(x)] : s \in DOMAIN special /\ special[s] = {}

Progress ==
    \A o \in 0..(Len(bytes) - 1), q \in LexStates :
        /\ o < offset => Sent(o, q)
        /\ o = offset => Waiting(q) \/ Sent(o, q)

TextsAre == \A x \in texts : (bytes # <<>> /\ \E y \in Before : x = y \o bytes) \/ AfterSpecial(x)

KInv == IF busy THEN TextsAre /\ Progress ELSE MapKeeps(frontier, texts)

LEMMA SentStays ==
    ASSUME TypeOK, MergesAgree, NEW r \in LexStates, ProcessEntry(r), NEW o \in 0..Len(bytes), NEW q \in LexStates, Sent(o, q)
    PROVE  Sent(o, q)'
<1>1. /\ bytes' = bytes /\ texts' = texts /\ offset' = offset /\ offset < Len(bytes) /\ bytes \in Seq(Bytes)
      /\ offset \in Nat /\ Len(bytes) \in Nat /\ LexStart \in LexStates
  BY LexerAssumption DEF ProcessEntry, TypeOK
<1> SUFFICES ASSUME NEW i, NEW y, NEW v, NEW s, Due(o, q, i, y, v, s)' PROVE Delivered(o, q, i, y, v, s)'
  BY DEF Sent
<1>2. Due(o, q, i, y, v, s) /\ \A t, k : Takes(o, q, i, y, v, t, k)' <=> Takes(o, q, i, y, v, t, k)
  BY <1>1, DueSame
<1>3. Delivered(o, q, i, y, v, s)
  BY <1>2 DEF Sent
<1>4. ASSUME NEW t \in Terminals, NEW k \in 1..Len(bytes'), NEW z \in Shifted({s}, t), Takes(o, q, i, y, v, t, k)',
             k > offset' \/ k = Len(bytes')
      PROVE  KeptAt(Dest(k, LexStart)', z, v)
  <2>1. KeptAt(Dest(k, LexStart), z, v)
    BY <1>1, <1>2, <1>3, <1>4 DEF Delivered
  <2>2. k \in (offset + 1)..Len(bytes)
    BY <1>1, <1>4
  <2> QED BY <1>1, <2>1, <2>2, StaysKept
<1>5. ASSUME NEW p \in EndStates(q, Suffix(bytes', o)), MayAdvanceExact({s}, p)
      PROVE  KeptAt(pending'[p], s, v)
  <2>1. p \in LexStates
    <3>1. Suffix(bytes, o) \in Seq(Bytes)
      BY <1>1 DEF Suffix
    <3> QED BY <1>1, <3>1, EndStatesType
  <2>2. PICK k \in (offset + 1)..Len(bytes) : k = Len(bytes)
    <3>1. Len(bytes) \in (offset + 1)..Len(bytes)
      BY <1>1
    <3> QED BY <3>1
  <2>3. Dest(k, p) = pending[p] /\ Dest(k, p)' = pending'[p]
    BY <1>1, <2>2 DEF Dest
  <2>4. KeptAt(Dest(k, p), s, v)
    BY <1>1, <1>3, <1>5, <2>3 DEF Delivered
  <2>5. KeptAt(Dest(k, p)', s, v)
    BY <2>1, <2>4, StaysKept
  <2> QED BY <2>3, <2>5
<1> QED
  BY <1>4, <1>5 DEF Delivered, KeptAt

LEMMA WaitingStays ==
    ASSUME TypeOK, NEW r \in LexStates, ProcessEntry(r), NEW q \in LexStates, q # r, Waiting(q)
    PROVE  Waiting(q)'
<1>1. /\ bytes' = bytes /\ texts' = texts /\ offset' = offset /\ offset \in 0..Len(bytes)
  BY DEF ProcessEntry, TypeOK
<1>2. queue'[offset][q] = queue[offset][q]
  BY <1>1, ProcessQueue
<1>3. AtOffset(q)' = AtOffset(q)
  BY <1>1, <1>2 DEF AtOffset
<1>4. PICK o : o = offset
  OBVIOUS
<1> SUFFICES ASSUME NEW i, NEW y, NEW v, NEW s, Due(o, q, i, y, v, s)' PROVE KeptAt(AtOffset(q)', s, v)
  BY <1>1, <1>4 DEF Waiting, KeptAt
<1>5. Due(offset, q, i, y, v, s)
  <2>1. Due(o, q, i, y, v, s)
    BY <1>1, DueSame
  <2> QED BY <1>4, <2>1
<1>6. KeptAt(AtOffset(q), s, v)
  BY <1>5 DEF Waiting
<1> QED
  BY <1>3, <1>6

LEMMA TextsStay ==
    ASSUME TextsAre, bytes' = bytes, texts' = texts, special' = special
    PROVE  TextsAre'
<1>1. Before' = Before /\ \A x : AfterSpecial(x)' <=> AfterSpecial(x)
  BY DEF Before, AfterSpecial
<1> QED
  BY <1>1 DEF TextsAre

LEMMA ProcessKeeps ==
    ASSUME TypeOK, MergesAgree, KInv, NEW r \in LexStates, ProcessEntry(r)
    PROVE  KInv'
<1>1. /\ bytes' = bytes /\ texts' = texts /\ special' = special /\ offset' = offset /\ busy' = busy /\ busy
      /\ offset \in Nat /\ Len(bytes) \in Nat
  BY DEF ProcessEntry, TypeOK
<1>2. TextsAre /\ Progress
  BY <1>1 DEF KInv
<1>3. ASSUME NEW o \in 0..(Len(bytes) - 1), NEW q \in LexStates
      PROVE  (o < offset => Sent(o, q)') /\ (o = offset => Waiting(q)' \/ Sent(o, q)')
  <2>1. o \in 0..Len(bytes)
    BY <1>1
  <2>2. Sent(o, q) => Sent(o, q)'
    BY <2>1, SentStays
  <2>3. o = offset /\ q = r /\ Waiting(q) => Sent(o, q)'
    BY EntrySent
  <2>4. q # r /\ Waiting(q) => Waiting(q)'
    BY WaitingStays
  <2> QED BY <1>2, <2>2, <2>3, <2>4 DEF Progress
<1>4. Progress'
  BY <1>1, <1>3 DEF Progress
<1> QED
  BY <1>1, <1>2, <1>4, TextsStay DEF KInv

LEMMA SentOn ==
    ASSUME TypeOK, NextOffset, NEW o, NEW q, Sent(o, q)
    PROVE  Sent(o, q)'
<1>1. /\ bytes' = bytes /\ texts' = texts /\ offset' = offset + 1 /\ queue' = queue /\ pending' = pending
      /\ offset \in Nat /\ Len(bytes) \in Nat
  BY DEF NextOffset, TypeOK
<1> SUFFICES ASSUME NEW i, NEW y, NEW v, NEW s, Due(o, q, i, y, v, s)' PROVE Delivered(o, q, i, y, v, s)'
  BY DEF Sent
<1>2. Due(o, q, i, y, v, s) /\ \A t, k : Takes(o, q, i, y, v, t, k)' <=> Takes(o, q, i, y, v, t, k)
  BY <1>1, DueSame
<1>3. Delivered(o, q, i, y, v, s)
  BY <1>2 DEF Sent
<1>4. \A k : Dest(k, LexStart)' = Dest(k, LexStart)
  BY <1>1 DEF Dest
<1>5. ASSUME NEW t \in Terminals, NEW k \in 1..Len(bytes'), NEW z \in Shifted({s}, t), Takes(o, q, i, y, v, t, k)',
             k > offset' \/ k = Len(bytes')
      PROVE  KeptAt(Dest(k, LexStart)', z, v)
  <2>1. k > offset \/ k = Len(bytes)
    BY <1>1, <1>5
  <2>2. KeptAt(Dest(k, LexStart), z, v)
    BY <1>1, <1>2, <1>3, <1>5, <2>1 DEF Delivered
  <2> QED BY <1>4, <2>2
<1>6. ASSUME NEW p \in EndStates(q, Suffix(bytes', o)), MayAdvanceExact({s}, p)
      PROVE  KeptAt(pending'[p], s, v)
  BY <1>1, <1>3, <1>6 DEF Delivered
<1> QED
  BY <1>5, <1>6 DEF Delivered, KeptAt

(* The next offset has only the entry of the lexer start, and all that is   *)
(* due there came from the offsets before it.                               *)
LEMMA NextWaiting ==
    ASSUME TypeOK, NextOffset, offset + 1 < Len(bytes), \A o \in 0..offset, q \in LexStates : Sent(o, q), NEW q \in LexStates
    PROVE  Waiting(q)'
<1>1. /\ bytes' = bytes /\ texts' = texts /\ offset' = offset + 1 /\ queue' = queue
      /\ offset \in Nat /\ Len(bytes) \in Nat
  BY DEF NextOffset, TypeOK
<1>2. PICK k \in 1..Len(bytes) : /\ k = offset + 1 /\ k # 0 /\ k # Len(bytes) /\ k > offset
                                 /\ \A o : o \in 0..(k - 1) => o \in 0..offset
  <2>1. /\ offset + 1 \in 1..Len(bytes) /\ offset + 1 # 0 /\ offset + 1 # Len(bytes) /\ offset + 1 > offset
        /\ (offset + 1) - 1 = offset
    BY <1>1
  <2> QED BY <2>1
<1>3. AtOffset(q)' = queue[k][q]
  BY <1>1, <1>2 DEF AtOffset
<1>4. offset' = k
  BY <1>1, <1>2
<1> SUFFICES ASSUME NEW i, NEW y, NEW v, NEW s, Due(k, q, i, y, v, s)' PROVE KeptAt(AtOffset(q)', s, v)
  BY <1>4 DEF Waiting, KeptAt
<1>5. Due(k, q, i, y, v, s)
  BY <1>1, DueSame
<1>6. y \in Before /\ q = LexStart /\ i = Len(y) + k /\ v \in Seq(Bytes) /\ s \in Cuts(Text(y, v))[Len(y) + k]
  BY <1>2, <1>5 DEF Due, From
<1>7. PICK o \in 0..(k - 1), r \in LexStates : \E j, u : \E t \in Terminals :
            Due(o, r, j, y, v, u) /\ Takes(o, r, j, y, v, t, k) /\ s \in Shifted({u}, t)
  BY <1>6, Cover
<1>8. PICK j, u : \E t \in Terminals :
            Due(o, r, j, y, v, u) /\ Takes(o, r, j, y, v, t, k) /\ s \in Shifted({u}, t)
  BY <1>7
<1>9. PICK t \in Terminals : Due(o, r, j, y, v, u) /\ Takes(o, r, j, y, v, t, k) /\ s \in Shifted({u}, t)
  BY <1>8
<1>10. Delivered(o, r, j, y, v, u)
  BY <1>2, <1>9 DEF Sent
<1>11. KeptAt(Dest(k, LexStart), s, v)
  BY <1>2, <1>9, <1>10 DEF Delivered
<1>12. Dest(k, LexStart) = queue[k][q]
  BY <1>2, <1>6 DEF Dest
<1> QED
  BY <1>3, <1>11, <1>12

(* Where the queue has no entry left, nothing is due. *)
LEMMA NothingWaits ==
    ASSUME queue[offset] = NoStates, NEW q \in LexStates, Waiting(q)
    PROVE  \A i, y, v, s : ~Due(offset, q, i, y, v, s)
<1>1. AtOffset(q) \in {EmptyGss, Prune(EmptyGss, bytes)}
  <2>1. queue[offset][q] = EmptyGss
    BY NoStatesType
  <2> QED BY <2>1 DEF AtOffset
<1>2. DOMAIN AtOffset(q) = {}
  <2>1. DOMAIN Prune(EmptyGss, bytes) = {}
    BY EmptyType DEF Prune
  <2> QED BY <1>1, <2>1, EmptyType
<1> QED
  BY <1>2 DEF Waiting, KeptAt

LEMMA AllSent ==
    ASSUME TypeOK, KInv, NextOffset
    PROVE  \A o \in 0..offset, q \in LexStates : Sent(o, q)
<1>1. busy /\ offset \in Nat /\ Len(bytes) \in Nat /\ offset < Len(bytes) /\ queue[offset] = NoStates
  BY DEF NextOffset, TypeOK
<1>2. Progress
  BY <1>1 DEF KInv
<1>3. ASSUME NEW q \in LexStates, Waiting(q), NEW o, o = offset PROVE Sent(o, q)
  BY <1>1, <1>3, NothingWaits DEF Sent
<1> SUFFICES ASSUME NEW o \in 0..offset, NEW q \in LexStates PROVE Sent(o, q)
  OBVIOUS
<1>4. o \in 0..(Len(bytes) - 1) /\ (o < offset \/ o = offset)
  BY <1>1
<1> QED
  BY <1>2, <1>3, <1>4 DEF Progress

LEMMA NextOffsetKeeps ==
    ASSUME TypeOK, KInv, NextOffset
    PROVE  KInv'
<1>1. /\ bytes' = bytes /\ texts' = texts /\ special' = special /\ offset' = offset + 1 /\ busy' = busy /\ busy
      /\ offset \in Nat /\ Len(bytes) \in Nat
  BY DEF NextOffset, TypeOK
<1>2. TextsAre
  BY <1>1 DEF KInv
<1>3. ASSUME NEW o \in 0..(Len(bytes) - 1), NEW q \in LexStates
      PROVE  (o < offset' => Sent(o, q)') /\ (o = offset' => Waiting(q)' \/ Sent(o, q)')
  <2>1. ASSUME o < offset' PROVE Sent(o, q)'
    <3>1. o \in 0..offset
      BY <1>1, <2>1
    <3> QED BY <3>1, AllSent, SentOn
  <2>2. ASSUME o = offset' PROVE Waiting(q)'
    <3>1. offset + 1 < Len(bytes)
      BY <1>1, <2>2
    <3> QED BY <3>1, AllSent, NextWaiting
  <2> QED BY <2>1, <2>2
<1>4. Progress'
  BY <1>1, <1>3 DEF Progress
<1> QED
  BY <1>1, <1>2, <1>4, TextsStay DEF KInv

LEMMA AtFacts ==
    ASSUME NEW q, NEW X \in SUBSET Seq(Symbols), NEW r \in At(q, X)
    PROVE  \E x \in X : \E i \in Nat : x = r[2] /\ i = r[1] /\ i <= Len(x) /\ q \in States(LexStart, x, i, Len(x) - i)
  BY DEF At, Places

LEMMA FinishKeeps ==
    ASSUME TypeOK, MergesAgree, KInv, FinishCommit
    PROVE  KInv'
<1>1. /\ texts' = texts /\ busy /\ busy' = FALSE /\ offset = Len(bytes) /\ Len(bytes) \in Nat /\ texts \in SUBSET Seq(Symbols)
      /\ bytes \in Seq(Bytes) /\ LexStart \in LexStates
  BY LexerAssumption DEF FinishCommit, TypeOK
<1>2. TextsAre /\ Progress
  BY <1>1 DEF KInv
<1>3. OneAccumulator(Pairs(pending[LexStart]) \cup Pairs(special))
  BY <1>1 DEF MergesAgree
<1>4. \A q \in LexStates : frontier'[q] = IF q = LexStart THEN Merge(pending[q], special) ELSE pending[q]
  BY FinishType
<1>5. PICK m : m = Merge(pending[LexStart], special)
  OBVIOUS
<1>6. PICK S : S = Pairs(pending[LexStart]) \cup Pairs(special)
  OBVIOUS
<1>7. OnlyFrom(m, S) /\ DOMAIN m = DOMAIN pending[LexStart] \cup DOMAIN special /\ OneAccumulator(S)
  BY <1>3, <1>5, <1>6, OnlyPairs, OnlyMerged
<1>8. ASSUME NEW q \in LexStates, NEW s, NEW v, KeptAt(pending[q], s, v) PROVE KeptAt(frontier'[q], s, v)
  <2>1. CASE q # LexStart
    BY <1>4, <1>8, <2>1
  <2>2. CASE q = LexStart
    <3>1. PICK g : g = pending[LexStart]
      OBVIOUS
    <3>2. s \in DOMAIN g /\ ~Violated(g[s], v)
      BY <1>8, <2>2, <3>1 DEF KeptAt
    <3>3. <<s, g[s]>> \in S /\ s \in DOMAIN m
      BY <1>6, <1>7, <3>1, <3>2, InPairs
    <3>4. KeptAt(m, s, v)
      BY <1>7, <3>2, <3>3, AgreeKept
    <3> QED BY <1>4, <1>5, <2>2, <3>4
  <2> QED BY <2>1, <2>2
<1>9. ASSUME NEW s \in DOMAIN special, special[s] = {}, NEW v PROVE KeptAt(frontier'[LexStart], s, v)
  <2>1. <<s, special[s]>> \in S /\ s \in DOMAIN m
    BY <1>6, <1>7, InPairs
  <2>2. ~Violated(special[s], v)
    BY <1>9 DEF Violated
  <2>3. KeptAt(m, s, v)
    BY <1>7, <2>1, <2>2, AgreeKept
  <2> QED BY <1>1, <1>4, <1>5, <2>3
<1>10. ASSUME NEW o \in 0..(Len(bytes) - 1), NEW q \in LexStates PROVE Sent(o, q)
  <2>1. o < offset
    BY <1>1
  <2> QED BY <1>2, <2>1 DEF Progress
<1>11. MapKeeps(frontier', texts)
  <2> SUFFICES ASSUME NEW q \in LexStates, NEW r \in At(q, texts), NEW v \in Seq(Bytes), NEW s \in Cuts(r[2] \o v)[r[1]],
                      r[1] = Len(r[2]) \/ MayAdvanceExact({s}, q)
               PROVE  KeptAt(frontier'[q], s, v)
    BY DEF MapKeeps
  <2>1. PICK x \in texts, i \in Nat : /\ x = r[2] /\ i = r[1] /\ i <= Len(x)
                                      /\ q \in States(LexStart, x, i, Len(x) - i)
    BY <1>1, AtFacts
  <2>2. x \in Seq(Symbols) /\ Len(x) \in Nat /\ s \in Cuts(x \o v)[i] /\ (i = Len(x) \/ MayAdvanceExact({s}, q))
    BY <1>1, <2>1
  <2>3. i = Len(x) => q = LexStart
    <3> SUFFICES ASSUME i = Len(x) PROVE q = LexStart
      OBVIOUS
    <3>1. i \in 0..Len(x) /\ Len(x) - i = 0
      BY <2>2
    <3>2. States(LexStart, x, i, 0) = {LexStart}
      BY <1>1, <2>2, <3>1, StatesUnfold
    <3> QED BY <2>1, <3>1, <3>2
  <2>4. CASE bytes # <<>> /\ \E y \in Before : x = y \o bytes
    <3>1. PICK y \in Before : x = y \o bytes
      BY <2>4
    <3>2. Len(y) \in Nat /\ Len(x) = Len(y) + Len(bytes) /\ Len(bytes) > 0
      <4>1. y \in Seq(Symbols) /\ Len(y \o bytes) = Len(y) + Len(bytes)
        BY BeforeFacts
      <4>2. Len(y) \in Nat
        BY <4>1
      <4> QED BY <1>1, <2>4, <3>1, <4>1, <4>2
    <3>3. Text(y, v) = x \o v
      BY <3>1 DEF Text
    <3>4. CASE i = Len(x)
      <4>1. PICK k \in 1..Len(bytes) : k = Len(bytes)
        BY <1>1, <3>2
      <4>2. s \in Cuts(Text(y, v))[Len(y) + k]
        BY <2>2, <3>2, <3>3, <3>4, <4>1
      <4>3. PICK o \in 0..(k - 1), p \in LexStates : \E j, u : \E t \in Terminals :
               Due(o, p, j, y, v, u) /\ Takes(o, p, j, y, v, t, k) /\ s \in Shifted({u}, t)
        BY <4>2, Cover
      <4>4. PICK j, u : \E t \in Terminals :
               Due(o, p, j, y, v, u) /\ Takes(o, p, j, y, v, t, k) /\ s \in Shifted({u}, t)
        BY <4>3
      <4>5. PICK t \in Terminals : Due(o, p, j, y, v, u) /\ Takes(o, p, j, y, v, t, k) /\ s \in Shifted({u}, t)
        BY <4>4
      <4>6. Delivered(o, p, j, y, v, u)
        BY <1>10, <4>1, <4>5 DEF Sent
      <4>7. KeptAt(Dest(k, LexStart), s, v)
        BY <4>1, <4>5, <4>6 DEF Delivered
      <4>8. Dest(k, LexStart) = pending[q]
        BY <2>3, <3>4, <4>1 DEF Dest
      <4> QED BY <1>8, <4>7, <4>8
    <3>5. CASE i # Len(x)
      <4>1. i < Len(y) + Len(bytes) /\ q \in States(LexStart, y \o bytes, i, (Len(y) + Len(bytes)) - i)
        <5>1. i < Len(x)
          BY <2>1, <2>2, <3>5
        <5> QED BY <2>1, <3>1, <3>2, <5>1
      <4>2. s \in Cuts(Text(y, v))[i] /\ MayAdvanceExact({s}, q)
        BY <2>2, <3>3, <3>5
      <4>3. PICK o \in 0..(Len(bytes) - 1), p \in LexStates :
               Due(o, p, i, y, v, s) /\ q \in EndStates(p, Suffix(bytes, o))
        BY <2>4, <4>1, <4>2, CoverOpen
      <4>4. Delivered(o, p, i, y, v, s)
        BY <1>10, <4>3 DEF Sent
      <4>5. KeptAt(pending[q], s, v)
        BY <4>2, <4>3, <4>4 DEF Delivered
      <4> QED BY <1>8, <4>5
    <3> QED BY <3>4, <3>5
  <2>5. CASE AfterSpecial(x)
    <3>1. x # <<>> /\ x[Len(x)] \notin Bytes
          /\ \A z \in Cuts(x \o v)[Len(x)] : z \in DOMAIN special /\ special[z] = {}
      BY <2>5 DEF AfterSpecial
    <3>2. CASE i = Len(x)
      BY <1>9, <2>2, <2>3, <3>1, <3>2
    <3>3. CASE i # Len(x)
      <4>1. PICK n \in Nat : n = Len(x) - i /\ i + n <= Len(x) /\ n \in 1..n /\ i + n = Len(x)
        <5>1. Len(x) - i \in Nat /\ i + (Len(x) - i) <= Len(x) /\ Len(x) - i \in 1..(Len(x) - i) /\ i + (Len(x) - i) = Len(x)
          BY <2>1, <2>2, <3>3
        <5> QED BY <5>1
      <4>2. States(LexStart, x, i, n) = {}
        BY <1>1, <2>2, <3>1, <4>1, NoByteNoState
      <4> QED BY <2>1, <4>1, <4>2
    <3> QED BY <3>2, <3>3
  <2> QED BY <1>2, <2>4, <2>5 DEF TextsAre
<1> QED
  BY <1>1, <1>11 DEF KInv

LEMMA StartKeeps == MapKeeps(StartFrontier, {<<>>})
<1> SUFFICES ASSUME NEW q \in LexStates, NEW r \in At(q, {<<>>}), NEW v \in Seq(Bytes), NEW s \in Cuts(r[2] \o v)[r[1]]
             PROVE  KeptAt(StartFrontier[q], s, v)
  BY DEF MapKeeps
<1>1. PICK x \in Seq(Symbols) : x = <<>> /\ Len(x) = 0
  <2>1. <<>> \in Seq(Symbols) /\ Len(<<>>) = 0
    OBVIOUS
  <2> QED BY <2>1
<1>2. r[2] = x /\ r[1] = 0 /\ q \in States(LexStart, x, 0, 0)
  <2>1. r[2] = x /\ r[1] \in Nat /\ r[1] <= Len(x) /\ q \in States(LexStart, r[2], r[1], Len(r[2]) - r[1])
    BY <1>1 DEF At, Places
  <2>2. r[1] = 0 /\ Len(x) - r[1] = 0
    BY <1>1, <2>1
  <2> QED BY <2>1, <2>2
<1>3. q = LexStart
  <2>1. 0 \in 0..Len(x) /\ LexStart \in LexStates
    BY <1>1, LexerAssumption
  <2>2. States(LexStart, x, 0, 0) = {LexStart}
    BY <2>1, StatesUnfold
  <2> QED BY <1>2, <2>2
<1>4. s = StartStack
  <2>1. x \o v \in Seq(Symbols)
    BY ConcatFacts
  <2>2. Cuts(x \o v)[0] = {StartStack}
    BY <2>1, CutsUnfold
  <2> QED BY <1>2, <2>2
<1>5. ~Violated({}, v)
  BY DEF Violated
<1> QED
  BY <1>3, <1>4, <1>5, StartFacts DEF KeptAt

LEMMA PlaceAt ==
    ASSUME NEW X \in SUBSET Seq(Symbols), NEW x \in X, NEW i \in Nat, i <= Len(x), NEW q,
           q \in States(LexStart, x, i, Len(x) - i)
    PROVE  \E r \in At(q, X) : r[1] = i /\ r[2] = x
<1>1. PICK r : r = <<i, x>>
  OBVIOUS
<1>2. r \in Places /\ r[1] = i /\ r[2] = x
  BY <1>1 DEF Places
<1> QED
  BY <1>2 DEF At

LEMMA MapKeepsAt ==
    ASSUME NEW f, NEW X \in SUBSET Seq(Symbols), MapKeeps(f, X), NEW x \in X, NEW i \in Nat, i <= Len(x),
           NEW q \in LexStates, q \in States(LexStart, x, i, Len(x) - i), NEW v \in Seq(Bytes),
           NEW s \in Cuts(x \o v)[i], i = Len(x) \/ MayAdvanceExact({s}, q)
    PROVE  KeptAt(f[q], s, v)
<1>1. PICK r \in At(q, X) : r[1] = i /\ r[2] = x
  BY PlaceAt
<1> QED
  BY <1>1 DEF MapKeeps

(* The parses that end with the text are at the lexer start. *)
LEMMA EndsKept ==
    ASSUME NEW f, NEW X \in SUBSET Seq(Symbols), MapKeeps(f, X), NEW x \in X, NEW s \in Cuts(x)[Len(x)]
    PROVE  s \in DOMAIN f[LexStart]
<1>1. x \in Seq(Symbols) /\ Len(x) \in Nat /\ Len(x) \in 0..Len(x) /\ Len(x) - Len(x) = 0 /\ Len(x) <= Len(x)
      /\ LexStart \in LexStates
  BY LexerAssumption
<1>2. States(LexStart, x, Len(x), 0) = {LexStart}
  BY <1>1, StatesUnfold
<1>3. PICK v \in Seq(Bytes) : x \o v = x
  BY <1>1, ConcatEmpty
<1>4. PICK i \in Nat : i = Len(x) /\ i <= Len(x) /\ LexStart \in States(LexStart, x, i, Len(x) - i) /\ s \in Cuts(x \o v)[i]
  BY <1>1, <1>2, <1>3
<1>5. KeptAt(f[LexStart], s, v)
  BY <1>1, <1>4, MapKeepsAt
<1> QED
  BY <1>5 DEF KeptAt

(* The entries of a new commit are the frontier, and keep what it keeps. *)
LEMMA LoadWaiting ==
    ASSUME TypeOK, MapKeeps(frontier, texts), NEW w \in Seq(Bytes), LoadQueue(w), w # <<>>,
           NEW T \in SUBSET (Terminals \ Ignored),
           \A x \in texts' : (\E y \in texts : x = y \o w) \/ \E y \in texts, t \in T : x = Append(y, t)
    PROVE  \A q \in LexStates : Waiting(q)'
<1> SUFFICES ASSUME NEW q \in LexStates PROVE Waiting(q)'
  OBVIOUS
<1>1. bytes' = w /\ offset' = 0 /\ queue'[0] = frontier /\ texts \in SUBSET Seq(Symbols) /\ Len(w) \in Nat
  BY LoadFacts DEF TypeOK
<1>2. AtOffset(q)' = Prune(frontier[q], w)
  BY <1>1 DEF AtOffset
<1> SUFFICES ASSUME NEW i, NEW y, NEW v, NEW s, Due(0, q, i, y, v, s)' PROVE KeptAt(AtOffset(q)', s, v)
  BY <1>1 DEF Waiting, KeptAt
<1>3. /\ y \in Before' /\ i \in Nat /\ i <= Len(y) /\ q \in States(LexStart, y, i, Len(y) - i)
      /\ v \in Seq(Bytes) /\ s \in Cuts((y \o w) \o v)[i] /\ (i = Len(y) + 0 \/ MayAdvanceExact({s}, q))
  BY <1>1 DEF Due, From, Text
<1>4. y \in Seq(Symbols) /\ y \o w \in texts'
  BY <1>1, <1>3 DEF Before
<1>5. y \in texts
  <2>1. CASE \E u \in texts : y \o w = u \o w
    BY <1>1, <1>4, <2>1, OneBeginning
  <2>2. CASE \E u \in texts, t \in T : y \o w = Append(u, t)
    <3>1. PICK u \in texts, t \in T : y \o w = Append(u, t)
      BY <2>2
    <3>2. u \in Seq(Symbols) /\ t \in Terminals
      BY <1>1
    <3>3. y \o w # Append(u, t)
      <4>1. y \in Seq(Symbols) /\ u \in Seq(Symbols) /\ t \in Terminals /\ w \in Seq(Bytes) /\ w # <<>>
        BY <1>4, <3>2
      <4> QED BY ONLY <4>1, NotSpecial
    <3> QED BY <3>1, <3>3
  <2> QED BY <1>4, <2>1, <2>2
<1>6. w \o v \in Seq(Bytes) /\ (y \o w) \o v = y \o (w \o v)
  BY <1>3, <1>4, ConcatAssoc
<1>7. PICK u \in Seq(Bytes) : u = w \o v /\ s \in Cuts(y \o u)[i]
  BY <1>3, <1>6
<1>8. i = Len(y) \/ MayAdvanceExact({s}, q)
  BY <1>3, <1>4
<1>9. KeptAt(frontier[q], s, u)
  BY <1>1, <1>3, <1>5, <1>7, <1>8, MapKeepsAt
<1>10. PICK g : g = frontier[q]
  OBVIOUS
<1>11. s \in DOMAIN g /\ ~Violated(g[s], w \o v) /\ g[s] \in Exclusions
  <2>1. IsGss(g)
    BY <1>10, StateMapElim DEF TypeOK
  <2> QED BY <1>7, <1>9, <1>10, <2>1, GssElim DEF KeptAt
<1>12. ~Violated(g[s], w) /\ ~Violated(MovedExclusions(g[s], w), v)
  BY <1>3, <1>11, ViolatedLater
<1>13. s \in DOMAIN Prune(g, w) /\ Prune(g, w)[s] = MovedExclusions(g[s], w)
  BY <1>11, <1>12 DEF Prune
<1> QED BY <1>2, <1>10, <1>12, <1>13 DEF KeptAt

LEMMA LoadKeeps ==
    ASSUME TypeOK, MapKeeps(frontier, texts), NEW w \in Seq(Bytes), LoadQueue(w), texts' \subseteq Seq(Symbols),
           NEW T \in SUBSET (Terminals \ Ignored),
           \A x \in texts' : (w # <<>> /\ \E y \in texts : x = y \o w) \/ \E y \in texts, t \in T : x = Append(y, t),
           \A s \in DOMAIN frontier[LexStart], t \in T : \A z \in Advance[s][t] : z \in DOMAIN special' /\ special'[z] = {}
    PROVE  KInv'
<1>1. /\ bytes' = w /\ busy' = TRUE /\ offset' = 0 /\ queue'[0] = IF w = <<>> THEN NoStates ELSE frontier
      /\ texts \in SUBSET Seq(Symbols) /\ Len(w) \in Nat
  BY LoadFacts DEF TypeOK
<1>2. ASSUME NEW x \in texts'
      PROVE (bytes' # <<>> /\ \E y \in Before' : x = y \o bytes') \/ AfterSpecial(x)'
  <2>1. CASE w # <<>> /\ \E y \in texts : x = y \o w
    <3>1. PICK y \in texts : x = y \o w
      BY <2>1
    <3>2. y \in Before'
      BY <1>1, <3>1 DEF Before
    <3> QED BY <1>1, <2>1, <3>1, <3>2
  <2>2. CASE \E y \in texts, t \in T : x = Append(y, t)
    <3>1. PICK y \in texts, t \in T : x = Append(y, t)
      BY <2>2
    <3>2. y \in Seq(Symbols) /\ Len(y) \in Nat /\ t \in Terminals /\ t \notin Ignored /\ t \notin Bytes /\ t \in Symbols
      BY <1>1, LexerAssumption DEF Symbols
    <3>3. x \in Seq(Symbols) /\ Len(x) = Len(y) + 1 /\ x[Len(x)] = t /\ x # <<>>
      <4>0. Append(y, t) \in Seq(Symbols) /\ Len(Append(y, t)) = Len(y) + 1 /\ Append(y, t)[Len(y) + 1] = t
        BY <3>2
      <4>1. PICK a \in Seq(Symbols) : a = Append(y, t) /\ Len(a) = Len(y) + 1 /\ a[Len(y) + 1] = t
        BY <4>0
      <4>2. a # <<>>
        BY <3>2, <4>1
      <4> QED BY <3>1, <4>1, <4>2
    <3>4. ASSUME NEW v \in Seq(Bytes), NEW z \in Cuts(x \o v)[Len(x)] PROVE z \in DOMAIN special' /\ special'[z] = {}
      <4>1. z \in Cuts(Append(y, t) \o v)[Len(y) + 1]
        BY <3>1, <3>3, <3>4
      <4>2. PICK s \in Cuts(y)[Len(y)] : z \in Advance[s][t]
        BY <3>2, <4>1, OnlySpecialCut
      <4>3. s \in DOMAIN frontier[LexStart]
        BY <1>1, EndsKept
      <4> QED BY <4>2, <4>3
    <3>5. AfterSpecial(x)'
      BY <3>2, <3>3, <3>4 DEF AfterSpecial
    <3> QED BY <3>5
  <2> QED BY <2>1, <2>2
<1>3. TextsAre'
  BY <1>2 DEF TextsAre
<1>4. w # <<>> => \A q \in LexStates : Waiting(q)'
  BY LoadWaiting
<1>5. Progress'
  <2>1. ASSUME NEW o \in 0..(Len(bytes') - 1), NEW q \in LexStates
        PROVE  (o < offset' => Sent(o, q)') /\ (o = offset' => Waiting(q)' \/ Sent(o, q)')
    <3>1. ~(o < offset') /\ w # <<>>
      BY <1>1
    <3> QED BY <1>4, <3>1
  <2> QED BY <2>1 DEF Progress
<1> QED
  BY <1>1, <1>3, <1>5 DEF KInv

(* A commit of the bytes w of k adds them to every text, and a special      *)
(* token of T to every text, with its parses in special.                    *)
Loads(k, w, T) ==
    /\ w = TokenBytes[k] /\ LoadQueue(w) /\ ~busy
    /\ \A x \in texts' : (w # <<>> /\ \E y \in texts : x = y \o w) \/ \E y \in texts, t \in T : x = Append(y, t)
    /\ \A s \in DOMAIN frontier[LexStart], t \in T : \A z \in Advance[s][t] : z \in DOMAIN special' /\ special'[z] = {}

LEMMA TokenLoads ==
    ASSUME NEW k \in Tokens, CommitToken(k)
    PROVE  \E w \in Seq(Bytes), T \in SUBSET (Terminals \ Ignored) : Loads(k, w, T)
<1>1. PICK w \in Seq(Bytes) : w = TokenBytes[k]
  BY TokenAssumption
<1>2. LoadQueue(w) /\ special' = SpecialPaths(k) /\ ~busy
  BY <1>1 DEF CommitToken
<1>3. PICK T \in SUBSET (Terminals \ Ignored) : T = TokenSpecials[k]
  BY TokenAssumption
<1> DEFINE A == {x \o w : x \in texts}
           B == {Append(x, t) : x \in texts, t \in T}
<1>4. texts' = (IF w = <<>> THEN {} ELSE A) \cup B
  BY <1>1, <1>3 DEF CommitToken
<1>5. \A x \in texts' : (w # <<>> /\ \E y \in texts : x = y \o w) \/ \E y \in texts, t \in T : x = Append(y, t)
  <2>1. (\A x \in A : \E y \in texts : x = y \o w) /\ \A x \in B : \E y \in texts, t \in T : x = Append(y, t)
    OBVIOUS
  <2> HIDE DEF A, B
  <2>2. \A x \in texts' : (w # <<>> /\ x \in A) \/ x \in B
    BY <1>4
  <2> QED BY <2>1, <2>2
<1>6. \A s \in DOMAIN frontier[LexStart], t \in T : \A z \in Advance[s][t] : z \in DOMAIN special' /\ special'[z] = {}
  BY <1>2, <1>3, InSpecialPaths
<1>7. Loads(k, w, T)
  BY <1>1, <1>2, <1>5, <1>6 DEF Loads
<1> QED
  BY <1>7

LEMMA BytesLoad ==
    ASSUME NEW k \in Tokens, TokenBytes[k] # <<>>, CommitBytes(TokenBytes[k])
    PROVE  \E w \in Seq(Bytes), T \in SUBSET (Terminals \ Ignored) : Loads(k, w, T)
<1>1. PICK w \in Seq(Bytes) : w = TokenBytes[k] /\ w # <<>>
  BY TokenAssumption
<1>2. LoadQueue(w) /\ ~busy /\ texts' = {x \o w : x \in texts}
  BY <1>1 DEF CommitBytes
<1>3. PICK T \in SUBSET (Terminals \ Ignored) : T = {}
  OBVIOUS
<1>4. \A x \in texts' : (w # <<>> /\ \E y \in texts : x = y \o w) \/ \E y \in texts, t \in T : x = Append(y, t)
  BY <1>1, <1>2
<1>5. \A s \in DOMAIN frontier[LexStart], t \in T : \A z \in Advance[s][t] : z \in DOMAIN special' /\ special'[z] = {}
  BY <1>3
<1>6. Loads(k, w, T)
  BY <1>1, <1>2, <1>4, <1>5 DEF Loads
<1> QED
  BY <1>6

LEMMA NextKeeps ==
    ASSUME TypeOK, TypeOK', MergesAgree, KInv, [Next]_vars
    PROVE  KInv'
<1>0. texts' \subseteq Seq(Symbols)
  BY DEF TypeOK
<1>1. CASE Start
  BY <1>1, StartKeeps DEF Start, KInv
<1>2. ASSUME NEW k \in Tokens, CommitToken(k) PROVE KInv'
  <2>1. PICK w \in Seq(Bytes), T \in SUBSET (Terminals \ Ignored) : Loads(k, w, T)
    BY <1>2, TokenLoads
  <2>2. MapKeeps(frontier, texts)
    BY <2>1 DEF Loads, KInv
  <2> QED BY <1>0, <2>1, <2>2, LoadKeeps DEF Loads
<1>3. ASSUME NEW k \in Tokens, TokenBytes[k] # <<>>, CommitBytes(TokenBytes[k]) PROVE KInv'
  <2>1. PICK w \in Seq(Bytes), T \in SUBSET (Terminals \ Ignored) : Loads(k, w, T)
    BY <1>3, BytesLoad
  <2>2. MapKeeps(frontier, texts)
    BY <2>1 DEF Loads, KInv
  <2> QED BY <1>0, <2>1, <2>2, LoadKeeps DEF Loads
<1>4. ASSUME NEW q \in LexStates, ProcessEntry(q) PROVE KInv'
  BY <1>4, ProcessKeeps
<1>5. CASE NextOffset
  BY <1>5, NextOffsetKeeps
<1>6. CASE FinishCommit
  BY <1>6, FinishKeeps
<1>7. CASE UNCHANGED vars
  <2>1. UNCHANGED <<frontier, queue, pending, special, bytes, offset, busy, texts>>
    BY <1>7 DEF vars
  <2>2. TextsAre => TextsAre'
    BY <2>1, TextsStay
  <2>3. ASSUME Progress PROVE Progress'
    <3>1. \A q : AtOffset(q)' = AtOffset(q) /\ \A k : Dest(k, q)' = Dest(k, q)
      BY <2>1 DEF AtOffset, Dest
    <3>2. \A o, q, i, y, v, s : Due(o, q, i, y, v, s)' <=> Due(o, q, i, y, v, s)
      BY <2>1, DueSame
    <3>3. \A o, q, i, y, v, t, k : Takes(o, q, i, y, v, t, k)' <=> Takes(o, q, i, y, v, t, k)
      BY <2>1, DueSame
    <3>4. \A q : Waiting(q) => Waiting(q)'
      BY <2>1, <3>1, <3>2 DEF Waiting, KeptAt
    <3>5. \A o, q, i, y, v, s : Delivered(o, q, i, y, v, s) => Delivered(o, q, i, y, v, s)'
      <4> SUFFICES ASSUME NEW o, NEW q, NEW i, NEW y, NEW v, NEW s, Delivered(o, q, i, y, v, s)
                   PROVE  Delivered(o, q, i, y, v, s)'
        OBVIOUS
      <4>1. \A t, k : Takes(o, q, i, y, v, t, k)' <=> Takes(o, q, i, y, v, t, k)
        BY <3>3
      <4>2. \A k : Dest(k, LexStart)' = Dest(k, LexStart)
        BY <3>1
      <4> HIDE <3>1, <3>3
      <4> QED BY <2>1, <4>1, <4>2 DEF Delivered, KeptAt
    <3>6. \A o, q : Sent(o, q) => Sent(o, q)'
      BY <3>2, <3>5 DEF Sent
    <3> QED BY <2>1, <2>3, <3>4, <3>6 DEF Progress
  <2> QED BY <2>1, <2>2, <2>3 DEF KInv
<1> QED
  BY <1>1, <1>2, <1>3, <1>4, <1>5, <1>6, <1>7 DEF Next

LEMMA KeptNow ==
    ASSUME TypeOK, KInv
    PROVE  FrontierKeepsParses
<1> SUFFICES ASSUME ~busy
             PROVE  /\ \A x \in texts : Cuts(x)[Len(x)] \subseteq DOMAIN frontier[LexStart]
                    /\ \A q \in LexStates \ {LexStart}, x \in texts : Useful(q, InProgress(x, q)) \subseteq DOMAIN frontier[q]
  BY DEF FrontierKeepsParses, Useful
<1>1. MapKeeps(frontier, texts) /\ texts \in SUBSET Seq(Symbols)
  BY DEF KInv, TypeOK
<1>2. \A x \in texts : Cuts(x)[Len(x)] \subseteq DOMAIN frontier[LexStart]
  BY <1>1, EndsKept
<1>3. ASSUME NEW q \in LexStates \ {LexStart}, NEW x \in texts, NEW s \in Useful(q, InProgress(x, q))
      PROVE  s \in DOMAIN frontier[q]
  <2>1. x \in Seq(Symbols) /\ Len(x) \in Nat
    BY <1>1
  <2>2. PICK i \in 0..(Len(x) - 1) : q \in EndStates(LexStart, Suffix(x, i)) /\ s \in Cuts(x)[i] /\ MayAdvanceExact({s}, q)
    BY DEF Useful, InProgress
  <2>3. i \in Nat /\ i <= Len(x) /\ i \in 0..Len(x)
    BY <2>1
  <2>4. q \in States(LexStart, x, i, Len(x) - i)
    BY <2>1, <2>2, <2>3, InEndStates
  <2>5. PICK v \in Seq(Bytes) : x \o v = x
    BY <2>1, ConcatEmpty
  <2>6. s \in Cuts(x \o v)[i]
    BY <2>2, <2>5
  <2>7. KeptAt(frontier[q], s, v)
    BY <1>1, <2>2, <2>3, <2>4, <2>6, MapKeepsAt
  <2> QED BY <2>7 DEF KeptAt
<1> QED
  BY <1>2, <1>3

(* However the text was divided into commits and in whatever order the      *)
(* queue was drained, the frontier has every parse that can still go on, as *)
(* long as no merge of the session joined a stack with different exclusions *)
(* (MergesAgree).                                                           *)
THEOREM CommitKeepsParses ==
    Spec => ([]MergesAgree => []FrontierKeepsParses)
<1>1. Init => TypeOK /\ KInv
  BY InitType, StartKeeps DEF Init, KInv
<1>2. TypeOK /\ KInv /\ MergesAgree /\ [Next]_vars => TypeOK' /\ KInv'
  BY NextType, NextKeeps
<1>3. TypeOK /\ KInv => FrontierKeepsParses
  BY KeptNow
<1> QED
  BY <1>1, <1>2, <1>3, PTL DEF Spec

(* A text that is a complete match is recognised as one, under the same     *)
(* condition.                                                               *)
THEOREM CommitRecognisesComplete ==
    Spec => ([]MergesAgree => []CompleteTextIsRecognised)
<1>1. FrontierKeepsParses => CompleteTextIsRecognised
  BY DEF FrontierKeepsParses, CompleteTextIsRecognised, RefComplete, FrontierComplete
<1> QED
  BY <1>1, CommitKeepsParses, PTL

----------------------------------------------------------------------------
(* Lexers whose matches cannot grow leave no exclusion *)

Clear(g) == \A s \in DOMAIN g : g[s] = {}

NoExclusions ==
    /\ \A q \in LexStates : Clear(frontier[q]) /\ Clear(pending[q])
    /\ \A i \in 0..Len(bytes), q \in LexStates : Clear(queue[i][q])
    /\ Clear(special)

LEMMA NothingRecorded ==
    ASSUME OnePartition, OnlyIgnoredGrows, NEW q \in LexStates, NEW w \in Seq(Bytes), NEW t \in Terminals \ Ignored, NEW n,
           LongestMatch(q, w, t, n)
    PROVE  Recorded(EndStates(q, w), t) = {}
<1> SUFFICES ASSUME NEW p \in EndStates(q, w), t \in Future[p] PROVE FALSE
  BY DEF Recorded
<1>1. w \in Seq(Symbols) /\ Len(w) \in Nat
  BY BytesAreSymbols
<1>2. n \in 1..Len(w) /\ Matches(q, w, 0, n, t)
  BY WidthsOf DEF LongestMatch
<1>3. PICK r \in States(q, w, 0, n) : t \in Matched[r]
  BY <1>2 DEF Matches
<1>4. PICK m \in Nat : n \in Nat /\ n + m = Len(w) /\ 0 + n + m <= Len(w) /\ 0 + n <= Len(w) /\ 0 + n = n
  <2>1. PICK l \in Nat : l = Len(w) /\ n \in 1..l
    BY <1>1, <1>2
  <2>2. /\ l - n \in Nat /\ n \in Nat /\ n + (l - n) = l /\ 0 + n + (l - n) <= l
        /\ 0 + n <= l /\ 0 + n = n
    BY <2>1
  <2> QED BY <2>1, <2>2
<1>5. PICK u \in States(q, w, 0, n) : p \in States(u, w, n, m)
  <2>1. p \in States(q, w, 0, n + m)
    BY <1>4, EndStatesOf
  <2>2. p \in States(q, w, 0, n + m) <=> \E u \in States(q, w, 0, n) : p \in States(u, w, 0 + n, m)
    BY <1>1, <1>4, StatesSplit
  <2> QED BY <1>4, <2>1, <2>2
<1>6. u \in LexStates
  BY <1>1, <1>4, LiveBefore
<1>7. t \in Future[u]
  <2>1. CASE m = 0
    <3>1. n \in 0..Len(w)
      BY <1>2
    <3>2. States(u, w, n, 0) = {u}
      BY <1>1, <1>6, <3>1, StatesUnfold
    <3> QED BY <1>5, <2>1, <3>2
  <2>2. CASE m # 0
    <3>1. m > 0 /\ n + m <= Len(w)
      BY <1>1, <1>4, <2>2
    <3>2. Live(p) \subseteq Future[u]
      BY <1>1, <1>4, <1>5, <1>6, <3>1, LiveBefore
    <3> QED BY <3>2 DEF Live
  <2> QED BY <2>1, <2>2
<1>8. u = r
  <2>1. t \in Live(u) /\ t \in Live(r)
    BY <1>3, <1>7 DEF Live
  <2> QED BY <1>1, <1>4, <2>1, OneLive
<1> QED
  BY <1>3, <1>6, <1>7, <1>8 DEF OnlyIgnoredGrows

LEMMA ClearEmpty == Clear(EmptyGss) /\ \A q \in LexStates : Clear(NoStates[q])
  BY EmptyType, NoStatesType DEF Clear

LEMMA ClearMerge ==
    ASSUME NEW g, NEW h, Clear(g), Clear(h)
    PROVE  Clear(Merge(g, h))
  BY DEF Clear, Merge, Acc

LEMMA ClearPrune ==
    ASSUME NEW g, NEW w, Clear(g)
    PROVE  Clear(Prune(g, w))
<1>1. MovedExclusions({}, w) = {}
  BY DEF MovedExclusions
<1> QED
  BY <1>1 DEF Clear, Prune

LEMMA ClearCarried ==
    ASSUME OnePartition, OnlyIgnoredGrows, TypeOK, NEW q \in LexStates, NEW g, Clear(g), NEW s \in DOMAIN g,
           NEW t \in Terminals, NEW n, LongestMatch(q, Rest, t, n)
    PROVE  Carried(g, s, q, t) = {}
<1>1. Rest \in Seq(Bytes)
  BY RestFacts
<1>2. t \notin Ignored => Recorded(EndStates(q, Rest), t) = {}
  BY <1>1, NothingRecorded
<1> QED
  BY <1>2 DEF Carried, Clear

LEMMA ClearAtOffset ==
    ASSUME TypeOK, NoExclusions, NEW q \in LexStates
    PROVE  Clear(AtOffset(q))
<1>1. 0 \in 0..Len(bytes) /\ offset \in 0..Len(bytes)
  BY DEF TypeOK
<1>2. Clear(queue[0][q]) /\ Clear(queue[offset][q])
  BY <1>1 DEF NoExclusions
<1> QED
  BY <1>2, ClearPrune DEF AtOffset

LEMMA ClearArrivals ==
    ASSUME OnePartition, OnlyIgnoredGrows, TypeOK, NEW q \in LexStates, NEW g, Clear(g), NEW i
    PROVE  Clear(Arrivals(g, q, i))
<1> SUFFICES ASSUME NEW z \in DOMAIN Arrivals(g, q, i), NEW e \in Arrivals(g, q, i)[z] PROVE FALSE
  BY DEF Clear
<1>1. PICK s, t : Brings(g, q, i, t, s, z) /\ e \in Carried(g, s, q, t)
  BY ArrivalsFrom
<1>2. s \in DOMAIN g /\ t \in Terminals /\ LongestMatch(q, Rest, t, i - offset)
  BY <1>1 DEF Brings, Arrives
<1>3. Carried(g, s, q, t) = {}
  BY <1>2, ClearCarried
<1> QED
  BY <1>1, <1>3

LEMMA ClearAfterMatch ==
    ASSUME OnePartition, OnlyIgnoredGrows, TypeOK, NEW q \in LexStates, NEW g, Clear(g), NEW t \in Terminals, NEW n,
           LongestMatch(q, Rest, t, n)
    PROVE  Clear(AfterMatch(g, q, t))
<1> SUFFICES ASSUME NEW z \in DOMAIN AfterMatch(g, q, t), NEW e \in AfterMatch(g, q, t)[z] PROVE FALSE
  BY DEF Clear
<1>1. PICK s \in DOMAIN g : e \in Carried(g, s, q, t)
  BY InAfterMatch
<1> QED
  BY <1>1, ClearCarried

LEMMA ClearResiduals ==
    ASSUME NEW g, IsGss(g), Clear(g), NEW q, NEW p \in LexStates
    PROVE  Clear(Residuals(g, q)[p])
<1>1. Residuals(g, q)[p] \in {g, EmptyGss}
  BY ResidualsType
<1> QED
  BY <1>1, ClearEmpty

LEMMA ClearProcess ==
    ASSUME OnePartition, OnlyIgnoredGrows, TypeOK, NoExclusions, NEW q \in LexStates, ProcessEntry(q)
    PROVE  NoExclusions'
<1>1. bytes' = bytes /\ frontier' = frontier /\ special' = special /\ LexStart \in LexStates
  BY LexerAssumption DEF ProcessEntry
<1>2. PICK g : g = AtOffset(q)
  OBVIOUS
<1>3. Clear(g) /\ IsGss(g)
  BY <1>2, ClearAtOffset, AtOffsetType
<1>4. \A i : Clear(Arrivals(g, q, i))
  BY <1>3, ClearArrivals
<1>5. ASSUME NEW i \in 0..Len(bytes), NEW p \in LexStates PROVE Clear(queue'[i][p])
  <2>1. Clear(queue[i][p]) /\ Clear(queue[i][LexStart])
    BY <1>1 DEF NoExclusions
  <2>2. Clear(Merge(queue[i][LexStart], Arrivals(g, q, i)))
    BY <1>4, <2>1, ClearMerge
  <2>3. queue'[i][p] \in {EmptyGss, queue[i][p], Merge(queue[i][LexStart], Arrivals(g, q, i))}
    BY <1>2, ProcessQueue
  <2> QED BY <2>1, <2>2, <2>3, ClearEmpty
<1>6. ASSUME NEW p \in LexStates PROVE Clear(pending'[p])
  <2>1. Clear(pending[p])
    BY DEF NoExclusions
  <2>2. PICK h : h = IF p = LexStart THEN Merge(pending[p], Arrivals(g, q, Len(bytes))) ELSE pending[p]
    OBVIOUS
  <2>3. Clear(h)
    BY <1>4, <2>1, <2>2, ClearMerge
  <2>4. Clear(Residuals(g, q)[p])
    BY <1>3, ClearResiduals
  <2>5. pending'[p] = Merge(h, Residuals(g, q)[p])
    BY <1>2, <2>2, ProcessPending
  <2> QED BY <2>3, <2>4, <2>5, ClearMerge
<1> QED
  BY <1>1, <1>5, <1>6 DEF NoExclusions

LEMMA ClearLoad ==
    ASSUME TypeOK, NoExclusions, NEW w \in Seq(Bytes), LoadQueue(w), Clear(special')
    PROVE  NoExclusions'
<1>1. /\ bytes' = w /\ frontier' = NoStates /\ pending' = NoStates
      /\ queue'[0] = (IF w = <<>> THEN NoStates ELSE frontier)
      /\ \A i \in 1..Len(w) : queue'[i] = NoStates
  BY LoadFacts
<1>2. ASSUME NEW i \in 0..Len(w), NEW q \in LexStates PROVE Clear(queue'[i][q])
  <2>1. i = 0 \/ i \in 1..Len(w)
    OBVIOUS
  <2>2. queue'[i] \in {NoStates, frontier}
    BY <1>1, <2>1
  <2> QED BY <2>2, ClearEmpty DEF NoExclusions
<1> QED
  BY <1>1, <1>2, ClearEmpty DEF NoExclusions

LEMMA ClearIdle ==
    ASSUME bytes = <<>>, queue = NoQueue(<<>>), pending = NoStates, special = EmptyGss,
           \A q \in LexStates : Clear(frontier[q])
    PROVE  NoExclusions
<1>1. ASSUME NEW i \in 0..Len(bytes), NEW q \in LexStates PROVE Clear(queue[i][q])
  <2>1. queue[i] = NoStates
    BY DEF NoQueue
  <2> QED BY <2>1, ClearEmpty
<1> QED
  BY <1>1, ClearEmpty DEF NoExclusions

LEMMA ClearStart == \A q \in LexStates : Clear(StartFrontier[q])
<1> SUFFICES ASSUME NEW q \in LexStates PROVE Clear(StartFrontier[q])
  OBVIOUS
<1>1. CASE q = LexStart
  BY <1>1, StartFacts DEF Clear
<1>2. CASE q # LexStart
  BY <1>2, StartFacts, ClearEmpty
<1> QED
  BY <1>1, <1>2

LEMMA ClearStep ==
    ASSUME OnePartition, OnlyIgnoredGrows, TypeOK, NoExclusions, [Next]_vars
    PROVE  NoExclusions'
<1>1. CASE Start
  BY <1>1, ClearStart DEF Start, NoExclusions
<1>2. ASSUME NEW k \in Tokens, CommitToken(k) PROVE NoExclusions'
  <2>1. PICK w \in Seq(Bytes) : w = TokenBytes[k] /\ LoadQueue(w) /\ special' = SpecialPaths(k)
    BY <1>2, TokenAssumption DEF CommitToken
  <2>2. Clear(special')
    BY <2>1, InSpecialPaths DEF Clear
  <2> QED BY <2>1, <2>2, ClearLoad
<1>3. ASSUME NEW k \in Tokens, CommitBytes(TokenBytes[k]) PROVE NoExclusions'
  <2>1. PICK w \in Seq(Bytes) : w = TokenBytes[k] /\ LoadQueue(w) /\ special' = EmptyGss
    BY <1>3, TokenAssumption DEF CommitBytes
  <2> QED BY <2>1, ClearLoad, ClearEmpty
<1>4. ASSUME NEW q \in LexStates, ProcessEntry(q) PROVE NoExclusions'
  BY <1>4, ClearProcess
<1>5. CASE NextOffset
  BY <1>5 DEF NextOffset, NoExclusions
<1>6. CASE FinishCommit
  <2>1. \A q \in LexStates : frontier'[q] = IF q = LexStart THEN Merge(pending[q], special) ELSE pending[q]
    BY <1>6, FinishType
  <2>2. ASSUME NEW q \in LexStates PROVE Clear(frontier'[q])
    <3>1. Clear(pending[q]) /\ Clear(special)
      BY DEF NoExclusions
    <3> QED BY <2>1, <3>1, ClearMerge
  <2>3. bytes' = <<>> /\ queue' = NoQueue(<<>>) /\ pending' = NoStates /\ special' = EmptyGss
    BY <1>6 DEF FinishCommit
  <2>4. ASSUME NEW i \in 0..Len(bytes'), NEW q \in LexStates PROVE Clear(queue'[i][q])
    <3>1. queue'[i] = NoStates
      BY <2>3 DEF NoQueue
    <3> QED BY <3>1, ClearEmpty
  <2> QED BY <2>2, <2>3, <2>4, ClearEmpty DEF NoExclusions
<1>7. CASE UNCHANGED vars
  BY <1>7 DEF vars, NoExclusions
<1> QED
  BY <1>1, <1>2, <1>3, <1>4, <1>5, <1>6, <1>7 DEF Next

LEMMA ClearPairs ==
    ASSUME NEW g, Clear(g)
    PROVE  \A a \in Pairs(g) : a[2] = {}
  BY DEF Pairs, Clear

(* Where no exclusion is kept, no merge can disagree. *)
LEMMA ClearAgrees ==
    ASSUME OnePartition, OnlyIgnoredGrows, TypeOK, NoExclusions
    PROVE  MergesAgree
<1>1. ASSUME NEW q \in LexStates, NEW i \in (offset + 1)..Len(bytes), NEW p \in LexStates
      PROVE  OneAccumulator(Pairs(Dest(i, p)) \cup Offers(q, i, p))
  <2>1. Clear(Dest(i, p))
    <3>1. i \in 0..Len(bytes)
      BY DEF TypeOK
    <3> QED BY <3>1 DEF Dest, NoExclusions
  <2>2. PICK g : g = AtOffset(q)
    OBVIOUS
  <2>3. Clear(g) /\ IsGss(g)
    BY <2>2, ClearAtOffset, AtOffsetType
  <2>4. \A a \in Pairs(Residuals(g, q)[p]) : a[2] = {}
    BY <2>3, ClearResiduals, ClearPairs
  <2>5. ASSUME NEW a \in Derivations(q, i) PROVE a[2] = {}
    <3>1. PICK l \in {m \in (DOMAIN g) \X Terminals : LongestMatch(q, Rest, m[2], i - offset)} :
             a \in Pairs(AfterMatch(Single(g, l[1]), q, l[2]))
      BY <2>2 DEF Derivations
    <3>2. PICK s \in DOMAIN g, t \in Terminals : /\ LongestMatch(q, Rest, t, i - offset)
                                                /\ a \in Pairs(AfterMatch(Single(g, s), q, t))
      BY <3>1
    <3>3. Clear(Single(g, s))
      BY <2>3 DEF Clear, Single
    <3>4. Clear(AfterMatch(Single(g, s), q, t))
      BY <3>2, <3>3, ClearAfterMatch
    <3> QED BY <3>2, <3>4, ClearPairs
  <2>6. \A a \in Pairs(Dest(i, p)) \cup Offers(q, i, p) : a[2] = {}
    BY <2>1, <2>2, <2>4, <2>5, ClearPairs DEF Offers
  <2> QED BY <2>6 DEF OneAccumulator
<1>2. OneAccumulator(Pairs(pending[LexStart]) \cup Pairs(special))
  <2>1. Clear(pending[LexStart]) /\ Clear(special)
    BY LexerAssumption DEF NoExclusions
  <2>2. \A a \in Pairs(pending[LexStart]) \cup Pairs(special) : a[2] = {}
    BY <2>1, ClearPairs
  <2> QED BY <2>2 DEF OneAccumulator
<1> QED
  BY <1>1, <1>2 DEF MergesAgree

LEMMA ClearInit ==
    ASSUME Init
    PROVE  NoExclusions
  BY ClearStart, ClearIdle DEF Init

(* Where only ignored terminals can grow, no lexeme is ever excluded and    *)
(* merging agrees, so no parse is lost whatever the grammar.                *)
THEOREM CommitKeepsAll ==
    ASSUME OnePartition, OnlyIgnoredGrows
    PROVE  Spec => [](MergesAgree /\ FrontierKeepsParses)
<1>1. Init => NoExclusions
  BY ClearInit
<1>2. TypeOK /\ NoExclusions /\ [Next]_vars => NoExclusions'
  BY ClearStep
<1>3. TypeOK /\ NoExclusions => MergesAgree
  BY ClearAgrees
<1>4. Spec => []MergesAgree
  BY <1>1, <1>2, <1>3, CommitTyped, PTL DEF Spec
<1> QED
  BY <1>4, CommitKeepsParses, PTL

(* Under the conditions of CommitSound such a lexer makes                   *)
(* frontier_complete() exact.                                               *)
THEOREM CommitCompletionIsExact ==
    ASSUME NoReentry, OnePartition, IgnoredRestart, OnlyIgnoredGrows
    PROVE  Spec => [](~busy => (FrontierComplete <=> RefComplete))
<1>1. CompletionIsReal /\ CompleteTextIsRecognised => (~busy => (FrontierComplete <=> RefComplete))
  BY DEF CompletionIsReal, CompleteTextIsRecognised
<1> QED
  BY <1>1, CommitKeepsAll, CommitCompletionIsReal, CommitRecognisesComplete, PTL

=============================================================================
