--------------------------- MODULE MCBuildBudget ---------------------------
(***************************************************************************)
(* Small instances of BuildBudget: two compiles on two threads, two parts, *)
(* a limit of two charges.                                                 *)
(***************************************************************************)
EXTENDS BuildBudget, TLC

CONSTANTS c1, c2, h1, h2, w, p1, p2

\* A composition of the two parts that costs m and n charges as templates.
Composition(m, n) ==
  [auto |-> FALSE, retained |-> FALSE, rescue |-> FALSE, first |-> FALSE, large |-> FALSE,
   template |-> [j \in AllJobs |-> IF j = p1 THEN m ELSE IF j = p2 THEN n ELSE 2],
   trie |-> [j \in AllJobs |-> 1],
   unsupported |-> {}, broken |-> {}]

Exact == Composition(1, 1)

Over == Composition(1, 2)

(****************************************************************************)
(* Just within the limit and just above it; the rescue after and before the *)
(* attempt, itself within or above the limit; both fallbacks of Auto, after *)
(* an exhausted budget and after an unsupported part; a part, or the whole, *)
(* that does not compile; an import on a thread that holds no handle.       *)
(****************************************************************************)
Mixed ==
  LET rescued == [Over EXCEPT !.rescue = TRUE]
      byPart == [Exact EXCEPT !.auto = TRUE, !.retained = TRUE, !.template[p1] = 0,
                             !.unsupported = {p1}]
  IN { Exact,
       [Over EXCEPT !.broken = {p1}],
       [Over EXCEPT !.large = TRUE],
       rescued,
       [rescued EXCEPT !.first = TRUE, !.template[Whole] = 3],
       [Composition(0, 3) EXCEPT !.auto = TRUE],
       [Composition(3, 0) EXCEPT !.auto = TRUE, !.rescue = TRUE, !.broken = {Whole}],
       [Over EXCEPT !.auto = TRUE, !.retained = TRUE],
       byPart }

\* Two plain threads, or one worker of the application's pool for both.
Callers == {(c1 :> h1) @@ (c2 :> h2), (c1 :> w) @@ (c2 :> w)}

TwoThreads == {(c1 :> h1) @@ (c2 :> h2)}

\* A parent above the limit beside a retained child, under Auto.
RetainedChild == {[Over EXCEPT !.auto = TRUE, !.retained = TRUE]}

=============================================================================
