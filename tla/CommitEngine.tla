---------------------------- MODULE CommitEngine ----------------------------
(***************************************************************************)
(* The byte and token commit of one ConstraintState: the general queue of  *)
(* commit_bytes_impl_inner_observed (src/runtime/commit/mod.rs), the exact *)
(* special-token paths merged beside it, and the longest-match exclusions  *)
(* (TerminalsDisallowed) it carries from one commit to the next.           *)
(*                                                                         *)
(* A frontier maps a lexer state to a graph-structured stack. The stack is *)
(* abstracted to what the engine distinguishes: a set of opaque parser     *)
(* stacks, each with one accumulator, which is a set of (lexer state,      *)
(* terminal) exclusions. The lexer is an automaton whose transitions are   *)
(* set-valued, so that several lexer partitions under one epsilon root are *)
(* covered; the LR driver is the relation Advance.                         *)
(*                                                                         *)
(* The reference is the rule the grammar formats document: the text is cut *)
(* into lexemes, and every terminal takes its longest match. Nothing in    *)
(* that rule mentions where one commit ended and the next began.           *)
(***************************************************************************)
EXTENDS Naturals, Sequences, FiniteSets

CONSTANTS
    Bytes,          \* the byte alphabet
    Terminals,      \* terminal ids, special terminals included
    Ignored,        \* ignored terminals
    LexStates,      \* lexer states
    LexStart,       \* runtime_commit_initial_state()
    Delta,          \* Delta[q][b]: lexer states after byte b
    Matched,        \* Matched[q]: terminals that end in q
    Stacks,         \* parser stacks
    StartStack,     \* the stack of Constraint::start()
    Advance,        \* Advance[s][t]: the stacks after shifting terminal t
    Finished,       \* stacks of a complete match
    Tokens,         \* token ids
    TokenBytes,     \* TokenBytes[k]: the bytes of id k, <<>> if it has none
    TokenSpecials,  \* TokenSpecials[k]: exact special terminals of id k
    MaxText         \* bound on the symbols committed in one session

ASSUME LexerAssumption ==
    /\ LexStart \in LexStates
    /\ Delta \in [LexStates -> [Bytes -> SUBSET LexStates]]
    /\ Matched \in [LexStates -> SUBSET Terminals]
    /\ Bytes \cap Terminals = {}

ASSUME ParserAssumption ==
    /\ StartStack \in Stacks /\ Finished \subseteq Stacks
    /\ Ignored \subseteq Terminals
    /\ Advance \in [Stacks -> [Terminals -> SUBSET Stacks]]

ASSUME TokenAssumption ==
    /\ TokenBytes \in [Tokens -> Seq(Bytes)]
    /\ TokenSpecials \in [Tokens -> SUBSET (Terminals \ Ignored)]
    /\ MaxText \in Nat

----------------------------------------------------------------------------
(* The lexer *)

Trans(q, b) == IF b \in Bytes THEN Delta[q][b] ELSE {}

Moves(S, b) == UNION {Trans(p, b) : p \in S}

(* Run(q, w)[n]: the lexer states n bytes into w, from q. *)
Run(q, w) ==
    LET R[n \in 0..Len(w)] == IF n = 0 THEN {q} ELSE Moves(R[n - 1], w[n])
    IN R

EndStates(q, w) == Run(q, w)[Len(w)]

MatchWidths(q, w, t) == {n \in 1..Len(w) : \E p \in Run(q, w)[n] : t \in Matched[p]}

(* TokenizerExecResult.matches keeps one match per terminal, the longest.   *)
LongestMatch(q, w, t, n) ==
    n \in MatchWidths(q, w, t) /\ \A m \in MatchWidths(q, w, t) : m <= n

Successors(q) == UNION {Delta[q][b] : b \in Bytes}

(* The lexer states q leads to with at least one more byte: those in every  *)
(* set that holds the successors of q and of its own members.               *)
Reachable(q) ==
    {p \in LexStates :
        \A C \in SUBSET LexStates :
            Successors(q) \subseteq C /\ (\A r \in C : Successors(r) \subseteq C) => p \in C}

(* possible_future_terminals(q): the terminals q may still reach with at    *)
(* least one more byte.                                                     *)
Future == [q \in LexStates |-> UNION {Matched[p] : p \in Reachable(q)}]

----------------------------------------------------------------------------
(* Graph-structured stacks: a function from its stacks to their             *)
(* accumulators.                                                            *)

Exclusions == SUBSET (LexStates \X Terminals)
IsGss(g) == DOMAIN g \subseteq Stacks /\ g \in [DOMAIN g -> Exclusions]
IsStateMap(f) == f = [q \in LexStates |-> f[q]] /\ \A q \in LexStates : IsGss(f[q])
EmptyGss == [s \in {} |-> {}]

Acc(g, s) == IF s \in DOMAIN g THEN g[s] ELSE {}

(* merge: equal stacks become one, and Merge for TerminalsDisallowed is the *)
(* union of the two accumulators.                                           *)
Merge(g, h) == [s \in DOMAIN g \cup DOMAIN h |-> Acc(g, s) \cup Acc(h, s)]

(* advance_parser_stacks: stacks that arrive at the same successor merge.   *)
AdvanceStacks(g, t) ==
    [s2 \in UNION {Advance[s][t] : s \in DOMAIN g} |->
        UNION {g[s] : s \in {s1 \in DOMAIN g : s2 \in Advance[s1][t]}}]

(* Faulty variant: no exclusion is recorded for a match that could grow.    *)
NoFutureTerminalDisallow(g, ends, t) == g

(* apply_future_terminal_disallow: a match of t that the lexer could still  *)
(* extend is taken provided that t does not match again from there.         *)
ApplyFutureTerminalDisallow(g, ends, t) ==
    [s \in DOMAIN g |-> g[s] \cup {<<q, t>> : q \in {p \in ends : t \in Future[p]}}]

(* Faulty variant: an exclusion that was not hit is kept where it was.      *)
ExclusionsKept(no, w) == no

(* The part of advance_terminals_disallowed_over_bytes that moves the       *)
(* exclusions to the lexer states the bytes lead to.                        *)
MovedExclusions(no, w) ==
    UNION {{<<q, e[2]>> : q \in {p \in EndStates(e[1], w) : e[2] \in Future[p]}} : e \in no}

Violated(no, w) == \E e \in no : MatchWidths(e[1], w, e[2]) # {}

(* prune_single_initial_state_for_parts *)
Prune(g, w) ==
    [s \in {s \in DOMAIN g : ~Violated(g[s], w)} |-> MovedExclusions(g[s], w)]

(* parser_may_advance_on_any, or an ignored terminal is still possible.     *)
MayAdvanceExact(S, q) ==
    \/ Future[q] \cap Ignored # {}
    \/ \E s \in S, t \in Future[q] : Advance[s][t] # {}

(* end_state_may_advance, with its shortcut for the reset state *)
EndStateMayAdvance(g, q) == q = LexStart \/ MayAdvanceExact(DOMAIN g, q)

----------------------------------------------------------------------------

VARIABLES
    frontier,  \* [LexStates -> gss]  field state
    queue,     \* processing_queue: [offset -> [LexStates -> gss]]
    pending,   \* pending_state: what is queued at the end of the bytes
    special,   \* special_paths of the token being committed
    bytes,     \* the bytes being committed
    offset,    \* the loop variable of the queue
    busy,      \* whether a commit is in progress
    texts      \* history: the symbol sequences the session may have read

vars == <<frontier, queue, pending, special, bytes, offset, busy, texts>>

NoStates == [q \in LexStates |-> EmptyGss]
NoQueue(w) == [i \in 0..Len(w) |-> NoStates]

Symbols == Bytes \cup Terminals

TypeOK ==
    /\ IsStateMap(frontier) /\ IsStateMap(pending) /\ IsGss(special)
    /\ bytes \in Seq(Bytes)
    /\ queue = [i \in 0..Len(bytes) |-> queue[i]]
    /\ \A i \in 0..Len(bytes) : IsStateMap(queue[i])
    /\ offset \in 0..Len(bytes)
    /\ busy \in BOOLEAN
    /\ texts \subseteq Seq(Symbols)

StartFrontier == [NoStates EXCEPT ![LexStart] = [s \in {StartStack} |-> {}]]

Init ==
    /\ frontier = StartFrontier
    /\ queue = NoQueue(<<>>) /\ pending = NoStates /\ special = EmptyGss
    /\ bytes = <<>> /\ offset = 0 /\ busy = FALSE
    /\ texts = {<<>>}

(* Every session fits its bound. *)
Fits(w) == \A x \in texts : Len(x) + Len(w) + 1 <= MaxText

Alive == frontier # NoStates

(* Constraint::start(): a new session of the same constraint. *)
Start ==
    /\ ~busy
    /\ frontier' = StartFrontier
    /\ texts' = {<<>>}
    /\ UNCHANGED <<queue, pending, special, bytes, offset, busy>>

(* advance_special_token_paths: only a reset-state entry, whose exclusions  *)
(* are dropped, because no lexeme continues across a special token.         *)
SpecialPaths(k) ==
    LET cleared == [s \in DOMAIN frontier[LexStart] |-> {}]
        reached == UNION {DOMAIN AdvanceStacks(cleared, t) : t \in TokenSpecials[k]}
    IN [s \in reached |-> {}]

(* The entry of commit_bytes_impl_inner_observed: the frontier moves to     *)
(* offset 0 of a cleared queue.                                             *)
LoadQueue(w) ==
    /\ bytes' = w
    /\ queue' = [NoQueue(w) EXCEPT ![0] = IF w = <<>> THEN NoStates ELSE frontier]
    /\ pending' = NoStates
    /\ frontier' = NoStates
    /\ offset' = 0
    /\ busy' = TRUE

(* commit_bytes of a non-empty string *)
CommitBytes(w) ==
    /\ ~busy /\ Alive /\ Fits(w)
    /\ LoadQueue(w)
    /\ special' = EmptyGss
    /\ texts' = {x \o w : x \in texts}

(* commit_token: the byte commit and the special terminals of the id are    *)
(* alternatives. An empty spelling is no byte step.                         *)
CommitToken(k) ==
    LET w == TokenBytes[k]
    IN /\ ~busy /\ Alive /\ Fits(w)
       /\ LoadQueue(w)
       /\ special' = SpecialPaths(k)
       /\ texts' = (IF w = <<>> THEN {} ELSE {x \o w : x \in texts})
                   \cup {Append(x, t) : x \in texts, t \in TokenSpecials[k]}

Rest == SubSeq(bytes, offset + 1, Len(bytes))

(* Faulty variant: only the entries inside a lexeme settle theirs.          *)
PruneUnfinished(q) ==
    IF offset = 0 /\ q # LexStart THEN Prune(queue[0][q], bytes) ELSE queue[offset][q]

(* Exclusions are settled once per commit, over all of its bytes. *)
AtOffset(q) == IF offset = 0 THEN Prune(queue[0][q], bytes) ELSE queue[offset][q]

(* queue_parser_reset_state after a match of t with width n: the stacks to  *)
(* continue from the lexer start at offset + n.                             *)
AfterMatch(g, q, t) ==
    IF t \in Ignored THEN g
    ELSE ApplyFutureTerminalDisallow(AdvanceStacks(g, t), EndStates(q, Rest), t)

MergeInto(states, q, g) == [states EXCEPT ![q] = Merge(@, g)]

(* All matches of entry q that end at offset i, merged. *)
Arrivals(g, q, i) ==
    LET T == {t \in Terminals : i > offset /\ LongestMatch(q, Rest, t, i - offset)}
        S == UNION {DOMAIN AfterMatch(g, q, t) : t \in T}
    IN [s \in S |-> UNION {Acc(AfterMatch(g, q, t), s) : t \in T}]

(* The unfinished lexemes of entry q: its end states, kept when some stack  *)
(* of the entry may still advance.                                          *)
Residuals(g, q) ==
    [p \in LexStates |->
        IF g # EmptyGss /\ p \in EndStates(q, Rest) /\ EndStateMayAdvance(g, p)
        THEN g ELSE EmptyGss]

(* One iteration of the inner loop. The entries of one offset are drained   *)
(* from a hash map, so in any order; matches have at least one byte, so     *)
(* none is added to the offset being drained.                               *)
ProcessEntry(q) ==
    LET g == AtOffset(q)
        end == Len(bytes)
        residual == Residuals(g, q)
    IN /\ busy /\ offset < end /\ queue[offset][q] # EmptyGss
       /\ queue' = [i \in 0..end |->
             IF i = offset THEN [queue[i] EXCEPT ![q] = EmptyGss]
             ELSE IF i = end THEN queue[i]
             ELSE MergeInto(queue[i], LexStart, Arrivals(g, q, i))]
       /\ pending' = [p \in LexStates |->
             Merge(MergeInto(pending, LexStart, Arrivals(g, q, end))[p], residual[p])]
       /\ UNCHANGED <<frontier, special, bytes, offset, busy, texts>>

NextOffset ==
    /\ busy /\ offset < Len(bytes) /\ queue[offset] = NoStates
    /\ offset' = offset + 1
    /\ UNCHANGED <<frontier, queue, pending, special, bytes, busy, texts>>

(* Faulty variant: the loop variable survives the commit.                   *)
FinishKeepingOffset ==
    /\ busy /\ offset = Len(bytes)
    /\ frontier' = MergeInto(pending, LexStart, special)
    /\ busy' = FALSE
    /\ bytes' = <<>> /\ queue' = NoQueue(<<>>)
    /\ pending' = NoStates /\ special' = EmptyGss
    /\ UNCHANGED <<offset, texts>>

(* finalize_pending_state, then merge_special_token_paths. An empty result  *)
(* is the error that rejects the state.                                     *)
FinishCommit ==
    /\ busy /\ offset = Len(bytes)
    /\ frontier' = MergeInto(pending, LexStart, special)
    /\ busy' = FALSE
    /\ bytes' = <<>> /\ queue' = NoQueue(<<>>) /\ offset' = 0
    /\ pending' = NoStates /\ special' = EmptyGss
    /\ UNCHANGED texts

Next ==
    \/ Start
    \/ \E k \in Tokens : CommitToken(k)
    \/ \E k \in Tokens : TokenBytes[k] # <<>> /\ CommitBytes(TokenBytes[k])
    \/ \E q \in LexStates : ProcessEntry(q)
    \/ NextOffset
    \/ FinishCommit

Spec == Init /\ [][Next]_vars
----------------------------------------------------------------------------
(* The reference: lexemes of the whole text, each a longest match *)

Suffix(x, i) == SubSeq(x, i + 1, Len(x))

(* x[i+1 .. k] is a lexeme of t in x. *)
Lexeme(x, i, k, t) ==
    LET W == MatchWidths(LexStart, Suffix(x, i), t)
    IN \/ k = i + 1 /\ x[k] = t
       \/ k - i \in W /\ \A n \in W : n <= k - i

(* The parses in S after a lexeme of t. *)
Shifted(S, t) == IF t \in Ignored THEN S ELSE UNION {Advance[s][t] : s \in S}

(* The lexemes of x that end at k: where they begin, and their terminals. *)
LexemesTo(x, k) == {l \in (0..(k - 1)) \X Terminals : Lexeme(x, l[1], k, l[2])}

(* Cuts(x)[k]: the stacks of the parses of the first k symbols of x. *)
Cuts(x) ==
    LET C[k \in 0..Len(x)] ==
          IF k = 0 THEN {StartStack} ELSE UNION {Shifted(C[l[1]], l[2]) : l \in LexemesTo(x, k)}
    IN C

(* The stacks with a lexeme in progress whose lexer state is q. *)
InProgress(x, q) ==
    UNION {Cuts(x)[i] : i \in {j \in 0..(Len(x) - 1) : q \in EndStates(LexStart, Suffix(x, j))}}

Useful(q, S) == {s \in S : MayAdvanceExact({s}, q)}

RefComplete == \E x \in texts : Cuts(x)[Len(x)] \cap Finished # {}

(* frontier_complete() *)
FrontierComplete == DOMAIN frontier[LexStart] \cap Finished # {}

(* Between commits the frontier holds only parses of the whole text: at the *)
(* lexer start the completed ones, and under every other lexer state those  *)
(* whose last lexeme is still open there. How the text was divided into     *)
(* commits, and in which order the queue was drained, adds no parse.        *)
FrontierSound ==
    ~busy =>
      /\ DOMAIN frontier[LexStart] \subseteq UNION {Cuts(x)[Len(x)] : x \in texts}
      /\ \A q \in LexStates \ {LexStart} :
            DOMAIN frontier[q] \subseteq UNION {InProgress(x, q) : x \in texts}

(* Between commits the frontier holds every parse of the whole text that    *)
(* can still be continued: neither the division into commits nor the order  *)
(* of the queue loses one.                                                  *)
FrontierKeepsParses ==
    ~busy =>
      /\ UNION {Cuts(x)[Len(x)] : x \in texts} \subseteq DOMAIN frontier[LexStart]
      /\ \A q \in LexStates \ {LexStart} :
            Useful(q, UNION {InProgress(x, q) : x \in texts}) \subseteq DOMAIN frontier[q]

(* Every exclusion kept between commits is about a lexeme that is still     *)
(* open in the text: it started at a cut, has matched already, and its      *)
(* lexer state is where that lexeme would continue (TerminalsDisallowed).   *)
ExclusionsJustified ==
    ~busy => \A q \in LexStates : \A s \in DOMAIN frontier[q] : \A e \in frontier[q][s] :
        \E x \in texts : \E i \in 0..(Len(x) - 1) :
            /\ Cuts(x)[i] # {}
            /\ e[1] \in EndStates(LexStart, Suffix(x, i))
            /\ e[2] \in Future[e[1]]
            /\ MatchWidths(LexStart, Suffix(x, i), e[2]) # {}

(* No parse is lost: when the text is a complete match, frontier_complete() *)
(* says so however it was committed.                                        *)
CompleteTextIsRecognised == ~busy /\ RefComplete => FrontierComplete

(* frontier_complete() is only said of a complete match. *)
CompletionIsReal == ~busy /\ FrontierComplete => RefComplete

----------------------------------------------------------------------------
(* What the lexer must satisfy for the engine to add no parse *)

Live(q) == Matched[q] \cup Future[q]

(* No lexeme in progress reaches the lexer start again. *)
NoReentry == \A q \in LexStates, b \in Bytes : LexStart \notin Delta[q][b]

(* Lexer partitions have different terminals: of the states one byte leads  *)
(* to, one at most is about a given terminal.                               *)
OnePartition ==
    \A q \in LexStates, b \in Bytes : \A p, r \in Delta[q][b] :
        Live(p) \cap Live(r) # {} => p = r

(* An ignored match is queued without an exclusion, as if it could not      *)
(* grow. So a byte that makes it grow must begin an ignored lexeme of the   *)
(* same terminal, and nothing else, at the lexer start.                     *)
IgnoredRestart ==
    \A t \in Ignored, q \in LexStates, b \in Bytes : \A p \in Delta[q][b] :
        t \in Matched[q] /\ t \in Live(p) => Delta[LexStart][b] = {p} /\ Live(p) = {t}
----------------------------------------------------------------------------
(* What merging must satisfy for the engine to lose no parse *)

(* No match can become a longer one, except of an ignored terminal, whose   *)
(* matches record no exclusion: strings with their quotes, punctuation and  *)
(* white space, say.                                                        *)
OnlyIgnoredGrows == \A q \in LexStates : Matched[q] \cap Future[q] \subseteq Ignored

Pairs(g) == {<<s, g[s]>> : s \in DOMAIN g}
Single(g, s) == [x \in {s} |-> g[x]]

(* What the matches of entry q that end at offset i bring there, each stack *)
(* with the accumulator of the stack and the match it comes from.           *)
Derivations(q, i) ==
    UNION {Pairs(AfterMatch(Single(AtOffset(q), l[1]), q, l[2])) :
             l \in {m \in (DOMAIN AtOffset(q)) \X Terminals : LongestMatch(q, Rest, m[2], i - offset)}}

(* What entry q merges into lexer state p at offset i. *)
Offers(q, i, p) ==
    (IF p = LexStart THEN Derivations(q, i) ELSE {})
      \cup (IF i = Len(bytes) THEN Pairs(Residuals(AtOffset(q), q)[p]) ELSE {})

Dest(i, p) == IF i = Len(bytes) THEN pending[p] ELSE queue[i][p]

OneAccumulator(S) == \A a, b \in S : a[1] = b[1] => a[2] = b[2]

(* Wherever the commit merges, a stack that comes from two sides has the    *)
(* same exclusions on both, so their union is the exclusions of each: the   *)
(* entries of the queue, the residuals and the special-token paths may meet *)
(* in one stack without one burdening the other.                            *)
MergesAgree ==
    busy =>
      IF offset < Len(bytes)
      THEN \A q \in LexStates : queue[offset][q] # EmptyGss =>
             \A i \in (offset + 1)..Len(bytes), p \in LexStates :
                OneAccumulator(Pairs(Dest(i, p)) \cup Offers(q, i, p))
      ELSE OneAccumulator(Pairs(pending[LexStart]) \cup Pairs(special))
============================================================================
