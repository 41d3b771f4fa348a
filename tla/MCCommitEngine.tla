--------------------------- MODULE MCCommitEngine ---------------------------
(***************************************************************************)
(* Small constraints for CommitEngine. A transition table is written as a  *)
(* set of arrows <<from, symbol, to>>.                                     *)
(***************************************************************************)
EXTENDS CommitEngine

Table(From, Sym, arrows) ==
    [f \in From |-> [x \in Sym |-> {a[3] : a \in {b \in arrows : b[1] = f /\ b[2] = x}}]]

(* Grammar "mixed": two lexer partitions under one root. In one A = /a+/    *)
(* and the keyword KW = "aa" share their states, beside the ignored         *)
(* WS = / +/; the other has AB = "ab" and B = "b". SP is an exact special   *)
(* terminal.                                                                *)
(*     start: A B | A A | AB A | KW A | KW B | SP A                         *)
MixedBytes == {"a", "b", "_"}
MixedTerminals == {"A", "B", "AB", "KW", "WS", "SP"}
MixedLexStates == {"l0", "pa", "paa", "paaa", "pw", "qa", "qab", "qb"}
MixedDelta == Table(MixedLexStates, MixedBytes,
    {<<"l0", "a", "pa">>, <<"l0", "a", "qa">>, <<"l0", "b", "qb">>, <<"l0", "_", "pw">>,
     <<"pa", "a", "paa">>, <<"paa", "a", "paaa">>, <<"paaa", "a", "paaa">>,
     <<"pw", "_", "pw">>, <<"qa", "b", "qab">>})
MixedMatched == [q \in MixedLexStates |->
    CASE q \in {"pa", "paaa"} -> {"A"} [] q = "paa" -> {"A", "KW"} [] q = "pw" -> {"WS"}
      [] q = "qab" -> {"AB"} [] q = "qb" -> {"B"} [] OTHER -> {}]
MixedStacks == {"s0", "sA", "sAA", "sB", "sAB", "sABA", "sKW", "sKWA", "sKWB", "sSP", "sSPA"}
MixedAdvance == Table(MixedStacks, MixedTerminals,
    {<<"s0", "A", "sA">>, <<"sA", "A", "sAA">>, <<"sA", "B", "sB">>, <<"s0", "AB", "sAB">>,
     <<"sAB", "A", "sABA">>, <<"s0", "KW", "sKW">>, <<"sKW", "A", "sKWA">>,
     <<"sKW", "B", "sKWB">>, <<"s0", "SP", "sSP">>, <<"sSP", "A", "sSPA">>})
MixedFinished == {"sAA", "sB", "sABA", "sKWA", "sKWB", "sSPA"}
MixedTokens == {"a", "b", "_", "ab", "aa", "_a", "sp"}
MixedTokenBytes == [k \in MixedTokens |->
    CASE k = "a" -> <<"a">> [] k = "b" -> <<"b">> [] k = "_" -> <<"_">>
      [] k = "ab" -> <<"a", "b">> [] k = "aa" -> <<"a", "a">> [] k = "_a" -> <<"_", "a">>
      [] OTHER -> <<>>]
MixedTokenSpecials == [k \in MixedTokens |-> IF k \in {"sp", "b"} THEN {"SP"} ELSE {}]

NoSpecials == [k \in Tokens |-> {}]

(* Grammar "merge": E ::= T1 | T2 ; start: E X Y, where T1 = /a(bc)?/,      *)
(* T2 = "a", X = "b", Y = "c". After X the two parses are one stack.        *)
MergeBytes == {"a", "b", "c"}
MergeTerminals == {"T1", "T2", "X", "Y"}
MergeLexStates == {"l0", "qa", "qab", "qabc", "qb", "qc"}
MergeDelta == Table(MergeLexStates, MergeBytes,
    {<<"l0", "a", "qa">>, <<"qa", "b", "qab">>, <<"qab", "c", "qabc">>,
     <<"l0", "b", "qb">>, <<"l0", "c", "qc">>})
MergeMatched == [q \in MergeLexStates |->
    CASE q = "qa" -> {"T1", "T2"} [] q = "qabc" -> {"T1"} [] q = "qb" -> {"X"}
      [] q = "qc" -> {"Y"} [] OTHER -> {}]
MergeStacks == {"s0", "sT1", "sT2", "sEX", "sEXY"}
MergeAdvance == Table(MergeStacks, MergeTerminals,
    {<<"s0", "T1", "sT1">>, <<"s0", "T2", "sT2">>, <<"sT1", "X", "sEX">>,
     <<"sT2", "X", "sEX">>, <<"sEX", "Y", "sEXY">>})
ByteTokens == Bytes
ByteTokenBytes == [k \in Bytes |-> <<k>>]

(* Grammar "reentrant": T = /(ab)*c/ ; start: T?. In the minimal automaton  *)
(* the bytes "ab" lead back to the start state.                             *)
ReentrantLexStates == {"l0", "qa", "qT"}
ReentrantDelta == Table(ReentrantLexStates, {"a", "b", "c"},
    {<<"l0", "a", "qa">>, <<"qa", "b", "l0">>, <<"l0", "c", "qT">>})
ReentrantMatched == [q \in ReentrantLexStates |-> IF q = "qT" THEN {"T"} ELSE {}]
ReentrantAdvance == Table({"s0", "sT"}, {"T"}, {<<"s0", "T", "sT">>})
=============================================================================
