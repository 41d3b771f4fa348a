--------------------------- MODULE MarkersProofs ---------------------------
(***************************************************************************)
(* What the marker observer adds to the commit engine leaves the engine's  *)
(* invariants alone, a rejected state reports nothing, no batch holds an   *)
(* event that is not passed or was reported before, and, where merging     *)
(* agrees, no batch misses one.                                            *)
(***************************************************************************)
EXTENDS Markers, CommitEngineProofs

(* Every marked step is a step of the engine, except the commit that fails  *)
(* before the engine runs.                                                  *)
LEMMA MarkedIsNext ==
    ASSUME MarkedNext
    PROVE  Next \/ \E k \in Tokens : OverflowCommit(TokenBytes[k])
  BY DEF MarkedNext, Next, MarkedStart, MarkedCommitToken, MarkedCommitBytes, MarkedProcessEntry,
         MarkedNextOffset, MarkedFinishCommit

LEMMA OverflowType ==
    ASSUME NEW w, TypeOK, OverflowCommit(w)
    PROVE  TypeOK'
<1>1. IsStateMap(frontier') /\ texts' \subseteq Seq(Symbols)
  BY NoStatesType DEF OverflowCommit
<1> QED
  BY <1>1 DEF OverflowCommit, TypeOK

LEMMA MarkedType ==
    ASSUME TypeOK, [MarkedNext]_allVars
    PROVE  TypeOK'
<1>1. CASE Next
  BY <1>1, NextType
<1>2. CASE UNCHANGED vars
  BY <1>2, NextType
<1>3. CASE \E k \in Tokens : OverflowCommit(TokenBytes[k])
  BY <1>3, OverflowType
<1>4. Next \/ UNCHANGED vars \/ \E k \in Tokens : OverflowCommit(TokenBytes[k])
  BY MarkedIsNext DEF allVars
<1> QED
  BY <1>1, <1>2, <1>3, <1>4

LEMMA OverflowOK ==
    ASSUME NEW w, TypeOK, SInv, OverflowCommit(w)
    PROVE  SInv'
<1>1. ~busy' /\ frontier' = NoStates /\ texts' = {}
  BY DEF OverflowCommit
<1>2. MapOK(NoStates, {})
  BY NoStatesOK
<1> QED
  BY <1>1, <1>2 DEF OverflowCommit, SInv

LEMMA MarkedOK ==
    ASSUME NoReentry, OnePartition, IgnoredRestart, TypeOK, SInv, [MarkedNext]_allVars
    PROVE  SInv'
<1>1. CASE Next
  BY <1>1, NextOK
<1>2. CASE UNCHANGED vars
  BY <1>2, NextOK
<1>3. CASE \E k \in Tokens : OverflowCommit(TokenBytes[k])
  BY <1>3, OverflowOK
<1>4. Next \/ UNCHANGED vars \/ \E k \in Tokens : OverflowCommit(TokenBytes[k])
  BY MarkedIsNext DEF allVars
<1> QED
  BY <1>1, <1>2, <1>3, <1>4

(* The engine's data keep their shape under the observer and the overflow.  *)
THEOREM MarkedTyped == MarkedSpec => []TypeOK
<1>1. MarkedInit => TypeOK
  BY InitType DEF MarkedInit
<1>2. TypeOK /\ [MarkedNext]_allVars => TypeOK'
  BY MarkedType
<1> QED
  BY <1>1, <1>2, PTL DEF MarkedSpec

LEMMA MarkedInvariant ==
    ASSUME NoReentry, OnePartition, IgnoredRestart
    PROVE  MarkedSpec => [](TypeOK /\ SInv)
<1>1. MarkedInit => TypeOK /\ SInv
  BY InitType, InitOK DEF MarkedInit
<1>2. TypeOK /\ SInv /\ [MarkedNext]_allVars => TypeOK' /\ SInv'
  BY MarkedType, MarkedOK
<1> QED
  BY <1>1, <1>2, PTL DEF MarkedSpec

(* The commit engine stays sound when markers are observed: a marked        *)
(* session holds no parse and no exclusion that the text does not give.     *)
THEOREM MarkedSound ==
    ASSUME NoReentry, OnePartition, IgnoredRestart
    PROVE  MarkedSpec => [](FrontierSound /\ ExclusionsJustified /\ CompletionIsReal)
<1>1. TypeOK /\ SInv => FrontierSound /\ ExclusionsJustified /\ CompletionIsReal
  BY SoundNow, JustifiedNow, RealNow
<1> QED
  BY <1>1, MarkedInvariant, PTL

----------------------------------------------------------------------------
(* Rejection *)

(* A commit begins at the offset the state has reached, and the offset does *)
(* not move until it is known to succeed.                                   *)
Silent ==
    /\ busy => byteOffset = base
    /\ ~busy /\ ~Alive => events = {} /\ byteOffset = base

LEMMA StartIsAlive == StartFrontier # NoStates
<1>1. StartStack \in DOMAIN StartFrontier[LexStart] /\ LexStart \in LexStates
  BY LexerAssumption, StartFacts
<1> QED
  BY <1>1, NoStatesType, EmptyType

LEMMA SilentStep ==
    ASSUME TypeOK, Silent, [MarkedNext]_allVars
    PROVE  Silent'
<1>1. CASE UNCHANGED allVars
  BY <1>1 DEF Silent, Alive, allVars, vars, markerVars
<1>2. CASE MarkedStart
  BY <1>2, StartIsAlive DEF MarkedStart, Start, Silent, Alive
<1>3. ASSUME NEW k \in Tokens, MarkedCommitToken(k) PROVE Silent'
  BY <1>3 DEF MarkedCommitToken, CommitToken, LoadQueue, Begin, Silent
<1>4. ASSUME NEW k \in Tokens, MarkedCommitBytes(TokenBytes[k]) PROVE Silent'
  BY <1>4 DEF MarkedCommitBytes, CommitBytes, LoadQueue, Begin, Silent
<1>5. ASSUME NEW k \in Tokens, OverflowCommit(TokenBytes[k]) PROVE Silent'
  BY <1>5 DEF OverflowCommit, Begin, Silent, TypeOK
<1>6. ASSUME NEW q \in LexStates, MarkedProcessEntry(q) PROVE Silent'
  BY <1>6 DEF MarkedProcessEntry, ProcessEntry, ObserveEntry, Silent
<1>7. CASE MarkedNextOffset
  BY <1>7 DEF MarkedNextOffset, NextOffset, markerVars, Silent
<1>8. CASE MarkedFinishCommit
  <2>1. busy /\ ~busy' /\ byteOffset = base /\ base' = base
    BY <1>8 DEF MarkedFinishCommit, FinishCommit, FinishMarkers, Silent
  <2>2. CASE frontier' = NoStates
    BY <1>8, <2>1, <2>2 DEF MarkedFinishCommit, FinishMarkers, Silent
  <2>3. CASE frontier' # NoStates
    BY <2>1, <2>3 DEF Silent, Alive
  <2> QED BY <2>2, <2>3
<1> QED
  BY <1>1, <1>2, <1>3, <1>4, <1>5, <1>6, <1>7, <1>8 DEF MarkedNext

LEMMA SilentInvariant == MarkedSpec => []Silent
<1>1. MarkedInit => Silent
  BY StartIsAlive DEF MarkedInit, Init, Silent, Alive
<1>2. TypeOK /\ Silent /\ [MarkedNext]_allVars => Silent'
  BY SilentStep
<1> QED
  BY <1>1, <1>2, MarkedTyped, PTL DEF MarkedSpec

(* However a commit is rejected, by the text or by the offset, the state    *)
(* reports no event and keeps the offset of the accepted text.              *)
THEOREM MarkersRejectedIsSilent == MarkedSpec => []RejectedIsSilent
<1>1. Silent => RejectedIsSilent
  BY DEF Silent, RejectedIsSilent
<1> QED
  BY <1>1, SilentInvariant, PTL

----------------------------------------------------------------------------
(* No event twice *)

LEMMA InObserved ==
    ASSUME NEW S, NEW at, NEW e
    PROVE  e \in Observed(S, at) <=> \E s \in S : \E id \in Probe[s] : e = <<at, id>>
<1> DEFINE I == UNION {Probe[s] : s \in S}
<1>1. \A id : id \in I <=> \E s \in S : id \in Probe[s]
  OBVIOUS
<1>2. Observed(S, at) = {at} \X I
  BY DEF Observed
<1> HIDE DEF I
<1>3. e \in {at} \X I <=> \E id \in I : e = <<at, id>>
  OBVIOUS
<1> QED
  BY <1>1, <1>2, <1>3

LEMMA MinOf ==
    ASSUME NEW S \in SUBSET Nat, NEW m \in S, \A x \in S : m <= x
    PROVE  Min(S) = m
<1>1. Min(S) \in S /\ \A y \in S : Min(S) <= y
  BY Zenon DEF Min
<1>2. Min(S) \in Nat /\ m \in Nat /\ Min(S) <= m /\ m <= Min(S)
  BY <1>1
<1> QED
  BY <1>2

LEMMA MaxOf ==
    ASSUME NEW S \in SUBSET Nat, NEW m \in S, \A x \in S : x <= m
    PROVE  Max(S) = m
<1>1. Max(S) \in S /\ \A y \in S : Max(S) >= y
  BY Zenon DEF Max
<1>2. Max(S) \in Nat /\ m \in Nat /\ Max(S) <= m /\ m <= Max(S)
  BY <1>1
<1> QED
  BY <1>2

LEMMA InOffsets ==
    ASSUME NEW seen, NEW id, NEW n
    PROVE  n \in Offsets(seen, id) <=> \E e \in seen : e[2] = id /\ n = e[1]
  BY DEF Offsets

(* The events of every batch so far. *)
Given == IF busy THEN reported ELSE reported \cup events

(* A position is that of a marker seen at or before the offset n, and a     *)
(* marker given at n is remembered there.                                   *)
GivenBy(E, n, last) ==
    \A e \in E : /\ e[2] \in MarkerIds /\ e[1] \in Nat /\ e[1] <= n
                 /\ e[1] = n => last[e[2]] = n

(* What a commit in progress has seen lies beyond the offset it began at.   *)
OnceInv ==
    /\ byteOffset \in Nat
    /\ busy => \A e \in events : e[2] \in MarkerIds /\ \E k \in 1..Len(bytes) : e[1] = byteOffset + k
    /\ GivenBy(Given, byteOffset, lastPositions)
    /\ ~busy => events \cap reported = {}

LEMMA StartIsGiven == GivenBy(InitializeMarkers.events, 0, InitializeMarkers.last)
<1>1. ASSUME NEW e \in InitializeMarkers.events
      PROVE  e[1] = 0 /\ e[2] \in Probe[StartStack] /\ e[2] \in MarkerIds
  <2>1. e \in Observed({StartStack}, 0)
    BY DEF InitializeMarkers
  <2>2. PICK s \in {StartStack} : \E id \in Probe[s] : e = <<0, id>>
    BY <2>1, InObserved
  <2>3. PICK id \in Probe[StartStack] : e = <<0, id>>
    BY <2>2
  <2> QED BY <2>3, MarkerAssumption, ParserAssumption
<1>2. \A id \in MarkerIds : id \in Probe[StartStack] => InitializeMarkers.last[id] = 0
  BY DEF InitializeMarkers
<1> QED
  BY <1>1, <1>2 DEF GivenBy

LEMMA OnceBegin ==
    ASSUME OnceInv, ~busy, Begin
    PROVE  OnceInv'
<1>1. Given' = reported \cup events /\ Given = reported \cup events
  BY DEF Begin, Given
<1> QED
  BY <1>1 DEF Begin, OnceInv

LEMMA OnceObserve ==
    ASSUME TypeOK, OnceInv, busy, NEW q \in LexStates, ObserveEntry(q), UNCHANGED <<bytes, busy>>
    PROVE  OnceInv'
<1> DEFINE D(i) == DOMAIN Arrivals(AtOffset(q), q, i)
           new == UNION {Observed(D(i), byteOffset + i) : i \in (offset + 1)..Len(bytes)}
<1>1. events' = events \cup new
  BY DEF ObserveEntry
<1>2. \A i : D(i) \subseteq Stacks
  BY AtOffsetType, ArrivalsType, GssElim
<1>3. offset \in Nat /\ Len(bytes) \in Nat
  BY DEF TypeOK
<1> HIDE DEF D
<1>4. ASSUME NEW e \in new
      PROVE  e[2] \in MarkerIds /\ \E k \in 1..Len(bytes) : e[1] = byteOffset + k
  <2>1. PICK i \in (offset + 1)..Len(bytes) : e \in Observed(D(i), byteOffset + i)
    OBVIOUS
  <2>2. PICK s \in D(i) : \E id \in Probe[s] : e = <<byteOffset + i, id>>
    BY <2>1, InObserved
  <2>3. s \in Stacks /\ i \in 1..Len(bytes)
    BY <1>2, <1>3
  <2> QED BY <2>2, <2>3, MarkerAssumption
<1> HIDE DEF new
<1>5. Given' = Given /\ UNCHANGED <<byteOffset, lastPositions>>
  BY DEF ObserveEntry, Given
<1> QED
  BY <1>1, <1>4, <1>5 DEF OnceInv

(* The events of a commit that ends at offset n: beyond the offset it began *)
(* at, or at that offset when the commit takes no byte.                     *)
SeenUpTo(seen, n) ==
    \A e \in seen : /\ e[2] \in MarkerIds /\ e[1] \in Nat /\ e[1] <= n /\ byteOffset <= e[1]
                    /\ e[1] = byteOffset => n = byteOffset

LEMMA SeenAtFinish ==
    ASSUME TypeOK, OnceInv, busy, NEW D \in SUBSET Stacks, NEW n, n = byteOffset + Len(bytes)
    PROVE  n \in Nat /\ byteOffset <= n /\ SeenUpTo(events \cup Observed(D, n), n)
<1>1. Len(bytes) \in Nat /\ byteOffset \in Nat
  BY DEF TypeOK, OnceInv
<1>2. n \in Nat /\ byteOffset <= n
  BY <1>1
<1>3. ASSUME NEW e \in events
      PROVE  /\ e[2] \in MarkerIds /\ e[1] \in Nat /\ e[1] <= n /\ byteOffset <= e[1]
             /\ e[1] = byteOffset => n = byteOffset
  <2>1. PICK k \in 1..Len(bytes) : e[1] = byteOffset + k
    BY DEF OnceInv
  <2>2. e[2] \in MarkerIds
    BY DEF OnceInv
  <2> QED BY <1>1, <2>1, <2>2
<1>4. ASSUME NEW e \in Observed(D, n)
      PROVE  /\ e[2] \in MarkerIds /\ e[1] \in Nat /\ e[1] <= n /\ byteOffset <= e[1]
             /\ e[1] = byteOffset => n = byteOffset
  <2>1. PICK s \in D : \E id \in Probe[s] : e = <<n, id>>
    BY InObserved
  <2>2. e[1] = n /\ e[2] \in MarkerIds
    BY <2>1, MarkerAssumption
  <2> QED BY <1>2, <2>2
<1> QED
  BY <1>2, <1>3, <1>4 DEF SeenUpTo

LEMMA RetainedIsNew ==
    ASSUME OnceInv, busy, NEW n, NEW seen, SeenUpTo(seen, n), NEW e \in Retained(seen)
    PROVE  e \notin reported
<1> SUFFICES ASSUME e \in reported PROVE FALSE
  OBVIOUS
<1>1. /\ e \in seen /\ (e[1] # Min(Offsets(seen, e[2])) \/ e[1] # lastPositions[e[2]])
      /\ e[1] \in Nat /\ byteOffset <= e[1] /\ (e[1] = byteOffset => n = byteOffset)
  BY DEF Retained, SeenUpTo
<1>2. e[1] <= byteOffset /\ (e[1] = byteOffset => lastPositions[e[2]] = byteOffset) /\ byteOffset \in Nat
  BY DEF OnceInv, GivenBy, Given
<1>3. e[1] = byteOffset /\ n = byteOffset /\ lastPositions[e[2]] = byteOffset
  BY <1>1, <1>2
<1>4. PICK O : O = Offsets(seen, e[2])
  OBVIOUS
<1>5. O \in SUBSET Nat /\ \A x \in O : byteOffset <= x
  BY <1>4, InOffsets DEF SeenUpTo
<1>6. byteOffset \in O
  BY <1>1, <1>3, <1>4, InOffsets
<1>7. Min(O) = byteOffset
  BY <1>5, <1>6, MinOf
<1> QED
  BY <1>1, <1>3, <1>4, <1>7

LEMMA MovedIsGiven ==
    ASSUME OnceInv, busy, NEW n \in Nat, byteOffset <= n, NEW seen, SeenUpTo(seen, n)
    PROVE  GivenBy(reported \cup seen, n, MovedPositions(seen))
<1>1. byteOffset \in Nat /\ GivenBy(reported, byteOffset, lastPositions)
  BY DEF OnceInv, Given
<1>2. ASSUME NEW e \in reported \cup seen PROVE e[2] \in MarkerIds /\ e[1] \in Nat /\ e[1] <= n
  BY <1>1 DEF GivenBy, SeenUpTo
<1>3. ASSUME NEW e \in reported \cup seen, e[1] = n PROVE MovedPositions(seen)[e[2]] = n
  <2>1. PICK id \in MarkerIds : id = e[2]
    BY <1>2
  <2>2. PICK O : O = Offsets(seen, id)
    OBVIOUS
  <2>3. MovedPositions(seen)[id] = IF O = {} THEN lastPositions[id] ELSE Max(O)
    BY <2>2 DEF MovedPositions
  <2>4. O \in SUBSET Nat /\ \A x \in O : x <= n /\ byteOffset <= x
    BY <2>2, InOffsets DEF SeenUpTo
  <2>5. n \in O => Max(O) = n
    BY <2>4, MaxOf
  <2>6. CASE e \in seen
    <3>1. n \in O
      BY <1>3, <2>1, <2>2, <2>6, InOffsets
    <3> QED BY <2>1, <2>3, <2>5, <3>1
  <2>7. CASE e \in reported
    <3>1. e[1] <= byteOffset /\ (e[1] = byteOffset => lastPositions[id] = byteOffset)
      BY <1>1, <2>1, <2>7 DEF GivenBy
    <3>2. n = byteOffset /\ lastPositions[id] = n
      BY <1>1, <1>3, <3>1
    <3>3. \A x \in O : x = n
      BY <2>4, <3>2
    <3> QED BY <2>1, <2>3, <2>5, <3>2, <3>3
  <2> QED BY <2>6, <2>7
<1> QED
  BY <1>2, <1>3 DEF GivenBy

LEMMA OnceFinish ==
    ASSUME TypeOK, OnceInv, MarkedFinishCommit
    PROVE  OnceInv'
<1>1. busy /\ ~busy' /\ UNCHANGED reported /\ FinishCommit /\ FinishMarkers
  BY DEF MarkedFinishCommit, FinishCommit, FinishMarkers
<1>2. CASE frontier' = NoStates
  <2>1. events' = {} /\ UNCHANGED <<byteOffset, lastPositions>>
    BY <1>1, <1>2 DEF FinishMarkers
  <2>2. Given' = Given
    BY <1>1, <2>1 DEF Given
  <2> QED BY <1>1, <2>1, <2>2 DEF OnceInv
<1>3. CASE frontier' # NoStates
  <2>1. PICK n : n = byteOffset + Len(bytes)
    OBVIOUS
  <2>2. PICK D : D = DOMAIN frontier'[LexStart]
    OBVIOUS
  <2>3. PICK seen : seen = events \cup Observed(D, n)
    OBVIOUS
  <2>4. events' = Retained(seen) /\ lastPositions' = MovedPositions(seen) /\ byteOffset' = n
    BY <1>1, <1>3, <2>1, <2>2, <2>3 DEF FinishMarkers
  <2>5. D \in SUBSET Stacks
    <3>1. IsStateMap(frontier)' /\ LexStart \in LexStates
      BY <1>1, FinishType, LexerAssumption DEF TypeOK
    <3> QED BY <2>2, <3>1, StateMapElim, GssElim
  <2>6. n \in Nat /\ byteOffset <= n /\ SeenUpTo(seen, n)
    BY <1>1, <2>1, <2>3, <2>5, SeenAtFinish
  <2>7. GivenBy(reported \cup seen, n, lastPositions')
    BY <1>1, <2>4, <2>6, MovedIsGiven
  <2>8. Retained(seen) \subseteq seen /\ Retained(seen) \cap reported = {}
    <3>1. Retained(seen) \subseteq seen
      BY DEF Retained
    <3>2. \A e \in Retained(seen) : e \notin reported
      BY <1>1, <2>6, RetainedIsNew
    <3> QED BY <3>1, <3>2
  <2>9. Given' = reported \cup Retained(seen)
    BY <1>1, <2>4 DEF Given
  <2>10. GivenBy(Given', n, lastPositions')
    BY <2>7, <2>8, <2>9 DEF GivenBy
  <2> QED BY <1>1, <2>4, <2>6, <2>8, <2>10 DEF OnceInv
<1> QED
  BY <1>2, <1>3

LEMMA OnceStep ==
    ASSUME TypeOK, OnceInv, [MarkedNext]_allVars
    PROVE  OnceInv'
<1>1. CASE UNCHANGED allVars
  <2>1. UNCHANGED <<bytes, busy, events, byteOffset, lastPositions, reported>>
    BY <1>1 DEF allVars, vars, markerVars
  <2> QED BY <2>1 DEF OnceInv, Given
<1>2. CASE MarkedStart
  <2>1. /\ ~busy' /\ byteOffset' = 0 /\ reported' = {}
        /\ events' = InitializeMarkers.events /\ lastPositions' = InitializeMarkers.last
    BY <1>2 DEF MarkedStart, Start
  <2>2. Given' = InitializeMarkers.events
    BY <2>1 DEF Given
  <2> QED BY <2>1, <2>2, StartIsGiven DEF OnceInv
<1>3. ASSUME NEW k \in Tokens, MarkedCommitToken(k) PROVE OnceInv'
  BY <1>3, OnceBegin DEF MarkedCommitToken, CommitToken
<1>4. ASSUME NEW k \in Tokens, MarkedCommitBytes(TokenBytes[k]) PROVE OnceInv'
  BY <1>4, OnceBegin DEF MarkedCommitBytes, CommitBytes
<1>5. ASSUME NEW k \in Tokens, OverflowCommit(TokenBytes[k]) PROVE OnceInv'
  BY <1>5, OnceBegin DEF OverflowCommit
<1>6. ASSUME NEW q \in LexStates, MarkedProcessEntry(q) PROVE OnceInv'
  BY <1>6, OnceObserve DEF MarkedProcessEntry, ProcessEntry
<1>7. CASE MarkedNextOffset
  <2>1. UNCHANGED <<bytes, busy, events, byteOffset, lastPositions, reported>>
    BY <1>7 DEF MarkedNextOffset, NextOffset, markerVars
  <2> QED BY <2>1 DEF OnceInv, Given
<1>8. CASE MarkedFinishCommit
  BY <1>8, OnceFinish
<1> QED
  BY <1>1, <1>2, <1>3, <1>4, <1>5, <1>6, <1>7, <1>8 DEF MarkedNext

LEMMA OnceInit ==
    ASSUME MarkedInit
    PROVE  OnceInv
<1>1. /\ ~busy /\ byteOffset = 0 /\ reported = {}
      /\ events = InitializeMarkers.events /\ lastPositions = InitializeMarkers.last
  BY DEF MarkedInit, Init
<1>2. Given = InitializeMarkers.events
  BY <1>1 DEF Given
<1> QED
  BY <1>1, <1>2, StartIsGiven DEF OnceInv

LEMMA OnceInvariant == MarkedSpec => []OnceInv
<1>1. TypeOK /\ OnceInv /\ [MarkedNext]_allVars => OnceInv'
  BY OnceStep
<1>2. MarkedInit => OnceInv
  BY OnceInit
<1> QED
  BY <1>1, <1>2, MarkedTyped, PTL DEF MarkedSpec

(* Whatever the lexer and the grammar, no event is given in two batches of  *)
(* a session: last_positions is enough to tell the events of a commit that  *)
(* takes no byte from those already given at the same offset.               *)
THEOREM MarkersGivenOnce == MarkedSpec => [](~busy => events \cap reported = {})
<1>1. OnceInv => (~busy => events \cap reported = {})
  BY DEF OnceInv
<1> QED
  BY <1>1, OnceInvariant, PTL

----------------------------------------------------------------------------
(* What a batch holds was passed *)

(* A lexeme of the text takes a parse to its end. *)
LEMMA CutStep ==
    ASSUME NEW y \in Seq(Symbols), NEW j \in Nat, NEW n \in Nat, n >= 1, j + n <= Len(y), NEW t \in Terminals,
           Matches(LexStart, y, j, n, t), ~Larger(y, j, n, t), NEW s \in Cuts(y)[j], NEW z \in Shifted({s}, t)
    PROVE  z \in Cuts(y)[j + n]
<1>1. Lexeme(y, j, j + n, t)
  BY LexemeIntro
<1>2. z \in Shifted(Cuts(y)[j], t)
  BY InShifted
<1>3. PICK k \in 1..Len(y) : k = j + n
  OBVIOUS
<1>4. j \in 0..(k - 1) /\ Lexeme(y, j, k, t)
  BY <1>1, <1>3
<1>5. z \in Cuts(y)[k]
  BY <1>2, <1>4, CutsIntro
<1> QED
  BY <1>3, <1>5

(* A match that is the longest from inside an ignored lexeme is the rest of *)
(* that lexeme, and ends where it does.                                     *)
LEMMA CutFromIgnored ==
    ASSUME OnePartition, IgnoredRestart, NEW y \in Seq(Symbols), NEW i \in Nat, NEW n \in Nat, n >= 1,
           i + n <= Len(y), NEW t \in Terminals, Matches(LexStart, y, i, n, t), ~Larger(y, i, n, t),
           NEW s, AtCut(s, i, y), NEW z \in Shifted({s}, t)
    PROVE  z \in Cuts(y)[i + n]
<1>1. CASE s \in Cuts(y)[i]
  BY <1>1, CutStep
<1>2. ASSUME NEW j \in Nat, NEW l \in Nat, NEW u \in Ignored, j + l = i, s \in Cuts(y)[j], Grows(y, j, l, u)
      PROVE  z \in Cuts(y)[i + n]
  <2>1. j + l + n <= Len(y) /\ Matches(LexStart, y, j + l, n, t)
    BY <1>2
  <2>2. t = u /\ Matches(LexStart, y, j, l + n, t) /\ Matches(LexStart, y, j, l, t)
    BY <1>2, <2>1, MatchFollowsIgnored DEF Grows
  <2>3. ~Larger(y, j, l + n, t)
    <3> SUFFICES ASSUME NEW m \in 1..(Len(y) - j), m > l + n, Matches(LexStart, y, j, m, t) PROVE FALSE
      BY DEF Larger
    <3>1. m > l /\ Len(y) \in Nat
      OBVIOUS
    <3>2. Matches(LexStart, y, j + l, m - l, t)
      BY <1>2, <2>2, <3>1, LongerFromIgnored
    <3>3. m - l \in 1..(Len(y) - i) /\ m - l > n
      BY <1>2, <3>1
    <3> QED BY <1>2, <3>2, <3>3 DEF Larger
  <2>4. PICK h \in Nat : h = l + n /\ h >= 1 /\ j + h <= Len(y) /\ j + h = i + n
    BY <1>2
  <2>5. z \in Cuts(y)[j + h]
    BY <1>2, <2>2, <2>3, <2>4, CutStep
  <2> QED BY <2>4, <2>5
<1> QED
  BY <1>1, <1>2 DEF AtCut

LEMMA ArrivalIsCut ==
    ASSUME OnePartition, IgnoredRestart, TypeOK, NEW q, NEW i, NEW d, NEW y, Entry(q, i, d, y),
           NEW k \in 1..Len(bytes), NEW t \in Terminals, Arrives(q, k, t), NEW s, NEW E,
           Held(s, E, i, y \o bytes), NEW z \in Shifted({s}, t)
    PROVE  z \in Cuts(y \o bytes)[Len(y) + k]
<1>1. i \in Nat /\ d \in Nat /\ y \in Before
  BY DEF Entry
<1>2. PICK x \in Seq(Symbols) : x = y \o bytes
  BY <1>1, BeforeFacts
<1>3. PICK v \in Seq(Bytes) : x \o v = x /\ \A F : ~Violated(F, v)
  <2>1. <<>> \in Seq(Bytes) /\ x \o <<>> = x /\ \A F : ~Violated(F, <<>>)
    BY ConcatEmpty, NothingViolated
  <2> QED BY <2>1
<1>4. PICK Y : Y = (y \o bytes) \o v
  OBVIOUS
<1>5. PICK n \in Nat : /\ n >= 1 /\ i + n = Len(y) + k /\ i + n <= Len(Y)
                       /\ Matches(LexStart, Y, i, n, t) /\ n = d + (k - offset)
  BY <1>4, ArrivalMatch
<1>6. Layout(Y, i + d, Rest, v) /\ q \in States(LexStart, Y, i, d)
  BY <1>4, EntryLayout
<1>7. PICK m : m = k - offset
  OBVIOUS
<1>8. LongestMatch(q, Rest, t, m)
  BY <1>7 DEF Arrives
<1>9. ~Larger(Y, i, d + m, t)
  BY <1>1, <1>3, <1>6, <1>8, EntryLongest
<1>10. ~Larger(Y, i, n, t)
  BY <1>5, <1>7, <1>9
<1>11. Y = x /\ AtCut(s, i, x)
  BY <1>2, <1>3, <1>4, HeldNow
<1>12. z \in Cuts(x)[i + n]
  BY <1>1, <1>5, <1>10, <1>11, CutFromIgnored
<1> QED
  BY <1>2, <1>5, <1>12

(* Every stack that an entry of the queue arrives with is a parse of the    *)
(* text, cut at the offset where it arrives.                                *)
LEMMA ArrivalsAreCuts ==
    ASSUME OnePartition, IgnoredRestart, TypeOK, SInv, busy, NEW q \in LexStates, offset < Len(bytes),
           NEW k \in 1..Len(bytes), NEW z \in DOMAIN Arrivals(AtOffset(q), q, k)
    PROVE  \E y \in Before : z \in Cuts(y \o bytes)[Len(y) + k]
<1>1. PICK g : g = AtOffset(q)
  OBVIOUS
<1>2. GssOK(g, AtEntry(q), texts)
  BY <1>1, EntryOK
<1>3. PICK t \in Terminals : Arrives(q, k, t) /\ z \in DOMAIN AfterMatch(g, q, t)
  BY <1>1, InArrivals
<1>4. PICK s \in DOMAIN g : z \in Shifted({s}, t)
  <2>1. CASE t \in Ignored
    <3>1. z \in DOMAIN g
      BY <1>3, <2>1 DEF AfterMatch
    <3> QED BY <2>1, <3>1 DEF Shifted
  <2>2. CASE t \notin Ignored
    <3>1. z \in DOMAIN AdvanceStacks(g, t)
      BY <1>3, <2>2 DEF AfterMatch, ApplyFutureTerminalDisallow
    <3>2. PICK s \in DOMAIN g : z \in Advance[s][t]
      BY <3>1, InAdvance
    <3> QED BY <2>2, <3>2 DEF Shifted
  <2> QED BY <2>1, <2>2
<1>5. PICK r \in AtEntry(q) : Held(s, g[s], r[1], r[2])
  BY <1>2 DEF GssOK, Grounded
<1>6. PICK y, d : Entry(q, r[1], d, y) /\ r[2] = y \o bytes
  BY EntryPlace
<1>7. PICK i : i = r[1] /\ Entry(q, i, d, y) /\ Held(s, g[s], i, y \o bytes)
  BY <1>5, <1>6
<1>8. z \in Cuts(y \o bytes)[Len(y) + k]
  BY <1>3, <1>4, <1>7, ArrivalIsCut
<1> QED
  BY <1>7, <1>8 DEF Entry

(* The ends of the lexemes of x in a commit of width bytes. *)
LastEnds(x, width) ==
    IF x = <<>> \/ x[Len(x)] \in Terminals THEN {Len(x)} ELSE (Len(x) - width + 1)..Len(x)

(* The marker id is admitted at position m of x, which is at the offset at. *)
Marks(e, x, m, at) == \E z \in Cuts(x)[m] : \E id \in Probe[z] : e = <<at, id>>

(* What Passed is for the texts X, committed from offset b to offset n. *)
PassedOf(X, n, b) ==
    UNION {UNION {Observed(Cuts(x)[m], n - (Len(x) - m)) : m \in LastEnds(x, n - b)} : x \in X}

LEMMA PassedIs == Passed = PassedOf(texts, byteOffset, base)
  BY DEF Passed, PassedOf, LastEnds

LEMMA PassedIntro ==
    ASSUME NEW X, NEW n, NEW b, NEW e, NEW x \in X, NEW m \in LastEnds(x, n - b),
           Marks(e, x, m, n - (Len(x) - m))
    PROVE  e \in PassedOf(X, n, b)
<1>1. e \in Observed(Cuts(x)[m], n - (Len(x) - m))
  BY InObserved DEF Marks
<1>2. e \in UNION {Observed(Cuts(x)[k], n - (Len(x) - k)) : k \in LastEnds(x, n - b)}
  BY <1>1
<1> QED
  BY <1>2 DEF PassedOf

PassedInv ==
    /\ byteOffset \in Nat
    /\ busy => /\ byteOffset = base
               /\ \A e \in events : \E k \in 1..Len(bytes), y \in Before :
                     Marks(e, y \o bytes, Len(y) + k, byteOffset + k)
               /\ \A x \in texts : bytes # <<>> \/ x[Len(x)] \in Terminals
    /\ ~busy /\ Alive => events \subseteq Passed

LEMMA PassedStart == InitializeMarkers.events \subseteq PassedOf({<<>>}, 0, 0)
<1> SUFFICES ASSUME NEW e \in InitializeMarkers.events PROVE e \in PassedOf({<<>>}, 0, 0)
  OBVIOUS
<1>1. e \in Observed({StartStack}, 0)
  BY DEF InitializeMarkers
<1>2. \E z \in {StartStack} : \E id \in Probe[z] : e = <<0, id>>
  BY <1>1, InObserved
<1>3. PICK x \in Seq(Symbols) : x = <<>> /\ Len(x) = 0
  <2>1. <<>> \in Seq(Symbols) /\ Len(<<>>) = 0
    OBVIOUS
  <2> QED BY <2>1
<1>4. Cuts(x)[0] = {StartStack}
  BY CutsUnfold
<1>5. 0 \in LastEnds(x, 0 - 0) /\ 0 - (Len(x) - 0) = 0
  <2>1. \A w : LastEnds(x, w) = {Len(x)}
    BY <1>3 DEF LastEnds
  <2>2. 0 - (0 - 0) = 0
    OBVIOUS
  <2> QED BY <1>3, <2>1, <2>2
<1>6. Marks(e, x, 0, 0 - (Len(x) - 0))
  BY <1>2, <1>4, <1>5 DEF Marks
<1> QED
  BY <1>3, <1>5, <1>6, PassedIntro

LEMMA PassedInit ==
    ASSUME MarkedInit
    PROVE  PassedInv
<1>1. ~busy /\ byteOffset = 0 /\ base = 0 /\ texts = {<<>>} /\ events = InitializeMarkers.events
  BY DEF MarkedInit, Init
<1> QED
  BY <1>1, PassedStart, PassedIs DEF PassedInv

LEMMA PassedObserve ==
    ASSUME OnePartition, IgnoredRestart, TypeOK, SInv, PassedInv, NEW q \in LexStates, MarkedProcessEntry(q)
    PROVE  PassedInv'
<1>0. /\ busy /\ offset < Len(bytes) /\ offset \in Nat /\ Len(bytes) \in Nat
      /\ UNCHANGED <<bytes, busy, texts, byteOffset, base>>
  BY DEF MarkedProcessEntry, ProcessEntry, ObserveEntry, TypeOK
<1> DEFINE D(i) == DOMAIN Arrivals(AtOffset(q), q, i)
           new == UNION {Observed(D(i), byteOffset + i) : i \in (offset + 1)..Len(bytes)}
<1>1. events' = events \cup new
  BY DEF MarkedProcessEntry, ObserveEntry
<1>2. ASSUME NEW k \in 1..Len(bytes), NEW z \in D(k)
      PROVE  \E y \in Before : z \in Cuts(y \o bytes)[Len(y) + k]
  BY <1>0, ArrivalsAreCuts
<1> HIDE DEF D
<1>3. ASSUME NEW e \in new
      PROVE  \E k \in 1..Len(bytes), y \in Before : Marks(e, y \o bytes, Len(y) + k, byteOffset + k)
  <2>1. PICK k \in (offset + 1)..Len(bytes) : e \in Observed(D(k), byteOffset + k)
    OBVIOUS
  <2>2. PICK z \in D(k) : \E id \in Probe[z] : e = <<byteOffset + k, id>>
    BY <2>1, InObserved
  <2>3. k \in 1..Len(bytes)
    BY <1>0
  <2>4. PICK y \in Before : z \in Cuts(y \o bytes)[Len(y) + k]
    BY <1>2, <2>3
  <2>5. Marks(e, y \o bytes, Len(y) + k, byteOffset + k)
    BY <2>2, <2>4 DEF Marks
  <2> QED BY <2>3, <2>5
<1> HIDE DEF new
<1>4. Before' = Before
  BY <1>0 DEF Before
<1> QED
  BY <1>0, <1>1, <1>3, <1>4 DEF PassedInv

(* What the observer saw while the queue was drained is passed. *)
LEMMA PassedInside ==
    ASSUME TypeOK, NEW n, byteOffset \in Nat, n = byteOffset + Len(bytes), NEW e,
           NEW k \in 1..Len(bytes), NEW y \in Before, Marks(e, y \o bytes, Len(y) + k, byteOffset + k)
    PROVE  e \in PassedOf(texts, n, byteOffset)
<1>1. y \in Seq(Symbols) /\ bytes \in Seq(Bytes) /\ Len(bytes) \in Nat /\ Len(y) \in Nat
  BY BeforeFacts DEF TypeOK
<1>2. PICK x \in texts : /\ x = y \o bytes /\ Len(x) = Len(y) + Len(bytes)
                         /\ x[Len(y) + Len(bytes)] = bytes[Len(bytes)]
  <2>1. y \o bytes \in texts /\ Len(y \o bytes) = Len(y) + Len(bytes)
    BY BeforeFacts
  <2>2. (y \o bytes)[Len(y) + Len(bytes)] = bytes[Len(bytes)]
    BY <1>1, ConcatFacts
  <2> QED BY <2>1, <2>2
<1>3. x[Len(x)] \in Bytes /\ x[Len(x)] \notin Terminals
  <2>1. bytes[Len(bytes)] \in Bytes
    BY <1>1
  <2> QED BY <1>2, <2>1, LexerAssumption
<1>4. PICK m \in Nat : m = Len(y) + k
  BY <1>1
<1>5. PICK a \in Nat : a = Len(y)
  BY <1>1
<1>6. PICK w \in Nat : w = Len(bytes) /\ k \in 1..w
  BY <1>1
<1>7. PICK c \in Nat : c = Len(x) /\ c = a + w
  BY <1>1, <1>2, <1>5, <1>6
<1>8. n - byteOffset = w /\ m \in (c - w + 1)..c /\ n - (c - m) = byteOffset + k /\ c # 0
  <2>1. n = byteOffset + w /\ m = a + k /\ c = a + w /\ k \in 1..w
    BY <1>4, <1>5, <1>6, <1>7
  <2> QED BY ONLY byteOffset \in Nat, a \in Nat, w \in Nat, c \in Nat, m \in Nat, <2>1
<1>9. m \in LastEnds(x, n - byteOffset)
  <2>1. x # <<>>
    BY <1>7, <1>8
  <2>2. LastEnds(x, w) = (c - w + 1)..c
    BY <1>3, <1>7, <2>1 DEF LastEnds
  <2> QED BY <1>8, <2>2
<1>10. Marks(e, x, m, n - (Len(x) - m))
  BY <1>2, <1>4, <1>7, <1>8
<1> QED
  BY <1>9, <1>10, PassedIntro

(* So is what it saw in the frontier that the commit leaves. *)
LEMMA PassedAtEnd ==
    ASSUME TypeOK, NEW n, byteOffset \in Nat, n = byteOffset + Len(bytes), NEW x \in texts,
           bytes # <<>> \/ x[Len(x)] \in Terminals, NEW e, Marks(e, x, Len(x), n)
    PROVE  e \in PassedOf(texts, n, byteOffset)
<1>1. bytes \in Seq(Bytes) /\ x \in Seq(Symbols)
  BY DEF TypeOK
<1>2. PICK w \in Nat : w = Len(bytes)
  BY <1>1
<1>3. PICK c \in Nat : c = Len(x)
  BY <1>1
<1>4. n \in Nat /\ n - byteOffset = w /\ n - (c - c) = n
  BY <1>2, <1>3
<1>5. c \in LastEnds(x, w)
  <2>1. CASE x = <<>> \/ x[Len(x)] \in Terminals
    BY <1>3, <2>1 DEF LastEnds
  <2>2. CASE ~(x = <<>> \/ x[Len(x)] \in Terminals)
    <3>1. w # 0
      BY <1>1, <1>2, <2>2
    <3>2. c \in (c - w + 1)..c
      BY <3>1
    <3>3. LastEnds(x, w) = (c - w + 1)..c
      BY <1>3, <2>2 DEF LastEnds
    <3> QED BY <3>2, <3>3
  <2> QED BY <2>1, <2>2
<1>6. Marks(e, x, c, n - (Len(x) - c))
  BY <1>3, <1>4
<1> QED
  BY <1>4, <1>5, <1>6, PassedIntro

LEMMA PassedFinish ==
    ASSUME NoReentry, OnePartition, IgnoredRestart, TypeOK, SInv, PassedInv, MarkedFinishCommit
    PROVE  PassedInv'
<1>1. /\ busy /\ ~busy' /\ UNCHANGED <<base, texts>> /\ FinishCommit /\ FinishMarkers
      /\ byteOffset \in Nat /\ byteOffset = base /\ bytes \in Seq(Bytes)
  BY DEF MarkedFinishCommit, FinishCommit, FinishMarkers, PassedInv, TypeOK
<1>2. CASE frontier' = NoStates
  <2>1. UNCHANGED byteOffset /\ ~Alive'
    BY <1>1, <1>2 DEF FinishMarkers, Alive
  <2> QED BY <1>1, <2>1 DEF PassedInv
<1>3. CASE frontier' # NoStates
  <2>1. PICK n : n = byteOffset + Len(bytes)
    OBVIOUS
  <2>2. PICK D : D = DOMAIN frontier'[LexStart]
    OBVIOUS
  <2>3. PICK seen : seen = events \cup Observed(D, n)
    OBVIOUS
  <2>4. events' = Retained(seen) /\ byteOffset' = n
    BY <1>1, <1>3, <2>1, <2>2, <2>3 DEF FinishMarkers
  <2>5. ASSUME NEW e \in events PROVE e \in PassedOf(texts, n, byteOffset)
    <3>1. PICK k \in 1..Len(bytes), y \in Before : Marks(e, y \o bytes, Len(y) + k, byteOffset + k)
      BY <1>1 DEF PassedInv
    <3> QED BY <1>1, <2>1, <3>1, PassedInside
  <2>6. ASSUME NEW z \in D PROVE \E x \in texts : z \in Cuts(x)[Len(x)]
    <3>1. MapOK(frontier', texts)
      <4>1. SInv'
        BY <1>1, FinishOK
      <4> QED BY <1>1, <4>1 DEF SInv
    <3>2. LexStart \in LexStates /\ texts \in SUBSET Seq(Symbols)
      BY LexerAssumption DEF TypeOK
    <3>3. Grounded(z, frontier'[LexStart][z], At(LexStart, texts), texts)
      BY <2>2, <3>1, <3>2 DEF MapOK, GssOK
    <3> QED BY <3>2, <3>3, StartIsCut
  <2>7. ASSUME NEW e \in Observed(D, n) PROVE e \in PassedOf(texts, n, byteOffset)
    <3>1. PICK z \in D : \E id \in Probe[z] : e = <<n, id>>
      BY InObserved
    <3>2. PICK x \in texts : z \in Cuts(x)[Len(x)]
      BY <2>6
    <3>3. Marks(e, x, Len(x), n)
      BY <3>1, <3>2 DEF Marks
    <3>4. bytes # <<>> \/ x[Len(x)] \in Terminals
      BY <1>1 DEF PassedInv
    <3> QED BY <1>1, <2>1, <3>3, <3>4, PassedAtEnd
  <2>8. events' \subseteq PassedOf(texts, n, byteOffset)
    BY <2>3, <2>4, <2>5, <2>7 DEF Retained
  <2>9. Passed' = PassedOf(texts', byteOffset', base')
    BY DEF Passed, PassedOf, LastEnds
  <2>10. n \in Nat
    BY <1>1, <2>1
  <2> QED BY <1>1, <2>4, <2>8, <2>9, <2>10 DEF PassedInv
<1> QED
  BY <1>2, <1>3

(* A commit begins with nothing seen, and what it reads ends every text.    *)
LEMMA PassedBegin ==
    ASSUME PassedInv, Begin, \A x \in texts' : bytes' # <<>> \/ x[Len(x)] \in Terminals, busy' = TRUE
    PROVE  PassedInv'
  BY DEF Begin, PassedInv

LEMMA PassedStep ==
    ASSUME NoReentry, OnePartition, IgnoredRestart, TypeOK, SInv, PassedInv, [MarkedNext]_allVars
    PROVE  PassedInv'
<1>1. CASE UNCHANGED allVars
  <2>1. UNCHANGED <<bytes, busy, texts, events, byteOffset, base, frontier>>
    BY <1>1 DEF allVars, vars, markerVars
  <2>2. Before' = Before /\ Passed' = Passed /\ Alive' = Alive
    BY <2>1 DEF Before, Passed, Alive
  <2> QED BY <2>1, <2>2 DEF PassedInv
<1>2. CASE MarkedStart
  <2>1. /\ ~busy' /\ byteOffset' = 0 /\ base' = 0 /\ texts' = {<<>>}
        /\ events' = InitializeMarkers.events
    BY <1>2 DEF MarkedStart, Start
  <2>2. Passed' = PassedOf(texts', byteOffset', base')
    BY DEF Passed, PassedOf, LastEnds
  <2> QED BY <2>1, <2>2, PassedStart DEF PassedInv
<1>3. ASSUME NEW k \in Tokens, MarkedCommitToken(k) PROVE PassedInv'
  <2>1. PICK w \in Seq(Bytes) : w = TokenBytes[k]
    BY TokenAssumption
  <2>2. bytes' = w /\ busy' = TRUE /\ Begin
    BY <1>3, <2>1 DEF MarkedCommitToken, CommitToken, LoadQueue
  <2> DEFINE A == {x \o w : x \in texts}
             B == {Append(x, t) : x \in texts, t \in TokenSpecials[k]}
  <2>3. texts' = (IF w = <<>> THEN {} ELSE A) \cup B
    BY <1>3, <2>1 DEF MarkedCommitToken, CommitToken
  <2>4. \A y \in B : \E x \in texts, t \in TokenSpecials[k] : y = Append(x, t)
    OBVIOUS
  <2> HIDE DEF A, B
  <2>5. ASSUME NEW y \in B PROVE y[Len(y)] \in Terminals
    <3>1. PICK x \in texts, t \in TokenSpecials[k] : y = Append(x, t)
      BY <2>4
    <3>2. x \in Seq(Symbols) /\ t \in Terminals /\ t \in Symbols
      BY TokenAssumption DEF TypeOK, Symbols
    <3>3. Len(y) = Len(x) + 1 /\ y[Len(x) + 1] = t
      BY <3>1, <3>2
    <3> QED BY <3>2, <3>3
  <2>6. \A x \in texts' : bytes' # <<>> \/ x[Len(x)] \in Terminals
    BY <2>2, <2>3, <2>5
  <2> QED BY <2>2, <2>6, PassedBegin
<1>4. ASSUME NEW k \in Tokens, TokenBytes[k] # <<>>, MarkedCommitBytes(TokenBytes[k]) PROVE PassedInv'
  BY <1>4, PassedBegin DEF MarkedCommitBytes, CommitBytes, LoadQueue
<1>5. ASSUME NEW k \in Tokens, OverflowCommit(TokenBytes[k]) PROVE PassedInv'
  <2>1. ~busy' /\ ~Alive' /\ UNCHANGED byteOffset
    BY <1>5 DEF OverflowCommit, Begin, Alive
  <2> QED BY <2>1 DEF PassedInv
<1>6. ASSUME NEW q \in LexStates, MarkedProcessEntry(q) PROVE PassedInv'
  BY <1>6, PassedObserve
<1>7. CASE MarkedNextOffset
  <2>1. UNCHANGED <<bytes, busy, texts, events, byteOffset, base, frontier>>
    BY <1>7 DEF MarkedNextOffset, NextOffset, markerVars
  <2>2. Before' = Before /\ Passed' = Passed /\ Alive' = Alive
    BY <2>1 DEF Before, Passed, Alive
  <2> QED BY <2>1, <2>2 DEF PassedInv
<1>8. CASE MarkedFinishCommit
  BY <1>8, PassedFinish
<1> QED
  BY <1>1, <1>2, <1>3, <1>4, <1>5, <1>6, <1>7, <1>8 DEF MarkedNext

(* However the text is divided into commits and the queue drained, a batch  *)
(* holds only markers that a parse of the whole text passes in the last     *)
(* commit, at the offset of the whole sequence, and none of an earlier      *)
(* batch.                                                                   *)
THEOREM MarkersBatchSound ==
    ASSUME NoReentry, OnePartition, IgnoredRestart
    PROVE  MarkedSpec => []BatchSound
<1>1. MarkedInit => PassedInv
  BY PassedInit
<1>2. TypeOK /\ SInv /\ PassedInv /\ [MarkedNext]_allVars => PassedInv'
  BY PassedStep
<1>3. OnceInv /\ PassedInv => BatchSound
  BY DEF OnceInv, PassedInv, BatchSound
<1> QED
  BY <1>1, <1>2, <1>3, MarkedInvariant, OnceInvariant, PTL DEF MarkedSpec

----------------------------------------------------------------------------
(* No parse is lost under the observer *)

LEMMA MarkedKeeps ==
    ASSUME TypeOK, MergesAgree, KInv, [MarkedNext]_allVars
    PROVE  KInv'
<1>1. TypeOK'
  BY MarkedType
<1>2. CASE Next \/ UNCHANGED vars
  BY <1>1, <1>2, NextKeeps
<1>3. CASE \E k \in Tokens : OverflowCommit(TokenBytes[k])
  <2>1. ~busy' /\ texts' = {}
    BY <1>3 DEF OverflowCommit
  <2>2. \A q : At(q, texts') = {}
    BY <2>1 DEF At
  <2> QED BY <2>1, <2>2 DEF KInv, MapKeeps
<1>4. Next \/ UNCHANGED vars \/ \E k \in Tokens : OverflowCommit(TokenBytes[k])
  BY MarkedIsNext DEF allVars
<1> QED
  BY <1>2, <1>3, <1>4

LEMMA MarkedKInit ==
    ASSUME MarkedInit
    PROVE  KInv
  BY StartKeeps DEF MarkedInit, Init, KInv

(* The observer and the overflow lose no parse either.                      *)
THEOREM MarkedKeepsParses ==
    MarkedSpec => ([]MergesAgree => []FrontierKeepsParses)
<1>1. MarkedInit => KInv
  BY MarkedKInit
<1>2. TypeOK /\ KInv /\ MergesAgree /\ [MarkedNext]_allVars => KInv'
  BY MarkedKeeps
<1>3. TypeOK /\ KInv => FrontierKeepsParses
  BY KeptNow
<1> QED
  BY <1>1, <1>2, <1>3, MarkedTyped, PTL DEF MarkedSpec

----------------------------------------------------------------------------
(* Every position that is remembered was given *)

(* What finish drops was given before: a position is kept only of an event  *)
(* of some batch.                                                           *)
LastInv ==
    /\ \A id \in MarkerIds : lastPositions[id] # NoPosition => <<lastPositions[id], id>> \in Given
    /\ busy => byteOffset + Len(bytes) <= MaxOffset
    /\ \A e \in events : e = <<e[1], e[2]>>

LEMMA ObservedPairs ==
    ASSUME NEW S, NEW at, NEW e \in Observed(S, at)
    PROVE  e = <<e[1], e[2]>>
<1>1. PICK s \in S : \E id \in Probe[s] : e = <<at, id>>
  BY InObserved
<1> QED
  BY <1>1

LEMMA LastStart ==
    /\ \A id \in MarkerIds : InitializeMarkers.last[id] # NoPosition =>
          <<InitializeMarkers.last[id], id>> \in InitializeMarkers.events
    /\ \A e \in InitializeMarkers.events : e = <<e[1], e[2]>>
<1>1. InitializeMarkers.events = Observed({StartStack}, 0)
  BY DEF InitializeMarkers
<1>2. ASSUME NEW id \in MarkerIds, InitializeMarkers.last[id] # NoPosition
      PROVE  <<InitializeMarkers.last[id], id>> \in InitializeMarkers.events
  <2>1. id \in Probe[StartStack] /\ InitializeMarkers.last[id] = 0
    BY <1>2 DEF InitializeMarkers
  <2>2. <<0, id>> \in Observed({StartStack}, 0)
    BY <2>1, InObserved
  <2> QED BY <1>1, <2>1, <2>2
<1> QED
  BY <1>1, <1>2, ObservedPairs

LEMMA LastBegin ==
    ASSUME LastInv, ~busy, Begin, busy' => byteOffset + Len(bytes') <= MaxOffset
    PROVE  LastInv'
<1>1. Given' = Given /\ lastPositions' = lastPositions /\ byteOffset' = byteOffset /\ events' = {}
  BY DEF Given, Begin
<1> QED
  BY <1>1 DEF LastInv

LEMMA LastObserve ==
    ASSUME LastInv, busy, NEW q \in LexStates, ObserveEntry(q), UNCHANGED <<bytes, busy>>
    PROVE  LastInv'
<1> DEFINE new == UNION {Observed(DOMAIN Arrivals(AtOffset(q), q, i), byteOffset + i) : i \in (offset + 1)..Len(bytes)}
<1>1. events' = events \cup new
  BY DEF ObserveEntry
<1>2. ASSUME NEW e \in new PROVE e = <<e[1], e[2]>>
  <2>1. PICK i \in (offset + 1)..Len(bytes) : e \in Observed(DOMAIN Arrivals(AtOffset(q), q, i), byteOffset + i)
    OBVIOUS
  <2> QED BY <2>1, ObservedPairs
<1> HIDE DEF new
<1>3. Given' = Given /\ UNCHANGED <<byteOffset, lastPositions>>
  BY DEF ObserveEntry, Given
<1> QED
  BY <1>1, <1>2, <1>3 DEF LastInv

(* Nothing that a commit saw is lost: it is in this batch or an earlier one. *)
LEMMA DroppedWasGiven ==
    ASSUME LastInv, busy, NEW n \in Nat, n <= MaxOffset, NEW seen, SeenUpTo(seen, n),
           \A e \in seen : e = <<e[1], e[2]>>
    PROVE  seen \subseteq reported \cup Retained(seen)
<1> SUFFICES ASSUME NEW e \in seen, e \notin Retained(seen) PROVE e \in reported
  OBVIOUS
<1>1. e[1] = lastPositions[e[2]] /\ e[2] \in MarkerIds /\ e[1] \in Nat /\ e[1] <= n /\ e = <<e[1], e[2]>>
  BY DEF Retained, SeenUpTo
<1>2. e[1] # NoPosition
  BY <1>1, MarkerAssumption DEF NoPosition
<1>3. <<lastPositions[e[2]], e[2]>> \in Given
  BY <1>1, <1>2 DEF LastInv
<1> QED
  BY <1>1, <1>3 DEF Given

LEMMA LastFinish ==
    ASSUME TypeOK, OnceInv, LastInv, MarkedFinishCommit
    PROVE  /\ LastInv'
           /\ frontier' # NoStates =>
                events \cup Observed(DOMAIN frontier'[LexStart], byteOffset + Len(bytes)) \subseteq reported' \cup events'
<1>1. busy /\ ~busy' /\ UNCHANGED reported /\ FinishCommit /\ FinishMarkers
  BY DEF MarkedFinishCommit, FinishCommit, FinishMarkers
<1>2. CASE frontier' = NoStates
  <2>1. events' = {} /\ UNCHANGED <<byteOffset, lastPositions>>
    BY <1>1, <1>2 DEF FinishMarkers
  <2>2. Given' = Given
    BY <1>1, <2>1 DEF Given
  <2> QED BY <1>1, <1>2, <2>1, <2>2 DEF LastInv
<1>3. CASE frontier' # NoStates
  <2>1. PICK n : n = byteOffset + Len(bytes)
    OBVIOUS
  <2>2. PICK D : D = DOMAIN frontier'[LexStart]
    OBVIOUS
  <2>3. PICK seen : seen = events \cup Observed(D, n)
    OBVIOUS
  <2>4. events' = Retained(seen) /\ lastPositions' = MovedPositions(seen)
    BY <1>1, <1>3, <2>1, <2>2, <2>3 DEF FinishMarkers
  <2>5. D \in SUBSET Stacks
    <3>1. IsStateMap(frontier)' /\ LexStart \in LexStates
      BY <1>1, FinishType, LexerAssumption DEF TypeOK
    <3> QED BY <2>2, <3>1, StateMapElim, GssElim
  <2>6. n \in Nat /\ n <= MaxOffset /\ SeenUpTo(seen, n)
    BY <1>1, <2>1, <2>3, <2>5, SeenAtFinish DEF LastInv
  <2>7. \A e \in seen : e = <<e[1], e[2]>>
    BY <2>3, ObservedPairs DEF LastInv
  <2>8. seen \subseteq reported \cup Retained(seen)
    BY <1>1, <2>6, <2>7, DroppedWasGiven
  <2>9. Given' = reported \cup Retained(seen)
    BY <1>1, <2>4 DEF Given
  <2>10. ASSUME NEW id \in MarkerIds, lastPositions'[id] # NoPosition PROVE <<lastPositions'[id], id>> \in Given'
    <3>1. PICK O : O = Offsets(seen, id)
      OBVIOUS
    <3>2. lastPositions'[id] = IF O = {} THEN lastPositions[id] ELSE Max(O)
      BY <2>4, <3>1 DEF MovedPositions
    <3>3. CASE O = {}
      <4>1. <<lastPositions[id], id>> \in Given
        BY <2>10, <3>2, <3>3 DEF LastInv
      <4> QED BY <1>1, <2>9, <3>2, <3>3, <4>1 DEF Given
    <3>4. CASE O # {}
      <4>1. O \subseteq 0..n /\ O \in SUBSET Nat
        <5>1. \A m \in O : m \in Nat /\ m <= n
          BY <2>6, <3>1, InOffsets DEF SeenUpTo
        <5> QED BY <2>6, <5>1
      <4>2. PICK m \in O : \A j \in O : j <= m
        BY <2>6, <3>4, <4>1, BoundedHasGreatest
      <4>3. Max(O) = m
        BY <4>1, <4>2, MaxOf
      <4>4. PICK e \in seen : e[2] = id /\ m = e[1]
        BY <3>1, InOffsets
      <4>5. <<m, id>> \in seen
        BY <2>7, <4>4
      <4> QED BY <2>8, <2>9, <3>2, <3>4, <4>3, <4>5
    <3> QED BY <3>3, <3>4
  <2>11. \A e \in events' : e = <<e[1], e[2]>>
    BY <2>4, <2>7 DEF Retained
  <2>12. LastInv'
    BY <1>1, <2>10, <2>11 DEF LastInv
  <2> QED BY <1>1, <2>1, <2>2, <2>3, <2>4, <2>8, <2>12
<1> QED
  BY <1>2, <1>3

LEMMA LastStep ==
    ASSUME TypeOK, OnceInv, LastInv, [MarkedNext]_allVars
    PROVE  LastInv'
<1>1. CASE UNCHANGED allVars
  <2>1. UNCHANGED <<bytes, busy, events, byteOffset, lastPositions, reported>>
    BY <1>1 DEF allVars, vars, markerVars
  <2> QED BY <2>1 DEF LastInv, Given
<1>2. CASE MarkedStart
  <2>1. /\ ~busy' /\ reported' = {}
        /\ events' = InitializeMarkers.events /\ lastPositions' = InitializeMarkers.last
    BY <1>2 DEF MarkedStart, Start
  <2>2. Given' = InitializeMarkers.events
    BY <2>1 DEF Given
  <2> QED BY <2>1, <2>2, LastStart DEF LastInv
<1>3. ASSUME NEW k \in Tokens, MarkedCommitToken(k) PROVE LastInv'
  BY <1>3, LastBegin DEF MarkedCommitToken, CommitToken, LoadQueue, FitsOffset
<1>4. ASSUME NEW k \in Tokens, MarkedCommitBytes(TokenBytes[k]) PROVE LastInv'
  BY <1>4, LastBegin DEF MarkedCommitBytes, CommitBytes, LoadQueue, FitsOffset
<1>5. ASSUME NEW k \in Tokens, OverflowCommit(TokenBytes[k]) PROVE LastInv'
  BY <1>5, LastBegin DEF OverflowCommit
<1>6. ASSUME NEW q \in LexStates, MarkedProcessEntry(q) PROVE LastInv'
  BY <1>6, LastObserve DEF MarkedProcessEntry, ProcessEntry
<1>7. CASE MarkedNextOffset
  <2>1. UNCHANGED <<bytes, busy, events, byteOffset, lastPositions, reported>>
    BY <1>7 DEF MarkedNextOffset, NextOffset, markerVars
  <2> QED BY <2>1 DEF LastInv, Given
<1>8. CASE MarkedFinishCommit
  BY <1>8, LastFinish
<1> QED
  BY <1>1, <1>2, <1>3, <1>4, <1>5, <1>6, <1>7, <1>8 DEF MarkedNext

LEMMA LastInvariant == MarkedSpec => []LastInv
<1>1. TypeOK /\ OnceInv /\ LastInv /\ [MarkedNext]_allVars => LastInv'
  BY LastStep
<1>2. MarkedInit => LastInv
  <2>1. MarkedInit => /\ ~busy /\ reported = {} /\ events = InitializeMarkers.events
                      /\ lastPositions = InitializeMarkers.last
    BY DEF MarkedInit, Init
  <2> QED BY <2>1, LastStart DEF LastInv, Given
<1> QED
  BY <1>1, <1>2, MarkedTyped, OnceInvariant, PTL DEF MarkedSpec

----------------------------------------------------------------------------
(* Every marker that is passed is seen *)

(* The markers where the matches of entry q of offset o end are recorded.   *)
Noted(o, q) ==
    \A i, y, v, s : Due(o, q, i, y, v, s) =>
        \A t \in Terminals, k \in 1..Len(bytes) : \A z \in Shifted({s}, t) :
            Takes(o, q, i, y, v, t, k) => \A id \in Probe[z] : <<byteOffset + k, id>> \in events

(* Of the entries the queue has gone past all is noted, of those of the     *)
(* current offset it is or what is due still waits.                         *)
NotedInv ==
    busy => \A o \in 0..(Len(bytes) - 1), q \in LexStates :
        /\ o < offset => Noted(o, q)
        /\ o = offset => Waiting(q) \/ Noted(o, q)

LEMMA NotedStays ==
    ASSUME bytes' = bytes, texts' = texts, byteOffset' = byteOffset, events \subseteq events', NEW o, NEW q, Noted(o, q)
    PROVE  Noted(o, q)'
<1> SUFFICES ASSUME NEW i, NEW y, NEW v, NEW s, Due(o, q, i, y, v, s)', NEW t \in Terminals, NEW k \in 1..Len(bytes'),
                    NEW z \in Shifted({s}, t), Takes(o, q, i, y, v, t, k)', NEW id \in Probe[z]
             PROVE  <<byteOffset' + k, id>> \in events'
  BY DEF Noted
<1>1. Due(o, q, i, y, v, s) /\ Takes(o, q, i, y, v, t, k) /\ k \in 1..Len(bytes)
  BY DueSame
<1>2. <<byteOffset + k, id>> \in events
  BY <1>1 DEF Noted
<1> QED
  BY <1>2

LEMMA EntryNoted ==
    ASSUME TypeOK, NEW q \in LexStates, MarkedProcessEntry(q), Waiting(q), NEW o, o = offset
    PROVE  Noted(o, q)'
<1>1. /\ bytes' = bytes /\ texts' = texts /\ byteOffset' = byteOffset /\ offset < Len(bytes)
  BY DEF MarkedProcessEntry, ProcessEntry, ObserveEntry
<1> DEFINE D(i) == DOMAIN Arrivals(AtOffset(q), q, i)
           new == UNION {Observed(D(i), byteOffset + i) : i \in (offset + 1)..Len(bytes)}
<1>2. events' = events \cup new
  BY DEF MarkedProcessEntry, ObserveEntry
<1>3. ASSUME NEW k \in (offset + 1)..Len(bytes), NEW e \in Observed(D(k), byteOffset + k) PROVE e \in new
  OBVIOUS
<1> SUFFICES ASSUME NEW i, NEW y, NEW v, NEW s, Due(o, q, i, y, v, s)', NEW t \in Terminals, NEW k \in 1..Len(bytes'),
                    NEW z \in Shifted({s}, t), Takes(o, q, i, y, v, t, k)', NEW id \in Probe[z]
             PROVE  <<byteOffset' + k, id>> \in events'
  BY DEF Noted
<1>4. Due(o, q, i, y, v, s) /\ Takes(o, q, i, y, v, t, k) /\ k \in 1..Len(bytes)
  BY <1>1, DueSame
<1>5. Due(offset, q, i, y, v, s) /\ Takes(offset, q, i, y, v, t, k)
  BY <1>4
<1>6. KeptAt(AtOffset(q), s, v)
  BY <1>5 DEF Waiting
<1>7. k \in (offset + 1)..Len(bytes) /\ Arrives(q, k, t)
  BY <1>1, <1>4, <1>5, <1>6, CarriedIsMet
<1>8. Brings(AtOffset(q), q, k, t, s, z)
  BY <1>6, <1>7 DEF Brings, KeptAt
<1>9. z \in D(k)
  BY <1>8, ArrivalsFrom
<1> HIDE DEF D
<1>10. <<byteOffset + k, id>> \in Observed(D(k), byteOffset + k)
  BY <1>9, InObserved
<1>11. <<byteOffset + k, id>> \in new
  BY <1>3, <1>7, <1>10
<1> HIDE DEF new
<1> QED
  BY <1>1, <1>2, <1>11

LEMMA NotedProcess ==
    ASSUME TypeOK, NotedInv, NEW r \in LexStates, MarkedProcessEntry(r)
    PROVE  NotedInv'
<1>1. /\ bytes' = bytes /\ texts' = texts /\ offset' = offset /\ byteOffset' = byteOffset /\ busy' = busy /\ busy
      /\ events \subseteq events' /\ ProcessEntry(r)
  BY DEF MarkedProcessEntry, ProcessEntry, ObserveEntry
<1>2. ASSUME NEW o \in 0..(Len(bytes) - 1), NEW q \in LexStates
      PROVE  (o < offset => Noted(o, q)') /\ (o = offset => Waiting(q)' \/ Noted(o, q)')
  <2>1. Noted(o, q) => Noted(o, q)'
    BY <1>1, NotedStays
  <2>2. o = offset /\ q = r /\ Waiting(q) => Noted(o, q)'
    BY EntryNoted
  <2>3. q # r /\ Waiting(q) => Waiting(q)'
    BY <1>1, WaitingStays
  <2> QED BY <1>1, <2>1, <2>2, <2>3 DEF NotedInv
<1> QED
  BY <1>1, <1>2 DEF NotedInv

LEMMA NotedNextOffset ==
    ASSUME TypeOK, KInv, NotedInv, MarkedNextOffset
    PROVE  NotedInv'
<1>1. /\ bytes' = bytes /\ texts' = texts /\ offset' = offset + 1 /\ byteOffset' = byteOffset /\ busy
      /\ events' = events /\ NextOffset /\ offset \in Nat /\ Len(bytes) \in Nat /\ queue[offset] = NoStates
  BY DEF MarkedNextOffset, NextOffset, markerVars, TypeOK
<1>2. ASSUME NEW q \in LexStates, Waiting(q), NEW o, o = offset PROVE Noted(o, q)
  BY <1>1, <1>2, NothingWaits DEF Noted
<1>3. ASSUME NEW o \in 0..(Len(bytes) - 1), NEW q \in LexStates
      PROVE  (o < offset' => Noted(o, q)') /\ (o = offset' => Waiting(q)' \/ Noted(o, q)')
  <2>1. ASSUME o < offset' PROVE Noted(o, q)'
    <3>1. o < offset \/ o = offset
      BY <1>1, <2>1
    <3>2. Noted(o, q)
      BY <1>1, <1>2, <3>1 DEF NotedInv
    <3> QED BY <1>1, <3>2, NotedStays
  <2>2. ASSUME o = offset' PROVE Waiting(q)'
    <3>1. offset + 1 < Len(bytes)
      BY <1>1, <2>2
    <3> QED BY <1>1, <3>1, AllSent, NextWaiting
  <2> QED BY <2>1, <2>2
<1> QED
  BY <1>1, <1>3 DEF NotedInv

LEMMA NotedLoad ==
    ASSUME TypeOK, KInv, NEW k, NEW w \in Seq(Bytes), NEW T \in SUBSET (Terminals \ Ignored), Loads(k, w, T)
    PROVE  NotedInv'
<1>1. LoadQueue(w) /\ MapKeeps(frontier, texts) /\ bytes' = w /\ offset' = 0 /\ Len(w) \in Nat
  BY DEF Loads, KInv, LoadQueue
<1>2. ASSUME w # <<>> PROVE \A q \in LexStates : Waiting(q)'
  <2>1. \A x \in texts' : (\E y \in texts : x = y \o w) \/ \E y \in texts, t \in T : x = Append(y, t)
    BY DEF Loads
  <2> QED BY <1>1, <1>2, <2>1, LoadWaiting
<1>3. ASSUME NEW o \in 0..(Len(bytes') - 1), NEW q \in LexStates
      PROVE  (o < offset' => Noted(o, q)') /\ (o = offset' => Waiting(q)' \/ Noted(o, q)')
  <2>1. ~(o < offset') /\ w # <<>>
    BY <1>1
  <2> QED BY <1>2, <2>1
<1> QED
  BY <1>3 DEF NotedInv

LEMMA NotedStep ==
    ASSUME TypeOK, KInv, NotedInv, [MarkedNext]_allVars
    PROVE  NotedInv'
<1>1. CASE UNCHANGED allVars
  <2>1. UNCHANGED <<queue, bytes, offset, busy, texts, events, byteOffset>>
    BY <1>1 DEF allVars, vars, markerVars
  <2>2. \A o, q : Noted(o, q) => Noted(o, q)'
    BY <2>1, NotedStays
  <2>3. ASSUME NEW q, Waiting(q) PROVE Waiting(q)'
    <3>1. AtOffset(q)' = AtOffset(q)
      BY <2>1 DEF AtOffset
    <3>2. \A o, i, y, v, s : Due(o, q, i, y, v, s)' <=> Due(o, q, i, y, v, s)
      BY <2>1, DueSame
    <3> QED BY <2>1, <2>3, <3>1, <3>2 DEF Waiting, KeptAt
  <2> QED BY <2>1, <2>2, <2>3 DEF NotedInv
<1>2. CASE MarkedStart
  BY <1>2 DEF MarkedStart, Start, NotedInv
<1>3. ASSUME NEW k \in Tokens, MarkedCommitToken(k) PROVE NotedInv'
  BY <1>3, TokenLoads, NotedLoad DEF MarkedCommitToken
<1>4. ASSUME NEW k \in Tokens, TokenBytes[k] # <<>>, MarkedCommitBytes(TokenBytes[k]) PROVE NotedInv'
  BY <1>4, BytesLoad, NotedLoad DEF MarkedCommitBytes
<1>5. ASSUME NEW k \in Tokens, OverflowCommit(TokenBytes[k]) PROVE NotedInv'
  BY <1>5 DEF OverflowCommit, NotedInv
<1>6. ASSUME NEW q \in LexStates, MarkedProcessEntry(q) PROVE NotedInv'
  BY <1>6, NotedProcess
<1>7. CASE MarkedNextOffset
  BY <1>7, NotedNextOffset
<1>8. CASE MarkedFinishCommit
  BY <1>8 DEF MarkedFinishCommit, FinishCommit, NotedInv
<1> QED
  BY <1>1, <1>2, <1>3, <1>4, <1>5, <1>6, <1>7, <1>8 DEF MarkedNext

----------------------------------------------------------------------------
(* Every marker that is passed is given *)

LEMMA PassedElim ==
    ASSUME NEW X, NEW n, NEW b, NEW e \in PassedOf(X, n, b)
    PROVE  \E x \in X : \E m \in LastEnds(x, n - b) : Marks(e, x, m, n - (Len(x) - m))
<1>1. PICK x \in X : e \in UNION {Observed(Cuts(x)[m], n - (Len(x) - m)) : m \in LastEnds(x, n - b)}
  BY DEF PassedOf
<1>2. PICK m \in LastEnds(x, n - b) : e \in Observed(Cuts(x)[m], n - (Len(x) - m))
  BY <1>1
<1> QED
  BY <1>2, InObserved DEF Marks

(* Inside the bytes, what is passed was noted while the queue was drained.  *)
LEMMA InsideIsNoted ==
    ASSUME TypeOK, NotedInv, busy, offset = Len(bytes), NEW y \in Before, NEW k \in 1..Len(bytes), NEW e,
           Marks(e, y \o bytes, Len(y) + k, byteOffset + k)
    PROVE  e \in events
<1>1. y \in Seq(Symbols) /\ bytes \in Seq(Bytes) /\ Len(bytes) \in Nat /\ y \o bytes \in Seq(Symbols)
  BY BeforeFacts DEF TypeOK
<1>2. PICK z \in Cuts(y \o bytes)[Len(y) + k] : \E id \in Probe[z] : e = <<byteOffset + k, id>>
  BY DEF Marks
<1>3. PICK v \in Seq(Bytes) : (y \o bytes) \o v = y \o bytes
  BY <1>1, ConcatEmpty
<1>4. z \in Cuts(Text(y, v))[Len(y) + k]
  BY <1>2, <1>3 DEF Text
<1>5. PICK o \in 0..(k - 1), q \in LexStates : \E i, s : \E t \in Terminals :
            Due(o, q, i, y, v, s) /\ Takes(o, q, i, y, v, t, k) /\ z \in Shifted({s}, t)
  BY <1>4, Cover
<1>6. PICK i, s : \E t \in Terminals : Due(o, q, i, y, v, s) /\ Takes(o, q, i, y, v, t, k) /\ z \in Shifted({s}, t)
  BY <1>5
<1>7. PICK t \in Terminals : Due(o, q, i, y, v, s) /\ Takes(o, q, i, y, v, t, k) /\ z \in Shifted({s}, t)
  BY <1>6
<1>8. o \in 0..(Len(bytes) - 1) /\ o < offset
  BY <1>1
<1>9. Noted(o, q)
  BY <1>8 DEF NotedInv
<1> QED
  BY <1>2, <1>7, <1>9 DEF Noted

LEMMA StartIsNoted == PassedOf({<<>>}, 0, 0) \subseteq InitializeMarkers.events
<1> SUFFICES ASSUME NEW e \in PassedOf({<<>>}, 0, 0) PROVE e \in InitializeMarkers.events
  OBVIOUS
<1>1. PICK x \in {<<>>} : \E m \in LastEnds(x, 0 - 0) : Marks(e, x, m, 0 - (Len(x) - m))
  BY PassedElim
<1>2. PICK m \in LastEnds(x, 0 - 0) : Marks(e, x, m, 0 - (Len(x) - m))
  BY <1>1
<1>3. x \in Seq(Symbols) /\ Len(x) = 0
  BY <1>1
<1>4. m = 0
  <2>1. LastEnds(x, 0 - 0) = {Len(x)}
    BY <1>1 DEF LastEnds
  <2> QED BY <1>2, <1>3, <2>1
<1>5. 0 - (Len(x) - m) = 0
  BY <1>3, <1>4
<1>6. Cuts(x)[m] = {StartStack}
  BY <1>3, <1>4, CutsUnfold
<1>7. \E z \in {StartStack} : \E id \in Probe[z] : e = <<0, id>>
  BY <1>2, <1>5, <1>6 DEF Marks
<1>8. e \in Observed({StartStack}, 0)
  BY <1>7, InObserved
<1> QED
  BY <1>8 DEF InitializeMarkers

(* What a commit passed was seen: inside its bytes while the queue was      *)
(* drained, after a special token in the frontier that the commit leaves.   *)
LEMMA PassedIsSeen ==
    ASSUME TypeOK, KInv, KInv', NotedInv, byteOffset \in Nat, FinishCommit, NEW n, n = byteOffset + Len(bytes),
           NEW e \in PassedOf(texts, n, byteOffset)
    PROVE  e \in events \cup Observed(DOMAIN frontier'[LexStart], n)
<1>1. /\ busy /\ ~busy' /\ texts' = texts /\ offset = Len(bytes) /\ texts \in SUBSET Seq(Symbols) /\ bytes \in Seq(Bytes)
  BY DEF FinishCommit, TypeOK
<1>2. TextsAre /\ MapKeeps(frontier', texts)
  BY <1>1 DEF KInv
<1>3. PICK x \in texts : \E m \in LastEnds(x, n - byteOffset) : Marks(e, x, m, n - (Len(x) - m))
  BY PassedElim
<1>4. PICK m \in LastEnds(x, n - byteOffset) : Marks(e, x, m, n - (Len(x) - m))
  BY <1>3
<1>5. x \in Seq(Symbols) /\ Len(x) \in Nat /\ Len(bytes) \in Nat
  BY <1>1
<1>6. PICK w \in Nat : w = Len(bytes) /\ n = byteOffset + w /\ n - byteOffset = w
  <2>1. n - byteOffset = Len(bytes)
    BY <1>5
  <2> QED BY <1>5, <2>1
<1>7. CASE bytes # <<>> /\ \E y \in Before : x = y \o bytes
  <2>1. PICK y \in Before : x = y \o bytes
    BY <1>7
  <2>2. /\ y \in Seq(Symbols) /\ Len(y) \in Nat /\ Len(x) = Len(y) + w /\ w # 0
        /\ x[Len(y) + w] = bytes[w]
    <3>1. y \in Seq(Symbols) /\ Len(y \o bytes) = Len(y) + Len(bytes)
      BY BeforeFacts
    <3>2. Len(bytes) # 0
      BY <1>1, <1>7
    <3>3. (y \o bytes)[Len(y) + Len(bytes)] = bytes[Len(bytes)]
      BY <1>1, <1>5, <3>1, <3>2, ConcatFacts
    <3> QED BY <1>6, <2>1, <3>1, <3>2, <3>3
  <2>3. x[Len(x)] \in Bytes /\ x[Len(x)] \notin Terminals
    <3>1. bytes[w] \in Bytes
      BY <1>1, <1>6, <2>2
    <3> QED BY <2>2, <3>1, LexerAssumption
  <2>4. PICK c \in Nat, a \in Nat : c = Len(x) /\ a = Len(y) /\ c = a + w
    BY <1>5, <2>2
  <2>5. m \in (c - w + 1)..c
    <3>1. x # <<>>
      BY <2>2, <2>4
    <3>2. LastEnds(x, w) = (c - w + 1)..c
      BY <2>3, <2>4, <3>1 DEF LastEnds
    <3> QED BY <1>4, <1>6, <3>2
  <2>6. PICK k \in 1..w : m = a + k /\ n - (c - m) = byteOffset + k
    <3>1. m - a \in 1..w /\ m = a + (m - a) /\ n - (c - m) = byteOffset + (m - a)
      BY <1>6, <2>4, <2>5
    <3> QED BY <3>1
  <2>7. k \in 1..Len(bytes) /\ Marks(e, y \o bytes, Len(y) + k, byteOffset + k)
    BY <1>4, <1>6, <2>1, <2>4, <2>6
  <2>8. e \in events
    BY <1>1, <2>7, InsideIsNoted
  <2> QED BY <2>8
<1>8. CASE AfterSpecial(x)
  <2>1. x # <<>> /\ x[Len(x)] \notin Bytes
    BY <1>8 DEF AfterSpecial
  <2>2. x[Len(x)] \in Terminals
    <3>1. Len(x) \in 1..Len(x)
      BY <1>5, <2>1
    <3>2. x[Len(x)] \in Symbols
      BY <1>5, <3>1
    <3> QED BY <2>1, <3>2 DEF Symbols
  <2>3. m = Len(x)
    <3>1. LastEnds(x, n - byteOffset) = {Len(x)}
      BY <2>2 DEF LastEnds
    <3> QED BY <1>4, <3>1
  <2>4. n - (Len(x) - m) = n
    BY <1>5, <1>6, <2>3
  <2>5. PICK z \in Cuts(x)[Len(x)] : \E id \in Probe[z] : e = <<n, id>>
    BY <1>4, <2>3, <2>4 DEF Marks
  <2>6. z \in DOMAIN frontier'[LexStart]
    BY <1>1, <1>2, EndsKept
  <2>7. e \in Observed(DOMAIN frontier'[LexStart], n)
    BY <2>5, <2>6, InObserved
  <2> QED BY <2>7
<1> QED
  BY <1>2, <1>7, <1>8 DEF TextsAre

LEMMA CompleteFinish ==
    ASSUME TypeOK, KInv, KInv', NotedInv, OnceInv, LastInv, Silent, MarkedFinishCommit
    PROVE  BatchComplete'
<1>1. FinishCommit /\ byteOffset \in Nat /\ byteOffset = base /\ UNCHANGED <<base, texts, reported>>
  BY DEF MarkedFinishCommit, FinishCommit, FinishMarkers, OnceInv, Silent
<1>2. CASE frontier' = NoStates
  BY <1>2 DEF BatchComplete, Alive
<1>3. CASE frontier' # NoStates
  <2>1. PICK n : n = byteOffset + Len(bytes)
    OBVIOUS
  <2>2. byteOffset' = n
    BY <1>3, <2>1 DEF MarkedFinishCommit, FinishMarkers
  <2>3. Passed' = PassedOf(texts, n, byteOffset)
    <3>1. Passed' = PassedOf(texts', byteOffset', base')
      BY DEF Passed, PassedOf, LastEnds
    <3> QED BY <1>1, <2>2, <3>1
  <2>4. PICK seen : seen = events \cup Observed(DOMAIN frontier'[LexStart], n)
    OBVIOUS
  <2>5. Passed' \subseteq seen
    BY <1>1, <2>1, <2>3, <2>4, PassedIsSeen
  <2>6. seen \subseteq reported' \cup events'
    BY <1>3, <2>1, <2>4, LastFinish
  <2> QED BY <2>5, <2>6 DEF BatchComplete
<1> QED
  BY <1>2, <1>3

LEMMA CompleteStep ==
    ASSUME TypeOK, KInv, KInv', NotedInv, OnceInv, LastInv, Silent, BatchComplete, [MarkedNext]_allVars
    PROVE  BatchComplete'
<1>1. CASE UNCHANGED allVars
  <2>1. UNCHANGED <<busy, texts, events, byteOffset, base, reported, frontier>>
    BY <1>1 DEF allVars, vars, markerVars
  <2>2. Passed' = Passed /\ Alive' = Alive
    BY <2>1 DEF Passed, Alive
  <2> QED BY <2>1, <2>2 DEF BatchComplete
<1>2. CASE MarkedStart
  <2>1. byteOffset' = 0 /\ base' = 0 /\ texts' = {<<>>} /\ events' = InitializeMarkers.events
    BY <1>2 DEF MarkedStart, Start
  <2>2. Passed' = PassedOf(texts', byteOffset', base')
    BY DEF Passed, PassedOf, LastEnds
  <2> QED BY <2>1, <2>2, StartIsNoted DEF BatchComplete
<1>3. ASSUME NEW k \in Tokens, MarkedCommitToken(k) PROVE BatchComplete'
  BY <1>3 DEF MarkedCommitToken, CommitToken, LoadQueue, BatchComplete
<1>4. ASSUME NEW k \in Tokens, MarkedCommitBytes(TokenBytes[k]) PROVE BatchComplete'
  BY <1>4 DEF MarkedCommitBytes, CommitBytes, LoadQueue, BatchComplete
<1>5. ASSUME NEW k \in Tokens, OverflowCommit(TokenBytes[k]) PROVE BatchComplete'
  BY <1>5 DEF OverflowCommit, Alive, BatchComplete
<1>6. ASSUME NEW q \in LexStates, MarkedProcessEntry(q) PROVE BatchComplete'
  BY <1>6 DEF MarkedProcessEntry, ProcessEntry, BatchComplete
<1>7. CASE MarkedNextOffset
  BY <1>7 DEF MarkedNextOffset, NextOffset, BatchComplete
<1>8. CASE MarkedFinishCommit
  BY <1>8, CompleteFinish
<1> QED
  BY <1>1, <1>2, <1>3, <1>4, <1>5, <1>6, <1>7, <1>8 DEF MarkedNext

LEMMA CompleteInit ==
    ASSUME MarkedInit
    PROVE  NotedInv /\ BatchComplete
<1>1. ~busy /\ byteOffset = 0 /\ base = 0 /\ texts = {<<>>} /\ events = InitializeMarkers.events
  BY DEF MarkedInit, Init
<1> QED
  BY <1>1, StartIsNoted, PassedIs DEF NotedInv, BatchComplete

(* However the text is divided into commits and the queue drained, a batch  *)
(* misses no marker that a parse of the whole text passes in the last       *)
(* commit, as long as no merge of the session joined a stack with different *)
(* exclusions (MergesAgree).                                                *)
THEOREM MarkersBatchComplete ==
    MarkedSpec => ([]MergesAgree => []BatchComplete)
<1>1. MarkedInit => KInv /\ NotedInv /\ BatchComplete
  BY MarkedKInit, CompleteInit
<1>2. TypeOK /\ KInv /\ MergesAgree /\ [MarkedNext]_allVars => KInv'
  BY MarkedKeeps
<1>3. TypeOK /\ KInv /\ NotedInv /\ [MarkedNext]_allVars => NotedInv'
  BY NotedStep
<1>4. TypeOK /\ KInv /\ KInv' /\ NotedInv /\ OnceInv /\ LastInv /\ Silent /\ BatchComplete /\ [MarkedNext]_allVars
        => BatchComplete'
  BY CompleteStep
<1> QED
  BY <1>1, <1>2, <1>3, <1>4, MarkedTyped, OnceInvariant, LastInvariant, SilentInvariant, PTL DEF MarkedSpec

LEMMA MarkedClear ==
    ASSUME OnePartition, OnlyIgnoredGrows, TypeOK, NoExclusions, [MarkedNext]_allVars
    PROVE  NoExclusions'
<1>1. CASE Next \/ UNCHANGED vars
  BY <1>1, ClearStep
<1>2. CASE \E k \in Tokens : OverflowCommit(TokenBytes[k])
  BY <1>2, ClearEmpty DEF OverflowCommit, NoExclusions
<1>3. Next \/ UNCHANGED vars \/ \E k \in Tokens : OverflowCommit(TokenBytes[k])
  BY MarkedIsNext DEF allVars
<1> QED
  BY <1>1, <1>2, <1>3

(* Where only ignored terminals can grow, a batch misses no marker whatever *)
(* the grammar.                                                             *)
THEOREM MarkersMissNone ==
    ASSUME OnePartition, OnlyIgnoredGrows
    PROVE  MarkedSpec => []BatchComplete
<1>1. MarkedInit => NoExclusions
  BY ClearInit DEF MarkedInit
<1>2. TypeOK /\ NoExclusions /\ [MarkedNext]_allVars => NoExclusions'
  BY MarkedClear
<1>3. TypeOK /\ NoExclusions => MergesAgree
  BY ClearAgrees
<1>4. MarkedSpec => []MergesAgree
  BY <1>1, <1>2, <1>3, MarkedTyped, PTL DEF MarkedSpec
<1> QED
  BY <1>4, MarkersBatchComplete, PTL

=============================================================================
