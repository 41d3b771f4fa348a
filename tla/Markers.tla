------------------------------ MODULE Markers ------------------------------
(***************************************************************************)
(* Passive grammar markers (src/runtime/markers.rs) observed by the commit *)
(* engine. Every action of CommitEngine is composed with what its observer *)
(* records: a marker is seen wherever a parse that reached a byte offset   *)
(* has a stack that admits its probe, and a successful commit turns what   *)
(* it saw into one batch of events.                                        *)
(*                                                                         *)
(* An event is a pair of byte offset and marker id. The code keeps a       *)
(* vector, sorts it and removes duplicates at the end of a commit; here it *)
(* is a set, and the order of a batch is the order of the pairs.           *)
(***************************************************************************)
EXTENDS CommitEngine, FiniteSetsExt

CONSTANTS
    MarkerIds,  \* MarkerQueries::ids
    Probe,      \* Probe[s]: the markers whose probe terminal stack s admits
    MaxOffset   \* u64::MAX

NoPosition == MaxOffset + 1

ASSUME MarkerAssumption ==
    /\ Probe \in [Stacks -> SUBSET MarkerIds]
    /\ MaxOffset \in Nat

VARIABLES
    events,         \* the events of the last commit, or those seen so far
    byteOffset,     \* MarkerState::byte_offset
    lastPositions,  \* last_positions: where a marker was last reported
    base,           \* history: the offset at which the last commit began
    reported        \* history: the events of the earlier batches

markerVars == <<events, byteOffset, lastPositions, base, reported>>

allVars == <<vars, markerVars>>

(* observe_gss at one offset *)
Observed(stacks, at) == {at} \X UNION {Probe[s] : s \in stacks}

Offsets(seen, id) == {e[1] : e \in {e \in seen : e[2] = id}}

(* Faulty variant of Retained: positions of earlier batches are forgotten.  *)
RetainedAll(seen) == seen

(* Faulty variant: duplicates are removed by marker, not by event.          *)
RetainedFirst(seen) == {e \in seen : e[1] = Min(Offsets(seen, e[2]))}

(* The retain of MarkerState::finish: events in order of their offsets; one *)
(* where its marker was last reported is dropped, any other moves that      *)
(* position.                                                                *)
Retained(seen) ==
    {e \in seen : e[1] # Min(Offsets(seen, e[2])) \/ e[1] # lastPositions[e[2]]}

MovedPositions(seen) ==
    [id \in MarkerIds |->
        IF Offsets(seen, id) = {} THEN lastPositions[id] ELSE Max(Offsets(seen, id))]

(* initialize_markers: the frontier of Constraint::start(), at offset 0.    *)
InitializeMarkers ==
    LET seen == Observed({StartStack}, 0)
    IN [events |-> seen,
        last |-> [id \in MarkerIds |-> IF id \in Probe[StartStack] THEN 0 ELSE NoPosition]]

MarkedInit ==
    /\ Init
    /\ events = InitializeMarkers.events
    /\ byteOffset = 0
    /\ lastPositions = InitializeMarkers.last
    /\ base = 0
    /\ reported = {}

MarkedStart ==
    /\ Start
    /\ events' = InitializeMarkers.events
    /\ byteOffset' = 0
    /\ lastPositions' = InitializeMarkers.last
    /\ base' = 0
    /\ reported' = {}

(* markers.begin() *)
Begin ==
    /\ events' = {}
    /\ base' = byteOffset
    /\ reported' = reported \cup events
    /\ UNCHANGED <<byteOffset, lastPositions>>

FitsOffset(w) == byteOffset + Len(w) <= MaxOffset

MarkedCommitToken(k) == FitsOffset(TokenBytes[k]) /\ CommitToken(k) /\ Begin

MarkedCommitBytes(w) == FitsOffset(w) /\ CommitBytes(w) /\ Begin

(* "marker byte position overflow": an error of the commit before the       *)
(* engine ran, so commit_transaction rejects the state.                     *)
OverflowCommit(w) ==
    /\ ~busy /\ Alive /\ Fits(w) /\ ~FitsOffset(w)
    /\ frontier' = NoStates
    /\ texts' = {}
    /\ Begin
    /\ UNCHANGED <<queue, pending, special, bytes, offset, busy>>

(* observer.stack for every match that one entry of the queue takes         *)
ObserveEntry(q) ==
    /\ events' = events \cup
          UNION {Observed(DOMAIN Arrivals(AtOffset(q), q, i), byteOffset + i) :
                   i \in (offset + 1)..Len(bytes)}
    /\ UNCHANGED <<byteOffset, lastPositions, base, reported>>

MarkedProcessEntry(q) == ProcessEntry(q) /\ ObserveEntry(q)

MarkedNextOffset == NextOffset /\ UNCHANGED markerVars

(* Faulty variant of FinishMarkers: a failed commit keeps what it saw.      *)
FinishMarkersAnyway ==
    LET next == byteOffset + Len(bytes)
        seen == events \cup Observed(DOMAIN frontier'[LexStart], next)
    IN /\ events' = Retained(seen)
       /\ lastPositions' = MovedPositions(seen)
       /\ byteOffset' = next
       /\ UNCHANGED <<base, reported>>

(* observer.frontier after the byte commit and after the special paths, and *)
(* MarkerState::finish. A commit that fails keeps no event and no position. *)
FinishMarkers ==
    LET next == byteOffset + Len(bytes)
        seen == events \cup Observed(DOMAIN frontier'[LexStart], next)
    IN /\ IF frontier' = NoStates
            THEN events' = {} /\ UNCHANGED <<byteOffset, lastPositions>>
            ELSE /\ events' = Retained(seen)
                 /\ lastPositions' = MovedPositions(seen)
                 /\ byteOffset' = next
       /\ UNCHANGED <<base, reported>>

MarkedFinishCommit == FinishCommit /\ FinishMarkers

MarkedNext ==
    \/ MarkedStart
    \/ \E k \in Tokens : MarkedCommitToken(k)
    \/ \E k \in Tokens : TokenBytes[k] # <<>> /\ MarkedCommitBytes(TokenBytes[k])
    \/ \E k \in Tokens : OverflowCommit(TokenBytes[k])
    \/ \E q \in LexStates : MarkedProcessEntry(q)
    \/ MarkedNextOffset
    \/ MarkedFinishCommit

MarkedSpec == MarkedInit /\ [][MarkedNext]_allVars
----------------------------------------------------------------------------

(* The markers that the parses of the text pass in the last commit: with    *)
(* bytes, at every offset where a lexeme of the whole text ends; with a     *)
(* special token, at its end.                                               *)
Passed ==
    LET width == byteOffset - base
        at(x, n) == Observed(Cuts(x)[n], byteOffset - (Len(x) - n))
        ends(x) == IF x = <<>> \/ x[Len(x)] \in Terminals THEN {Len(x)}
                   ELSE (Len(x) - width + 1)..Len(x)
    IN UNION {UNION {at(x, n) : n \in ends(x)} : x \in texts}

(* A batch holds nothing but what the last commit passed and no earlier     *)
(* batch reported: no event is invented however the queue is drained and    *)
(* the text is divided, its offset is that of the whole sequence, and none  *)
(* is given twice, also across special tokens that take no bytes            *)
(* (MarkerState::finish; marker_events: "The markers passed by the most     *)
(* recent commit").                                                         *)
BatchSound == ~busy /\ Alive => events \subseteq Passed \ reported

(* A batch holds every marker that the last commit passed and no earlier    *)
(* batch reported: none is missed, neither at an offset inside the          *)
(* committed bytes nor at their end (observe_gss, MarkerState::finish).     *)
BatchComplete == ~busy /\ Alive => Passed \ reported \subseteq events

(* A rejected state reports nothing, whether the text was rejected or the   *)
(* offset could not be represented (commit_transaction, marker byte         *)
(* position overflow), and its offset stays that of the accepted text.      *)
RejectedIsSilent ==
    ~busy /\ ~Alive => events = {} /\ byteOffset = base
============================================================================
