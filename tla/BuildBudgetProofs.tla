------------------------- MODULE BuildBudgetProofs -------------------------
(***************************************************************************)
(* Proofs about the build budget: for every set of compiles, requests,     *)
(* threads and parts, every limit and every interleaving.                  *)
(***************************************************************************)
EXTENDS BuildBudget, InductionFacts

USE BudgetAssumption

JobType ==
  [engine : {"template", "trie"}, made : Nat, state : {"ready", "ok", "declined", "error"}]

(* What a request holds. *)
LEMMA RequestFacts ==
  ASSUME TypeOK, NEW c \in Compiles
  PROVE  /\ host[c] \in Hosts
         /\ request[c].auto \in BOOLEAN /\ request[c].retained \in BOOLEAN
         /\ request[c].rescue \in BOOLEAN /\ request[c].first \in BOOLEAN
         /\ request[c].large \in BOOLEAN
         /\ request[c].template \in [AllJobs -> Nat]
         /\ request[c].trie \in [AllJobs -> Nat \ {0}]
         /\ request[c].unsupported \subseteq AllJobs
  BY DEF TypeOK, RequestType

LEMMA JobsFinite ==
  ASSUME NEW k \in Kinds
  PROVE  IsFiniteSet(Jobs(k)) /\ Jobs(k) \subseteq AllJobs
<1>1. IsFiniteSet({Whole})
  BY FS_Singleton
<1> QED
  BY <1>1 DEF Jobs, AllJobs

(* A job charges one of the counters, or none. *)
LEMMA WorkerHandlesType ==
  ASSUME TypeOK, NEW c \in Compiles
  PROVE  WorkerHandles(c) \subseteq Handles \union {NoHandle}
<1>1. handle \in [Hosts -> Handles \union {NoHandle}] /\ kind[c] \in Kinds
  BY DEF TypeOK
<1>2. host[c] \in Hosts /\ request[c].large \in BOOLEAN /\ scope[c].pool \in BOOLEAN
  BY RequestFacts DEF TypeOK
<1>3. CASE request[c].large
  BY <1>3 DEF WorkerHandles
<1>4. CASE ~request[c].large /\ scope[c].pool
  BY <1>1, <1>4 DEF WorkerHandles, Handles
<1>5. CASE ~request[c].large /\ ~scope[c].pool
  <2>1. WorkerHandles(c) = IF host[c] \in PoolHosts THEN {handle[h] : h \in PoolHosts}
                                                    ELSE {handle[host[c]], NoHandle}
    BY <1>5 DEF WorkerHandles
  <2> QED
    BY <1>1, <1>2, <2>1
<1> QED
  BY <1>2, <1>3, <1>4, <1>5

LEMMA JobTypes ==
  ASSUME TypeOK, NEW c \in Compiles, NEW j \in AllJobs
  PROVE  /\ jobs[c][j] \in JobType
         /\ Declined(c, j) \in JobType
         /\ Demand(c, j) \in Nat
<1>1. jobs[c][j] \in JobType
  BY DEF TypeOK, JobType
<1>2. Demand(c, j) \in Nat
  BY RequestFacts DEF Demand
<1>3. Declined(c, j) \in JobType
  BY <1>1 DEF Declined, Fresh, JobType
<1> QED
  BY <1>1, <1>2, <1>3

LEMMA OutcomeTypes ==
  ASSUME TypeOK, NEW c \in Compiles
  PROVE  Outcomes(c) \subseteq {"ok", "declined", "error"}
<1>1. kind[c] \in Kinds /\ jobs \in [Compiles -> [AllJobs -> JobType]]
  BY DEF TypeOK, JobType
<1>2. Jobs(kind[c]) \subseteq AllJobs
  BY <1>1, JobsFinite
<1> QED
  BY <1>1, <1>2 DEF Outcomes, Failures, JobType

(* A step that sets one job leaves every other as it was. *)
LEMMA SetJob ==
  ASSUME NEW J \in [Compiles -> [AllJobs -> JobType]], NEW c \in Compiles,
         NEW j \in AllJobs, NEW v \in JobType, NEW K, K = [J EXCEPT ![c][j] = v]
  PROVE  /\ K \in [Compiles -> [AllJobs -> JobType]]
         /\ K[c][j] = v
         /\ \A i \in AllJobs \ {j} : K[c][i] = J[c][i]
         /\ \A d \in Compiles \ {c} : K[d] = J[d]
<1> HIDE DEF JobType
<1>1. PICK b \in [AllJobs -> JobType] : b = [J[c] EXCEPT ![j] = v]
  OBVIOUS
<1>2. K = [J EXCEPT ![c] = b]
  BY <1>1
<1>3. K \in [Compiles -> [AllJobs -> JobType]] /\ K[c] = b
  BY <1>2
<1>4. \A d \in Compiles \ {c} : K[d] = J[d]
  BY <1>2
<1> QED
  BY <1>1, <1>3, <1>4

LEMMA TypeStep ==
  ASSUME TypeOK, NEW c \in Compiles, Step(c)
  PROVE  TypeOK'
<1> DEFINE PCs == {"idle", "enter", "running", "fallback", "built", "declined", "error", "returned"}
<1>0. /\ host \in Hostings /\ request \in [Compiles -> Requests]
      /\ pc \in [Compiles -> PCs] /\ kind \in [Compiles -> Kinds]
      /\ scope \in [Compiles -> [owns : BOOLEAN, pool : BOOLEAN]]
      /\ jobs \in [Compiles -> [AllJobs -> JobType]]
      /\ handle \in [Hosts -> Handles \union {NoHandle}]
      /\ frames \in [Hosts -> Seq(Compiles)]
      /\ units \in [Handles -> Nat]
      /\ ended \in [Handles -> [how : {None, "ok", "declined", "error"}, pooled : BOOLEAN]]
      /\ answer \in [Compiles -> {None, "built", "declined", "error"}]
      /\ host[c] \in Hosts
  BY RequestFacts DEF TypeOK, JobType
<1> DEFINE NewJobs == [jobs EXCEPT ![c] = [i \in AllJobs |-> Fresh("template")]]
<1>n. NewJobs \in [Compiles -> [AllJobs -> JobType]]
  BY <1>0 DEF Fresh, JobType
<1>1. CASE Begin(c)
  BY <1>1, <1>0 DEF Begin, TypeOK, Kinds, JobType
<1>2. CASE EnterWithLimit(c)
  <2>1. handle' \in [Hosts -> Handles \union {NoHandle}]
    BY <1>2, <1>0 DEF EnterWithLimit, Handles
  <2>2. jobs' \in [Compiles -> [AllJobs -> JobType]]
    BY <1>2, <1>n DEF EnterWithLimit
  <2>3. scope' \in [Compiles -> [owns : BOOLEAN, pool : BOOLEAN]]
    BY <1>2, <1>0 DEF EnterWithLimit
  <2>4. pc' \in [Compiles -> PCs] /\ UNCHANGED <<host, request, kind, frames, units, ended, answer>>
    BY <1>2, <1>0 DEF EnterWithLimit
  <2> QED
    BY <1>0, <2>1, <2>2, <2>3, <2>4 DEF TypeOK, JobType
<1>3. ASSUME NEW j \in AllJobs, Charge(c, j) PROVE TypeOK'
  <2>1. PICK s \in WorkerHandles(c) :
          /\ units' = IF s = NoHandle THEN units
                      ELSE [units EXCEPT ![s] = IF s = NoHandle THEN 0 ELSE units[s] + 1]
          /\ \/ jobs' = [jobs EXCEPT ![c][j] = Declined(c, j)]
             \/ jobs' = [jobs EXCEPT ![c][j] = [jobs[c][j] EXCEPT !.made = @ + 1]]
    BY <1>3 DEF Charge
  <2>2. s \in Handles \union {NoHandle}
    BY <2>1, WorkerHandlesType
  <2>3. units' \in [Handles -> Nat]
    BY <1>0, <2>1, <2>2
  <2>4. Declined(c, j) \in JobType /\ [jobs[c][j] EXCEPT !.made = @ + 1] \in JobType
    BY JobTypes DEF JobType
  <2>5. jobs' \in [Compiles -> [AllJobs -> JobType]]
    <3> HIDE DEF JobType
    <3>1. PICK v \in JobType : jobs' = [jobs EXCEPT ![c][j] = v]
      BY <2>1, <2>4
    <3> QED BY <1>0, <3>1, SetJob
  <2>6. UNCHANGED <<host, request, pc, kind, scope, handle, frames, ended, answer>>
    BY <1>3 DEF Charge
  <2> QED
    BY <1>0, <2>3, <2>5, <2>6 DEF TypeOK, JobType
<1>4. ASSUME NEW j \in AllJobs, FinishJob(c, j) PROVE TypeOK'
  <2>1. \E v \in {[jobs[c][j] EXCEPT !.state = "error"], Declined(c, j),
                  [jobs[c][j] EXCEPT !.state = "ok"]} : jobs' = [jobs EXCEPT ![c][j] = v]
    BY <1>4, <1>0 DEF FinishJob
  <2>2. Declined(c, j) \in JobType
    BY JobTypes
  <2>3. /\ [jobs[c][j] EXCEPT !.state = "error"] \in JobType
        /\ [jobs[c][j] EXCEPT !.state = "ok"] \in JobType
    BY JobTypes DEF JobType
  <2>4. jobs' \in [Compiles -> [AllJobs -> JobType]]
    <3> HIDE DEF JobType
    <3>1. PICK v \in JobType : jobs' = [jobs EXCEPT ![c][j] = v]
      BY <2>1, <2>2, <2>3
    <3> QED BY <1>0, <3>1, SetJob
  <2>5. UNCHANGED <<host, request, pc, kind, scope, handle, frames, units, ended, answer>>
    BY <1>4 DEF FinishJob
  <2> QED
    BY <1>0, <2>4, <2>5 DEF TypeOK, JobType
<1>5. CASE Leave(c)
  <2>1. Outcomes(c) \subseteq {"ok", "declined", "error"}
    BY OutcomeTypes
  <2>2. PICK how \in Outcomes(c) :
          /\ ended' = [ended EXCEPT ![<<c, kind[c]>>] =
                         [how |-> how, pooled |-> scope[c].pool /\ ~request[c].large]]
          /\ pc' = [pc EXCEPT ![c] = After(c, how).pc]
          /\ kind' = [kind EXCEPT ![c] = After(c, how).kind]
    BY <1>5 DEF Leave
  <2>3. After(c, how).pc \in PCs /\ After(c, how).kind \in Kinds
    BY <1>0 DEF After, Kinds
  <2>4. ended' \in [Handles -> [how : {None, "ok", "declined", "error"}, pooled : BOOLEAN]]
    <3>1. [how |-> how, pooled |-> scope[c].pool /\ ~request[c].large]
            \in [how : {None, "ok", "declined", "error"}, pooled : BOOLEAN]
      BY <2>1
    <3> QED BY <1>0, <2>2, <3>1
  <2>5. handle' \in [Hosts -> Handles \union {NoHandle}]
    BY <1>5, <1>0 DEF Leave, HandleAfterDrop
  <2>6. jobs' \in [Compiles -> [AllJobs -> JobType]]
    BY <1>5, <1>n DEF Leave
  <2>7. scope' \in [Compiles -> [owns : BOOLEAN, pool : BOOLEAN]]
    BY <1>5, <1>0 DEF Leave
  <2>8. UNCHANGED <<host, request, frames, units, answer>>
    BY <1>5 DEF Leave
  <2>9. pc' \in [Compiles -> PCs] /\ kind' \in [Compiles -> Kinds]
    BY <1>0, <2>2, <2>3
  <2> QED
    BY <1>0, <2>4, <2>5, <2>6, <2>7, <2>8, <2>9 DEF TypeOK, JobType
<1>6. CASE TokenTrieFallback(c)
  <2>1. request[c].trie[Whole] \in Nat
    BY RequestFacts DEF AllJobs
  <2>2. units' \in [Handles -> Nat]
    BY <1>6, <1>0, <2>1 DEF TokenTrieFallback
  <2>3. pc' \in [Compiles -> PCs]
    BY <1>6, <1>0 DEF TokenTrieFallback
  <2>4. UNCHANGED <<host, request, kind, scope, jobs, handle, frames, ended, answer>>
    BY <1>6 DEF TokenTrieFallback
  <2> QED
    BY <1>0, <2>2, <2>3, <2>4 DEF TypeOK, JobType
<1>7. CASE Return(c)
  <2>1. frames' \in [Hosts -> Seq(Compiles)]
    BY <1>7, <1>0 DEF Return, OnTop
  <2>2. pc' \in [Compiles -> PCs] /\ answer' \in [Compiles -> {None, "built", "declined", "error"}]
    BY <1>7, <1>0 DEF Return
  <2>3. UNCHANGED <<host, request, kind, scope, jobs, handle, units, ended>>
    BY <1>7 DEF Return
  <2> QED
    BY <1>0, <2>1, <2>2, <2>3 DEF TypeOK, JobType
<1> QED
  BY <1>1, <1>2, <1>3, <1>4, <1>5, <1>6, <1>7 DEF Step

-----------------------------------------------------------------------------
(* Stacks and handles *)

(* No step changes who calls a compile, or what it was asked for; and a     *)
(* step of one compile is not a step of another.                            *)
LEMMA StepIsLocal ==
  ASSUME TypeOK, NEW c \in Compiles, Step(c)
  PROVE  /\ host' = host /\ request' = request
         /\ \A d \in Compiles \ {c} :
              /\ pc'[d] = pc[d] /\ kind'[d] = kind[d] /\ scope'[d] = scope[d]
              /\ jobs'[d] = jobs[d] /\ answer'[d] = answer[d]
              /\ \A k \in Kinds : ended'[<<d, k>>] = ended[<<d, k>>]
<1>1. host' = host /\ request' = request
  BY DEF Step, Begin, EnterWithLimit, Charge, FinishJob, Leave, TokenTrieFallback, Return
<1> SUFFICES ASSUME NEW d \in Compiles, d # c
             PROVE  /\ pc'[d] = pc[d] /\ kind'[d] = kind[d] /\ scope'[d] = scope[d]
                    /\ jobs'[d] = jobs[d] /\ answer'[d] = answer[d]
                    /\ \A k \in Kinds : ended'[<<d, k>>] = ended[<<d, k>>]
  BY <1>1
<1>2. CASE Begin(c)
  BY <1>2 DEF Begin, TypeOK
<1>3. CASE EnterWithLimit(c)
  BY <1>3 DEF EnterWithLimit, TypeOK
<1>4. ASSUME NEW j \in AllJobs, Charge(c, j)
      PROVE jobs'[d] = jobs[d] /\ UNCHANGED <<pc, kind, scope, answer, ended>>
  BY <1>4 DEF Charge, TypeOK
<1>5. ASSUME NEW j \in AllJobs, FinishJob(c, j)
      PROVE jobs'[d] = jobs[d] /\ UNCHANGED <<pc, kind, scope, answer, ended>>
  BY <1>5 DEF FinishJob, TypeOK
<1>6. CASE Leave(c)
  <2>1. /\ jobs'[d] = jobs[d] /\ scope'[d] = scope[d] /\ answer' = answer
        /\ pc'[d] = pc[d] /\ kind'[d] = kind[d]
    BY <1>6 DEF Leave, TypeOK
  <2>2. PICK e : ended' = [ended EXCEPT ![<<c, kind[c]>>] = e]
    BY <1>6 DEF Leave
  <2>3. \A k \in Kinds : <<d, k>> \in Handles /\ <<d, k>> # <<c, kind[c]>>
    BY DEF Handles
  <2>4. ended \in [Handles -> [how : {None, "ok", "declined", "error"}, pooled : BOOLEAN]]
    BY DEF TypeOK
  <2>5. \A k \in Kinds : ended'[<<d, k>>] = ended[<<d, k>>]
    BY <2>2, <2>3, <2>4
  <2> QED
    BY <2>1, <2>5
<1>7. CASE TokenTrieFallback(c)
  BY <1>7 DEF TokenTrieFallback, TypeOK
<1>8. CASE Return(c)
  BY <1>8 DEF Return, TypeOK
<1> QED
  BY <1>2, <1>3, <1>4, <1>5, <1>6, <1>7, <1>8 DEF Step

LEMMA FramesStep ==
  ASSUME TypeOK, FramesOK, NEW c \in Compiles, Step(c)
  PROVE  FramesOK'
<1>0. /\ frames \in [Hosts -> Seq(Compiles)] /\ host \in [Compiles -> Hosts]
      /\ pc \in [Compiles -> {"idle", "enter", "running", "fallback",
                              "built", "declined", "error", "returned"}]
  BY DEF TypeOK
<1>1. host' = host /\ \A d \in Compiles \ {c} : pc'[d] = pc[d]
  BY StepIsLocal
<1>2. CASE Begin(c)
  <2> DEFINE h == host[c]
  <2>1. /\ h \in Hosts /\ frames[h] \in Seq(Compiles)
        /\ frames' = [frames EXCEPT ![h] = <<c>> \o frames[h]]
        /\ FreeToRun(h)
    BY <1>0, <1>2 DEF Begin
  <2>2. /\ frames'[h] = <<c>> \o frames[h]
        /\ \A g \in Hosts \ {h} : frames'[g] = frames[g]
    BY <1>0, <2>1
  <2>3. /\ 1 \in DOMAIN frames'[h] /\ frames'[h][1] = c
        /\ \A i \in DOMAIN frames[h] :
             i + 1 \in DOMAIN frames'[h] /\ frames'[h][i + 1] = frames[h][i]
    <3>1. PICK q \in Seq(Compiles) : q = frames[h]
      BY <2>1
    <3>2. PICK r : r = <<c>> \o q
      OBVIOUS
    <3>3. 1 \in DOMAIN r /\ r[1] = c /\ \A i \in DOMAIN q : i + 1 \in DOMAIN r /\ r[i + 1] = q[i]
      BY <3>2
    <3> QED BY <2>2, <3>1, <3>2, <3>3
  <2>4. ASSUME NEW d \in Compiles, Active(d)'
        PROVE  \E i \in DOMAIN frames'[host[d]] : frames'[host[d]][i] = d
    <3>1. CASE d = c
      BY <2>3, <3>1
    <3>2. CASE d # c
      <4>1. Active(d)
        BY <1>1, <2>4, <3>2 DEF Active
      <4>2. PICK i \in DOMAIN frames[host[d]] : frames[host[d]][i] = d
        BY <4>1 DEF FramesOK
      <4>3. CASE host[d] = h
        BY <2>3, <4>2, <4>3
      <4>4. CASE host[d] # h
        BY <1>0, <2>2, <4>2, <4>4
      <4> QED BY <4>3, <4>4
    <3> QED BY <3>1, <3>2
  <2>5. ASSUME NEW d \in Compiles \ {c}, Active(d), host[d] = h PROVE h \in PoolHosts
    <3>1. \E i \in DOMAIN frames[h] : frames[h][i] = d
      BY <2>5 DEF FramesOK
    <3>2. frames[h] # << >>
      BY <3>1
    <3> QED BY <2>1, <3>2 DEF FreeToRun
  <2>6. ASSUME NEW a \in Compiles, NEW b \in Compiles, Active(a)', Active(b)', a # b, host[a] = host[b]
        PROVE  host[a] \in PoolHosts
    <3>1. a # c => Active(a)
      BY <1>1, <2>6 DEF Active
    <3>2. b # c => Active(b)
      BY <1>1, <2>6 DEF Active
    <3> QED
      BY <2>5, <2>6, <3>1, <3>2 DEF FramesOK
  <2> QED
    BY <1>1, <2>4, <2>6 DEF FramesOK
<1>3. CASE Return(c)
  <2> DEFINE h == host[c]
  <2>1. /\ h \in Hosts /\ frames[h] \in Seq(Compiles) /\ frames[h] # << >> /\ Head(frames[h]) = c
        /\ frames' = [frames EXCEPT ![h] = Tail(frames[h])]
        /\ pc'[c] = "returned"
    BY <1>0, <1>3 DEF Return, OnTop
  <2>2. /\ frames'[h] = Tail(frames[h])
        /\ \A g \in Hosts \ {h} : frames'[g] = frames[g]
    BY <1>0, <2>1
  <2>3. ASSUME NEW i \in DOMAIN frames[h], frames[h][i] # c
        PROVE  \E k \in DOMAIN frames'[h] : frames'[h][k] = frames[h][i]
    <3>1. PICK q \in Seq(Compiles) : q = frames[h]
      BY <2>1
    <3>2. i \in 1..Len(q) /\ i # 1 /\ q # << >>
      BY <2>1, <2>3, <3>1
    <3>3. PICK r : r = Tail(q)
      OBVIOUS
    <3>4. i - 1 \in DOMAIN r /\ r[i - 1] = q[i]
      BY <3>1, <3>2, <3>3
    <3> QED BY <2>2, <3>1, <3>3, <3>4
  <2>4. ASSUME NEW d \in Compiles, Active(d)' PROVE d # c /\ Active(d)
    BY <1>1, <2>1, <2>4 DEF Active
  <2>5. ASSUME NEW d \in Compiles, Active(d)'
        PROVE  \E i \in DOMAIN frames'[host[d]] : frames'[host[d]][i] = d
    <3>1. PICK i \in DOMAIN frames[host[d]] : frames[host[d]][i] = d
      BY <2>4, <2>5 DEF FramesOK
    <3>2. CASE host[d] = h
      BY <2>3, <2>4, <2>5, <3>1, <3>2
    <3>3. CASE host[d] # h
      BY <1>0, <2>2, <3>1, <3>3
    <3> QED BY <3>2, <3>3
  <2> QED
    BY <1>1, <2>4, <2>5 DEF FramesOK
<1>4. CASE ~Begin(c) /\ ~Return(c)
  <2>1. frames' = frames /\ Active(c)' = Active(c)
    <3>1. CASE EnterWithLimit(c)
      BY <1>0, <3>1 DEF EnterWithLimit, Active
    <3>2. ASSUME NEW j \in AllJobs, Charge(c, j) PROVE UNCHANGED <<frames, pc>>
      BY <3>2 DEF Charge
    <3>3. ASSUME NEW j \in AllJobs, FinishJob(c, j) PROVE UNCHANGED <<frames, pc>>
      BY <3>3 DEF FinishJob
    <3>4. CASE Leave(c)
      <4>1. PICK how \in Outcomes(c) : pc' = [pc EXCEPT ![c] = After(c, how).pc]
        BY <3>4 DEF Leave
      <4>2. After(c, how).pc \in {"built", "enter", "error", "fallback", "declined"}
        BY DEF After
      <4>3. pc[c] = "running" /\ frames' = frames
        BY <3>4 DEF Leave
      <4> QED
        BY <1>0, <4>1, <4>2, <4>3 DEF Active
    <3>5. CASE TokenTrieFallback(c)
      BY <1>0, <3>5 DEF TokenTrieFallback, Active
    <3> QED
      BY <1>4, <3>1, <3>2, <3>3, <3>4, <3>5 DEF Step, Active
  <2>2. \A d \in Compiles : Active(d)' <=> Active(d)
    BY <1>1, <2>1 DEF Active
  <2> QED
    BY <1>1, <2>1, <2>2 DEF FramesOK
<1> QED
  BY <1>2, <1>3, <1>4

LEMMA HandlesStep ==
  ASSUME TypeOK, HandlesOK, NEW c \in Compiles, Step(c)
  PROVE  HandlesOK'
<1>0. /\ handle \in [Hosts -> Handles \union {NoHandle}] /\ host \in [Compiles -> Hosts]
      /\ scope \in [Compiles -> [owns : BOOLEAN, pool : BOOLEAN]]
      /\ pc \in [Compiles -> {"idle", "enter", "running", "fallback",
                              "built", "declined", "error", "returned"}]
      /\ kind \in [Compiles -> Kinds]
  BY DEF TypeOK
<1>1. /\ host' = host
      /\ \A d \in Compiles \ {c} : pc'[d] = pc[d] /\ kind'[d] = kind[d] /\ scope'[d] = scope[d]
  BY StepIsLocal
<1>2. \A d \in Compiles : <<d, kind[d]>> # NoHandle
  BY DEF NoHandle
<1>3. ASSUME handle' = handle, ~scope[c].owns, scope'[c] = scope[c] \/ ~(scope'[c].owns \/ scope'[c].pool)
      PROVE  HandlesOK'
  <2>1. ASSUME NEW h \in Hosts, handle[h] # NoHandle
        PROVE  \E d \in Compiles : handle[h] = <<d, kind'[d]>> /\ scope'[d].owns /\ host[d] = h
    <3>1. PICK d \in Compiles : handle[h] = <<d, kind[d]>> /\ scope[d].owns /\ host[d] = h
      BY <2>1 DEF HandlesOK
    <3> QED BY <1>1, <1>3, <3>1
  <2>2. ASSUME NEW d \in Compiles, scope'[d].owns
        PROVE  pc'[d] = "running" /\ handle[host[d]] = <<d, kind'[d]>>
    <3>1. d # c
      BY <1>3, <2>2
    <3> QED BY <1>1, <2>2, <3>1 DEF HandlesOK
  <2>3. ASSUME NEW d \in Compiles, scope'[d].pool PROVE scope'[d].owns
    BY <1>1, <1>3, <2>3 DEF HandlesOK
  <2>4. handle' = handle /\ host' = host
    BY <1>1, <1>3
  <2> QED
    BY <2>1, <2>2, <2>3, <2>4 DEF HandlesOK
<1>4. CASE Begin(c)
  <2>1. handle' = handle /\ scope' = scope /\ pc[c] = "idle"
    BY <1>4 DEF Begin
  <2> QED BY <1>3, <2>1 DEF HandlesOK
<1>5. CASE EnterWithLimit(c)
  <2>1. pc[c] = "enter" /\ pc'[c] = "running" /\ kind' = kind /\ ~scope[c].owns
    BY <1>0, <1>5 DEF EnterWithLimit, HandlesOK
  <2>2. CASE handle[host[c]] # NoHandle
    <3>1. handle' = handle /\ ~scope'[c].owns /\ ~scope'[c].pool
      BY <1>0, <1>5, <2>2 DEF EnterWithLimit
    <3> QED BY <1>3, <2>1, <3>1
  <2>3. CASE handle[host[c]] = NoHandle
    <3>1. handle' = [handle EXCEPT ![host[c]] = <<c, kind[c]>>] /\ scope'[c].owns
      BY <1>0, <1>5, <2>3 DEF EnterWithLimit
    <3>2. ASSUME NEW d \in Compiles \ {c}, scope[d].owns PROVE host[d] # host[c]
      <4>1. handle[host[d]] = <<d, kind[d]>>
        BY <3>2 DEF HandlesOK
      <4> QED BY <1>2, <2>3, <4>1
    <3>3. ASSUME NEW h \in Hosts, handle'[h] # NoHandle
          PROVE  \E d \in Compiles : handle'[h] = <<d, kind'[d]>> /\ scope'[d].owns /\ host[d] = h
      <4>1. CASE h = host[c]
        BY <1>0, <2>1, <3>1, <4>1
      <4>2. CASE h # host[c]
        <5>1. handle'[h] = handle[h]
          BY <1>0, <3>1, <4>2
        <5>2. PICK d \in Compiles : handle[h] = <<d, kind[d]>> /\ scope[d].owns /\ host[d] = h
          BY <3>3, <5>1 DEF HandlesOK
        <5> QED BY <1>1, <2>1, <5>1, <5>2
      <4> QED BY <4>1, <4>2
    <3>4. ASSUME NEW d \in Compiles, scope'[d].owns
          PROVE  pc'[d] = "running" /\ handle'[host[d]] = <<d, kind'[d]>>
      <4>1. CASE d = c
        BY <1>0, <2>1, <3>1, <4>1
      <4>2. CASE d # c
        <5>1. scope[d].owns /\ host[d] # host[c]
          BY <1>1, <3>2, <3>4, <4>2
        <5>2. handle'[host[d]] = handle[host[d]]
          BY <1>0, <3>1, <5>1
        <5> QED BY <1>1, <4>2, <5>1, <5>2 DEF HandlesOK
      <4> QED BY <4>1, <4>2
    <3>5. ASSUME NEW d \in Compiles, scope'[d].pool PROVE scope'[d].owns
      BY <1>1, <3>1, <3>5 DEF HandlesOK
    <3> QED
      BY <1>1, <3>3, <3>4, <3>5 DEF HandlesOK
  <2> QED BY <2>2, <2>3
<1>6. ASSUME UNCHANGED <<handle, scope, pc, kind>> PROVE HandlesOK'
  BY <1>1, <1>6 DEF HandlesOK
<1>7. CASE Leave(c)
  <2>1. ~scope'[c].owns /\ ~scope'[c].pool
    BY <1>0, <1>7 DEF Leave
  <2>2. CASE ~scope[c].owns
    <3>1. handle' = handle
      BY <1>7, <2>2 DEF Leave, HandleAfterDrop
    <3> QED BY <1>3, <2>1, <2>2, <3>1
  <2>3. CASE scope[c].owns
    <3>1. handle' = [handle EXCEPT ![host[c]] = NoHandle]
      BY <1>7, <2>3 DEF Leave, HandleAfterDrop
    <3>2. ASSUME NEW d \in Compiles \ {c}, scope[d].owns PROVE host[d] # host[c]
      <4>1. handle[host[d]] = <<d, kind[d]>> /\ handle[host[c]] = <<c, kind[c]>>
        BY <2>3, <3>2 DEF HandlesOK
      <4>2. <<d, kind[d]>> # <<c, kind[c]>>
        OBVIOUS
      <4> QED BY <4>1, <4>2
    <3>3. ASSUME NEW h \in Hosts, handle'[h] # NoHandle
          PROVE  \E d \in Compiles : handle'[h] = <<d, kind'[d]>> /\ scope'[d].owns /\ host[d] = h
      <4>1. h # host[c] /\ handle'[h] = handle[h]
        BY <1>0, <3>1, <3>3
      <4>2. PICK d \in Compiles : handle[h] = <<d, kind[d]>> /\ scope[d].owns /\ host[d] = h
        BY <3>3, <4>1 DEF HandlesOK
      <4> QED BY <1>1, <4>1, <4>2
    <3>4. ASSUME NEW d \in Compiles, scope'[d].owns
          PROVE  pc'[d] = "running" /\ handle'[host[d]] = <<d, kind'[d]>>
      <4>1. d # c /\ scope[d].owns
        BY <1>1, <2>1, <3>4
      <4>2. handle'[host[d]] = handle[host[d]]
        BY <1>0, <3>1, <3>2, <4>1
      <4> QED BY <1>1, <4>1, <4>2 DEF HandlesOK
    <3>5. ASSUME NEW d \in Compiles, scope'[d].pool PROVE scope'[d].owns
      BY <1>1, <2>1, <3>5 DEF HandlesOK
    <3> QED
      BY <1>1, <3>3, <3>4, <3>5 DEF HandlesOK
  <2> QED BY <2>2, <2>3
<1>8. CASE TokenTrieFallback(c)
  <2>1. handle' = handle /\ scope' = scope /\ pc[c] = "fallback"
    BY <1>8 DEF TokenTrieFallback
  <2> QED BY <1>3, <2>1 DEF HandlesOK
<1>9. CASE Return(c)
  <2>1. handle' = handle /\ scope' = scope /\ pc[c] # "running"
    BY <1>9 DEF Return
  <2> QED BY <1>3, <2>1 DEF HandlesOK
<1> QED
  BY <1>4, <1>5, <1>6, <1>7, <1>8, <1>9 DEF Step, Charge, FinishJob

-----------------------------------------------------------------------------
(* Whose counter a thread charges *)

(* A handle of the caller's thread, or of a pool that both callers belong   *)
(* to, is not that of a compile that is alone.                              *)
LEMMA NotOfOneAlone ==
  ASSUME TypeOK, FramesOK, HandlesOK, NEW a \in Compiles, Alone(a),
         NEW d \in Compiles \ {a}, Active(d),
         NEW h \in Hosts, h = host[d] \/ {h, host[d]} \subseteq PoolHosts,
         NEW k, handle[h] = <<a, k>>
  PROVE  FALSE
<1>1. handle[h] # NoHandle
  BY DEF NoHandle
<1>2. PICK e \in Compiles : handle[h] = <<e, kind[e]>> /\ scope[e].owns /\ host[e] = h
  BY <1>1 DEF HandlesOK
<1>3. e = a
  BY <1>2
<1>4. Active(a)
  BY <1>2, <1>3 DEF HandlesOK, Active
<1>5. {host[a], host[d]} \subseteq PoolHosts
  BY <1>2, <1>3, <1>4 DEF FramesOK
<1> QED
  BY <1>5 DEF Alone

(* Nor is the thread of a compile that is alone, outside its own attempt.   *)
LEMMA UnbudgetedWhenAlone ==
  ASSUME TypeOK, FramesOK, HandlesOK, NEW a \in Compiles, Alone(a), Active(a),
         NEW h \in Hosts, h = host[a] \/ {h, host[a]} \subseteq PoolHosts,
         handle[h] # <<a, kind[a]>> \/ pc[a] # "running"
  PROVE  handle[h] = NoHandle
<1> SUFFICES ASSUME handle[h] # NoHandle PROVE FALSE
  OBVIOUS
<1>1. PICK e \in Compiles : handle[h] = <<e, kind[e]>> /\ scope[e].owns /\ host[e] = h
  BY DEF HandlesOK
<1>2. pc[e] = "running" /\ e # a
  BY <1>1 DEF HandlesOK
<1>3. {host[a], host[e]} \subseteq PoolHosts
  BY <1>1, <1>2 DEF FramesOK, Active
<1> QED
  BY <1>2, <1>3 DEF Alone

(* The jobs of a compile that is alone charge its own scope or none.        *)
LEMMA OwnHandleOnly ==
  ASSUME TypeOK, FramesOK, HandlesOK, NEW a \in Compiles, Alone(a), pc[a] = "running"
  PROVE  /\ WorkerHandles(a) \subseteq {<<a, kind[a]>>, NoHandle}
         /\ Pooled(a) => WorkerHandles(a) = {<<a, kind[a]>>}
<1>1. host[a] \in Hosts /\ request[a].large \in BOOLEAN /\ scope[a].pool \in BOOLEAN
  BY RequestFacts DEF TypeOK
<1>2. CASE request[a].large
  BY <1>2 DEF WorkerHandles, Pooled
<1>3. CASE ~request[a].large /\ scope[a].pool
  BY <1>3 DEF WorkerHandles, Pooled
<1>4. CASE ~request[a].large /\ ~scope[a].pool
  <2>1. WorkerHandles(a) = IF host[a] \in PoolHosts THEN {handle[h] : h \in PoolHosts}
                                                    ELSE {handle[host[a]], NoHandle}
    BY <1>4 DEF WorkerHandles
  <2>2. ASSUME NEW h \in Hosts, h = host[a] \/ {h, host[a]} \subseteq PoolHosts
        PROVE  handle[h] \in {<<a, kind[a]>>, NoHandle}
    BY <2>2, UnbudgetedWhenAlone DEF Active
  <2>3. ~Pooled(a)
    BY <1>4 DEF Pooled
  <2> QED
    BY <1>1, <2>1, <2>2, <2>3
<1> QED
  BY <1>1, <1>2, <1>3, <1>4

(* The jobs of another compile never charge the scope of one that is alone. *)
LEMMA OthersHandles ==
  ASSUME TypeOK, FramesOK, HandlesOK, NEW a \in Compiles, Alone(a),
         NEW d \in Compiles \ {a}, pc[d] = "running", NEW k
  PROVE  <<a, k>> \notin WorkerHandles(d)
<1> SUFFICES ASSUME <<a, k>> \in WorkerHandles(d) PROVE FALSE
  OBVIOUS
<1>1. host[d] \in Hosts /\ request[d].large \in BOOLEAN /\ scope[d].pool \in BOOLEAN
  BY RequestFacts DEF TypeOK
<1>2. CASE request[d].large
  BY <1>2 DEF WorkerHandles, NoHandle
<1>3. CASE ~request[d].large /\ scope[d].pool
  BY <1>3 DEF WorkerHandles
<1>4. CASE ~request[d].large /\ ~scope[d].pool
  <2>1. WorkerHandles(d) = IF host[d] \in PoolHosts THEN {handle[h] : h \in PoolHosts}
                                                    ELSE {handle[host[d]], NoHandle}
    BY <1>4 DEF WorkerHandles
  <2>2. <<a, k>> # NoHandle
    BY DEF NoHandle
  <2>3. PICK h \in Hosts : /\ handle[h] = <<a, k>>
                           /\ h = host[d] \/ {h, host[d]} \subseteq PoolHosts
    BY <1>1, <2>1, <2>2
  <2> QED
    BY <2>3, NotOfOneAlone DEF Active
<1> QED
  BY <1>1, <1>2, <1>3, <1>4

(* A step of another compile leaves the counters of one that is alone.      *)
LEMMA OthersUnits ==
  ASSUME TypeOK, FramesOK, HandlesOK, NEW a \in Compiles, Alone(a),
         NEW d \in Compiles \ {a}, Step(d), NEW k \in Kinds
  PROVE  units'[<<a, k>>] = units[<<a, k>>]
<1>0. units \in [Handles -> Nat] /\ <<a, k>> \in Handles /\ host[d] \in Hosts
  BY RequestFacts DEF TypeOK, Handles
<1>1. CASE units' = units
  BY <1>1
<1>2. ASSUME NEW j \in AllJobs, Charge(d, j) PROVE units'[<<a, k>>] = units[<<a, k>>]
  <2>1. PICK s \in WorkerHandles(d) :
          units' = units \/ units' = [units EXCEPT ![s] = IF s = NoHandle THEN 0 ELSE units[s] + 1]
    BY <1>2 DEF Charge
  <2>2. s # <<a, k>>
    BY <1>2, <2>1, OthersHandles DEF Charge
  <2> QED
    BY <1>0, <2>1, <2>2
<1>3. CASE TokenTrieFallback(d)
  <2>1. pc[d] = "fallback"
    BY <1>3 DEF TokenTrieFallback
  <2>2. handle[host[d]] # <<a, k>>
    BY <1>0, <2>1, NotOfOneAlone DEF Active
  <2> QED
    BY <1>0, <1>3, <2>2 DEF TokenTrieFallback
<1> QED
  BY <1>1, <1>2, <1>3 DEF Step, Begin, EnterWithLimit, FinishJob, Leave, Return

-----------------------------------------------------------------------------
(* Attempts in order *)

LEMMA StagesStep ==
  ASSUME TypeOK, FramesOK, HandlesOK, StagesOK, NEW c \in Compiles, Step(c)
  PROVE  StagesOK'
<1>0. /\ pc \in [Compiles -> {"idle", "enter", "running", "fallback",
                              "built", "declined", "error", "returned"}]
      /\ kind \in [Compiles -> Kinds] /\ host[c] \in Hosts
      /\ ended \in [Handles -> [how : {None, "ok", "declined", "error"}, pooled : BOOLEAN]]
      /\ answer \in [Compiles -> {None, "built", "declined", "error"}]
      /\ request[c].auto \in BOOLEAN /\ request[c].retained \in BOOLEAN
      /\ request[c].rescue \in BOOLEAN /\ request[c].first \in BOOLEAN
  BY RequestFacts DEF TypeOK
<1>1. host' = host /\ request' = request
  BY StepIsLocal
<1>2. ASSUME NEW d \in Compiles, d # c PROVE StageOK(d)'
  <2>1. /\ pc'[d] = pc[d] /\ kind'[d] = kind[d] /\ answer'[d] = answer[d]
        /\ ended'[<<d, "attempt">>] = ended[<<d, "attempt">>]
        /\ ended'[<<d, "rescue">>] = ended[<<d, "rescue">>]
    BY <1>2, StepIsLocal DEF Kinds
  <2>2. StageOK(d)
    BY DEF StagesOK
  <2> QED
    BY <1>1, <2>1, <2>2 DEF StageOK, Alone
<1>3. StageOK(c)
  BY DEF StagesOK
<1>4. StageOK(c)'
  <2>1. CASE Begin(c)
    <3>1. /\ pc[c] = "idle" /\ pc'[c] = "enter" /\ UNCHANGED <<ended, answer>>
          /\ kind'[c] = IF request[c].rescue /\ request[c].first THEN "rescue" ELSE "attempt"
      BY <1>0, <2>1 DEF Begin
    <3> QED
      BY <1>1, <1>3, <3>1 DEF StageOK, None
  <2>2. CASE EnterWithLimit(c)
    <3>1. pc[c] = "enter" /\ pc'[c] = "running" /\ UNCHANGED <<ended, answer, kind>>
      BY <1>0, <2>2 DEF EnterWithLimit
    <3> QED
      BY <1>1, <1>3, <3>1 DEF StageOK, Alone
  <2>3. ASSUME UNCHANGED <<pc, kind, ended, answer>> PROVE StageOK(c)'
    BY <1>1, <1>3, <2>3 DEF StageOK, Alone
  <2>4. CASE Leave(c)
    <3>1. PICK how \in Outcomes(c) :
            /\ ended' = [ended EXCEPT ![<<c, kind[c]>>] =
                           [how |-> how, pooled |-> scope[c].pool /\ ~request[c].large]]
            /\ pc' = [pc EXCEPT ![c] = After(c, how).pc]
            /\ kind' = [kind EXCEPT ![c] = After(c, how).kind]
      BY <2>4 DEF Leave
    <3>2. pc[c] = "running" /\ answer' = answer
      BY <2>4 DEF Leave
    <3>3. how \in {"ok", "declined", "error"}
      BY OutcomeTypes
    <3>4. pc'[c] = After(c, how).pc /\ kind'[c] = After(c, how).kind
      BY <1>0, <3>1
    <3>5. <<c, "attempt">> # <<c, "rescue">> /\ <<c, "attempt">> \in Handles /\ <<c, "rescue">> \in Handles
      BY DEF Handles, Kinds
    <3>6. CASE kind[c] = "attempt"
      <4>1. ended'[<<c, "attempt">>].how = how /\ ended'[<<c, "rescue">>] = ended[<<c, "rescue">>]
        BY <1>0, <3>1, <3>5, <3>6
      <4>2. Alone(c) => answer[c] # "declined"
        BY <1>3, <3>2, <3>6 DEF StageOK, None
      <4> QED
        BY <1>0, <1>1, <1>3, <3>2, <3>3, <3>4, <3>6, <4>1, <4>2 DEF StageOK, After, Alone
    <3>7. CASE kind[c] = "rescue"
      <4>1. ended'[<<c, "rescue">>].how = how /\ ended'[<<c, "attempt">>] = ended[<<c, "attempt">>]
        BY <1>0, <3>1, <3>5, <3>7
      <4>2. Alone(c) => answer[c] # "declined"
        BY <1>3, <3>2, <3>7 DEF StageOK, None
      <4> QED
        BY <1>0, <1>1, <1>3, <3>2, <3>3, <3>4, <3>7, <4>1, <4>2 DEF StageOK, After, Alone
    <3> QED
      BY <1>0, <3>6, <3>7 DEF Kinds
  <2>5. CASE TokenTrieFallback(c)
    <3>1. /\ pc[c] = "fallback" /\ pc'[c] \in {"declined", "error", "built"}
          /\ UNCHANGED <<ended, answer, kind>>
          /\ pc'[c] = "declined" => handle[host[c]] # NoHandle
      BY <1>0, <2>5 DEF TokenTrieFallback
    <3>2. ASSUME Alone(c) PROVE pc'[c] \in {"error", "built"}
      <4>1. handle[host[c]] = NoHandle
        BY <1>0, <3>1, <3>2, UnbudgetedWhenAlone DEF Active
      <4> QED BY <3>1, <4>1
    <3> QED
      BY <1>1, <1>3, <3>1, <3>2 DEF StageOK, Alone
  <2>6. CASE Return(c)
    <3>1. /\ pc[c] \in {"built", "declined", "error"} /\ pc'[c] = "returned"
          /\ answer'[c] = pc[c] /\ UNCHANGED <<ended, kind>>
      BY <1>0, <2>6 DEF Return
    <3> QED
      BY <1>1, <1>3, <3>1 DEF StageOK, Alone
  <2> QED
    BY <2>1, <2>2, <2>3, <2>4, <2>5, <2>6 DEF Step, Charge, FinishJob
<1> QED
  BY <1>2, <1>4 DEF StagesOK

-----------------------------------------------------------------------------
(* What an attempt spends and what it costs *)

LEMMA SpentType ==
  ASSUME TypeOK, NEW c \in Compiles
  PROVE  \A j \in AllJobs : Spent(c)[j] \in Nat
<1> TAKE j \in AllJobs
<1>1. jobs[c][j].made \in Nat /\ request[c].template[j] \in Nat
  BY RequestFacts, JobTypes DEF JobType
<1> QED
  BY <1>1 DEF Spent

LEMMA OwedType ==
  ASSUME TypeOK, NEW c \in Compiles, NEW k \in Kinds
  PROVE  \A j \in AllJobs : Owed(<<c, k>>)[j] \in Nat
<1> TAKE j \in AllJobs
<1>1. request[c].template[j] \in Nat /\ request[c].trie[j] \in Nat
  BY RequestFacts
<1> QED
  BY <1>1 DEF Owed

(* The cost of an attempt, job by job. *)
LEMMA CostIsOwed ==
  ASSUME TypeOK, NEW c \in Compiles, NEW k \in Kinds
  PROVE  Cost(<<c, k>>) = SumFunctionOnSet(Owed(<<c, k>>), Jobs(k))
<1> DEFINE s == <<c, k>>
           U == Jobs(k)
           T == IF FallsBackByPart(c, k) THEN Unsupported(s) ELSE {}
           f == request[c].template
           g == request[c].trie
           h == Owed(s)
<1>1. IsFiniteSet(U) /\ U \subseteq AllJobs
  BY JobsFinite
<1>2. T \in SUBSET U
  BY DEF Unsupported
<1>3. \A x \in U : f[x] \in Nat /\ g[x] \in Nat
  BY <1>1, RequestFacts
<1>4. \A x \in U : h[x] = f[x] + IF x \in T THEN g[x] ELSE 0
  BY <1>1 DEF Owed
<1>5. SumFunctionOnSet(h, U) = SumFunctionOnSet(f, U) + SumFunctionOnSet(g, T)
  <2> HIDE DEF U, T, f, g, h
  <2> QED BY <1>1, <1>2, <1>3, <1>4, SumSplit
<1>6. ~FallsBackByPart(c, k) => SumFunctionOnSet(g, T) = 0
  <2>1. SumFunctionOnSet(g, {}) = 0
    <3> HIDE DEF U, g
    <3> QED BY <1>1, <1>3, SumStep
  <2> QED BY <2>1
<1>7. Cost(s) = SumFunctionOnSet(f, U)
                  + IF FallsBackByPart(c, k) THEN SumFunctionOnSet(g, Unsupported(s)) ELSE 0
  BY DEF Cost
<1> QED
  BY <1>5, <1>6, <1>7

(* A job within its budget has spent no more than it owes, and less before  *)
(* its last charge; one that succeeded has spent it all.                    *)
LEMMA WithinOwed ==
  ASSUME TypeOK, NEW c \in Compiles, NEW j \in Jobs(kind[c]), JobWithin(c, j)
  PROVE  /\ Spent(c)[j] <= Owed(<<c, kind[c]>>)[j]
         /\ jobs[c][j].made < Demand(c, j) => Spent(c)[j] + 1 <= Owed(<<c, kind[c]>>)[j]
         /\ jobs[c][j].state = "ok" => Spent(c)[j] = Owed(<<c, kind[c]>>)[j]
<1>0. kind[c] \in Kinds
  BY DEF TypeOK
<1>1. j \in AllJobs
  BY <1>0, JobsFinite
<1>2. request[c].template[j] \in Nat /\ request[c].trie[j] \in Nat /\ jobs[c][j] \in JobType
  BY <1>1, RequestFacts, JobTypes
<1>3. jobs[c][j].made \in Nat /\ jobs[c][j].engine \in {"template", "trie"}
  BY <1>2 DEF JobType
<1>4. Spent(c)[j] = jobs[c][j].made + IF jobs[c][j].engine = "trie" THEN request[c].template[j] ELSE 0
  BY <1>1 DEF Spent
<1>5. Owed(<<c, kind[c]>>)[j] = request[c].template[j]
         + IF FallsBackByPart(c, kind[c]) /\ j \in request[c].unsupported THEN request[c].trie[j] ELSE 0
  BY <1>1 DEF Owed, Unsupported
<1>6. CASE jobs[c][j].engine = "template"
  <2>1. /\ Demand(c, j) = request[c].template[j] /\ jobs[c][j].made <= request[c].template[j]
        /\ Spent(c)[j] = jobs[c][j].made
    BY <1>3, <1>4, <1>6 DEF Demand, JobWithin
  <2>2. jobs[c][j].state = "ok" => j \notin request[c].unsupported /\ jobs[c][j].made = request[c].template[j]
    BY <1>6, <2>1 DEF JobWithin
  <2> QED
    BY <1>2, <1>3, <1>5, <2>1, <2>2
<1>7. CASE jobs[c][j].engine = "trie"
  <2>1. /\ Demand(c, j) = request[c].trie[j] /\ jobs[c][j].made <= request[c].trie[j]
        /\ Spent(c)[j] = jobs[c][j].made + request[c].template[j]
        /\ Owed(<<c, kind[c]>>)[j] = request[c].template[j] + request[c].trie[j]
    BY <1>4, <1>5, <1>7 DEF Demand, JobWithin
  <2>2. jobs[c][j].state = "ok" => jobs[c][j].made = request[c].trie[j]
    BY <2>1 DEF JobWithin
  <2> QED
    BY <1>2, <1>3, <2>1, <2>2
<1> QED
  BY <1>3, <1>6, <1>7

(* An attempt within its budget that is about to charge has not spent its   *)
(* whole cost.                                                              *)
LEMMA SpentBelowCost ==
  ASSUME TypeOK, NEW c \in Compiles, NEW j \in Jobs(kind[c]),
         jobs[c][j].made < Demand(c, j), \A i \in Jobs(kind[c]) : JobWithin(c, i)
  PROVE  SumFunctionOnSet(Spent(c), Jobs(kind[c])) + 1 <= Cost(<<c, kind[c]>>)
<1> DEFINE U == Jobs(kind[c])
           f == Spent(c)
           h == Owed(<<c, kind[c]>>)
           g == [i \in U |-> IF i = j THEN f[i] + 1 ELSE f[i]]
<1>1. kind[c] \in Kinds /\ IsFiniteSet(U) /\ U \subseteq AllJobs
  BY JobsFinite DEF TypeOK
<1>2. \A i \in U : f[i] \in Nat /\ h[i] \in Nat
  BY <1>1, SpentType, OwedType
<1>3. \A i \in U : g[i] \in Nat /\ g[i] <= h[i]
  BY <1>2, WithinOwed
<1>4. \A i \in U \ {j} : g[i] = f[i]
  OBVIOUS
<1>5. g[j] = f[j] + 1 /\ f[j] \in Nat
  BY <1>2
<1>6. Cost(<<c, kind[c]>>) = SumFunctionOnSet(h, U)
  BY <1>1, CostIsOwed
<1>7. j \in U
  OBVIOUS
<1> HIDE DEF U, f, g, h
<1>8. SumFunctionOnSet(g, U) <= SumFunctionOnSet(h, U)
  BY <1>1, <1>2, <1>3, SumMonotone
<1>9. SumFunctionOnSet(g, U) + f[j] = SumFunctionOnSet(f, U) + g[j]
  BY <1>1, <1>2, <1>3, <1>4, <1>7, SumUpdate
<1>10. SumFunctionOnSet(g, U) \in Nat /\ SumFunctionOnSet(h, U) \in Nat
  BY <1>1, <1>2, <1>3, SumStep
<1>11. SumFunctionOnSet(f, U) \in Nat
  BY <1>1, <1>2, SumStep
<1>12. SumFunctionOnSet(g, U) = SumFunctionOnSet(f, U) + 1
  BY <1>5, <1>9, <1>10, <1>11
<1>13. SumFunctionOnSet(f, U) + 1 <= Cost(<<c, kind[c]>>)
  BY <1>6, <1>8, <1>12
<1> QED
  BY <1>13 DEF f, U

(* An attempt all of whose jobs succeeded within the budget spent its cost. *)
LEMMA SpentIsCost ==
  ASSUME TypeOK, NEW c \in Compiles,
         \A i \in Jobs(kind[c]) : JobWithin(c, i) /\ jobs[c][i].state = "ok"
  PROVE  SumFunctionOnSet(Spent(c), Jobs(kind[c])) = Cost(<<c, kind[c]>>)
<1> DEFINE U == Jobs(kind[c])
           f == Spent(c)
           h == Owed(<<c, kind[c]>>)
<1>1. kind[c] \in Kinds /\ IsFiniteSet(U) /\ U \subseteq AllJobs
  BY JobsFinite DEF TypeOK
<1>2. \A i \in U : f[i] \in Nat /\ h[i] = f[i]
  BY <1>1, SpentType, WithinOwed
<1>3. Cost(<<c, kind[c]>>) = SumFunctionOnSet(h, U)
  BY <1>1, CostIsOwed
<1>4. SumFunctionOnSet(f, U) = SumFunctionOnSet(h, U)
  <2> HIDE DEF U, f, h
  <2> QED BY <1>1, <1>2, SumSame
<1> QED
  BY <1>3, <1>4

-----------------------------------------------------------------------------
(* The accounts of an attempt *)

\* What AccountsOK says of compile a.
Account(a) ==
  /\ pc[a] = "running" => Within(a) \/ Exceeded(a)
  /\ \A k \in Kinds :
       ended[<<a, k>>].how = None /\ ~(pc[a] = "running" /\ kind[a] = k) => units[<<a, k>>] = 0

(* A step of another compile leaves the accounts of one that is alone.      *)
LEMMA OthersAccount ==
  ASSUME IInv, NEW a \in Compiles, Alone(a), Account(a), NEW d \in Compiles \ {a}, Step(d)
  PROVE  Account(a)'
<1>1. /\ request' = request /\ pc'[a] = pc[a] /\ kind'[a] = kind[a] /\ scope'[a] = scope[a]
      /\ jobs'[a] = jobs[a] /\ \A k \in Kinds : ended'[<<a, k>>] = ended[<<a, k>>]
  BY StepIsLocal DEF IInv
<1>2. \A k \in Kinds : units'[<<a, k>>] = units[<<a, k>>]
  BY OthersUnits DEF IInv
<1>3. kind[a] \in Kinds
  BY DEF IInv, TypeOK
<1>4. Spent(a)' = Spent(a) /\ Cost(<<a, kind[a]>>)' = Cost(<<a, kind[a]>>) /\ Pooled(a)' = Pooled(a)
  BY <1>1 DEF Spent, Cost, Pooled, FallsBackByPart, Unsupported
<1>5. \A j \in Jobs(kind[a]) : JobWithin(a, j)' <=> JobWithin(a, j)
  BY <1>1 DEF JobWithin, Demand, FallsBackByPart
<1>6. Within(a)' <=> Within(a)
  BY <1>1, <1>2, <1>3, <1>4, <1>5 DEF Within
<1>7. Exceeded(a)' <=> Exceeded(a)
  BY <1>1, <1>2, <1>3, <1>4 DEF Exceeded
<1> QED
  BY <1>1, <1>2, <1>6, <1>7 DEF Account

(* The request, and so what an attempt costs, never changes.                *)
LEMMA CostStays ==
  ASSUME TypeOK, NEW c \in Compiles, Step(c)
  PROVE  /\ \A s \in Handles : Cost(s)' = Cost(s) /\ Unsupported(s)' = Unsupported(s)
         /\ \A d \in Compiles, k \in Kinds : FallsBackByPart(d, k)' = FallsBackByPart(d, k)
         /\ \A d \in Compiles : Alone(d)' = Alone(d)
<1>1. request' = request /\ host' = host
  BY StepIsLocal
<1> QED
  BY <1>1 DEF Cost, Unsupported, FallsBackByPart, Alone

LEMMA EnterAccount ==
  ASSUME IInv, NEW a \in Compiles, Alone(a), Account(a), EnterWithLimit(a)
  PROVE  Account(a)'
<1>0. TypeOK /\ StageOK(a) /\ Step(a)
  BY DEF IInv, StagesOK, Step
<1>1. /\ pc[a] = "enter" /\ pc'[a] = "running"
      /\ UNCHANGED <<host, request, kind, frames, units, ended, answer>>
      /\ jobs'[a] = [j \in AllJobs |-> Fresh("template")]
  BY <1>0 DEF EnterWithLimit, TypeOK
<1>2. kind[a] \in Kinds /\ ended[<<a, kind[a]>>].how = None
  BY <1>0, <1>1 DEF StageOK, TypeOK, Kinds, None
<1>3. units[<<a, kind[a]>>] = 0
  BY <1>1, <1>2 DEF Account
<1>4. IsFiniteSet(Jobs(kind[a])) /\ Jobs(kind[a]) \subseteq AllJobs
  BY <1>2, JobsFinite
<1>5. \A j \in AllJobs : Spent(a)'[j] = 0
  BY <1>1 DEF Spent, Fresh
<1>6. PICK f : f = Spent(a)'
  OBVIOUS
<1>7. SumFunctionOnSet(f, Jobs(kind[a])) = 0
  BY <1>4, <1>5, <1>6, SumZero
<1>8. ASSUME NEW j \in Jobs(kind[a]) PROVE JobWithin(a, j)'
  <2>1. jobs'[a][j] = Fresh("template") /\ request[a].template[j] \in Nat
    BY <1>0, <1>1, <1>4, RequestFacts
  <2> QED
    BY <1>1, <2>1 DEF JobWithin, Demand, Fresh
<1>9. Within(a)'
  BY <1>1, <1>3, <1>6, <1>7, <1>8 DEF Within
<1> QED
  BY <1>1, <1>9 DEF Account

(* A step that sets job j of the attempt, within the budget.                *)
LEMMA SpentUpdate ==
  ASSUME TypeOK, TypeOK', NEW a \in Compiles, NEW j \in Jobs(kind[a]), request' = request,
         \A i \in AllJobs \ {j} : jobs'[a][i] = jobs[a][i]
  PROVE  /\ SumFunctionOnSet(Spent(a), Jobs(kind[a])) \in Nat
         /\ SumFunctionOnSet(Spent(a)', Jobs(kind[a])) \in Nat
         /\ SumFunctionOnSet(Spent(a)', Jobs(kind[a])) + Spent(a)[j]
              = SumFunctionOnSet(Spent(a), Jobs(kind[a])) + Spent(a)'[j]
<1> DEFINE U == Jobs(kind[a])
<1>1. kind[a] \in Kinds /\ IsFiniteSet(U) /\ U \subseteq AllJobs
  BY JobsFinite DEF TypeOK
<1>2. \A i \in AllJobs : Spent(a)[i] \in Nat
  BY SpentType
<1>3. \A i \in AllJobs : Spent(a)'[i] \in Nat
  <2> SUFFICES ASSUME NEW i \in AllJobs PROVE Spent(a)'[i] \in Nat
    OBVIOUS
  <2>1. jobs'[a][i] \in JobType /\ request[a].template[i] \in Nat
    BY RequestFacts DEF TypeOK, JobType
  <2> QED
    BY <2>1 DEF Spent, JobType
<1>4. \A i \in U \ {j} : Spent(a)'[i] = Spent(a)[i]
  BY <1>1 DEF Spent
<1>5. PICK f, g : f = Spent(a) /\ g = Spent(a)'
  OBVIOUS
<1>6. j \in U /\ (\A y \in U : f[y] \in Nat /\ g[y] \in Nat) /\ \A y \in U \ {j} : g[y] = f[y]
  BY <1>1, <1>2, <1>3, <1>4, <1>5
<1> HIDE DEF U
<1>7. SumFunctionOnSet(g, U) + f[j] = SumFunctionOnSet(f, U) + g[j]
  BY <1>1, <1>6, SumUpdate
<1>8. SumFunctionOnSet(g, U) \in Nat /\ SumFunctionOnSet(f, U) \in Nat
  BY <1>1, <1>6, SumStep
<1> QED
  BY <1>5, <1>7, <1>8 DEF U

LEMMA ChargeAccount ==
  ASSUME IInv, TypeOK', NEW a \in Compiles, Alone(a), Account(a),
         NEW j \in AllJobs, Charge(a, j)
  PROVE  Account(a)'
<1>0. TypeOK /\ FramesOK /\ HandlesOK /\ Step(a)
  BY DEF IInv, Step
<1>1. /\ pc[a] = "running" /\ j \in Jobs(kind[a]) /\ jobs[a][j].state = "ready"
      /\ jobs[a][j].made < Demand(a, j)
      /\ UNCHANGED <<host, request, pc, kind, scope, handle, frames, ended, answer>>
  BY DEF Charge
<1> DEFINE own == <<a, kind[a]>>
           n == units[own]
           charged == [jobs[a][j] EXCEPT !.made = @ + 1]
           \* how the counter and the job move
           Moved(v) == jobs'[a][j] = v /\ \A i \in AllJobs \ {j} : jobs'[a][i] = jobs[a][i]
<1>2. /\ units \in [Handles -> Nat] /\ own \in Handles /\ kind[a] \in Kinds /\ n \in Nat
      /\ jobs[a][j] \in JobType /\ charged \in JobType /\ Declined(a, j) \in JobType
      /\ jobs \in [Compiles -> [AllJobs -> JobType]] /\ own # NoHandle
  <2>1. units \in [Handles -> Nat] /\ own \in Handles /\ kind[a] \in Kinds /\ n \in Nat
    BY <1>0 DEF TypeOK, Handles
  <2>2. jobs \in [Compiles -> [AllJobs -> JobType]] /\ own # NoHandle
    BY <1>0 DEF TypeOK, JobType, NoHandle
  <2>3. jobs[a][j] \in JobType /\ Declined(a, j) \in JobType
    BY <1>0, JobTypes
  <2>4. charged \in JobType
    BY <2>3 DEF JobType
  <2> QED BY <2>1, <2>2, <2>3, <2>4
<1>3. \/ /\ units' = units /\ Moved(charged) /\ ~Pooled(a)
      \/ /\ units' = [units EXCEPT ![own] = n + 1] /\ n + 1 <= Limit /\ Moved(charged)
      \/ /\ units' = [units EXCEPT ![own] = n + 1] /\ n + 1 > Limit /\ Moved(Declined(a, j))
  <2>1. PICK s \in WorkerHandles(a) :
          LET total == IF s = NoHandle THEN 0 ELSE units[s] + 1
          IN /\ units' = IF s = NoHandle THEN units ELSE [units EXCEPT ![s] = total]
             /\ jobs' = [jobs EXCEPT ![a][j] =
                           IF s # NoHandle /\ Exhausts(total) THEN Declined(a, j) ELSE charged]
    BY DEF Charge
  <2>2. s \in {own, NoHandle} /\ (Pooled(a) => s = own)
    BY <1>0, <1>1, <2>1, OwnHandleOnly
  <2>3. ASSUME NEW v \in JobType, jobs' = [jobs EXCEPT ![a][j] = v] PROVE Moved(v)
    <3> HIDE DEF JobType
    <3> QED BY <1>2, <2>3, SetJob
  <2>4. CASE s = NoHandle
    <3>1. units' = units /\ jobs' = [jobs EXCEPT ![a][j] = charged] /\ ~Pooled(a)
      BY <1>2, <2>1, <2>2, <2>4
    <3> HIDE DEF charged, Moved
    <3> QED BY <1>2, <2>3, <3>1
  <2>5. CASE s = own /\ ~Exhausts(n + 1)
    <3>1. /\ units' = [units EXCEPT ![own] = n + 1] /\ jobs' = [jobs EXCEPT ![a][j] = charged]
          /\ n + 1 <= Limit
      <4>1. n + 1 <= Limit
        BY <1>2, <2>5 DEF Exhausts
      <4> HIDE DEF charged
      <4> QED BY <1>2, <2>1, <2>5, <4>1
    <3> HIDE DEF charged, Moved
    <3> QED BY <1>2, <2>3, <3>1
  <2>6. CASE s = own /\ Exhausts(n + 1)
    <3>1. /\ units' = [units EXCEPT ![own] = n + 1] /\ jobs' = [jobs EXCEPT ![a][j] = Declined(a, j)]
          /\ n + 1 > Limit
      BY <1>2, <2>1, <2>6 DEF Exhausts
    <3> HIDE DEF Moved
    <3> QED BY <1>2, <2>3, <3>1
  <2> QED
    BY <2>2, <2>4, <2>5, <2>6
<1>4. Cost(own)' = Cost(own) /\ Pooled(a)' = Pooled(a)
  BY <1>1 DEF Cost, Unsupported, FallsBackByPart, Pooled
<1>5. ASSUME Within(a) PROVE Within(a)' \/ Exceeded(a)'
  <2> DEFINE spent == SumFunctionOnSet(Spent(a), Jobs(kind[a]))
             after == SumFunctionOnSet(Spent(a)', Jobs(kind[a]))
  <2>1. n <= Limit /\ n <= spent /\ (Pooled(a) => n = spent) /\ \A i \in Jobs(kind[a]) : JobWithin(a, i)
    BY <1>5 DEF Within
  <2>2. ASSUME Moved(charged), units'[own] <= Limit,
               units'[own] = n \/ units'[own] = n + 1, Pooled(a) => units'[own] = n + 1
        PROVE  Within(a)'
    <3>1. spent \in Nat /\ after \in Nat /\ after + Spent(a)[j] = spent + Spent(a)'[j]
      BY <1>0, <1>1, <2>2, SpentUpdate
    <3>2. Spent(a)'[j] = Spent(a)[j] + 1 /\ Spent(a)[j] \in Nat
      <4>1. jobs[a][j].made \in Nat /\ request[a].template[j] \in Nat
        BY <1>0, <1>2, RequestFacts DEF JobType
      <4>2. jobs'[a][j].made = jobs[a][j].made + 1 /\ jobs'[a][j].engine = jobs[a][j].engine
        BY <1>2, <2>2 DEF JobType
      <4> QED
        BY <1>1, <4>1, <4>2 DEF Spent
    <3>3. after = spent + 1
      BY <3>1, <3>2
    <3>4. ASSUME NEW i \in Jobs(kind[a]) PROVE JobWithin(a, i)'
      <4>1. CASE i = j
        <5>1. /\ jobs'[a][j].made = jobs[a][j].made + 1 /\ jobs'[a][j].engine = jobs[a][j].engine
              /\ jobs'[a][j].state = "ready" /\ jobs[a][j].made \in Nat
          BY <1>1, <1>2, <2>2 DEF JobType
        <5>2. Demand(a, j)' = Demand(a, j) /\ Demand(a, j) \in Nat
          BY <1>0, <1>1, <5>1, JobTypes DEF Demand
        <5>3. jobs'[a][j].made <= Demand(a, j)'
          BY <1>1, <5>1, <5>2
        <5> QED
          BY <1>1, <2>1, <4>1, <5>1, <5>3 DEF JobWithin, FallsBackByPart
      <4>2. CASE i # j
        <5>1. jobs'[a][i] = jobs[a][i]
          BY <1>2, <2>2, <4>2, JobsFinite
        <5> QED
          BY <1>1, <2>1, <5>1 DEF JobWithin, Demand, FallsBackByPart
      <4> QED BY <4>1, <4>2
    <3> QED
      BY <1>1, <1>2, <1>4, <2>1, <2>2, <3>1, <3>3, <3>4 DEF Within
  <2>3. CASE units' = units /\ Moved(charged) /\ ~Pooled(a)
    BY <2>1, <2>2, <2>3
  <2>4. CASE units' = [units EXCEPT ![own] = n + 1] /\ n + 1 <= Limit /\ Moved(charged)
    <3>1. units'[own] = n + 1
      BY <1>2, <2>4
    <3> QED BY <2>2, <2>4, <3>1
  <2>5. CASE units' = [units EXCEPT ![own] = n + 1] /\ n + 1 > Limit /\ Moved(Declined(a, j))
    <3>1. spent + 1 <= Cost(own) /\ spent \in Nat /\ Cost(own) \in Nat
      <4>1. spent + 1 <= Cost(own)
        BY <1>0, <1>1, <2>1, SpentBelowCost
      <4>2. spent \in Nat
        BY <1>0, <1>1, <2>5, SpentUpdate
      <4>3. Cost(own) \in Nat
        <5>1. IsFiniteSet(Jobs(kind[a])) /\ Jobs(kind[a]) \subseteq AllJobs
          BY <1>2, JobsFinite
        <5>2. PICK h : h = Owed(own)
          OBVIOUS
        <5>3. \A i \in Jobs(kind[a]) : h[i] \in Nat
          BY <1>0, <1>2, <5>1, <5>2, OwedType
        <5>4. SumFunctionOnSet(h, Jobs(kind[a])) \in Nat
          BY <5>1, <5>3, SumStep
        <5> QED
          BY <1>0, <1>2, <5>2, <5>4, CostIsOwed
      <4> QED BY <4>1, <4>2, <4>3
    <3>2. Cost(own) > Limit
      BY <1>2, <2>1, <2>5, <3>1
    <3>3. units'[own] = n + 1
      BY <1>2, <2>5
    <3>4. \/ jobs'[a][j].state = "declined"
          \/ /\ jobs'[a][j].engine = "trie" /\ jobs'[a][j].state = "ready"
             /\ jobs'[a][j].made < request[a].trie[j]
      <4>1. request[a].trie[j] \in Nat /\ request[a].trie[j] > 0
        BY <1>0, RequestFacts
      <4> QED
        BY <1>2, <2>5, <4>1 DEF Declined, Fresh, JobType
    <3> QED
      BY <1>1, <1>4, <2>5, <3>2, <3>3, <3>4 DEF Exceeded
  <2> QED
    BY <1>3, <2>3, <2>4, <2>5
<1>6. ASSUME Exceeded(a) PROVE Exceeded(a)'
  <2>1. CASE ~Pooled(a)
    BY <1>1, <1>4, <1>6, <2>1 DEF Exceeded
  <2>2. CASE Pooled(a)
    <3>1. PICK i \in Jobs(kind[a]) :
            \/ jobs[a][i].state = "declined"
            \/ /\ jobs[a][i].engine = "trie" /\ jobs[a][i].state = "ready"
               /\ jobs[a][i].made < request[a].trie[i]
      BY <1>6, <2>2 DEF Exceeded
    <3>2. n > Limit /\ Cost(own) > Limit
      BY <1>6, <2>2 DEF Exceeded
    <3>3. units'[own] = n + 1 /\ Moved(Declined(a, j))
      BY <1>2, <1>3, <2>2, <3>2
    <3>4. i \in AllJobs
      BY <1>2, JobsFinite
    <3>5. CASE i = j
      <4>1. jobs'[a][j].state = "declined"
        BY <1>1, <1>2, <3>1, <3>3, <3>5 DEF Declined, JobType
      <4> QED
        BY <1>1, <1>2, <1>4, <3>2, <3>3, <4>1 DEF Exceeded
    <3>6. CASE i # j
      <4>1. jobs'[a][i] = jobs[a][i]
        BY <3>3, <3>4, <3>6
      <4> QED
        BY <1>1, <1>2, <1>4, <3>1, <3>2, <3>3, <4>1 DEF Exceeded
    <3> QED BY <3>5, <3>6
  <2> QED BY <2>1, <2>2
<1>7. ASSUME NEW k \in Kinds, k # kind[a] PROVE units'[<<a, k>>] = units[<<a, k>>]
  <2>1. <<a, k>> \in Handles /\ <<a, k>> # own
    BY <1>7 DEF Handles
  <2> QED
    BY <1>2, <1>3, <2>1
<1> QED
  BY <1>1, <1>5, <1>6, <1>7 DEF Account

LEMMA FinishAccount ==
  ASSUME IInv, TypeOK', NEW a \in Compiles, Alone(a), Account(a),
         NEW j \in AllJobs, FinishJob(a, j)
  PROVE  Account(a)'
<1>0. TypeOK /\ Step(a)
  BY DEF IInv, Step
<1>1. /\ pc[a] = "running" /\ j \in Jobs(kind[a]) /\ jobs[a][j].state = "ready"
      /\ jobs[a][j].made = Demand(a, j)
      /\ UNCHANGED <<host, request, pc, kind, scope, handle, frames, units, ended, answer>>
  BY DEF FinishJob
<1> DEFINE own == <<a, kind[a]>>
           v == IF j \in request[a].broken THEN [jobs[a][j] EXCEPT !.state = "error"]
                ELSE IF j \in request[a].unsupported /\ jobs[a][j].engine = "template" THEN Declined(a, j)
                ELSE [jobs[a][j] EXCEPT !.state = "ok"]
<1>2. /\ jobs \in [Compiles -> [AllJobs -> JobType]] /\ jobs[a][j] \in JobType
      /\ kind[a] \in Kinds
  BY <1>0 DEF TypeOK, JobType
<1>3. v \in JobType
  <2>1. Declined(a, j) \in JobType
    BY <1>0, JobTypes
  <2> QED BY <1>2, <2>1 DEF JobType
<1>4. jobs'[a][j] = v /\ \A i \in AllJobs \ {j} : jobs'[a][i] = jobs[a][i]
  <2>1. jobs' = [jobs EXCEPT ![a][j] = v]
    BY <1>2 DEF FinishJob
  <2> HIDE DEF v, JobType
  <2> QED BY <1>2, <1>3, <2>1, SetJob
<1>5. Cost(own)' = Cost(own) /\ Pooled(a)' = Pooled(a)
  BY <1>1 DEF Cost, Unsupported, FallsBackByPart, Pooled
<1>6. ASSUME Within(a) PROVE Within(a)'
  <2>1. JobWithin(a, j)
    BY <1>1, <1>6 DEF Within
  <2>2. jobs[a][j].made \in Nat /\ request[a].template[j] \in Nat /\ request[a].trie[j] \in Nat
    BY <1>0, <1>2, RequestFacts DEF JobType
  <2>3. Spent(a)'[j] = Spent(a)[j] /\ Spent(a)[j] \in Nat
    <3>1. \/ v.made = jobs[a][j].made /\ v.engine = jobs[a][j].engine
          \/ v = Fresh("trie") /\ jobs[a][j].engine = "template"
      BY <1>2 DEF Declined, JobType
    <3>2. CASE v.made = jobs[a][j].made /\ v.engine = jobs[a][j].engine
      <4> HIDE DEF v
      <4> QED BY <1>1, <1>4, <2>2, <3>2 DEF Spent
    <3>3. CASE v = Fresh("trie") /\ jobs[a][j].engine = "template"
      <4>1. jobs[a][j].made = request[a].template[j]
        BY <1>1, <3>3 DEF Demand
      <4> HIDE DEF v
      <4> QED BY <1>1, <1>4, <2>2, <3>3, <4>1 DEF Spent, Fresh
    <3> QED BY <3>1, <3>2, <3>3
  <2>4. SumFunctionOnSet(Spent(a)', Jobs(kind[a])) = SumFunctionOnSet(Spent(a), Jobs(kind[a]))
    <3>1. /\ SumFunctionOnSet(Spent(a), Jobs(kind[a])) \in Nat
          /\ SumFunctionOnSet(Spent(a)', Jobs(kind[a])) \in Nat
          /\ SumFunctionOnSet(Spent(a)', Jobs(kind[a])) + Spent(a)[j]
              = SumFunctionOnSet(Spent(a), Jobs(kind[a])) + Spent(a)'[j]
      BY <1>0, <1>1, <1>4, SpentUpdate
    <3> QED BY <2>3, <3>1
  <2>5. ASSUME NEW i \in Jobs(kind[a]) PROVE JobWithin(a, i)'
    <3>1. CASE i = j
      <4>1. CASE j \in request[a].broken
        <5>1. jobs'[a][j] = [jobs[a][j] EXCEPT !.state = "error"]
          BY <1>4, <4>1
        <5> QED
          BY <1>1, <1>2, <2>1, <3>1, <5>1 DEF JobWithin, Demand, FallsBackByPart, JobType
      <4>2. CASE j \notin request[a].broken /\ j \in request[a].unsupported /\ jobs[a][j].engine = "template"
        <5>1. jobs'[a][j] = Declined(a, j)
          BY <1>4, <4>2
        <5>2. CASE FallsBackByPart(a, kind[a])
          <6>1. jobs'[a][j] = Fresh("trie")
            BY <4>2, <5>1, <5>2 DEF Declined
          <6> QED
            BY <1>1, <2>2, <3>1, <4>2, <5>2, <6>1 DEF JobWithin, Demand, Fresh, FallsBackByPart
        <5>3. CASE ~FallsBackByPart(a, kind[a])
          <6>1. jobs'[a][j] = [jobs[a][j] EXCEPT !.state = "declined"]
            BY <5>1, <5>3 DEF Declined
          <6> QED
            BY <1>1, <1>2, <2>1, <3>1, <4>2, <5>3, <6>1 DEF JobWithin, Demand, FallsBackByPart, JobType
        <5> QED BY <5>2, <5>3
      <4>3. CASE j \notin request[a].broken /\ ~(j \in request[a].unsupported /\ jobs[a][j].engine = "template")
        <5>1. jobs'[a][j] = [jobs[a][j] EXCEPT !.state = "ok"]
          BY <1>4, <4>3
        <5> QED
          BY <1>1, <1>2, <2>1, <3>1, <4>3, <5>1 DEF JobWithin, Demand, FallsBackByPart, JobType
      <4> QED BY <4>1, <4>2, <4>3
    <3>2. CASE i # j
      <4>1. jobs'[a][i] = jobs[a][i]
        BY <1>2, <1>4, <3>2, JobsFinite
      <4>2. JobWithin(a, i)
        BY <1>6 DEF Within
      <4> QED
        BY <1>1, <4>1, <4>2 DEF JobWithin, Demand, FallsBackByPart
    <3> QED BY <3>1, <3>2
  <2> QED
    BY <1>1, <1>5, <1>6, <2>4, <2>5 DEF Within
<1>7. ASSUME Exceeded(a) PROVE Exceeded(a)'
  <2>1. CASE ~Pooled(a)
    BY <1>1, <1>5, <1>7, <2>1 DEF Exceeded
  <2>2. CASE Pooled(a)
    <3>1. PICK i \in Jobs(kind[a]) :
            \/ jobs[a][i].state = "declined"
            \/ /\ jobs[a][i].engine = "trie" /\ jobs[a][i].state = "ready"
               /\ jobs[a][i].made < request[a].trie[i]
      BY <1>7, <2>2 DEF Exceeded
    <3>2. i # j
      <4> SUFFICES ASSUME i = j PROVE FALSE
        OBVIOUS
      <4>1. jobs[a][j].engine = "trie" /\ jobs[a][j].made < request[a].trie[j]
        BY <1>1, <3>1
      <4>2. jobs[a][j].made = request[a].trie[j] /\ request[a].trie[j] \in Nat
        BY <1>0, <1>1, <4>1, RequestFacts DEF Demand
      <4> QED BY <4>1, <4>2
    <3>3. jobs'[a][i] = jobs[a][i]
      BY <1>2, <1>4, <3>2, JobsFinite
    <3> QED
      BY <1>1, <1>5, <1>7, <3>1, <3>3 DEF Exceeded
  <2> QED BY <2>1, <2>2
<1> QED
  BY <1>1, <1>6, <1>7 DEF Account

(* Once the attempt is over its counter is not read again.                  *)
LEMMA LeaveAccount ==
  ASSUME IInv, NEW a \in Compiles, Alone(a), Account(a), Leave(a)
  PROVE  Account(a)'
<1>0. TypeOK
  BY DEF IInv
<1>1. PICK how \in Outcomes(a) :
        /\ ended' = [ended EXCEPT ![<<a, kind[a]>>] =
                       [how |-> how, pooled |-> scope[a].pool /\ ~request[a].large]]
        /\ pc' = [pc EXCEPT ![a] = After(a, how).pc]
  BY DEF Leave
<1>2. pc'[a] # "running"
  BY <1>0, <1>1 DEF After, TypeOK
<1>3. units' = units
  BY DEF Leave
<1>4. how # None
  <2>1. how \in {"ok", "declined", "error"}
    BY <1>0, OutcomeTypes
  <2> QED
    BY <2>1 DEF None
<1>5. ASSUME NEW k \in Kinds, ended'[<<a, k>>].how = None PROVE units[<<a, k>>] = 0
  <2>1. <<a, k>> \in Handles /\ ended \in [Handles -> [how : {None, "ok", "declined", "error"}, pooled : BOOLEAN]]
    BY <1>0 DEF TypeOK, Handles
  <2>2. k # kind[a]
    <3>1. PICK e : e = [how |-> how, pooled |-> scope[a].pool /\ ~request[a].large]
      OBVIOUS
    <3>2. ended' = [ended EXCEPT ![<<a, kind[a]>>] = e] /\ e.how = how
      BY <1>1, <3>1
    <3>3. k = kind[a] => ended'[<<a, k>>] = e
      BY <2>1, <3>2
    <3> QED
      BY <1>4, <1>5, <3>2, <3>3
  <2>3. <<a, k>> # <<a, kind[a]>>
    BY <2>2
  <2>4. ended[<<a, k>>].how = None
    BY <1>1, <1>5, <2>1, <2>3
  <2> QED
    BY <2>2, <2>4 DEF Account
<1> QED
  BY <1>2, <1>3, <1>5 DEF Account

LEMMA AccountsStep ==
  ASSUME IInv, TypeOK', NEW c \in Compiles, Step(c)
  PROVE  AccountsOK'
<1>0. TypeOK /\ FramesOK /\ HandlesOK
  BY DEF IInv
<1>1. \A d \in Compiles : Alone(d)' <=> Alone(d)
  BY <1>0, CostStays
<1>2. ASSUME NEW a \in Compiles, Alone(a) PROVE Account(a)'
  <2>0. Account(a)
    BY <1>2 DEF IInv, AccountsOK, Account
  <2>1. CASE a # c
    BY <1>2, <2>0, <2>1, OthersAccount
  <2>2. CASE a = c
    <3>1. ASSUME pc'[a] # "running", pc[a] # "running", ended' = ended,
                 \A k \in Kinds : units'[<<a, k>>] = units[<<a, k>>]
          PROVE Account(a)'
      BY <2>0, <3>1 DEF Account
    <3>2. CASE Begin(c)
      <4>1. pc[c] # "running" /\ pc'[c] # "running" /\ ended' = ended /\ units' = units
        BY <1>0, <3>2 DEF Begin, TypeOK
      <4> QED BY <2>2, <3>1, <4>1
    <3>3. CASE EnterWithLimit(c)
      BY <1>2, <2>0, <2>2, <3>3, EnterAccount
    <3>4. ASSUME NEW j \in AllJobs, Charge(c, j) PROVE Account(a)'
      BY <1>2, <2>0, <2>2, <3>4, ChargeAccount
    <3>5. ASSUME NEW j \in AllJobs, FinishJob(c, j) PROVE Account(a)'
      BY <1>2, <2>0, <2>2, <3>5, FinishAccount
    <3>6. CASE Leave(c)
      BY <1>2, <2>0, <2>2, <3>6, LeaveAccount
    <3>7. CASE TokenTrieFallback(c)
      <4>1. pc[a] = "fallback" /\ pc'[a] # "running" /\ ended' = ended
        BY <1>0, <2>2, <3>7 DEF TokenTrieFallback, TypeOK
      <4>2. host[a] \in Hosts
        BY <1>0, RequestFacts
      <4>3. handle[host[a]] = NoHandle
        BY <1>0, <1>2, <4>1, <4>2, UnbudgetedWhenAlone DEF Active
      <4>4. units' = units
        BY <2>2, <3>7, <4>3 DEF TokenTrieFallback
      <4> QED BY <3>1, <4>1, <4>4
    <3>8. CASE Return(c)
      <4>1. pc[c] # "running" /\ pc'[c] # "running" /\ ended' = ended /\ units' = units
        BY <1>0, <3>8 DEF Return, TypeOK
      <4> QED BY <2>2, <3>1, <4>1
    <3> QED
      BY <3>2, <3>3, <3>4, <3>5, <3>6, <3>7, <3>8 DEF Step
  <2> QED BY <2>1, <2>2
<1> QED
  BY <1>1, <1>2 DEF AccountsOK, Account

(* How an attempt of a compile that is alone may end.                       *)
LEMMA Verdict ==
  ASSUME IInv, NEW a \in Compiles, Alone(a), Leave(a), NEW how \in Outcomes(a)
  PROVE  LET s == <<a, kind[a]>>
         IN /\ how = "declined" => \/ Cost(s) > Limit
                                   \/ Unsupported(s) # {} /\ ~FallsBackByPart(a, kind[a])
            /\ how = "ok" /\ Pooled(a) => Cost(s) <= Limit
<1> DEFINE s == <<a, kind[a]>>
<1>0. TypeOK /\ pc[a] = "running" /\ Settled(a)
  BY DEF IInv, Leave
<1>1. Within(a) \/ Exceeded(a)
  BY <1>0 DEF IInv, AccountsOK
<1>2. kind[a] \in Kinds /\ Jobs(kind[a]) \subseteq AllJobs
  BY <1>0, JobsFinite DEF TypeOK
<1>3. ASSUME how = "declined", Within(a) PROVE Unsupported(s) # {} /\ ~FallsBackByPart(a, kind[a])
  <2>1. PICK j \in Jobs(kind[a]) : jobs[a][j].state = "declined"
    BY <1>3 DEF Outcomes, Failures
  <2>2. JobWithin(a, j)
    BY <1>3 DEF Within
  <2> QED
    BY <2>1, <2>2 DEF JobWithin, Unsupported
<1>4. ASSUME how = "ok", Pooled(a) PROVE Cost(s) <= Limit
  <2>1. Failures(a) = {}
    BY <1>4 DEF Outcomes, Failures
  <2>2. \A j \in Jobs(kind[a]) : jobs[a][j].state = "ok"
    BY <1>0, <2>1 DEF Settled, Failures
  <2>3. ~Exceeded(a)
    BY <1>4, <2>2 DEF Exceeded
  <2>4. Within(a)
    BY <1>1, <2>3
  <2>5. SumFunctionOnSet(Spent(a), Jobs(kind[a])) = Cost(s)
    BY <1>0, <2>2, <2>4, SpentIsCost DEF Within
  <2> QED
    BY <1>4, <2>4, <2>5 DEF Within
<1> QED
  BY <1>1, <1>3, <1>4 DEF Exceeded

LEMMA VerdictStep ==
  ASSUME IInv, NEW c \in Compiles, Step(c)
  PROVE  DeclinedIffOverrun'
<1>0. TypeOK /\ DeclinedIffOverrun
  BY DEF IInv
<1>1. /\ \A s \in Handles : Cost(s)' = Cost(s) /\ Unsupported(s)' = Unsupported(s)
      /\ \A d \in Compiles, k \in Kinds : FallsBackByPart(d, k)' = FallsBackByPart(d, k)
      /\ \A d \in Compiles : Alone(d)' = Alone(d)
  BY <1>0, CostStays
<1>2. SUFFICES ASSUME NEW s \in Handles, Alone(s[1])
               PROVE  /\ ended'[s].how = "declined" =>
                           \/ Cost(s) > Limit
                           \/ Unsupported(s) # {} /\ ~FallsBackByPart(s[1], s[2])
                      /\ ended'[s].how = "ok" /\ ended'[s].pooled => Cost(s) <= Limit
  BY <1>1 DEF DeclinedIffOverrun, Handles
<1>3. CASE ended'[s] = ended[s]
  BY <1>0, <1>2, <1>3 DEF DeclinedIffOverrun
<1>4. CASE ended'[s] # ended[s]
  <2>1. Leave(c)
    BY <1>4 DEF Step, Begin, EnterWithLimit, Charge, FinishJob, TokenTrieFallback, Return
  <2>2. PICK how \in Outcomes(c) :
          ended' = [ended EXCEPT ![<<c, kind[c]>>] =
                      [how |-> how, pooled |-> scope[c].pool /\ ~request[c].large]]
    BY <2>1 DEF Leave
  <2>3. s = <<c, kind[c]>> /\ ended'[s] = [how |-> how, pooled |-> Pooled(c)]
    BY <1>0, <1>4, <2>2 DEF TypeOK, Pooled
  <2>4. Alone(c)
    BY <1>2, <2>3
  <2>5. /\ how = "declined" => \/ Cost(<<c, kind[c]>>) > Limit
                               \/ Unsupported(<<c, kind[c]>>) # {} /\ ~FallsBackByPart(c, kind[c])
        /\ how = "ok" /\ Pooled(c) => Cost(<<c, kind[c]>>) <= Limit
    BY <2>1, <2>4, Verdict
  <2> QED
    BY <2>3, <2>5
<1> QED
  BY <1>3, <1>4

-----------------------------------------------------------------------------

LEMMA InitInv == Init => IInv
<1> SUFFICES ASSUME Init PROVE IInv
  OBVIOUS
<1>1. TypeOK
  <2>1. 0 \in Nat /\ << >> \in Seq(Compiles)
    OBVIOUS
  <2> QED
    BY <2>1 DEF Init, TypeOK, Kinds, Fresh
<1>2. FramesOK
  BY DEF Init, FramesOK, Active
<1>3. HandlesOK
  BY <1>1 DEF Init, HandlesOK, TypeOK
<1>4. \A c \in Compiles, k \in Kinds :
        <<c, k>> \in Handles /\ ended[<<c, k>>].how = None /\ units[<<c, k>>] = 0
  BY DEF Init, Handles
<1>5. StagesOK
  BY <1>4 DEF Init, StagesOK, StageOK, Kinds, None
<1>6. AccountsOK
  BY <1>4 DEF Init, AccountsOK
<1>7. DeclinedIffOverrun
  BY DEF Init, DeclinedIffOverrun, None
<1> QED
  BY <1>1, <1>2, <1>3, <1>5, <1>6, <1>7 DEF IInv

LEMMA NextKeepsInv == IInv /\ [Next]_vars => IInv'
<1> SUFFICES ASSUME IInv, [Next]_vars PROVE IInv'
  OBVIOUS
<1>1. ASSUME NEW c \in Compiles, Step(c) PROVE IInv'
  <2>1. TypeOK'
    BY <1>1, TypeStep DEF IInv
  <2>2. FramesOK' /\ HandlesOK' /\ StagesOK'
    BY <1>1, FramesStep, HandlesStep, StagesStep DEF IInv
  <2>3. AccountsOK' /\ DeclinedIffOverrun'
    BY <1>1, <2>1, AccountsStep, VerdictStep
  <2> QED
    BY <2>1, <2>2, <2>3 DEF IInv
<1>2. CASE UNCHANGED vars
  <2>1. TypeOK' /\ FramesOK' /\ HandlesOK'
    BY <1>2 DEF IInv, vars, TypeOK, FramesOK, HandlesOK, Active
  <2>2. StagesOK' /\ DeclinedIffOverrun'
    BY <1>2 DEF IInv, vars, StagesOK, StageOK, Alone, DeclinedIffOverrun, Cost, Unsupported, FallsBackByPart
  <2>3. AccountsOK'
    <3>1. \A c \in Compiles : Alone(c)' = Alone(c) /\ Spent(c)' = Spent(c) /\ Pooled(c)' = Pooled(c)
      BY <1>2 DEF vars, Alone, Spent, Pooled
    <3>2. \A c \in Compiles : \A j \in Jobs(kind[c]) : JobWithin(c, j)' = JobWithin(c, j)
      BY <1>2 DEF vars, JobWithin, Demand, FallsBackByPart
    <3>3. \A c \in Compiles : Within(c)' = Within(c)
      BY <1>2, <3>1, <3>2 DEF vars, Within
    <3>4. \A c \in Compiles : Exceeded(c)' = Exceeded(c)
      BY <1>2, <3>1 DEF vars, Exceeded, Cost, Unsupported, FallsBackByPart
    <3> QED
      BY <1>2, <3>1, <3>3, <3>4 DEF IInv, vars, AccountsOK
  <2> QED
    BY <2>1, <2>2, <2>3 DEF IInv
<1> QED
  BY <1>1, <1>2 DEF Next

(***************************************************************************)
(* The inductive invariant of the budget: stacks and handles agree, the    *)
(* attempts come in order, and until a charge is refused the counter of an *)
(* attempt is what its jobs spent.                                         *)
(***************************************************************************)
THEOREM BudgetInvariant == Spec => []IInv
  BY InitInv, NextKeepsInv, PTL DEF Spec

(***************************************************************************)
(* The state of the budget and of the compiles keeps its type.             *)
(***************************************************************************)
THEOREM BudgetTyped == Spec => []TypeOK
<1>1. IInv => TypeOK
  BY DEF IInv
<1> QED
  BY <1>1, BudgetInvariant, PTL

(****************************************************************************)
(* BuildBudgetScope is deterministic: whatever the parts, the limit and the *)
(* schedule, an attempt its own pool ran is declined exactly when its own   *)
(* work exceeds the limit or its strategy does not apply.                   *)
(****************************************************************************)
THEOREM BudgetDeterministic == Spec => []DeclinedIffOverrun
<1>1. IInv => DeclinedIffOverrun
  BY DEF IInv
<1> QED
  BY <1>1, BudgetInvariant, PTL

(***************************************************************************)
(* Drop for BuildBudgetScope restores the caller: a thread holds a handle  *)
(* only while the scope that installed it runs on its stack.               *)
(***************************************************************************)
THEOREM BudgetCallerRestored == Spec => []CallerRestored
<1>1. IInv => CallerRestored
  <2> SUFFICES ASSUME IInv, NEW h \in Hosts, handle[h] # NoHandle
               PROVE  \E i \in DOMAIN frames[h] :
                        /\ frames[h][i] = handle[h][1]
                        /\ pc[frames[h][i]] = "running"
                        /\ scope[frames[h][i]].owns
    BY DEF CallerRestored
  <2>1. PICK c \in Compiles : handle[h] = <<c, kind[c]>> /\ scope[c].owns /\ host[c] = h
    BY DEF IInv, HandlesOK
  <2>2. pc[c] = "running"
    BY <2>1 DEF IInv, HandlesOK
  <2>3. PICK i \in DOMAIN frames[h] : frames[h][i] = c
    BY <2>1, <2>2 DEF IInv, FramesOK, Active
  <2> QED
    BY <2>1, <2>2, <2>3
<1> QED
  BY <1>1, BudgetInvariant, PTL

(***************************************************************************)
(* An explicit strategy is never silently replaced, and Auto with nothing  *)
(* retained is never declined (finish_template_attempt).                   *)
(***************************************************************************)
THEOREM BudgetDeclineIsFinal == Spec => []DeclineIsFinal
<1>1. IInv => DeclineIsFinal
  BY DEF IInv, StagesOK, StageOK, DeclineIsFinal
<1> QED
  BY <1>1, BudgetInvariant, PTL

=============================================================================
