-------------------------- MODULE CompileDagProofs --------------------------
(****************************************************************************)
(* Proofs about CompileDag for any set of builds and any number of workers. *)
(* IInv says which slots are filled, which stages were launched and why no  *)
(* launch is lost, as functions of where the tasks are; one lemma per       *)
(* action shows that it is kept. What the caller finds after the scope      *)
(* follows from IInv alone.                                                 *)
(****************************************************************************)
EXTENDS CompileDag, TLAPS

(* While a task is still to run, the call has not returned. *)
LEMMA TaskMeansPending ==
    ASSUME IInv, NEW t \in Tasks, pc[t] \notin {"none"} \cup Ended
    PROVE  outcome = "pending"
  BY DEF IInv, OutcomeOK, Joined

(* Moving one task and queueing others keeps the program counters typed. *)
LEMMA MoveType ==
    ASSUME pc \in [Tasks -> Steps], NEW t \in Tasks, NEW step \in Steps, NEW spawned,
           Move(t, step, spawned)
    PROVE  pc' \in [Tasks -> Steps]
  BY DEF Move, Steps

----------------------------------------------------------------------------
(* One lemma per action *)

LEMMA TokenizerBuildKeepsInv == ASSUME IInv, TokenizerBuild PROVE IInv'
<1> USE DEF Tasks, AnyTask, LanePublished, StagePublished, ResultPublished
<1>1. outcome' = "pending"
  BY TaskMeansPending DEF TokenizerBuild, Tasks, Ended
<1>2. TypeOK'
  BY <1>1 DEF TokenizerBuild, Move, IInv, TypeOK, Steps, Ended, Slots, TerminalSlots, ParserSlots, ResultSlots, ErrorSlots, Outcomes, Eager, PublishedMap
<1>3. StepsOK' /\ SpawnsOK'
  BY DEF TokenizerBuild, Move, IInv, TypeOK, StepsOK, SpawnsOK, Spawned, SlotsOK, Eager, ClassifyReady, TerminalReady, ParserReady, TerminalInputs, TerminalSlots
<1>4. SlotsOK'
  BY DEF TokenizerBuild, Move, IInv, TypeOK, StepsOK, SpawnsOK, Spawned, SlotsOK, InputsOK, ClassifyReady, TerminalReady, ParserReady, TerminalSlots, ParserSlots
<1>5. InputsOK'
  BY DEF TokenizerBuild, Move, IInv, TypeOK, StepsOK, SpawnsOK, Spawned, SlotsOK, InputsOK, ClassifyReady, TerminalReady, ParserReady, TerminalInputs, TerminalSlots
<1>6. LaunchesOK'
  BY DEF TokenizerBuild, Move, IInv, TypeOK, StepsOK, SpawnsOK, Spawned, SlotsOK, InputsOK, LaunchesOK, ClassifyReady, TerminalReady, ParserReady, TerminalInputs, TerminalSlots, ParserSlots
<1>7. ErrorsOK'
  BY DEF TokenizerBuild, Move, IInv, TypeOK, StepsOK, SpawnsOK, Spawned, ErrorsOK, TerminalSlots, ParserSlots
<1>8. OutcomeOK' /\ CapturedOK'
  BY <1>1 DEF TokenizerBuild, IInv, OutcomeOK, CapturedOK, PublishedMap, Eager
<1> QED
  BY <1>2, <1>3, <1>4, <1>5, <1>6, <1>7, <1>8 DEF IInv

LEMMA TokenizerSpawnKeepsInv == ASSUME IInv, TokenizerSpawn PROVE IInv'
<1> USE DEF Tasks, AnyTask, LanePublished, StagePublished, ResultPublished
<1>1. outcome' = "pending"
  BY TaskMeansPending DEF TokenizerSpawn, Tasks, Ended
<1>2. TypeOK'
  BY <1>1 DEF TokenizerSpawn, Move, IInv, TypeOK, Steps, Ended, Slots, TerminalSlots, ParserSlots, ResultSlots, ErrorSlots, Outcomes, Eager, PublishedMap
<1>3. StepsOK' /\ SpawnsOK'
  BY DEF TokenizerSpawn, Move, IInv, TypeOK, StepsOK, SpawnsOK, Spawned, SlotsOK, Eager, ClassifyReady, TerminalReady, ParserReady, TerminalInputs, TerminalSlots
<1>4. SlotsOK'
  BY DEF TokenizerSpawn, Move, IInv, TypeOK, StepsOK, SpawnsOK, Spawned, SlotsOK, InputsOK, ClassifyReady, TerminalReady, ParserReady, TerminalSlots, ParserSlots
<1>5. InputsOK'
  BY DEF TokenizerSpawn, Move, IInv, TypeOK, StepsOK, SpawnsOK, Spawned, SlotsOK, InputsOK, ClassifyReady, TerminalReady, ParserReady, TerminalInputs, TerminalSlots
<1>6. LaunchesOK'
  BY DEF TokenizerSpawn, Move, IInv, TypeOK, StepsOK, SpawnsOK, Spawned, SlotsOK, InputsOK, LaunchesOK, ClassifyReady, TerminalReady, ParserReady, TerminalInputs, TerminalSlots, ParserSlots
<1>7. ErrorsOK'
  BY DEF TokenizerSpawn, Move, IInv, TypeOK, StepsOK, SpawnsOK, Spawned, ErrorsOK, TerminalSlots, ParserSlots
<1>8. OutcomeOK' /\ CapturedOK'
  BY <1>1 DEF TokenizerSpawn, IInv, OutcomeOK, CapturedOK, PublishedMap, Eager
<1> QED
  BY <1>2, <1>3, <1>4, <1>5, <1>6, <1>7, <1>8 DEF IInv

LEMMA TokenizerPublishKeepsInv == ASSUME IInv, TokenizerPublish PROVE IInv'
<1> USE DEF Tasks, AnyTask, LanePublished, StagePublished, ResultPublished
<1>1. outcome' = "pending"
  BY TaskMeansPending DEF TokenizerPublish, Publish, Tasks, Ended
<1>2. TypeOK'
  BY <1>1 DEF TokenizerPublish, Publish, Move, IInv, TypeOK, Steps, Ended, Slots, TerminalSlots, ParserSlots, ResultSlots, ErrorSlots, Outcomes, Eager, PublishedMap
<1>3. StepsOK' /\ SpawnsOK'
  BY DEF TokenizerPublish, Publish, Move, IInv, TypeOK, StepsOK, SpawnsOK, Spawned, SlotsOK, Eager, ClassifyReady, TerminalReady, ParserReady, TerminalInputs, TerminalSlots
<1>4. SlotsOK'
  BY DEF TokenizerPublish, Publish, Move, IInv, TypeOK, StepsOK, SpawnsOK, Spawned, SlotsOK, InputsOK, ClassifyReady, TerminalReady, ParserReady, TerminalSlots, ParserSlots
<1>5. InputsOK'
  BY DEF TokenizerPublish, Publish, Move, IInv, TypeOK, StepsOK, SpawnsOK, Spawned, SlotsOK, InputsOK, ClassifyReady, TerminalReady, ParserReady, TerminalInputs, TerminalSlots
<1>6. LaunchesOK'
  BY DEF TokenizerPublish, Publish, Move, IInv, TypeOK, StepsOK, SpawnsOK, Spawned, SlotsOK, InputsOK, LaunchesOK, ClassifyReady, TerminalReady, ParserReady, TerminalInputs, TerminalSlots, ParserSlots
<1>7. ErrorsOK'
  BY DEF TokenizerPublish, Publish, Move, IInv, TypeOK, StepsOK, SpawnsOK, Spawned, ErrorsOK, TerminalSlots, ParserSlots
<1>8. OutcomeOK' /\ CapturedOK'
  BY <1>1 DEF TokenizerPublish, Publish, IInv, OutcomeOK, CapturedOK, PublishedMap, Eager
<1> QED
  BY <1>2, <1>3, <1>4, <1>5, <1>6, <1>7, <1>8 DEF IInv

LEMMA RuntimeBuildKeepsInv == ASSUME IInv, RuntimeBuild PROVE IInv'
<1> USE DEF Tasks, AnyTask, LanePublished, StagePublished, ResultPublished
<1>1. outcome' = "pending"
  BY TaskMeansPending DEF RuntimeBuild, Tasks, Ended
<1>2. TypeOK'
  BY <1>1 DEF RuntimeBuild, Move, IInv, TypeOK, Steps, Ended, Slots, TerminalSlots, ParserSlots, ResultSlots, ErrorSlots, Outcomes, Eager, PublishedMap
<1>3. StepsOK' /\ SpawnsOK'
  BY DEF RuntimeBuild, Move, IInv, TypeOK, StepsOK, SpawnsOK, Spawned, SlotsOK, Eager, ClassifyReady, TerminalReady, ParserReady, TerminalInputs, TerminalSlots
<1>4. SlotsOK'
  BY DEF RuntimeBuild, Move, IInv, TypeOK, StepsOK, SpawnsOK, Spawned, SlotsOK, InputsOK, ClassifyReady, TerminalReady, ParserReady, TerminalSlots, ParserSlots
<1>5. InputsOK'
  BY DEF RuntimeBuild, Move, IInv, TypeOK, StepsOK, SpawnsOK, Spawned, SlotsOK, InputsOK, ClassifyReady, TerminalReady, ParserReady, TerminalInputs, TerminalSlots
<1>6. LaunchesOK'
  BY DEF RuntimeBuild, Move, IInv, TypeOK, StepsOK, SpawnsOK, Spawned, SlotsOK, InputsOK, LaunchesOK, ClassifyReady, TerminalReady, ParserReady, TerminalInputs, TerminalSlots, ParserSlots
<1>7. ErrorsOK'
  BY DEF RuntimeBuild, Move, IInv, TypeOK, StepsOK, SpawnsOK, Spawned, ErrorsOK, TerminalSlots, ParserSlots
<1>8. OutcomeOK' /\ CapturedOK'
  BY <1>1 DEF RuntimeBuild, IInv, OutcomeOK, CapturedOK, PublishedMap, Eager
<1> QED
  BY <1>2, <1>3, <1>4, <1>5, <1>6, <1>7, <1>8 DEF IInv

LEMMA CpmBuildKeepsInv == ASSUME IInv, CpmBuild PROVE IInv'
<1> USE DEF Tasks, AnyTask, LanePublished, StagePublished, ResultPublished
<1>1. outcome' = "pending"
  BY TaskMeansPending DEF CpmBuild, Tasks, Ended
<1>2. TypeOK'
  BY <1>1 DEF CpmBuild, Move, IInv, TypeOK, Steps, Ended, Slots, TerminalSlots, ParserSlots, ResultSlots, ErrorSlots, Outcomes, Eager, PublishedMap
<1>3. StepsOK' /\ SpawnsOK'
  BY DEF CpmBuild, Move, IInv, TypeOK, StepsOK, SpawnsOK, Spawned, SlotsOK, Eager, ClassifyReady, TerminalReady, ParserReady, TerminalInputs, TerminalSlots
<1>4. SlotsOK'
  BY DEF CpmBuild, Move, IInv, TypeOK, StepsOK, SpawnsOK, Spawned, SlotsOK, InputsOK, ClassifyReady, TerminalReady, ParserReady, TerminalSlots, ParserSlots
<1>5. InputsOK'
  BY DEF CpmBuild, Move, IInv, TypeOK, StepsOK, SpawnsOK, Spawned, SlotsOK, InputsOK, ClassifyReady, TerminalReady, ParserReady, TerminalInputs, TerminalSlots
<1>6. LaunchesOK'
  BY DEF CpmBuild, Move, IInv, TypeOK, StepsOK, SpawnsOK, Spawned, SlotsOK, InputsOK, LaunchesOK, ClassifyReady, TerminalReady, ParserReady, TerminalInputs, TerminalSlots, ParserSlots
<1>7. ErrorsOK'
  BY DEF CpmBuild, Move, IInv, TypeOK, StepsOK, SpawnsOK, Spawned, ErrorsOK, TerminalSlots, ParserSlots
<1>8. OutcomeOK' /\ CapturedOK'
  BY <1>1 DEF CpmBuild, IInv, OutcomeOK, CapturedOK, PublishedMap, Eager
<1> QED
  BY <1>2, <1>3, <1>4, <1>5, <1>6, <1>7, <1>8 DEF IInv

LEMMA CpmPublishKeepsInv == ASSUME IInv, CpmPublish PROVE IInv'
<1> USE DEF Tasks, AnyTask, LanePublished, StagePublished, ResultPublished
<1>1. outcome' = "pending"
  BY TaskMeansPending DEF CpmPublish, Tasks, Ended
<1>2. TypeOK'
  BY <1>1 DEF CpmPublish, Move, IInv, TypeOK, Steps, Ended, Slots, TerminalSlots, ParserSlots, ResultSlots, ErrorSlots, Outcomes, Eager, PublishedMap
<1>3. StepsOK' /\ SpawnsOK'
  BY DEF CpmPublish, Move, IInv, TypeOK, StepsOK, SpawnsOK, Spawned, SlotsOK, Eager, ClassifyReady, TerminalReady, ParserReady, TerminalInputs, TerminalSlots
<1>4. SlotsOK'
  BY DEF CpmPublish, Move, IInv, TypeOK, StepsOK, SpawnsOK, Spawned, SlotsOK, InputsOK, ClassifyReady, TerminalReady, ParserReady, TerminalSlots, ParserSlots
<1>5. InputsOK'
  BY DEF CpmPublish, Move, IInv, TypeOK, StepsOK, SpawnsOK, Spawned, SlotsOK, InputsOK, ClassifyReady, TerminalReady, ParserReady, TerminalInputs, TerminalSlots
<1>6. LaunchesOK'
  BY DEF CpmPublish, Move, IInv, TypeOK, StepsOK, SpawnsOK, Spawned, SlotsOK, InputsOK, LaunchesOK, ClassifyReady, TerminalReady, ParserReady, TerminalInputs, TerminalSlots, ParserSlots
<1>7. ErrorsOK'
  BY DEF CpmPublish, Move, IInv, TypeOK, StepsOK, SpawnsOK, Spawned, ErrorsOK, TerminalSlots, ParserSlots
<1>8. OutcomeOK' /\ CapturedOK'
  BY <1>1 DEF CpmPublish, IInv, OutcomeOK, CapturedOK, PublishedMap, Eager
<1> QED
  BY <1>2, <1>3, <1>4, <1>5, <1>6, <1>7, <1>8 DEF IInv

LEMMA FlatBuildKeepsInv == ASSUME IInv, FlatBuild PROVE IInv'
<1> USE DEF Tasks, AnyTask, LanePublished, StagePublished, ResultPublished
<1>1. outcome' = "pending"
  BY TaskMeansPending DEF FlatBuild, Tasks, Ended
<1>2. TypeOK'
  BY <1>1 DEF FlatBuild, Move, IInv, TypeOK, Steps, Ended, Slots, TerminalSlots, ParserSlots, ResultSlots, ErrorSlots, Outcomes, Eager, PublishedMap
<1>3. StepsOK' /\ SpawnsOK'
  BY DEF FlatBuild, Move, IInv, TypeOK, StepsOK, SpawnsOK, Spawned, SlotsOK, Eager, ClassifyReady, TerminalReady, ParserReady, TerminalInputs, TerminalSlots
<1>4. SlotsOK'
  BY DEF FlatBuild, Move, IInv, TypeOK, StepsOK, SpawnsOK, Spawned, SlotsOK, InputsOK, ClassifyReady, TerminalReady, ParserReady, TerminalSlots, ParserSlots
<1>5. InputsOK'
  BY DEF FlatBuild, Move, IInv, TypeOK, StepsOK, SpawnsOK, Spawned, SlotsOK, InputsOK, ClassifyReady, TerminalReady, ParserReady, TerminalInputs, TerminalSlots
<1>6. LaunchesOK'
  BY DEF FlatBuild, Move, IInv, TypeOK, StepsOK, SpawnsOK, Spawned, SlotsOK, InputsOK, LaunchesOK, ClassifyReady, TerminalReady, ParserReady, TerminalInputs, TerminalSlots, ParserSlots
<1>7. ErrorsOK'
  BY DEF FlatBuild, Move, IInv, TypeOK, StepsOK, SpawnsOK, Spawned, ErrorsOK, TerminalSlots, ParserSlots
<1>8. OutcomeOK' /\ CapturedOK'
  BY <1>1 DEF FlatBuild, IInv, OutcomeOK, CapturedOK, PublishedMap, Eager
<1> QED
  BY <1>2, <1>3, <1>4, <1>5, <1>6, <1>7, <1>8 DEF IInv

LEMMA FlatPublishKeepsInv == ASSUME IInv, FlatPublish PROVE IInv'
<1> USE DEF Tasks, AnyTask, LanePublished, StagePublished, ResultPublished
<1>1. outcome' = "pending"
  BY TaskMeansPending DEF FlatPublish, Publish, Tasks, Ended
<1>2. TypeOK'
  BY <1>1 DEF FlatPublish, Publish, Move, IInv, TypeOK, Steps, Ended, Slots, TerminalSlots, ParserSlots, ResultSlots, ErrorSlots, Outcomes, Eager, PublishedMap
<1>3. StepsOK' /\ SpawnsOK'
  BY DEF FlatPublish, Publish, Move, IInv, TypeOK, StepsOK, SpawnsOK, Spawned, SlotsOK, Eager, ClassifyReady, TerminalReady, ParserReady, TerminalInputs, TerminalSlots
<1>4. SlotsOK'
  BY DEF FlatPublish, Publish, Move, IInv, TypeOK, StepsOK, SpawnsOK, Spawned, SlotsOK, InputsOK, ClassifyReady, TerminalReady, ParserReady, TerminalSlots, ParserSlots
<1>5. InputsOK'
  BY DEF FlatPublish, Publish, Move, IInv, TypeOK, StepsOK, SpawnsOK, Spawned, SlotsOK, InputsOK, ClassifyReady, TerminalReady, ParserReady, TerminalInputs, TerminalSlots
<1>6. LaunchesOK'
  BY DEF FlatPublish, Publish, Move, IInv, TypeOK, StepsOK, SpawnsOK, Spawned, SlotsOK, InputsOK, LaunchesOK, ClassifyReady, TerminalReady, ParserReady, TerminalInputs, TerminalSlots, ParserSlots
<1>7. ErrorsOK'
  BY DEF FlatPublish, Publish, Move, IInv, TypeOK, StepsOK, SpawnsOK, Spawned, ErrorsOK, TerminalSlots, ParserSlots
<1>8. OutcomeOK' /\ CapturedOK'
  BY <1>1 DEF FlatPublish, Publish, IInv, OutcomeOK, CapturedOK, PublishedMap, Eager
<1> QED
  BY <1>2, <1>3, <1>4, <1>5, <1>6, <1>7, <1>8 DEF IInv

LEMMA AnalysisBuildKeepsInv == ASSUME IInv, AnalysisBuild PROVE IInv'
<1> USE DEF Tasks, AnyTask, LanePublished, StagePublished, ResultPublished
<1>1. outcome' = "pending"
  BY TaskMeansPending DEF AnalysisBuild, Tasks, Ended
<1>2. TypeOK'
  <2>1. pc' \in [Tasks -> Steps]
    BY MoveType DEF AnalysisBuild, IInv, TypeOK, Steps, Ended
  <2> QED
    BY <1>1, <2>1 DEF AnalysisBuild, IInv, TypeOK, Slots, TerminalSlots, ParserSlots, ResultSlots, ErrorSlots, Outcomes, PublishedMap
<1>3. StepsOK' /\ SpawnsOK'
  BY DEF AnalysisBuild, Move, IInv, TypeOK, StepsOK, SpawnsOK, Spawned, SlotsOK, Eager, ClassifyReady, TerminalReady, ParserReady, TerminalInputs, TerminalSlots
<1>4. SlotsOK'
  BY DEF AnalysisBuild, Move, IInv, TypeOK, StepsOK, SpawnsOK, Spawned, SlotsOK, InputsOK, ClassifyReady, TerminalReady, ParserReady, TerminalSlots, ParserSlots
<1>5. InputsOK'
  BY DEF AnalysisBuild, Move, IInv, TypeOK, StepsOK, SpawnsOK, Spawned, SlotsOK, InputsOK, ClassifyReady, TerminalReady, ParserReady, TerminalInputs, TerminalSlots
<1>6. LaunchesOK'
  BY DEF AnalysisBuild, Move, IInv, TypeOK, StepsOK, SpawnsOK, Spawned, SlotsOK, InputsOK, LaunchesOK, ClassifyReady, TerminalReady, ParserReady, TerminalInputs, TerminalSlots, ParserSlots
<1>7. ErrorsOK'
  BY DEF AnalysisBuild, Move, IInv, TypeOK, StepsOK, SpawnsOK, Spawned, ErrorsOK, TerminalSlots, ParserSlots
<1>8. OutcomeOK' /\ CapturedOK'
  BY <1>1 DEF AnalysisBuild, IInv, OutcomeOK, CapturedOK, PublishedMap, Eager
<1> QED
  BY <1>2, <1>3, <1>4, <1>5, <1>6, <1>7, <1>8 DEF IInv

LEMMA AnalysisPublishKeepsInv == ASSUME IInv, AnalysisPublish PROVE IInv'
<1> USE DEF Tasks, AnyTask, LanePublished, StagePublished, ResultPublished
<1>1. outcome' = "pending"
  BY TaskMeansPending DEF AnalysisPublish, Publish, Tasks, Ended
<1>2. TypeOK'
  BY <1>1 DEF AnalysisPublish, Publish, Move, IInv, TypeOK, Steps, Ended, Slots, TerminalSlots, ParserSlots, ResultSlots, ErrorSlots, Outcomes, Eager, PublishedMap
<1>3. StepsOK' /\ SpawnsOK'
  BY DEF AnalysisPublish, Publish, Move, IInv, TypeOK, StepsOK, SpawnsOK, Spawned, SlotsOK, Eager, ClassifyReady, TerminalReady, ParserReady, TerminalInputs, TerminalSlots
<1>4. SlotsOK'
  BY DEF AnalysisPublish, Publish, Move, IInv, TypeOK, StepsOK, SpawnsOK, Spawned, SlotsOK, InputsOK, ClassifyReady, TerminalReady, ParserReady, TerminalSlots, ParserSlots
<1>5. InputsOK'
  BY DEF AnalysisPublish, Publish, Move, IInv, TypeOK, StepsOK, SpawnsOK, Spawned, SlotsOK, InputsOK, ClassifyReady, TerminalReady, ParserReady, TerminalInputs, TerminalSlots
<1>6. LaunchesOK'
  BY DEF AnalysisPublish, Publish, Move, IInv, TypeOK, StepsOK, SpawnsOK, Spawned, SlotsOK, InputsOK, LaunchesOK, ClassifyReady, TerminalReady, ParserReady, TerminalInputs, TerminalSlots, ParserSlots
<1>7. ErrorsOK'
  BY DEF AnalysisPublish, Publish, Move, IInv, TypeOK, StepsOK, SpawnsOK, Spawned, ErrorsOK, TerminalSlots, ParserSlots
<1>8. OutcomeOK' /\ CapturedOK'
  BY <1>1 DEF AnalysisPublish, Publish, IInv, OutcomeOK, CapturedOK, PublishedMap, Eager
<1> QED
  BY <1>2, <1>3, <1>4, <1>5, <1>6, <1>7, <1>8 DEF IInv

LEMMA GlrBuildKeepsInv == ASSUME IInv, GlrBuild PROVE IInv'
<1> USE DEF Tasks, AnyTask, LanePublished, StagePublished, ResultPublished
<1>1. outcome' = "pending"
  BY TaskMeansPending DEF GlrBuild, Tasks, Ended
<1>2. TypeOK'
  <2>1. pc' \in [Tasks -> Steps]
    BY MoveType DEF GlrBuild, IInv, TypeOK, Steps, Ended
  <2> QED
    BY <1>1, <2>1 DEF GlrBuild, IInv, TypeOK, Slots, TerminalSlots, ParserSlots, ResultSlots, ErrorSlots, Outcomes, PublishedMap
<1>3. StepsOK' /\ SpawnsOK'
  BY DEF GlrBuild, Move, IInv, TypeOK, StepsOK, SpawnsOK, Spawned, SlotsOK, Eager, ClassifyReady, TerminalReady, ParserReady, TerminalInputs, TerminalSlots
<1>4. SlotsOK'
  BY DEF GlrBuild, Move, IInv, TypeOK, StepsOK, SpawnsOK, Spawned, SlotsOK, InputsOK, ClassifyReady, TerminalReady, ParserReady, TerminalSlots, ParserSlots
<1>5. InputsOK'
  BY DEF GlrBuild, Move, IInv, TypeOK, StepsOK, SpawnsOK, Spawned, SlotsOK, InputsOK, ClassifyReady, TerminalReady, ParserReady, TerminalInputs, TerminalSlots
<1>6. LaunchesOK'
  BY DEF GlrBuild, Move, IInv, TypeOK, StepsOK, SpawnsOK, Spawned, SlotsOK, InputsOK, LaunchesOK, ClassifyReady, TerminalReady, ParserReady, TerminalInputs, TerminalSlots, ParserSlots
<1>7. ErrorsOK'
  BY DEF GlrBuild, Move, IInv, TypeOK, StepsOK, SpawnsOK, Spawned, ErrorsOK, TerminalSlots, ParserSlots
<1>8. OutcomeOK' /\ CapturedOK'
  BY <1>1 DEF GlrBuild, IInv, OutcomeOK, CapturedOK, PublishedMap, Eager
<1> QED
  BY <1>2, <1>3, <1>4, <1>5, <1>6, <1>7, <1>8 DEF IInv

LEMMA ColoringBuildKeepsInv == ASSUME IInv, ColoringBuild PROVE IInv'
<1> USE DEF Tasks, AnyTask, LanePublished, StagePublished, ResultPublished
<1>1. outcome' = "pending"
  BY TaskMeansPending DEF ColoringBuild, Publish, Tasks, Ended
<1>2. TypeOK'
  BY <1>1 DEF ColoringBuild, Publish, Move, IInv, TypeOK, Steps, Ended, Slots, TerminalSlots, ParserSlots, ResultSlots, ErrorSlots, Outcomes, Eager, PublishedMap
<1>3. StepsOK' /\ SpawnsOK'
  BY DEF ColoringBuild, Publish, Move, IInv, TypeOK, StepsOK, SpawnsOK, Spawned, SlotsOK, Eager, ClassifyReady, TerminalReady, ParserReady, TerminalInputs, TerminalSlots
<1>4. SlotsOK'
  BY DEF ColoringBuild, Publish, Move, IInv, TypeOK, StepsOK, SpawnsOK, Spawned, SlotsOK, InputsOK, ClassifyReady, TerminalReady, ParserReady, TerminalSlots, ParserSlots
<1>5. InputsOK'
  BY DEF ColoringBuild, Publish, Move, IInv, TypeOK, StepsOK, SpawnsOK, Spawned, SlotsOK, InputsOK, ClassifyReady, TerminalReady, ParserReady, TerminalInputs, TerminalSlots
<1>6. LaunchesOK'
  BY DEF ColoringBuild, Publish, Move, IInv, TypeOK, StepsOK, SpawnsOK, Spawned, SlotsOK, InputsOK, LaunchesOK, ClassifyReady, TerminalReady, ParserReady, TerminalInputs, TerminalSlots, ParserSlots
<1>7. ErrorsOK'
  BY DEF ColoringBuild, Publish, Move, IInv, TypeOK, StepsOK, SpawnsOK, Spawned, ErrorsOK, TerminalSlots, ParserSlots
<1>8. OutcomeOK' /\ CapturedOK'
  BY <1>1 DEF ColoringBuild, Publish, IInv, OutcomeOK, CapturedOK, PublishedMap, Eager
<1> QED
  BY <1>2, <1>3, <1>4, <1>5, <1>6, <1>7, <1>8 DEF IInv

LEMMA TemplatesBuildKeepsInv == ASSUME IInv, TemplatesBuild PROVE IInv'
<1> USE DEF Tasks, AnyTask, LanePublished, StagePublished, ResultPublished
<1>1. outcome' = "pending"
  BY TaskMeansPending DEF TemplatesBuild, Tasks, Ended
<1>2. TypeOK'
  <2>1. pc' \in [Tasks -> Steps]
    BY MoveType DEF TemplatesBuild, IInv, TypeOK, Steps, Ended
  <2> QED
    BY <1>1, <2>1 DEF TemplatesBuild, IInv, TypeOK, Slots, TerminalSlots, ParserSlots, ResultSlots, ErrorSlots, Outcomes, PublishedMap
<1>3. StepsOK' /\ SpawnsOK'
  BY DEF TemplatesBuild, Move, IInv, TypeOK, StepsOK, SpawnsOK, Spawned, SlotsOK, Eager, ClassifyReady, TerminalReady, ParserReady, TerminalInputs, TerminalSlots
<1>4. SlotsOK'
  BY DEF TemplatesBuild, Move, IInv, TypeOK, StepsOK, SpawnsOK, Spawned, SlotsOK, InputsOK, ClassifyReady, TerminalReady, ParserReady, TerminalSlots, ParserSlots
<1>5. InputsOK'
  BY DEF TemplatesBuild, Move, IInv, TypeOK, StepsOK, SpawnsOK, Spawned, SlotsOK, InputsOK, ClassifyReady, TerminalReady, ParserReady, TerminalInputs, TerminalSlots
<1>6. LaunchesOK'
  BY DEF TemplatesBuild, Move, IInv, TypeOK, StepsOK, SpawnsOK, Spawned, SlotsOK, InputsOK, LaunchesOK, ClassifyReady, TerminalReady, ParserReady, TerminalInputs, TerminalSlots, ParserSlots
<1>7. ErrorsOK'
  BY DEF TemplatesBuild, Move, IInv, TypeOK, StepsOK, SpawnsOK, Spawned, ErrorsOK, TerminalSlots, ParserSlots
<1>8. OutcomeOK' /\ CapturedOK'
  BY <1>1 DEF TemplatesBuild, IInv, OutcomeOK, CapturedOK, PublishedMap, Eager
<1> QED
  BY <1>2, <1>3, <1>4, <1>5, <1>6, <1>7, <1>8 DEF IInv

LEMMA ClassifyBuildKeepsInv == ASSUME IInv, ClassifyBuild PROVE IInv'
<1> USE DEF Tasks, AnyTask, LanePublished, StagePublished, ResultPublished
<1>1. outcome' = "pending"
  BY TaskMeansPending DEF ClassifyBuild, Publish, Tasks, Ended
<1>2. TypeOK'
  BY <1>1 DEF ClassifyBuild, Publish, Move, IInv, TypeOK, Steps, Ended, Slots, TerminalSlots, ParserSlots, ResultSlots, ErrorSlots, Outcomes, Eager, PublishedMap
<1>3. StepsOK' /\ SpawnsOK'
  BY DEF ClassifyBuild, Publish, Move, IInv, TypeOK, StepsOK, SpawnsOK, Spawned, SlotsOK, Eager, ClassifyReady, TerminalReady, ParserReady, TerminalInputs, TerminalSlots
<1>4. SlotsOK'
  BY DEF ClassifyBuild, Publish, Move, IInv, TypeOK, StepsOK, SpawnsOK, Spawned, SlotsOK, InputsOK, ClassifyReady, TerminalReady, ParserReady, TerminalSlots, ParserSlots
<1>5. InputsOK'
  BY DEF ClassifyBuild, Publish, Move, IInv, TypeOK, StepsOK, SpawnsOK, Spawned, SlotsOK, InputsOK, ClassifyReady, TerminalReady, ParserReady, TerminalInputs, TerminalSlots
<1>6. LaunchesOK'
  BY DEF ClassifyBuild, Publish, Move, IInv, TypeOK, StepsOK, SpawnsOK, Spawned, SlotsOK, InputsOK, LaunchesOK, ClassifyReady, TerminalReady, ParserReady, TerminalInputs, TerminalSlots, ParserSlots
<1>7. ErrorsOK'
  BY DEF ClassifyBuild, Publish, Move, IInv, TypeOK, StepsOK, SpawnsOK, Spawned, ErrorsOK, TerminalSlots, ParserSlots
<1>8. OutcomeOK' /\ CapturedOK'
  BY <1>1 DEF ClassifyBuild, Publish, IInv, OutcomeOK, CapturedOK, PublishedMap, Eager
<1> QED
  BY <1>2, <1>3, <1>4, <1>5, <1>6, <1>7, <1>8 DEF IInv

LEMMA TerminalBuildKeepsInv == ASSUME IInv, TerminalBuild PROVE IInv'
<1> USE DEF Tasks, AnyTask, LanePublished, StagePublished, ResultPublished
<1>1. outcome' = "pending"
  BY TaskMeansPending DEF TerminalBuild, Publish, Tasks, Ended
<1>2. TypeOK'
  BY <1>1 DEF TerminalBuild, Publish, Move, IInv, TypeOK, Steps, Ended, Slots, TerminalSlots, ParserSlots, ResultSlots, ErrorSlots, Outcomes, Eager, PublishedMap
<1>3. StepsOK' /\ SpawnsOK'
  BY DEF TerminalBuild, Publish, Move, IInv, TypeOK, StepsOK, SpawnsOK, Spawned, SlotsOK, Eager, ClassifyReady, TerminalReady, ParserReady, TerminalInputs, TerminalSlots
<1>4. SlotsOK'
  BY DEF TerminalBuild, Publish, Move, IInv, TypeOK, StepsOK, SpawnsOK, Spawned, SlotsOK, InputsOK, ClassifyReady, TerminalReady, ParserReady, TerminalSlots, ParserSlots
<1>5. InputsOK'
  BY DEF TerminalBuild, Publish, Move, IInv, TypeOK, StepsOK, SpawnsOK, Spawned, SlotsOK, InputsOK, ClassifyReady, TerminalReady, ParserReady, TerminalInputs, TerminalSlots
<1>6. LaunchesOK'
  BY DEF TerminalBuild, Publish, Move, IInv, TypeOK, StepsOK, SpawnsOK, Spawned, SlotsOK, InputsOK, LaunchesOK, ClassifyReady, TerminalReady, ParserReady, TerminalInputs, TerminalSlots, ParserSlots
<1>7. ErrorsOK'
  BY DEF TerminalBuild, Publish, Move, IInv, TypeOK, StepsOK, SpawnsOK, Spawned, ErrorsOK, TerminalSlots, ParserSlots
<1>8. OutcomeOK' /\ CapturedOK'
  BY <1>1 DEF TerminalBuild, Publish, IInv, OutcomeOK, CapturedOK, PublishedMap, Eager
<1> QED
  BY <1>2, <1>3, <1>4, <1>5, <1>6, <1>7, <1>8 DEF IInv

LEMMA ParserBuildKeepsInv == ASSUME IInv, ParserBuild PROVE IInv'
<1> USE DEF Tasks, AnyTask, LanePublished, StagePublished, ResultPublished
<1>1. outcome' = "pending"
  BY TaskMeansPending DEF ParserBuild, Publish, Tasks, Ended
<1>2. TypeOK'
  BY <1>1 DEF ParserBuild, Publish, Move, IInv, TypeOK, Steps, Ended, Slots, TerminalSlots, ParserSlots, ResultSlots, ErrorSlots, Outcomes, Eager, PublishedMap
<1>3. StepsOK' /\ SpawnsOK'
  BY DEF ParserBuild, Publish, Move, IInv, TypeOK, StepsOK, SpawnsOK, Spawned, SlotsOK, Eager, ClassifyReady, TerminalReady, ParserReady, TerminalInputs, TerminalSlots
<1>4. SlotsOK'
  BY DEF ParserBuild, Publish, Move, IInv, TypeOK, StepsOK, SpawnsOK, Spawned, SlotsOK, InputsOK, ClassifyReady, TerminalReady, ParserReady, TerminalSlots, ParserSlots
<1>5. InputsOK'
  BY DEF ParserBuild, Publish, Move, IInv, TypeOK, StepsOK, SpawnsOK, Spawned, SlotsOK, InputsOK, ClassifyReady, TerminalReady, ParserReady, TerminalInputs, TerminalSlots
<1>6. LaunchesOK'
  BY DEF ParserBuild, Publish, Move, IInv, TypeOK, StepsOK, SpawnsOK, Spawned, SlotsOK, InputsOK, LaunchesOK, ClassifyReady, TerminalReady, ParserReady, TerminalInputs, TerminalSlots, ParserSlots
<1>7. ErrorsOK'
  BY DEF ParserBuild, Publish, Move, IInv, TypeOK, StepsOK, SpawnsOK, Spawned, ErrorsOK, TerminalSlots, ParserSlots
<1>8. OutcomeOK' /\ CapturedOK'
  BY <1>1 DEF ParserBuild, Publish, IInv, OutcomeOK, CapturedOK, PublishedMap, Eager
<1> QED
  BY <1>2, <1>3, <1>4, <1>5, <1>6, <1>7, <1>8 DEF IInv

LEMMA StartKeepsInv == ASSUME IInv, NEW t \in Tasks, Start(t) PROVE IInv'
<1> USE DEF Tasks, AnyTask, LanePublished, StagePublished, ResultPublished
<1>1. outcome' = "pending"
  BY TaskMeansPending DEF Start, Tasks, Ended
<1>2. TypeOK'
  BY <1>1 DEF Start, Move, IInv, TypeOK, Steps, Ended, Slots, TerminalSlots, ParserSlots, ResultSlots, ErrorSlots, Outcomes, Eager, PublishedMap
<1>3. StepsOK' /\ SpawnsOK'
  BY DEF Start, Move, IInv, TypeOK, StepsOK, SpawnsOK, Spawned, SlotsOK, Eager, ClassifyReady, TerminalReady, ParserReady, TerminalInputs, TerminalSlots
<1>4. SlotsOK'
  BY DEF Start, Move, IInv, TypeOK, StepsOK, SpawnsOK, Spawned, SlotsOK, InputsOK, ClassifyReady, TerminalReady, ParserReady, TerminalSlots, ParserSlots
<1>5. InputsOK'
  BY DEF Start, Move, IInv, TypeOK, StepsOK, SpawnsOK, Spawned, SlotsOK, InputsOK, ClassifyReady, TerminalReady, ParserReady, TerminalInputs, TerminalSlots
<1>6. LaunchesOK'
  BY DEF Start, Move, IInv, TypeOK, StepsOK, SpawnsOK, Spawned, SlotsOK, InputsOK, LaunchesOK, ClassifyReady, TerminalReady, ParserReady, TerminalInputs, TerminalSlots, ParserSlots
<1>7. ErrorsOK'
  BY DEF Start, Move, IInv, TypeOK, StepsOK, SpawnsOK, Spawned, ErrorsOK, TerminalSlots, ParserSlots
<1>8. OutcomeOK' /\ CapturedOK'
  BY <1>1 DEF Start, IInv, OutcomeOK, CapturedOK, PublishedMap, Eager
<1> QED
  BY <1>2, <1>3, <1>4, <1>5, <1>6, <1>7, <1>8 DEF IInv

LEMMA PanicKeepsInv == ASSUME IInv, NEW t \in Tasks, Panic(t) PROVE IInv'
<1> USE DEF Tasks, AnyTask, LanePublished, StagePublished, ResultPublished
<1>1. outcome' = "pending"
  BY TaskMeansPending DEF Panic, Tasks, Ended
<1>2. TypeOK'
  BY <1>1 DEF Panic, Move, IInv, TypeOK, Steps, Ended, Slots, TerminalSlots, ParserSlots, ResultSlots, ErrorSlots, Outcomes, Eager, PublishedMap
<1>3. StepsOK' /\ SpawnsOK'
  BY DEF Panic, Move, IInv, TypeOK, StepsOK, SpawnsOK, Spawned, SlotsOK, Eager, ClassifyReady, TerminalReady, ParserReady, TerminalInputs, TerminalSlots
<1>4. SlotsOK'
  BY DEF Panic, Move, IInv, TypeOK, StepsOK, SpawnsOK, Spawned, SlotsOK, InputsOK, ClassifyReady, TerminalReady, ParserReady, TerminalSlots, ParserSlots
<1>5. InputsOK'
  BY DEF Panic, Move, IInv, TypeOK, StepsOK, SpawnsOK, Spawned, SlotsOK, InputsOK, ClassifyReady, TerminalReady, ParserReady, TerminalInputs, TerminalSlots
<1>6. LaunchesOK'
  BY DEF Panic, Move, IInv, TypeOK, StepsOK, SpawnsOK, Spawned, SlotsOK, InputsOK, LaunchesOK, ClassifyReady, TerminalReady, ParserReady, TerminalInputs, TerminalSlots, ParserSlots
<1>7. ErrorsOK'
  BY DEF Panic, Move, IInv, TypeOK, StepsOK, SpawnsOK, Spawned, ErrorsOK, TerminalSlots, ParserSlots
<1>8. OutcomeOK' /\ CapturedOK'
  BY <1>1 DEF Panic, IInv, OutcomeOK, CapturedOK, PublishedMap, Eager
<1> QED
  BY <1>2, <1>3, <1>4, <1>5, <1>6, <1>7, <1>8 DEF IInv

LEMMA LaunchClassifyDagIfReadyKeepsInv == ASSUME IInv, NEW t \in Tasks, LaunchClassifyDagIfReady(t) PROVE IInv'
<1> USE DEF Tasks, AnyTask, LanePublished, StagePublished, ResultPublished
<1>1. outcome' = "pending"
  BY TaskMeansPending DEF LaunchClassifyDagIfReady, Tasks, Ended
<1>2. TypeOK'
  <2>1. pc' \in [Tasks -> Steps]
    BY MoveType DEF LaunchClassifyDagIfReady, IInv, TypeOK, Steps, Ended
  <2> QED
    BY <1>1, <2>1 DEF LaunchClassifyDagIfReady, IInv, TypeOK, Slots, TerminalSlots, ParserSlots, ResultSlots, ErrorSlots, Outcomes, PublishedMap
<1>3. StepsOK' /\ SpawnsOK'
  BY DEF LaunchClassifyDagIfReady, Move, IInv, TypeOK, StepsOK, SpawnsOK, Spawned, SlotsOK, Eager, ClassifyReady, TerminalReady, ParserReady, TerminalInputs, TerminalSlots
<1>4. SlotsOK'
  BY DEF LaunchClassifyDagIfReady, Move, IInv, TypeOK, StepsOK, SpawnsOK, Spawned, SlotsOK, InputsOK, ClassifyReady, TerminalReady, ParserReady, TerminalSlots, ParserSlots
<1>5. InputsOK'
  BY DEF LaunchClassifyDagIfReady, Move, IInv, TypeOK, StepsOK, SpawnsOK, Spawned, SlotsOK, InputsOK, ClassifyReady, TerminalReady, ParserReady, TerminalInputs, TerminalSlots
<1>6. LaunchesOK'
  BY DEF LaunchClassifyDagIfReady, Move, IInv, TypeOK, StepsOK, SpawnsOK, Spawned, SlotsOK, InputsOK, LaunchesOK, ClassifyReady, TerminalReady, ParserReady, TerminalInputs, TerminalSlots, ParserSlots
<1>7. ErrorsOK'
  BY DEF LaunchClassifyDagIfReady, Move, IInv, TypeOK, StepsOK, SpawnsOK, Spawned, ErrorsOK, TerminalSlots, ParserSlots
<1>8. OutcomeOK' /\ CapturedOK'
  BY <1>1 DEF LaunchClassifyDagIfReady, IInv, OutcomeOK, CapturedOK, PublishedMap, Eager
<1> QED
  BY <1>2, <1>3, <1>4, <1>5, <1>6, <1>7, <1>8 DEF IInv

LEMMA LaunchTerminalDagIfReadyKeepsInv == ASSUME IInv, NEW t \in Tasks, LaunchTerminalDagIfReady(t) PROVE IInv'
<1> USE DEF Tasks, AnyTask, LanePublished, StagePublished, ResultPublished
<1>1. outcome' = "pending"
  BY TaskMeansPending DEF LaunchTerminalDagIfReady, Tasks, Ended
<1>2. TypeOK'
  <2>1. pc' \in [Tasks -> Steps]
    BY MoveType DEF LaunchTerminalDagIfReady, IInv, TypeOK, Steps, Ended
  <2> QED
    BY <1>1, <2>1 DEF LaunchTerminalDagIfReady, IInv, TypeOK, Slots, TerminalSlots, ParserSlots, ResultSlots, ErrorSlots, Outcomes, PublishedMap
<1>3. StepsOK' /\ SpawnsOK'
  BY DEF LaunchTerminalDagIfReady, Move, IInv, TypeOK, StepsOK, SpawnsOK, Spawned, SlotsOK, Eager, ClassifyReady, TerminalReady, ParserReady, TerminalInputs, TerminalSlots
<1>4. SlotsOK'
  BY DEF LaunchTerminalDagIfReady, Move, IInv, TypeOK, StepsOK, SpawnsOK, Spawned, SlotsOK, InputsOK, ClassifyReady, TerminalReady, ParserReady, TerminalSlots, ParserSlots
<1>5. InputsOK'
  BY DEF LaunchTerminalDagIfReady, Move, IInv, TypeOK, StepsOK, SpawnsOK, Spawned, SlotsOK, InputsOK, ClassifyReady, TerminalReady, ParserReady, TerminalInputs, TerminalSlots
<1>6. LaunchesOK'
  BY DEF LaunchTerminalDagIfReady, Move, IInv, TypeOK, StepsOK, SpawnsOK, Spawned, SlotsOK, InputsOK, LaunchesOK, ClassifyReady, TerminalReady, ParserReady, TerminalInputs, TerminalSlots, ParserSlots
<1>7. ErrorsOK'
  BY DEF LaunchTerminalDagIfReady, Move, IInv, TypeOK, StepsOK, SpawnsOK, Spawned, ErrorsOK, TerminalSlots, ParserSlots
<1>8. OutcomeOK' /\ CapturedOK'
  BY <1>1 DEF LaunchTerminalDagIfReady, IInv, OutcomeOK, CapturedOK, PublishedMap, Eager
<1> QED
  BY <1>2, <1>3, <1>4, <1>5, <1>6, <1>7, <1>8 DEF IInv

LEMMA LaunchParserDagIfReadyKeepsInv == ASSUME IInv, NEW t \in Tasks, LaunchParserDagIfReady(t) PROVE IInv'
<1> USE DEF Tasks, AnyTask, LanePublished, StagePublished, ResultPublished
<1>1. outcome' = "pending"
  BY TaskMeansPending DEF LaunchParserDagIfReady, Tasks, Ended
<1>2. TypeOK'
  <2>1. pc' \in [Tasks -> Steps]
    BY MoveType DEF LaunchParserDagIfReady, IInv, TypeOK, Steps, Ended
  <2> QED
    BY <1>1, <2>1 DEF LaunchParserDagIfReady, IInv, TypeOK, Slots, TerminalSlots, ParserSlots, ResultSlots, ErrorSlots, Outcomes, PublishedMap
<1>3. StepsOK' /\ SpawnsOK'
  BY DEF LaunchParserDagIfReady, Move, IInv, TypeOK, StepsOK, SpawnsOK, Spawned, SlotsOK, Eager, ClassifyReady, TerminalReady, ParserReady, TerminalInputs, TerminalSlots
<1>4. SlotsOK'
  BY DEF LaunchParserDagIfReady, Move, IInv, TypeOK, StepsOK, SpawnsOK, Spawned, SlotsOK, InputsOK, ClassifyReady, TerminalReady, ParserReady, TerminalSlots, ParserSlots
<1>5. InputsOK'
  BY DEF LaunchParserDagIfReady, Move, IInv, TypeOK, StepsOK, SpawnsOK, Spawned, SlotsOK, InputsOK, ClassifyReady, TerminalReady, ParserReady, TerminalInputs, TerminalSlots
<1>6. LaunchesOK'
  BY DEF LaunchParserDagIfReady, Move, IInv, TypeOK, StepsOK, SpawnsOK, Spawned, SlotsOK, InputsOK, LaunchesOK, ClassifyReady, TerminalReady, ParserReady, TerminalInputs, TerminalSlots, ParserSlots
<1>7. ErrorsOK'
  BY DEF LaunchParserDagIfReady, Move, IInv, TypeOK, StepsOK, SpawnsOK, Spawned, ErrorsOK, TerminalSlots, ParserSlots
<1>8. OutcomeOK' /\ CapturedOK'
  BY <1>1 DEF LaunchParserDagIfReady, IInv, OutcomeOK, CapturedOK, PublishedMap, Eager
<1> QED
  BY <1>2, <1>3, <1>4, <1>5, <1>6, <1>7, <1>8 DEF IInv

----------------------------------------------------------------------------
(* The joined scope *)

(* A task graph that has joined without a panic filled exactly the slots    *)
(* its request calls for: the answer is the one of the contract.            *)
LEMMA JoinedAnswers ==
    ASSUME IInv, Joined
    PROVE  JoinedAnswer \in {Contract!Answer(request)} \cup (IF MayPanic THEN {"panicked"} ELSE {})
<1> USE DEF Tasks, AnyTask, LanePublished, StagePublished, ResultPublished, Ended
<1>1. CASE \E t \in Tasks : pc[t] = "panicked"
  BY <1>1 DEF IInv, ErrorsOK, JoinedAnswer
<1>2. CASE /\ ~\E t \in Tasks : pc[t] = "panicked"
           /\ ~request.normalForm \/ (request.terminalEnded /\ ~request.certified)
  <2>1. "failed" \in {pc["analysis"], pc["glr"]}
    BY <1>2 DEF IInv, Joined, StepsOK, SpawnsOK, Spawned, ErrorsOK
  <2> QED
    BY <1>2, <2>1 DEF IInv, ErrorsOK, JoinedAnswer, Contract!Answer
<1>3. CASE /\ ~\E t \in Tasks : pc[t] = "panicked"
           /\ request.normalForm /\ ~(request.terminalEnded /\ ~request.certified)
  <2>1. /\ pc["tokenizer"] = "done" /\ pc["analysis"] = "done" /\ pc["glr"] = "done"
        /\ pc["flat"] = "done" /\ pc["cpm"] = "done"
        /\ request.deferred => pc["runtime"] = "done"
    BY <1>3 DEF IInv, Joined, StepsOK, SpawnsOK, Spawned, ErrorsOK
  <2>2. "table_error" \notin slots /\ {"cpm", "runtime"} \subseteq slots
    BY <2>1 DEF IInv, SlotsOK, ErrorsOK
  <2>3. CASE ~request.templatesBuild
    <3>1. pc["templates"] = "failed"
      BY <1>3, <2>1, <2>3 DEF IInv, Joined, StepsOK, SpawnsOK, Spawned, ErrorsOK
    <3> QED
      BY <1>3, <2>2, <2>3, <3>1 DEF IInv, ErrorsOK, JoinedAnswer, Contract!Answer
  <2>4. CASE request.templatesBuild
    <3>1. pc["templates"] = "done" /\ (request.useColoring => pc["coloring"] = "done")
      BY <1>3, <2>1, <2>4 DEF IInv, Joined, StepsOK, SpawnsOK, Spawned, ErrorsOK
    <3>2. pc["classify"] = "done"
      BY <1>3, <2>1 DEF IInv, Joined, StepsOK, SpawnsOK, Spawned, SlotsOK, InputsOK, LaunchesOK, ClassifyReady
    <3>3. pc["terminal"] = "done" /\ "terminal" \in launched
      BY <1>3, <2>1, <3>1, <3>2
      DEF IInv, Joined, StepsOK, SpawnsOK, Spawned, SlotsOK, LaunchesOK, TerminalReady, TerminalInputs, TerminalSlots
    <3>4. pc["parser"] = "done" /\ "parser" \in launched
      BY <1>3, <3>1, <3>3 DEF IInv, Joined, StepsOK, SpawnsOK, Spawned, SlotsOK, LaunchesOK, ParserReady
    <3>5. ResultSlots \subseteq slots /\ slots \cap ArcSlots = {} /\ "template_error" \notin slots
      BY <2>2, <3>1, <3>3, <3>4 DEF IInv, SlotsOK, ErrorsOK, ResultSlots, ArcSlots
    <3> QED
      BY <1>3, <2>2, <2>4, <3>5 DEF JoinedAnswer, Contract!Answer
  <2> QED
    BY <2>3, <2>4
<1> QED
  BY <1>1, <1>2, <1>3

LEMMA ReturnKeepsInv == ASSUME IInv, Return PROVE IInv'
<1>1. outcome' \in Outcomes
  BY DEF Return, JoinedAnswer, Outcomes
<1>2. TypeOK'
  BY <1>1 DEF Return, IInv, TypeOK
<1>3. OutcomeOK'
  BY DEF Return, OutcomeOK, Joined, JoinedAnswer
<1>4. StepsOK' /\ SpawnsOK' /\ SlotsOK' /\ InputsOK' /\ LaunchesOK' /\ ErrorsOK' /\ CapturedOK'
  BY DEF Return, IInv, StepsOK, SpawnsOK, Spawned, SlotsOK, InputsOK, LaunchesOK, ErrorsOK, CapturedOK,
         Eager, PublishedMap, ClassifyReady, TerminalReady, TerminalInputs, ParserReady
<1> QED
  BY <1>2, <1>3, <1>4 DEF IInv

----------------------------------------------------------------------------
(* The theorems *)

LEMMA InitInv == Init => IInv
<1> SUFFICES ASSUME Init PROVE IInv
  OBVIOUS
<1>1. TypeOK
  BY DEF Init, TypeOK, Tasks, Steps, Slots, Outcomes
<1>2. StepsOK /\ SpawnsOK /\ SlotsOK /\ InputsOK /\ LaunchesOK
  BY BuildAssumption DEF Init, StepsOK, SpawnsOK, Spawned, SlotsOK, InputsOK, LaunchesOK, Tasks, AnyTask, LanePublished, StagePublished,
         ResultPublished, ClassifyReady, TerminalReady, TerminalInputs, TerminalSlots, ParserReady, Eager
<1>3. ErrorsOK /\ OutcomeOK /\ CapturedOK
  BY DEF Init, ErrorsOK, OutcomeOK, CapturedOK, Tasks, LanePublished, ResultPublished
<1> QED
  BY <1>1, <1>2, <1>3 DEF IInv

LEMMA NextKeepsInv == IInv /\ [Next]_vars => IInv'
<1> SUFFICES ASSUME IInv, [Next]_vars PROVE IInv'
  OBVIOUS
<1>1. CASE \E t \in Tasks : Start(t) \/ Panic(t) \/ Step(t)
  BY <1>1, StartKeepsInv, PanicKeepsInv, LaunchClassifyDagIfReadyKeepsInv,
     LaunchTerminalDagIfReadyKeepsInv, LaunchParserDagIfReadyKeepsInv DEF Step
<1>2. CASE \/ TokenizerBuild \/ TokenizerSpawn \/ TokenizerPublish
           \/ RuntimeBuild \/ CpmBuild \/ CpmPublish \/ FlatBuild \/ FlatPublish
  BY <1>2, TokenizerBuildKeepsInv, TokenizerSpawnKeepsInv, TokenizerPublishKeepsInv, RuntimeBuildKeepsInv,
     CpmBuildKeepsInv, CpmPublishKeepsInv, FlatBuildKeepsInv, FlatPublishKeepsInv
<1>3. CASE \/ AnalysisBuild \/ AnalysisPublish \/ GlrBuild \/ ColoringBuild \/ TemplatesBuild
           \/ ClassifyBuild \/ TerminalBuild \/ ParserBuild
  BY <1>3, AnalysisBuildKeepsInv, AnalysisPublishKeepsInv, GlrBuildKeepsInv, ColoringBuildKeepsInv,
     TemplatesBuildKeepsInv, ClassifyBuildKeepsInv, TerminalBuildKeepsInv, ParserBuildKeepsInv
<1>4. CASE Return
  BY <1>4, ReturnKeepsInv
<1>5. CASE UNCHANGED vars
  BY <1>5 DEF vars, IInv, TypeOK, StepsOK, SpawnsOK, Spawned, SlotsOK, InputsOK, LaunchesOK, ErrorsOK, OutcomeOK,
              CapturedOK, Eager, PublishedMap, ClassifyReady, TerminalReady, TerminalInputs, ParserReady,
              Joined, JoinedAnswer
<1> QED
  BY <1>1, <1>2, <1>3, <1>4, <1>5 DEF Next

(* Every reachable state of the task graph satisfies the invariant: slots,  *)
(* launched flags and error slots are determined by where the tasks are.    *)
THEOREM DagInvariant == Spec => []IInv
  BY InitInv, NextKeepsInv, PTL DEF Spec

(* The expects and unwraps after the scope never fire, for any number of    *)
(* workers and any schedule.                                                *)
THEOREM JoinsAreComplete == Spec => []JoinComplete
<1>1. IInv => JoinComplete
  BY JoinedAnswers DEF IInv, OutcomeOK, JoinComplete, Contract!Answer
<1> QED
  BY <1>1, DagInvariant, PTL

(* No stage is spawned twice. *)
THEOREM StagesSpawnOnce == Spec => SpawnedOnce
<1>1. IInv /\ [Next]_vars =>
        [\A t \in Tasks : pc[t] \notin {"none", "queued"} => pc'[t] # "queued"]_vars
  <2> SUFFICES ASSUME IInv, Next, NEW t \in Tasks, pc[t] \notin {"none", "queued"}
               PROVE  pc'[t] # "queued"
    BY DEF vars
  <2> USE DEF Tasks, AnyTask, LanePublished, StagePublished, ResultPublished, IInv, TypeOK, StepsOK, SpawnsOK, Spawned
  <2>1. CASE \E u \in Tasks : Start(u) \/ Panic(u) \/ Step(u)
    BY <2>1 DEF Start, Panic, Step, Move, LaunchClassifyDagIfReady, LaunchTerminalDagIfReady,
                LaunchParserDagIfReady, ClassifyReady, TerminalReady, ParserReady
  <2>2. CASE TokenizerBuild \/ TokenizerSpawn \/ FlatBuild \/ AnalysisBuild \/ GlrBuild
    BY <2>2 DEF TokenizerBuild, TokenizerSpawn, FlatBuild, AnalysisBuild, GlrBuild, Move, Eager
  <2>3. CASE RuntimeBuild \/ CpmBuild \/ CpmPublish \/ TemplatesBuild
    BY <2>3 DEF RuntimeBuild, CpmBuild, CpmPublish, TemplatesBuild, Move
  <2>4. CASE \/ TokenizerPublish \/ FlatPublish \/ AnalysisPublish \/ ColoringBuild
             \/ ClassifyBuild \/ TerminalBuild \/ ParserBuild
    BY <2>4 DEF TokenizerPublish, FlatPublish, AnalysisPublish, ColoringBuild, ClassifyBuild,
                TerminalBuild, ParserBuild, Publish, Move
  <2>5. CASE Return
    BY <2>5 DEF Return
  <2> QED
    BY <2>1, <2>2, <2>3, <2>4, <2>5 DEF Next
<1> QED
  BY <1>1, DagInvariant, PTL DEF Spec, SpawnedOnce

(* The task graph implements the contract of the build: it stutters until   *)
(* the scope has joined, then answers what the request decides.             *)
THEOREM DagImplementsContract == Spec => Contract!ContractSafety
<1>1. Init => Contract!ContractInit
  BY DEF Init, Contract!ContractInit
<1>2. IInv /\ [Next]_vars => [Contract!Reply]_Contract!contractVars
  <2> SUFFICES ASSUME IInv, Next PROVE Contract!Reply \/ UNCHANGED <<request, outcome>>
    BY DEF vars, Contract!contractVars
  <2>1. CASE Return
    BY <2>1, JoinedAnswers DEF Return, Contract!Reply
  <2>2. CASE \E t \in Tasks : Start(t) \/ Panic(t) \/ Step(t)
    BY <2>2 DEF Start, Panic, Step, LaunchClassifyDagIfReady, LaunchTerminalDagIfReady, LaunchParserDagIfReady
  <2>3. CASE ~Return /\ ~\E t \in Tasks : Start(t) \/ Panic(t) \/ Step(t)
    BY <2>3 DEF Next, TokenizerBuild, TokenizerSpawn, TokenizerPublish, RuntimeBuild, CpmBuild, CpmPublish,
                FlatBuild, FlatPublish, AnalysisBuild, AnalysisPublish, GlrBuild, ColoringBuild,
                TemplatesBuild, ClassifyBuild, TerminalBuild, ParserBuild, Publish
  <2> QED
    BY <2>1, <2>2, <2>3
<1> QED
  BY <1>1, <1>2, DagInvariant, PTL DEF Spec, Contract!ContractSafety
=============================================================================
