-------------------------- MODULE MavMissionProofs --------------------------
(***************************************************************************)
(* MAVLink missions, for any number of main tasks and plans: what a result *)
(* says, and why a client that waits for it never meets freed memory.      *)
(***************************************************************************)
EXTENDS MavMission, TLAPS

\* SetWaypointItems keeps the inductive invariant.
LEMMA SetWaypointItemsStep ==
    ASSUME NEW p \in Plans, IInv, SetWaypointItems(p)
    PROVE  IInv'
  <1>1. TypeOK'
    BY DEF IInv, TypeOK, Modes, Stages, StageRstType, SetWaypointItems,
           vehicleVars, clientVars, taskVars, queryVars
  <1>2. StagesInv' /\ SuccessInv'
    BY DEF IInv, TypeOK, StagesInv, SuccessInv, SetWaypointItems,
           vehicleVars, clientVars, taskVars, queryVars
  <1>3. DroppedInv'
    BY DEF IInv, TypeOK, DroppedInv, SetWaypointItems, vehicleVars,
           clientVars, taskVars, queryVars
  <1>4. PatientInv' /\ PatientClientIsSafe'
    BY DEF IInv, TypeOK, StagesInv, DroppedInv, PatientInv,
           PatientClientIsSafe, SetWaypointItems, vehicleVars, clientVars,
           taskVars, queryVars
  <1>5. FinishedMeansLanded' /\ ResultIsReal'
    BY DEF IInv, TypeOK, StagesInv, SuccessInv, FinishedMeansLanded,
           ResultIsReal, SetWaypointItems, vehicleVars, clientVars, taskVars,
           queryVars
  <1>6. QED
    BY <1>1, <1>2, <1>3, <1>4, <1>5 DEF IInv

\* GetMainTask keeps the inductive invariant.
LEMMA GetMainTaskStep ==
    ASSUME NEW u \in Tasks, IInv, GetMainTask(u)
    PROVE  IInv'
  <1>1. TypeOK'
    BY DEF IInv, TypeOK, Modes, Stages, StageRstType, GetMainTask, Interpret,
           Reported, vehicleVars, queryVars
  <1>2. StagesInv' /\ SuccessInv'
    BY DEF IInv, TypeOK, StagesInv, SuccessInv, GetMainTask, Reported,
           vehicleVars, queryVars
  <1>3. DroppedInv'
    BY ConstantsAssumption DEF IInv, TypeOK, DroppedInv, GetMainTask,
           Reported, vehicleVars, queryVars
  <1>4. PatientInv'
    <2> SUFFICES ASSUME ~careless', NEW t \in Tasks
                 PROVE  /\ t = dropped' => stage'[t] = "over"
                        /\ t \in freed' => /\ stage'[t] = "over"
                                           /\ query'[t] \in {"none", "done"}
                        /\ t = dropped' /\ client' = "free" => t \in quit'
                        /\ t = dropped' /\ client' = "delete" =>
                               query'[t] = "none"
                        /\ stageRst'[t] = "INTERRUPTTED" =>
                               stage'[t] = "over" \/ refused'
      BY DEF PatientInv
    <2>1. ~careless /\ (current # NoTask => Reported(current))
      BY DEF GetMainTask
    <2>2. ASSUME t = current PROVE stage[t] = "over"
      BY <2>1, <2>2, ConstantsAssumption
         DEF Reported, IInv, TypeOK, Stages, StagesInv
    <2>3. t \in freed => stage[t] = "over" /\ query[t] \in {"none", "done"}
      BY <2>1 DEF IInv, PatientInv
    <2>4. stage' = [stage EXCEPT ![u] = "created"] /\ stage[u] = "new"
          /\ dropped' = current /\ client' \notin {"free", "delete"}
          /\ UNCHANGED <<freed, query, stageRst, refused>>
      BY DEF GetMainTask, queryVars
    <2>5. stageRst[t] = "INTERRUPTTED" => stage[t] = "over" \/ refused
      BY <2>1 DEF IInv, PatientInv
    <2>6. QED
      BY <2>2, <2>3, <2>4, <2>5 DEF IInv, TypeOK
  <1>5. FinishedMeansLanded' /\ ResultIsReal'
    BY DEF IInv, TypeOK, StagesInv, SuccessInv, FinishedMeansLanded,
           ResultIsReal, GetMainTask, Reported, vehicleVars, queryVars
  <1>6. PatientClientIsSafe'
    BY DEF IInv, TypeOK, StagesInv, DroppedInv, PatientInv,
           PatientClientIsSafe, GetMainTask, Reported, vehicleVars, queryVars
  <1>7. QED
    BY <1>1, <1>2, <1>3, <1>4, <1>5, <1>6 DEF IInv

\* QuitQuery keeps the inductive invariant.
LEMMA QuitQueryStep ==
    ASSUME IInv, QuitQuery
    PROVE  IInv'
  <1>1. TypeOK'
    <2>1. dropped \in Tasks
      BY DEF IInv, TypeOK, DroppedInv, QuitQuery
    <2>2. QED
      BY <2>1 DEF IInv, TypeOK, QuitQuery, planVars, vehicleVars, taskVars,
                  queryVars
  <1>2. StagesInv' /\ SuccessInv'
    BY DEF IInv, TypeOK, StagesInv, SuccessInv, QuitQuery, planVars,
           vehicleVars, taskVars
  <1>3. DroppedInv'
    BY DEF IInv, TypeOK, DroppedInv, QuitQuery, planVars, vehicleVars,
           taskVars
  <1>4. PatientInv' /\ PatientClientIsSafe'
    BY DEF IInv, TypeOK, StagesInv, DroppedInv, PatientInv,
           PatientClientIsSafe, QuitQuery, planVars, vehicleVars, taskVars
  <1>5. FinishedMeansLanded' /\ ResultIsReal'
    BY DEF IInv, TypeOK, StagesInv, SuccessInv, FinishedMeansLanded,
           ResultIsReal, QuitQuery, planVars, vehicleVars, taskVars
  <1>6. QED
    BY <1>1, <1>2, <1>3, <1>4, <1>5 DEF IInv

\* FreeImpl keeps the inductive invariant.
LEMMA FreeImplStep ==
    ASSUME IInv, FreeImpl
    PROVE  IInv'
  <1>1. TypeOK'
    <2>1. dropped \in Tasks
      BY DEF IInv, TypeOK, DroppedInv, FreeImpl
    <2>2. QED
      BY <2>1 DEF IInv, TypeOK, FreeImpl, planVars, vehicleVars, taskVars,
                  queryVars
  <1>2. StagesInv' /\ SuccessInv'
    BY DEF IInv, TypeOK, StagesInv, SuccessInv, FreeImpl, planVars,
           vehicleVars, taskVars, queryVars
  <1>3. DroppedInv'
    BY DEF IInv, TypeOK, DroppedInv, FreeImpl, planVars, vehicleVars,
           taskVars, queryVars
  <1>4. PatientInv' /\ PatientClientIsSafe'
    BY DEF IInv, TypeOK, StagesInv, DroppedInv, PatientInv,
           PatientClientIsSafe, FreeImpl, planVars, vehicleVars, taskVars,
           queryVars
  <1>5. FinishedMeansLanded' /\ ResultIsReal'
    BY DEF IInv, TypeOK, StagesInv, SuccessInv, FinishedMeansLanded,
           ResultIsReal, FreeImpl, planVars, vehicleVars, taskVars, queryVars
  <1>6. QED
    BY <1>1, <1>2, <1>3, <1>4, <1>5 DEF IInv

\* JoinTask keeps the inductive invariant.
LEMMA JoinTaskStep ==
    ASSUME IInv, JoinTask
    PROVE  IInv'
  <1>1. TypeOK'
    BY DEF IInv, TypeOK, Modes, Stages, StageRstType, JoinTask, planVars,
           vehicleVars, taskVars, queryVars
  <1>2. StagesInv' /\ SuccessInv'
    BY DEF IInv, TypeOK, StagesInv, SuccessInv, JoinTask, planVars,
           vehicleVars, taskVars, queryVars
  <1>3. DroppedInv'
    BY ConstantsAssumption DEF IInv, TypeOK, DroppedInv, JoinTask,
           planVars, vehicleVars, taskVars, queryVars
  <1>4. PatientInv' /\ PatientClientIsSafe'
    BY ConstantsAssumption DEF IInv, TypeOK, StagesInv, DroppedInv,
           PatientInv, PatientClientIsSafe, JoinTask, planVars, vehicleVars,
           taskVars, queryVars
  <1>5. FinishedMeansLanded' /\ ResultIsReal'
    BY DEF IInv, TypeOK, StagesInv, SuccessInv, FinishedMeansLanded,
           ResultIsReal, JoinTask, planVars, vehicleVars, taskVars, queryVars
  <1>6. QED
    BY <1>1, <1>2, <1>3, <1>4, <1>5 DEF IInv

\* Execute keeps the inductive invariant.
LEMMA ExecuteStep ==
    ASSUME IInv, Execute
    PROVE  IInv'
  <1>1. TypeOK'
    BY DEF IInv, TypeOK, Modes, Stages, StageRstType, Execute, planVars,
           vehicleVars, queryVars
  <1>2. StagesInv'
    <2>1. current \in Tasks /\ stage[current] = "created"
      BY DEF IInv, TypeOK, DroppedInv, Execute
    <2>2. QED
      BY <2>1 DEF IInv, TypeOK, StagesInv, Execute, queryVars
  <1>3. DroppedInv'
    BY DEF IInv, TypeOK, DroppedInv, Execute, planVars, vehicleVars,
           queryVars
  <1>4. PatientInv' /\ PatientClientIsSafe'
    BY DEF IInv, TypeOK, StagesInv, DroppedInv, PatientInv,
           PatientClientIsSafe, Execute, planVars, vehicleVars, queryVars
  <1>5. FinishedMeansLanded' /\ ResultIsReal'
    BY DEF IInv, TypeOK, StagesInv, SuccessInv, FinishedMeansLanded,
           ResultIsReal, Execute, planVars, vehicleVars, queryVars
  <1>6. SuccessInv'
    BY DEF IInv, TypeOK, StagesInv, SuccessInv, Execute, planVars,
           vehicleVars, queryVars
  <1>7. QED
    BY <1>1, <1>2, <1>3, <1>4, <1>5, <1>6 DEF IInv

\* A control call (pause, resume, stop) keeps the inductive invariant.
LEMMA ControlStep ==
    ASSUME IInv, Pause \/ Resume \/ Stop
    PROVE  IInv'
  <1>1. TypeOK'
    BY DEF IInv, TypeOK, Modes, Stages, StageRstType, Pause, Resume, Stop,
           Control, Command, planVars, clientVars, taskVars, queryVars
  <1>2. StagesInv' /\ SuccessInv'
    BY DEF IInv, TypeOK, StagesInv, SuccessInv, Pause, Resume, Stop,
           Control, Command, planVars, clientVars, taskVars, queryVars
  <1>3. DroppedInv'
    BY DEF IInv, TypeOK, DroppedInv, Pause, Resume, Stop, Control,
           Command, planVars, clientVars, taskVars, queryVars
  <1>4. PatientInv' /\ PatientClientIsSafe'
    BY DEF IInv, TypeOK, StagesInv, DroppedInv, PatientInv,
           PatientClientIsSafe, Pause, Resume, Stop, Control, Command, planVars,
           clientVars, taskVars, queryVars
  <1>5. FinishedMeansLanded' /\ ResultIsReal'
    BY DEF IInv, TypeOK, StagesInv, SuccessInv, FinishedMeansLanded,
           ResultIsReal, Pause, Resume, Stop, Control, Command, planVars,
           clientVars, taskVars, queryVars
  <1>6. QED
    BY <1>1, <1>2, <1>3, <1>4, <1>5 DEF IInv

\* Return2Home keeps the inductive invariant.
LEMMA Return2HomeStep ==
    ASSUME IInv, Return2Home
    PROVE  IInv'
  <1>1. TypeOK'
    BY DEF IInv, TypeOK, Modes, Stages, StageRstType, Return2Home, NotifyMissionFinish,
           Command, planVars, queryVars
  <1>2. StagesInv' /\ SuccessInv'
    BY DEF IInv, TypeOK, StagesInv, SuccessInv, Return2Home, NotifyMissionFinish, Command,
           planVars, queryVars
  <1>3. DroppedInv'
    BY DEF IInv, TypeOK, DroppedInv, Return2Home, NotifyMissionFinish, Command, planVars,
           queryVars
  <1>4. PatientClientIsSafe'
    <2>1. \/ UNCHANGED <<crashed, careless, refused>>
          \/ careless' = TRUE
          \/ /\ current # NoTask /\ NotifyMissionFinish(current, "INTERRUPTTED")
             /\ refused' = (refused \/ ~Reported(current))
             /\ careless' = careless
      BY Zenon DEF Return2Home
    <2>2. ASSUME current # NoTask, stage[current] = "copy"
          PROVE  ~Reported(current)
      BY <2>2 DEF IInv, TypeOK, StagesInv, Reported
    <2>3. QED
      BY <2>1, <2>2 DEF IInv, TypeOK, PatientClientIsSafe, NotifyMissionFinish
  <1>5. FinishedMeansLanded' /\ ResultIsReal'
    BY DEF IInv, TypeOK, StagesInv, SuccessInv, FinishedMeansLanded,
           ResultIsReal, Return2Home, NotifyMissionFinish, Command, planVars, queryVars
  <1>6. PatientInv'
    <2>1. \/ UNCHANGED <<stageRst, refused>>
          \/ careless' = TRUE
          \/ /\ current # NoTask
             /\ stageRst' = [stageRst EXCEPT ![current] = "INTERRUPTTED"]
             /\ refused' = (refused \/ ~Reported(current))
      BY Zenon DEF Return2Home, NotifyMissionFinish
    <2>2. /\ UNCHANGED <<dropped, client, stage, freed, query, quit>>
          /\ careless' = careless \/ careless' = TRUE
      BY DEF Return2Home, queryVars
    <2>3. ASSUME current # NoTask, Reported(current)
          PROVE  stage[current] = "over"
      BY <2>3 DEF IInv, TypeOK, Stages, StagesInv, Reported
    <2>4. QED
      BY <2>1, <2>2, <2>3 DEF IInv, TypeOK, PatientInv
  <1>7. QED
    BY <1>1, <1>2, <1>3, <1>4, <1>5, <1>6 DEF IInv

\* Upload keeps the inductive invariant.
LEMMA UploadStep ==
    ASSUME NEW u \in Tasks, IInv, Upload(u)
    PROVE  IInv'
  <1>1. TypeOK'
    <2>1. stage' \in [Tasks -> Stages] /\ start' \in [Tasks -> StageRstType]
      BY DEF IInv, TypeOK, Upload, Refuse, Stages, StageRstType
    <2>2. uploaded' \in Seq(Plans) /\ mode' \in Modes
      BY DEF IInv, TypeOK, Upload, Refuse, planVars, vehicleVars
    <2>3. query' \in [Tasks -> {"none", "watch", "notify", "signal", "done"}]
          /\ quit' \in SUBSET Tasks
      BY DEF IInv, TypeOK, Upload, Refuse, queryVars
    <2>4. QED
      BY <2>1, <2>2, <2>3 DEF IInv, TypeOK, Upload, planVars, vehicleVars,
                              clientVars, queryVars
  <1>2. StagesInv' /\ SuccessInv'
    BY DEF IInv, TypeOK, StagesInv, SuccessInv, Upload, Refuse,
           vehicleVars, clientVars, queryVars
  <1>3. DroppedInv'
    BY DEF IInv, TypeOK, DroppedInv, Upload, Refuse, vehicleVars,
           clientVars, queryVars
  <1>4. PatientInv' /\ PatientClientIsSafe'
    BY DEF IInv, TypeOK, StagesInv, DroppedInv, PatientInv,
           PatientClientIsSafe, Upload, Refuse, vehicleVars, clientVars,
           queryVars
  <1>5. FinishedMeansLanded' /\ ResultIsReal'
    BY DEF IInv, TypeOK, StagesInv, SuccessInv, FinishedMeansLanded,
           ResultIsReal, Upload, Refuse, vehicleVars, clientVars, queryVars
  <1>6. QED
    BY <1>1, <1>2, <1>3, <1>4, <1>5 DEF IInv

\* Arm keeps the inductive invariant.
LEMMA ArmStep ==
    ASSUME NEW u \in Tasks, IInv, Arm(u)
    PROVE  IInv'
  <1>1. TypeOK'
    <2>1. UNCHANGED <<planVars, mode, clientVars, stageRst, exec, queryVars,
                      freed, crashed>>
      BY DEF Arm
    <2>2. armed' \in BOOLEAN
      BY DEF IInv, TypeOK, Arm
    <2>3. start' \in [Tasks -> StageRstType] /\ stage' \in [Tasks -> Stages]
      BY DEF IInv, TypeOK, Stages, StageRstType, Arm, Refuse
    <2>4. QED
      BY <2>1, <2>2, <2>3 DEF IInv, TypeOK, planVars, clientVars, queryVars
  <1>2. StagesInv' /\ SuccessInv'
    BY DEF IInv, TypeOK, StagesInv, SuccessInv, Arm, Refuse, planVars,
           clientVars, queryVars
  <1>3. DroppedInv'
    BY DEF IInv, TypeOK, DroppedInv, Arm, Refuse, planVars, clientVars,
           queryVars
  <1>4. PatientInv' /\ PatientClientIsSafe'
    BY DEF IInv, TypeOK, StagesInv, DroppedInv, PatientInv,
           PatientClientIsSafe, Arm, Refuse, planVars, clientVars, queryVars
  <1>5. FinishedMeansLanded' /\ ResultIsReal'
    BY DEF IInv, TypeOK, StagesInv, SuccessInv, FinishedMeansLanded,
           ResultIsReal, Arm, Refuse, planVars, clientVars, queryVars
  <1>6. QED
    BY <1>1, <1>2, <1>3, <1>4, <1>5 DEF IInv

\* Begin keeps the inductive invariant.
LEMMA BeginStep ==
    ASSUME NEW u \in Tasks, IInv, Begin(u)
    PROVE  IInv'
  <1>1. TypeOK'
    <2>1. stage' \in [Tasks -> Stages] /\ start' \in [Tasks -> StageRstType]
      BY DEF IInv, TypeOK, Begin, Refuse, Stages, StageRstType
    <2>2. uploaded' \in Seq(Plans) /\ mode' \in Modes
      BY DEF IInv, TypeOK, Begin, Refuse, planVars, vehicleVars, Command, Modes
    <2>3. query' \in [Tasks -> {"none", "watch", "notify", "signal", "done"}]
          /\ quit' \in SUBSET Tasks
      BY DEF IInv, TypeOK, Begin, Refuse, queryVars
    <2>4. QED
      BY <2>1, <2>2, <2>3 DEF IInv, TypeOK, Begin, planVars, vehicleVars,
                              clientVars, queryVars
  <1>2. StagesInv' /\ SuccessInv'
    <2>1. /\ start[u] = "UNEXECUTE" /\ query[u] = "none" /\ stageRst[u] # "SUCCESS"
          /\ stageRst' = stageRst /\ landed' = landed /\ exec' = exec
      BY DEF IInv, StagesInv, SuccessInv, Begin
    <2>2. CASE Refuse(u) /\ UNCHANGED <<query, quit>>
      BY <2>1, <2>2 DEF IInv, TypeOK, StagesInv, SuccessInv, Begin, Refuse
    <2>3. CASE ~(Refuse(u) /\ UNCHANGED <<query, quit>>)
      <3>1. /\ stage' = [stage EXCEPT ![u] = "wait"]
            /\ start' = [start EXCEPT ![u] = "SUCCESS"]
            /\ query' = [query EXCEPT ![u] = "watch"] /\ quit' = quit \ {u}
        BY <2>3 DEF Begin
      <3>2. StagesInv'
        BY <2>1, <3>1 DEF IInv, TypeOK, StagesInv, Begin
      <3>3. SuccessInv'
        BY <2>1, <3>1 DEF IInv, TypeOK, SuccessInv
      <3>4. QED
        BY <3>2, <3>3
    <2>4. QED
      BY <2>2, <2>3
  <1>3. DroppedInv'
    BY DEF IInv, TypeOK, DroppedInv, Begin, Refuse, Command, planVars,
           clientVars
  <1>4. PatientInv' /\ PatientClientIsSafe'
    BY DEF IInv, TypeOK, StagesInv, DroppedInv, PatientInv,
           PatientClientIsSafe, Begin, Refuse, Command, planVars, clientVars
  <1>5. FinishedMeansLanded' /\ ResultIsReal'
    BY DEF IInv, TypeOK, StagesInv, SuccessInv, FinishedMeansLanded,
           ResultIsReal, Begin, Refuse, Command, planVars, clientVars
  <1>6. QED
    BY <1>1, <1>2, <1>3, <1>4, <1>5 DEF IInv

\* Wait keeps the inductive invariant.
LEMMA WaitStep ==
    ASSUME NEW u \in Tasks, IInv, Wait(u)
    PROVE  IInv'
  <1>1. TypeOK'
    BY DEF IInv, TypeOK, Modes, Stages, StageRstType, Wait, planVars,
           vehicleVars, clientVars, queryVars
  <1>2. StagesInv' /\ SuccessInv'
    BY DEF IInv, TypeOK, StagesInv, SuccessInv, Wait, planVars,
           vehicleVars, clientVars, queryVars
  <1>3. DroppedInv'
    BY DEF IInv, TypeOK, DroppedInv, Wait, planVars, vehicleVars,
           clientVars, queryVars
  <1>4. PatientInv' /\ PatientClientIsSafe'
    BY DEF IInv, TypeOK, StagesInv, DroppedInv, PatientInv,
           PatientClientIsSafe, Wait, planVars, vehicleVars, clientVars,
           queryVars
  <1>5. FinishedMeansLanded'
    BY DEF IInv, TypeOK, StagesInv, SuccessInv, FinishedMeansLanded,
           ResultIsReal, Wait, planVars, vehicleVars, clientVars, queryVars
  <1>6. ResultIsReal'
    BY DEF IInv, TypeOK, StageRstType, StagesInv, ResultIsReal, Wait,
           planVars, vehicleVars, clientVars, queryVars
  <1>7. QED
    BY <1>1, <1>2, <1>3, <1>4, <1>5, <1>6 DEF IInv

\* Read keeps the inductive invariant.
LEMMA ReadStep ==
    ASSUME NEW u \in Tasks, IInv, Read(u)
    PROVE  IInv'
  <1>1. TypeOK'
    BY DEF IInv, TypeOK, Modes, Stages, StageRstType, Read, planVars,
           vehicleVars, clientVars, queryVars
  <1>2. StagesInv' /\ SuccessInv'
    BY DEF IInv, TypeOK, StagesInv, SuccessInv, Read, planVars,
           vehicleVars, clientVars, queryVars
  <1>3. DroppedInv'
    BY DEF IInv, TypeOK, DroppedInv, Read, planVars, vehicleVars,
           clientVars, queryVars
  <1>4. PatientInv' /\ PatientClientIsSafe'
    BY DEF IInv, TypeOK, StagesInv, DroppedInv, PatientInv,
           PatientClientIsSafe, Read, planVars, vehicleVars, clientVars,
           queryVars
  <1>5. FinishedMeansLanded'
    BY DEF IInv, TypeOK, StagesInv, SuccessInv, FinishedMeansLanded,
           ResultIsReal, Read, planVars, vehicleVars, clientVars, queryVars
  <1>6. ResultIsReal'
    BY DEF IInv, TypeOK, StageRstType, StagesInv, ResultIsReal, Read,
           planVars, vehicleVars, clientVars, queryVars
  <1>7. QED
    BY <1>1, <1>2, <1>3, <1>4, <1>5, <1>6 DEF IInv

\* StopWatching keeps the inductive invariant.
LEMMA StopWatchingStep ==
    ASSUME NEW u \in Tasks, IInv, StopWatching(u)
    PROVE  IInv'
  <1>1. TypeOK'
    BY DEF IInv, TypeOK, Modes, Stages, StageRstType, StopWatching,
           planVars, vehicleVars, clientVars, taskVars
  <1>2. StagesInv' /\ SuccessInv'
    BY DEF IInv, TypeOK, StagesInv, SuccessInv, StopWatching, planVars,
           vehicleVars, clientVars, taskVars
  <1>3. DroppedInv'
    BY DEF IInv, TypeOK, DroppedInv, StopWatching, planVars, vehicleVars,
           clientVars, taskVars
  <1>4. PatientInv' /\ PatientClientIsSafe'
    BY DEF IInv, TypeOK, StagesInv, DroppedInv, PatientInv,
           PatientClientIsSafe, StopWatching, planVars, vehicleVars, clientVars,
           taskVars
  <1>5. FinishedMeansLanded' /\ ResultIsReal'
    BY DEF IInv, TypeOK, StagesInv, SuccessInv, FinishedMeansLanded,
           ResultIsReal, StopWatching, planVars, vehicleVars, clientVars,
           taskVars
  <1>6. QED
    BY <1>1, <1>2, <1>3, <1>4, <1>5 DEF IInv

\* NotifyFinish keeps the inductive invariant.
LEMMA NotifyFinishStep ==
    ASSUME NEW u \in Tasks, IInv, NotifyFinish(u)
    PROVE  IInv'
  <1>1. TypeOK'
    BY DEF IInv, TypeOK, Modes, Stages, StageRstType, NotifyFinish, NotifyMissionFinish,
           planVars, vehicleVars, clientVars
  <1>2. StagesInv' /\ SuccessInv'
    BY DEF IInv, TypeOK, StagesInv, SuccessInv, NotifyFinish, NotifyMissionFinish, planVars,
           vehicleVars, clientVars
  <1>3. DroppedInv'
    BY DEF IInv, TypeOK, DroppedInv, NotifyFinish, NotifyMissionFinish, planVars, vehicleVars,
           clientVars
  <1>4. PatientInv'
    BY DEF IInv, TypeOK, StagesInv, DroppedInv, PatientInv, NotifyFinish,
           NotifyMissionFinish, planVars, vehicleVars, clientVars
  <1>5. PatientClientIsSafe'
    <2>1. ASSUME stage[u] = "copy", ~careless PROVE refused
      <3>1. stageRst[u] # "SUCCESS"
        BY DEF IInv, SuccessInv, NotifyFinish
      <3>2. stageRst[u] = "INTERRUPTTED"
        BY <2>1, <3>1 DEF IInv, TypeOK, StageRstType, StagesInv
      <3>3. QED
        BY <2>1, <3>2 DEF IInv, PatientInv
    <2>2. UNCHANGED <<careless, refused>>
          /\ (stage[u] # "copy" => UNCHANGED crashed)
      BY DEF NotifyFinish, NotifyMissionFinish, clientVars
    <2>3. QED
      BY <2>1, <2>2 DEF IInv, TypeOK, PatientClientIsSafe
  <1>6. FinishedMeansLanded' /\ ResultIsReal'
    BY DEF IInv, TypeOK, StagesInv, SuccessInv, FinishedMeansLanded,
           ResultIsReal, NotifyFinish, NotifyMissionFinish, planVars, vehicleVars, clientVars
  <1>7. QED
    BY <1>1, <1>2, <1>3, <1>4, <1>5, <1>6 DEF IInv

\* Signal keeps the inductive invariant.
LEMMA SignalStep ==
    ASSUME NEW u \in Tasks, IInv, Signal(u)
    PROVE  IInv'
  <1>1. TypeOK'
    BY DEF IInv, TypeOK, Modes, Stages, StageRstType, Signal, planVars,
           vehicleVars, clientVars, taskVars
  <1>2. StagesInv' /\ SuccessInv'
    BY DEF IInv, TypeOK, StagesInv, SuccessInv, Signal, planVars,
           vehicleVars, clientVars, taskVars
  <1>3. DroppedInv'
    BY DEF IInv, TypeOK, DroppedInv, Signal, planVars, vehicleVars,
           clientVars, taskVars
  <1>4. PatientInv' /\ PatientClientIsSafe'
    BY DEF IInv, TypeOK, StagesInv, DroppedInv, PatientInv,
           PatientClientIsSafe, Signal, planVars, vehicleVars, clientVars,
           taskVars
  <1>5. FinishedMeansLanded' /\ ResultIsReal'
    BY DEF IInv, TypeOK, StagesInv, SuccessInv, FinishedMeansLanded,
           ResultIsReal, Signal, planVars, vehicleVars, clientVars, taskVars
  <1>6. QED
    BY <1>1, <1>2, <1>3, <1>4, <1>5 DEF IInv

\* Disarm keeps the inductive invariant.
LEMMA DisarmStep ==
    ASSUME IInv, Disarm
    PROVE  IInv'
  <1>1. TypeOK'
    BY DEF IInv, TypeOK, Modes, Stages, StageRstType, Disarm, planVars,
           clientVars, taskVars, queryVars
  <1>2. StagesInv' /\ SuccessInv'
    BY DEF IInv, TypeOK, StagesInv, SuccessInv, Disarm, planVars,
           clientVars, taskVars, queryVars
  <1>3. DroppedInv'
    BY DEF IInv, TypeOK, DroppedInv, Disarm, planVars, clientVars,
           taskVars, queryVars
  <1>4. PatientInv' /\ PatientClientIsSafe'
    BY DEF IInv, TypeOK, StagesInv, DroppedInv, PatientInv,
           PatientClientIsSafe, Disarm, planVars, clientVars, taskVars, queryVars
  <1>5. FinishedMeansLanded' /\ ResultIsReal'
    BY DEF IInv, TypeOK, StagesInv, SuccessInv, FinishedMeansLanded,
           ResultIsReal, Disarm, planVars, clientVars, taskVars, queryVars
  <1>6. QED
    BY <1>1, <1>2, <1>3, <1>4, <1>5 DEF IInv

\* UseFreedImpl keeps the inductive invariant.
LEMMA UseFreedImplStep ==
    ASSUME NEW u \in Tasks, IInv, UseFreedImpl(u)
    PROVE  IInv'
  <1>1. TypeOK'
    BY DEF IInv, TypeOK, Modes, Stages, StageRstType, UseFreedImpl,
           UsesImpl, planVars, vehicleVars, clientVars, taskVars, queryVars
  <1>2. StagesInv' /\ SuccessInv'
    BY DEF IInv, TypeOK, StagesInv, SuccessInv, UseFreedImpl, UsesImpl,
           planVars, vehicleVars, clientVars, taskVars, queryVars
  <1>3. DroppedInv'
    BY DEF IInv, TypeOK, DroppedInv, UseFreedImpl, UsesImpl, planVars,
           vehicleVars, clientVars, taskVars, queryVars
  <1>4. PatientInv' /\ PatientClientIsSafe'
    BY DEF IInv, TypeOK, StagesInv, DroppedInv, PatientInv,
           PatientClientIsSafe, UseFreedImpl, UsesImpl, planVars, vehicleVars,
           clientVars, taskVars, queryVars
  <1>5. FinishedMeansLanded' /\ ResultIsReal'
    BY DEF IInv, TypeOK, StagesInv, SuccessInv, FinishedMeansLanded,
           ResultIsReal, UseFreedImpl, UsesImpl, planVars, vehicleVars,
           clientVars, taskVars, queryVars
  <1>6. QED
    BY <1>1, <1>2, <1>3, <1>4, <1>5 DEF IInv

\* Every step keeps the inductive invariant.
LEMMA InvStep == IInv /\ [Next]_vars => IInv'
  <1> SUFFICES ASSUME IInv, [Next]_vars PROVE IInv'
    OBVIOUS
  <1>1. CASE UNCHANGED vars
    BY <1>1 DEF vars, planVars, vehicleVars, clientVars, taskVars, queryVars,
                IInv, TypeOK, StagesInv, DroppedInv, PatientInv, SuccessInv,
                PatientClientIsSafe, FinishedMeansLanded, ResultIsReal
  <1>2. CASE \E p \in Plans : SetWaypointItems(p)
    BY <1>2, SetWaypointItemsStep
  <1>3. CASE StartMission
    BY <1>3, GetMainTaskStep, QuitQueryStep, FreeImplStep, JoinTaskStep,
       ExecuteStep DEF StartMission
  <1>4. CASE Pause \/ Resume \/ Stop
    BY <1>4, ControlStep
  <1>5. CASE Return2Home
    BY <1>5, Return2HomeStep
  <1>6. CASE \E t \in Tasks : TaskStep(t)
    BY <1>6, UploadStep, ArmStep, BeginStep, WaitStep, ReadStep DEF TaskStep
  <1>7. CASE \E t \in Tasks : QueryStep(t)
    BY <1>7, StopWatchingStep, NotifyFinishStep, SignalStep DEF QueryStep
  <1>8. CASE Disarm
    BY <1>8, DisarmStep
  <1>9. CASE \E t \in Tasks : UseFreedImpl(t)
    BY <1>9, UseFreedImplStep
  <1>10. QED
    BY <1>1, <1>2, <1>3, <1>4, <1>5, <1>6, <1>7, <1>8, <1>9
       DEF Next, Step, Halt

\* It holds initially.
LEMMA InvInit == Init => IInv
  <1> SUFFICES ASSUME Init PROVE IInv
    OBVIOUS
  <1>1. TypeOK
    <2>1. items \in Seq(Plans) /\ uploaded \in Seq(Plans)
      BY DEF Init
    <2>2. quit \in SUBSET Tasks /\ freed \in SUBSET Tasks
          /\ landed \in SUBSET Tasks
      BY DEF Init
    <2>3. QED
      BY <2>1, <2>2 DEF Init, TypeOK, Modes, Stages, StageRstType
  <1>2. StagesInv /\ DroppedInv /\ PatientInv /\ SuccessInv
    BY ConstantsAssumption
       DEF Init, StagesInv, DroppedInv, PatientInv, SuccessInv
  <1>3. PatientClientIsSafe /\ FinishedMeansLanded /\ ResultIsReal
    BY DEF Init, PatientClientIsSafe, FinishedMeansLanded, ResultIsReal
  <1>4. QED
    BY <1>1, <1>2, <1>3 DEF IInv

\* The inductive invariant holds for any number of missions.
THEOREM Invariance == Spec => []IInv
  BY InvInit, InvStep, PTL DEF Spec

\* A mission reported as finished has landed, or was replaced by the client.
THEOREM FinishedLanded == Spec => []FinishedMeansLanded
  <1>1. IInv => FinishedMeansLanded
    BY DEF IInv
  <1>2. QED
    BY <1>1, Invariance, PTL

\* A client that waits for the results, and is not refused the return home while
\* it waits, never meets freed memory or a result that is assigned while it is
\* copied.
THEOREM PatientSafe == Spec => []PatientClientIsSafe
  <1>1. IInv => PatientClientIsSafe
    BY DEF IInv
  <1>2. QED
    BY <1>1, Invariance, PTL

\* Every mission that is over has reported a real result, once.
THEOREM RealResult == Spec => []ResultIsReal
  <1>1. IInv => ResultIsReal
    BY DEF IInv
  <1>2. QED
    BY <1>1, Invariance, PTL
-----------------------------------------------------------------------------
(* The refinement of MissionTask.                                          *)

\* A step of one task's thread moves the place of that task.
LEMMA PlaceMoves ==
    ASSUME NEW u \in Tasks, NEW s, stage \in [Tasks -> Stages],
           stage' = [stage EXCEPT ![u] = s]
    PROVE  Places' = [Places EXCEPT ![u] = PlaceOf(s)]
  <1>1. \A t \in Tasks : stage'[t] = IF t = u THEN s ELSE stage[t]
    OBVIOUS
  <1>2. Places' = [t \in Tasks |-> PlaceOf(stage'[t])]
    BY DEF Places
  <1>3. \A t \in Tasks : PlaceOf(stage'[t]) =
                            IF t = u THEN PlaceOf(s) ELSE PlaceOf(stage[t])
    BY <1>1
  <1>4. QED
    BY <1>2, <1>3 DEF Places

\* A step between two stages of one place is hidden from the listener.
LEMMA PlaceStays ==
    ASSUME NEW u \in Tasks, NEW s, stage \in [Tasks -> Stages],
           stage' = [stage EXCEPT ![u] = s], PlaceOf(s) = PlaceOf(stage[u])
    PROVE  Places' = Places
  <1>1. Places' = [Places EXCEPT ![u] = PlaceOf(s)]
    BY PlaceMoves
  <1>2. QED
    BY <1>1 DEF Places

\* A step that leaves stages and results alone is a stutter of the contract.
LEMMA ContractStutter ==
    ASSUME UNCHANGED <<stage, start, exec>>
    PROVE  UNCHANGED Task!vars
  BY DEF Task!vars, Places

\* A task that refuses to start reports the failure.
LEMMA RefuseReports ==
    ASSUME NEW u \in Tasks, stage \in [Tasks -> Stages],
           PlaceOf(stage[u]) = "starting", Refuse(u), exec' = exec
    PROVE  Task!StartFinished(u, "FAILED")
  <1>1. Places' = [Places EXCEPT ![u] = PlaceOf("over")]
    BY PlaceMoves DEF Refuse
  <1>2. PlaceOf("over") = "over" /\ Places[u] = "starting"
    BY DEF PlaceOf, Places
  <1>3. QED
    BY <1>1, <1>2 DEF Refuse, Task!StartFinished

\* Every step of the mission is a step of the contract, or hidden from it.
LEMMA ContractStep == IInv /\ [Next]_vars => [Task!Next]_(Task!vars)
  <1> SUFFICES ASSUME IInv, [Next]_vars PROVE [Task!Next]_(Task!vars)
    OBVIOUS
  <1>1. stage \in [Tasks -> Stages]
    BY DEF IInv, TypeOK
  <1>2. CASE UNCHANGED vars
    BY <1>2, ContractStutter DEF vars, taskVars
  <1>3. CASE \/ \E p \in Plans : SetWaypointItems(p)
             \/ QuitQuery \/ FreeImpl \/ JoinTask
             \/ Pause \/ Resume \/ Stop \/ Return2Home \/ Disarm
             \/ \E t \in Tasks : QueryStep(t) \/ UseFreedImpl(t)
    <2>1. UNCHANGED <<stage, start, exec>>
      BY <1>3 DEF SetWaypointItems, QuitQuery, FreeImpl, JoinTask, Pause,
                  Resume, Stop, Control, Return2Home, Disarm, QueryStep,
                  StopWatching, NotifyFinish, NotifyMissionFinish, Signal,
                  UseFreedImpl, taskVars
    <2>2. QED
      BY <2>1, ContractStutter
  <1>4. ASSUME NEW u \in Tasks, GetMainTask(u) PROVE UNCHANGED Task!vars
    <2>1. Places' = Places
      BY <1>1, <1>4, PlaceStays DEF GetMainTask, PlaceOf
    <2>2. QED
      BY <1>4, <2>1 DEF GetMainTask, Task!vars
  <1>5. ASSUME Execute PROVE \E t \in Tasks : Task!Execute(t)
    <2>1. current \in Tasks /\ stage[current] = "created"
      BY <1>5 DEF IInv, TypeOK, DroppedInv, Execute
    <2>2. Places' = [Places EXCEPT ![current] = PlaceOf("upload")]
      BY <1>1, <1>5, <2>1, PlaceMoves DEF Execute
    <2>3. PlaceOf("upload") = "starting" /\ Places[current] = "idle"
      BY <2>1 DEF PlaceOf, Places
    <2>4. Task!Execute(current)
      BY <1>5, <2>2, <2>3 DEF Execute, Task!Execute
    <2>5. QED
      BY <2>1, <2>4
  <1>6. ASSUME NEW u \in Tasks, Upload(u) \/ Arm(u) \/ Begin(u)
        PROVE  \/ UNCHANGED Task!vars
               \/ \E r \in {"SUCCESS", "FAILED"} : Task!StartFinished(u, r)
    <2>1. PlaceOf(stage[u]) = "starting" /\ exec' = exec
      BY <1>6 DEF Upload, Arm, Begin, PlaceOf
    <2>2. CASE Refuse(u)
      BY <1>1, <2>1, <2>2, RefuseReports
    <2>3. CASE \E s \in {"arm", "begin"} :
                   /\ stage' = [stage EXCEPT ![u] = s]
                   /\ start' = start
      <3>1. Places' = Places
        BY <1>1, <2>1, <2>3, PlaceStays DEF PlaceOf
      <3>2. QED
        BY <2>1, <2>3, <3>1 DEF Task!vars
    <2>4. CASE /\ stage' = [stage EXCEPT ![u] = "wait"]
               /\ start' = [start EXCEPT ![u] = "SUCCESS"]
      <3>1. Places' = [Places EXCEPT ![u] = PlaceOf("wait")]
        BY <1>1, <2>4, PlaceMoves
      <3>2. PlaceOf("wait") = "executing" /\ Places[u] = "starting"
        BY <2>1 DEF PlaceOf, Places
      <3>3. Task!StartFinished(u, "SUCCESS")
        BY <2>1, <2>4, <3>1, <3>2 DEF Task!StartFinished
      <3>4. QED
        BY <3>3
    <2>5. QED
      BY <1>6, <2>2, <2>3, <2>4 DEF Upload, Arm, Begin
  <1>7. ASSUME NEW u \in Tasks, Wait(u) PROVE UNCHANGED Task!vars
    <2>1. Places' = Places
      BY <1>1, <1>7, PlaceStays DEF Wait, PlaceOf
    <2>2. QED
      BY <1>7, <2>1 DEF Wait, Task!vars
  <1>8. ASSUME NEW u \in Tasks, Read(u)
        PROVE  \E r \in {"SUCCESS", "INTERRUPTTED"} :
                   Task!ExecutingFinished(u, r)
    <2>1. stageRst[u] \in {"SUCCESS", "INTERRUPTTED"}
      BY <1>8 DEF Read, IInv, TypeOK, StageRstType, StagesInv
    <2>2. Places' = [Places EXCEPT ![u] = PlaceOf("over")]
      BY <1>1, <1>8, PlaceMoves DEF Read
    <2>3. PlaceOf("over") = "over" /\ Places[u] = "executing"
      BY <1>8 DEF Read, PlaceOf, Places
    <2>4. Task!ExecutingFinished(u, stageRst[u])
      BY <1>8, <2>2, <2>3 DEF Read, Task!ExecutingFinished
    <2>5. QED
      BY <2>1, <2>4
  <1>9. QED
    BY <1>2, <1>3, <1>4, <1>5, <1>6, <1>7, <1>8
       DEF Next, Step, Halt, StartMission, TaskStep, Task!Next

\* The tasks of a MAVLink vehicle keep the contract of MissionTask: whatever
\* the query thread and the commands write at the same time, every task
\* reports a real result for each of its stages, once and in order.
THEOREM TaskRefinement == Spec => ImplementsTask
  <1>1. Init => Task!Init
    BY DEF Init, Task!Init, Places, PlaceOf
  <1>2. IInv /\ [Next]_vars => [Task!Next]_(Task!vars)
    BY ContractStep
  <1>3. QED
    BY <1>1, <1>2, Invariance, PTL DEF Spec, Task!Spec, ImplementsTask
=============================================================================
