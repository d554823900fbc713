----------------------- MODULE MissionInstanceProofs ------------------------
(***************************************************************************)
(* The inductive invariant IInv of MissionInstance, the safety properties  *)
(* that follow from it and the implementation of MissionLifecycle, for any *)
(* number of missions, download tasks and photos.                          *)
(***************************************************************************)
EXTENDS MissionInstance, FiniteSetTheorems, TLAPS

USE ConstantsAssumption DEF Tasks, Threads

\* Every step is one of the actions or changes nothing.
LEMMA StepCases ==
    ASSUME [Next]_vars
    PROVE  \/ StartMission \/ JoinDropped \/ ExecuteMain
           \/ \E t \in Tasks :
                 \/ StartStage(t) \/ OnMainStart(t) \/ OnSubStart(t)
                 \/ SettleStart(t) \/ ExecutingStage(t) \/ OnMainExec(t)
                 \/ OnSubExec(t) \/ SettleExec(t) \/ HandleSubtaskEvent(t)
                 \/ EndTask(t)
           \/ \E a \in Threads :
                 \/ CheckSubTask(a) \/ MarkNotHandled(a) \/ RunSubTask(a)
                 \/ ClearNotHandled(a)
           \/ TakeEvent \/ DeliverEvent \/ TakePhoto
           \/ UNCHANGED vars
  BY Zenon DEF Next, ClientStep, TaskStep, AddPhotoTask, LoopStep, Halt

-----------------------------------------------------------------------------
(* Types.                                                                  *)

\* Appending an event keeps the log a log and every index where it was.
LEMMA PostLog ==
    ASSUME log \in Seq(Events), NEW e \in Events, log' = Append(log, e)
    PROVE  /\ log' \in Seq(Events)
           /\ Len(log') = Len(log) + 1
           /\ DOMAIN log' = DOMAIN log \cup {Len(log) + 1}
           /\ \A i \in DOMAIN log : log'[i] = log[i]
           /\ log'[Len(log) + 1] = e
           /\ Len(log) + 1 \notin DOMAIN log
  OBVIOUS

\* The length of the log is a natural number and ends its domain.
LEMMA LenIsNat ==
    ASSUME log \in Seq(Events)
    PROVE  Len(log) \in Nat /\ DOMAIN log = 1 .. Len(log)
  OBVIOUS

\* Initially every variable has its type.
LEMMA TypeInit == Init => TypeOK
  <1> SUFFICES ASSUME Init PROVE TypeOK
    OBVIOUS
  <1>1. log \in Seq(Events) /\ delivered \in 0 .. Len(log)
    BY DEF Init
  <1>2. QED
    BY <1>1 DEF Init, TypeOK, InstanceState, TaskPlaces, AddPlaces, StageRstType

\* Every step keeps the types.
LEMMA TypeStep ==
    ASSUME TypeOK, LoopInv, ClientInv, [Next]_vars
    PROVE  TypeOK'
  <1> USE DEF TypeOK, Goto, TaskPlaces, AddPlaces, stateVars, mainVars, logVars,
              photoVars
  <1>1. CASE StartMission
    BY <1>1 DEF StartMission
  <1>2. CASE JoinDropped
    BY <1>2 DEF JoinDropped
  <1>3. CASE ExecuteMain
    BY <1>3 DEF ExecuteMain, ClientInv
  <1>4. ASSUME NEW t \in Tasks, StartStage(t) PROVE TypeOK'
    BY <1>4 DEF StartStage, StageRstType
  <1>5. ASSUME NEW t \in Tasks, OnMainStart(t) PROVE TypeOK'
    <2>1. PICK e \in Events : log' = Append(log, e)
      BY <1>5 DEF OnMainStart, Post, Event, Events, EventTypes
    <2>2. log' \in Seq(Events) /\ delivered' \in 0 .. Len(log')
      BY <2>1, <1>5, PostLog DEF OnMainStart
    <2>3. QED
      BY <2>2, <1>5 DEF OnMainStart, InstanceState
  <1>6. ASSUME NEW t \in Tasks, OnSubStart(t) PROVE TypeOK'
    BY <1>6 DEF OnSubStart
  <1>7. ASSUME NEW t \in Tasks, SettleStart(t) PROVE TypeOK'
    BY <1>7 DEF SettleStart, Settle, RealState, InstanceState
  <1>8. ASSUME NEW t \in Tasks, ExecutingStage(t) PROVE TypeOK'
    BY <1>8 DEF ExecutingStage, StageRstType
  <1>9. ASSUME NEW t \in Tasks, OnMainExec(t) PROVE TypeOK'
    <2>1. PICK e \in Events : log' = Append(log, e)
      BY <1>9 DEF OnMainExec, Post, Event, Events, EventTypes
    <2>2. log' \in Seq(Events) /\ delivered' \in 0 .. Len(log')
      BY <2>1, <1>9, PostLog DEF OnMainExec
    <2>3. QED
      BY <2>2, <1>9 DEF OnMainExec, InstanceState
  <1>10. ASSUME NEW t \in Tasks, OnSubExec(t) PROVE TypeOK'
    BY <1>10 DEF OnSubExec
  <1>11. ASSUME NEW t \in Tasks, SettleExec(t) PROVE TypeOK'
    BY <1>11 DEF SettleExec, Settle, RealState, InstanceState
  <1>12. ASSUME NEW t \in Tasks, HandleSubtaskEvent(t) PROVE TypeOK'
    BY <1>12 DEF HandleSubtaskEvent
  <1>13. ASSUME NEW t \in Tasks, EndTask(t) PROVE TypeOK'
    BY <1>13 DEF EndTask, StageRstType
  <1>14. ASSUME NEW a \in Threads, CheckSubTask(a) PROVE TypeOK'
    BY <1>14 DEF CheckSubTask, AfterAdd
  <1>15. ASSUME NEW a \in Threads, MarkNotHandled(a) PROVE TypeOK'
    BY <1>15 DEF MarkNotHandled, AfterAdd
  <1>16. ASSUME NEW a \in Threads, RunSubTask(a) PROVE TypeOK'
    BY <1>16 DEF RunSubTask
  <1>17. ASSUME NEW a \in Threads, ClearNotHandled(a) PROVE TypeOK'
    BY <1>17 DEF ClearNotHandled, AfterAdd
  <1>18. CASE TakeEvent
    BY <1>18 DEF TakeEvent
  <1>19. CASE DeliverEvent
    BY <1>19 DEF DeliverEvent, LoopInv
  <1>20. CASE TakePhoto
    <2>1. PICK e \in Events : log' = Append(log, e)
      BY <1>20 DEF TakePhoto, Post, Event, Events, EventTypes
    <2>2. log' \in Seq(Events) /\ delivered' \in 0 .. Len(log')
      BY <2>1, <1>20, PostLog DEF TakePhoto
    <2>3. QED
      BY <2>2, <1>20 DEF TakePhoto
  <1>21. CASE UNCHANGED vars
    BY <1>21 DEF vars
  <1>22. QED
    BY StepCases, <1>1, <1>2, <1>3, <1>4, <1>5, <1>6, <1>7, <1>8, <1>9, <1>10,
       <1>11, <1>12, <1>13, <1>14, <1>15, <1>16, <1>17, <1>18, <1>19, <1>20,
       <1>21
-----------------------------------------------------------------------------
(* Places, is_running, startMission and the locks.                         *)

\* Every thread stays within its own code.
LEMMA PlacesStep ==
    ASSUME TypeOK, PlacesInv, ClientInv, [Next]_vars
    PROVE  PlacesInv'
  <1> USE DEF TypeOK, PlacesInv, MainPlaces, SubPlaces, AddPlaces,
         Goto, stateVars, mainVars, logVars, photoVars
  <1>1. CASE StartMission
    BY <1>1 DEF StartMission
  <1>2. CASE JoinDropped
    BY <1>2 DEF JoinDropped
  <1>3. CASE ExecuteMain
    BY <1>3 DEF ExecuteMain, ClientInv
  <1>4. ASSUME NEW t \in Tasks, StartStage(t) PROVE PlacesInv'
    BY <1>4 DEF StartStage
  <1>5. ASSUME NEW t \in Tasks, OnMainStart(t) PROVE PlacesInv'
    BY <1>5 DEF OnMainStart
  <1>6. ASSUME NEW t \in Tasks, OnSubStart(t) PROVE PlacesInv'
    BY <1>6 DEF OnSubStart
  <1>7. ASSUME NEW t \in Tasks, SettleStart(t) PROVE PlacesInv'
    BY <1>7 DEF SettleStart, Settle
  <1>8. ASSUME NEW t \in Tasks, ExecutingStage(t) PROVE PlacesInv'
    BY <1>8 DEF ExecutingStage
  <1>9. ASSUME NEW t \in Tasks, OnMainExec(t) PROVE PlacesInv'
    BY <1>9 DEF OnMainExec
  <1>10. ASSUME NEW t \in Tasks, OnSubExec(t) PROVE PlacesInv'
    BY <1>10 DEF OnSubExec
  <1>11. ASSUME NEW t \in Tasks, SettleExec(t) PROVE PlacesInv'
    BY <1>11 DEF SettleExec, Settle
  <1>12. ASSUME NEW t \in Tasks, HandleSubtaskEvent(t) PROVE PlacesInv'
    BY <1>12 DEF HandleSubtaskEvent
  <1>13. ASSUME NEW t \in Tasks, EndTask(t) PROVE PlacesInv'
    BY <1>13 DEF EndTask
  <1>14. ASSUME NEW a \in Threads, CheckSubTask(a) PROVE PlacesInv'
    BY <1>14 DEF CheckSubTask, AfterAdd
  <1>15. ASSUME NEW a \in Threads, MarkNotHandled(a) PROVE PlacesInv'
    BY <1>15 DEF MarkNotHandled, AfterAdd
  <1>16. ASSUME NEW a \in Threads, RunSubTask(a) PROVE PlacesInv'
    BY <1>16 DEF RunSubTask
  <1>17. ASSUME NEW a \in Threads, ClearNotHandled(a) PROVE PlacesInv'
    BY <1>17 DEF ClearNotHandled, AfterAdd
  <1>18. CASE TakeEvent
    BY <1>18 DEF TakeEvent
  <1>19. CASE DeliverEvent
    BY <1>19 DEF DeliverEvent
  <1>20. CASE TakePhoto
    BY <1>20 DEF TakePhoto
  <1>21. CASE UNCHANGED vars
    BY <1>21 DEF vars
  <1>22. QED
    BY StepCases, <1>1, <1>2, <1>3, <1>4, <1>5, <1>6, <1>7, <1>8, <1>9,
       <1>10, <1>11, <1>12, <1>13, <1>14, <1>15, <1>16, <1>17, <1>18,
       <1>19, <1>20, <1>21

\* An event is popped only after it was dispatched.
LEMMA LoopStepInv ==
    ASSUME TypeOK, PlacesInv, LoopInv, ClientInv, [Next]_vars
    PROVE  LoopInv'
  <1> USE DEF TypeOK, LoopInv, ClientInv,
         Goto, stateVars, mainVars, logVars, photoVars
  <1>1. CASE StartMission
    BY <1>1 DEF StartMission
  <1>2. CASE JoinDropped
    BY <1>2 DEF JoinDropped
  <1>3. CASE ExecuteMain
    BY <1>3 DEF ExecuteMain
  <1>4. ASSUME NEW t \in Tasks, StartStage(t) PROVE LoopInv'
    BY <1>4 DEF StartStage
  <1>5. ASSUME NEW t \in Tasks, OnMainStart(t) PROVE LoopInv'
    <2>1. PICK e \in Events : log' = Append(log, e)
      BY <1>5 DEF OnMainStart, Post, Event, Events, EventTypes
    <2>2. Len(log') = Len(log) + 1
      BY <2>1, PostLog
    <2>3. QED
      BY <2>2, <1>5 DEF OnMainStart
  <1>6. ASSUME NEW t \in Tasks, OnSubStart(t) PROVE LoopInv'
    BY <1>6 DEF OnSubStart
  <1>7. ASSUME NEW t \in Tasks, SettleStart(t) PROVE LoopInv'
    BY <1>7 DEF SettleStart, Settle
  <1>8. ASSUME NEW t \in Tasks, ExecutingStage(t) PROVE LoopInv'
    BY <1>8 DEF ExecutingStage
  <1>9. ASSUME NEW t \in Tasks, OnMainExec(t) PROVE LoopInv'
    <2>1. PICK e \in Events : log' = Append(log, e)
      BY <1>9 DEF OnMainExec, Post, Event, Events, EventTypes
    <2>2. Len(log') = Len(log) + 1
      BY <2>1, PostLog
    <2>3. QED
      BY <2>2, <1>9 DEF OnMainExec
  <1>10. ASSUME NEW t \in Tasks, OnSubExec(t) PROVE LoopInv'
    BY <1>10 DEF OnSubExec
  <1>11. ASSUME NEW t \in Tasks, SettleExec(t) PROVE LoopInv'
    BY <1>11 DEF SettleExec, Settle
  <1>12. ASSUME NEW t \in Tasks, HandleSubtaskEvent(t) PROVE LoopInv'
    BY <1>12 DEF HandleSubtaskEvent
  <1>13. ASSUME NEW t \in Tasks, EndTask(t) PROVE LoopInv'
    BY <1>13 DEF EndTask
  <1>14. ASSUME NEW a \in Threads, CheckSubTask(a) PROVE LoopInv'
    BY <1>14 DEF CheckSubTask, AfterAdd
  <1>15. ASSUME NEW a \in Threads, MarkNotHandled(a) PROVE LoopInv'
    BY <1>15 DEF MarkNotHandled, AfterAdd
  <1>16. ASSUME NEW a \in Threads, RunSubTask(a) PROVE LoopInv'
    BY <1>16 DEF RunSubTask
  <1>17. ASSUME NEW a \in Threads, ClearNotHandled(a) PROVE LoopInv'
    BY <1>17 DEF ClearNotHandled, AfterAdd
  <1>18. CASE TakeEvent
    BY <1>18 DEF TakeEvent
  <1>19. CASE DeliverEvent
    BY <1>19 DEF DeliverEvent
  <1>20. CASE TakePhoto
    <2>1. PICK e \in Events : log' = Append(log, e)
      BY <1>20 DEF TakePhoto, Post, Event, Events, EventTypes
    <2>2. Len(log') = Len(log) + 1
      BY <2>1, PostLog
    <2>3. QED
      BY <2>2, <1>20 DEF TakePhoto
  <1>21. CASE UNCHANGED vars
    BY <1>21 DEF vars
  <1>22. QED
    BY StepCases, <1>1, <1>2, <1>3, <1>4, <1>5, <1>6, <1>7, <1>8, <1>9,
       <1>10, <1>11, <1>12, <1>13, <1>14, <1>15, <1>16, <1>17, <1>18,
       <1>19, <1>20, <1>21

\* is_running is set and cleared with the life of the thread.
LEMMA RunningStep ==
    ASSUME TypeOK, PlacesInv, RunningInv, ClientInv, [Next]_vars
    PROVE  RunningInv'
  <1> USE DEF PlacesInv, MainPlaces, SubPlaces, AddPlaces, TypeOK, RunningInv,
         Goto, stateVars, mainVars, logVars, photoVars
  <1>1. CASE StartMission
    BY <1>1 DEF StartMission
  <1>2. CASE JoinDropped
    BY <1>2 DEF JoinDropped
  <1>3. CASE ExecuteMain
    BY <1>3 DEF ExecuteMain, ClientInv
  <1>4. ASSUME NEW t \in Tasks, StartStage(t) PROVE RunningInv'
    BY <1>4 DEF StartStage
  <1>5. ASSUME NEW t \in Tasks, OnMainStart(t) PROVE RunningInv'
    BY <1>5 DEF OnMainStart
  <1>6. ASSUME NEW t \in Tasks, OnSubStart(t) PROVE RunningInv'
    BY <1>6 DEF OnSubStart
  <1>7. ASSUME NEW t \in Tasks, SettleStart(t) PROVE RunningInv'
    BY <1>7 DEF SettleStart, Settle
  <1>8. ASSUME NEW t \in Tasks, ExecutingStage(t) PROVE RunningInv'
    BY <1>8 DEF ExecutingStage
  <1>9. ASSUME NEW t \in Tasks, OnMainExec(t) PROVE RunningInv'
    BY <1>9 DEF OnMainExec
  <1>10. ASSUME NEW t \in Tasks, OnSubExec(t) PROVE RunningInv'
    BY <1>10 DEF OnSubExec
  <1>11. ASSUME NEW t \in Tasks, SettleExec(t) PROVE RunningInv'
    BY <1>11 DEF SettleExec, Settle
  <1>12. ASSUME NEW t \in Tasks, HandleSubtaskEvent(t) PROVE RunningInv'
    BY <1>12 DEF HandleSubtaskEvent
  <1>13. ASSUME NEW t \in Tasks, EndTask(t) PROVE RunningInv'
    BY <1>13 DEF EndTask
  <1>14. ASSUME NEW a \in Threads, CheckSubTask(a) PROVE RunningInv'
    BY <1>14 DEF CheckSubTask, AfterAdd
  <1>15. ASSUME NEW a \in Threads, MarkNotHandled(a) PROVE RunningInv'
    BY <1>15 DEF MarkNotHandled, AfterAdd
  <1>16. ASSUME NEW a \in Threads, RunSubTask(a) PROVE RunningInv'
    BY <1>16 DEF RunSubTask
  <1>17. ASSUME NEW a \in Threads, ClearNotHandled(a) PROVE RunningInv'
    BY <1>17 DEF ClearNotHandled, AfterAdd
  <1>18. CASE TakeEvent
    BY <1>18 DEF TakeEvent
  <1>19. CASE DeliverEvent
    BY <1>19 DEF DeliverEvent
  <1>20. CASE TakePhoto
    BY <1>20 DEF TakePhoto
  <1>21. CASE UNCHANGED vars
    BY <1>21 DEF vars
  <1>22. QED
    BY StepCases, <1>1, <1>2, <1>3, <1>4, <1>5, <1>6, <1>7, <1>8, <1>9,
       <1>10, <1>11, <1>12, <1>13, <1>14, <1>15, <1>16, <1>17, <1>18,
       <1>19, <1>20, <1>21

\* startMission keeps at most one main task running.
LEMMA ClientStepInv ==
    ASSUME TypeOK, PlacesInv, RunningInv, ClientInv, [Next]_vars
    PROVE  ClientInv'
  <1> USE DEF PlacesInv, MainPlaces, AddPlaces, TypeOK, ClientInv, RunningInv,
         Goto, stateVars, mainVars, logVars, photoVars
  <1>1. CASE StartMission
    BY <1>1 DEF StartMission
  <1>2. CASE JoinDropped
    BY <1>2 DEF JoinDropped
  <1>3. CASE ExecuteMain
    BY <1>3 DEF ExecuteMain
  <1>4. ASSUME NEW t \in Tasks, StartStage(t) PROVE ClientInv'
    BY <1>4 DEF StartStage
  <1>5. ASSUME NEW t \in Tasks, OnMainStart(t) PROVE ClientInv'
    BY <1>5 DEF OnMainStart
  <1>6. ASSUME NEW t \in Tasks, OnSubStart(t) PROVE ClientInv'
    BY <1>6 DEF OnSubStart
  <1>7. ASSUME NEW t \in Tasks, SettleStart(t) PROVE ClientInv'
    BY <1>7 DEF SettleStart, Settle
  <1>8. ASSUME NEW t \in Tasks, ExecutingStage(t) PROVE ClientInv'
    BY <1>8 DEF ExecutingStage
  <1>9. ASSUME NEW t \in Tasks, OnMainExec(t) PROVE ClientInv'
    BY <1>9 DEF OnMainExec
  <1>10. ASSUME NEW t \in Tasks, OnSubExec(t) PROVE ClientInv'
    BY <1>10 DEF OnSubExec
  <1>11. ASSUME NEW t \in Tasks, SettleExec(t) PROVE ClientInv'
    BY <1>11 DEF SettleExec, Settle
  <1>12. ASSUME NEW t \in Tasks, HandleSubtaskEvent(t) PROVE ClientInv'
    BY <1>12 DEF HandleSubtaskEvent
  <1>13. ASSUME NEW t \in Tasks, EndTask(t) PROVE ClientInv'
    BY <1>13 DEF EndTask
  <1>14. ASSUME NEW a \in Threads, CheckSubTask(a) PROVE ClientInv'
    BY <1>14 DEF CheckSubTask, AfterAdd
  <1>15. ASSUME NEW a \in Threads, MarkNotHandled(a) PROVE ClientInv'
    BY <1>15 DEF MarkNotHandled, AfterAdd
  <1>16. ASSUME NEW a \in Threads, RunSubTask(a) PROVE ClientInv'
    BY <1>16 DEF RunSubTask
  <1>17. ASSUME NEW a \in Threads, ClearNotHandled(a) PROVE ClientInv'
    BY <1>17 DEF ClearNotHandled, AfterAdd
  <1>18. CASE TakeEvent
    BY <1>18 DEF TakeEvent
  <1>19. CASE DeliverEvent
    BY <1>19 DEF DeliverEvent
  <1>20. CASE TakePhoto
    BY <1>20 DEF TakePhoto
  <1>21. CASE UNCHANGED vars
    BY <1>21 DEF vars
  <1>22. QED
    BY StepCases, <1>1, <1>2, <1>3, <1>4, <1>5, <1>6, <1>7, <1>8, <1>9,
       <1>10, <1>11, <1>12, <1>13, <1>14, <1>15, <1>16, <1>17, <1>18,
       <1>19, <1>20, <1>21

\* _state_mutex is taken by a handler and released by its settling.
LEMMA MutexStep ==
    ASSUME TypeOK, PlacesInv, ClientInv, MutexInv, [Next]_vars
    PROVE  MutexInv'
  <1> USE DEF TypeOK, MutexInv, ClientInv,
         Goto, stateVars, mainVars, logVars, photoVars
  <1>1. CASE StartMission
    BY <1>1 DEF StartMission
  <1>2. CASE JoinDropped
    BY <1>2 DEF JoinDropped
  <1>3. CASE ExecuteMain
    BY <1>3 DEF ExecuteMain
  <1>4. ASSUME NEW t \in Tasks, StartStage(t) PROVE MutexInv'
    BY <1>4 DEF StartStage
  <1>5. ASSUME NEW t \in Tasks, OnMainStart(t) PROVE MutexInv'
    BY <1>5 DEF OnMainStart
  <1>6. ASSUME NEW t \in Tasks, OnSubStart(t) PROVE MutexInv'
    BY <1>6 DEF OnSubStart
  <1>7. ASSUME NEW t \in Tasks, SettleStart(t) PROVE MutexInv'
    BY <1>7 DEF SettleStart, Settle
  <1>8. ASSUME NEW t \in Tasks, ExecutingStage(t) PROVE MutexInv'
    BY <1>8 DEF ExecutingStage
  <1>9. ASSUME NEW t \in Tasks, OnMainExec(t) PROVE MutexInv'
    BY <1>9 DEF OnMainExec
  <1>10. ASSUME NEW t \in Tasks, OnSubExec(t) PROVE MutexInv'
    BY <1>10 DEF OnSubExec
  <1>11. ASSUME NEW t \in Tasks, SettleExec(t) PROVE MutexInv'
    BY <1>11 DEF SettleExec, Settle
  <1>12. ASSUME NEW t \in Tasks, HandleSubtaskEvent(t) PROVE MutexInv'
    BY <1>12 DEF HandleSubtaskEvent
  <1>13. ASSUME NEW t \in Tasks, EndTask(t) PROVE MutexInv'
    BY <1>13 DEF EndTask
  <1>14. ASSUME NEW a \in Threads, CheckSubTask(a) PROVE MutexInv'
    BY <1>14 DEF CheckSubTask, AfterAdd
  <1>15. ASSUME NEW a \in Threads, MarkNotHandled(a) PROVE MutexInv'
    BY <1>15 DEF MarkNotHandled, AfterAdd
  <1>16. ASSUME NEW a \in Threads, RunSubTask(a) PROVE MutexInv'
    BY <1>16 DEF RunSubTask
  <1>17. ASSUME NEW a \in Threads, ClearNotHandled(a) PROVE MutexInv'
    BY <1>17 DEF ClearNotHandled, AfterAdd
  <1>18. CASE TakeEvent
    BY <1>18 DEF TakeEvent
  <1>19. CASE DeliverEvent
    BY <1>19 DEF DeliverEvent
  <1>20. CASE TakePhoto
    BY <1>20 DEF TakePhoto
  <1>21. CASE UNCHANGED vars
    BY <1>21 DEF vars
  <1>22. QED
    BY StepCases, <1>1, <1>2, <1>3, <1>4, <1>5, <1>6, <1>7, <1>8, <1>9,
       <1>10, <1>11, <1>12, <1>13, <1>14, <1>15, <1>16, <1>17, <1>18,
       <1>19, <1>20, <1>21

\* The map's entry stays the sub task at work.
LEMMA EntryStep ==
    ASSUME TypeOK, PlacesInv, RunningInv, ClientInv, EntryInv, [Next]_vars
    PROVE  EntryInv'
  <1> USE DEF TypeOK, PlacesInv, SubPlaces, MainPlaces, AddPlaces, EntryInv, AtWork,
         Goto, stateVars, mainVars, logVars, photoVars
  <1>1. CASE StartMission
    BY <1>1 DEF StartMission
  <1>2. CASE JoinDropped
    BY <1>2 DEF JoinDropped
  <1>3. CASE ExecuteMain
    BY <1>3 DEF ExecuteMain, ClientInv
  <1>4. ASSUME NEW t \in Tasks, StartStage(t) PROVE EntryInv'
    BY <1>4 DEF StartStage
  <1>5. ASSUME NEW t \in Tasks, OnMainStart(t) PROVE EntryInv'
    BY <1>5 DEF OnMainStart
  <1>6. ASSUME NEW t \in Tasks, OnSubStart(t) PROVE EntryInv'
    BY <1>6 DEF OnSubStart
  <1>7. ASSUME NEW t \in Tasks, SettleStart(t) PROVE EntryInv'
    BY <1>7 DEF SettleStart, Settle
  <1>8. ASSUME NEW t \in Tasks, ExecutingStage(t) PROVE EntryInv'
    BY <1>8 DEF ExecutingStage
  <1>9. ASSUME NEW t \in Tasks, OnMainExec(t) PROVE EntryInv'
    BY <1>9 DEF OnMainExec
  <1>10. ASSUME NEW t \in Tasks, OnSubExec(t) PROVE EntryInv'
    BY <1>10 DEF OnSubExec
  <1>11. ASSUME NEW t \in Tasks, SettleExec(t) PROVE EntryInv'
    BY <1>11 DEF SettleExec, Settle
  <1>12. ASSUME NEW t \in Tasks, HandleSubtaskEvent(t) PROVE EntryInv'
    BY <1>12 DEF HandleSubtaskEvent
  <1>13. ASSUME NEW t \in Tasks, EndTask(t) PROVE EntryInv'
    BY <1>13 DEF EndTask
  <1>14. ASSUME NEW a \in Threads, CheckSubTask(a) PROVE EntryInv'
    BY <1>14 DEF CheckSubTask, AfterAdd
  <1>15. ASSUME NEW a \in Threads, MarkNotHandled(a) PROVE EntryInv'
    BY <1>15 DEF MarkNotHandled, AfterAdd
  <1>16. ASSUME NEW a \in Threads, RunSubTask(a) PROVE EntryInv'
    BY <1>16 DEF RunSubTask, RunningInv
  <1>17. ASSUME NEW a \in Threads, ClearNotHandled(a) PROVE EntryInv'
    BY <1>17 DEF ClearNotHandled, AfterAdd
  <1>18. CASE TakeEvent
    BY <1>18 DEF TakeEvent
  <1>19. CASE DeliverEvent
    BY <1>19 DEF DeliverEvent
  <1>20. CASE TakePhoto
    BY <1>20 DEF TakePhoto
  <1>21. CASE UNCHANGED vars
    BY <1>21 DEF vars
  <1>22. QED
    BY StepCases, <1>1, <1>2, <1>3, <1>4, <1>5, <1>6, <1>7, <1>8, <1>9,
       <1>10, <1>11, <1>12, <1>13, <1>14, <1>15, <1>16, <1>17, <1>18,
       <1>19, <1>20, <1>21
-----------------------------------------------------------------------------
(* What the state says and what the client was told.                       *)

\* FINISHED_WITH_SUBTASK is not said of an instance without sub task.
LEMMA FinishedStep ==
    ASSUME TypeOK, FinishedWithSubtaskIsTrue, [Next]_vars
    PROVE  FinishedWithSubtaskIsTrue'
  <1> USE DEF TypeOK, FinishedWithSubtaskIsTrue,
         Goto, stateVars, mainVars, logVars, photoVars
  <1>1. CASE StartMission
    BY <1>1 DEF StartMission
  <1>2. CASE JoinDropped
    BY <1>2 DEF JoinDropped
  <1>3. CASE ExecuteMain
    BY <1>3 DEF ExecuteMain
  <1>4. ASSUME NEW t \in Tasks, StartStage(t) PROVE FinishedWithSubtaskIsTrue'
    BY <1>4 DEF StartStage
  <1>5. ASSUME NEW t \in Tasks, OnMainStart(t) PROVE FinishedWithSubtaskIsTrue'
    BY <1>5 DEF OnMainStart
  <1>6. ASSUME NEW t \in Tasks, OnSubStart(t) PROVE FinishedWithSubtaskIsTrue'
    BY <1>6 DEF OnSubStart
  <1>7. ASSUME NEW t \in Tasks, SettleStart(t) PROVE FinishedWithSubtaskIsTrue'
    BY <1>7 DEF SettleStart, Settle, RealState
  <1>8. ASSUME NEW t \in Tasks, ExecutingStage(t) PROVE FinishedWithSubtaskIsTrue'
    BY <1>8 DEF ExecutingStage
  <1>9. ASSUME NEW t \in Tasks, OnMainExec(t) PROVE FinishedWithSubtaskIsTrue'
    BY <1>9 DEF OnMainExec
  <1>10. ASSUME NEW t \in Tasks, OnSubExec(t) PROVE FinishedWithSubtaskIsTrue'
    BY <1>10 DEF OnSubExec
  <1>11. ASSUME NEW t \in Tasks, SettleExec(t) PROVE FinishedWithSubtaskIsTrue'
    BY <1>11 DEF SettleExec, Settle, RealState
  <1>12. ASSUME NEW t \in Tasks, HandleSubtaskEvent(t) PROVE FinishedWithSubtaskIsTrue'
    BY <1>12 DEF HandleSubtaskEvent
  <1>13. ASSUME NEW t \in Tasks, EndTask(t) PROVE FinishedWithSubtaskIsTrue'
    BY <1>13 DEF EndTask
  <1>14. ASSUME NEW a \in Threads, CheckSubTask(a) PROVE FinishedWithSubtaskIsTrue'
    BY <1>14 DEF CheckSubTask, AfterAdd
  <1>15. ASSUME NEW a \in Threads, MarkNotHandled(a) PROVE FinishedWithSubtaskIsTrue'
    BY <1>15 DEF MarkNotHandled, AfterAdd
  <1>16. ASSUME NEW a \in Threads, RunSubTask(a) PROVE FinishedWithSubtaskIsTrue'
    BY <1>16 DEF RunSubTask
  <1>17. ASSUME NEW a \in Threads, ClearNotHandled(a) PROVE FinishedWithSubtaskIsTrue'
    BY <1>17 DEF ClearNotHandled, AfterAdd
  <1>18. CASE TakeEvent
    BY <1>18 DEF TakeEvent
  <1>19. CASE DeliverEvent
    BY <1>19 DEF DeliverEvent
  <1>20. CASE TakePhoto
    BY <1>20 DEF TakePhoto
  <1>21. CASE UNCHANGED vars
    BY <1>21 DEF vars
  <1>22. QED
    BY StepCases, <1>1, <1>2, <1>3, <1>4, <1>5, <1>6, <1>7, <1>8, <1>9,
       <1>10, <1>11, <1>12, <1>13, <1>14, <1>15, <1>16, <1>17, <1>18,
       <1>19, <1>20, <1>21

\* The callback is told every settled change.
LEMMA ToldStep ==
    ASSUME TypeOK, ToldInv, [Next]_vars
    PROVE  ToldInv'
  <1> USE DEF TypeOK, ToldInv,
         Goto, stateVars, mainVars, logVars, photoVars
  <1>1. CASE StartMission
    BY <1>1 DEF StartMission
  <1>2. CASE JoinDropped
    BY <1>2 DEF JoinDropped
  <1>3. CASE ExecuteMain
    BY <1>3 DEF ExecuteMain
  <1>4. ASSUME NEW t \in Tasks, StartStage(t) PROVE ToldInv'
    BY <1>4 DEF StartStage
  <1>5. ASSUME NEW t \in Tasks, OnMainStart(t) PROVE ToldInv'
    BY <1>5 DEF OnMainStart
  <1>6. ASSUME NEW t \in Tasks, OnSubStart(t) PROVE ToldInv'
    BY <1>6 DEF OnSubStart
  <1>7. ASSUME NEW t \in Tasks, SettleStart(t) PROVE ToldInv'
    BY <1>7 DEF SettleStart, Settle, RealState
  <1>8. ASSUME NEW t \in Tasks, ExecutingStage(t) PROVE ToldInv'
    BY <1>8 DEF ExecutingStage
  <1>9. ASSUME NEW t \in Tasks, OnMainExec(t) PROVE ToldInv'
    BY <1>9 DEF OnMainExec
  <1>10. ASSUME NEW t \in Tasks, OnSubExec(t) PROVE ToldInv'
    BY <1>10 DEF OnSubExec
  <1>11. ASSUME NEW t \in Tasks, SettleExec(t) PROVE ToldInv'
    BY <1>11 DEF SettleExec, Settle, RealState
  <1>12. ASSUME NEW t \in Tasks, HandleSubtaskEvent(t) PROVE ToldInv'
    BY <1>12 DEF HandleSubtaskEvent
  <1>13. ASSUME NEW t \in Tasks, EndTask(t) PROVE ToldInv'
    BY <1>13 DEF EndTask
  <1>14. ASSUME NEW a \in Threads, CheckSubTask(a) PROVE ToldInv'
    BY <1>14 DEF CheckSubTask, AfterAdd
  <1>15. ASSUME NEW a \in Threads, MarkNotHandled(a) PROVE ToldInv'
    BY <1>15 DEF MarkNotHandled, AfterAdd
  <1>16. ASSUME NEW a \in Threads, RunSubTask(a) PROVE ToldInv'
    BY <1>16 DEF RunSubTask
  <1>17. ASSUME NEW a \in Threads, ClearNotHandled(a) PROVE ToldInv'
    BY <1>17 DEF ClearNotHandled, AfterAdd
  <1>18. CASE TakeEvent
    BY <1>18 DEF TakeEvent
  <1>19. CASE DeliverEvent
    BY <1>19 DEF DeliverEvent
  <1>20. CASE TakePhoto
    BY <1>20 DEF TakePhoto
  <1>21. CASE UNCHANGED vars
    BY <1>21 DEF vars
  <1>22. QED
    BY StepCases, <1>1, <1>2, <1>3, <1>4, <1>5, <1>6, <1>7, <1>8, <1>9,
       <1>10, <1>11, <1>12, <1>13, <1>14, <1>15, <1>16, <1>17, <1>18,
       <1>19, <1>20, <1>21

\* The log says of every main task what its thread has reported.
LEMMA LogStep ==
    ASSUME TypeOK, PlacesInv, RunningInv, ClientInv, MutexInv, LogInv, [Next]_vars
    PROVE  LogInv'
  <1> USE DEF TypeOK, PlacesInv, MainPlaces, SubPlaces, AddPlaces, LogInv, Flying,
         Goto, stateVars, mainVars, logVars, photoVars
  <1>1. CASE StartMission
    BY <1>1 DEF StartMission
  <1>2. CASE JoinDropped
    BY <1>2 DEF JoinDropped
  <1>3. CASE ExecuteMain
    <2>1. mainTask \in MainTasks /\ pc[mainTask] = "created"
      BY <1>3 DEF ExecuteMain, ClientInv
    <2>2. \A u \in MainTasks : Flying(u)' <=> Flying(u)
      BY <2>1, <1>3 DEF ExecuteMain
    <2>3. QED
      BY <2>1, <2>2, <1>3 DEF ExecuteMain
  <1>4. ASSUME NEW t \in Tasks, StartStage(t) PROVE LogInv'
    BY <1>4 DEF StartStage
  <1>5. ASSUME NEW t \in Tasks, OnMainStart(t) PROVE LogInv'
    <2>1. PICK e \in Events : /\ log' = Append(log, e)
                              /\ e.task = t
                              /\ rst[t] = "SUCCESS" => e = Event("Started", t)
      BY <1>5 DEF OnMainStart, Post, Event, Events, EventTypes
    <2> log \in Seq(Events)
      OBVIOUS
    <2>2. /\ DOMAIN log' = DOMAIN log \cup {Len(log) + 1}
          /\ \A i \in DOMAIN log : log'[i] = log[i]
          /\ log'[Len(log) + 1] = e
      BY ONLY <2>1, log \in Seq(Events), PostLog
    <2>3. \A u \in MainTasks : u # t => ~Flying(u) /\ ~Flying(u)'
      BY <1>5 DEF OnMainStart, RunningInv, ClientInv
    <2>4. Flying(t)' <=> rst[t] = "SUCCESS"
      BY <1>5 DEF OnMainStart
    <2>5. state' = "EXECUTING" <=> rst[t] = "SUCCESS"
      BY <1>5 DEF OnMainStart
    <2>6. (state = "EXECUTING")' <=> \E u \in MainTasks : Flying(u)'
      BY <2>3, <2>4, <2>5, <1>5 DEF OnMainStart
    <2>7. ASSUME NEW u \in MainTasks,
                 pc'[u] \in {"new", "created", "start", "onStart"}
          PROVE  \A i \in DOMAIN log' : log'[i].task # u
      <3>1. u # t /\ pc[u] \in {"new", "created", "start", "onStart"}
        BY <2>7, <1>5 DEF OnMainStart
      <3>2. QED
        BY <3>1, <2>1, <2>2
    <2>8. ASSUME NEW u \in MainTasks, Flying(u)'
          PROVE  /\ \E i \in DOMAIN log' : log'[i] = Event("Started", u)
                 /\ \A i \in DOMAIN log' :
                        log'[i].task = u => log'[i].type = "Started"
      <3>1. u = t /\ e = Event("Started", t)
        BY <2>1, <2>3, <2>4, <2>8
      <3>2. \A i \in DOMAIN log : log[i].task # t
        BY <1>5 DEF OnMainStart
      <3>3. QED
        BY <3>1, <3>2, <2>2 DEF Event
    <2>9. QED
      BY <2>6, <2>7, <2>8, <1>5 DEF OnMainStart, Event
  <1>6. ASSUME NEW t \in Tasks, OnSubStart(t) PROVE LogInv'
    BY <1>6 DEF OnSubStart
  <1>7. ASSUME NEW t \in Tasks, SettleStart(t) PROVE LogInv'
    BY <1>7 DEF SettleStart, Settle, RealState
  <1>8. ASSUME NEW t \in Tasks, ExecutingStage(t) PROVE LogInv'
    BY <1>8 DEF ExecutingStage
  <1>9. ASSUME NEW t \in Tasks, OnMainExec(t) PROVE LogInv'
    <2>1. PICK e \in Events : log' = Append(log, e) /\ e.task = t
      BY <1>9 DEF OnMainExec, Post, Event, Events, EventTypes
    <2> log \in Seq(Events)
      OBVIOUS
    <2>2. /\ DOMAIN log' = DOMAIN log \cup {Len(log) + 1}
          /\ \A i \in DOMAIN log : log'[i] = log[i]
          /\ log'[Len(log) + 1] = e
      BY ONLY <2>1, log \in Seq(Events), PostLog
    <2>3. \A u \in MainTasks : ~Flying(u)'
      BY <1>9 DEF OnMainExec, RunningInv, ClientInv
    <2>4. state' \in {"FINISHED", "FAILED"}
      BY <1>9 DEF OnMainExec
    <2>5. ASSUME NEW u \in MainTasks,
                 pc'[u] \in {"new", "created", "start", "onStart"}
          PROVE  \A i \in DOMAIN log' : log'[i].task # u
      <3>1. u # t /\ pc[u] \in {"new", "created", "start", "onStart"}
        BY <2>5, <1>9 DEF OnMainExec
      <3>2. QED
        BY <3>1, <2>1, <2>2
    <2>6. QED
      BY <2>3, <2>4, <2>5
  <1>10. ASSUME NEW t \in Tasks, OnSubExec(t) PROVE LogInv'
    BY <1>10 DEF OnSubExec
  <1>11. ASSUME NEW t \in Tasks, SettleExec(t) PROVE LogInv'
    BY <1>11 DEF SettleExec, Settle, RealState
  <1>12. ASSUME NEW t \in Tasks, HandleSubtaskEvent(t) PROVE LogInv'
    BY <1>12 DEF HandleSubtaskEvent
  <1>13. ASSUME NEW t \in Tasks, EndTask(t) PROVE LogInv'
    BY <1>13 DEF EndTask
  <1>14. ASSUME NEW a \in Threads, CheckSubTask(a) PROVE LogInv'
    BY <1>14 DEF CheckSubTask, AfterAdd
  <1>15. ASSUME NEW a \in Threads, MarkNotHandled(a) PROVE LogInv'
    BY <1>15 DEF MarkNotHandled, AfterAdd
  <1>16. ASSUME NEW a \in Threads, RunSubTask(a) PROVE LogInv'
    BY <1>16 DEF RunSubTask
  <1>17. ASSUME NEW a \in Threads, ClearNotHandled(a) PROVE LogInv'
    BY <1>17 DEF ClearNotHandled, AfterAdd
  <1>18. CASE TakeEvent
    BY <1>18 DEF TakeEvent
  <1>19. CASE DeliverEvent
    BY <1>19 DEF DeliverEvent
  <1>20. CASE TakePhoto
    <2>1. PICK e \in Events : log' = Append(log, e) /\ e.task = NoTask
      BY <1>20 DEF TakePhoto, Post, Event, Events, EventTypes
    <2>2. /\ DOMAIN log' = DOMAIN log \cup {Len(log) + 1}
          /\ \A i \in DOMAIN log : log'[i] = log[i]
          /\ log'[Len(log) + 1] = e
      BY <2>1, PostLog DEF TakePhoto
    <2>3. \A u \in MainTasks : Flying(u)' <=> Flying(u)
      BY <1>20 DEF TakePhoto
    <2>4. ASSUME NEW u \in MainTasks,
                 \E i \in DOMAIN log : log[i] = Event("Started", u)
          PROVE  \E i \in DOMAIN log' : log'[i] = Event("Started", u)
      BY <2>2, <2>4
    <2>5. ASSUME NEW u \in MainTasks
          PROVE  /\ (\A i \in DOMAIN log : log[i].task # u) =>
                        \A i \in DOMAIN log' : log'[i].task # u
                 /\ (\A i \in DOMAIN log :
                        log[i].task = u => log[i].type = "Started") =>
                    \A i \in DOMAIN log' :
                        log'[i].task = u => log'[i].type = "Started"
      BY <2>1, <2>2
    <2>6. QED
      BY <2>3, <2>4, <2>5, <1>20 DEF TakePhoto, Event
  <1>21. CASE UNCHANGED vars
    BY <1>21 DEF vars
  <1>22. QED
    BY StepCases, <1>1, <1>2, <1>3, <1>4, <1>5, <1>6, <1>7, <1>8, <1>9,
       <1>10, <1>11, <1>12, <1>13, <1>14, <1>15, <1>16, <1>17, <1>18,
       <1>19, <1>20, <1>21

\* The state follows the last report.
LEMMA StateStep ==
    ASSUME TypeOK, StateMatchesEvents, [Next]_vars
    PROVE  StateMatchesEvents'
  <1> USE DEF TypeOK, StateMatchesEvents, LastReport, StatesAfter,
         Goto, stateVars, mainVars, logVars, photoVars
  <1>1. CASE StartMission
    BY <1>1 DEF StartMission
  <1>2. CASE JoinDropped
    BY <1>2 DEF JoinDropped
  <1>3. CASE ExecuteMain
    BY <1>3 DEF ExecuteMain
  <1>4. ASSUME NEW t \in Tasks, StartStage(t) PROVE StateMatchesEvents'
    BY <1>4 DEF StartStage
  <1>5. ASSUME NEW t \in Tasks, OnMainStart(t) PROVE StateMatchesEvents'
    <2>1. PICK e \in Events : /\ log' = Append(log, e)
                              /\ e.type # "TakenPhoto"
                              /\ state' \in StatesAfter(e.type)
      BY <1>5 DEF OnMainStart, Post, Event, Events, EventTypes
    <2> log \in Seq(Events)
      OBVIOUS
    <2>2. PICK n \in Nat : n = Len(log) + 1
      OBVIOUS
    <2>3. DOMAIN log' = 1 .. n /\ log'[n] = e
      BY ONLY <2>1, <2>2, log \in Seq(Events), PostLog, LenIsNat
    <2>4. \A j \in DOMAIN log' : ~(j > n)
      BY ONLY <2>3, n \in Nat
    <2>5. n \in DOMAIN log' /\ LastReport(n)'
      BY ONLY <2>1, <2>2, <2>3, <2>4, log \in Seq(Events), LenIsNat
         DEF LastReport
    <2>6. QED
      BY ONLY <2>1, <2>3, <2>5 DEF StateMatchesEvents
  <1>6. ASSUME NEW t \in Tasks, OnSubStart(t) PROVE StateMatchesEvents'
    BY <1>6 DEF OnSubStart
  <1>7. ASSUME NEW t \in Tasks, SettleStart(t) PROVE StateMatchesEvents'
    <2>1. log' = log
      BY <1>7 DEF SettleStart, Settle
    <2>2. CASE state = "WAITTING" /\ \A i \in DOMAIN log : log[i].type = "TakenPhoto"
      BY <2>1, <2>2, <1>7 DEF SettleStart, Settle, RealState
    <2>3. ASSUME NEW i \in DOMAIN log,
                 LastReport(i), state \in StatesAfter(log[i].type)
          PROVE  StateMatchesEvents'
      <3>1. log[i] \in Events /\ log[i].type # "TakenPhoto"
        BY ONLY <2>3, i \in DOMAIN log, log \in Seq(Events) DEF LastReport
      <3>2. state' \in StatesAfter(log[i].type)
        BY <2>3, <3>1, <1>7
           DEF SettleStart, Settle, RealState, Events, EventTypes
      <3>3. QED
        BY <2>1, <2>3, <3>2
    <2>4. QED
      BY <2>2, <2>3
  <1>8. ASSUME NEW t \in Tasks, ExecutingStage(t) PROVE StateMatchesEvents'
    BY <1>8 DEF ExecutingStage
  <1>9. ASSUME NEW t \in Tasks, OnMainExec(t) PROVE StateMatchesEvents'
    <2>1. PICK e \in Events : /\ log' = Append(log, e)
                              /\ e.type # "TakenPhoto"
                              /\ state' \in StatesAfter(e.type)
      BY <1>9 DEF OnMainExec, Post, Event, Events, EventTypes
    <2> log \in Seq(Events)
      OBVIOUS
    <2>2. PICK n \in Nat : n = Len(log) + 1
      OBVIOUS
    <2>3. DOMAIN log' = 1 .. n /\ log'[n] = e
      BY ONLY <2>1, <2>2, log \in Seq(Events), PostLog, LenIsNat
    <2>4. \A j \in DOMAIN log' : ~(j > n)
      BY ONLY <2>3, n \in Nat
    <2>5. n \in DOMAIN log' /\ LastReport(n)'
      BY ONLY <2>1, <2>2, <2>3, <2>4, log \in Seq(Events), LenIsNat
         DEF LastReport
    <2>6. QED
      BY ONLY <2>1, <2>3, <2>5 DEF StateMatchesEvents
  <1>10. ASSUME NEW t \in Tasks, OnSubExec(t) PROVE StateMatchesEvents'
    BY <1>10 DEF OnSubExec
  <1>11. ASSUME NEW t \in Tasks, SettleExec(t) PROVE StateMatchesEvents'
    <2>1. log' = log
      BY <1>11 DEF SettleExec, Settle
    <2>2. CASE state = "WAITTING" /\ \A i \in DOMAIN log : log[i].type = "TakenPhoto"
      BY <2>1, <2>2, <1>11 DEF SettleExec, Settle, RealState
    <2>3. ASSUME NEW i \in DOMAIN log,
                 LastReport(i), state \in StatesAfter(log[i].type)
          PROVE  StateMatchesEvents'
      <3>1. log[i] \in Events /\ log[i].type # "TakenPhoto"
        BY ONLY <2>3, i \in DOMAIN log, log \in Seq(Events) DEF LastReport
      <3>2. state' \in StatesAfter(log[i].type)
        BY <2>3, <3>1, <1>11
           DEF SettleExec, Settle, RealState, Events, EventTypes
      <3>3. QED
        BY <2>1, <2>3, <3>2
    <2>4. QED
      BY <2>2, <2>3
  <1>12. ASSUME NEW t \in Tasks, HandleSubtaskEvent(t) PROVE StateMatchesEvents'
    BY <1>12 DEF HandleSubtaskEvent
  <1>13. ASSUME NEW t \in Tasks, EndTask(t) PROVE StateMatchesEvents'
    BY <1>13 DEF EndTask
  <1>14. ASSUME NEW a \in Threads, CheckSubTask(a) PROVE StateMatchesEvents'
    BY <1>14 DEF CheckSubTask, AfterAdd
  <1>15. ASSUME NEW a \in Threads, MarkNotHandled(a) PROVE StateMatchesEvents'
    BY <1>15 DEF MarkNotHandled, AfterAdd
  <1>16. ASSUME NEW a \in Threads, RunSubTask(a) PROVE StateMatchesEvents'
    BY <1>16 DEF RunSubTask
  <1>17. ASSUME NEW a \in Threads, ClearNotHandled(a) PROVE StateMatchesEvents'
    BY <1>17 DEF ClearNotHandled, AfterAdd
  <1>18. CASE TakeEvent
    BY <1>18 DEF TakeEvent
  <1>19. CASE DeliverEvent
    BY <1>19 DEF DeliverEvent
  <1>20. CASE TakePhoto
    <2>1. PICK e \in Events : log' = Append(log, e) /\ e.type = "TakenPhoto"
      BY <1>20 DEF TakePhoto, Post, Event, Events, EventTypes
    <2>2. CASE state = "WAITTING" /\ \A i \in DOMAIN log : log[i].type = "TakenPhoto"
      BY <2>1, <2>2, PostLog, <1>20 DEF TakePhoto
    <2>3. ASSUME NEW i \in DOMAIN log,
                 LastReport(i), state \in StatesAfter(log[i].type)
          PROVE  StateMatchesEvents'
      <3>1. log' \in Seq(Events) /\ DOMAIN log' = DOMAIN log \cup {Len(log) + 1}
            /\ (\A j \in DOMAIN log : log'[j] = log[j])
            /\ log'[Len(log) + 1].type = "TakenPhoto"
        BY ONLY <2>1, log \in Seq(Events), PostLog
      <3>2. LastReport(i)'
        BY ONLY <2>3, <3>1, i \in DOMAIN log DEF LastReport
      <3>3. state' = state
        BY <1>20 DEF TakePhoto
      <3>4. QED
        BY ONLY <2>3, <3>1, <3>2, <3>3, i \in DOMAIN log DEF StateMatchesEvents, StatesAfter
    <2>4. QED
      BY <2>2, <2>3
  <1>21. CASE UNCHANGED vars
    BY <1>21 DEF vars
  <1>22. QED
    BY StepCases, <1>1, <1>2, <1>3, <1>4, <1>5, <1>6, <1>7, <1>8, <1>9,
       <1>10, <1>11, <1>12, <1>13, <1>14, <1>15, <1>16, <1>17, <1>18,
       <1>19, <1>20, <1>21
-----------------------------------------------------------------------------
(* The invariant and what follows from it.                                 *)

\* The initial state satisfies the invariant.
LEMMA InvInit == Init => IInv
  <1> SUFFICES ASSUME Init PROVE IInv
    OBVIOUS
  <1>1. TypeOK
    BY TypeInit
  <1>2. PlacesInv /\ LoopInv
    BY DEF Init, PlacesInv, LoopInv, MainPlaces, SubPlaces
  <1>3. RunningInv /\ ClientInv /\ MutexInv /\ EntryInv
    BY DEF Init, RunningInv, ClientInv, MutexInv, EntryInv, AtWork
  <1>4. FinishedWithSubtaskIsTrue /\ ToldInv
    BY DEF Init, FinishedWithSubtaskIsTrue, ToldInv
  <1>5. LogInv /\ StateMatchesEvents
    BY DEF Init, LogInv, Flying, StateMatchesEvents
  <1>6. QED
    BY <1>1, <1>2, <1>3, <1>4, <1>5 DEF IInv

\* Every step keeps the invariant.
LEMMA InvStep == IInv /\ [Next]_vars => IInv'
  <1> SUFFICES ASSUME IInv, [Next]_vars PROVE IInv'
    OBVIOUS
  <1> USE DEF IInv
  <1>1. TypeOK'
    BY TypeStep
  <1>2. PlacesInv'
    BY PlacesStep
  <1>3. LoopInv'
    BY LoopStepInv
  <1>4. RunningInv'
    BY RunningStep
  <1>5. ClientInv'
    BY ClientStepInv
  <1>6. MutexInv'
    BY MutexStep
  <1>7. EntryInv'
    BY EntryStep
  <1>8. FinishedWithSubtaskIsTrue'
    BY FinishedStep
  <1>9. ToldInv'
    BY ToldStep
  <1>10. LogInv'
    BY LogStep
  <1>11. StateMatchesEvents'
    BY StateStep
  <1>12. QED
    BY <1>1, <1>2, <1>3, <1>4, <1>5, <1>6, <1>7, <1>8, <1>9, <1>10, <1>11

\* The inductive invariant holds in every reachable state, so every thread is
\* where its code can be and every variable has its type.
THEOREM Invariance == Spec => []IInv
  BY InvInit, InvStep, PTL DEF Spec

\* Type correctness of the proxy and its tasks.
THEOREM Typing == Spec => []TypeOK
  <1>1. IInv => TypeOK
    BY DEF IInv
  <1>2. QED
    BY <1>1, Invariance, PTL

\* Two main tasks never run at the same time, for any number of startMission
\* calls.
THEOREM OneMain == Spec => []OneMainAtATime
  <1>1. IInv => OneMainAtATime
    <2> SUFFICES ASSUME IInv PROVE OneMainAtATime
      OBVIOUS
    <2>1. \A t, u \in running \cap MainTasks : t = u
      BY DEF IInv, ClientInv
    <2>2. CASE running \cap MainTasks = {}
      BY <2>2, FS_EmptySet DEF OneMainAtATime
    <2>3. ASSUME NEW t \in running \cap MainTasks
          PROVE  OneMainAtATime
      <3>1. running \cap MainTasks = {t}
        BY <2>1
      <3>2. Cardinality({t}) = 1
        BY FS_Singleton
      <3>3. QED
        BY <3>1, <3>2 DEF OneMainAtATime
    <2>4. QED
      BY <2>2, <2>3
  <1>2. QED
    BY <1>1, Invariance, PTL

\* The task map registers exactly the download task at work, and it runs.
THEOREM EntryAtWork == Spec => []EntryIsTheTaskAtWork
  <1>1. IInv => EntryIsTheTaskAtWork
    BY DEF IInv, TypeOK, EntryInv, RunningInv, EntryIsTheTaskAtWork, AtWork
  <1>2. QED
    BY <1>1, Invariance, PTL

\* No entry of the task map is overwritten, so no task object is destroyed
\* while its thread runs.
THEOREM NoOverwrite == Spec => EntryNeverOverwritten
  <1>1. IInv /\ [Next]_vars =>
           [subTask # NoTask => subTask' \in {subTask, NoTask}]_vars
    <2> SUFFICES ASSUME IInv, [Next]_vars, subTask # NoTask
                 PROVE  subTask' \in {subTask, NoTask}
      BY DEF vars
    <2>1. subTask \in running
      BY DEF IInv, TypeOK, EntryInv, RunningInv, AtWork
    <2> USE DEF stateVars, mainVars, logVars, photoVars
    <2>2. ASSUME NEW a \in Threads, RunSubTask(a)
          PROVE  subTask' = subTask
      BY <2>1, <2>2 DEF RunSubTask
    <2>3. ASSUME NEW t \in Tasks,
                 \/ StartStage(t) \/ OnMainStart(t) \/ OnSubStart(t)
                 \/ SettleStart(t) \/ ExecutingStage(t) \/ OnMainExec(t)
                 \/ OnSubExec(t) \/ SettleExec(t) \/ HandleSubtaskEvent(t)
                 \/ EndTask(t)
          PROVE  subTask' \in {subTask, NoTask}
      BY <2>3 DEF StartStage, OnMainStart, OnSubStart, SettleStart,
                  ExecutingStage, OnMainExec, OnSubExec, SettleExec,
                  HandleSubtaskEvent, EndTask, Settle
    <2>4. ASSUME NEW a \in Threads,
                 CheckSubTask(a) \/ MarkNotHandled(a) \/ ClearNotHandled(a)
          PROVE  subTask' = subTask
      BY <2>4 DEF CheckSubTask, MarkNotHandled, ClearNotHandled
    <2>5. CASE \/ StartMission \/ JoinDropped \/ ExecuteMain
               \/ TakeEvent \/ DeliverEvent \/ TakePhoto \/ UNCHANGED vars
      BY <2>5 DEF StartMission, JoinDropped, ExecuteMain, TakeEvent,
                  DeliverEvent, TakePhoto, vars
    <2>6. QED
      BY StepCases, <2>2, <2>3, <2>4, <2>5
  <1>2. QED
    BY <1>1, Invariance, PTL DEF Spec, EntryNeverOverwritten

\* The client was told the settled state, and if that is
\* FINISHED_WITH_SUBTASK there is a sub task.
THEOREM SettledStates ==
    Spec => []ClientKnowsTheState
  <1>1. IInv => ClientKnowsTheState
    BY DEF IInv, ToldInv, ClientWasTold, ClientKnowsTheState
  <1>2. QED
    BY <1>1, Invariance, PTL

\* The state agrees with the last mission event posted.
THEOREM StateAndEvents == Spec => []StateMatchesEvents
  <1>1. IInv => StateMatchesEvents
    BY DEF IInv
  <1>2. QED
    BY <1>1, Invariance, PTL
-----------------------------------------------------------------------------
(* The proxy implements MissionLifecycle.                                  *)

\* Settling never changes the phase.
LEMMA SettlePhase ==
    ASSUME TypeOK, LogInv, Settle
    PROVE  Phase' = Phase
  BY DEF TypeOK, InstanceState, LogInv, Settle, RealState, Phase

\* A step that leaves state and log alone is a stutter of the lifecycle.
LEMMA LifecycleStutter ==
    ASSUME UNCHANGED <<state, log>>
    PROVE  UNCHANGED Lifecycle!vars
  BY DEF Lifecycle!vars, Phase

\* Every step of the proxy is a step of the lifecycle or a stutter.
LEMMA LifecycleStep ==
    ASSUME IInv, [Next]_vars
    PROVE  [Lifecycle!Next]_(Lifecycle!vars)
  <1> USE DEF stateVars, mainVars, logVars, photoVars
  <1>1. ASSUME NEW t \in Tasks, OnMainStart(t)
        PROVE  Lifecycle!Begin(t) \/ Lifecycle!Refuse(t)
    <2>1. t \in MainTasks /\ pc[t] = "onStart"
      BY <1>1 DEF OnMainStart
    <2>2. \A u \in MainTasks : ~Flying(u)
      BY <2>1 DEF IInv, RunningInv, ClientInv, Flying
    <2>3. state # "EXECUTING"
      BY <2>2 DEF IInv, LogInv
    <2>4. Phase # "executing"
      BY <2>3 DEF IInv, TypeOK, InstanceState, Phase
    <2>5. ~Lifecycle!Mentioned(log, t)
      BY <2>1 DEF IInv, LogInv, Lifecycle!Mentioned
    <2>6. CASE rst[t] = "SUCCESS"
      BY <1>1, <2>4, <2>5, <2>6
         DEF OnMainStart, Post, Event, Phase, Lifecycle!Begin, Lifecycle!Event
    <2>7. CASE rst[t] # "SUCCESS"
      BY <1>1, <2>4, <2>5, <2>7
         DEF OnMainStart, Post, Event, Phase, Lifecycle!Refuse, Lifecycle!Event
    <2>8. QED
      BY <2>6, <2>7
  <1>2. ASSUME NEW t \in Tasks, OnMainExec(t)
        PROVE  \E type \in Lifecycle!Ends : Lifecycle!End(t, type)
    <2>1. t \in MainTasks /\ Flying(t)
      BY <1>2 DEF OnMainExec, Flying
    <2>2. Phase = "executing"
      BY <2>1 DEF IInv, LogInv, Phase
    <2>3. Lifecycle!Posted(log, "Started", t)
      BY <2>1 DEF IInv, LogInv, Lifecycle!Posted, Lifecycle!Event, Event
    <2>4. \A e \in Lifecycle!Ends : ~Lifecycle!Posted(log, e, t)
      BY <2>1 DEF IInv, LogInv, Lifecycle!Posted, Lifecycle!Event,
                  Lifecycle!Ends
    <2>5. CASE rst[t] = "SUCCESS"
      <3>1. Lifecycle!End(t, "Finished")
        BY <1>2, <2>2, <2>3, <2>4, <2>5
           DEF OnMainExec, Post, Event, Phase, Lifecycle!End, Lifecycle!Event
      <3>2. QED
        BY <3>1 DEF Lifecycle!Ends
    <2>6. CASE rst[t] = "INTERRUPTTED"
      <3>1. Lifecycle!End(t, "Interrupted")
        BY <1>2, <2>2, <2>3, <2>4, <2>6
           DEF OnMainExec, Post, Event, Phase, Lifecycle!End, Lifecycle!Event
      <3>2. QED
        BY <3>1 DEF Lifecycle!Ends
    <2>7. CASE rst[t] \notin {"SUCCESS", "INTERRUPTTED"}
      <3>1. Lifecycle!End(t, "Failed")
        BY <1>2, <2>2, <2>3, <2>4, <2>7
           DEF OnMainExec, Post, Event, Phase, Lifecycle!End, Lifecycle!Event
      <3>2. QED
        BY <3>1 DEF Lifecycle!Ends
    <2>8. QED
      BY <2>5, <2>6, <2>7
  <1>3. CASE TakePhoto
    <2>1. Lifecycle!Photo
      BY <1>3
         DEF TakePhoto, stateVars, Post, Event, Phase, Lifecycle!Photo,
             Lifecycle!Event
    <2>2. QED
      BY <2>1 DEF Lifecycle!Next
  <1>4. ASSUME NEW t \in Tasks, SettleStart(t) \/ SettleExec(t)
        PROVE  UNCHANGED Lifecycle!vars
    <2>1. Settle /\ log' = log
      BY <1>4 DEF SettleStart, SettleExec, Settle
    <2>2. Phase' = Phase
      BY <2>1, SettlePhase DEF IInv
    <2>3. QED
      BY <2>1, <2>2 DEF Lifecycle!vars
  <1>5. ASSUME NEW t \in Tasks,
               \/ StartStage(t) \/ OnSubStart(t) \/ ExecutingStage(t)
               \/ OnSubExec(t) \/ HandleSubtaskEvent(t) \/ EndTask(t)
        PROVE  UNCHANGED Lifecycle!vars
    <2>1. UNCHANGED <<state, log>>
      BY <1>5 DEF StartStage, OnSubStart, ExecutingStage, OnSubExec,
                  HandleSubtaskEvent, EndTask
    <2>2. QED
      BY <2>1, LifecycleStutter
  <1>6. ASSUME NEW a \in Threads,
               \/ CheckSubTask(a) \/ MarkNotHandled(a) \/ RunSubTask(a)
               \/ ClearNotHandled(a)
        PROVE  UNCHANGED Lifecycle!vars
    <2>1. UNCHANGED <<state, log>>
      BY <1>6 DEF CheckSubTask, MarkNotHandled, RunSubTask, ClearNotHandled
    <2>2. QED
      BY <2>1, LifecycleStutter
  <1>7. CASE \/ StartMission \/ JoinDropped \/ ExecuteMain \/ TakeEvent
             \/ DeliverEvent \/ UNCHANGED vars
    <2>1. UNCHANGED <<state, log>>
      BY <1>7 DEF StartMission, JoinDropped, ExecuteMain, TakeEvent,
                  DeliverEvent, vars
    <2>2. QED
      BY <2>1, LifecycleStutter
  <1>8. ASSUME NEW t \in Tasks, OnMainStart(t) PROVE Lifecycle!Next
    <2>1. t \in MainTasks
      BY <1>8 DEF OnMainStart
    <2>2. QED
      BY <2>1, <1>1, <1>8 DEF Lifecycle!Next
  <1>9. ASSUME NEW t \in Tasks, OnMainExec(t) PROVE Lifecycle!Next
    <2>1. t \in MainTasks
      BY <1>9 DEF OnMainExec
    <2>2. QED
      BY <2>1, <1>2, <1>9 DEF Lifecycle!Next
  <1>10. QED
    BY StepCases, <1>3, <1>4, <1>5, <1>6, <1>7, <1>8, <1>9

\* The proxy with its threads, locks and download tasks implements the
\* lifecycle: every mission is announced once, ended once, never interleaved.
THEOREM Refinement == Spec => ImplementsLifecycle
  <1>1. Init => Lifecycle!Init
    BY DEF Init, Lifecycle!Init, Phase
  <1>2. IInv /\ [Next]_vars => [Lifecycle!Next]_(Lifecycle!vars)
    BY LifecycleStep
  <1>3. QED
    BY <1>1, <1>2, Invariance, PTL DEF Spec, Lifecycle!Spec, ImplementsLifecycle
=============================================================================
