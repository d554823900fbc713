-------------------------- MODULE MissionInstance ---------------------------
(***************************************************************************)
(* A waypoint-mission proxy (MissionInstanceProxy + WPMInstanceProxy) with *)
(* the mission tasks it runs (MissionTask) and the event-loop thread that  *)
(* hands it events.                                                        *)
(*                                                                         *)
(* Three kinds of threads run the proxy's code at the same time:           *)
(*   - the thread of every task: start_stage, OnStartStageFinished,        *)
(*     executing_stage, OnExecutingStageFinished;                          *)
(*   - the event-loop thread of RobotSystem: eventFilter;                  *)
(*   - the client thread: startMission.                                    *)
(* _state_mutex is held across two steps of a task thread (the handler and *)
(* the real_state() that follows it), so it is a variable.  The sections   *)
(* under _task_map_mutex never block, so each of them is one step.  The    *)
(* plain bool _photo_event_not_handle has no lock: every read and every    *)
(* write of it is a step of its own.                                       *)
(*                                                                         *)
(* A definition commented "Slip" is wrong on purpose: it is a variant of   *)
(* the definition after it, which shows that a property can fail.          *)
(***************************************************************************)
EXTENDS Naturals, Sequences, FiniteSets

CONSTANTS
    MainTasks,          \* the tasks getMainTask() can hand out, each once
    SubTasks,           \* bound: identities of photo download tasks, reused
    NoTask,             \* the null task pointer
    EventThread,        \* the thread of RobotSystem's event loop
    MaxPhotos,          \* bound: photos the vehicle takes
    PhotoTaskSupported, \* does getPhotoDownloadTask() return a task?
    SubStartRst         \* results a download task's start_stage can have

Tasks   == MainTasks \cup SubTasks
Threads == Tasks \cup {EventThread}

StageRstType == {"SUCCESS", "FAILED", "INTERRUPTTED", "UNEXECUTE"}

ASSUME ConstantsAssumption ==
    /\ MainTasks \cap SubTasks = {}
    /\ NoTask \notin Threads
    /\ EventThread \notin Tasks
    /\ MaxPhotos \in Nat
    /\ PhotoTaskSupported \in BOOLEAN
    /\ SubStartRst \subseteq {"SUCCESS", "FAILED"}

VARIABLES
    state,        \* _state
    lastState,    \* _last_state
    told,         \* the state last given to the state-changed callback
    stateMutex,   \* the task whose thread holds _state_mutex, or NoTask
    mainTask,     \* _main_task
    dropped,      \* the previous _main_task, whose destructor is joining
    client,       \* where the client thread is in startMission
    subTask,      \* the entry of _sub_task_map (its only key is the task name)
    running,      \* tasks with is_running
    pc,           \* where every thread is
    rst,          \* result of the last stage of every task
    notHandled,   \* _photo_event_not_handle
    log,          \* the events posted so far
    delivered,    \* how many of them the event loop has popped
    taken,        \* photos on the camera
    listed,       \* photos in the file list a download task fetched
    attempted     \* photos some download task has gone through

vars == <<state, lastState, told, stateMutex, mainTask, dropped, client,
          subTask, running, pc, rst, notHandled, log, delivered, taken,
          listed, attempted>>

photoVars == <<taken, listed, attempted>>
stateVars == <<state, lastState, told, stateMutex>>
mainVars  == <<mainTask, dropped, client>>
logVars   == <<log, delivered>>

Event(type, t) == [type |-> type, task |-> t]
Post(type, t)  == log' = Append(log, Event(type, t))
Goto(t, place) == pc' = [pc EXCEPT ![t] = place]

-----------------------------------------------------------------------------
Init ==
    /\ state = "WAITTING" /\ lastState = "WAITTING" /\ told = "WAITTING"
    /\ stateMutex = NoTask
    /\ mainTask = NoTask /\ dropped = NoTask /\ client = "idle"
    /\ subTask = NoTask
    /\ running = {}
    /\ pc = [t \in Threads |-> IF t = EventThread THEN "wait" ELSE "new"]
    /\ rst = [t \in Tasks |-> "UNEXECUTE"]
    /\ notHandled = FALSE
    /\ log = <<>> /\ delivered = 0
    /\ taken = 0 /\ listed = [s \in SubTasks |-> 0] /\ attempted = 0

-----------------------------------------------------------------------------
(* startMission, on the client thread.                                     *)

\* _main_task = getMainTask(): the new task replaces the old one, whose last
\* reference goes away.
StartMission ==
    /\ client = "idle"
    /\ \E t \in MainTasks :
          /\ pc[t] = "new"
          /\ mainTask' = t
          /\ Goto(t, "created")
    /\ dropped' = mainTask
    /\ client' = IF mainTask = NoTask THEN "execute" ELSE "join"
    /\ UNCHANGED <<stateVars, subTask, running, rst, notHandled, logVars,
                   photoVars>>

\* Slip: is_running is polled, and of the task that takes the pointer over.
JoinReplacement ==
    /\ client = "join"
    /\ IF pc[mainTask] = "done"
       THEN dropped' = NoTask /\ client' = "execute"
       ELSE UNCHANGED <<dropped, client>>
    /\ UNCHANGED <<stateVars, mainTask, subTask, running, pc, rst, notHandled,
                   logVars, photoVars>>

\* ~MissionTask of the dropped task joins its thread.
JoinDropped ==
    /\ client = "join"
    /\ pc[dropped] = "done"
    /\ dropped' = NoTask
    /\ client' = "execute"
    /\ UNCHANGED <<stateVars, mainTask, subTask, running, pc, rst, notHandled,
                   logVars, photoVars>>

\* _main_task->execute(this)
ExecuteMain ==
    /\ client = "execute"
    /\ running' = running \cup {mainTask}
    /\ Goto(mainTask, "start")
    /\ client' = "idle"
    /\ UNCHANGED <<stateVars, mainTask, dropped, subTask, rst, notHandled,
                   logVars, photoVars>>

-----------------------------------------------------------------------------
(* The thread of a task.                                                   *)

\* start_stage(): a download task that starts has fetched the file list.
StartStage(t) ==
    /\ pc[t] = "start"
    /\ \E r \in IF t \in SubTasks THEN SubStartRst ELSE {"SUCCESS", "FAILED"} :
          /\ rst' = [rst EXCEPT ![t] = r]
          /\ listed' = IF t \in SubTasks /\ r = "SUCCESS"
                       THEN [listed EXCEPT ![t] = taken] ELSE listed
    /\ Goto(t, "onStart")
    /\ UNCHANGED <<stateVars, mainVars, subTask, running, notHandled, logVars,
                   taken, attempted>>

\* OnStartStageFinished of a main task, up to mainTaskStartHandle.
OnMainStart(t) ==
    /\ t \in MainTasks /\ pc[t] = "onStart" /\ stateMutex = NoTask
    /\ stateMutex' = t
    /\ lastState' = state
    /\ \/ /\ rst[t] = "SUCCESS"
          /\ state' = "EXECUTING"
          /\ Post("Started", t)
       \/ /\ rst[t] # "SUCCESS"
          /\ state' = "FAILED"
          /\ Post("StartFailed", t)
    /\ Goto(t, "settleStart")
    /\ UNCHANGED <<told, mainVars, subTask, running, rst, notHandled,
                   delivered, photoVars>>

\* Slip: a task that failed stays in the map.
OnSubStartKeepsEntry(t) ==
    /\ t \in SubTasks /\ pc[t] = "onStart" /\ stateMutex = NoTask
    /\ stateMutex' = t
    /\ lastState' = state
    /\ Goto(t, "settleStart")
    /\ UNCHANGED <<state, told, mainVars, subTask, running, rst, notHandled,
                   logVars, photoVars>>

\* OnStartStageFinished of a sub task, up to subtaskStartHandle: a task that
\* failed leaves the map.
OnSubStart(t) ==
    /\ t \in SubTasks /\ pc[t] = "onStart" /\ stateMutex = NoTask
    /\ stateMutex' = t
    /\ lastState' = state
    /\ subTask' = IF rst[t] = "SUCCESS" THEN subTask ELSE NoTask
    /\ Goto(t, "settleStart")
    /\ UNCHANGED <<state, told, mainVars, running, rst, notHandled, logVars,
                   photoVars>>

\* executing_stage(): a download task goes through the files it has listed.
ExecutingStage(t) ==
    /\ pc[t] = "exec"
    /\ \E r \in IF t \in SubTasks THEN {"SUCCESS", "FAILED"}
                ELSE {"SUCCESS", "FAILED", "INTERRUPTTED"} :
          rst' = [rst EXCEPT ![t] = r]
    /\ attempted' = IF t \in SubTasks /\ listed[t] > attempted
                    THEN listed[t] ELSE attempted
    /\ listed' = IF t \in SubTasks THEN [listed EXCEPT ![t] = 0] ELSE listed
    /\ Goto(t, "onExec")
    /\ UNCHANGED <<stateVars, mainVars, subTask, running, notHandled, logVars,
                   taken>>

\* Slip: an interruption leaves the state alone.
OnMainExecInterruptedIgnored(t) ==
    /\ t \in MainTasks /\ pc[t] = "onExec" /\ stateMutex = NoTask
    /\ stateMutex' = t
    /\ lastState' = state
    /\ \/ rst[t] = "SUCCESS" /\ state' = "FINISHED" /\ Post("Finished", t)
       \/ rst[t] = "INTERRUPTTED" /\ state' = state /\ Post("Interrupted", t)
       \/ /\ rst[t] \notin {"SUCCESS", "INTERRUPTTED"}
          /\ state' = "FAILED"
          /\ Post("Failed", t)
    /\ Goto(t, "settleExec")
    /\ UNCHANGED <<told, mainVars, subTask, running, rst, notHandled,
                   delivered, photoVars>>

\* OnExecutingStageFinished of a main task, up to mainTaskExecutingHandle.
OnMainExec(t) ==
    /\ t \in MainTasks /\ pc[t] = "onExec" /\ stateMutex = NoTask
    /\ stateMutex' = t
    /\ lastState' = state
    /\ \/ /\ rst[t] = "SUCCESS"
          /\ state' = "FINISHED"
          /\ Post("Finished", t)
       \/ /\ rst[t] = "INTERRUPTTED"
          /\ state' = "FINISHED"
          /\ Post("Interrupted", t)
       \/ /\ rst[t] \notin {"SUCCESS", "INTERRUPTTED"}
          /\ state' = "FAILED"
          /\ Post("Failed", t)
    /\ Goto(t, "settleExec")
    /\ UNCHANGED <<told, mainVars, subTask, running, rst, notHandled,
                   delivered, photoVars>>

\* OnExecutingStageFinished of a sub task, up to subtaskExecutingHandle: the
\* entry of its name leaves the map, whatever the result.
OnSubExec(t) ==
    /\ t \in SubTasks /\ pc[t] = "onExec" /\ stateMutex = NoTask
    /\ stateMutex' = t
    /\ lastState' = state
    /\ subTask' = NoTask
    /\ Goto(t, "settleExec")
    /\ UNCHANGED <<state, told, mainVars, running, rst, notHandled, logVars,
                   photoVars>>

\* Slip: nothing leads back from FINISHED_WITH_SUBTASK.
RealStateOneWay ==
    CASE state = "FAILED" /\ subTask # NoTask   -> "FAILED_WITH_SUBTASK"
      [] state = "FINISHED" /\ subTask # NoTask -> "FINISHED_WITH_SUBTASK"
      [] OTHER -> state

\* real_state(): the state combined with "some sub task is in the map".
RealState ==
    CASE state = "FAILED" /\ subTask # NoTask   -> "FAILED_WITH_SUBTASK"
      [] state = "FINISHED" /\ subTask # NoTask -> "FINISHED_WITH_SUBTASK"
      [] state = "FINISHED_WITH_SUBTASK" /\ subTask = NoTask -> "FINISHED"
      [] OTHER -> state

\* Slip: the callback compares the settled state with the unsettled one.
SettleComparesState ==
    /\ state' = RealState
    /\ told' = IF state # RealState THEN RealState ELSE told
    /\ lastState' = RealState
    /\ stateMutex' = NoTask
    /\ UNCHANGED <<mainVars, subTask, running, rst, notHandled, logVars,
                   photoVars>>

\* The end of both OnXxxStageFinished: settle the state, call the callback if
\* it changed, release _state_mutex.  (Between real_state() and the assignment
\* only a new entry can reach the map, which is the same as reaching it later.)
Settle ==
    /\ state' = RealState
    /\ told' = IF lastState # RealState THEN RealState ELSE told
    /\ lastState' = RealState          \* _last_state is dead here: forgotten
    /\ stateMutex' = NoTask
    /\ UNCHANGED <<mainVars, subTask, running, rst, notHandled, logVars,
                   photoVars>>

\* Slip: no early return when the start stage failed.
SettleStartGoesOn(t) ==
    /\ pc[t] = "settleStart" /\ stateMutex = t
    /\ Goto(t, "exec")
    /\ Settle

SettleStart(t) ==
    /\ pc[t] = "settleStart" /\ stateMutex = t
    /\ Goto(t, IF rst[t] = "SUCCESS" THEN "exec" ELSE "end")
    /\ Settle

\* handleTaskFinished follows the settling: a main task always asks for a
\* download, a sub task looks at the flag first.
SettleExec(t) ==
    /\ pc[t] = "settleExec" /\ stateMutex = t
    /\ Goto(t, IF t \in MainTasks THEN "check" ELSE "readFlag")
    /\ Settle

HandleSubtaskEvent(t) ==
    /\ pc[t] = "readFlag"
    /\ Goto(t, IF notHandled THEN "check" ELSE "end")
    /\ UNCHANGED <<stateVars, mainVars, subTask, running, rst, notHandled,
                   logVars, photoVars>>

\* The last statement of the thread: is_running = false.  A sub task stays in
\* _end_sub_task_list, which nobody reads: its identity is free for a new one.
EndTask(t) ==
    /\ pc[t] = "end"
    /\ running' = running \ {t}
    /\ Goto(t, IF t \in MainTasks THEN "done" ELSE "new")
    /\ rst' = [rst EXCEPT ![t] = "UNEXECUTE"]
    /\ UNCHANGED <<stateVars, mainVars, subTask, notHandled, logVars,
                   photoVars>>
-----------------------------------------------------------------------------
(* addPhotoTask, run by a task thread or by the event-loop thread.         *)

\* Where a thread goes on after addPhotoTask.
AfterAdd(a) == IF a = EventThread THEN "deliver" ELSE "end"

\* hasSubTask(PHOTO_DOWNLOAD_TASK), then getPhotoDownloadTask()
CheckSubTask(a) ==
    /\ pc[a] = "check"
    /\ Goto(a, CASE subTask # NoTask     -> "mark"
                [] subTask = NoTask /\ PhotoTaskSupported  -> "run"
                [] subTask = NoTask /\ ~PhotoTaskSupported -> AfterAdd(a))
    /\ UNCHANGED <<stateVars, mainVars, subTask, running, rst, notHandled,
                   logVars, photoVars>>

\* _photo_event_not_handle = true
MarkNotHandled(a) ==
    /\ pc[a] = "mark"
    /\ notHandled' = TRUE
    /\ Goto(a, AfterAdd(a))
    /\ UNCHANGED <<stateVars, mainVars, subTask, running, rst, logVars,
                   photoVars>>

\* Slip: a running task of that name is not looked for.
RunSubTaskUnchecked(a) ==
    /\ pc[a] = "run"
    /\ \E s \in SubTasks :
          /\ pc[s] = "new"
          /\ subTask' = s
          /\ running' = running \cup {s}
          /\ pc' = [pc EXCEPT ![s] = "start", ![a] = "clear"]
    /\ UNCHANGED <<stateVars, mainVars, rst, notHandled, logVars, photoVars>>

\* _run_task: unless a task of that name is running, the new one takes the
\* entry and its thread starts; a refused task is destroyed and addPhotoTask
\* ignores the refusal.
RunSubTask(a) ==
    /\ pc[a] = "run"
    /\ \/ /\ subTask \in running
          /\ Goto(a, "clear")
          /\ UNCHANGED <<subTask, running>>
       \/ /\ subTask \notin running
          /\ \E s \in SubTasks :
                /\ pc[s] = "new"
                /\ subTask' = s
                /\ running' = running \cup {s}
                /\ pc' = [pc EXCEPT ![s] = "start", ![a] = "clear"]
    /\ UNCHANGED <<stateVars, mainVars, rst, notHandled, logVars, photoVars>>

\* _photo_event_not_handle = false
ClearNotHandled(a) ==
    /\ pc[a] = "clear"
    /\ notHandled' = FALSE
    /\ Goto(a, AfterAdd(a))
    /\ UNCHANGED <<stateVars, mainVars, subTask, running, rst, logVars,
                   photoVars>>

AddPhotoTask(a) ==
    CheckSubTask(a) \/ MarkNotHandled(a) \/ RunSubTask(a) \/ ClearNotHandled(a)

-----------------------------------------------------------------------------
(* The vehicle and the event loop.                                         *)

\* The vehicle may fly the mission of a task: from the last call of its start
\* stage on, before OnStartStageFinished, until its end is known; and at any
\* time after a start that seemed to fail, because the answer was lost.
MayFly(t) ==
    \/ pc[t] \in {"start", "onStart", "settleStart", "exec"}
    \/ \E i \in DOMAIN log : log[i] = Event("StartFailed", t)

\* The vehicle takes a photo and tells of it, and the plugin posts
\* WPMTakenPhotoEvent from the SDK's thread, whatever the task's thread does.
TakePhoto ==
    /\ taken < MaxPhotos
    /\ \E t \in MainTasks : MayFly(t)
    /\ taken' = taken + 1
    /\ Post("TakenPhoto", NoTask)
    /\ UNCHANGED <<stateVars, mainVars, subTask, running, pc, rst, notHandled,
                   delivered, listed, attempted>>

\* The event loop dispatches the oldest event: eventFilter of the proxy asks
\* for a download when it is a photo event.
TakeEvent ==
    /\ pc[EventThread] = "wait"
    /\ delivered < Len(log)
    /\ Goto(EventThread, IF log[delivered + 1].type = "TakenPhoto"
                         THEN "check" ELSE "deliver")
    /\ UNCHANGED <<stateVars, mainVars, subTask, running, rst, notHandled,
                   logVars, photoVars>>

\* The listeners of the proxy have the event, the loop pops it.
DeliverEvent ==
    /\ pc[EventThread] = "deliver"
    /\ delivered' = delivered + 1
    /\ Goto(EventThread, "wait")
    /\ UNCHANGED <<stateVars, mainVars, subTask, running, rst, notHandled,
                   log, photoVars>>

-----------------------------------------------------------------------------
TaskStep(t) ==
    \/ StartStage(t) \/ OnMainStart(t) \/ OnSubStart(t) \/ SettleStart(t)
    \/ ExecutingStage(t) \/ OnMainExec(t) \/ OnSubExec(t) \/ SettleExec(t)
    \/ HandleSubtaskEvent(t) \/ EndTask(t)

ClientStep == StartMission \/ JoinDropped \/ ExecuteMain

LoopStep == TakeEvent \/ DeliverEvent

\* Nothing left to do: every thread is idle and the queue is empty.
Quiet ==
    /\ client = "idle"
    /\ running = {}
    /\ pc[EventThread] = "wait"
    /\ delivered = Len(log)

\* The client has no further mission to start: the model's only halt.
Halt ==
    /\ Quiet
    /\ \A t \in MainTasks : pc[t] # "new"
    /\ UNCHANGED vars

Next ==
    \/ ClientStep
    \/ \E t \in Tasks : TaskStep(t)
    \/ \E a \in Threads : AddPhotoTask(a)
    \/ LoopStep
    \/ TakePhoto
    \/ Halt

Spec == Init /\ [][Next]_vars

\* Threads are scheduled, and a mutex that is free again and again is got in
\* the end: each callback waits for one short critical section of another
\* thread.  A stage that never returns is outside this specification: the
\* plugin modules say when their stages do.
Fairness ==
    /\ WF_vars(JoinDropped) /\ WF_vars(ExecuteMain)
    /\ WF_vars(LoopStep)
    /\ \A a \in Threads : WF_vars(AddPhotoTask(a))
    /\ \A t \in Tasks : SF_vars(TaskStep(t))

FairSpec == Spec /\ Fairness
-----------------------------------------------------------------------------
(* Properties.                                                             *)

InstanceState == {"WAITTING", "STARTING", "EXECUTING", "FAILED_WITH_SUBTASK",
                  "FAILED", "FINISHED_WITH_SUBTASK", "FINISHED", "CHAOS"}

AddPlaces  == {"check", "mark", "run", "clear"}
TaskPlaces == {"new", "created", "start", "onStart", "settleStart", "exec",
               "onExec", "settleExec", "readFlag", "end", "done"}

EventTypes == {"Started", "StartFailed", "Finished", "Interrupted", "Failed",
               "TakenPhoto"}
Events == [type : EventTypes, task : MainTasks \cup {NoTask}]

\* Every variable has its type.
TypeOK ==
    /\ state \in InstanceState /\ lastState \in InstanceState
    /\ told \in InstanceState
    /\ stateMutex \in Tasks \cup {NoTask}
    /\ mainTask \in MainTasks \cup {NoTask}
    /\ dropped \in MainTasks \cup {NoTask}
    /\ client \in {"idle", "join", "execute"}
    /\ subTask \in SubTasks \cup {NoTask}
    /\ running \in SUBSET Tasks
    /\ pc \in [Threads -> TaskPlaces \cup AddPlaces \cup {"wait", "deliver"}]
    /\ rst \in [Tasks -> StageRstType]
    /\ notHandled \in BOOLEAN
    /\ log \in Seq(Events)
    /\ delivered \in 0 .. Len(log)
    /\ taken \in Nat /\ attempted \in Nat /\ listed \in [SubTasks -> Nat]

\* A task is at work on the vehicle: in one of its stages, or on its way to
\* report the stage.
AtWork(t) ==
    \/ pc[t] \in {"start", "onStart", "exec", "onExec"}
    \/ pc[t] = "settleStart" /\ rst[t] = "SUCCESS"

\* Two main tasks never run at the same time, whatever startMission calls
\* arrive: the destructor of the replaced main task joins its thread before
\* the new one is executed (startMission, ~MissionTask::Impl).
OneMainAtATime == Cardinality(running \cap MainTasks) <= 1

\* The map's entry is exactly the one download task at work on the camera: no
\* task works unregistered, a finished task never takes another one's entry
\* away with it (the entry is erased by name), and what is registered runs
\* (_run_task, subtaskStartHandle, subtaskExecutingHandle).
EntryIsTheTaskAtWork ==
    /\ \A s \in SubTasks : AtWork(s) <=> subTask = s
    /\ subTask # NoTask => subTask \in running

\* The map's entry is only ever emptied, never overwritten: overwriting would
\* destroy a task under _task_map_mutex and join a thread that needs that
\* mutex to report (_run_task).
EntryNeverOverwritten ==
    [][subTask # NoTask => subTask' \in {subTask, NoTask}]_vars

\* The i-th event is the last one that reports on a main task.
LastReport(i) ==
    /\ log[i].type # "TakenPhoto"
    /\ \A j \in DOMAIN log : j > i => log[j].type = "TakenPhoto"

\* The settled or settling states in which an event of a main task leaves the
\* instance.
StatesAfter(type) ==
    CASE type = "Started"                     -> {"EXECUTING"}
      [] type \in {"Finished", "Interrupted"} -> {"FINISHED", "FINISHED_WITH_SUBTASK"}
      [] type \in {"StartFailed", "Failed"}   -> {"FAILED", "FAILED_WITH_SUBTASK"}

\* The state agrees with the last mission event posted at every moment, even
\* while sub tasks of an older mission finish and re-settle the state
\* concurrently (real_state, mainTaskStartHandle, mainTaskExecutingHandle).
StateMatchesEvents ==
    \/ /\ state = "WAITTING"
       /\ \A i \in DOMAIN log : log[i].type = "TakenPhoto"
    \/ \E i \in DOMAIN log : LastReport(i) /\ state \in StatesAfter(log[i].type)

\* Once settled, FINISHED_WITH_SUBTASK is said only while a sub task is
\* there (real_state).
FinishedWithSubtaskIsTrue ==
    stateMutex = NoTask /\ state = "FINISHED_WITH_SUBTASK" => subTask # NoTask

\* The client's callback was told the state the instance has: no settled
\* change is missed or reported for another one (OnStartStageFinished,
\* OnExecutingStageFinished).
ClientWasTold == stateMutex = NoTask => told = state

\* Together: what the client was told last is the state the instance settled
\* on, and when that is FINISHED_WITH_SUBTASK a sub task is there, although the
\* states of two missions and the end of every sub task are computed from a map
\* that other threads change (real_state, OnExecutingStageFinished).  Nothing
\* of the kind holds of FAILED_WITH_SUBTASK, from which real_state has no way
\* back: it stays told when its sub task is gone.
ClientKnowsTheState == FinishedWithSubtaskIsTrue /\ ClientWasTold

\* The proxy implements what MissionLifecycle promises: every mission is
\* announced once, ended once, and not interleaved with another mission.
Phase ==
    CASE state \in {"WAITTING", "STARTING", "CHAOS"}   -> "waiting"
      [] state = "EXECUTING"                            -> "executing"
      [] state \in {"FINISHED", "FINISHED_WITH_SUBTASK"} -> "finished"
      [] state \in {"FAILED", "FAILED_WITH_SUBTASK"}     -> "failed"

Lifecycle == INSTANCE MissionLifecycle
    WITH Missions <- MainTasks, NoMission <- NoTask, phase <- Phase

ImplementsLifecycle == Lifecycle!Spec

\* startMission returns: the join of the replaced task ends (~MissionTask).
StartMissionReturns == client # "idle" ~> client = "idle"

\* A client that was told FINISHED_WITH_SUBTASK hears more: the sub tasks end
\* and the state moves on (subtaskExecutingHandle, real_state).
FinishedWithSubtaskEnds ==
    told = "FINISHED_WITH_SUBTASK" ~> told # "FINISHED_WITH_SUBTASK"

-----------------------------------------------------------------------------
(* The inductive invariant: why the properties above hold.                 *)

MainPlaces == {"new", "created", "start", "onStart", "settleStart", "exec",
               "onExec", "settleExec", "end", "done"} \cup AddPlaces
SubPlaces  == {"new", "start", "onStart", "settleStart", "exec", "onExec",
               "settleExec", "readFlag", "end"} \cup AddPlaces

\* Every thread is at a place of its own code.
PlacesInv ==
    /\ pc[EventThread] \in {"wait", "deliver"} \cup AddPlaces
    /\ \A t \in MainTasks : pc[t] \in MainPlaces
    /\ \A s \in SubTasks : pc[s] \in SubPlaces

\* An event that is being dispatched is still in the queue.
LoopInv == pc[EventThread] # "wait" => delivered < Len(log)

\* is_running spans the thread's life.
RunningInv ==
    \A t \in Tasks : t \in running <=> pc[t] \notin {"new", "created", "done"}

\* At most one main task runs, and startMission knows which.
ClientInv ==
    /\ (client = "join") <=> (dropped # NoTask)
    /\ client # "idle" => mainTask # NoTask
    /\ \A t \in MainTasks :
          /\ pc[t] = "created" <=> client # "idle" /\ t = mainTask
          /\ t \in running =>
                \/ client = "idle" /\ t = mainTask
                \/ client = "join" /\ t = dropped

\* _state_mutex is held exactly between a handler and its settling.
MutexInv ==
    \A t \in Tasks : stateMutex = t <=> pc[t] \in {"settleStart", "settleExec"}

\* The map's entry is the sub task at work.
EntryInv == \A s \in SubTasks : AtWork(s) <=> subTask = s

\* The callback is at most one settling behind.
ToldInv ==
    /\ stateMutex = NoTask => told = state
    /\ stateMutex # NoTask => told = lastState

\* A main task whose start was reported and whose end was not.
Flying(t) ==
    \/ pc[t] \in {"exec", "onExec"}
    \/ pc[t] = "settleStart" /\ rst[t] = "SUCCESS"

\* What the log says of every main task, by the place of its thread.
LogInv ==
    /\ state \notin {"STARTING", "CHAOS"}
    /\ state = "EXECUTING" <=> \E t \in MainTasks : Flying(t)
    /\ \A t \in MainTasks :
          /\ pc[t] \in {"new", "created", "start", "onStart"} =>
                 \A i \in DOMAIN log : log[i].task # t
          /\ Flying(t) =>
                 /\ \E i \in DOMAIN log : log[i] = Event("Started", t)
                 /\ \A i \in DOMAIN log :
                        log[i].task = t => log[i].type = "Started"

IInv ==
    /\ TypeOK /\ PlacesInv /\ LoopInv /\ RunningInv /\ ClientInv /\ MutexInv
    /\ EntryInv /\ FinishedWithSubtaskIsTrue /\ ToldInv /\ LogInv /\ StateMatchesEvents

-----------------------------------------------------------------------------
(* What comments of the repository say and the code does not keep.         *)

\* WPMInstanceProxy.cpp: a photo event that was not handled gets a download
\* task, so when everything is at rest no such event is left over for a photo
\* that no download task has gone through.
NoPhotoEventLeftOver == Quiet /\ notHandled => attempted = taken
=============================================================================
