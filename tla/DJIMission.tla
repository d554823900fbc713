----------------------------- MODULE DJIMission -----------------------------
(***************************************************************************)
(* Waypoint missions on a DJI vehicle: DJIWPMInstance, the main tasks it   *)
(* makes (DJIWPMMainTask), the delegate memories of its proxies and the    *)
(* wrapper of the SDK's mission events (DJIEventWrapper).                  *)
(*                                                                         *)
(* Three kinds of threads: the client, which opens proxies and starts      *)
(* missions; the thread of each task, which uploads and starts the mission *)
(* and waits for its result; and the SDK's callback thread, which handles  *)
(* the events the vehicle pushes, in their order.                          *)
(*                                                                         *)
(* A task lives as long as a shared pointer holds it: the plugin's, a      *)
(* proxy's, or the copy the callback thread takes while it notifies the    *)
(* task.  Its destructor deletes Impl and then joins the task's thread.    *)
(* Use of a deleted Impl, of an element outside the action filter, or of a *)
(* memory or a result that another thread changes, is undefined: the       *)
(* program goes on or crashes.                                             *)
(*                                                                         *)
(* Progress events are left out: their handler reads the same memory as    *)
(* the handler of action events and only posts an event.                   *)
(*                                                                         *)
(* A definition commented "Slip" is wrong on purpose: it is a variant of   *)
(* the definition after it, which shows that a property can fail.          *)
(***************************************************************************)
EXTENDS Naturals, Sequences, FiniteSets

CONSTANTS
    Tasks,     \* bound: the main tasks getMainTask() makes, each once
    NoTask,    \* the null task pointer
    Proxies,   \* bound: the proxies a client opens, each with its memory
    NoProxy,   \* the null memory pointer
    Photos,    \* photo actions in a plan
    Attempts,  \* attempts to upload the waypoints, 50 in the code
    MaxQueue   \* bound: events pushed and not yet handled

ASSUME ConstantsAssumption ==
    /\ NoTask \notin Tasks /\ NoProxy \notin Proxies
    /\ Photos \in Nat /\ Attempts \in Nat \ {0} /\ MaxQueue \in Nat

VARIABLES
    memory,    \* _dji_delegate_memory: the memory of the last proxy
    valid,     \* dji_mission.isValid() of each memory
    actions,   \* dji_mission.djiActions().size() of each memory
    filter,    \* the ids marked in action_id_filter of each memory
    size,      \* action_id_filter.size() of each memory
    repeated,  \* current_repeated_times of each memory
    current,   \* _current_main_task of the plugin
    opened,    \* the proxies opened so far
    main,      \* _main_task of each proxy
    client,    \* where the client thread is in startMission
    caller,    \* the proxy it calls startMission of
    dropped,   \* the task it destroys
    stage,     \* where the thread of every task is
    ctx,       \* _current_context: the memory every task was made with
    tries,     \* failed attempts of every task to upload
    finished,  \* _finished_rst of every task
    freed,     \* tasks whose Impl is deleted
    start,     \* history: the result OnStartStageFinished was given
    exec,      \* history: the result OnExecutingStageFinished was given
    flown,     \* the task whose mission the vehicle flies
    loaded,    \* the number of actions the vehicle was given
    paused,    \* the vehicle holds its position
    pushed,    \* events on their way from the vehicle
    callback,  \* where the callback thread is in the handler of the finish
    held,      \* the task it holds a copy of the pointer to
    verdict,   \* the result it gives to that task
    taken,     \* history: actions of a flight that were handled
    posted,    \* history: actions of a flight an event was posted for
    again,     \* history: those it was posted for again
    complete,  \* history: tasks whose waypoints were all flown
    careless,  \* history: the client did not wait for a mission's result
    ackLost,   \* history: the vehicle started, but the call failed
    crashed    \* undefined behaviour was not survived

memoryVars  == <<memory, valid, actions, filter, size, repeated>>
clientVars  == <<opened, current, main, client, caller, dropped, careless>>
taskVars    == <<stage, ctx, tries, start, exec, ackLost>>
vehicleVars == <<flown, loaded, paused, pushed, complete>>
handlerVars == <<callback, held, verdict, taken, posted, again>>

vars == <<memoryVars, clientVars, taskVars, vehicleVars, handlerVars,
          finished, freed, crashed>>

Init ==
    /\ memory = NoProxy
    /\ valid = [p \in Proxies |-> TRUE]
    /\ actions = [p \in Proxies |-> 0]
    /\ filter = [p \in Proxies |-> {}]
    /\ size = [p \in Proxies |-> 0]
    /\ repeated = [p \in Proxies |-> 0]
    /\ opened = {} /\ current = NoTask
    /\ main = [p \in Proxies |-> NoTask]
    /\ client = "idle" /\ caller = NoProxy /\ dropped = NoTask
    /\ stage = [t \in Tasks |-> "new"]
    /\ ctx = [t \in Tasks |-> NoProxy]
    /\ tries = [t \in Tasks |-> 0]
    /\ finished = [t \in Tasks |-> "UNEXECUTE"]
    /\ start = [t \in Tasks |-> "UNEXECUTE"]
    /\ exec = [t \in Tasks |-> "UNEXECUTE"]
    /\ freed = {}
    /\ flown = NoTask /\ loaded = 0 /\ paused = FALSE /\ pushed = <<>>
    /\ callback = "idle" /\ held = NoTask /\ verdict = "UNEXECUTE"
    /\ taken = {} /\ posted = {} /\ again = {} /\ complete = {}
    /\ careless = FALSE /\ ackLost = FALSE /\ crashed = FALSE

\* The listener has the last result of the task.
Reported(t) == start[t] = "FAILED" \/ exec[t] # "UNEXECUTE"

\* Some mission was started and its result is not known yet.
Pending == \E t \in Tasks : stage[t] # "new" /\ ~Reported(t)

-----------------------------------------------------------------------------
(* The client thread.                                                      *)

\* The plugin points to a new memory, in place of that of any other proxy.
CreateDelegateMemory(p) == memory' = p

\* BaseProxy makes the plugin create a delegate memory.
OpenProxy(p) ==
    /\ client = "idle" /\ p \notin opened
    /\ opened' = opened \cup {p}
    /\ CreateDelegateMemory(p)
    /\ careless' = (careless \/ Pending)
    /\ UNCHANGED <<valid, actions, filter, size, repeated, current, main,
                   client, caller, dropped, taskVars, vehicleVars,
                   handlerVars, finished, freed, crashed>>

\* startMission calls getMainTask, which works on the memory ...
CallGetMainTask(p) ==
    /\ client = "idle" /\ p \in opened
    /\ \E t \in Tasks : stage[t] = "new"
    /\ client' = "interpret" /\ caller' = p
    /\ careless' = (careless \/ Pending)
    /\ UNCHANGED <<opened, current, main, dropped, memoryVars, taskVars,
                   vehicleVars, handlerVars, finished, freed, crashed>>

\* interpret: a plan is appended to the mission of the memory, which becomes
\* invalid for good if the plan cannot be converted; a plan of two items or
\* less leaves the mission as it is.
Interpret ==
    \/ /\ actions' = [actions EXCEPT ![memory] = @ + Photos]
       /\ UNCHANGED valid
    \/ UNCHANGED <<actions, valid>>
    \/ /\ \E n \in 0 .. actions[memory] + Photos :
              actions' = [actions EXCEPT ![memory] = n]
       /\ valid' = [valid EXCEPT ![memory] = FALSE]

\* Slip: the filter is sized for the mission before the new one.
GetMainTaskSizesFirst(t) ==
    /\ client = "interpret" /\ stage[t] = "new"
    /\ Interpret
    /\ filter' = [filter EXCEPT ![memory] = {}]
    /\ size' = [size EXCEPT ![memory] = actions[memory]]
    /\ current' = t /\ ctx' = [ctx EXCEPT ![t] = memory]
    /\ stage' = [stage EXCEPT ![t] = "created"]
    /\ client' = "assign"
    /\ UNCHANGED <<memory, repeated, opened, main, caller, dropped, careless,
                   tries, start, exec, ackLost, vehicleVars,
                   handlerVars, finished, freed, crashed>>

\* ... clears and resizes the filter, and makes the task.
GetMainTask(t) ==
    /\ client = "interpret" /\ stage[t] = "new"
    /\ Interpret
    /\ filter' = [filter EXCEPT ![memory] = {}]
    /\ size' = [size EXCEPT ![memory] = actions'[memory]]
    /\ current' = t /\ ctx' = [ctx EXCEPT ![t] = memory]
    /\ stage' = [stage EXCEPT ![t] = "created"]
    /\ client' = "assign"
    /\ UNCHANGED <<memory, repeated, opened, main, caller, dropped, careless,
                   tries, start, exec, ackLost, vehicleVars,
                   handlerVars, finished, freed, crashed>>

\* The proxy's pointer is replaced; the old task is destroyed unless the
\* callback thread holds it.
Assign ==
    /\ client = "assign"
    /\ main' = [main EXCEPT ![caller] = current]
    /\ LET old == main[caller]
       IN  IF old # NoTask /\ old # held
           THEN /\ freed' = freed \cup {old}
                /\ dropped' = old /\ client' = "join"
           ELSE client' = "execute" /\ UNCHANGED <<freed, dropped>>
    /\ UNCHANGED <<opened, current, caller, careless, memoryVars, taskVars,
                   vehicleVars, handlerVars, finished, crashed>>

\* ~MissionTask joins the task's thread.
JoinTask ==
    /\ client = "join" /\ stage[dropped] = "over"
    /\ client' = "execute" /\ dropped' = NoTask
    /\ UNCHANGED <<opened, current, main, caller, careless, memoryVars,
                   taskVars, vehicleVars, handlerVars, finished, freed,
                   crashed>>

\* _main_task->execute(this)
Execute ==
    /\ client = "execute"
    /\ stage' = [stage EXCEPT ![main[caller]] = "check"]
    /\ client' = "idle" /\ caller' = NoProxy
    /\ UNCHANGED <<opened, current, main, dropped, careless, memoryVars, ctx,
                   tries, start, exec, ackLost, vehicleVars,
                   handlerVars, finished, freed, crashed>>

\* pause, resume, stop and return2home pass the command on; the vehicle may
\* refuse it.
Control ==
    /\ client = "idle"
    /\ flown = NoTask => paused' = paused
    /\ paused' \in BOOLEAN
    /\ UNCHANGED <<clientVars, memoryVars, taskVars, flown, loaded, pushed,
                   complete, handlerVars, finished, freed, crashed>>

-----------------------------------------------------------------------------
(* The thread of a task.                                                   *)

TaskFrame == UNCHANGED <<clientVars, memoryVars, ctx, handlerVars, finished,
                         freed, crashed>>

\* Slip: a task that failed to start waits for its mission's finish.
RefuseAndWait(t) ==
    /\ start' = [start EXCEPT ![t] = "FAILED"]
    /\ stage' = [stage EXCEPT ![t] = "wait"]

\* A check or a call of start_stage failed.
Refuse(t) ==
    /\ start' = [start EXCEPT ![t] = "FAILED"]
    /\ stage' = [stage EXCEPT ![t] = "over"]

GoOn(t, s) == stage' = [stage EXCEPT ![t] = s] /\ UNCHANGED start

\* isValid() ...
Check(t) ==
    /\ stage[t] = "check"
    /\ IF valid[ctx[t]] THEN GoOn(t, "init") ELSE Refuse(t)
    /\ UNCHANGED <<tries, exec, ackLost, vehicleVars>>
    /\ TaskFrame

\* ... init ...
InitMission(t) ==
    /\ stage[t] = "init"
    /\ GoOn(t, "upload") \/ Refuse(t)
    /\ UNCHANGED <<tries, exec, ackLost, vehicleVars>>
    /\ TaskFrame

\* ... uploadMission, again and again while the vehicle mixes up the ids; when
\* the attempts are used up, the loop ends like a success ...
UploadMission(t) ==
    /\ stage[t] = "upload"
    /\ \/ GoOn(t, "action") /\ UNCHANGED tries
       \/ Refuse(t) /\ UNCHANGED tries
       \/ /\ tries' = [tries EXCEPT ![t] = @ + 1]
          /\ GoOn(t, IF tries'[t] < Attempts THEN "upload" ELSE "action")
    /\ UNCHANGED <<exec, ackLost, vehicleVars>>
    /\ TaskFrame

\* ... uploadAction ...
UploadAction(t) ==
    /\ stage[t] = "action"
    /\ \/ GoOn(t, "start") /\ loaded' = actions[ctx[t]]
       \/ Refuse(t) /\ UNCHANGED loaded
    /\ UNCHANGED <<tries, exec, ackLost, flown, paused, pushed,
                   complete>>
    /\ TaskFrame

\* ... and start, whose acknowledgement may be lost.
StartFlight(t) ==
    /\ stage[t] = "start"
    /\ \/ /\ flown' = t /\ paused' = FALSE
          /\ start' = [start EXCEPT ![t] = "SUCCESS"]
          /\ stage' = [stage EXCEPT ![t] = "wait"]
          /\ UNCHANGED ackLost
       \/ /\ flown' = t /\ paused' = FALSE
          /\ Refuse(t) /\ ackLost' = TRUE
       \/ Refuse(t) /\ UNCHANGED <<flown, paused, ackLost>>
    /\ UNCHANGED <<tries, exec, loaded, pushed, complete>>
    /\ TaskFrame

\* Slip: the wait is not guarded by a loop and ends spuriously.
WaitOnce(t) ==
    /\ stage[t] = "wait"
    /\ GoOn(t, "copy")
    /\ UNCHANGED <<tries, exec, ackLost, vehicleVars>>
    /\ TaskFrame

\* Slip: only a success ends the wait.
WaitForSuccess(t) ==
    /\ stage[t] = "wait" /\ finished[t] = "SUCCESS"
    /\ GoOn(t, "copy")
    /\ UNCHANGED <<tries, exec, ackLost, vehicleVars>>
    /\ TaskFrame

\* waitForMissionFinished
Wait(t) ==
    /\ stage[t] = "wait" /\ finished[t] # "UNEXECUTE"
    /\ GoOn(t, "copy")
    /\ UNCHANGED <<tries, exec, ackLost, vehicleVars>>
    /\ TaskFrame

\* return _impl->_finished_rst: the copy is made, no longer under the mutex.
Read(t) ==
    /\ stage[t] = "copy"
    /\ exec' = [exec EXCEPT ![t] = finished[t]]
    /\ GoOn(t, "over")
    /\ UNCHANGED <<tries, ackLost, vehicleVars>>
    /\ TaskFrame

-----------------------------------------------------------------------------
(* The vehicle.                                                            *)

Push(e) == Len(pushed) < MaxQueue /\ pushed' = Append(pushed, e)

VehicleFrame == UNCHANGED <<clientVars, memoryVars, taskVars, loaded,
                            handlerVars, finished, freed, crashed>>

ActionEvent(t, a) == [type |-> "Action", task |-> t, id |-> a]
ExecEvent(t)      == [type |-> "Exec", task |-> t, id |-> 0]
FinishEvent(t)    == [type |-> "Finished", task |-> t, id |-> 0]

\* An action is done; the event may be pushed more than once.
TakePhoto(a) ==
    /\ flown # NoTask /\ ~paused /\ a < loaded
    /\ Push(ActionEvent(flown, a))
    /\ UNCHANGED <<flown, paused, complete>>
    /\ VehicleFrame

\* All waypoints are flown.
CompleteRun ==
    /\ flown # NoTask /\ ~paused /\ flown \notin complete
    /\ Push(ExecEvent(flown))
    /\ complete' = complete \cup {flown}
    /\ UNCHANGED <<flown, paused>>
    /\ VehicleFrame

\* The mission is over, completed or interrupted.
FinishFlight ==
    /\ flown # NoTask /\ ~paused
    /\ Push(FinishEvent(flown))
    /\ flown' = NoTask
    /\ UNCHANGED <<paused, complete>>
    /\ VehicleFrame

-----------------------------------------------------------------------------
(* The SDK's callback thread.                                              *)

CallbackFrame == UNCHANGED <<clientVars, taskVars, flown, loaded, paused,
                             complete>>

Arrives(type) ==
    /\ callback = "idle" /\ pushed # <<>> /\ Head(pushed).type = type
    /\ pushed' = Tail(pushed)

\* An id outside the filter makes it grow by half the id, too little for the
\* ids 0 and 1.
Grown(a) == (a * 3) \div 2
OutsideFilter(a) == a >= size[memory] /\ a >= Grown(a)

Mark(a) ==
    /\ filter' = [filter EXCEPT ![memory] = @ \cup {a}]
    /\ size' = [size EXCEPT ![memory] = IF a < @ THEN @ ELSE Grown(a)]

PostEvent(e) ==
    /\ posted' = posted \cup {e}
    /\ again' = again \cup ({e} \cap posted)

\* Slip: an action that was marked is posted again.
HandleActionUnfiltered ==
    /\ Arrives("Action")
    /\ LET a == Head(pushed).id
           e == <<Head(pushed).task, a>>
       IN  /\ taken' = taken \cup {e}
           /\ Mark(a)
           /\ IF a < actions[memory]
              THEN PostEvent(e) ELSE UNCHANGED <<posted, again>>
    /\ UNCHANGED <<memory, valid, actions, repeated, callback, held, verdict,
                   finished, freed, crashed>>
    /\ CallbackFrame

\* ActionExecEvent: marked actions are dropped; others are marked, and posted
\* if the mission knows them.
HandleAction ==
    /\ Arrives("Action")
    /\ LET a == Head(pushed).id
           e == <<Head(pushed).task, a>>
       IN  /\ taken' = taken \cup {e}
           /\ IF a < size[memory] /\ a \in filter[memory]
              THEN UNCHANGED <<filter, size, posted, again>>
              ELSE /\ Mark(a)
                   /\ IF a < actions[memory]
                      THEN PostEvent(e) ELSE UNCHANGED <<posted, again>>
    /\ UNCHANGED <<memory, valid, actions, repeated, callback, held, verdict,
                   finished, freed, crashed>>
    /\ CallbackFrame

\* A handler uses what the client is changing, or writes outside the filter.
HandleBadly ==
    /\ \/ client = "interpret" /\ (Arrives("Action") \/ Arrives("Finished"))
       \/ Arrives("Action") /\ OutsideFilter(Head(pushed).id)
    /\ crashed' = TRUE
    /\ UNCHANGED <<memoryVars, handlerVars, finished, freed>>
    /\ CallbackFrame

\* MissionExecEvent
HandleExec ==
    /\ Arrives("Exec")
    /\ repeated' = [repeated EXCEPT ![memory] = 1]
    /\ UNCHANGED <<memory, valid, actions, filter, size, handlerVars,
                   finished, freed, crashed>>
    /\ CallbackFrame

\* Slip: a mission flown once counts as interrupted.
HandleFinishStrictly ==
    /\ Arrives("Finished")
    /\ verdict' = IF repeated[memory] <= 1 THEN "INTERRUPTTED" ELSE "SUCCESS"
    /\ held' = current /\ callback' = "notify"
    /\ UNCHANGED <<memoryVars, taken, posted, again, finished, freed, crashed>>
    /\ CallbackFrame

\* MissionFinished: the result is made from the memory, for the current task
\* (total_repeated_times is 0) ...
HandleFinish ==
    /\ Arrives("Finished")
    /\ verdict' = IF repeated[memory] < 1 THEN "INTERRUPTTED" ELSE "SUCCESS"
    /\ held' = current /\ callback' = "notify"
    /\ UNCHANGED <<memoryVars, taken, posted, again, finished, freed, crashed>>
    /\ CallbackFrame

\* Slip: the task that is current by now is notified.
NotifyCurrent ==
    /\ callback = "notify"
    /\ finished' = [finished EXCEPT ![current] = verdict]
    /\ callback' = "release"
    /\ UNCHANGED <<memoryVars, pushed, held, verdict, taken, posted, again,
                   freed, crashed>>
    /\ CallbackFrame

\* ... which is notified; a result that the task's thread copies without the
\* lock at that moment is assigned all the same ...
Notify ==
    /\ callback = "notify"
    /\ finished' = [finished EXCEPT ![held] = verdict]
    /\ stage[held] # "copy" => UNCHANGED crashed
    /\ crashed' \in BOOLEAN
    /\ callback' = "release"
    /\ UNCHANGED <<memoryVars, pushed, held, verdict, taken, posted, again,
                   freed>>
    /\ CallbackFrame

\* ... and let go: the last pointer to a task destroys it.
Release ==
    /\ callback = "release"
    /\ IF held \in {current} \cup {main[p] : p \in Proxies}
       THEN callback' = "idle" /\ held' = NoTask /\ UNCHANGED freed
       ELSE callback' = "join" /\ freed' = freed \cup {held} /\ UNCHANGED held
    /\ UNCHANGED <<memoryVars, pushed, verdict, taken, posted, again, finished,
                   crashed>>
    /\ CallbackFrame

CallbackJoins ==
    /\ callback = "join" /\ stage[held] = "over"
    /\ callback' = "idle" /\ held' = NoTask
    /\ UNCHANGED <<memoryVars, pushed, verdict, taken, posted, again, finished,
                   freed, crashed>>
    /\ CallbackFrame

\* The thread of a task uses Impl after the destructor.
UsesImpl(t) ==
    stage[t] \in {"check", "init", "upload", "action", "start", "wait", "copy"}

UseFreedImpl(t) ==
    /\ t \in freed /\ UsesImpl(t)
    /\ crashed' = TRUE
    /\ UNCHANGED <<memoryVars, pushed, handlerVars, finished, freed>>
    /\ CallbackFrame

-----------------------------------------------------------------------------
ClientReturns ==
    (\E t \in Tasks : GetMainTask(t)) \/ Assign \/ JoinTask \/ Execute

TaskStep(t) ==
    \/ Check(t) \/ InitMission(t) \/ UploadMission(t) \/ UploadAction(t)
    \/ StartFlight(t) \/ Wait(t) \/ Read(t)

CallbackStep ==
    HandleAction \/ HandleExec \/ HandleFinish \/ Notify \/ Release
        \/ CallbackJoins

\* The process is gone.
Halt == crashed /\ UNCHANGED vars

Step ==
    /\ ~crashed
    /\ \/ \E p \in Proxies : OpenProxy(p) \/ CallGetMainTask(p)
       \/ ClientReturns
       \/ Control
       \/ \E t \in Tasks : TaskStep(t)
       \/ \E a \in 0 .. loaded : TakePhoto(a)
       \/ CompleteRun \/ FinishFlight
       \/ CallbackStep
       \/ HandleBadly
       \/ \E t \in Tasks : UseFreedImpl(t)

Next == Step \/ Halt

Spec == Init /\ [][Next]_vars

\* Threads run, SDK calls return, and a vehicle that is not told to hold its
\* position again and again ends its mission.
Fairness ==
    /\ \A t \in Tasks : WF_vars(TaskStep(t) /\ ~crashed)
    /\ WF_vars(CallbackStep /\ ~crashed)
    /\ WF_vars(ClientReturns /\ ~crashed)
    /\ SF_vars(FinishFlight /\ ~crashed)

FairSpec == Spec /\ Fairness

-----------------------------------------------------------------------------
(* Properties.                                                             *)

StageRstType == {"SUCCESS", "FAILED", "INTERRUPTTED", "UNEXECUTE"}
Stages == {"new", "created", "check", "init", "upload", "action", "start",
           "wait", "copy", "over"}
EventTypes == {"Action", "Exec", "Finished"}
TaskOrNot  == Tasks \cup {NoTask}
ProxyOrNot == Proxies \cup {NoProxy}

MemoryTypeOK ==
    /\ memory \in ProxyOrNot
    /\ valid \in [Proxies -> BOOLEAN] /\ actions \in [Proxies -> Nat]
    /\ filter \in [Proxies -> SUBSET Nat] /\ size \in [Proxies -> Nat]
    /\ repeated \in [Proxies -> {0, 1}]

ClientTypeOK ==
    /\ opened \in SUBSET Proxies
    /\ current \in TaskOrNot /\ main \in [Proxies -> TaskOrNot]
    /\ client \in {"idle", "interpret", "assign", "join", "execute"}
    /\ caller \in ProxyOrNot /\ dropped \in TaskOrNot
    /\ careless \in BOOLEAN

TaskTypeOK ==
    /\ stage \in [Tasks -> Stages] /\ ctx \in [Tasks -> ProxyOrNot]
    /\ tries \in [Tasks -> 0 .. Attempts]
    /\ start \in [Tasks -> StageRstType] /\ exec \in [Tasks -> StageRstType]
    /\ finished \in [Tasks -> StageRstType] /\ freed \in SUBSET Tasks
    /\ ackLost \in BOOLEAN

VehicleTypeOK ==
    /\ flown \in TaskOrNot /\ loaded \in Nat /\ paused \in BOOLEAN
    /\ pushed \in Seq([type : EventTypes, task : Tasks, id : Nat])
    /\ complete \in SUBSET Tasks

HandlerTypeOK ==
    /\ callback \in {"idle", "notify", "release", "join"}
    /\ held \in TaskOrNot /\ verdict \in StageRstType
    /\ taken \in SUBSET (Tasks \X Nat) /\ posted \in SUBSET (Tasks \X Nat)
    /\ again \in SUBSET (Tasks \X Nat) /\ crashed \in BOOLEAN

TypeOK == MemoryTypeOK /\ ClientTypeOK /\ TaskTypeOK /\ VehicleTypeOK
            /\ HandlerTypeOK

\* The client waits for the result of a mission before it starts the next or
\* opens a proxy, and no mission runs that was reported as failed.
Orderly == ~careless /\ ~ackLost

\* With an orderly client no thread uses a deleted Impl, no handler meets a
\* memory that is being changed, no result is assigned while it is copied, and
\* no id is outside the filter, though none of them is protected by a lock
\* (~DJIWPMMainTask, executing_stage, getMainTask, ActionExecEvent).
OrderlyIsSafe == crashed => ~Orderly

\* With an orderly client every action of a mission that the vehicle reports,
\* however often, is posted exactly once, also when a proxy flies a second
\* mission (the action id filter of getMainTask and ActionExecEvent).
ActionsPostedOnce == Orderly => taken = posted /\ again = {}

\* A mission that began reports a result once, and never "unexecuted"
\* (executing_stage reads _finished_rst unlocked).
ResultIsReal ==
    \A t \in Tasks :
        stage[t] = "over" =>
            \/ start[t] = "FAILED" /\ exec[t] = "UNEXECUTE"
            \/ start[t] = "SUCCESS" /\ exec[t] \in {"SUCCESS", "INTERRUPTTED"}

\* Where a task is for its listener, by the stage of its thread.
PlaceOf(s) ==
    CASE s \in {"new", "created"} -> "idle"
      [] s \in {"check", "init", "upload", "action", "start"} -> "starting"
      [] s \in {"wait", "copy"} -> "executing"
      [] s = "over" -> "over"

Places == [t \in Tasks |-> PlaceOf(stage[t])]

Task == INSTANCE MissionTask
    WITH at <- Places,
         StartResults <- {"SUCCESS", "FAILED"},
         ExecResults <- {"SUCCESS", "INTERRUPTTED"}

\* Every task of the plugin keeps the contract of MissionTask: it reports the
\* result of its start once and, after a success, one more, which is real:
\* neither "unexecuted" nor "failed".  Other threads write _finished_rst, and
\* executing_stage reads it without the lock (execute, start_stage,
\* executing_stage).
ImplementsTask == Task!Spec

\* With an orderly client a mission whose waypoints were all flown is never
\* reported as interrupted (MissionExecEvent, MissionFinished).
CompletedMeansSuccess ==
    Orderly => \A t \in complete : exec[t] # "INTERRUPTTED"

\* A mission that began ends, unless the vehicle holds its position or the
\* client is not orderly (MissionFinished, waitForMissionFinished).
MissionEnds ==
    <>[]~paused =>
        \A t \in Tasks :
            stage[t] = "wait" ~> stage[t] = "over" \/ ~Orderly \/ crashed

\* startMission of an orderly client returns (~MissionTask).
OrderlyStartReturns ==
    client # "idle" ~> client = "idle" \/ ~Orderly \/ crashed

\* The callback thread, which may join the thread of a task whose last pointer
\* it holds, always comes back for the next event.
CallbackReturns == callback # "idle" ~> callback = "idle" \/ crashed

-----------------------------------------------------------------------------
(* The inductive invariant: why the safety properties above hold.          *)

\* Where the thread of a task can be, and what it has reported.
StagesInv ==
    /\ \A t \in Tasks :
          /\ stage[t] \notin {"wait", "copy", "over"} =>
                 start[t] = "UNEXECUTE" /\ exec[t] = "UNEXECUTE"
          /\ stage[t] \in {"wait", "copy"} =>
                 start[t] = "SUCCESS" /\ exec[t] = "UNEXECUTE"
          /\ stage[t] = "copy" => finished[t] # "UNEXECUTE"
          /\ finished[t] # "FAILED"
          /\ stage[t] \in {"new", "created", "check", "init", "upload"} =>
                 tries[t] < Attempts
    /\ verdict # "FAILED"
    /\ callback = "notify" => verdict # "UNEXECUTE"

\* The pointers to tasks and memories.
PointersInv ==
    /\ opened # {} => memory \in Proxies
    /\ client # "idle" => opened # {} /\ caller \in Proxies
    /\ client \in {"assign", "join", "execute"} =>
           current # NoTask /\ stage[current] = "created"
    /\ client = "assign" => \A p \in Proxies : main[p] # current
    /\ client \in {"join", "execute"} => main[caller] = current
    /\ current = NoTask =>
           /\ \A t \in Tasks : stage[t] = "new"
           /\ flown = NoTask /\ pushed = <<>>
    /\ current # NoTask => stage[current] # "new"
    /\ \A p \in Proxies : main[p] # NoTask => stage[main[p]] # "new"
    /\ callback # "idle" => held # NoTask /\ stage[held] # "new"
    /\ \A t \in Tasks : stage[t] # "new" => ctx[t] \in Proxies
    /\ \A t \in Tasks :
           t = flown \/ t \in complete => stage[t] \in {"wait", "copy", "over"}

\* Something of a flight is still to come.
Busy == flown # NoTask \/ pushed # <<>> \/ callback = "notify"

\* With an orderly client only the current task has no result, it works on the
\* memory the handlers use, and only tasks with a result are destroyed.
OrderInv ==
    /\ \A t \in Tasks : t # current => stage[t] = "new" \/ Reported(t)
    /\ client = "interpret" => ~Pending
    /\ \A t \in freed : stage[t] = "over"
    /\ current # NoTask /\ ~Reported(current) =>
           /\ ctx[current] = memory
           /\ size[memory] = actions[memory]
           /\ stage[current] \in {"start", "wait"} =>
                  loaded = actions[memory]
    /\ \A t \in Tasks :
           stage[t] \notin {"wait", "copy", "over"} => finished[t] = "UNEXECUTE"
    /\ Busy => stage[current] = "wait" /\ finished[current] = "UNEXECUTE"

\* With an orderly client all events on their way are of the current task, and
\* its finish is the last.
EventsInv ==
    /\ flown # NoTask => flown = current
    /\ \A i \in 1 .. Len(pushed) :
          /\ pushed[i].task = current
          /\ pushed[i].type = "Action" => pushed[i].id < loaded
          /\ pushed[i].type = "Finished" => i = Len(pushed) /\ flown = NoTask
    /\ callback = "notify" => held = current /\ flown = NoTask /\ pushed = <<>>

\* With an orderly client the filter marks what was posted for the current
\* task.
FilterInv ==
    /\ current # NoTask /\ ~Reported(current) =>
           /\ \A a \in filter[memory] : <<current, a>> \in posted
           /\ \A e \in posted : e[1] = current => e[2] \in filter[memory]
    /\ \A e \in posted : stage[e[1]] # "new"

\* With an orderly client a mission that is completed has its repetition
\* counted before its finish is handled.
CompleteInv ==
    /\ current \in complete /\ (flown # NoTask \/ pushed # <<>>) =>
           \/ repeated[memory] = 1
           \/ \E i \in 1 .. Len(pushed) : pushed[i].type = "Exec"
    /\ \A t \in complete : finished[t] # "INTERRUPTTED"
    /\ callback = "notify" /\ held \in complete => verdict = "SUCCESS"

IInv ==
    /\ TypeOK /\ StagesInv /\ PointersInv
    /\ Orderly => OrderInv /\ EventsInv /\ FilterInv /\ CompleteInv
    /\ OrderlyIsSafe /\ ActionsPostedOnce /\ ResultIsReal
    /\ CompletedMeansSuccess
=============================================================================
