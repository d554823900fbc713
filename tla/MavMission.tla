----------------------------- MODULE MavMission -----------------------------
(***************************************************************************)
(* Waypoint missions on a MAVLink vehicle: MavMissionInstance, the main    *)
(* tasks it makes (MavWPMMainTask) and the vehicle behind MAVSDK.          *)
(*                                                                         *)
(* Every main task has two threads: its own, which uploads, arms, begins   *)
(* and then waits for a result; and a query thread, which watches for the  *)
(* vehicle to disarm.  The client thread starts missions (dropping the     *)
(* last reference to the previous task) and calls pause, resume, stop and  *)
(* return2home.  What the listener of a task does with the results is in   *)
(* MissionInstance.                                                        *)
(*                                                                         *)
(* The destructor of a task destroys Impl before the base class joins the  *)
(* task's thread.  A thread that then still uses Impl is undefined         *)
(* behaviour, and so is the assignment of a result that the task's thread  *)
(* copies without the lock (an enum and a string): the program may go on   *)
(* as if nothing had happened, or crash.                                   *)
(*                                                                         *)
(* A definition commented "Slip" is wrong on purpose: it is a variant of   *)
(* the definition after it, which shows that a property can fail.          *)
(***************************************************************************)
EXTENDS Naturals, Sequences, FiniteSets

CONSTANTS
    Tasks,   \* bound: the main tasks getMainTask() makes, each once
    NoTask,  \* the null task pointer
    Plans    \* the waypoint lists a client may set

ASSUME ConstantsAssumption == NoTask \notin Tasks /\ Plans # {}

VARIABLES
    plan,      \* _items of the plugin
    items,     \* item_list of the delegate memory: the plans it holds
    uploaded,  \* the vehicle's mission: the plans it holds
    mode,      \* the vehicle's flight mode
    armed,     \* the vehicle is armed
    current,   \* _current_main_task
    dropped,   \* the previous task, while its destructor runs
    client,    \* where the client thread is in startMission
    stage,     \* where the thread of every task is
    query,     \* where the query thread of every task is
    quit,      \* tasks with _query_finished_quit
    freed,     \* tasks whose Impl is deleted
    stageRst,  \* _stage_rst
    start,     \* history: the result OnStartStageFinished was given
    exec,      \* history: the result OnExecutingStageFinished was given
    landed,    \* history: tasks whose query thread saw the vehicle disarmed
    careless,  \* history: the client did not wait for a mission's result
    refused,   \* history: a return home was refused while a mission had no
               \* result yet
    crashed    \* undefined behaviour was not survived, or the process ended

planVars    == <<plan, items, uploaded>>
vehicleVars == <<mode, armed>>
clientVars  == <<current, dropped, client, careless, refused>>
taskVars    == <<stage, stageRst, start, exec>>
queryVars   == <<query, quit, landed>>

vars == <<planVars, vehicleVars, clientVars, taskVars, queryVars, freed, crashed>>

Results == {"Success", "Error"}   \* of a MAVSDK call

Init ==
    /\ plan \in Plans /\ items = <<>> /\ uploaded = <<>>
    /\ mode = "idle" /\ armed = FALSE
    /\ current = NoTask /\ dropped = NoTask /\ client = "idle"
    /\ stage = [t \in Tasks |-> "new"]
    /\ query = [t \in Tasks |-> "none"]
    /\ quit = {} /\ freed = {} /\ landed = {}
    /\ stageRst = [t \in Tasks |-> "UNEXECUTE"]
    /\ start = [t \in Tasks |-> "UNEXECUTE"]
    /\ exec = [t \in Tasks |-> "UNEXECUTE"]
    /\ careless = FALSE /\ refused = FALSE /\ crashed = FALSE

\* The listener has the last result of the task.
Reported(t) == start[t] = "FAILED" \/ exec[t] # "UNEXECUTE"

\* The task's thread copies _stage_rst without the lock.  An assignment then
\* races with the copy: the thread returns either result, or the program
\* crashes over the string beside it.
NotifyMissionFinish(t, result) ==
    /\ stageRst' = [stageRst EXCEPT ![t] = result]
    /\ stage[t] # "copy" => UNCHANGED crashed
    /\ crashed' \in BOOLEAN

-----------------------------------------------------------------------------
(* The client thread.                                                      *)

SetWaypointItems(p) ==
    /\ client = "idle"
    /\ plan' = p
    /\ UNCHANGED <<items, uploaded, vehicleVars, clientVars, taskVars,
                   queryVars, freed, crashed>>

\* interpret appends the plan to what the delegate memory holds.
Interpret == items' = Append(items, plan)

\* getMainTask interprets the plan and makes a task; startMission then drops
\* the previous one.
GetMainTask(t) ==
    /\ client = "idle" /\ stage[t] = "new"
    /\ Interpret
    /\ current' = t /\ dropped' = current
    /\ stage' = [stage EXCEPT ![t] = "created"]
    /\ client' = IF current = NoTask THEN "execute" ELSE "drop"
    /\ careless' = (careless \/ (current # NoTask /\ ~Reported(current)))
    /\ UNCHANGED <<plan, uploaded, vehicleVars, refused, stageRst, start, exec,
                   queryVars, freed, crashed>>

\* Slip: the query thread is joined without being told to quit.
QuitQuerySilently ==
    /\ client = "drop"
    /\ client' = IF query[dropped] = "none" THEN "delete" ELSE "free"
    /\ UNCHANGED <<planVars, vehicleVars, current, dropped, careless, refused,
                   taskVars, queryVars, freed, crashed>>

\* ~Impl of the dropped task: the query thread, if there is one by now, is
\* told to quit ...
QuitQuery ==
    /\ client = "drop"
    /\ \/ /\ query[dropped] # "none"
          /\ quit' = quit \cup {dropped} /\ client' = "free"
       \/ /\ query[dropped] = "none"
          /\ client' = "delete" /\ UNCHANGED quit
    /\ UNCHANGED <<planVars, vehicleVars, current, dropped, careless, refused,
                   taskVars, query, landed, freed, crashed>>

\* Slip: the query thread is not joined.
FreeImplUnjoined ==
    /\ client \in {"free", "delete"}
    /\ freed' = freed \cup {dropped}
    /\ client' = "join"
    /\ UNCHANGED <<planVars, vehicleVars, current, dropped, careless, refused,
                   taskVars, queryVars, crashed>>

\* ... and joined, and Impl is gone.  If the query thread was created after
\* the destructor had looked for it, its std::thread is destroyed joinable,
\* which ends the process.
FreeImpl ==
    /\ \/ client = "free" /\ query[dropped] = "done" /\ UNCHANGED crashed
       \/ client = "delete" /\ crashed' = (query[dropped] # "none")
    /\ freed' = freed \cup {dropped}
    /\ client' = "join"
    /\ UNCHANGED <<planVars, vehicleVars, current, dropped, careless, refused,
                   taskVars, queryVars>>

\* ~MissionTask joins the task's thread.
JoinTask ==
    /\ client = "join" /\ stage[dropped] = "over"
    /\ dropped' = NoTask /\ client' = "execute"
    /\ UNCHANGED <<planVars, vehicleVars, current, careless, refused, taskVars,
                   queryVars, freed, crashed>>

\* _main_task->execute(this)
Execute ==
    /\ client = "execute"
    /\ stage' = [stage EXCEPT ![current] = "upload"]
    /\ client' = "idle"
    /\ UNCHANGED <<planVars, vehicleVars, current, dropped, careless, refused,
                   stageRst, start, exec, queryVars, freed, crashed>>

\* The vehicle obeys a command it accepted, if it flies.
Command(r, m) == mode' = IF r = "Success" /\ armed THEN m ELSE mode

\* pause, resume and stop pass the command on.
Control(m) ==
    /\ client = "idle"
    /\ \E r \in Results : Command(r, m)
    /\ UNCHANGED <<planVars, armed, clientVars, taskVars, queryVars, freed, crashed>>

Pause  == Control("hold")
Resume == Control("mission")
Stop   == Control("land")

\* return2home: is_success is the negation of what its name says, so a
\* rejected command interrupts the current task and an accepted one does not.
Return2Home ==
    /\ client = "idle"
    /\ \E r \in Results :
          /\ Command(r, "return")
          /\ \/ /\ r = "Success"
                /\ UNCHANGED <<stageRst, crashed, careless, refused>>
             \/ /\ r # "Success" /\ current # NoTask
                /\ NotifyMissionFinish(current, "INTERRUPTTED")
                /\ refused' = (refused \/ ~Reported(current))
                /\ UNCHANGED careless
             \/ /\ r # "Success" /\ current = NoTask
                /\ crashed' = TRUE /\ careless' = TRUE
                /\ UNCHANGED <<stageRst, refused>>
    /\ UNCHANGED <<planVars, armed, current, dropped, client, stage, start,
                   exec, queryVars, freed>>

-----------------------------------------------------------------------------
(* The thread of a task.                                                   *)

\* A call of start_stage failed: the listener is told and the thread ends.
Refuse(t) ==
    /\ start' = [start EXCEPT ![t] = "FAILED"]
    /\ stage' = [stage EXCEPT ![t] = "over"]

Upload(t) ==
    /\ stage[t] = "upload"
    /\ \/ /\ uploaded' = items
          /\ stage' = [stage EXCEPT ![t] = "arm"]
          /\ UNCHANGED start
       \/ Refuse(t) /\ UNCHANGED uploaded
    /\ UNCHANGED <<plan, items, vehicleVars, clientVars, stageRst, exec,
                   queryVars, freed, crashed>>

Arm(t) ==
    /\ stage[t] = "arm"
    /\ \/ /\ armed' = TRUE
          /\ stage' = [stage EXCEPT ![t] = "begin"]
          /\ UNCHANGED start
       \/ Refuse(t) /\ UNCHANGED armed
    /\ UNCHANGED <<planVars, mode, clientVars, stageRst, exec, queryVars,
                   freed, crashed>>

\* start_mission, addFinishListener
Begin(t) ==
    /\ stage[t] = "begin"
    /\ \/ /\ Command("Success", "mission")
          /\ stage' = [stage EXCEPT ![t] = "wait"]
          /\ start' = [start EXCEPT ![t] = "SUCCESS"]
          /\ query' = [query EXCEPT ![t] = "watch"]
          /\ quit' = quit \ {t}
       \/ Refuse(t) /\ UNCHANGED <<mode, query, quit>>
    /\ UNCHANGED <<planVars, armed, clientVars, stageRst, exec, landed, freed, crashed>>

\* Slip: the wait is not guarded by a loop and ends spuriously.
WaitOnce(t) ==
    /\ stage[t] = "wait"
    /\ stage' = [stage EXCEPT ![t] = "copy"]
    /\ UNCHANGED <<planVars, vehicleVars, clientVars, stageRst, start, exec,
                   queryVars, freed, crashed>>

\* waitForMissionFinished
Wait(t) ==
    /\ stage[t] = "wait" /\ stageRst[t] # "UNEXECUTE"
    /\ stage' = [stage EXCEPT ![t] = "copy"]
    /\ UNCHANGED <<planVars, vehicleVars, clientVars, stageRst, start, exec,
                   queryVars, freed, crashed>>

\* return _impl->_stage_rst: the copy is made, no longer under the mutex.
Read(t) ==
    /\ stage[t] = "copy"
    /\ exec' = [exec EXCEPT ![t] = stageRst[t]]
    /\ stage' = [stage EXCEPT ![t] = "over"]
    /\ UNCHANGED <<planVars, vehicleVars, clientVars, stageRst, start,
                   queryVars, freed, crashed>>

-----------------------------------------------------------------------------
(* The query thread of a task.                                             *)

\* Slip: the loop looks at the quit flag only.
StopWatchingOnQuit(t) ==
    /\ query[t] = "watch" /\ t \in quit
    /\ query' = [query EXCEPT ![t] = "notify"]
    /\ landed' = IF armed THEN landed ELSE landed \cup {t}
    /\ UNCHANGED <<planVars, vehicleVars, clientVars, taskVars, quit, freed, crashed>>

\* Slip: a vehicle that does not fly the mission counts as landed.
StopWatchingOffMission(t) ==
    /\ query[t] = "watch" /\ (mode # "mission" \/ t \in quit)
    /\ query' = [query EXCEPT ![t] = "notify"]
    /\ landed' = IF armed THEN landed ELSE landed \cup {t}
    /\ UNCHANGED <<planVars, vehicleVars, clientVars, taskVars, quit, freed, crashed>>

\* The loop over armed() ends.
StopWatching(t) ==
    /\ query[t] = "watch" /\ (~armed \/ t \in quit)
    /\ query' = [query EXCEPT ![t] = "notify"]
    /\ landed' = IF armed THEN landed ELSE landed \cup {t}
    /\ UNCHANGED <<planVars, vehicleVars, clientVars, taskVars, quit, freed, crashed>>

\* notifyMissionFinish(SUCCESS), whatever ended the loop: under the lock ...
NotifyFinish(t) ==
    /\ query[t] = "notify"
    /\ NotifyMissionFinish(t, "SUCCESS")
    /\ query' = [query EXCEPT ![t] = "signal"]
    /\ UNCHANGED <<planVars, vehicleVars, clientVars, stage, start, exec, quit,
                   landed, freed>>

\* ... and after it notify_all(), on a condition variable of Impl: the task's
\* thread may have woken by itself, returned, and been joined meanwhile.
Signal(t) ==
    /\ query[t] = "signal"
    /\ query' = [query EXCEPT ![t] = "done"]
    /\ UNCHANGED <<planVars, vehicleVars, clientVars, taskVars, quit, landed,
                   freed, crashed>>

-----------------------------------------------------------------------------
(* The vehicle, and undefined behaviour.                                   *)

\* The vehicle is on the ground and disarms.
Disarm ==
    /\ armed
    /\ armed' = FALSE /\ mode' = "idle"
    /\ UNCHANGED <<planVars, clientVars, taskVars, queryVars, freed,
                   crashed>>

\* A thread uses an Impl that is deleted.
UsesImpl(t) ==
    \/ stage[t] \in {"upload", "arm", "begin", "wait", "copy"}
    \/ query[t] \in {"watch", "notify", "signal"}

UseFreedImpl(t) ==
    /\ t \in freed /\ UsesImpl(t)
    /\ crashed' = TRUE
    /\ UNCHANGED <<planVars, vehicleVars, clientVars, taskVars, queryVars,
                   freed>>

-----------------------------------------------------------------------------
StartMission ==
    \/ \E t \in Tasks : GetMainTask(t)
    \/ QuitQuery \/ FreeImpl \/ JoinTask \/ Execute

TaskStep(t)  == Upload(t) \/ Arm(t) \/ Begin(t) \/ Wait(t) \/ Read(t)
QueryStep(t) == StopWatching(t) \/ NotifyFinish(t) \/ Signal(t)

\* The process is gone.
Halt == crashed /\ UNCHANGED vars

Step ==
    /\ ~crashed
    /\ \/ \E p \in Plans : SetWaypointItems(p)
       \/ StartMission
       \/ Pause \/ Resume \/ Stop \/ Return2Home
       \/ \E t \in Tasks : TaskStep(t)
       \/ \E t \in Tasks : QueryStep(t)
       \/ Disarm
       \/ \E t \in Tasks : UseFreedImpl(t)

Next == Step \/ Halt

Spec == Init /\ [][Next]_vars

\* Threads run, MAVSDK calls return, and a vehicle that is not told to hold
\* its position again and again comes down in the end.
Fairness ==
    /\ \A t \in Tasks : WF_vars(TaskStep(t)) /\ WF_vars(QueryStep(t))
    /\ SF_vars(Disarm /\ mode # "hold")
    /\ WF_vars(QuitQuery \/ FreeImpl \/ JoinTask \/ Execute)

FairSpec == Spec /\ Fairness

-----------------------------------------------------------------------------
(* Properties.                                                             *)

StageRstType == {"SUCCESS", "FAILED", "INTERRUPTTED", "UNEXECUTE"}
Modes        == {"idle", "mission", "hold", "land", "return"}
Stages       == {"new", "created", "upload", "arm", "begin", "wait", "copy",
                 "over"}

TypeOK ==
    /\ plan \in Plans /\ items \in Seq(Plans) /\ uploaded \in Seq(Plans)
    /\ mode \in Modes /\ armed \in BOOLEAN
    /\ current \in Tasks \cup {NoTask} /\ dropped \in Tasks \cup {NoTask}
    /\ client \in {"idle", "drop", "free", "delete", "join", "execute"}
    /\ stage \in [Tasks -> Stages]
    /\ query \in [Tasks -> {"none", "watch", "notify", "signal", "done"}]
    /\ quit \in SUBSET Tasks /\ freed \in SUBSET Tasks
    /\ stageRst \in [Tasks -> StageRstType]
    /\ start \in [Tasks -> StageRstType] /\ exec \in [Tasks -> StageRstType]
    /\ landed \in SUBSET Tasks
    /\ careless \in BOOLEAN /\ refused \in BOOLEAN /\ crashed \in BOOLEAN

\* A mission is reported as finished only if its own query thread saw the
\* vehicle disarmed, or the client has replaced the mission meanwhile
\* (addFinishListener, waitForMissionFinished, ~Impl).
FinishedMeansLanded ==
    \A t \in Tasks : exec[t] = "SUCCESS" => t \in landed \cup quit

\* A client that waits for the result of a mission before it starts the next,
\* is not refused the return home while it waits, and asks for it only when it
\* has started a mission, never meets undefined behaviour: neither the thread
\* of the old task nor its query thread, which notifies a condition variable
\* of Impl after the result can be read, uses Impl after the destructor, though
\* Impl is deleted before the task's thread is joined; and nobody assigns the
\* result while the task's thread copies it (~MavWPMMainTask, ~Impl,
\* notifyMissionFinish, executing_stage, return2home).
PatientClientIsSafe == crashed => careless \/ refused

\* A mission that began reports a result once, and a result other than
\* "unexecuted" or "failed" (executing_stage reads _stage_rst unlocked).
ResultIsReal ==
    \A t \in Tasks :
        stage[t] = "over" =>
            \/ start[t] = "FAILED" /\ exec[t] = "UNEXECUTE"
            \/ start[t] = "SUCCESS" /\ exec[t] \in {"SUCCESS", "INTERRUPTTED"}

\* Where a task is for its listener, by the stage of its thread.
PlaceOf(s) ==
    CASE s \in {"new", "created"} -> "idle"
      [] s \in {"upload", "arm", "begin"} -> "starting"
      [] s \in {"wait", "copy"} -> "executing"
      [] s = "over" -> "over"

Places == [t \in Tasks |-> PlaceOf(stage[t])]

Task == INSTANCE MissionTask
    WITH at <- Places,
         StartResults <- {"SUCCESS", "FAILED"},
         ExecResults <- {"SUCCESS", "INTERRUPTTED"}

\* Every task of the plugin keeps the contract of MissionTask: it reports the
\* result of its start once and, after a success, one more, which is real:
\* neither "unexecuted" nor "failed".  Other threads write _stage_rst, and
\* executing_stage reads it without the lock (execute, start_stage,
\* executing_stage).
ImplementsTask == Task!Spec

\* A mission that began ends, if the vehicle is not held in the air for ever
\* and nothing crashes (addFinishListener, waitForMissionFinished).
MissionEnds ==
    <>[](mode # "hold") =>
        \A t \in Tasks : stage[t] = "wait" ~> stage[t] = "over" \/ crashed

\* The destructor of a task that is over does not wait for the vehicle: the
\* query thread is told to quit (~Impl).
PatientStartReturns ==
    client # "idle" ~> client = "idle" \/ careless \/ crashed

-----------------------------------------------------------------------------
(* The inductive invariant: why the properties above hold.                 *)

\* Where the two threads of a task can be, and what they have reported.
StagesInv ==
    \A t \in Tasks :
        /\ stage[t] \notin {"wait", "copy", "over"} =>
               start[t] = "UNEXECUTE" /\ exec[t] = "UNEXECUTE"
        /\ stage[t] \in {"wait", "copy"} =>
               start[t] = "SUCCESS" /\ exec[t] = "UNEXECUTE"
        /\ stage[t] = "copy" => stageRst[t] # "UNEXECUTE"
        /\ start[t] # "SUCCESS" => query[t] = "none"
        /\ stageRst[t] # "FAILED"

\* What the destructor has done to a task.
DroppedInv ==
    /\ client = "idle" => dropped = NoTask
    /\ client \in {"drop", "free", "delete", "join"} =>
           dropped # NoTask /\ dropped # current
    /\ client # "idle" => current # NoTask
    /\ client = "execute" => dropped = NoTask
    /\ client = "join" => dropped \in freed
    /\ \A t \in Tasks :
          /\ t \in freed => stage[t] \notin {"new", "created"}
          /\ t = dropped => stage[t] \notin {"new", "created"}
          /\ t = current /\ client = "idle" => stage[t] # "created"
          /\ t # current /\ t # dropped =>
                 stage[t] = "new" \/ t \in freed
          /\ stage[t] = "created" <=> t = current /\ client # "idle"
          /\ t = current => stage[t] # "new"

\* Without carelessness only tasks that are over are dropped and freed, and
\* their query threads are gone; a task that is not over was interrupted only
\* by a refused return home.
PatientInv ==
    ~careless =>
        \A t \in Tasks :
            /\ t = dropped => stage[t] = "over"
            /\ t \in freed => stage[t] = "over" /\ query[t] \in {"none", "done"}
            /\ t = dropped /\ client = "free" => t \in quit
            /\ t = dropped /\ client = "delete" => query[t] = "none"
            /\ stageRst[t] = "INTERRUPTTED" => stage[t] = "over" \/ refused

\* SUCCESS comes from the query thread, after it saw the vehicle disarmed or
\* the order to quit.
SuccessInv ==
    \A t \in Tasks :
        /\ query[t] = "notify" \/ stageRst[t] = "SUCCESS" =>
               t \in landed \cup quit
        /\ stageRst[t] = "SUCCESS" => query[t] \in {"signal", "done"}

IInv == TypeOK /\ StagesInv /\ DroppedInv /\ PatientInv /\ SuccessInv
          /\ PatientClientIsSafe /\ FinishedMeansLanded /\ ResultIsReal
=============================================================================
