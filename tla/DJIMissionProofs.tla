-------------------------- MODULE DJIMissionProofs --------------------------
(***************************************************************************)
(* DJI missions, for any number of tasks, proxies, photos and attempts:    *)
(* what an orderly client can rely on.                                     *)
(*                                                                         *)
(* The first part shows that every step keeps the types, part by part; the *)
(* second, action by action, that it keeps the rest of the invariant.      *)
(***************************************************************************)
EXTENDS DJIMission, SequenceTheorems, TLAPS

USE ConstantsAssumption
    DEF memoryVars, clientVars, taskVars, vehicleVars, handlerVars

-----------------------------------------------------------------------------
(* Types.                                                                  *)

\* The head and the tail of a sequence that is not empty.
LEMMA HeadTail ==
    ASSUME NEW S, NEW q \in Seq(S), q # <<>>
    PROVE  /\ Head(q) \in S /\ q[1] = Head(q) /\ Len(q) \in Nat \ {0}
           /\ Len(Tail(q)) = Len(q) - 1
           /\ \A i \in 1 .. Len(q) - 1 : Tail(q)[i] = q[i + 1]
           /\ Len(q) = 1 => Tail(q) = <<>>
  <1>1. /\ Head(q) \in S /\ q[1] = Head(q) /\ Len(q) \in Nat \ {0}
        /\ Len(Tail(q)) = Len(q) - 1 /\ Tail(q) \in Seq(S)
        /\ \A i \in 1 .. Len(q) - 1 : Tail(q)[i] = q[i + 1]
    OBVIOUS
  <1>2. QED
    BY <1>1, EmptySeq

\* A set absorbs its elements, and meets no set of other elements.
LEMMA Absorbed ==
    ASSUME NEW S, NEW e
    PROVE  /\ e \in S => S \cup {e} = S
           /\ e \notin S => {e} \cap S = {}
  OBVIOUS

\* An event that arrives is one that may be pushed.
LEMMA HeadType ==
    ASSUME VehicleTypeOK, pushed # <<>>
    PROVE  /\ Head(pushed) \in [type : EventTypes, task : Tasks, id : Nat]
           /\ pushed[1] = Head(pushed) /\ Len(pushed) \in Nat \ {0}
           /\ Len(Tail(pushed)) = Len(pushed) - 1
           /\ \A i \in 1 .. Len(pushed) - 1 : Tail(pushed)[i] = pushed[i + 1]
           /\ Len(pushed) = 1 => Tail(pushed) = <<>>
  BY HeadTail DEF VehicleTypeOK

\* What is pushed is the last of the events.
LEMMA Appended ==
    ASSUME NEW S, NEW q \in Seq(S), NEW x \in S, NEW r, r = Append(q, x),
           NEW i \in 1 .. Len(r)
    PROVE  \/ i \in 1 .. Len(q) /\ r[i] = q[i]
           \/ i = Len(r) /\ r[i] = x
  OBVIOUS

\* The memories keep their types.
LEMMA MemoryTypes ==
    ASSUME TypeOK, PointersInv, Step
    PROVE  MemoryTypeOK'
  <1> USE DEF TypeOK, MemoryTypeOK
  <1>1. ASSUME NEW p \in Proxies, OpenProxy(p) PROVE MemoryTypeOK'
    BY <1>1 DEF OpenProxy, CreateDelegateMemory, ProxyOrNot
  <1>2. ASSUME NEW t \in Tasks, GetMainTask(t) PROVE MemoryTypeOK'
    <2>1. memory \in Proxies
      BY <1>2 DEF GetMainTask, PointersInv
    <2>2. actions' \in [Proxies -> Nat] /\ valid' \in [Proxies -> BOOLEAN]
      <3>1. actions[memory] + Photos \in Nat
        BY <2>1
      <3>2. CASE actions' = [actions EXCEPT ![memory] = @ + Photos]
                 /\ UNCHANGED valid
        BY <3>1, <3>2
      <3>3. CASE UNCHANGED <<actions, valid>>
        BY <3>3
      <3>4. CASE /\ \E n \in 0 .. actions[memory] + Photos :
                        actions' = [actions EXCEPT ![memory] = n]
                 /\ valid' = [valid EXCEPT ![memory] = FALSE]
        <4>1. PICK n \in 0 .. actions[memory] + Photos :
                  actions' = [actions EXCEPT ![memory] = n]
          BY <3>4
        <4>2. n \in Nat
          BY <3>1
        <4>3. QED
          BY <3>4, <4>1, <4>2
      <3>5. QED
        BY <1>2, <3>2, <3>3, <3>4 DEF GetMainTask, Interpret
    <2>3. size' \in [Proxies -> Nat]
      BY <1>2, <2>1, <2>2 DEF GetMainTask
    <2>4. filter' \in [Proxies -> SUBSET Nat]
      BY <1>2, <2>1 DEF GetMainTask
    <2>5. QED
      BY <1>2, <2>2, <2>3, <2>4 DEF GetMainTask
  <1>3. ASSUME HandleAction PROVE MemoryTypeOK'
    <2>1. Head(pushed).id \in Nat
      BY <1>3, HeadType DEF HandleAction, Arrives
    <2>2. Grown(Head(pushed).id) \in Nat
      BY <2>1 DEF Grown
    <2>3. ASSUME Mark(Head(pushed).id)
          PROVE  /\ filter' \in [Proxies -> SUBSET Nat]
                 /\ size' \in [Proxies -> Nat]
      BY <2>1, <2>2, <2>3 DEF Mark
    <2>4. QED
      BY <1>3, <2>3 DEF HandleAction
  <1>4. ASSUME HandleExec PROVE MemoryTypeOK'
    BY <1>4 DEF HandleExec
  <1>5. ASSUME UNCHANGED memoryVars PROVE MemoryTypeOK'
    BY <1>5
  <1>6. QED
    BY <1>1, <1>2, <1>3, <1>4, <1>5
       DEF Step, CallGetMainTask, ClientReturns, Assign, JoinTask, Execute,
           Control, TaskStep, Check, InitMission, UploadMission, UploadAction,
           StartFlight, Wait, Read, TaskFrame, TakePhoto, CompleteRun,
           FinishFlight, VehicleFrame, CallbackStep, HandleFinish, Notify,
           Release, CallbackJoins, HandleBadly, UseFreedImpl

\* The client's variables keep their types.
LEMMA ClientTypes ==
    ASSUME TypeOK, PointersInv, Step
    PROVE  ClientTypeOK'
  <1> USE DEF TypeOK, ClientTypeOK, TaskOrNot, ProxyOrNot
  <1>1. ASSUME NEW p \in Proxies, OpenProxy(p) \/ CallGetMainTask(p)
        PROVE  ClientTypeOK'
    BY <1>1 DEF OpenProxy, CreateDelegateMemory, CallGetMainTask, Pending, Reported
  <1>2. ASSUME NEW t \in Tasks, GetMainTask(t) PROVE ClientTypeOK'
    BY <1>2 DEF GetMainTask
  <1>3. ASSUME Assign PROVE ClientTypeOK'
    <2>1. main' \in [Proxies -> TaskOrNot]
      BY <1>3 DEF Assign
    <2>2. /\ client' \in {"join", "execute"}
          /\ UNCHANGED <<opened, current, caller, careless>>
      BY <1>3 DEF Assign
    <2>3. dropped' \in TaskOrNot
      <3>1. caller \in Proxies
        BY <1>3 DEF Assign, PointersInv
      <3>2. QED
        BY <1>3, <3>1 DEF Assign
    <2>4. QED
      BY <2>1, <2>2, <2>3
  <1>4. ASSUME JoinTask \/ Execute PROVE ClientTypeOK'
    BY <1>4 DEF JoinTask, Execute
  <1>5. ASSUME UNCHANGED clientVars PROVE ClientTypeOK'
    BY <1>5
  <1>6. QED
    BY <1>1, <1>2, <1>3, <1>4, <1>5
       DEF Step, ClientReturns, Control, TaskStep, Check, InitMission,
           UploadMission, UploadAction, StartFlight, Wait, Read, TaskFrame,
           TakePhoto, CompleteRun, FinishFlight, VehicleFrame, CallbackStep,
           HandleAction, HandleExec, HandleFinish, Notify, Release,
           CallbackJoins, HandleBadly, UseFreedImpl, CallbackFrame

\* The variables of the tasks keep their types.
LEMMA TaskTypes ==
    ASSUME TypeOK, StagesInv, PointersInv, Step
    PROVE  TaskTypeOK'
  <1> USE DEF TypeOK, TaskTypeOK, Stages, StageRstType
  <1>1. ASSUME NEW t \in Tasks, GetMainTask(t) PROVE TaskTypeOK'
    BY <1>1 DEF GetMainTask, MemoryTypeOK
  <1>2. ASSUME Assign \/ Release \/ Notify PROVE TaskTypeOK'
    <2>1. UNCHANGED taskVars
      BY <1>2 DEF Assign, Release, Notify, CallbackFrame
    <2>2. freed' \in SUBSET Tasks
      <3>1. CASE Assign
        BY <3>1 DEF Assign, ClientTypeOK, TaskOrNot, PointersInv
      <3>2. CASE Release
        BY <3>2 DEF Release, HandlerTypeOK, TaskOrNot, PointersInv
      <3>3. CASE Notify
        BY <3>3 DEF Notify
      <3>4. QED
        BY <1>2, <3>1, <3>2, <3>3
    <2>3. finished' \in [Tasks -> StageRstType]
      BY <1>2 DEF Assign, Release, Notify, HandlerTypeOK
    <2>4. QED
      BY <2>1, <2>2, <2>3
  <1>3. ASSUME Execute PROVE TaskTypeOK'
    BY <1>3 DEF Execute
  <1>4. ASSUME NEW t \in Tasks, TaskStep(t) PROVE TaskTypeOK'
    <2>1. UNCHANGED <<ctx, finished, freed>>
      BY <1>4 DEF TaskStep, Check, InitMission, UploadMission, UploadAction,
                  StartFlight, Wait, Read, TaskFrame
    <2>2. /\ stage' \in [Tasks -> Stages]
          /\ start' \in [Tasks -> StageRstType]
          /\ exec' \in [Tasks -> StageRstType]
      <3>1. CASE Check(t) \/ InitMission(t) \/ Wait(t) \/ Read(t)
        BY <3>1 DEF Check, InitMission, Wait, Read, GoOn, Refuse
      <3>2. CASE UploadMission(t) \/ UploadAction(t) \/ StartFlight(t)
        BY <3>2 DEF UploadMission, UploadAction, StartFlight, GoOn, Refuse
      <3>3. QED
        BY <1>4, <3>1, <3>2 DEF TaskStep
    <2>3. tries' \in [Tasks -> 0 .. Attempts]
      <3>1. CASE UploadMission(t)
        <4>1. tries[t] + 1 \in 0 .. Attempts
          BY <3>1 DEF UploadMission, StagesInv
        <4>2. QED
          BY <3>1, <4>1 DEF UploadMission
      <3>2. CASE UNCHANGED tries
        BY <3>2
      <3>3. QED
        BY <1>4, <3>1, <3>2 DEF TaskStep, Check, InitMission, UploadAction,
                                StartFlight, Wait, Read
    <2>4. ackLost' \in BOOLEAN
      BY <1>4 DEF TaskStep, Check, InitMission, UploadMission, UploadAction,
                  StartFlight, Wait, Read
    <2>5. QED
      BY <2>1, <2>2, <2>3, <2>4
  <1>5. ASSUME UNCHANGED <<taskVars, finished, freed>> PROVE TaskTypeOK'
    BY <1>5
  <1>6. QED
    BY <1>1, <1>2, <1>3, <1>4, <1>5
       DEF Step, OpenProxy, CreateDelegateMemory, CallGetMainTask, ClientReturns, JoinTask, Control,
           TakePhoto, CompleteRun, FinishFlight, VehicleFrame, CallbackStep,
           HandleAction, HandleExec, HandleFinish, CallbackJoins, HandleBadly,
           UseFreedImpl, CallbackFrame

\* The vehicle's variables keep their types.
LEMMA VehicleTypes ==
    ASSUME TypeOK, PointersInv, Step
    PROVE  VehicleTypeOK'
  <1> USE DEF TypeOK, VehicleTypeOK, TaskOrNot
  <1> DEFINE Events == [type : EventTypes, task : Tasks, id : Nat]
  <1>1. ASSUME Control PROVE VehicleTypeOK'
    BY <1>1 DEF Control
  <1>2. ASSUME NEW t \in Tasks, UploadAction(t) PROVE VehicleTypeOK'
    <2>1. actions[ctx[t]] \in Nat
      BY <1>2 DEF UploadAction, PointersInv, MemoryTypeOK
    <2>2. QED
      BY <1>2, <2>1 DEF UploadAction
  <1>3. ASSUME NEW t \in Tasks, StartFlight(t) PROVE VehicleTypeOK'
    BY <1>3 DEF StartFlight
  <1>4. ASSUME NEW e \in Events, Push(e) PROVE pushed' \in Seq(Events)
    BY <1>4 DEF Push
  <1>5. ASSUME NEW a \in Nat, TakePhoto(a) PROVE VehicleTypeOK'
    <2>1. ActionEvent(flown, a) \in Events
      BY <1>5 DEF TakePhoto, ActionEvent, EventTypes
    <2>2. QED
      BY <1>4, <1>5, <2>1 DEF TakePhoto, VehicleFrame
  <1>6. ASSUME CompleteRun \/ FinishFlight PROVE VehicleTypeOK'
    <2>1. ExecEvent(flown) \in Events /\ FinishEvent(flown) \in Events
      BY <1>6 DEF CompleteRun, FinishFlight, ExecEvent, FinishEvent, EventTypes
    <2>2. QED
      BY <1>4, <1>6, <2>1 DEF CompleteRun, FinishFlight, VehicleFrame
  <1>7. ASSUME UNCHANGED <<flown, loaded, paused, complete>>,
               pushed # <<>>, pushed' = Tail(pushed)
        PROVE  VehicleTypeOK'
    BY <1>7
  <1>8. ASSUME UNCHANGED vehicleVars PROVE VehicleTypeOK'
    BY <1>8
  <1>9. QED
    <2>1. ASSUME NEW a \in 0 .. loaded, TakePhoto(a) PROVE VehicleTypeOK'
      <3>1. a \in Nat
        OBVIOUS
      <3>2. QED
        BY <1>5, <2>1, <3>1
    <2>2. CASE CallbackStep \/ HandleBadly \/ \E t \in Tasks : UseFreedImpl(t)
      BY <1>7, <1>8, <2>2
         DEF CallbackStep, HandleAction, HandleExec, HandleFinish, Notify,
             Release, CallbackJoins, HandleBadly, UseFreedImpl, Arrives,
             CallbackFrame
    <2>3. CASE \E t \in Tasks : TaskStep(t)
      BY <1>2, <1>3, <1>8, <2>3
         DEF TaskStep, Check, InitMission, UploadMission, Wait, Read
    <2>4. CASE \/ \E p \in Proxies : OpenProxy(p) \/ CallGetMainTask(p)
               \/ ClientReturns
      BY <1>8, <2>4 DEF OpenProxy, CreateDelegateMemory, CallGetMainTask, ClientReturns, GetMainTask,
                        Assign, JoinTask, Execute
    <2>5. QED
      BY <1>1, <1>6, <2>1, <2>2, <2>3, <2>4 DEF Step

\* The variables of the callback thread keep their types.
LEMMA HandlerTypes ==
    ASSUME TypeOK, Step
    PROVE  HandlerTypeOK'
  <1> USE DEF TypeOK, HandlerTypeOK, TaskOrNot
  <1>1. ASSUME HandleAction PROVE HandlerTypeOK'
    <2>1. Head(pushed).task \in Tasks /\ Head(pushed).id \in Nat
      BY <1>1, HeadType DEF HandleAction, Arrives
    <2>2. <<Head(pushed).task, Head(pushed).id>> \in Tasks \X Nat
      BY <2>1
    <2>3. taken' \in SUBSET (Tasks \X Nat)
      BY <1>1, <2>2 DEF HandleAction
    <2>4. posted' \in SUBSET (Tasks \X Nat) /\ again' \in SUBSET (Tasks \X Nat)
      BY <1>1, <2>2 DEF HandleAction, PostEvent
    <2>5. QED
      BY <1>1, <2>3, <2>4 DEF HandleAction
  <1>2. ASSUME HandleFinish PROVE HandlerTypeOK'
    BY <1>2 DEF HandleFinish, ClientTypeOK, StageRstType
  <1>3. ASSUME Notify \/ Release \/ CallbackJoins PROVE HandlerTypeOK'
    BY <1>3 DEF Notify, Release, CallbackJoins
  <1>4. ASSUME UNCHANGED handlerVars, crashed' \in BOOLEAN
        PROVE  HandlerTypeOK'
    BY <1>4
  <1>5. QED
    BY <1>1, <1>2, <1>3, <1>4
       DEF Step, OpenProxy, CreateDelegateMemory, CallGetMainTask, ClientReturns, GetMainTask,
           Assign, JoinTask, Execute, Control, TaskStep, Check, InitMission,
           UploadMission, UploadAction, StartFlight, Wait, Read, TaskFrame,
           TakePhoto, CompleteRun, FinishFlight, VehicleFrame, CallbackStep,
           HandleExec, HandleBadly, UseFreedImpl

-----------------------------------------------------------------------------
(* The rest of the invariant.                                              *)

USE DEF IInv, TypeOK, MemoryTypeOK, ClientTypeOK, TaskTypeOK, VehicleTypeOK,
        HandlerTypeOK, Stages, TaskOrNot, Orderly

\* While something of a flight is to come, with an orderly client.
LEMMA BusyFacts ==
    ASSUME IInv, Orderly, Busy
    PROVE  /\ current \in Tasks /\ memory \in Proxies
           /\ stage[current] = "wait" /\ ~Reported(current) /\ Pending
           /\ client = "idle" /\ finished[current] = "UNEXECUTE"
           /\ ctx[current] = memory
           /\ size[memory] = loaded /\ actions[memory] = loaded
  <1>1. stage[current] = "wait" /\ finished[current] = "UNEXECUTE"
    BY DEF OrderInv
  <1>2. current \in Tasks
    <2>1. current # NoTask
      BY DEF PointersInv, Busy, EventsInv
    <2>2. QED
      BY <2>1
  <1>3. ~Reported(current) /\ Pending
    BY <1>1, <1>2 DEF StagesInv, Reported, Pending
  <1>4. client = "idle"
    BY <1>1, <1>3 DEF OrderInv, PointersInv
  <1>5. ctx[current] = memory /\ ctx[current] \in Proxies
    BY <1>1, <1>2, <1>3 DEF OrderInv, PointersInv
  <1>6. size[memory] = loaded /\ actions[memory] = loaded
    BY <1>1, <1>2, <1>3 DEF OrderInv
  <1>7. QED
    BY <1>1, <1>2, <1>3, <1>4, <1>5, <1>6

\* Before the flight of a task, with an orderly client.
LEMMA BeforeFlight ==
    ASSUME NEW u \in Tasks, IInv, Orderly,
           stage[u] \in {"created", "check", "init", "upload", "action",
                         "start"}
    PROVE  /\ u = current /\ ~Busy /\ client # "interpret" /\ ~Reported(u)
           /\ Pending /\ u \notin freed /\ u \notin complete
           /\ ctx[u] = memory /\ memory \in Proxies
           /\ size[memory] = actions[memory]
  <1>1. ~Reported(u) /\ Pending
    BY DEF StagesInv, Reported, Pending
  <1>2. u = current
    BY <1>1 DEF OrderInv
  <1>3. ~Busy /\ client # "interpret" /\ u \notin freed
    BY <1>1, <1>2 DEF OrderInv
  <1>4. ctx[u] = memory /\ size[memory] = actions[memory] /\ ctx[u] \in Proxies
    BY <1>1, <1>2 DEF OrderInv, PointersInv
  <1>5. u \notin complete
    BY DEF PointersInv
  <1>6. QED
    BY <1>1, <1>2, <1>3, <1>4, <1>5

\* A task that has reported is over.
LEMMA ReportedIsOver ==
    ASSUME NEW t \in Tasks, StagesInv, TypeOK, Reported(t)
    PROVE  stage[t] = "over"
  BY DEF StagesInv, Reported

\* Steps of a task that has been executed keep the pointers.
LEMMA TaskMoves ==
    ASSUME NEW u \in Tasks, NEW s \in Stages, IInv,
           stage[u] \notin {"new", "created"}, s \notin {"new", "created"},
           stage[u] \in {"wait", "copy", "over"} => s \in {"copy", "over"},
           stage' = [stage EXCEPT ![u] = s],
           UNCHANGED <<clientVars, memoryVars, handlerVars, ctx, pushed,
                       complete>>,
           flown' = flown \/ (flown' = u /\ s \in {"wait", "over"})
    PROVE  PointersInv'
  <1>1. /\ opened' # {} => memory' \in Proxies
        /\ client' # "idle" => opened' # {} /\ caller' \in Proxies
    BY DEF PointersInv
  <1>2. /\ client' \in {"assign", "join", "execute"} =>
               current' # NoTask /\ stage'[current'] = "created"
        /\ client' = "assign" => \A p \in Proxies : main'[p] # current'
        /\ client' \in {"join", "execute"} => main'[caller'] = current'
    BY DEF PointersInv
  <1>3. current' # NoTask
    BY DEF PointersInv
  <1>4. /\ stage'[current'] # "new"
        /\ \A p \in Proxies : main'[p] # NoTask => stage'[main'[p]] # "new"
        /\ callback' # "idle" => held' # NoTask /\ stage'[held'] # "new"
    BY <1>3 DEF PointersInv
  <1>5. \A t \in Tasks : stage'[t] # "new" => ctx'[t] \in Proxies
    BY DEF PointersInv
  <1>6. \A t \in Tasks :
            t = flown' \/ t \in complete' =>
                stage'[t] \in {"wait", "copy", "over"}
    BY DEF PointersInv
  <1>7. QED
    BY <1>1, <1>2, <1>3, <1>4, <1>5, <1>6 DEF PointersInv

\* Steps that leave the filter, the posted actions and the current task alone
\* keep what the filter marks.
LEMMA FilterKept ==
    ASSUME IInv, Orderly, UNCHANGED <<current, memory, filter, posted>>,
           \A t \in Tasks : stage[t] # "new" => stage'[t] # "new",
           current \in Tasks /\ Reported(current) => Reported(current)'
    PROVE  FilterInv'
  <1>1. current # NoTask /\ ~Reported(current)' =>
            /\ \A a \in filter[memory] : <<current, a>> \in posted
            /\ \A e \in posted : e[1] = current => e[2] \in filter[memory]
    <2>1. current # NoTask => current \in Tasks
      BY DEF IInv, TypeOK, ClientTypeOK, TaskOrNot
    <2>2. FilterInv
      BY DEF IInv
    <2>3. QED
      BY <2>1, <2>2 DEF FilterInv
  <1>2. \A e \in posted : stage'[e[1]] # "new"
    <2>1. \A e \in posted : e[1] \in Tasks
      BY DEF IInv, TypeOK, HandlerTypeOK
    <2>2. \A e \in posted : stage[e[1]] # "new"
      BY DEF IInv, FilterInv
    <2>3. QED
      BY <2>1, <2>2
  <1>3. QED
    BY <1>1, <1>2 DEF FilterInv

\* Steps of a task before its flight keep the order, with an orderly client.
LEMMA StageChange ==
    ASSUME NEW u \in Tasks, IInv, Orderly,
           stage[u] \in {"check", "init", "upload", "action", "start"},
           NEW s \in {"init", "upload", "action", "start", "wait", "over"},
           stage' = [stage EXCEPT ![u] = s],
           UNCHANGED <<clientVars, memoryVars, ctx, finished, freed, exec,
                       callback>>,
           \A t \in Tasks : t # u => start'[t] = start[t],
           s = "over" => start'[u] = "FAILED",
           s = "start" => loaded' = actions[ctx[u]],
           s = "wait" => loaded' = loaded /\ stage[u] = "start",
           s \notin {"wait", "over"} => UNCHANGED <<flown, pushed>>,
           s = "over" => ~Busy'
    PROVE  OrderInv'
  <1>1. /\ u = current /\ ~Busy /\ client # "interpret" /\ u \notin freed
        /\ ctx[u] = memory /\ memory \in Proxies
        /\ size[memory] = actions[memory]
    BY BeforeFlight
  <1>2. \A t \in Tasks : t # current' => stage'[t] = "new" \/ Reported(t)'
    BY <1>1 DEF OrderInv, Reported
  <1>3. client' # "interpret" /\ \A t \in freed' : stage'[t] = "over"
    BY <1>1 DEF OrderInv
  <1>4. ~Reported(current)' =>
            /\ ctx'[current'] = memory' /\ size'[memory'] = actions'[memory']
            /\ stage'[current'] \in {"start", "wait"} =>
                   loaded' = actions'[memory']
    BY <1>1 DEF OrderInv, Reported, StagesInv
  <1>5. \A t \in Tasks : stage'[t] \notin {"wait", "copy", "over"} =>
            finished'[t] = "UNEXECUTE"
    BY DEF OrderInv
  <1>6. Busy' => stage'[current'] = "wait" /\ finished'[current'] = "UNEXECUTE"
    BY <1>1 DEF Busy, OrderInv
  <1>7. QED
    BY <1>2, <1>3, <1>4, <1>5, <1>6 DEF OrderInv

\* OpenProxy keeps the inductive invariant.
LEMMA OpenProxyStep ==
    ASSUME NEW p \in Proxies, IInv, OpenProxy(p), TypeOK'
    PROVE  IInv'
  <1>1. StagesInv' /\ ResultIsReal'
    BY DEF StagesInv, ResultIsReal, OpenProxy, CreateDelegateMemory
  <1>2. PointersInv'
    BY DEF PointersInv, StagesInv, OpenProxy, CreateDelegateMemory
  <1>3. Orderly' => Orderly
    BY DEF OpenProxy, CreateDelegateMemory
  <1>4. Orderly' => OrderInv'
    BY <1>3 DEF OrderInv, EventsInv, Pending, PointersInv, StagesInv, Busy,
           Reported, OpenProxy, CreateDelegateMemory
  <1>5. Orderly' => EventsInv'
    BY <1>3 DEF OrderInv, EventsInv, PointersInv, StagesInv, Busy, Reported,
           OpenProxy, CreateDelegateMemory
  <1>6. Orderly' => FilterInv'
    <2>1. Orderly' => current = NoTask \/ Reported(current)
      BY DEF OpenProxy, CreateDelegateMemory, Pending, PointersInv
    <2>2. QED
      BY <1>3, <2>1 DEF FilterInv, Reported, OpenProxy, CreateDelegateMemory
  <1>7. Orderly' => CompleteInv'
    <2>1. Orderly' => ~Busy
      BY <1>3, BusyFacts DEF OpenProxy, CreateDelegateMemory
    <2>2. QED
      BY <1>3, <2>1 DEF CompleteInv, Busy, OpenProxy, CreateDelegateMemory
  <1>8. OrderlyIsSafe' /\ ActionsPostedOnce' /\ CompletedMeansSuccess'
    BY <1>3 DEF OrderInv, EventsInv, FilterInv, CompleteInv, OrderlyIsSafe,
           ActionsPostedOnce, CompletedMeansSuccess, PointersInv, StagesInv,
           Busy, Reported, OpenProxy, CreateDelegateMemory
  <1>9. QED
    BY <1>1, <1>2, <1>4, <1>5, <1>6, <1>7, <1>8 DEF IInv

\* CallGetMainTask keeps the inductive invariant.
LEMMA CallGetMainTaskStep ==
    ASSUME NEW p \in Proxies, IInv, CallGetMainTask(p), TypeOK'
    PROVE  IInv'
  <1>1. StagesInv' /\ ResultIsReal'
    BY DEF StagesInv, ResultIsReal, CallGetMainTask
  <1>2. PointersInv'
    BY DEF PointersInv, StagesInv, CallGetMainTask
  <1>3. Orderly' => Orderly
    BY DEF CallGetMainTask
  <1>4. Orderly' => OrderInv'
    BY <1>3 DEF OrderInv, EventsInv, Pending, PointersInv, StagesInv, Busy,
           Reported, CallGetMainTask
  <1>5. Orderly' => EventsInv'
    BY <1>3 DEF OrderInv, EventsInv, PointersInv, StagesInv, Busy, Reported,
           CallGetMainTask
  <1>6. Orderly' => FilterInv'
    BY <1>3 DEF OrderInv, EventsInv, FilterInv, PointersInv, StagesInv, Busy,
           Reported, CallGetMainTask
  <1>7. Orderly' => CompleteInv'
    BY <1>3 DEF OrderInv, EventsInv, CompleteInv, PointersInv, StagesInv,
           Busy, Reported, CallGetMainTask
  <1>8. OrderlyIsSafe' /\ ActionsPostedOnce' /\ CompletedMeansSuccess'
    BY <1>3 DEF OrderInv, EventsInv, FilterInv, CompleteInv, OrderlyIsSafe,
           ActionsPostedOnce, CompletedMeansSuccess, PointersInv, StagesInv,
           Busy, Reported, CallGetMainTask
  <1>9. QED
    BY <1>1, <1>2, <1>4, <1>5, <1>6, <1>7, <1>8 DEF IInv

\* GetMainTask keeps the inductive invariant.
LEMMA GetMainTaskStep ==
    ASSUME NEW u \in Tasks, IInv, GetMainTask(u), TypeOK'
    PROVE  IInv'
  <1>a. /\ stage[u] = "new" /\ client = "interpret" /\ client' = "assign"
        /\ stage' = [stage EXCEPT ![u] = "created"]
        /\ ctx' = [ctx EXCEPT ![u] = memory]
        /\ current' = u /\ u # NoTask
        /\ memory \in Proxies /\ opened # {} /\ caller \in Proxies
    BY DEF GetMainTask, PointersInv
  <1>b. Orderly => ~Pending /\ ~Busy
    BY <1>a, BusyFacts DEF OrderInv
  <1>1. StagesInv' /\ ResultIsReal'
    BY DEF StagesInv, ResultIsReal, GetMainTask, Interpret
  <1>2. PointersInv'
    <2>1. \A p \in Proxies : main[p] # u
      BY <1>a DEF PointersInv
    <2>2. UNCHANGED <<memory, opened, caller, main, flown, complete, callback,
                      held>>
      BY DEF GetMainTask
    <2>0. \A t \in Tasks : t # u => stage'[t] = stage[t] /\ ctx'[t] = ctx[t]
      BY <1>a
    <2>3. \A t \in Tasks : /\ stage[t] # "new" => stage'[t] = stage[t]
                           /\ stage'[t] # "new" => ctx'[t] \in Proxies
      <3> SUFFICES ASSUME NEW t \in Tasks
                   PROVE  /\ stage[t] # "new" => stage'[t] = stage[t]
                          /\ stage'[t] # "new" => ctx'[t] \in Proxies
        OBVIOUS
      <3>1. CASE t = u
        BY <1>a, <3>1
      <3>2. CASE t # u
        BY <2>0, <3>2 DEF PointersInv
      <3>3. QED
        BY <3>1, <3>2
    <2>4. /\ \A p \in Proxies : main'[p] # NoTask => stage'[main'[p]] # "new"
          /\ \A t \in Tasks : t = flown' \/ t \in complete' =>
                                  stage'[t] \in {"wait", "copy", "over"}
          /\ callback' # "idle" => held' # NoTask /\ stage'[held'] # "new"
      <3>1. \A p \in Proxies : main[p] # NoTask => main[p] \in Tasks
        BY DEF ClientTypeOK, TaskOrNot
      <3>2. \A p \in Proxies : main'[p] # NoTask => stage'[main'[p]] # "new"
        BY <2>2, <2>3, <3>1 DEF PointersInv
      <3>3. \A t \in Tasks : t = flown' \/ t \in complete' =>
                                 stage'[t] \in {"wait", "copy", "over"}
        BY <2>2, <2>3 DEF PointersInv
      <3>4. callback' # "idle" => held' # NoTask /\ held' \in Tasks
                                  /\ stage'[held'] # "new"
        BY <2>2, <2>3 DEF PointersInv, HandlerTypeOK, TaskOrNot
      <3>5. QED
        BY <3>2, <3>3, <3>4
    <2>5. current' # NoTask /\ stage'[current'] = "created"
          /\ \A p \in Proxies : main'[p] # current'
      BY <1>a, <2>1, <2>2
    <2>6. QED
      BY <1>a, <2>2, <2>3, <2>4, <2>5 DEF PointersInv
  <1>3. Orderly' => Orderly
    BY DEF GetMainTask, Interpret
  <1>4. Orderly' => OrderInv'
    <2>1. UNCHANGED <<memory, flown, pushed, callback, start, exec, finished,
                      freed, loaded>>
      BY DEF GetMainTask
    <2>2. size'[memory] = actions'[memory]
      BY <1>a DEF GetMainTask
    <2>3. Orderly => \A t \in Tasks : stage[t] # "new" => Reported(t)
      BY <1>b DEF Pending
    <2>4. Orderly => ~Busy'
      BY <1>b, <2>1 DEF Busy
    <2>5. QED
      <3> SUFFICES ASSUME Orderly PROVE OrderInv'
        BY <1>3
      <3>1. current' = u /\ client' = "assign" /\ stage'[u] = "created"
            /\ ctx'[u] = memory'
        BY <1>a, <2>1 DEF GetMainTask
      <3>2. \A t \in Tasks : t # u => stage'[t] = stage[t]
        BY <1>a
      <3>3. \A t \in Tasks : Reported(t)' = Reported(t)
        BY <2>1 DEF Reported
      <3>4. \A t \in freed' : t # u /\ t \in Tasks /\ stage'[t] = "over"
        BY <1>a, <2>1, <3>2 DEF OrderInv, HandlerTypeOK, TaskTypeOK
      <3>5. \A t \in Tasks : stage'[t] \notin {"wait", "copy", "over"} =>
                finished'[t] = "UNEXECUTE"
        BY <1>a, <2>1, <3>2 DEF OrderInv
      <3>6. QED
        <4>1. \A t \in Tasks : t # current' => stage'[t] = "new" \/ Reported(t)'
          BY <2>3, <3>1, <3>2, <3>3
        <4>2. /\ client' # "interpret" /\ \A t \in freed' : stage'[t] = "over"
              /\ ctx'[current'] = memory' /\ size'[memory'] = actions'[memory']
              /\ stage'[current'] \notin {"start", "wait"}
          BY <2>1, <2>2, <3>1, <3>4
        <4>3. QED
          BY <2>4, <3>5, <4>1, <4>2 DEF OrderInv
  <1>5. Orderly' => EventsInv'
    BY <1>3, <1>a, <1>b DEF EventsInv, Busy, GetMainTask
  <1>6. Orderly' => FilterInv'
    <2> SUFFICES ASSUME Orderly PROVE FilterInv'
      BY <1>3
    <2>1. FilterInv /\ \A e \in posted : e[1] \in Tasks
      BY DEF HandlerTypeOK
    <2>2. \A e \in posted : e[1] # u
      BY <1>a, <2>1 DEF FilterInv
    <2>3. current' = u /\ memory' = memory /\ posted' = posted
          /\ filter'[memory] = {}
      BY <1>a DEF GetMainTask
    <2>4. \A e \in posted : stage'[e[1]] # "new"
      <3>1. \A t \in Tasks : t # u => stage'[t] = stage[t]
        BY <1>a
      <3>2. QED
        BY <2>1, <2>2, <3>1 DEF FilterInv
    <2>5. QED
      BY <2>2, <2>3, <2>4 DEF FilterInv
  <1>7. Orderly' => CompleteInv'
    BY <1>3 DEF OrderInv, EventsInv, CompleteInv, PointersInv, StagesInv,
           Busy, Reported, GetMainTask, Interpret
  <1>8. OrderlyIsSafe' /\ ActionsPostedOnce' /\ CompletedMeansSuccess'
    BY <1>3 DEF OrderInv, EventsInv, FilterInv, CompleteInv, OrderlyIsSafe,
           ActionsPostedOnce, CompletedMeansSuccess, PointersInv, StagesInv,
           Busy, Reported, GetMainTask, Interpret
  <1>9. QED
    BY <1>1, <1>2, <1>4, <1>5, <1>6, <1>7, <1>8 DEF IInv

\* Assign keeps the inductive invariant.
LEMMA AssignStep ==
    ASSUME IInv, Assign, TypeOK'
    PROVE  IInv'
  <1>1. StagesInv' /\ ResultIsReal'
    BY DEF StagesInv, ResultIsReal, Assign
  <1>2. PointersInv'
    BY DEF PointersInv, StagesInv, Assign
  <1>3. Orderly' => Orderly
    BY DEF Assign
  <1>4. Orderly' => OrderInv'
    <2>1. Orderly /\ main[caller] # NoTask => stage[main[caller]] = "over"
      <3> SUFFICES ASSUME Orderly, main[caller] # NoTask
                   PROVE  stage[main[caller]] = "over"
        OBVIOUS
      <3>1. caller \in Proxies /\ main[caller] \in Tasks
        BY DEF Assign, PointersInv
      <3>2. stage[main[caller]] # "new" /\ main[caller] # current
        BY <3>1 DEF Assign, PointersInv
      <3>3. Reported(main[caller])
        BY <3>1, <3>2 DEF OrderInv
      <3>4. QED
        BY <3>1, <3>3, ReportedIsOver
    <2>2. Orderly => \A t \in freed' : stage[t] = "over"
      BY <2>1 DEF Assign, OrderInv
    <2>3. QED
      BY <1>3, <2>2 DEF OrderInv, Busy, Reported, Pending, Assign
  <1>5. Orderly' => EventsInv'
    BY <1>3 DEF OrderInv, EventsInv, PointersInv, StagesInv, Busy, Reported,
           Assign
  <1>6. Orderly' => FilterInv'
    BY <1>3 DEF OrderInv, EventsInv, FilterInv, PointersInv, StagesInv, Busy,
           Reported, Assign
  <1>7. Orderly' => CompleteInv'
    BY <1>3 DEF OrderInv, EventsInv, CompleteInv, PointersInv, StagesInv,
           Busy, Reported, Assign
  <1>8. OrderlyIsSafe' /\ ActionsPostedOnce' /\ CompletedMeansSuccess'
    BY <1>3 DEF OrderInv, EventsInv, FilterInv, CompleteInv, OrderlyIsSafe,
           ActionsPostedOnce, CompletedMeansSuccess, PointersInv, StagesInv,
           Busy, Reported, Assign
  <1>9. QED
    BY <1>1, <1>2, <1>4, <1>5, <1>6, <1>7, <1>8 DEF IInv

\* JoinTask keeps the inductive invariant.
LEMMA JoinTaskStep ==
    ASSUME IInv, JoinTask, TypeOK'
    PROVE  IInv'
  <1>1. StagesInv' /\ ResultIsReal'
    BY DEF StagesInv, ResultIsReal, JoinTask
  <1>2. PointersInv'
    BY DEF PointersInv, StagesInv, JoinTask
  <1>3. Orderly' => Orderly
    BY DEF JoinTask
  <1>4. Orderly' => OrderInv'
    BY <1>3 DEF OrderInv, EventsInv, Pending, PointersInv, StagesInv, Busy,
           Reported, JoinTask
  <1>5. Orderly' => EventsInv'
    BY <1>3 DEF OrderInv, EventsInv, PointersInv, StagesInv, Busy, Reported,
           JoinTask
  <1>6. Orderly' => FilterInv'
    BY <1>3 DEF OrderInv, EventsInv, FilterInv, PointersInv, StagesInv, Busy,
           Reported, JoinTask
  <1>7. Orderly' => CompleteInv'
    BY <1>3 DEF OrderInv, EventsInv, CompleteInv, PointersInv, StagesInv,
           Busy, Reported, JoinTask
  <1>8. OrderlyIsSafe' /\ ActionsPostedOnce' /\ CompletedMeansSuccess'
    BY <1>3 DEF OrderInv, EventsInv, FilterInv, CompleteInv, OrderlyIsSafe,
           ActionsPostedOnce, CompletedMeansSuccess, PointersInv, StagesInv,
           Busy, Reported, JoinTask
  <1>9. QED
    BY <1>1, <1>2, <1>4, <1>5, <1>6, <1>7, <1>8 DEF IInv

\* Execute keeps the inductive invariant.
LEMMA ExecuteStep ==
    ASSUME IInv, Execute, TypeOK'
    PROVE  IInv'
  <1>a. main[caller] \in Tasks /\ stage[main[caller]] = "created"
    BY DEF Execute, PointersInv
  <1>1. StagesInv' /\ ResultIsReal'
    BY <1>a DEF StagesInv, ResultIsReal, Execute
  <1>2. PointersInv'
    BY DEF PointersInv, StagesInv, Execute
  <1>3. Orderly' => Orderly
    BY DEF Execute
  <1>4. Orderly' => OrderInv'
    BY <1>3 DEF OrderInv, EventsInv, Pending, PointersInv, StagesInv, Busy,
           Reported, Execute
  <1>5. Orderly' => EventsInv'
    BY <1>3 DEF OrderInv, EventsInv, PointersInv, StagesInv, Busy, Reported,
           Execute
  <1>6. Orderly' => FilterInv'
    BY <1>3 DEF OrderInv, EventsInv, FilterInv, PointersInv, StagesInv, Busy,
           Reported, Execute
  <1>7. Orderly' => CompleteInv'
    BY <1>3 DEF OrderInv, EventsInv, CompleteInv, PointersInv, StagesInv,
           Busy, Reported, Execute
  <1>8. OrderlyIsSafe' /\ ActionsPostedOnce' /\ CompletedMeansSuccess'
    BY <1>3 DEF OrderInv, EventsInv, FilterInv, CompleteInv, OrderlyIsSafe,
           ActionsPostedOnce, CompletedMeansSuccess, PointersInv, StagesInv,
           Busy, Reported, Execute
  <1>9. QED
    BY <1>1, <1>2, <1>4, <1>5, <1>6, <1>7, <1>8 DEF IInv

\* Control keeps the inductive invariant.
LEMMA ControlStep ==
    ASSUME IInv, Control, TypeOK'
    PROVE  IInv'
  <1>1. StagesInv' /\ ResultIsReal'
    BY DEF StagesInv, ResultIsReal, Control
  <1>2. PointersInv'
    BY DEF PointersInv, StagesInv, Control
  <1>3. Orderly' => Orderly
    BY DEF Control
  <1>4. Orderly' => OrderInv'
    BY <1>3 DEF OrderInv, EventsInv, Pending, PointersInv, StagesInv, Busy,
           Reported, Control
  <1>5. Orderly' => EventsInv'
    BY <1>3 DEF OrderInv, EventsInv, PointersInv, StagesInv, Busy, Reported,
           Control
  <1>6. Orderly' => FilterInv'
    BY <1>3 DEF OrderInv, EventsInv, FilterInv, PointersInv, StagesInv, Busy,
           Reported, Control
  <1>7. Orderly' => CompleteInv'
    BY <1>3 DEF OrderInv, EventsInv, CompleteInv, PointersInv, StagesInv,
           Busy, Reported, Control
  <1>8. OrderlyIsSafe' /\ ActionsPostedOnce' /\ CompletedMeansSuccess'
    BY <1>3 DEF OrderInv, EventsInv, FilterInv, CompleteInv, OrderlyIsSafe,
           ActionsPostedOnce, CompletedMeansSuccess, PointersInv, StagesInv,
           Busy, Reported, Control
  <1>9. QED
    BY <1>1, <1>2, <1>4, <1>5, <1>6, <1>7, <1>8 DEF IInv

\* Check keeps the inductive invariant.
LEMMA CheckStep ==
    ASSUME NEW u \in Tasks, IInv, Check(u), TypeOK'
    PROVE  IInv'
  <1>a. Orderly => /\ u = current /\ ~Busy /\ client # "interpret"
                   /\ ~Reported(u) /\ Pending /\ u \notin freed
    BY BeforeFlight DEF Check
  <1>1. StagesInv' /\ ResultIsReal'
    <2>1. /\ \/ stage' = [stage EXCEPT ![u] = "init"] /\ start' = start
             \/ /\ stage' = [stage EXCEPT ![u] = "over"]
                /\ start' = [start EXCEPT ![u] = "FAILED"]
          /\ stage[u] = "check"
          /\ UNCHANGED <<exec, finished, tries, verdict, callback>>
      BY DEF Check, GoOn, Refuse, TaskFrame, handlerVars
    <2>2. StagesInv'
      BY <2>1 DEF StagesInv
    <2>3. ResultIsReal'
      BY <2>1 DEF StagesInv, ResultIsReal
    <2>4. QED
      BY <2>2, <2>3
  <1>2. PointersInv'
    <2>1. PICK s \in {"init", "over"} : stage' = [stage EXCEPT ![u] = s]
      BY DEF Check, GoOn, Refuse, TaskFrame
    <2>2. /\ s \in Stages /\ stage[u] \notin {"new", "created"}
          /\ s \notin {"new", "created"}
          /\ stage[u] \in {"wait", "copy", "over"} => s \in {"copy", "over"}
      BY <2>1 DEF Check
    <2>3. /\ UNCHANGED <<clientVars, memoryVars, handlerVars, ctx, pushed,
                         complete>>
          /\ flown' = flown \/ (flown' = u /\ s \in {"wait", "over"})
      BY <2>1 DEF Check, GoOn, Refuse, TaskFrame
    <2>4. QED
      BY <2>1, <2>2, <2>3, TaskMoves
  <1>3. Orderly' => Orderly
    BY DEF Check, GoOn, Refuse, TaskFrame
  <1>4. Orderly' => OrderInv'
    <2> SUFFICES ASSUME Orderly, Orderly' PROVE OrderInv'
      BY <1>3
    <2>1. PICK s \in {"init", "over"} : stage' = [stage EXCEPT ![u] = s]
      BY DEF Check, GoOn, Refuse, TaskFrame
    <2>2. /\ UNCHANGED <<clientVars, memoryVars, ctx, finished, freed, exec,
                         callback>>
          /\ stage[u] \in {"check", "init", "upload", "action", "start"}
          /\ \A t \in Tasks : t # u => start'[t] = start[t]
          /\ s = "over" => start'[u] = "FAILED"
      BY <2>1 DEF Check, GoOn, Refuse, TaskFrame
    <2>3. /\ s = "start" => loaded' = actions[ctx[u]]
          /\ s = "wait" => loaded' = loaded /\ stage[u] = "start"
          /\ s \notin {"wait", "over"} => UNCHANGED <<flown, pushed>>
          /\ s = "over" => ~Busy'
      BY <1>a, <1>3, <2>1 DEF Busy, Check, GoOn, Refuse, TaskFrame
    <2>4. QED
      BY <2>1, <2>2, <2>3, StageChange
  <1>5. Orderly' => EventsInv'
    BY <1>3 DEF OrderInv, EventsInv, PointersInv, StagesInv, Busy, Reported,
           Check, GoOn, Refuse, TaskFrame
  <1>6. Orderly' => FilterInv'
    <2> SUFFICES ASSUME Orderly PROVE FilterInv'
      BY <1>3
    <2>1. UNCHANGED <<current, memory, filter, posted>>
      BY DEF Check, GoOn, Refuse, TaskFrame
    <2>2. \A t \in Tasks : stage[t] # "new" => stage'[t] # "new"
      BY DEF Check, GoOn, Refuse, TaskFrame
    <2>3. current \in Tasks /\ Reported(current) => Reported(current)'
      BY DEF StagesInv, Reported, Check, GoOn, Refuse, TaskFrame
    <2>4. QED
      BY <2>1, <2>2, <2>3, FilterKept
  <1>7. Orderly' => CompleteInv'
    BY <1>3 DEF OrderInv, EventsInv, CompleteInv, PointersInv, StagesInv,
           Busy, Reported, Check, GoOn, Refuse, TaskFrame
  <1>8. OrderlyIsSafe' /\ ActionsPostedOnce' /\ CompletedMeansSuccess'
    BY <1>3 DEF OrderInv, EventsInv, FilterInv, CompleteInv, OrderlyIsSafe,
           ActionsPostedOnce, CompletedMeansSuccess, PointersInv, StagesInv,
           Busy, Reported, Check, GoOn, Refuse, TaskFrame
  <1>9. QED
    BY <1>1, <1>2, <1>4, <1>5, <1>6, <1>7, <1>8 DEF IInv

\* InitMission keeps the inductive invariant.
LEMMA InitMissionStep ==
    ASSUME NEW u \in Tasks, IInv, InitMission(u), TypeOK'
    PROVE  IInv'
  <1>a. Orderly => /\ u = current /\ ~Busy /\ client # "interpret"
                   /\ ~Reported(u) /\ Pending /\ u \notin freed
    BY BeforeFlight DEF InitMission
  <1>1. StagesInv' /\ ResultIsReal'
    <2>1. CASE GoOn(u, "upload")
      BY <2>1 DEF StagesInv, ResultIsReal, InitMission, GoOn, TaskFrame
    <2>2. CASE Refuse(u)
      BY <2>2 DEF StagesInv, ResultIsReal, InitMission, Refuse, TaskFrame
    <2>3. QED
      BY <2>1, <2>2 DEF InitMission
  <1>2. PointersInv'
    <2>1. PICK s \in {"upload", "over"} : stage' = [stage EXCEPT ![u] = s]
      BY DEF InitMission, GoOn, Refuse, TaskFrame
    <2>2. /\ s \in Stages /\ stage[u] \notin {"new", "created"}
          /\ s \notin {"new", "created"}
          /\ stage[u] \in {"wait", "copy", "over"} => s \in {"copy", "over"}
      BY <2>1 DEF InitMission
    <2>3. /\ UNCHANGED <<clientVars, memoryVars, handlerVars, ctx, pushed,
                         complete>>
          /\ flown' = flown \/ (flown' = u /\ s \in {"wait", "over"})
      BY <2>1 DEF InitMission, GoOn, Refuse, TaskFrame
    <2>4. QED
      BY <2>1, <2>2, <2>3, TaskMoves
  <1>3. Orderly' => Orderly
    BY DEF InitMission, GoOn, Refuse, TaskFrame
  <1>4. Orderly' => OrderInv'
    <2> SUFFICES ASSUME Orderly, Orderly' PROVE OrderInv'
      BY <1>3
    <2>1. PICK s \in {"upload", "over"} : stage' = [stage EXCEPT ![u] = s]
      BY DEF InitMission, GoOn, Refuse, TaskFrame
    <2>2. /\ UNCHANGED <<clientVars, memoryVars, ctx, finished, freed, exec,
                         callback>>
          /\ stage[u] \in {"check", "init", "upload", "action", "start"}
          /\ \A t \in Tasks : t # u => start'[t] = start[t]
          /\ s = "over" => start'[u] = "FAILED"
      BY <2>1 DEF InitMission, GoOn, Refuse, TaskFrame
    <2>3. /\ s = "start" => loaded' = actions[ctx[u]]
          /\ s = "wait" => loaded' = loaded /\ stage[u] = "start"
          /\ s \notin {"wait", "over"} => UNCHANGED <<flown, pushed>>
          /\ s = "over" => ~Busy'
      BY <1>a, <1>3, <2>1 DEF Busy, InitMission, GoOn, Refuse, TaskFrame
    <2>4. QED
      BY <2>1, <2>2, <2>3, StageChange
  <1>5. Orderly' => EventsInv'
    BY <1>3 DEF OrderInv, EventsInv, PointersInv, StagesInv, Busy, Reported,
           InitMission, GoOn, Refuse, TaskFrame
  <1>6. Orderly' => FilterInv'
    <2> SUFFICES ASSUME Orderly PROVE FilterInv'
      BY <1>3
    <2>1. UNCHANGED <<current, memory, filter, posted>>
      BY DEF InitMission, GoOn, Refuse, TaskFrame
    <2>2. \A t \in Tasks : stage[t] # "new" => stage'[t] # "new"
      BY DEF InitMission, GoOn, Refuse, TaskFrame
    <2>3. current \in Tasks /\ Reported(current) => Reported(current)'
      BY DEF StagesInv, Reported, InitMission, GoOn, Refuse, TaskFrame
    <2>4. QED
      BY <2>1, <2>2, <2>3, FilterKept
  <1>7. Orderly' => CompleteInv'
    BY <1>3 DEF OrderInv, EventsInv, CompleteInv, PointersInv, StagesInv,
           Busy, Reported, InitMission, GoOn, Refuse, TaskFrame
  <1>8. OrderlyIsSafe' /\ ActionsPostedOnce' /\ CompletedMeansSuccess'
    BY <1>3 DEF OrderInv, EventsInv, FilterInv, CompleteInv, OrderlyIsSafe,
           ActionsPostedOnce, CompletedMeansSuccess, PointersInv, StagesInv,
           Busy, Reported, InitMission, GoOn, Refuse, TaskFrame
  <1>9. QED
    BY <1>1, <1>2, <1>4, <1>5, <1>6, <1>7, <1>8 DEF IInv

\* UploadMission keeps the inductive invariant.
LEMMA UploadMissionStep ==
    ASSUME NEW u \in Tasks, IInv, UploadMission(u), TypeOK'
    PROVE  IInv'
  <1>a. Orderly => /\ u = current /\ ~Busy /\ client # "interpret"
                   /\ ~Reported(u) /\ Pending /\ u \notin freed
    BY BeforeFlight DEF UploadMission
  <1>1. StagesInv' /\ ResultIsReal'
    <2>1. CASE GoOn(u, "action") /\ UNCHANGED tries
      BY <2>1 DEF StagesInv, ResultIsReal, UploadMission, GoOn, TaskFrame
    <2>2. CASE Refuse(u) /\ UNCHANGED tries
      BY <2>2 DEF StagesInv, ResultIsReal, UploadMission, Refuse, TaskFrame
    <2>3. CASE /\ tries' = [tries EXCEPT ![u] = @ + 1]
               /\ GoOn(u, IF tries'[u] < Attempts THEN "upload" ELSE "action")
      <3>1. stage[u] = "upload" /\ UNCHANGED <<start, exec, finished, verdict, callback>>
        BY <2>3 DEF UploadMission, GoOn, TaskFrame
      <3>2. /\ stage'[u] \in {"upload", "action"}
            /\ stage'[u] = "upload" => tries'[u] < Attempts
            /\ \A t \in Tasks : t # u => stage'[t] = stage[t] /\ tries'[t] = tries[t]
        BY <2>3 DEF GoOn
      <3>3. QED
        BY <3>1, <3>2 DEF StagesInv, ResultIsReal
    <2>4. QED
      BY <2>1, <2>2, <2>3 DEF UploadMission
  <1>2. PointersInv'
    <2>1. PICK s \in {"upload", "action", "over"} : stage' = [stage EXCEPT ![u] = s]
      BY DEF UploadMission, GoOn, Refuse, TaskFrame
    <2>2. /\ s \in Stages /\ stage[u] \notin {"new", "created"}
          /\ s \notin {"new", "created"}
          /\ stage[u] \in {"wait", "copy", "over"} => s \in {"copy", "over"}
      BY <2>1 DEF UploadMission
    <2>3. /\ UNCHANGED <<clientVars, memoryVars, handlerVars, ctx, pushed,
                         complete>>
          /\ flown' = flown \/ (flown' = u /\ s \in {"wait", "over"})
      BY <2>1 DEF UploadMission, GoOn, Refuse, TaskFrame
    <2>4. QED
      BY <2>1, <2>2, <2>3, TaskMoves
  <1>3. Orderly' => Orderly
    BY DEF UploadMission, GoOn, Refuse, TaskFrame
  <1>4. Orderly' => OrderInv'
    <2> SUFFICES ASSUME Orderly, Orderly' PROVE OrderInv'
      BY <1>3
    <2>1. PICK s \in {"upload", "action", "over"} : stage' = [stage EXCEPT ![u] = s]
      BY DEF UploadMission, GoOn, Refuse, TaskFrame
    <2>2. /\ UNCHANGED <<clientVars, memoryVars, ctx, finished, freed, exec,
                         callback>>
          /\ stage[u] \in {"check", "init", "upload", "action", "start"}
          /\ \A t \in Tasks : t # u => start'[t] = start[t]
          /\ s = "over" => start'[u] = "FAILED"
      BY <2>1 DEF UploadMission, GoOn, Refuse, TaskFrame
    <2>3. /\ s = "start" => loaded' = actions[ctx[u]]
          /\ s = "wait" => loaded' = loaded /\ stage[u] = "start"
          /\ s \notin {"wait", "over"} => UNCHANGED <<flown, pushed>>
          /\ s = "over" => ~Busy'
      BY <1>a, <1>3, <2>1 DEF Busy, UploadMission, GoOn, Refuse, TaskFrame
    <2>4. QED
      BY <2>1, <2>2, <2>3, StageChange
  <1>5. Orderly' => EventsInv'
    BY <1>3 DEF OrderInv, EventsInv, PointersInv, StagesInv, Busy, Reported,
           UploadMission, GoOn, Refuse, TaskFrame
  <1>6. Orderly' => FilterInv'
    <2> SUFFICES ASSUME Orderly PROVE FilterInv'
      BY <1>3
    <2>1. UNCHANGED <<current, memory, filter, posted>>
      BY DEF UploadMission, GoOn, Refuse, TaskFrame
    <2>2. \A t \in Tasks : stage[t] # "new" => stage'[t] # "new"
      BY DEF UploadMission, GoOn, Refuse, TaskFrame
    <2>3. current \in Tasks /\ Reported(current) => Reported(current)'
      BY DEF StagesInv, Reported, UploadMission, GoOn, Refuse, TaskFrame
    <2>4. QED
      BY <2>1, <2>2, <2>3, FilterKept
  <1>7. Orderly' => CompleteInv'
    BY <1>3 DEF OrderInv, EventsInv, CompleteInv, PointersInv, StagesInv,
           Busy, Reported, UploadMission, GoOn, Refuse, TaskFrame
  <1>8. OrderlyIsSafe' /\ ActionsPostedOnce' /\ CompletedMeansSuccess'
    BY <1>3 DEF OrderInv, EventsInv, FilterInv, CompleteInv, OrderlyIsSafe,
           ActionsPostedOnce, CompletedMeansSuccess, PointersInv, StagesInv,
           Busy, Reported, UploadMission, GoOn, Refuse, TaskFrame
  <1>9. QED
    BY <1>1, <1>2, <1>4, <1>5, <1>6, <1>7, <1>8 DEF IInv

\* UploadAction keeps the inductive invariant.
LEMMA UploadActionStep ==
    ASSUME NEW u \in Tasks, IInv, UploadAction(u), TypeOK'
    PROVE  IInv'
  <1>a. Orderly => /\ u = current /\ ~Busy /\ client # "interpret"
                   /\ ~Reported(u) /\ Pending /\ u \notin freed
    BY BeforeFlight DEF UploadAction
  <1>1. StagesInv' /\ ResultIsReal'
    BY DEF StagesInv, ResultIsReal, UploadAction, GoOn, Refuse, TaskFrame
  <1>2. PointersInv'
    <2>1. PICK s \in {"start", "over"} : stage' = [stage EXCEPT ![u] = s]
      BY DEF UploadAction, GoOn, Refuse, TaskFrame
    <2>2. /\ s \in Stages /\ stage[u] \notin {"new", "created"}
          /\ s \notin {"new", "created"}
          /\ stage[u] \in {"wait", "copy", "over"} => s \in {"copy", "over"}
      BY <2>1 DEF UploadAction
    <2>3. /\ UNCHANGED <<clientVars, memoryVars, handlerVars, ctx, pushed,
                         complete>>
          /\ flown' = flown \/ (flown' = u /\ s \in {"wait", "over"})
      BY <2>1 DEF UploadAction, GoOn, Refuse, TaskFrame
    <2>4. QED
      BY <2>1, <2>2, <2>3, TaskMoves
  <1>3. Orderly' => Orderly
    BY DEF UploadAction, GoOn, Refuse, TaskFrame
  <1>4. Orderly' => OrderInv'
    <2> SUFFICES ASSUME Orderly, Orderly' PROVE OrderInv'
      BY <1>3
    <2>1. PICK s \in {"start", "over"} : stage' = [stage EXCEPT ![u] = s]
      BY DEF UploadAction, GoOn, Refuse, TaskFrame
    <2>2. /\ UNCHANGED <<clientVars, memoryVars, ctx, finished, freed, exec,
                         callback>>
          /\ stage[u] \in {"check", "init", "upload", "action", "start"}
          /\ \A t \in Tasks : t # u => start'[t] = start[t]
          /\ s = "over" => start'[u] = "FAILED"
      BY <2>1 DEF UploadAction, GoOn, Refuse, TaskFrame
    <2>3. /\ s = "start" => loaded' = actions[ctx[u]]
          /\ s = "wait" => loaded' = loaded /\ stage[u] = "start"
          /\ s \notin {"wait", "over"} => UNCHANGED <<flown, pushed>>
          /\ s = "over" => ~Busy'
      BY <1>a, <1>3, <2>1 DEF Busy, UploadAction, GoOn, Refuse, TaskFrame
    <2>4. QED
      BY <2>1, <2>2, <2>3, StageChange
  <1>5. Orderly' => EventsInv'
    BY <1>3, <1>a DEF EventsInv, Busy, UploadAction, TaskFrame
  <1>6. Orderly' => FilterInv'
    <2> SUFFICES ASSUME Orderly PROVE FilterInv'
      BY <1>3
    <2>1. UNCHANGED <<current, memory, filter, posted>>
      BY DEF UploadAction, GoOn, Refuse, TaskFrame
    <2>2. \A t \in Tasks : stage[t] # "new" => stage'[t] # "new"
      BY DEF UploadAction, GoOn, Refuse, TaskFrame
    <2>3. current \in Tasks /\ Reported(current) => Reported(current)'
      BY DEF StagesInv, Reported, UploadAction, GoOn, Refuse, TaskFrame
    <2>4. QED
      BY <2>1, <2>2, <2>3, FilterKept
  <1>7. Orderly' => CompleteInv'
    BY <1>3 DEF OrderInv, EventsInv, CompleteInv, PointersInv, StagesInv,
           Busy, Reported, UploadAction, GoOn, Refuse, TaskFrame
  <1>8. OrderlyIsSafe' /\ ActionsPostedOnce' /\ CompletedMeansSuccess'
    BY <1>3 DEF OrderInv, EventsInv, FilterInv, CompleteInv, OrderlyIsSafe,
           ActionsPostedOnce, CompletedMeansSuccess, PointersInv, StagesInv,
           Busy, Reported, UploadAction, GoOn, Refuse, TaskFrame
  <1>9. QED
    BY <1>1, <1>2, <1>4, <1>5, <1>6, <1>7, <1>8 DEF IInv

\* StartFlight keeps the inductive invariant.
LEMMA StartFlightStep ==
    ASSUME NEW u \in Tasks, IInv, StartFlight(u), TypeOK'
    PROVE  IInv'
  <1>a. Orderly => /\ u = current /\ ~Busy /\ client # "interpret"
                   /\ ~Reported(u) /\ Pending /\ u \notin freed
    BY BeforeFlight DEF StartFlight
  <1>1. StagesInv' /\ ResultIsReal'
    <2>1. CASE start' = [start EXCEPT ![u] = "SUCCESS"]
               /\ stage' = [stage EXCEPT ![u] = "wait"]
      BY <2>1 DEF StagesInv, ResultIsReal, StartFlight, TaskFrame
    <2>2. CASE Refuse(u)
      BY <2>2 DEF StagesInv, ResultIsReal, StartFlight, Refuse, TaskFrame
    <2>3. QED
      BY <2>1, <2>2 DEF StartFlight
  <1>2. PointersInv'
    <2>1. PICK s \in {"wait", "over"} : stage' = [stage EXCEPT ![u] = s]
      BY DEF StartFlight, GoOn, Refuse, TaskFrame
    <2>2. /\ s \in Stages /\ stage[u] \notin {"new", "created"}
          /\ s \notin {"new", "created"}
          /\ stage[u] \in {"wait", "copy", "over"} => s \in {"copy", "over"}
      BY <2>1 DEF StartFlight
    <2>3. /\ UNCHANGED <<clientVars, memoryVars, handlerVars, ctx, pushed,
                         complete>>
          /\ flown' = flown \/ (flown' = u /\ s \in {"wait", "over"})
      BY <2>1 DEF StartFlight, GoOn, Refuse, TaskFrame
    <2>4. QED
      BY <2>1, <2>2, <2>3, TaskMoves
  <1>3. Orderly' => Orderly
    BY DEF StartFlight, GoOn, Refuse, TaskFrame
  <1>4. Orderly' => OrderInv'
    <2> SUFFICES ASSUME Orderly, Orderly' PROVE OrderInv'
      BY <1>3
    <2>1. PICK s \in {"wait", "over"} : stage' = [stage EXCEPT ![u] = s]
      BY DEF StartFlight, GoOn, Refuse, TaskFrame
    <2>2. /\ UNCHANGED <<clientVars, memoryVars, ctx, finished, freed, exec,
                         callback>>
          /\ stage[u] \in {"check", "init", "upload", "action", "start"}
          /\ \A t \in Tasks : t # u => start'[t] = start[t]
          /\ s = "over" => start'[u] = "FAILED"
      BY <2>1 DEF StartFlight, GoOn, Refuse, TaskFrame
    <2>3. /\ s = "start" => loaded' = actions[ctx[u]]
          /\ s = "wait" => loaded' = loaded /\ stage[u] = "start"
          /\ s \notin {"wait", "over"} => UNCHANGED <<flown, pushed>>
          /\ s = "over" => ~Busy'
      BY <1>a, <1>3, <2>1 DEF Busy, StartFlight, GoOn, Refuse, TaskFrame
    <2>4. QED
      BY <2>1, <2>2, <2>3, StageChange
  <1>5. Orderly' => EventsInv'
    BY <1>3, <1>a DEF EventsInv, Busy, StartFlight, TaskFrame
  <1>6. Orderly' => FilterInv'
    <2> SUFFICES ASSUME Orderly PROVE FilterInv'
      BY <1>3
    <2>1. UNCHANGED <<current, memory, filter, posted>>
      BY DEF StartFlight, Refuse, TaskFrame
    <2>2. \A t \in Tasks : stage[t] # "new" => stage'[t] # "new"
      BY DEF StartFlight, Refuse, TaskFrame
    <2>3. current \in Tasks /\ Reported(current) => Reported(current)'
      <3>1. ~Reported(u) /\ UNCHANGED exec
            /\ \A t \in Tasks : t # u => start'[t] = start[t]
        BY DEF StagesInv, Reported, StartFlight, Refuse, TaskFrame
      <3>2. QED
        BY <2>1, <3>1 DEF Reported
    <2>4. QED
      BY <2>1, <2>2, <2>3, FilterKept
  <1>7. Orderly' => CompleteInv'
    BY <1>3 DEF OrderInv, EventsInv, CompleteInv, PointersInv, StagesInv,
           Busy, Reported, StartFlight, GoOn, Refuse, TaskFrame
  <1>8. OrderlyIsSafe' /\ ActionsPostedOnce' /\ CompletedMeansSuccess'
    BY <1>3 DEF OrderInv, EventsInv, FilterInv, CompleteInv, OrderlyIsSafe,
           ActionsPostedOnce, CompletedMeansSuccess, PointersInv, StagesInv,
           Busy, Reported, StartFlight, GoOn, Refuse, TaskFrame
  <1>9. QED
    BY <1>1, <1>2, <1>4, <1>5, <1>6, <1>7, <1>8 DEF IInv

\* Wait keeps the inductive invariant.
LEMMA WaitStep ==
    ASSUME NEW u \in Tasks, IInv, Wait(u), TypeOK'
    PROVE  IInv'
  <1>1. StagesInv' /\ ResultIsReal'
    BY DEF StagesInv, ResultIsReal, Wait, GoOn, TaskFrame
  <1>2. PointersInv'
    <2>1. PICK s \in {"copy"} : stage' = [stage EXCEPT ![u] = s]
      BY DEF Wait, GoOn, Refuse, TaskFrame
    <2>2. /\ s \in Stages /\ stage[u] \notin {"new", "created"}
          /\ s \notin {"new", "created"}
          /\ stage[u] \in {"wait", "copy", "over"} => s \in {"copy", "over"}
      BY <2>1 DEF Wait
    <2>3. /\ UNCHANGED <<clientVars, memoryVars, handlerVars, ctx, pushed,
                         complete>>
          /\ flown' = flown \/ (flown' = u /\ s \in {"wait", "over"})
      BY <2>1 DEF Wait, GoOn, Refuse, TaskFrame
    <2>4. QED
      BY <2>1, <2>2, <2>3, TaskMoves
  <1>3. Orderly' => Orderly
    BY DEF Wait, GoOn, TaskFrame
  <1>4. Orderly' => OrderInv'
    BY <1>3 DEF OrderInv, EventsInv, Pending, PointersInv, StagesInv, Busy,
           Reported, Wait, GoOn, TaskFrame
  <1>5. Orderly' => EventsInv'
    BY <1>3 DEF OrderInv, EventsInv, PointersInv, StagesInv, Busy, Reported,
           Wait, GoOn, TaskFrame
  <1>6. Orderly' => FilterInv'
    <2> SUFFICES ASSUME Orderly PROVE FilterInv'
      BY <1>3
    <2>1. UNCHANGED <<current, memory, filter, posted>>
      BY DEF Wait, GoOn, TaskFrame
    <2>2. \A t \in Tasks : stage[t] # "new" => stage'[t] # "new"
      BY DEF Wait, GoOn, TaskFrame
    <2>3. current \in Tasks /\ Reported(current) => Reported(current)'
      BY DEF StagesInv, Reported, Wait, GoOn, TaskFrame
    <2>4. QED
      BY <2>1, <2>2, <2>3, FilterKept
  <1>7. Orderly' => CompleteInv'
    BY <1>3 DEF OrderInv, EventsInv, CompleteInv, PointersInv, StagesInv,
           Busy, Reported, Wait, GoOn, TaskFrame
  <1>8. OrderlyIsSafe' /\ ActionsPostedOnce' /\ CompletedMeansSuccess'
    BY <1>3 DEF OrderInv, EventsInv, FilterInv, CompleteInv, OrderlyIsSafe,
           ActionsPostedOnce, CompletedMeansSuccess, PointersInv, StagesInv,
           Busy, Reported, Wait, GoOn, TaskFrame
  <1>9. QED
    BY <1>1, <1>2, <1>4, <1>5, <1>6, <1>7, <1>8 DEF IInv

\* Read keeps the inductive invariant.
LEMMA ReadStep ==
    ASSUME NEW u \in Tasks, IInv, Read(u), TypeOK'
    PROVE  IInv'
  <1>1. StagesInv' /\ ResultIsReal'
    <2>1. finished[u] \in {"SUCCESS", "INTERRUPTTED"}
      BY DEF Read, StagesInv, StageRstType
    <2>2. QED
      BY <2>1 DEF StagesInv, ResultIsReal, Read, GoOn, TaskFrame
  <1>2. PointersInv'
    <2>1. PICK s \in {"over"} : stage' = [stage EXCEPT ![u] = s]
      BY DEF Read, GoOn, Refuse, TaskFrame
    <2>2. /\ s \in Stages /\ stage[u] \notin {"new", "created"}
          /\ s \notin {"new", "created"}
          /\ stage[u] \in {"wait", "copy", "over"} => s \in {"copy", "over"}
      BY <2>1 DEF Read
    <2>3. /\ UNCHANGED <<clientVars, memoryVars, handlerVars, ctx, pushed,
                         complete>>
          /\ flown' = flown \/ (flown' = u /\ s \in {"wait", "over"})
      BY <2>1 DEF Read, GoOn, Refuse, TaskFrame
    <2>4. QED
      BY <2>1, <2>2, <2>3, TaskMoves
  <1>3. Orderly' => Orderly
    BY DEF Read, GoOn, TaskFrame
  <1>4. Orderly' => OrderInv'
    BY <1>3 DEF OrderInv, EventsInv, Pending, PointersInv, StagesInv, Busy,
           Reported, Read, GoOn, TaskFrame
  <1>5. Orderly' => EventsInv'
    BY <1>3 DEF OrderInv, EventsInv, PointersInv, StagesInv, Busy, Reported,
           Read, GoOn, TaskFrame
  <1>6. Orderly' => FilterInv'
    <2> SUFFICES ASSUME Orderly PROVE FilterInv'
      BY <1>3
    <2>1. UNCHANGED <<current, memory, filter, posted>>
      BY DEF Read, GoOn, TaskFrame
    <2>2. \A t \in Tasks : stage[t] # "new" => stage'[t] # "new"
      BY DEF Read, GoOn, TaskFrame
    <2>3. current \in Tasks /\ Reported(current) => Reported(current)'
      BY DEF StagesInv, Reported, Read, GoOn, TaskFrame
    <2>4. QED
      BY <2>1, <2>2, <2>3, FilterKept
  <1>7. Orderly' => CompleteInv'
    BY <1>3 DEF OrderInv, EventsInv, CompleteInv, PointersInv, StagesInv,
           Busy, Reported, Read, GoOn, TaskFrame
  <1>8. OrderlyIsSafe' /\ ActionsPostedOnce' /\ CompletedMeansSuccess'
    <2>1. OrderlyIsSafe' /\ ActionsPostedOnce'
      BY <1>3 DEF OrderlyIsSafe, ActionsPostedOnce, Read, TaskFrame
    <2>2. Orderly' => finished[u] # "INTERRUPTTED" \/ u \notin complete
      BY <1>3 DEF CompleteInv
    <2>3. CompletedMeansSuccess'
      BY <1>3, <2>2 DEF CompletedMeansSuccess, Read, TaskFrame
    <2>4. QED
      BY <2>1, <2>3
  <1>9. QED
    BY <1>1, <1>2, <1>4, <1>5, <1>6, <1>7, <1>8 DEF IInv

\* TakePhoto keeps the inductive invariant.
LEMMA TakePhotoStep ==
    ASSUME NEW b \in 0 .. loaded, IInv, TakePhoto(b), TypeOK'
    PROVE  IInv'
  <1>1. StagesInv' /\ ResultIsReal'
    BY DEF StagesInv, ResultIsReal, TakePhoto, Push, ActionEvent, VehicleFrame
  <1>2. PointersInv'
    BY DEF PointersInv, StagesInv, TakePhoto, Push, ActionEvent, VehicleFrame
  <1>3. Orderly' => Orderly
    BY DEF TakePhoto, Push, ActionEvent, VehicleFrame
  <1>4. Orderly' => OrderInv'
    BY <1>3 DEF OrderInv, EventsInv, Pending, PointersInv, StagesInv, Busy,
           Reported, TakePhoto, Push, ActionEvent, VehicleFrame
  <1>5. Orderly' => EventsInv'
    <2> SUFFICES ASSUME Orderly PROVE EventsInv'
      BY <1>3
    <2>1. UNCHANGED <<flown, loaded, current, callback, held>>
      BY DEF TakePhoto, VehicleFrame
    <2>2. flown # NoTask /\ flown = current /\ callback # "notify"
      BY DEF TakePhoto, EventsInv
    <2>3. pushed' = Append(pushed, ActionEvent(flown, b))
      BY DEF TakePhoto, Push
    <2>4. ASSUME NEW i \in 1 .. Len(pushed')
          PROVE  \/ i \in 1 .. Len(pushed) /\ pushed'[i] = pushed[i]
                 \/ i = Len(pushed') /\ pushed'[i] = ActionEvent(flown, b)
      <3>1. /\ pushed \in Seq([type : EventTypes, task : Tasks, id : Nat])
            /\ ActionEvent(flown, b) \in [type : EventTypes, task : Tasks, id : Nat]
        BY <2>2 DEF ActionEvent, EventTypes
      <3>2. QED
        BY ONLY <2>3, <3>1, <2>4, Appended
    <2>5. ASSUME NEW i \in 1 .. Len(pushed')
          PROVE  /\ pushed'[i].task = current
                 /\ pushed'[i].type = "Action" => pushed'[i].id < loaded
                 /\ pushed'[i].type # "Finished"
      <3>1. CASE i \in 1 .. Len(pushed) /\ pushed'[i] = pushed[i]
        BY <2>2, <3>1 DEF EventsInv
      <3>2. CASE pushed'[i] = ActionEvent(flown, b)
        BY <2>2, <3>2 DEF TakePhoto, ActionEvent
      <3>3. QED
        BY <2>4, <3>1, <3>2
    <2>6. QED
      BY <2>1, <2>2, <2>5 DEF EventsInv
  <1>6. Orderly' => FilterInv'
    BY <1>3 DEF OrderInv, EventsInv, FilterInv, PointersInv, StagesInv, Busy,
           Reported, TakePhoto, Push, ActionEvent, VehicleFrame
  <1>7. Orderly' => CompleteInv'
    BY <1>3 DEF OrderInv, EventsInv, CompleteInv, PointersInv, StagesInv,
           Busy, Reported, TakePhoto, Push, ActionEvent, VehicleFrame
  <1>8. OrderlyIsSafe' /\ ActionsPostedOnce' /\ CompletedMeansSuccess'
    BY <1>3 DEF OrderInv, EventsInv, FilterInv, CompleteInv, OrderlyIsSafe,
           ActionsPostedOnce, CompletedMeansSuccess, PointersInv, StagesInv,
           Busy, Reported, TakePhoto, Push, ActionEvent, VehicleFrame
  <1>9. QED
    BY <1>1, <1>2, <1>4, <1>5, <1>6, <1>7, <1>8 DEF IInv

\* CompleteRun keeps the inductive invariant.
LEMMA CompleteRunStep ==
    ASSUME IInv, CompleteRun, TypeOK'
    PROVE  IInv'
  <1>1. StagesInv' /\ ResultIsReal'
    BY DEF StagesInv, ResultIsReal, CompleteRun, Push, ExecEvent, VehicleFrame
  <1>2. PointersInv'
    BY DEF PointersInv, StagesInv, CompleteRun, Push, ExecEvent, VehicleFrame
  <1>3. Orderly' => Orderly
    BY DEF CompleteRun, Push, ExecEvent, VehicleFrame
  <1>4. Orderly' => OrderInv'
    BY <1>3 DEF OrderInv, EventsInv, Pending, PointersInv, StagesInv, Busy,
           Reported, CompleteRun, Push, ExecEvent, VehicleFrame
  <1>5. Orderly' => EventsInv'
    <2> SUFFICES ASSUME Orderly PROVE EventsInv'
      BY <1>3
    <2>1. UNCHANGED <<flown, loaded, current, callback, held>>
      BY DEF CompleteRun, VehicleFrame
    <2>2. flown # NoTask /\ flown = current /\ callback # "notify"
      BY DEF CompleteRun, EventsInv
    <2>3. pushed' = Append(pushed, ExecEvent(flown))
      BY DEF CompleteRun, Push
    <2>4. ASSUME NEW i \in 1 .. Len(pushed')
          PROVE  \/ i \in 1 .. Len(pushed) /\ pushed'[i] = pushed[i]
                 \/ i = Len(pushed') /\ pushed'[i] = ExecEvent(flown)
      <3>1. /\ pushed \in Seq([type : EventTypes, task : Tasks, id : Nat])
            /\ ExecEvent(flown) \in [type : EventTypes, task : Tasks, id : Nat]
        BY <2>2 DEF ExecEvent, EventTypes
      <3>2. QED
        BY ONLY <2>3, <3>1, <2>4, Appended
    <2>5. ASSUME NEW i \in 1 .. Len(pushed')
          PROVE  /\ pushed'[i].task = current
                 /\ pushed'[i].type = "Action" => pushed'[i].id < loaded
                 /\ pushed'[i].type # "Finished"
      <3>1. CASE i \in 1 .. Len(pushed) /\ pushed'[i] = pushed[i]
        BY <2>2, <3>1 DEF EventsInv
      <3>2. CASE pushed'[i] = ExecEvent(flown)
        BY <2>2, <3>2 DEF CompleteRun, ExecEvent
      <3>3. QED
        BY <2>4, <3>1, <3>2
    <2>6. QED
      BY <2>1, <2>2, <2>5 DEF EventsInv
  <1>6. Orderly' => FilterInv'
    BY <1>3 DEF OrderInv, EventsInv, FilterInv, PointersInv, StagesInv, Busy,
           Reported, CompleteRun, Push, ExecEvent, VehicleFrame
  <1>7. Orderly' => CompleteInv'
    <2> SUFFICES ASSUME Orderly PROVE CompleteInv'
      BY <1>3
    <2>1. Busy /\ flown = current /\ finished[current] = "UNEXECUTE"
      BY BusyFacts DEF CompleteRun, Busy, EventsInv
    <2>2. callback # "notify"
      BY DEF CompleteRun, EventsInv
    <2>3. Len(pushed') = Len(pushed) + 1
          /\ pushed'[Len(pushed) + 1].type = "Exec"
      BY DEF CompleteRun, Push, ExecEvent
    <2>4. \E i \in 1 .. Len(pushed') : pushed'[i].type = "Exec"
      <3>1. Len(pushed) + 1 \in 1 .. Len(pushed')
        BY <2>3
      <3>2. QED
        BY <2>3, <3>1
    <2>5. UNCHANGED <<finished, callback, held, verdict>>
          /\ complete' = complete \cup {flown}
      BY DEF CompleteRun, VehicleFrame
    <2>6. QED
      BY <2>1, <2>2, <2>4, <2>5 DEF CompleteInv
  <1>8. OrderlyIsSafe' /\ ActionsPostedOnce' /\ CompletedMeansSuccess'
    BY <1>3 DEF OrderInv, EventsInv, FilterInv, CompleteInv, OrderlyIsSafe,
           ActionsPostedOnce, CompletedMeansSuccess, PointersInv, StagesInv,
           Busy, Reported, CompleteRun, Push, ExecEvent, VehicleFrame
  <1>9. QED
    BY <1>1, <1>2, <1>4, <1>5, <1>6, <1>7, <1>8 DEF IInv

\* FinishFlight keeps the inductive invariant.
LEMMA FinishFlightStep ==
    ASSUME IInv, FinishFlight, TypeOK'
    PROVE  IInv'
  <1>1. StagesInv' /\ ResultIsReal'
    BY DEF StagesInv, ResultIsReal, FinishFlight, Push, FinishEvent,
           VehicleFrame
  <1>2. PointersInv'
    BY DEF PointersInv, StagesInv, FinishFlight, Push, FinishEvent,
           VehicleFrame
  <1>3. Orderly' => Orderly
    BY DEF FinishFlight, Push, FinishEvent, VehicleFrame
  <1>4. Orderly' => OrderInv'
    BY <1>3 DEF OrderInv, EventsInv, Pending, PointersInv, StagesInv, Busy,
           Reported, FinishFlight, Push, FinishEvent, VehicleFrame
  <1>5. Orderly' => EventsInv'
    BY <1>3 DEF OrderInv, EventsInv, PointersInv, StagesInv, Busy, Reported,
           FinishFlight, Push, FinishEvent, VehicleFrame
  <1>6. Orderly' => FilterInv'
    BY <1>3 DEF OrderInv, EventsInv, FilterInv, PointersInv, StagesInv, Busy,
           Reported, FinishFlight, Push, FinishEvent, VehicleFrame
  <1>7. Orderly' => CompleteInv'
    BY <1>3 DEF OrderInv, EventsInv, CompleteInv, PointersInv, StagesInv,
           Busy, Reported, FinishFlight, Push, FinishEvent, VehicleFrame
  <1>8. OrderlyIsSafe' /\ ActionsPostedOnce' /\ CompletedMeansSuccess'
    BY <1>3 DEF OrderInv, EventsInv, FilterInv, CompleteInv, OrderlyIsSafe,
           ActionsPostedOnce, CompletedMeansSuccess, PointersInv, StagesInv,
           Busy, Reported, FinishFlight, Push, FinishEvent, VehicleFrame
  <1>9. QED
    BY <1>1, <1>2, <1>4, <1>5, <1>6, <1>7, <1>8 DEF IInv

\* HandleAction keeps the inductive invariant.
LEMMA HandleActionStep ==
    ASSUME IInv, HandleAction, TypeOK'
    PROVE  IInv'
  <1> DEFINE a == Head(pushed).id
             e == <<Head(pushed).task, a>>
  <1>a. a \in Nat /\ Head(pushed).task \in Tasks /\ e \in Tasks \X Nat
    BY HeadType DEF HandleAction, Arrives
  <1>b. Orderly => /\ Head(pushed).task = current /\ a < size[memory]
                   /\ a < actions[memory] /\ memory \in Proxies
                   /\ current \in Tasks /\ ~Reported(current)
    <2>1. pushed[1] = Head(pushed) /\ 1 \in 1 .. Len(pushed)
          /\ Head(pushed).type = "Action" /\ pushed # <<>>
      BY HeadType DEF HandleAction, Arrives
    <2>2. Orderly => Head(pushed).task = current /\ a < loaded
      BY <2>1 DEF EventsInv
    <2>3. QED
      BY <2>1, <2>2, BusyFacts DEF Busy
  <1>c. Orderly => size' = size
    BY <1>b DEF HandleAction, Mark
  <1>d. UNCHANGED <<memory, actions, repeated, callback, held, verdict,
                    finished, freed, crashed, clientVars, taskVars, flown,
                    loaded, paused, complete>>
    BY DEF HandleAction, CallbackFrame
  <1>e. pushed # <<>> /\ pushed' = Tail(pushed) /\ pushed[1].type = "Action"
    BY HeadType DEF HandleAction, Arrives
  <1>1. StagesInv' /\ ResultIsReal'
    BY DEF StagesInv, ResultIsReal, HandleAction, Arrives, Mark, Grown,
           PostEvent, CallbackFrame
  <1>2. PointersInv'
    BY DEF PointersInv, StagesInv, HandleAction, Arrives, Mark, Grown,
           PostEvent, CallbackFrame
  <1>3. Orderly' => Orderly
    BY DEF HandleAction, Arrives, Mark, Grown, PostEvent, CallbackFrame
  <1>4. Orderly' => OrderInv'
    <2>1. Busy' => Busy
      BY <1>e DEF Busy
    <2>2. QED
      BY <1>3, <1>c, <1>d, <2>1 DEF OrderInv, Reported, Pending
  <1>5. Orderly' => EventsInv'
    <2> SUFFICES ASSUME Orderly PROVE EventsInv'
      BY <1>3
    <2>1. ASSUME NEW i \in 1 .. Len(pushed')
          PROVE  /\ i + 1 \in 1 .. Len(pushed) /\ pushed'[i] = pushed[i + 1]
                 /\ i + 1 = Len(pushed) => i = Len(pushed')
      BY <1>e, HeadType
    <2>2. callback' # "notify" /\ UNCHANGED <<current, flown, loaded>>
      BY <1>d DEF HandleAction, Arrives
    <2>3. ASSUME NEW i \in 1 .. Len(pushed')
          PROVE  /\ pushed'[i].task = current
                 /\ pushed'[i].type = "Action" => pushed'[i].id < loaded
                 /\ pushed'[i].type = "Finished" =>
                        i = Len(pushed') /\ flown = NoTask
      BY <2>1 DEF EventsInv
    <2>4. flown # NoTask => flown = current
      BY DEF EventsInv
    <2>5. QED
      BY <2>2, <2>3, <2>4 DEF EventsInv
  <1>6. Orderly' => FilterInv'
    <2> SUFFICES ASSUME Orderly PROVE FilterInv'
      BY <1>3
    <2>1. CASE a \in filter[memory]
      <3>1. UNCHANGED <<filter, posted>>
        BY <1>b, <2>1 DEF HandleAction
      <3>2. QED
        BY <1>d, <3>1 DEF FilterInv, Reported
    <2>2. CASE a \notin filter[memory]
      <3>1. filter'[memory] = filter[memory] \cup {a}
            /\ posted' = posted \cup {<<current, a>>}
        BY <1>b, <2>2 DEF HandleAction, Mark, PostEvent
      <3>2. stage[current] # "new"
        BY <1>b DEF PointersInv
      <3>3. QED
        BY <1>b, <1>d, <3>1, <3>2 DEF FilterInv, Reported
    <2>3. QED
      BY <2>1, <2>2
  <1>7. Orderly' => CompleteInv'
    <2>1. ASSUME NEW i \in 1 .. Len(pushed), pushed[i].type = "Exec"
          PROVE  \E j \in 1 .. Len(pushed') : pushed'[j].type = "Exec"
      <3>1. i # 1
        BY <1>e, <2>1
      <3>2. i - 1 \in 1 .. Len(pushed') /\ pushed'[i - 1] = pushed[i]
        BY <1>e, <3>1, HeadType
      <3>3. QED
        BY <2>1, <3>2
    <2>2. QED
      BY <1>3, <1>d, <1>e, <2>1 DEF CompleteInv
  <1>8. OrderlyIsSafe' /\ ActionsPostedOnce' /\ CompletedMeansSuccess'
    <2>1. OrderlyIsSafe' /\ CompletedMeansSuccess'
      BY <1>d DEF OrderlyIsSafe, CompletedMeansSuccess
    <2>2. ASSUME Orderly PROVE taken' = posted' /\ again' = {}
      <3>0. PICK d : d = e
        OBVIOUS
      <3>1. taken' = taken \cup {d} /\ taken = posted /\ again = {}
        BY <2>2, <3>0 DEF HandleAction, ActionsPostedOnce
      <3>2. CASE a \in filter[memory]
        <4>1. UNCHANGED <<posted, again>>
          BY <1>b, <2>2, <3>2 DEF HandleAction
        <4>2. d \in posted
          BY <1>b, <2>2, <3>0, <3>2 DEF FilterInv
        <4>3. posted \cup {d} = posted
          BY <4>2, Absorbed
        <4>4. taken' = posted
          BY <3>1, <4>3
        <4>5. QED
          BY <3>1, <4>1, <4>4
      <3>3. CASE a \notin filter[memory]
        <4>1. PostEvent(d)
          BY <1>b, <2>2, <3>0, <3>3 DEF HandleAction
        <4>2. d \notin posted
          BY <1>b, <2>2, <3>0, <3>3 DEF FilterInv
        <4>3. {d} \cap posted = {}
          BY <4>2, Absorbed
        <4>4. QED
          BY <3>1, <4>1, <4>3 DEF PostEvent
      <3>4. QED
        BY <3>2, <3>3
    <2>3. QED
      BY <1>3, <2>1, <2>2 DEF ActionsPostedOnce
  <1>9. QED
    BY <1>1, <1>2, <1>4, <1>5, <1>6, <1>7, <1>8 DEF IInv

\* HandleExec keeps the inductive invariant.
LEMMA HandleExecStep ==
    ASSUME IInv, HandleExec, TypeOK'
    PROVE  IInv'
  <1>1. StagesInv' /\ ResultIsReal'
    BY DEF StagesInv, ResultIsReal, HandleExec, Arrives, CallbackFrame
  <1>2. PointersInv'
    BY DEF PointersInv, StagesInv, HandleExec, Arrives, CallbackFrame
  <1>3. Orderly' => Orderly
    BY DEF HandleExec, Arrives, CallbackFrame
  <1>4. Orderly' => OrderInv'
    BY <1>3 DEF OrderInv, EventsInv, Pending, PointersInv, StagesInv, Busy,
           Reported, HandleExec, Arrives, CallbackFrame
  <1>5. Orderly' => EventsInv'
    BY <1>3 DEF OrderInv, EventsInv, PointersInv, StagesInv, Busy, Reported,
           HandleExec, Arrives, CallbackFrame
  <1>6. Orderly' => FilterInv'
    BY <1>3 DEF OrderInv, EventsInv, FilterInv, PointersInv, StagesInv, Busy,
           Reported, HandleExec, Arrives, CallbackFrame
  <1>7. Orderly' => CompleteInv'
    BY <1>3 DEF OrderInv, EventsInv, CompleteInv, PointersInv, StagesInv,
           Busy, Reported, HandleExec, Arrives, CallbackFrame
  <1>8. OrderlyIsSafe' /\ ActionsPostedOnce' /\ CompletedMeansSuccess'
    BY <1>3 DEF OrderInv, EventsInv, FilterInv, CompleteInv, OrderlyIsSafe,
           ActionsPostedOnce, CompletedMeansSuccess, PointersInv, StagesInv,
           Busy, Reported, HandleExec, Arrives, CallbackFrame
  <1>9. QED
    BY <1>1, <1>2, <1>4, <1>5, <1>6, <1>7, <1>8 DEF IInv

\* HandleFinish keeps the inductive invariant.
LEMMA HandleFinishStep ==
    ASSUME IInv, HandleFinish, TypeOK'
    PROVE  IInv'
  <1>a. pushed # <<>> /\ pushed' = Tail(pushed) /\ held' = current
        /\ pushed[1].type = "Finished" /\ UNCHANGED <<flown, current>>
        /\ 1 \in 1 .. Len(pushed)
    BY HeadType DEF HandleFinish, Arrives, CallbackFrame
  <1>b. Orderly => pushed' = <<>> /\ flown = NoTask
    <2>1. Orderly => 1 = Len(pushed) /\ flown = NoTask
      BY <1>a, HeadType DEF EventsInv
    <2>2. QED
      BY <1>a, <2>1, HeadType
  <1>1. StagesInv' /\ ResultIsReal'
    BY DEF StagesInv, ResultIsReal, HandleFinish, Arrives, CallbackFrame
  <1>2. PointersInv'
    BY DEF PointersInv, StagesInv, HandleFinish, Arrives, CallbackFrame
  <1>3. Orderly' => Orderly
    BY DEF HandleFinish, Arrives, CallbackFrame
  <1>4. Orderly' => OrderInv'
    BY <1>3 DEF OrderInv, EventsInv, Pending, PointersInv, StagesInv, Busy,
           Reported, HandleFinish, Arrives, CallbackFrame
  <1>5. Orderly' => EventsInv'
    <2> SUFFICES ASSUME Orderly PROVE EventsInv'
      BY <1>3
    <2>1. pushed' = <<>> /\ flown' = NoTask /\ held' = current'
      BY <1>a, <1>b
    <2>2. Len(pushed') = 0
      BY <2>1
    <2>3. \A i \in 1 .. Len(pushed') : FALSE
      BY <2>2
    <2>4. QED
      BY <2>1, <2>3 DEF EventsInv
  <1>6. Orderly' => FilterInv'
    <2> SUFFICES ASSUME Orderly PROVE FilterInv'
      BY <1>3
    <2>1. UNCHANGED <<current, memory, filter, posted>>
      BY DEF HandleFinish, Arrives, CallbackFrame
    <2>2. \A t \in Tasks : stage[t] # "new" => stage'[t] # "new"
      BY DEF HandleFinish, Arrives, CallbackFrame
    <2>3. current \in Tasks /\ Reported(current) => Reported(current)'
      BY DEF StagesInv, Reported, HandleFinish, Arrives, CallbackFrame
    <2>4. QED
      BY <2>1, <2>2, <2>3, FilterKept
  <1>7. Orderly' => CompleteInv'
    <2> SUFFICES ASSUME Orderly PROVE CompleteInv'
      BY <1>3
    <2>1. pushed' = <<>> /\ flown' = NoTask /\ held' = current'
      BY <1>a, <1>b
    <2>2. \A i \in 1 .. Len(pushed) : pushed[i].type # "Exec"
      <3>1. Len(pushed) = 1
        BY <1>a, HeadType DEF EventsInv
      <3>2. \A i \in 1 .. Len(pushed) : i = 1
        BY <3>1
      <3>3. QED
        BY <1>a, <3>2
    <2>3. current \in complete => repeated[memory] = 1
      BY <1>a, <2>2 DEF CompleteInv
    <2>4. /\ verdict' = IF repeated[memory] < 1 THEN "INTERRUPTTED" ELSE "SUCCESS"
          /\ UNCHANGED <<complete, finished, memory, repeated>>
      BY DEF HandleFinish, CallbackFrame
    <2>5. current \in complete => verdict' = "SUCCESS"
      BY <2>3, <2>4
    <2>6. QED
      BY <1>a, <2>1, <2>4, <2>5 DEF CompleteInv
  <1>8. OrderlyIsSafe' /\ ActionsPostedOnce' /\ CompletedMeansSuccess'
    BY <1>3 DEF OrderInv, EventsInv, FilterInv, CompleteInv, OrderlyIsSafe,
           ActionsPostedOnce, CompletedMeansSuccess, PointersInv, StagesInv,
           Busy, Reported, HandleFinish, Arrives, CallbackFrame
  <1>9. QED
    BY <1>1, <1>2, <1>4, <1>5, <1>6, <1>7, <1>8 DEF IInv

\* Notify keeps the inductive invariant.
LEMMA NotifyStep ==
    ASSUME IInv, Notify, TypeOK'
    PROVE  IInv'
  <1>1. StagesInv' /\ ResultIsReal'
    BY DEF StagesInv, ResultIsReal, Notify, CallbackFrame
  <1>2. PointersInv'
    BY DEF PointersInv, StagesInv, Notify, CallbackFrame
  <1>3. Orderly' => Orderly
    BY DEF Notify, CallbackFrame
  <1>4. Orderly' => OrderInv'
    BY <1>3 DEF OrderInv, EventsInv, Pending, PointersInv, StagesInv, Busy,
           Reported, Notify, CallbackFrame
  <1>5. Orderly' => EventsInv'
    BY <1>3 DEF OrderInv, EventsInv, PointersInv, StagesInv, Busy, Reported,
           Notify, CallbackFrame
  <1>6. Orderly' => FilterInv'
    BY <1>3 DEF OrderInv, EventsInv, FilterInv, PointersInv, StagesInv, Busy,
           Reported, Notify, CallbackFrame
  <1>7. Orderly' => CompleteInv'
    BY <1>3 DEF OrderInv, EventsInv, CompleteInv, PointersInv, StagesInv,
           Busy, Reported, Notify, CallbackFrame
  <1>8. OrderlyIsSafe'
    <2>1. ASSUME Orderly PROVE crashed' = crashed
      <3>1. held = current /\ stage[current] = "wait"
        BY <2>1 DEF IInv, OrderInv, EventsInv, Busy, Notify
      <3>2. QED
        BY <3>1 DEF Notify
    <2>2. QED
      BY <1>3, <2>1 DEF IInv, OrderlyIsSafe
  <1>9. ActionsPostedOnce' /\ CompletedMeansSuccess'
    BY <1>3 DEF OrderInv, EventsInv, FilterInv, CompleteInv,
           ActionsPostedOnce, CompletedMeansSuccess, PointersInv, StagesInv,
           Busy, Reported, Notify, CallbackFrame
  <1>10. QED
    BY <1>1, <1>2, <1>4, <1>5, <1>6, <1>7, <1>8, <1>9 DEF IInv

\* Release keeps the inductive invariant.
LEMMA ReleaseStep ==
    ASSUME IInv, Release, TypeOK'
    PROVE  IInv'
  <1>1. StagesInv' /\ ResultIsReal'
    BY DEF StagesInv, ResultIsReal, Release, CallbackFrame
  <1>2. PointersInv'
    BY DEF PointersInv, StagesInv, Release, CallbackFrame
  <1>3. Orderly' => Orderly
    BY DEF Release, CallbackFrame
  <1>4. Orderly' => OrderInv'
    <2>1. Orderly /\ held # current => stage[held] = "over"
      <3> SUFFICES ASSUME Orderly, held # current PROVE stage[held] = "over"
        OBVIOUS
      <3>1. held \in Tasks /\ stage[held] # "new"
        BY DEF Release, PointersInv
      <3>2. Reported(held)
        BY <3>1 DEF OrderInv
      <3>3. QED
        BY <3>1, <3>2, ReportedIsOver
    <2>2. Orderly => \A t \in freed' : stage[t] = "over"
      <3>1. CASE held \in {current} \cup {main[p] : p \in Proxies}
        BY <3>1 DEF OrderInv, Release, CallbackFrame
      <3>2. CASE held \notin {current} \cup {main[p] : p \in Proxies}
        <4>1. held # current /\ freed' = freed \cup {held} /\ stage' = stage
          BY <3>2 DEF Release, CallbackFrame
        <4>2. QED
          BY <2>1, <4>1 DEF OrderInv
      <3>3. QED
        BY <3>1, <3>2
    <2>3. QED
      BY <1>3, <2>2 DEF OrderInv, Busy, Reported, Pending, Release,
                        CallbackFrame
  <1>5. Orderly' => EventsInv'
    BY <1>3 DEF OrderInv, EventsInv, PointersInv, StagesInv, Busy, Reported,
           Release, CallbackFrame
  <1>6. Orderly' => FilterInv'
    BY <1>3 DEF OrderInv, EventsInv, FilterInv, PointersInv, StagesInv, Busy,
           Reported, Release, CallbackFrame
  <1>7. Orderly' => CompleteInv'
    BY <1>3 DEF OrderInv, EventsInv, CompleteInv, PointersInv, StagesInv,
           Busy, Reported, Release, CallbackFrame
  <1>8. OrderlyIsSafe' /\ ActionsPostedOnce' /\ CompletedMeansSuccess'
    BY <1>3 DEF OrderInv, EventsInv, FilterInv, CompleteInv, OrderlyIsSafe,
           ActionsPostedOnce, CompletedMeansSuccess, PointersInv, StagesInv,
           Busy, Reported, Release, CallbackFrame
  <1>9. QED
    BY <1>1, <1>2, <1>4, <1>5, <1>6, <1>7, <1>8 DEF IInv

\* CallbackJoins keeps the inductive invariant.
LEMMA CallbackJoinsStep ==
    ASSUME IInv, CallbackJoins, TypeOK'
    PROVE  IInv'
  <1>1. StagesInv' /\ ResultIsReal'
    BY DEF StagesInv, ResultIsReal, CallbackJoins, CallbackFrame
  <1>2. PointersInv'
    BY DEF PointersInv, StagesInv, CallbackJoins, CallbackFrame
  <1>3. Orderly' => Orderly
    BY DEF CallbackJoins, CallbackFrame
  <1>4. Orderly' => OrderInv'
    BY <1>3 DEF OrderInv, EventsInv, Pending, PointersInv, StagesInv, Busy,
           Reported, CallbackJoins, CallbackFrame
  <1>5. Orderly' => EventsInv'
    BY <1>3 DEF OrderInv, EventsInv, PointersInv, StagesInv, Busy, Reported,
           CallbackJoins, CallbackFrame
  <1>6. Orderly' => FilterInv'
    BY <1>3 DEF OrderInv, EventsInv, FilterInv, PointersInv, StagesInv, Busy,
           Reported, CallbackJoins, CallbackFrame
  <1>7. Orderly' => CompleteInv'
    BY <1>3 DEF OrderInv, EventsInv, CompleteInv, PointersInv, StagesInv,
           Busy, Reported, CallbackJoins, CallbackFrame
  <1>8. OrderlyIsSafe' /\ ActionsPostedOnce' /\ CompletedMeansSuccess'
    BY <1>3 DEF OrderInv, EventsInv, FilterInv, CompleteInv, OrderlyIsSafe,
           ActionsPostedOnce, CompletedMeansSuccess, PointersInv, StagesInv,
           Busy, Reported, CallbackJoins, CallbackFrame
  <1>9. QED
    BY <1>1, <1>2, <1>4, <1>5, <1>6, <1>7, <1>8 DEF IInv

\* HandleBadly keeps the inductive invariant.
LEMMA HandleBadlyStep ==
    ASSUME IInv, HandleBadly, TypeOK'
    PROVE  IInv'
  <1>a. ~Orderly
    <2> SUFFICES ASSUME Orderly PROVE FALSE
      OBVIOUS
    <2>1. pushed # <<>> /\ pushed[1] = Head(pushed) /\ 1 \in 1 .. Len(pushed)
      BY HeadType DEF HandleBadly, Arrives
    <2>2. client = "idle" /\ size[memory] = loaded
      BY <2>1, BusyFacts DEF Busy
    <2>3. Head(pushed).type = "Action" /\ OutsideFilter(Head(pushed).id)
      BY <2>2 DEF HandleBadly, Arrives
    <2>4. Head(pushed).id < loaded
      BY <2>1, <2>3 DEF EventsInv
    <2>5. QED
      <3>1. Head(pushed).id \in Nat /\ loaded \in Nat
        BY <2>1, HeadType DEF VehicleTypeOK
      <3>2. Head(pushed).id >= loaded
        BY <2>2, <2>3 DEF OutsideFilter
      <3>3. QED
        BY <2>4, <3>1, <3>2
  <1>1. StagesInv' /\ ResultIsReal'
    BY DEF StagesInv, ResultIsReal, HandleBadly, Arrives, Grown,
           OutsideFilter, CallbackFrame
  <1>2. PointersInv'
    BY DEF PointersInv, StagesInv, HandleBadly, Arrives, Grown, OutsideFilter,
           CallbackFrame
  <1>3. Orderly' => Orderly
    BY DEF HandleBadly, Arrives, Grown, OutsideFilter, CallbackFrame
  <1>4. Orderly' => OrderInv'
    BY <1>3, <1>a
  <1>5. Orderly' => EventsInv'
    BY <1>3, <1>a
  <1>6. Orderly' => FilterInv'
    BY <1>3, <1>a
  <1>7. Orderly' => CompleteInv'
    BY <1>3, <1>a
  <1>8. OrderlyIsSafe' /\ ActionsPostedOnce' /\ CompletedMeansSuccess'
    BY <1>3, <1>a DEF OrderlyIsSafe, ActionsPostedOnce, CompletedMeansSuccess
  <1>9. QED
    BY <1>1, <1>2, <1>4, <1>5, <1>6, <1>7, <1>8 DEF IInv

\* UseFreedImpl keeps the inductive invariant.
LEMMA UseFreedImplStep ==
    ASSUME NEW u \in Tasks, IInv, UseFreedImpl(u), TypeOK'
    PROVE  IInv'
  <1>1. StagesInv' /\ ResultIsReal'
    BY DEF StagesInv, ResultIsReal, UseFreedImpl, UsesImpl, CallbackFrame
  <1>2. PointersInv'
    BY DEF PointersInv, StagesInv, UseFreedImpl, UsesImpl, CallbackFrame
  <1>3. Orderly' => Orderly
    BY DEF UseFreedImpl, UsesImpl, CallbackFrame
  <1>4. Orderly' => OrderInv'
    BY <1>3 DEF OrderInv, EventsInv, Pending, PointersInv, StagesInv, Busy,
           Reported, UseFreedImpl, UsesImpl, CallbackFrame
  <1>5. Orderly' => EventsInv'
    BY <1>3 DEF OrderInv, EventsInv, PointersInv, StagesInv, Busy, Reported,
           UseFreedImpl, UsesImpl, CallbackFrame
  <1>6. Orderly' => FilterInv'
    BY <1>3 DEF OrderInv, EventsInv, FilterInv, PointersInv, StagesInv, Busy,
           Reported, UseFreedImpl, UsesImpl, CallbackFrame
  <1>7. Orderly' => CompleteInv'
    BY <1>3 DEF OrderInv, EventsInv, CompleteInv, PointersInv, StagesInv,
           Busy, Reported, UseFreedImpl, UsesImpl, CallbackFrame
  <1>8. OrderlyIsSafe' /\ ActionsPostedOnce' /\ CompletedMeansSuccess'
    BY <1>3 DEF OrderInv, EventsInv, FilterInv, CompleteInv, OrderlyIsSafe,
           ActionsPostedOnce, CompletedMeansSuccess, PointersInv, StagesInv,
           Busy, Reported, UseFreedImpl, UsesImpl, CallbackFrame
  <1>9. QED
    BY <1>1, <1>2, <1>4, <1>5, <1>6, <1>7, <1>8 DEF IInv

-----------------------------------------------------------------------------
(* The theorems.                                                           *)

\* Every step keeps the inductive invariant.
LEMMA InvStep == IInv /\ [Next]_vars => IInv'
  <1> SUFFICES ASSUME IInv, [Next]_vars PROVE IInv'
    OBVIOUS
  <1>1. CASE UNCHANGED vars
    <2>1. TypeOK' /\ StagesInv' /\ ResultIsReal'
      <3>1. TypeOK'
        <4>1. MemoryTypeOK' /\ ClientTypeOK'
          BY ONLY <1>1, TypeOK DEF vars, memoryVars, clientVars, TypeOK,
             MemoryTypeOK, ClientTypeOK
        <4>2. TaskTypeOK' /\ VehicleTypeOK'
          BY ONLY <1>1, TypeOK DEF vars, taskVars, vehicleVars, TypeOK,
             TaskTypeOK, VehicleTypeOK
        <4>3. HandlerTypeOK'
          BY ONLY <1>1, TypeOK DEF vars, handlerVars, TypeOK, HandlerTypeOK
        <4>4. QED
          BY ONLY <4>1, <4>2, <4>3 DEF TypeOK
      <3>2. StagesInv'
        BY ONLY <1>1, IInv DEF vars, IInv, StagesInv
      <3>3. ResultIsReal'
        BY ONLY <1>1, IInv DEF vars, IInv, ResultIsReal
      <3>4. QED
        BY ONLY <3>1, <3>2, <3>3
    <2>2. PointersInv'
      BY <1>1 DEF vars, PointersInv
    <2>3. Orderly' => Orderly /\ OrderInv' /\ EventsInv'
      BY <1>1 DEF vars, OrderInv, EventsInv, Busy, Pending, Reported
    <2>4. Orderly' => FilterInv' /\ CompleteInv'
      BY <1>1 DEF vars, FilterInv, CompleteInv, Reported
    <2>5. OrderlyIsSafe' /\ ActionsPostedOnce' /\ CompletedMeansSuccess'
      BY <1>1 DEF vars, OrderlyIsSafe, ActionsPostedOnce,
                  CompletedMeansSuccess
    <2>6. QED
      BY <2>1, <2>2, <2>3, <2>4, <2>5
  <1>2. CASE Step
    <2>1. TypeOK'
      BY <1>2, MemoryTypes, ClientTypes, TaskTypes, VehicleTypes, HandlerTypes
    <2>2. CASE \E p \in Proxies : OpenProxy(p) \/ CallGetMainTask(p)
      BY <2>1, <2>2, OpenProxyStep, CallGetMainTaskStep
    <2>3. CASE ClientReturns
      BY <2>1, <2>3, GetMainTaskStep, AssignStep, JoinTaskStep, ExecuteStep
         DEF ClientReturns
    <2>4. CASE Control
      BY <2>1, <2>4, ControlStep
    <2>5. CASE \E t \in Tasks : TaskStep(t)
      BY <2>1, <2>5, CheckStep, InitMissionStep, UploadMissionStep,
         UploadActionStep, StartFlightStep, WaitStep, ReadStep DEF TaskStep
    <2>6. CASE \E a \in 0 .. loaded : TakePhoto(a)
      BY <2>1, <2>6, TakePhotoStep
    <2>7. CASE CompleteRun \/ FinishFlight
      BY <2>1, <2>7, CompleteRunStep, FinishFlightStep
    <2>8. CASE CallbackStep
      BY <2>1, <2>8, HandleActionStep, HandleExecStep, HandleFinishStep,
         NotifyStep, ReleaseStep, CallbackJoinsStep DEF CallbackStep
    <2>9. CASE HandleBadly
      BY <2>1, <2>9, HandleBadlyStep
    <2>10. CASE \E t \in Tasks : UseFreedImpl(t)
      BY <2>1, <2>10, UseFreedImplStep
    <2>11. QED
      BY <1>2, <2>2, <2>3, <2>4, <2>5, <2>6, <2>7, <2>8, <2>9, <2>10 DEF Step
  <1>3. QED
    BY <1>1, <1>2 DEF Next, Halt

\* It holds initially.
LEMMA InvInit == Init => IInv
  <1> SUFFICES ASSUME Init PROVE IInv
    OBVIOUS
  <1>1. MemoryTypeOK /\ ClientTypeOK
    BY DEF Init, ProxyOrNot
  <1>2. TaskTypeOK
    <2>1. 0 \in 0 .. Attempts
      OBVIOUS
    <2>2. QED
      BY <2>1 DEF Init, StageRstType, ProxyOrNot
  <1>3. VehicleTypeOK /\ HandlerTypeOK
    <2>1. <<>> \in Seq([type : EventTypes, task : Tasks, id : Nat])
      OBVIOUS
    <2>2. QED
      BY <2>1 DEF Init, StageRstType
  <1>4. StagesInv /\ PointersInv
    BY DEF Init, StagesInv, PointersInv
  <1>5. OrderInv /\ EventsInv /\ FilterInv /\ CompleteInv
    BY DEF Init, OrderInv, EventsInv, FilterInv, CompleteInv, Reported,
           Pending, Busy
  <1>6. OrderlyIsSafe /\ ActionsPostedOnce /\ ResultIsReal
        /\ CompletedMeansSuccess
    BY DEF Init, OrderlyIsSafe, ActionsPostedOnce, ResultIsReal,
           CompletedMeansSuccess
  <1>7. QED
    BY <1>1, <1>2, <1>3, <1>4, <1>5, <1>6

\* The inductive invariant holds for any tasks, proxies, photos and attempts.
THEOREM Invariance == Spec => []IInv
  BY InvInit, InvStep, PTL DEF Spec

\* An orderly client never meets undefined behaviour.
THEOREM OrderlySafe == Spec => []OrderlyIsSafe
  <1>1. IInv => OrderlyIsSafe
    OBVIOUS
  <1>2. QED
    BY <1>1, Invariance, PTL

\* The filter posts every action of a mission once, for an orderly client.
THEOREM PostedOnce == Spec => []ActionsPostedOnce
  <1>1. IInv => ActionsPostedOnce
    OBVIOUS
  <1>2. QED
    BY <1>1, Invariance, PTL

\* Every mission that is over has reported a real result, once.
THEOREM RealResult == Spec => []ResultIsReal
  <1>1. IInv => ResultIsReal
    OBVIOUS
  <1>2. QED
    BY <1>1, Invariance, PTL

\* An orderly client's mission that was completed is reported as a success.
THEOREM Completed == Spec => []CompletedMeansSuccess
  <1>1. IInv => CompletedMeansSuccess
    OBVIOUS
  <1>2. QED
    BY <1>1, Invariance, PTL
-----------------------------------------------------------------------------
(* The refinement of MissionTask.                                          *)

\* A step of one task's thread moves the place of that task.
LEMMA PlaceMoves ==
    ASSUME NEW u \in Tasks, NEW s, stage \in [Tasks -> Stages],
           stage' = [stage EXCEPT ![u] = s]
    PROVE  Places' = [Places EXCEPT ![u] = PlaceOf(s)]
  <1>1. \A t \in Tasks : stage'[t] = IF t = u THEN s ELSE stage[t]
    OBVIOUS
  <1>2. Places' = [t \in Tasks |-> PlaceOf(stage'[t])]
    BY DEF Places
  <1>3. \A t \in Tasks : PlaceOf(stage'[t]) =
                            IF t = u THEN PlaceOf(s) ELSE PlaceOf(stage[t])
    BY <1>1
  <1>4. QED
    BY <1>2, <1>3 DEF Places

\* A step between two stages of one place is hidden from the listener.
LEMMA PlaceStays ==
    ASSUME NEW u \in Tasks, NEW s, stage \in [Tasks -> Stages],
           stage' = [stage EXCEPT ![u] = s], PlaceOf(s) = PlaceOf(stage[u])
    PROVE  Places' = Places
  <1>1. Places' = [Places EXCEPT ![u] = PlaceOf(s)]
    BY PlaceMoves
  <1>2. QED
    BY <1>1 DEF Places

\* A step that leaves stages and results alone is a stutter of the contract.
LEMMA ContractStutter ==
    ASSUME UNCHANGED <<stage, start, exec>>
    PROVE  UNCHANGED Task!vars
  BY DEF Task!vars, Places

\* A task that refuses to start reports the failure.
LEMMA RefuseReports ==
    ASSUME NEW u \in Tasks, stage \in [Tasks -> Stages],
           PlaceOf(stage[u]) = "starting", Refuse(u), exec' = exec
    PROVE  Task!StartFinished(u, "FAILED")
  <1>1. Places' = [Places EXCEPT ![u] = PlaceOf("over")]
    BY PlaceMoves DEF Refuse
  <1>2. PlaceOf("over") = "over" /\ Places[u] = "starting"
    BY DEF PlaceOf, Places
  <1>3. QED
    BY <1>1, <1>2 DEF Refuse, Task!StartFinished

\* Every step of the mission is a step of the contract, or hidden from it.
LEMMA ContractStep == IInv /\ [Next]_vars => [Task!Next]_(Task!vars)
  <1> SUFFICES ASSUME IInv, [Next]_vars PROVE [Task!Next]_(Task!vars)
    OBVIOUS
  <1>1. stage \in [Tasks -> Stages]
    BY DEF IInv, TypeOK, TaskTypeOK
  <1>2. CASE UNCHANGED vars
    BY <1>2, ContractStutter DEF vars, taskVars
  <1>3. CASE \/ \E p \in Proxies : OpenProxy(p) \/ CallGetMainTask(p)
             \/ Assign \/ JoinTask \/ Control
             \/ \E a \in 0 .. loaded : TakePhoto(a)
             \/ CompleteRun \/ FinishFlight \/ CallbackStep \/ HandleBadly
             \/ \E t \in Tasks : UseFreedImpl(t)
    <2>1. UNCHANGED <<stage, start, exec>>
      BY <1>3 DEF OpenProxy, CallGetMainTask, Assign, JoinTask, Control,
                  TakePhoto, CompleteRun, FinishFlight, VehicleFrame,
                  CallbackStep, HandleAction, HandleExec, HandleFinish, Notify,
                  Release, CallbackJoins, HandleBadly, UseFreedImpl,
                  CallbackFrame, taskVars
    <2>2. QED
      BY <2>1, ContractStutter
  <1>4. ASSUME NEW u \in Tasks, GetMainTask(u) PROVE UNCHANGED Task!vars
    <2>1. Places' = Places
      BY <1>1, <1>4, PlaceStays DEF GetMainTask, PlaceOf
    <2>2. QED
      BY <1>4, <2>1 DEF GetMainTask, Task!vars
  <1>5. ASSUME Execute PROVE \E t \in Tasks : Task!Execute(t)
    <2>1. main[caller] \in Tasks /\ stage[main[caller]] = "created"
      BY <1>5 DEF IInv, TypeOK, ClientTypeOK, TaskOrNot, PointersInv, Execute
    <2>2. Places' = [Places EXCEPT ![main[caller]] = PlaceOf("check")]
      BY <1>1, <1>5, <2>1, PlaceMoves DEF Execute
    <2>3. PlaceOf("check") = "starting" /\ Places[main[caller]] = "idle"
      BY <2>1 DEF PlaceOf, Places
    <2>4. Task!Execute(main[caller])
      BY <1>5, <2>2, <2>3 DEF Execute, Task!Execute
    <2>5. QED
      BY <2>1, <2>4
  <1>6. ASSUME NEW u \in Tasks,
               Check(u) \/ InitMission(u) \/ UploadMission(u)
                   \/ UploadAction(u) \/ StartFlight(u)
        PROVE  \/ UNCHANGED Task!vars
               \/ \E r \in {"SUCCESS", "FAILED"} : Task!StartFinished(u, r)
    <2>1. PlaceOf(stage[u]) = "starting" /\ exec' = exec
      BY <1>6 DEF Check, InitMission, UploadMission, UploadAction, StartFlight,
                  PlaceOf
    <2>2. CASE Refuse(u)
      BY <1>1, <2>1, <2>2, RefuseReports
    <2>3. CASE \E s \in {"init", "upload", "action", "start"} : GoOn(u, s)
      <3>1. Places' = Places
        BY <1>1, <2>1, <2>3, PlaceStays DEF GoOn, PlaceOf
      <3>2. QED
        BY <2>1, <2>3, <3>1 DEF GoOn, Task!vars
    <2>4. CASE /\ stage' = [stage EXCEPT ![u] = "wait"]
               /\ start' = [start EXCEPT ![u] = "SUCCESS"]
      <3>1. Places' = [Places EXCEPT ![u] = PlaceOf("wait")]
        BY <1>1, <2>4, PlaceMoves
      <3>2. PlaceOf("wait") = "executing" /\ Places[u] = "starting"
        BY <2>1 DEF PlaceOf, Places
      <3>3. Task!StartFinished(u, "SUCCESS")
        BY <2>1, <2>4, <3>1, <3>2 DEF Task!StartFinished
      <3>4. QED
        BY <3>3
    <2>5. QED
      BY <1>6, <2>2, <2>3, <2>4
         DEF Check, InitMission, UploadMission, UploadAction, StartFlight
  <1>7. ASSUME NEW u \in Tasks, Wait(u) PROVE UNCHANGED Task!vars
    <2>1. Places' = Places
      BY <1>1, <1>7, PlaceStays DEF Wait, GoOn, PlaceOf
    <2>2. QED
      BY <1>7, <2>1 DEF Wait, GoOn, Task!vars
  <1>8. ASSUME NEW u \in Tasks, Read(u)
        PROVE  \E r \in {"SUCCESS", "INTERRUPTTED"} :
                   Task!ExecutingFinished(u, r)
    <2>1. finished[u] \in {"SUCCESS", "INTERRUPTTED"}
      BY <1>8 DEF Read, IInv, TypeOK, TaskTypeOK, StageRstType, StagesInv
    <2>2. Places' = [Places EXCEPT ![u] = PlaceOf("over")]
      BY <1>1, <1>8, PlaceMoves DEF Read, GoOn
    <2>3. PlaceOf("over") = "over" /\ Places[u] = "executing"
      BY <1>8 DEF Read, PlaceOf, Places
    <2>4. Task!ExecutingFinished(u, finished[u])
      BY <1>8, <2>2, <2>3 DEF Read, GoOn, Task!ExecutingFinished
    <2>5. QED
      BY <2>1, <2>4
  <1>9. QED
    BY <1>2, <1>3, <1>4, <1>5, <1>6, <1>7, <1>8
       DEF Next, Step, Halt, ClientReturns, TaskStep, Task!Next

\* The tasks of a DJI vehicle keep the contract of MissionTask: whatever the
\* callback thread writes at the same time, and however careless the client,
\* every task reports a real result for each of its stages, once and in order.
THEOREM TaskRefinement == Spec => ImplementsTask
  <1>1. Init => Task!Init
    BY DEF Init, Task!Init, Places, PlaceOf
  <1>2. IInv /\ [Next]_vars => [Task!Next]_(Task!vars)
    BY ContractStep
  <1>3. QED
    BY <1>1, <1>2, Invariance, PTL DEF Spec, Task!Spec, ImplementsTask
=============================================================================
