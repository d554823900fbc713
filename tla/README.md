# Formal models of the robot SDK

The SDK gives a client one interface to unmanned aircraft of two makes: those
that speak MAVLink (through MAVSDK) and those of DJI (through the DJI onboard
SDK).  This directory holds TLA+ models of its concurrent core, the TLC
configurations that check them on small instances, and proofs, checked by
TLAPS, that the main safety properties hold for all values of the constants.

Paths below are relative to the repository's root directory, which the project
file calls `src/`; the library itself is in its `src/` and `include/`, the two
makes of vehicles in `systems/`.

## 1. The system

### 1.1 Parts, their state and how they interact

| Part | Code | State | Operations |
|---|---|---|---|
| Mission instance proxy | `src/proxy/mission/` | `_state`, `_last_state`, `_main_task`, `_sub_task_map`, `_end_sub_task_list`, `_photo_event_not_handle`; two mutexes | `startMission`, `OnStartStageFinished`, `OnExecutingStageFinished`, `addPhotoTask`, `eventFilter` |
| Mission task | `src/plugins/mission/MissionTask.cpp` | `is_running`, the thread, the results of its two stages | `execute`, the thread's body, the joining destructor |
| Event loop | `src/system/SystemEventLoop.cpp` | the queue, `_thread_quit`, a mutex and a condition variable | `pushEvent`, the loop, the destructor |
| MAVLink missions | `systems/mavlink_based/plugins/mission/` | the items of the plan, the current task, the result, the query thread | `getMainTask`, upload, arm, start, commands, `notifyMissionFinish` |
| DJI missions | `systems/dji_osdk_based/plugins/mission/` | the delegate memory of every proxy (converted mission, action filter, repetition counter), the current task, its result | `createDelegateMemory`, `getMainTask`, upload and start, the handlers of the vehicle's events |
| DJI plan interpreter | `.../mission/interpreter/` | the conversion context, the converted mission | `interpret` |
| DJI photo download | `.../tasks/DownloadPhotoTask.cpp`, `DJICameraManager.cpp` | the set of files, promises of a list and of a download | `start_stage`, `executing_stage`, SDK callbacks |
| Vehicle systems | `RobotSystem.cpp`, `MavBasedVehicleSystem.cpp`, `DJIVehicleSystem.cpp` | `is_linked`, SDK handles, plugins | `link`, registration of plugins |
| Plugins | `PluginMap.cpp`, `BasePlugin.cpp` | the map from type to plugin | registration, lookup, `start` |
| Objects and proxies | `RObject.cpp`, `BaseProxy.cpp` | parent and children, the event filter, the listener | `installEventFilter`, `notifyied`, `setEventListener` |
| Information publisher | `SystemInfoPublisher.cpp` | the set of subscribers | `subscribe`, publication |
| Collectors | `plugins/collector/` of both makes (MAVLink: `collectror/`) | the last message, subscribers, a retry or collecting thread | `start`, `onUpdate`, `lastMessage` |
| DJI camera, video and gimbal plugins | `systems/dji_osdk_based/plugins/` | a pointer into the vehicle, the subscriber of a stream | `setZoomFactorSync`, `startStream`, `rotateAsync` |

A client opens a *proxy* on a *plugin* of a linked *system*.  `startMission`
asks the plugin for a main task and executes it on a thread of its own.  The
thread reports to the proxy, which combines the main task's result with the
download tasks that run beside it, tells the client's callback, and posts an
event to the system's event loop.  The loop's thread hands events to the event
filter of their target, among them the vehicle's "photo taken" events, which
start download tasks.  The vehicle's SDK calls back on threads of its own.  So
four kinds of threads meet in a mission: the client's, the tasks', the event
loop's and the SDK's.

### 1.2 What is hard

* **Destruction beside running threads.**  A task's destructor deletes `Impl`
  in the derived class and joins the thread in the base class, afterwards.
* **Check, then act.**  `addPhotoTask` tests the map, then sets a flag; the
  ending task leaves the map, then reads the flag.
* **Memory shared without locks.**  The callbacks of the DJI SDK use the
  delegate memory of the proxy opened last, while `getMainTask` rewrites it.
* **Results copied after the unlock**, event filters read twice without the lock
  under which they are set, finishes that overtake each other, events
  pushed more than once, uploads that are retried, acknowledgements that are
  lost.
* **Objects that outlive each other.**  `link()` leaves a callback with mavsdk
  that refers to a promise on its stack, and replaces plugins whose threads and
  callbacks still run; a proxy is the raw event filter of its plugin; a posted
  event waits with a raw pointer of its target.
* **State that outlives its mission**: counters, filters and plans live in the
  memory of the proxy.

`PROJECT.json` lists every hazard with its line.

### 1.3 What makes each part correct

* Mission instance: missions do not overlap; a download task is registered
  exactly while it works and is never overwritten; the state the client was told
  is the state there is; every photo gets a download; `startMission` returns;
  `FINISHED_WITH_SUBTASK` is left.
* Event loop: every event once, in order, unmoved while in use; no lost wake-up;
  the destructor returns.
* Missions of either make: every mission that begins reports one real result;
  success means that the mission was flown; nobody touches freed memory; each
  action is announced once; a mission ends if the vehicle does.
* Interpreter: one item list in, the waypoints and actions of exactly that list
  out.  Photo download: every photo taken is fetched once or reported; a late
  answer of the SDK harms nobody.
* Linking: a system that says it is linked has its SDK objects and its plugins,
  whichever step of which `link()` failed before; `link()` returns.  Plugins: a
  thread or callback of a plugin never runs on freed memory, a call that needs
  the SDK's mutex gets it.
* Objects and proxies: no event reaches a filter or a target that is gone, a
  posted event is handled, no callback waits for itself.

Where the code protects none of this, the property names who is safe: a client
that avoids the calls that the model lists as careless.

## 2. Plan

| | Module | Composes or uses | State |
|---|---|---|---|
| A | `MissionLifecycle`, `MissionTask`, `MissionInstance` | `MissionInstance` refines `MissionLifecycle`; contains event loop and tasks in outline | done, proved |
| B | `EventChannel`, `EventLoop` | `EventLoop` refines `EventChannel` | done, proved |
| C | `MavMission` | task, query thread and vehicle; refines `MissionTask` | done, proved |
| D | `DJIMission` | task, delegate memories, callback thread and vehicle; refines `MissionTask` | done, proved |
| E | `DJIInterpreter` | the pass over a plan's items with its context, and the memory of a proxy across missions; the detail of `DJIMission`'s `Interpret` | done, proved |
| F | `PhotoDownload` | download task, camera manager, SDK callbacks, timeouts | done, proved |
| G | `MavVehicle`, `DJIVehicle` | linking of either make with the plugin registry, and the plugins at work | done, proved |
| H | collectors | inside G, where their threads and callbacks meet a new link | done, proved |
| I | `ProxyEvents` | event filter, listener and publisher with their locks; extends `EventLoop` and takes its steps | done, proved |

Three abstract specifications are stated and refined: `MissionLifecycle` (what a
client sees of a proxy's missions), `MissionTask` (what a task reports to its
proxy) and `EventChannel` (a queue that hands out each event once).  For the
interpreter a definition over whole plans plays that part (`InPlanOrder`, in
`ConvertsThePlan`).

What is left: an abstract specification of a download and of `link()`; the
destruction of a mission proxy while its tasks run; and, of the vehicles, what
section 8 lists.

## 3. Modules and the code

Definitions keep the names of the functions they model; `map` in `PROJECT.json`
gives the lines.  Actions are as fine as the code's locks: code under one lock,
or that touches nothing shared, is one action.  A definition commented `Slip` is
a deliberately wrong variant of the definition after it; `mutants` in
`PROJECT.json` says which property each one breaks, and no specification uses
it.  A variable commented `history` is written and never read by the code.

Much of this code is safe only for some clients.  Where that is so, a history
variable (`careless`) becomes true at the steps the code does not protect, and a
property says that the process ends after one of them only.  So the steps the
property does *not* name are shown to be safe, in any order.

**MissionLifecycle** promises a client: a mission is announced, ends once,
finished or failed, and the next one begins after that.  Photos are told of at
any time.

**MissionTask** promises a proxy, for every task: the result of its start stage
once, and after a success the result of its executing stage once, both from the
sets the plugin may report (`MissionTask::execute`).  The tasks of both makes
implement it with results of the start `SUCCESS` and `FAILED`, of the execution
`SUCCESS` and `INTERRUPTTED`; `MissionInstance` is checked against tasks that
choose among these freely, and may fail in both stages.

**MissionInstance** models the proxy, its main and download tasks, the client
thread and the event loop.  `pc` of each thread names the point of its code.
`stateMutex` is `_state_mutex`, held from `OnXxxStageFinished` to the end of
`Settle`, during which other threads may change the map; each `_task_map_mutex`
section is one action.  `AddPhotoTask` is run by three kinds of threads in the
four steps the code has: test the map, set the flag or run a task, clear the
flag.  A photo is told of as long as the vehicle may fly (`MayFly`): from the
request that starts it on, before `OnStartStageFinished`, and after a start
whose answer was lost.  `log` is what was posted, `delivered` how much of it the
loop has dispatched.  A download task that ended keeps no effect, so its
identity is used again; the number of identities must be at least the number of
downloads that can be alive, or the model (not the code) stops.  The destructor
of a main task that still runs is undefined behaviour of the vehicle's task
classes and is modelled where those classes are, in C and D; here the join is.

**EventChannel** and **EventLoop**: posts, the loop, the callback running
outside the lock on a reference to the front, spurious wake-ups and the
destructor.  The names of `EventLoop` start with `Loop` where a module that
extends it has names of its own.

**MavMission** models `MavMissionInstance`, `MavWPMMainTask` with its two
threads, and a vehicle that obeys MAVSDK's commands.  Each MAVSDK call may fail.
The destructor is the code's steps: look once for the query thread and tell it
to quit (`QuitQuery`), join it and delete `Impl` (`FreeImpl`), join the task's
thread.  A thread that uses a deleted `Impl` goes on or crashes
(`UseFreedImpl`).  The task's thread copies its result without the lock: the
wait and the copy are two steps, and an assignment between them, by the query
thread or by a return home that is refused, may end the process.  `refused`
remembers that a return home was refused while a mission had no result.
Telemetry's `armed()` is taken to be the vehicle's real state.

**DJIMission** models `DJIWPMInstance`, `DJIWPMMainTask`, the delegate memories
and the callbacks of `DJIEventWrapper`.  The plan is abstracted to the number of
its actions, and `interpret` to what it does to that number and to validity:
append, leave alone (a plan of two items or less), or fail half-way.  As with
MAVLink, a result is copied without the lock, and an assignment meanwhile may
end the process.  The vehicle pushes events in order to one callback thread, as
the SDK does; it may push the event of an action again, and a start that
succeeded may be answered with a failure.  Undefined behaviour (a deleted
`Impl`, a filter that is being resized, an id outside the filter) is a choice
between going on and `crashed`.  `Orderly` says that the client waited for the
last result before it opened a proxy or started a mission and that no
acknowledgement was lost; the code needs that and says so nowhere.  Left out:
progress events, which read the same memory and only post; flights no task
started.

**PhotoDownload** models `DJIDownloadPhotoTask`, `DJICameraManager`, the part of
`tryLink` that initialises the camera, and `DJIAPIMutex` with its other users
(zoom, telemetry, upload), which only lock and unlock it.  `stage` of a thread
is the point of its code, `request` what the camera has not answered.  A request
for a list may be refused, which the code does not look at: then the thread
waits, with the mutex locked, for a list that never comes.  A list
has to hold the files that were there when it was requested and may hold later
ones.  A file request's answer is written through the address of a block on the
task's stack: if that is gone, to nothing that matters, to memory whose use ends
the process, or to the block of the task's next file, which the compiler may
place there (`WriteTo`).  Names, indices and the EXIF comparison are abstracted;
a file is an element of `Files` and a photo or not.

**DJIInterpreter** models `STDWPInterpreter` and `DJIWPMission`.  The code's
loop is a sequence of actions, one per item, so that what holds between two
items can be stated and proved: `index` is the item the loop is at, `Skip`,
`ConvertWaypoint` and `ConvertPhoto` are its branches, and `WaitTimeTooLong`,
`UnsupportPhotoTimes` and `NoLastWp` the ways it ends early.  `OpenProxy` gives
the interpreter a new memory; the context stays.  Its two pointers are an item's
sequence number and a heading, `None` (null), or `Stale` when what they point to
is gone; a read through a stale one may yield any item's or end the process.
`base` and `held` are history: where this plan starts in the memory, and the
hold times of the waypoints.  `IsOrderly` names what a plan needs that the code
never tests: three items, a waypoint before every photo, and after every hold
another waypoint or photo.  Sequence numbers are positions, as `addItem` makes
them; a position on the earth is the item it was copied from; headings are whole
degrees.  Hold times are binary32 numbers, in units of 2^-22 s: `Tenths` is
their product with ten, rounded to 24 bits and cut off to an integer, and `Rest`
what a photo leaves of them, so that of 2.3 s it leaves two tenths.  Left out:
the constant settings of a waypoint, and `setItems`, which keeps the client's
own sequence numbers.

**ProxyEvents** models `RObject`, `BaseProxy`, `RobotSystem`'s `sendEvent` and
`postEvent`, and `SystemInfoPublisher`.  `call` is where every thread is in a
notification: the target's watchers are looked at without a lock (`notifyied`)
and read once more to be called (`CallWatcher`, `LockWatcher`), the filter or
the target runs its listener with `holder` its mutex (`Listen`, `Heard`), and a
target that was filtered gets the event all the same (`revent`).  Taking the old
watcher away and setting the new one are two steps, for a proxy (`Open`,
`Install`) and for a client's own objects (`installEventFilter`, `SetWatcher`;
`setting` is the watcher in between), as readers do not lock: one that meets a
null watcher ends the process, and one that reads a weak pointer while it is
changed may (`Uses`).  The module extends `EventLoop`: its `Push` and its loop
are the ones of that module, with the callback spelled out; the loop is not
destroyed here (that is in the run `loop`).  `InUse` is what a client must not
delete: the targets and watchers of the calls under way, the targets in the
queue, what is being installed, and the watcher that a weak pointer has now
where a thread is about to lock it, which need not be the one it saw when it
looked.  Changing the watcher of an object to which an event is on its way is
careless too (`IsTarget`; for plugins, whose first proxy may be opened at any
time, `IsNotified`).  After a careless act the clients do nothing more, but what
was begun goes on.  A listener is silent or one that waits for the mutex its
caller holds (`reenters`).  Nothing counts references; a proxy that is closed
stays the filter of its plugin.

**MavVehicle** models `link()` of the MAVLink system from `addConnection` to the
registration of the plugins, `PluginMap` and the life of two kinds of
collectors, the one with a thread (`MavAttitude`) and those that ask for their
rate until they get it.  mavsdk is external: it discovers a system when a
connection reaches it, queues a call of the subscriber, and runs the calls on
its own thread (`OnNewSystem`, `SetValue`).  The promise on `link()`'s stack is
`value`; it is gone when `pc` is `idle` or another link runs.  The destruction
of a plugin is the code's two steps, `Join` of the derived class and `Free` of
the base class, run by whoever held the last reference, with the registry's
mutex held if that is `link()` (`Locked`).

**DJIVehicle** models `link()` of the DJI system with every step that may fail,
the camera's three attempts, `dji_regist_plugin` with `supportModel`, and a
plugin of each kind: telemetry packages, the battery's thread, zoom, video
stream and gimbal.  Linkers, vehicles and plugins are named by the link that
made them; `Unsafe` says that the vehicle points to a linker that was replaced.
The model is the last one that was recognised: a link with an unknown vehicle
succeeds all the same.  `DJIAPIMutex` is `api`, which `link()` keeps while it
waits for a list of files that need not come; the calls that do not take it
(video, gimbal, the battery's subscription) are single actions.  All five
telemetry plugins are one kind.

## 4. Runs

| Run | Question | Bounds |
|---|---|---|
| `mission_safety` | do map, state, callback, event log and lifecycle agree under every interleaving? | two missions, three download identities, one photo; 3.5 million states up to symmetry |
| `mission_liveness` | is `FINISHED_WITH_SUBTASK` left, and does `startMission` return? | two missions, two download tasks (one for each finished mission) |
| `loop` | is the loop a channel, does it never sleep on work, does its destructor return? | three distinct events, four posts |
| `mav` | does every task keep `MissionTask`'s contract; neither freed memory nor a torn result for a patient client; does a mission end? | two tasks, two plans |
| `dji_safety` | does every task keep `MissionTask`'s contract; actions once, right results, undefined behaviour only for a careless client | two tasks, one proxy, plans of one photo, two attempts, two events in flight |
| `dji_liveness` | do missions, `startMission` and callbacks end, also with two memories? | two tasks, two proxies, no photos, one attempt |
| `download` | no photo lost or requested twice, what a timeout can break, does every task end but for a list that never comes? | two files, two tasks, one other user, two attempts; 0.26 million states |
| `interpreter` | has a valid mission the whole plan, behind what its memory held before; does every stop end after its time; are photos told with the right waypoint? | all plans of two and three items of nine kinds, 64 of five; holds of 1, 2.3, 25.5 and 25.6 s; two missions, on one memory or two; 1.6 million states |
| `proxy_events` | does an event meet an object that is gone or a watcher that is null, and is a posted event handled? | a plugin, two proxies, two objects (one the child of the other), a client and the loop, two events; 1.1 million states |
| `mav_vehicle` | is a linked system ready, what ends the process, does `link()` return? | two links, a vehicle and a camera without autopilot, a collector with a thread and one without, one retry |
| `dji_vehicle` | is a linked system whole, what ends the process, do calls under the mutex return? | two links, two models and unknown ones, five kinds of plugin; 0.42 million states |
| `mission_lost_photo` | a finding, section 7 | as small as shows it |

Why the bounds are enough: every hazard of missions is between one mission and
the next, between two tasks, or between a task and one callback.  At most two
tasks of a make are alive at once (the one being replaced and its successor).  A
photo event can find the map empty, find a task, or find one that ends; one
photo and the request a finished mission makes itself reach all three.  Three
identities let one download end, one run and one be asked for.  Four posts of
three events fill the loop's queue, post one event twice and post out of a
callback.  One attempt more than one takes the upload loop's back edge; two
events in flight let an action, the completion and the finish be on their way
together.  Two files and two download tasks let a file appear before and after
each list, and a late answer meet the next file's request.  Three items and five
let every kind of item follow every other, first, last and last but one, and two
missions let a plan be appended to a good one, to one that failed or, with a new
proxy, meet the old context.  Two links let every later step meet what an
earlier link left, complete or failed: a subscription, a promise, a linker, a
plugin in the registry or in a proxy.  Two discoverable systems let the last one
be the wrong one.  Two proxies of one plugin let one replace the other as the
filter; two events let one be in the queue while the other is dispatched.  The
theorems need none of these bounds, except that each model names its tasks and
queues as constants.

Deadlock is checked, the models' terminal states being explicit steps that leave
the variables alone; the runs `download`, `proxy_events`, `mav_vehicle` and
`dji_vehicle` do not check it, because the system may stop there: the process is
gone, or its clients do nothing more.  Symmetry is used in safety runs only.
The inductive invariants of the proofs were checked with TLC on the same
instances before they were proved; they are not in the runs.

## 5. Fairness

Weak fairness of every thread's next step: the code's threads are scheduled by
the operating system, and no thread spins.  A mutex is modelled by the guard of
the action that takes it; but for `MissionInstance` and `DJIVehicle`, the
properties hold without strong fairness of locks. `MissionInstance`: strong
fairness of a task's steps, because others may take `_state_mutex` again and
again, each for a short section.  Calls of an SDK return: they carry timeouts in
the code, or are answered by the library; the list of files is the exception.
The vehicle: strong fairness of its disarming (`MavMission`) and of the end of a
flight (`DJIMission`), because a client that pauses and resumes again and again
disables and enables them; missions that stay paused are excluded in the
properties.  The camera owes no answer, neither to the request of a file,
without which tasks end, nor to that of its file list, which the code awaits
without a bound: `AllAreServed` and `CallReturns` name the list that never comes
as the one thing that stops a task or a call (`PhotoDownload`, `DJIVehicle`).
`ProxyEvents`: a thread in a notification goes on, a client that made an event
to post pushes it, and the loop's thread goes on; `PostedIsHandled` is about
careless clients too.  `MavVehicle`: `link()` and the threads it joins go on; of
the vehicle nothing is assumed, as discovery and identification end by
themselves (a timeout, a bounded number of queries).  `DJIVehicle`: strong
fairness of taking `DJIAPIMutex` for the client's call, because the mutex is not
fair while the battery's thread takes it again and again, though it sleeps
between its rounds; weak fairness of the calls under it, which have timeouts,
but none of the list `link()` waits for.  Clients are not fair: they need not
start anything, but a call they started goes on.

## 6. Proofs

Proofs are in modules of their own, which extend the component's module and
`TLAPS`.  Each states first that the inductive invariant `IInv` holds initially,
then one lemma for every action that it is kept, then theorems that follow.

* `MissionInstanceProofs`.  `IInv` adds to the safety properties where every
  thread is and what it holds: who owns `stateMutex`, that `is_running` spans a
  thread's life, that the map's entry is the one task between its start and its
  removal, that at most one main task is between start and report, and how state
  and event log are related while they are being settled.  From it: type
  correctness, one main task at a time, the map's entry is the task at work,
  entries are never overwritten, the client was told the settled state and a
  `FINISHED_WITH_SUBTASK` with a sub task (`ClientKnowsTheState`), state and log
  agree; and the refinement of `MissionLifecycle`, by a step to step argument.
* `EventProofs`, of `EventLoop` and `ProxyEvents`.  `LoopInv` relates queue,
  posts and the lock's holder.  From it: queue integrity, no lost wake-up,
  refinement of `EventChannel`.  `IInv` of `ProxyEvents` adds `CallsAreReal`
  (the queue holds events made, for objects there are, and the loop is in its
  callback while its thread is in a notification), `WatchersFit` and `LivesFit`
  (which object may watch which, and what a life allows), and, for a careful
  client, `Careful`: every target and watcher of a call, every target in the
  queue, what is being installed and every plugin's newest proxy is alive, no
  target has a watcher being set, the watcher about to be called or locked is
  there, and a child is gone only with its parent.  One lemma says that an
  action keeps `IInv` if it only moves one thread's call to an object that is
  alive and whose watcher nobody sets (`CallStep`), one that it does if it only
  manages objects that nobody uses (`ManageStep`); the deletion of a whole tree
  needs that below a live object nobody is gone (`NobodyGone`).  From it: only
  the careless calls end the process (`CarefulUse`).  By the way the module is
  built the loop inside is an `EventLoop` (the lemma `LoopInside`), so the
  channel's promise and the absence of lost wake-ups hold for the system as it
  is used (`ChannelInside`).  The first attempt failed at `LockWatcher`: a weak
  watcher that is replaced between look-up and lock was not yet counted as in
  use, and TLC shows with three objects that deleting the new one ends the
  process; `InUse` names it now.
* `MavMissionProofs`.  `IInv` orders the three destructor steps against the two
  threads of the task that is dropped, and says that a patient client drops only
  tasks that have reported, and, if no return home was refused to it, that
  nobody is left to assign a result that is being copied.  The refinement of
  `MissionTask` needs of it where the two threads of a task can be and that
  `_stage_rst` is a real result once the wait is over: every step within a stage
  is hidden (`PlaceStays`), every step to another one is a report.
* `DJIMissionProofs`.  `IInv` has a part for any client (stages, pointers) and a
  part for the orderly one: only the current task lacks a result, it works on
  the memory the handlers use, everything pushed is its own with the finish
  last, the filter marks what was posted for it, and a completed mission is
  counted before its finish is handled.  The refinement of `MissionTask` holds
  for any client and needs only the part for any client.
* `PhotoDownloadProofs`.  `IInv` says that whoever works with the SDK holds its
  mutex, that a request is the one its thread waits for, which need not have
  one, unless a download was given up, and that the lists of new files are
  disjoint, known and not yet requested.
* `DJIInterpreterProofs`.  `IInv` says, between any two items, that the tables
  have an entry for every waypoint and action, that a trigger points to the
  action before its own or to a waypoint that is there, what the context
  remembers, and what follows every stop but the one that is still open.  The
  part about stops needs the plan's orderliness, the context part and the bound
  that ids fit in 16 bits.  Two lemmas bound what rounding and cutting off make
  of a hold time and of the rest of it (`TenthsOfHold`, `TenthsOfRest`).  From
  it: every stop ends after its hold time, a tenth less at most, by one action
  only; events name their waypoint.  `PassInv` is proved beside it: the
  waypoints and the photos that this pass has added are those among the items
  passed, each once and in their order, in the tables, in what the vehicle is
  sent and in the photo points; of what the memory held before, which is flown
  again, it says nothing.  It is kept by each branch of the loop, because a
  branch adds at most the item it is at, after all the others; at the end of a
  valid pass it is `ConvertsThePlan` (`MissionIsThePlan`).
* `MavVehicleProofs`.  `IInv` says, for every place in the order of
  registration, which link the registry's plugin is of and whether it lives;
  that only a system with an autopilot is ever told; and, for a careful client,
  that what is held, started, subscribed or in the registry is alive and that no
  callback of an earlier link is under way.  From it: a linked system has an
  autopilot and its plugins (its identity is not covered: the code ignores that
  it could not be had), and only the careless uses end the process.
* `DJIVehicleProofs`.  `IInv` says that linker and vehicle of a link that goes
  on or succeeded are its own, which kinds are registered at every point of the
  registration, and, for a careful client, that calls, battery threads and
  pushed packages are between links, on a vehicle with its linker.  From it: a
  linked system has its linker, its vehicle and the plugins of the model
  recorded last; only the careless calls end the process.

Assumptions: `ConstantsAssumption` (or its like) in each module: distinct null
values, natural numbers, a sequence without repetitions, finiteness where it is
needed.  TLC evaluates them.

Only model-checked: all liveness (fairness and `ENABLED` are beyond the prover)
and the finding.  Every safety property and every refinement that a passing run
checks is stated by a theorem.

## 7. Findings

With a run that shows it (`mission_lost_photo`): a photo event can be left
unhandled (`WPMInstanceProxy.cpp:27-30`, against its line 61): the flag is set
after the ending task looked at it.

Seen while modelling, without a run.  Missions and events:

* `FAILED_WITH_SUBTASK` is never left (`MissionInstanceProxy.cpp:58-70`): a
  client is told of a subtask, as `InstanceState.hpp:31-37` describes the state,
  when there is none any more.
* Both makes copy the result of a mission without the lock under which it is
  assigned (`MavMainTask.cpp:150`, `DJIWPMMainTask.cpp:170`).  A MAVLink client
  is safe unless the vehicle refuses it a return home while the mission ends.
* `RObject.cpp:57-63` reads the event filter twice, and `installEventFilter`
  takes the old one away before it sets the new one (lines 68-73): a thread that
  notifies the object meanwhile calls through a null pointer.
* The list of the camera's files is awaited without a bound, with `DJIAPIMutex`
  locked, and the return code of its request is ignored
  (`DJICameraManager.cpp:112-118`): a request that is refused stops every other
  call of the SDK for good.
* Hold times of a DJI mission are cut off, not rounded, to tenths, and the rest
  after a photo once more: of 2.3 s the vehicle holds 2.2 s
  (`STDWPInterpreter.cpp:23`, `parse_photo_item.cpp:65-78`).
* `return2home` reports an interruption exactly when the vehicle refused it
  (`MavMissionInstance.cpp:162`); the other commands invert their answer too.
* A DJI proxy's later, interrupted mission is reported as a success, because the
  counter of repetitions is the earlier mission's (`DJIEventWrapper.cpp:109`;
  `CompletedMeansSuccess` is the other direction).
* `RObject.hpp:31` says that an event filter is called before the event is put
  into the event loop; the code calls it when the loop dispatches the event.
* `~BaseProxy` does not take away the filter it installed: events of the plugin
  meet the proxy that is gone.  `start` of a proxy whose plugin was not found
  dereferences a null pointer, though its constructor allows such a proxy.
* A DJI mission is started though 50 uploads of its waypoints failed
  (`DJIWPMMainTask.cpp:83`; the last disjunct of `UploadMission`).
* The DJI interpreter appends to the memory of its proxy: a proxy's second
  mission flies the first plan again, before its own, and is compared with the
  photo points of both.  Validity, once lost, and the order to return
  automatically, once given, are never taken back (`STDWPInterpreter.cpp:86`;
  `dji_photo_point` is kept even when a failed conversion clears the rest).
* A photo item before any waypoint dereferences a null pointer
  (`parse_photo_item.cpp:17`; `NoLastWp`), or one into a list that was
  overwritten.  A hold at the last item of a plan, or one that no waypoint or
  photo follows, is never ended (`parse_common_wp.cpp:120`; `IsOrderly`).
* `calTurnMode` computes an aligned angle and a corrected difference and uses
  neither (`parse_common_wp.cpp:25-29`), so the vehicle turns the long way round
  between some headings (`CalTurnMode`).
* A MAVLink proxy's second mission flies the first plan again, before its own
  (`MavWPInterpreter.cpp:39` appends to `item_list`, which nobody clears;
  `MavMission`'s `Interpret`).
* A download that is given up counts as a success, so a photo event is posted
  for a file that is not there; its late answer may be taken for the next
  file's, and ends the process if it comes between `wait_for` and `set_value`
  (`DownloadPhotoTask.cpp:329-332`; `PostedIsSaved` and `CrashOnlyAfterTimeout`
  say that nothing else does).
* `STARTING` is never entered (`MissionInstanceProxy.cpp:220`, against
  `InstanceState.hpp:10`), and `FINISHED` is announced just before a download
  task is started (`MissionInstanceProxy.cpp:274`, against
  `InstanceState.hpp:37`).
* A client that opens a second proxy or starts a second mission during a flight,
  or whose start was acknowledged as failed but happened, can meet undefined
  behaviour (`OrderlyIsSafe` and `PatientClientIsSafe` say who cannot).

Vehicles:

* The MAVLink discovery callback looks at `systems().back()`, which need not be
  the system it was called for: with a camera discovered after the vehicle, a
  vehicle that is there is not linked.  Connections of earlier links stay.
* `_regist_impl` destroys the replaced plugin with `plugin_regist_mutex` locked,
  and its destructor joins the thread: a listener of that thread that opens a
  proxy waits for ever (`PluginMap.cpp:63`; `asks` in `LinkReturns`).
* A second start of `MavAttitude` ends the process, as a running thread is
  overwritten; attitudes are published before the first message came.  The other
  collectors say they are started before they subscribed.
* A linked MAVLink system and its plugins keep each other alive; one that was
  never linked is destroyed and stays subscribed to mavsdk's log
  (`MavBasedVehicleSystem.cpp:208`; `Log`).
* A DJI link that fails after the new linker was made leaves the old vehicle
  with a linker that is gone (`DJIVehicleSystem.cpp:131`; `Unsafe`), and the
  linker that failed is leaked.  After a link to another model, the plugins that
  only the first model supports stay registered.
* A telemetry plugin says it is started though its package failed; the battery's
  `isStarted` returns `_should_exit`; the video stream's `isStarted` stops the
  stream.  The gimbal's callback casts the plugin to its `Impl`, which is
  undefined (`rotateAsync`).
* `DJIWPMMainTask.cpp:68` reads the take-off altitude, without a lock, from
  `lastUpdatePosition`, which only the GNSS collector writes: without that
  collector it is the initial one.
* `SystemHardSync` and `DJIGPSTime` are never instantiated.

## 8. Not modelled

The components of `PROJECT.json` with status `not_modelled`: vendored code (the
DJI samples and their OS layers, the EXIF writer), which has no logic of the
SDK; hardware time synchronisation, which nothing instantiates; floating point
geodesy; data types, descriptions and configuration, which have no behaviour. Of
the modelled parts:

* the destruction of a mission proxy, calls of a client out of a mission's
  callback, and the growth of `_end_sub_task_list`;
* the conversion of telemetry values and time stamps of events
  (`updateSystemBias`): arithmetic on floating point;
* progress events of a DJI mission, which read the same memory and only post;
* the reference counts of proxies and plugins, for which `held`, `kept` and the
  careless calls stand;
* the collectors' last message and list of listeners, which one mutex protects
  (`Collector.hpp:58`), though `lastMessage` returns a reference that is read
  after the unlock, and `onUpdate` calls the listeners with the mutex locked:
  one that asks its own collector waits for itself, as a listener of a proxy
  does in `ProxyEvents`.
