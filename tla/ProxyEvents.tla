----------------------------- MODULE ProxyEvents -----------------------------
(***************************************************************************)
(* Objects and events of the SDK: RObject with its children and its event  *)
(* filter, BaseProxy, which installs itself as the filter of its plugin,   *)
(* the sending and posting of events by RobotSystem, and the publishing of *)
(* system information to subscribers.                                      *)
(*                                                                         *)
(* An event for an object is first shown to its watcher, a raw pointer or  *)
(* a weak one, then to the object.  Whoever notifies an object reads its   *)
(* pointers twice, first to see whether there is a watcher, and without    *)
(* the mutex that installs one.  A proxy calls its listener with           *)
(* _sub_mutex locked.  A posted event waits in the system's event loop     *)
(* together with the raw pointer of its target: this module extends        *)
(* EventLoop and takes its steps, with the callback spelled out.  The loop *)
(* is not destroyed here.                                                  *)
(*                                                                         *)
(* Nothing of this counts references: whether a call meets an object that  *)
(* is gone depends on what the clients do.  careless records the calls     *)
(* which the code does not protect, and CarefulIsSafe says they are all.   *)
(*                                                                         *)
(* A definition commented "Slip" is wrong on purpose: it is a variant of   *)
(* the definition after it, which shows that a property can fail.          *)
(***************************************************************************)
EXTENDS EventLoop

CONSTANTS
    Plugins,     \* plugins of the system, which live as long as it
    Proxies,     \* bound: proxies, each of which is opened once
    Nodes,       \* bound: objects of the clients
    Parent,      \* the parent a node was made with, or None
    Clients,     \* threads of the clients
    Loop,        \* the thread of the event loop
    System,      \* the RobotSystem, as the publisher of its information
    MaxEvents,   \* bound: events
    None         \* no object, no thread

ASSUME ConstantsAssumption ==
    /\ Parent \in [Nodes -> Nodes \cup {None}]
    /\ MaxEvents \in Nat
    /\ Loop \notin Clients /\ None \notin Clients \cup {Loop}
    /\ {None, System} \cap (Plugins \cup Proxies \cup Nodes) = {}
    /\ Plugins \cap Proxies = {} /\ Nodes \cap (Plugins \cup Proxies) = {}
    /\ System # None

Objects == Plugins \cup Proxies \cup Nodes \cup {System}
Listeners == Proxies \cup {System}
Threads == Clients \cup {Loop}
Numbers == 1..MaxEvents
Jobs    == [event : Numbers, target : Objects]

\* What the loop's queue holds: an event and its target.
ASSUME JobsAssumption == Jobs \subseteq Events

VARIABLES
    life,      \* "unborn", "installing", "alive" or "gone", for every object
    plugin,    \* _plugin of every proxy
    bare,      \* _watcher_bare of every object
    weak,      \* _watcher of every object
    setting,   \* the watcher that an installEventFilter under way will set
    newest,    \* history: the proxy opened last on a plugin
    reenters,  \* the listeners that call what locks the same mutex again
    holder,    \* the thread that holds a proxy's _sub_mutex
    events,    \* history: the events made
    call,      \* the notification every thread is in
    careless,  \* history: a client did what the code does not protect
    crashed    \* the process is gone

treeVars  == <<life, plugin>>
watchVars == <<bare, weak, setting, newest>>
subVars   == <<reenters, holder>>
vars == <<treeVars, watchVars, subVars, events, call, careless, crashed,
          loopVars>>

Idle == [stage |-> "idle", event |-> 0, target |-> None, watcher |-> None]

Init ==
    /\ life = [o \in Objects |-> IF o \in Proxies THEN "unborn" ELSE "alive"]
    /\ plugin = [p \in Proxies |-> None]
    /\ bare = [o \in Objects |-> None] /\ weak = [o \in Objects |-> None]
    /\ setting = [o \in Objects |-> None]
    /\ newest = [o \in Plugins |-> None]
    /\ reenters = {}
    /\ holder = [p \in Listeners |-> None]
    /\ LoopInit /\ events = 0
    /\ call = [t \in Threads |-> Idle]
    /\ careless = FALSE /\ crashed = FALSE

-----------------------------------------------------------------------------
(* Objects: who is alive, who watches whom.                                *)

Alive(o) == life[o] \in {"installing", "alive"}

\* The event at this place of the queue was not handed to the callback yet.
Waits(i) == i = 1 => loop \notin {"callback", "relock"}

\* An object to which an event is on its way.
IsTarget(o) ==
    \/ \E t \in Threads : call[t].target = o
    \/ \E i \in 1..Len(queue) : Waits(i) /\ queue[i].target = o

\* An object a thread is about to use, be it as the watcher that was set since
\* it looked, or that it installs.
InUse(o) ==
    \/ IsTarget(o)
    \/ \E t \in Threads : call[t].watcher = o
    \/ \E t \in Threads : call[t].stage = "lock" /\ weak[call[t].target] = o
    \/ \E x \in Objects : setting[x] # None /\ o \in {x, setting[x]}

\* A thread is in a notification of it.
IsNotified(o) ==
    \E t \in Threads : call[t].target = o /\ call[t].stage # "push"

\* ~RObject deletes the children, and theirs: the least set with n that has
\* the children of its members.
Below(n) ==
    {m \in Nodes :
        \A S \in SUBSET Nodes :
            n \in S /\ (\A k \in Nodes : Parent[k] \in S => k \in S) => m \in S}

removeEventFilter(o) ==
    /\ weak' = [weak EXCEPT ![o] = None]
    /\ bare' = [bare EXCEPT ![o] = None]

\* BaseProxy(): a proxy of an absent plugin is made as well.  The filter is
\* taken away before it is set, and readers do not lock: one that saw the old
\* filter may find none.  Which of the names a new proxy gets does not matter;
\* bound: one proxy of an absent plugin.
Open(p, o) ==
    /\ life[p] = "unborn" /\ p = CHOOSE q \in Proxies : life[q] = "unborn"
    /\ IF o # None
       THEN \A q \in Proxies : life[q] = "installing" => plugin[q] # o
       ELSE \A q \in Proxies : life[q] # "unborn" => plugin[q] # None
    /\ plugin' = [plugin EXCEPT ![p] = o]
    /\ IF o = None
       THEN /\ life' = [life EXCEPT ![p] = "alive"]
            /\ UNCHANGED watchVars
       ELSE /\ life' = [life EXCEPT ![p] = "installing"]
            /\ removeEventFilter(o)
            /\ UNCHANGED <<setting, newest>>
    /\ careless' = (careless \/ (o # None /\ bare[o] # None /\ IsNotified(o)))
    /\ UNCHANGED <<subVars, events, loopVars, call, crashed>>

\* Slip: the first proxy stays the filter.
InstallFirst(p) ==
    /\ life[p] = "installing"
    /\ life' = [life EXCEPT ![p] = "alive"]
    /\ bare' = [bare EXCEPT ![plugin[p]] =
                    IF newest[plugin[p]] = None THEN p ELSE newest[plugin[p]]]
    /\ newest' = [newest EXCEPT ![plugin[p]] = p]
    /\ UNCHANGED <<plugin, weak, setting, subVars, events, loopVars, call,
                   careless, crashed>>

\* installEventFilter: the new watcher is set, and the constructor returns.
Install(p) ==
    /\ life[p] = "installing"
    /\ life' = [life EXCEPT ![p] = "alive"]
    /\ bare' = [bare EXCEPT ![plugin[p]] = p]
    /\ newest' = [newest EXCEPT ![plugin[p]] = p]
    /\ UNCHANGED <<plugin, weak, setting, subVars, events, loopVars, call,
                   careless, crashed>>

\* start and isStarted do not ask isLoaded.
start(p) ==
    /\ life[p] = "alive" /\ plugin[p] = None
    /\ crashed' = TRUE /\ careless' = TRUE
    /\ UNCHANGED <<treeVars, watchVars, subVars, events, loopVars, call>>

\* ~BaseProxy does not remove the filter it installed.
Close(p) ==
    /\ life[p] = "alive"
    /\ life' = [life EXCEPT ![p] = "gone"]
    /\ careless' = (careless \/ InUse(p) \/ \E o \in Plugins : newest[o] = p)
    /\ UNCHANGED <<plugin, watchVars, subVars, events, loopVars, call, crashed>>

\* A client watches an object of its own through a shared pointer: the old
\* watcher is taken away ...
installEventFilter(o, w) ==
    /\ Alive(o) /\ Alive(w) /\ o # w /\ setting[o] = None
    /\ removeEventFilter(o)
    /\ setting' = [setting EXCEPT ![o] = w]
    /\ careless' = (careless \/ IsTarget(o))
    /\ UNCHANGED <<treeVars, newest, subVars, events, loopVars, call, crashed>>

\* ... and the new one is set.
SetWatcher(o) ==
    /\ setting[o] # None
    /\ weak' = [weak EXCEPT ![o] = IF Alive(setting[o]) THEN setting[o] ELSE None]
    /\ setting' = [setting EXCEPT ![o] = None]
    /\ crashed' = ~Alive(o)
    /\ UNCHANGED <<treeVars, bare, newest, subVars, events, loopVars, call, careless>>

\* A weak watcher that is gone is no watcher: it expires.  The argument of
\* installEventFilter keeps it.
Delete(n) ==
    /\ Alive(n) /\ \A o \in Objects : setting[o] # n
    /\ life' = [o \in Objects |-> IF o \in Below(n) THEN "gone" ELSE life[o]]
    /\ weak' = [o \in Objects |-> IF weak[o] \in Below(n) THEN None ELSE weak[o]]
    /\ crashed' = \E m \in Below(n) : life[m] = "gone"
    /\ careless' = \/ careless
                   \/ \E m \in Below(n) : InUse(m)
                   \/ (Parent[n] # None /\ Alive(Parent[n]))
    /\ UNCHANGED <<plugin, bare, setting, newest, subVars, events, loopVars, call>>

-----------------------------------------------------------------------------
(* Making events.                                                          *)

\* Sending an event notifies the target at once; posting it queues it first.
\* Both stamp it before.
Make(t, o, stage) ==
    /\ call[t].stage = "idle" /\ events < MaxEvents /\ Alive(o)
    /\ events' = events + 1
    /\ call' = [call EXCEPT ![t] = [stage |-> stage, event |-> events',
                                    target |-> o, watcher |-> None]]
    /\ careless' = (careless \/ setting[o] # None)
    /\ UNCHANGED <<treeVars, watchVars, subVars, loopVars, crashed>>

sendEvent(t, o) == Make(t, o, "notify")
postEvent(t, o) == Make(t, o, "push")

\* Information of the system goes to those who subscribed to it.
_publish(t) == Make(t, System, "publish")

Job(t) == [event |-> call[t].event, target |-> call[t].target]

\* Slip: a loop that sleeps is not notified.
PushUnheard(t) ==
    /\ call[t].stage = "push"
    /\ PushEventSilently(Job(t))
    /\ call' = [call EXCEPT ![t] = Idle]
    /\ UNCHANGED <<treeVars, watchVars, subVars, events, careless, crashed>>

\* pushEvent, with the pointer of the target.
Push(t) ==
    /\ call[t].stage = "push"
    /\ PushEvent(Job(t))
    /\ call' = [call EXCEPT ![t] = Idle]
    /\ UNCHANGED <<treeVars, watchVars, subVars, events, careless, crashed>>

\* The callback takes the event it is handed to its target.
onEventLoopPop ==
    call' = IF seen' = seen THEN call
            ELSE LET job == seen'[Len(seen')] IN
                 [call EXCEPT ![Loop] = [stage |-> "notify", event |-> job.event,
                                         target |-> job.target,
                                         watcher |-> None]]

\* The loop's thread goes on, from the callback when that is done.
LoopThread ==
    /\ QueueThread
    /\ loop = "callback" => call[Loop].stage = "idle"
    /\ onEventLoopPop
    /\ UNCHANGED <<treeVars, watchVars, subVars, events, careless, crashed>>

LoopWakes ==
    /\ SpuriousWake
    /\ onEventLoopPop
    /\ UNCHANGED <<treeVars, watchVars, subVars, events, careless, crashed>>

-----------------------------------------------------------------------------
(* Notifying an object.                                                    *)

To(t, stage, w) ==
    call' = [call EXCEPT ![t] = [stage |-> stage, event |-> @.event,
                                 target |-> @.target, watcher |-> w]]

\* The watchers of an object are used, which fails if they are bad, and may fail
\* while a weak one is being changed.
Uses(o, bad) == crashed' \in {bad, bad \/ setting[o] # None}

\* The target is used first, and its watchers are read without the mutex ...
notifyied(t) ==
    LET o == call[t].target IN
    /\ call[t].stage = "notify"
    /\ Uses(o, ~Alive(o))
    /\ IF bare[o] # None THEN To(t, "call", None)
       ELSE IF weak[o] # None THEN To(t, "lock", None)
       ELSE To(t, "revent", None)
    /\ UNCHANGED <<treeVars, watchVars, subVars, events, loopVars, careless>>

\* ... and once more to call them: _watcher_bare may be null by now ...
CallWatcher(t) ==
    LET o == call[t].target IN
    /\ call[t].stage = "call"
    /\ Uses(o, ~Alive(o) \/ bare[o] = None)
    /\ To(t, "filter", bare[o])
    /\ UNCHANGED <<treeVars, watchVars, subVars, events, loopVars, careless>>

\* ... and so may _watcher.lock() be, after expired().  An RObject's own filter
\* does nothing.
LockWatcher(t) ==
    LET o == call[t].target IN
    /\ call[t].stage = "lock"
    /\ Uses(o, ~Alive(o) \/ weak[o] = None)
    /\ To(t, "revent", None)
    /\ UNCHANGED <<treeVars, watchVars, subVars, events, loopVars, careless>>

\* The object whose handler runs next.
Callee(t) == IF call[t].stage = "filter" THEN call[t].watcher ELSE call[t].target

\* eventFilter and revent of a proxy: the listener is called under the mutex.
Listen(t) ==
    LET p == Callee(t) IN
    /\ call[t].stage \in {"filter", "revent", "publish"} /\ p \in Listeners
    /\ holder[p] = None
    /\ crashed' = ~Alive(p)
    /\ holder' = [holder EXCEPT ![p] = t]
    /\ To(t, IF call[t].stage = "filter" THEN "filtering" ELSE "reventing",
          call[t].watcher)
    /\ UNCHANGED <<treeVars, watchVars, reenters, events, loopVars, careless>>

\* The listener returns, unless it waits for the mutex its caller holds.
Heard(t) ==
    LET p == IF call[t].stage = "filtering" THEN call[t].watcher
             ELSE call[t].target IN
    /\ call[t].stage \in {"filtering", "reventing"}
    /\ p \notin reenters
    /\ holder' = [holder EXCEPT ![p] = None]
    /\ IF call[t].stage = "filtering"
       THEN To(t, "revent", None)
       ELSE call' = [call EXCEPT ![t] = Idle]
    /\ UNCHANGED <<treeVars, watchVars, reenters, events, loopVars, careless, crashed>>

\* revent of an object that is not a proxy only returns.
revent(t) ==
    /\ call[t].stage = "revent" /\ call[t].target \notin Proxies
    /\ crashed' = ~Alive(call[t].target)
    /\ call' = [call EXCEPT ![t] = Idle]
    /\ UNCHANGED <<treeVars, watchVars, subVars, events, loopVars, careless>>

\* setEventListener, subscribeSystemInfo.  No listener and one that returns do
\* the same here; one that sets a listener, or sends an event to its own proxy
\* or publishes, waits for the mutex its caller holds.
setEventListener(p) ==
    /\ life[p] = "alive" /\ holder[p] = None /\ p \notin reenters
    /\ reenters' = reenters \cup {p}
    /\ careless' = TRUE
    /\ UNCHANGED <<treeVars, watchVars, holder, events, loopVars, call, crashed>>

-----------------------------------------------------------------------------
ClientStep(t) ==
    \/ \E o \in Objects \ {System} : sendEvent(t, o) \/ postEvent(t, o)
    \/ _publish(t)

Notify(t) ==
    \/ notifyied(t) \/ CallWatcher(t) \/ LockWatcher(t)
    \/ Listen(t) \/ Heard(t) \/ revent(t)

Manage ==
    \/ \E p \in Proxies, o \in Plugins \cup {None} : Open(p, o)
    \/ \E p \in Proxies : start(p) \/ Close(p)
    \/ \E p \in Listeners : setEventListener(p)
    \/ \E n, w \in Nodes : installEventFilter(n, w)
    \/ \E n \in Nodes : Delete(n)

\* The second halves of an installation.
Finish ==
    \/ \E p \in Proxies : Install(p)
    \/ \E o \in Objects : SetWatcher(o)

\* What follows a careless call is watched, but the clients add nothing to it.
Next ==
    /\ ~crashed
    /\ \/ ~careless /\ (Manage \/ \E t \in Clients : ClientStep(t))
       \/ Finish
       \/ \E t \in Clients : Push(t)
       \/ \E t \in Threads : Notify(t)
       \/ LoopThread \/ LoopWakes

Spec == Init /\ [][Next]_vars

\* A client that is posting or in a notification goes on, and so does the loop's
\* thread.  A mutex is taken by others for finitely many events only, so it need
\* not be fair.
FairSpec ==
    /\ Spec
    /\ \A t \in Clients : WF_vars(~crashed /\ (Push(t) \/ Notify(t)))
    /\ WF_vars(~crashed /\ (LoopThread \/ Notify(Loop)))

-----------------------------------------------------------------------------
TypeOK ==
    /\ life \in [Objects -> {"unborn", "installing", "alive", "gone"}]
    /\ plugin \in [Proxies -> Plugins \cup {None}]
    /\ bare \in [Objects -> Objects \cup {None}]
    /\ weak \in [Objects -> Objects \cup {None}]
    /\ setting \in [Objects -> Objects \cup {None}]
    /\ newest \in [Plugins -> Proxies \cup {None}]
    /\ reenters \subseteq Listeners
    /\ holder \in [Listeners -> Threads \cup {None}]
    /\ LoopTypeOK /\ events \in 0..MaxEvents
    /\ call \in [Threads ->
           [stage : {"idle", "push", "notify", "publish", "call", "lock", "filter",
                     "filtering", "revent", "reventing"},
            event : 0..MaxEvents, target : Objects \cup {None},
            watcher : Objects \cup {None}]]
    /\ careless \in BOOLEAN /\ crashed \in BOOLEAN

\* No call meets an object that is gone or a watcher that is null, and none
\* deletes an object twice, as long as proxies replace one another on a plugin
\* that is not being notified and are closed after they were replaced and used,
\* no event is on its way to an object whose watcher is changed, and objects are
\* not deleted below their parents or while an event is on its way to them
\* (notifyied, installEventFilter, ~BaseProxy, ~RObject).
CarefulIsSafe == crashed => careless

(* Why it holds.  What a call in progress and a waiting event carry is in     *)
(* range, and the loop's thread is in no call but that of its callback.       *)

CallsAreReal ==
    /\ \A t \in Threads : call[t].stage # "idle" =>
           call[t].event \in Numbers /\ call[t].target \in Objects
    /\ call[Loop].stage # "idle" => loop = "callback"
    /\ queue \in Seq(Jobs)

\* Proxies filter plugins, and nodes watch nodes, through pointers that expire.
WatchersFit ==
    /\ \A o \in Plugins : bare[o] \in {None, newest[o]}
    /\ \A o \in Objects \ Plugins : bare[o] = None
    /\ \A o \in Objects : weak[o] # None =>
           o \in Nodes /\ weak[o] \in Nodes /\ Alive(weak[o])
    /\ \A o \in Objects : setting[o] # None => o \in Nodes /\ setting[o] \in Nodes

\* Plugins and the system stay; a node is made before it is used.
LivesFit ==
    /\ \A o \in Plugins \cup {System} : life[o] = "alive"
    /\ \A n \in Nodes : life[n] \in {"alive", "gone"}

\* Clients that were careful so far: whom a thread, an event or a plugin points
\* to is alive, and whoever is gone was not left below a parent.
Careful ==
    /\ ~crashed
    /\ \A t \in Threads :
           /\ call[t].target # None => Alive(call[t].target)
           /\ call[t].watcher # None => Alive(call[t].watcher)
           /\ call[t].stage = "call" => bare[call[t].target] # None
           /\ call[t].stage = "lock" => weak[call[t].target] # None
    /\ \A o \in Objects : setting[o] # None =>
           Alive(o) /\ Alive(setting[o]) /\ ~IsTarget(o)
    /\ \A i \in 1..Len(queue) : Waits(i) => Alive(queue[i].target)
    /\ \A o \in Plugins : newest[o] # None => life[newest[o]] = "alive"
    /\ \A n \in Nodes : life[n] = "gone" /\ Parent[n] # None =>
           life[Parent[n]] = "gone"

\* Together they are inductive.
IInv ==
    /\ TypeOK /\ LoopInv /\ CallsAreReal /\ WatchersFit /\ LivesFit
    /\ ~careless => Careful

\* A listener waits for the mutex its caller holds.
WaitsForItself == \E p \in reenters : holder[p] # None

\* A posted event is dispatched, its handlers return and it leaves the queue,
\* whatever careless clients do, unless the process is gone or a listener waits
\* for itself (handle, onEventLoopPop, eventFilter, _publish).
PostedIsHandled ==
    \A n \in Numbers :
        Len(posted) >= n ~> (Popped >= n \/ crashed \/ WaitsForItself)
=============================================================================
