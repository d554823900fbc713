------------------------------ MODULE MavVehicle ------------------------------
(***************************************************************************)
(* The mavlink vehicle system: link(), which waits for a system that       *)
(* mavsdk discovers and registers a plugin of every kind for it, and the   *)
(* life of the collector plugins: opened by proxies, started, replaced by  *)
(* the next link, destroyed with the last reference.                       *)
(*                                                                         *)
(* Three parties run at once: the thread that links, mavsdk's thread of    *)
(* callbacks, and a client with its proxies; every started attitude        *)
(* collector adds a thread.  link() hands mavsdk a callback that refers to *)
(* a promise on its own stack.                                             *)
(*                                                                         *)
(* A definition commented "Slip" is wrong on purpose: it is a variant of   *)
(* the definition after it, which shows that a property can fail.          *)
(***************************************************************************)
EXTENDS Naturals, Sequences, SequencesExt

CONSTANTS
    Systems,     \* what mavsdk can discover
    Autopilots,  \* those with has_autopilot()
    Methods,     \* opt_key, in the order addConnection looks them up
    Via,         \* the method a system is reached by
    Kinds,       \* the plugins, in the order they are registered
    Threaded,    \* the kinds that collect with a thread (MavAttitude)
    MaxLinks,    \* bound: calls of link()
    Retries,     \* max_retry_time of getUniqueID
    None         \* no system, no plugin

ASSUME ConstantsAssumption ==
    /\ Autopilots \subseteq Systems /\ None \notin Systems
    /\ Via \in [Systems -> Range(Methods)]
    /\ Kinds \in Seq(Range(Kinds)) /\ IsInjective(Kinds)
    /\ Threaded \subseteq Range(Kinds)
    /\ MaxLinks \in Nat /\ Retries \in Nat
    /\ None \notin Range(Kinds) \X (1..MaxLinks)

Links   == 1..MaxLinks
Plugins == Range(Kinds) \X Links      \* a plugin is named by the link it is of
Parties == {"linker", "client"}

VARIABLES
    pc, links,    \* where link() is, and how often it was called
    connections,  \* the connections of the one Mavsdk object
    systems,      \* Mavsdk::systems()
    subscriber,   \* the link whose callback mavsdk calls, or 0
    calls,        \* calls of a callback that mavsdk queued
    setting,      \* the call that goes on to set_value
    value,        \* the promise of the link that runs
    current,      \* _mavsdk_system
    linked,       \* is_linked
    tries,        \* queries of getUniqueID, then registered plugins
    registry,     \* plugin_hash_map: the link a plugin is of, or 0
    life,         \* of every plugin
    worker,       \* _bg_thread of every plugin
    subscribed,   \* plugins whose telemetry callback is set
    held,         \* plugins the client has a proxy of
    starting,     \* the plugin whose start() waits for its rate, or None
    dying,        \* the plugin each party destroys, or None
    asks,         \* a listener of the client asks the registry
    gone,         \* the system was destroyed
    careless,     \* history: something happened that the code does not protect
    crashed       \* the process is gone

promiseVars == <<subscriber, calls, setting, value>>
systemVars  == <<links, connections, systems, current, linked, gone>>
pluginVars  == <<registry, life, worker, subscribed, held, starting, dying, asks>>
vars == <<pc, tries, promiseVars, systemVars, pluginVars, careless, crashed>>

Init ==
    /\ pc = "idle" /\ links = 0 /\ connections = {} /\ systems = <<>>
    /\ subscriber = 0 /\ calls = <<>> /\ setting = <<>> /\ value = None
    /\ current = None /\ linked = FALSE /\ tries = 0 /\ gone = FALSE
    /\ registry = [k \in Range(Kinds) |-> 0]
    /\ life = [i \in Plugins |-> "unborn"] /\ worker = [i \in Plugins |-> "none"]
    /\ subscribed = {} /\ held = {} /\ starting = None /\ asks = FALSE
    /\ dying = [p \in Parties |-> None]
    /\ careless = FALSE /\ crashed = FALSE

-----------------------------------------------------------------------------
(* link(), up to the system.                                               *)

\* A configuration has a method or has not.
getPameter(config, m) == m \in config

\* The first method the configuration has, or none: that is only logged.
addConnection(config) ==
    LET found == SelectSeq(Methods, LAMBDA m : getPameter(config, m))
    IN  IF found = <<>> THEN connections ELSE connections \cup {Head(found)}

Connect(config) ==
    /\ pc = "idle" /\ links < MaxLinks /\ ~gone
    /\ pc' = "subscribe" /\ links' = links + 1
    /\ connections' = addConnection(config)
    /\ value' = None
    /\ UNCHANGED <<tries, subscriber, calls, setting, systems, current, linked,
                   gone, pluginVars, careless, crashed>>

\* mavsdk may tell a new subscriber of the systems it knows.
Subscribe(tell) ==
    /\ pc = "subscribe" /\ (tell => systems # <<>>)
    /\ pc' = "wait" /\ subscriber' = links
    /\ calls' = IF tell THEN Append(calls, links) ELSE calls
    /\ UNCHANGED <<tries, setting, value, systemVars, pluginVars, careless,
                   crashed>>

\* A call of the callback of link l was queued and has not returned.
UnderWay(l) == l \in Range(calls) \/ (setting # <<>> /\ setting[1] = l)

\* External: mavsdk sees a system and queues a call for the subscriber.
Discover(s) ==
    /\ s \notin Range(systems) /\ Via[s] \in connections
    /\ systems' = Append(systems, s)
    /\ calls' = IF subscriber # 0 THEN Append(calls, subscriber) ELSE calls
    /\ careless' = (careless \/ (subscriber # 0 /\ UnderWay(subscriber)))
    /\ UNCHANGED <<pc, tries, subscriber, setting, value, links, connections,
                   current, linked, gone, pluginVars, crashed>>

\* The callback looks at the last system, whichever it was called for.
OnNewSystem ==
    /\ setting = <<>> /\ calls # <<>>
    /\ calls' = Tail(calls)
    /\ IF Last(systems) \in Autopilots
       THEN /\ subscriber' = 0
            /\ setting' = <<Head(calls), Last(systems)>>
       ELSE UNCHANGED <<subscriber, setting>>
    /\ UNCHANGED <<pc, tries, value, systemVars, pluginVars, careless, crashed>>

\* A promise that is gone, or was set: undefined, or an exception nobody catches.
SetValue ==
    /\ setting # <<>>
    /\ crashed' = (setting[1] # links \/ pc = "idle" \/ value # None)
    /\ value' = setting[2] /\ setting' = <<>>
    /\ UNCHANGED <<pc, tries, subscriber, calls, systemVars, pluginVars,
                   careless>>

Timeout ==
    /\ pc = "wait" /\ value = None
    /\ pc' = "expired"
    /\ UNCHANGED <<tries, promiseVars, systemVars, pluginVars, careless, crashed>>

\* Slip: the callback stays subscribed.
GiveUpSubscribed ==
    /\ pc = "expired"
    /\ pc' = "idle" /\ linked' = FALSE
    /\ careless' = (careless \/ UnderWay(links))
    /\ UNCHANGED <<tries, promiseVars, links, connections, systems, current,
                   gone, pluginVars, crashed>>

\* After three seconds link() unsubscribes and takes its promise away.
GiveUp ==
    /\ pc = "expired"
    /\ pc' = "idle" /\ linked' = FALSE /\ subscriber' = 0
    /\ careless' = (careless \/ UnderWay(links))
    /\ UNCHANGED <<tries, calls, setting, value, links, connections, systems,
                   current, gone, pluginVars, crashed>>

Found ==
    /\ pc = "wait" /\ value # None
    /\ pc' = "check" /\ current' = value
    /\ UNCHANGED <<tries, promiseVars, links, connections, systems, linked,
                   gone, pluginVars, careless, crashed>>

Check(connected) ==
    /\ pc = "check"
    /\ pc' = IF connected THEN "identify" ELSE "idle"
    /\ linked' = (linked /\ connected)
    /\ tries' = 0
    /\ UNCHANGED <<promiseVars, links, connections, systems, current, gone,
                   pluginVars, careless, crashed>>

\* Slip: the query is repeated until it succeeds.
getUniqueIDForEver(answered) ==
    /\ pc = "identify"
    /\ pc' = IF answered THEN "regist" ELSE pc
    /\ tries' = IF answered THEN 0 ELSE (tries + 1) % (Retries + 1)
    /\ UNCHANGED <<promiseVars, systemVars, pluginVars, careless, crashed>>

\* The first query is not counted, and a failure of the last one is ignored.
getUniqueID(answered) ==
    /\ pc = "identify"
    /\ IF answered \/ tries = Retries
       THEN pc' = "regist" /\ tries' = 0
       ELSE pc' = pc /\ tries' = tries + 1
    /\ UNCHANGED <<promiseVars, systemVars, pluginVars, careless, crashed>>

-----------------------------------------------------------------------------
(* The registry, and the end of plugins.                                   *)

\* The last reference went: the plugin is destroyed by the party that had it.
Destroy(p, i) ==
    /\ dying' = [dying EXCEPT ![p] = i]
    /\ careless' = (careless \/ i \in subscribed)

\* _regist_impl holds plugin_regist_mutex while the old plugin is destroyed.
Locked == dying["linker"] # None

\* Slip: a plugin that is there is not replaced.
RegistFirst ==
    LET k == Kinds[tries + 1] new == <<k, links>> IN
    /\ pc = "regist" /\ ~Locked /\ tries < Len(Kinds)
    /\ tries' = tries + 1
    /\ registry' = [registry EXCEPT ![k] = IF @ = 0 THEN links ELSE @]
    /\ life' = [life EXCEPT ![new] = "alive"]
    /\ UNCHANGED <<pc, promiseVars, systemVars, worker, subscribed, held,
                   starting, dying, asks, careless, crashed>>

\* registMavBasedPlugin, one plugin after the other.
Regist ==
    LET k == Kinds[tries + 1]
        new == <<k, links>> old == <<k, registry[k]>>
        last == registry[k] # 0 /\ old \notin held IN
    /\ pc = "regist" /\ ~Locked /\ tries < Len(Kinds)
    /\ tries' = tries + 1
    /\ registry' = [registry EXCEPT ![k] = links]
    /\ IF last
       THEN /\ life' = [life EXCEPT ![new] = "alive", ![old] = "leaving"]
            /\ Destroy("linker", old)
       ELSE /\ life' = [life EXCEPT ![new] = "alive"]
            /\ UNCHANGED <<dying, careless>>
    /\ UNCHANGED <<pc, promiseVars, systemVars, worker, subscribed, held,
                   starting, asks, crashed>>

LinkSucceeds ==
    /\ pc = "regist" /\ ~Locked /\ tries = Len(Kinds)
    /\ pc' = "idle" /\ linked' = TRUE
    /\ UNCHANGED <<tries, promiseVars, links, connections, systems, current,
                   gone, pluginVars, careless, crashed>>

\* ~Impl: _should_exit is set, and the thread joined.
Join(p) ==
    /\ dying[p] # None /\ life[dying[p]] = "leaving"
    /\ worker[dying[p]] \in {"none", "ended"}
    /\ life' = [life EXCEPT ![dying[p]] = "bare"]
    /\ UNCHANGED <<pc, tries, promiseVars, systemVars, registry, worker,
                   subscribed, held, starting, dying, asks, careless, crashed>>

\* ~MavBasedCollector: only now the telemetry, and its callbacks, end.
Free(p) ==
    /\ dying[p] # None /\ life[dying[p]] = "bare"
    /\ life' = [life EXCEPT ![dying[p]] = "gone"]
    /\ subscribed' = subscribed \ {dying[p]}
    /\ dying' = [dying EXCEPT ![p] = None]
    /\ UNCHANGED <<pc, tries, promiseVars, systemVars, registry, worker, held,
                   starting, asks, careless, crashed>>

\* ~MavBasedVehicleSystem.  Plugins keep their system and it keeps them, so
\* one that was linked is never destroyed.
DestroySystem ==
    /\ ~gone /\ pc = "idle" /\ \A k \in Range(Kinds) : registry[k] = 0
    /\ gone' = TRUE /\ linked' = FALSE
    /\ careless' = TRUE
    /\ UNCHANGED <<pc, tries, promiseVars, links, connections, systems, current,
                   pluginVars, crashed>>

\* External: mavsdk logs, and the system's constructor subscribed to that.
Log ==
    /\ gone /\ crashed' = TRUE
    /\ UNCHANGED <<pc, tries, promiseVars, systemVars, pluginVars, careless>>

-----------------------------------------------------------------------------
(* The client and the collectors.                                          *)

ClientIdle == starting = None /\ dying["client"] = None

\* A proxy takes the plugin out of the registry.
Open(k) ==
    /\ ClientIdle /\ ~Locked /\ registry[k] # 0
    /\ held' = held \cup {<<k, registry[k]>>}
    /\ UNCHANGED <<pc, tries, promiseVars, systemVars, registry, life, worker,
                   subscribed, starting, dying, asks, careless, crashed>>

Close(i) ==
    /\ ClientIdle /\ i \in held
    /\ held' = held \ {i}
    /\ IF registry[i[1]] = i[2] THEN UNCHANGED <<life, dying, careless>>
       ELSE life' = [life EXCEPT ![i] = "leaving"] /\ Destroy("client", i)
    /\ UNCHANGED <<pc, tries, promiseVars, systemVars, registry, worker,
                   subscribed, starting, asks, crashed>>

\* MavAttitude: a second start swaps the running thread into a temporary.
startThread(i) ==
    /\ ClientIdle /\ i \in held /\ i[1] \in Threaded
    /\ subscribed' = subscribed \cup {i}
    /\ worker' = [worker EXCEPT ![i] = "run"]
    /\ crashed' = (worker[i] # "none")
    /\ careless' = (careless \/ worker[i] # "none")
    /\ UNCHANGED <<pc, tries, promiseVars, systemVars, registry, life, held,
                   starting, dying, asks>>

\* The others ask for their rate every second until they get it.
start(i) ==
    /\ ClientIdle /\ i \in held /\ i[1] \notin Threaded
    /\ starting' = i
    /\ UNCHANGED <<pc, tries, promiseVars, systemVars, registry, life, worker,
                   subscribed, held, dying, asks, careless, crashed>>

RateIsSet ==
    /\ starting # None
    /\ subscribed' = subscribed \cup {starting}
    /\ starting' = None
    /\ UNCHANGED <<pc, tries, promiseVars, systemVars, registry, life, worker,
                   held, dying, asks, careless, crashed>>

\* A listener that opens a proxy, which locks the registry.
subscribe ==
    /\ ~asks /\ held # {} /\ asks' = TRUE
    /\ UNCHANGED <<pc, tries, promiseVars, systemVars, registry, life, worker,
                   subscribed, held, starting, dying, careless, crashed>>

\* The flag is read, the thread sleeps, and tells the listeners.
collectThread(i) ==
    /\ worker[i] \in {"run", "sleep", "publish"}
    /\ worker[i] = "publish" => ~(asks /\ Locked)
    /\ worker' = [worker EXCEPT ![i] =
           CASE @ = "run"     -> IF life[i] = "leaving" THEN "ended" ELSE "sleep"
             [] @ = "sleep"   -> "publish"
             [] @ = "publish" -> "run"]
    /\ crashed' = (life[i] \in {"bare", "gone"})
    /\ UNCHANGED <<pc, tries, promiseVars, systemVars, registry, life,
                   subscribed, held, starting, dying, asks, careless>>

\* A message of the vehicle: the callback uses Impl.
Message(i) ==
    /\ i \in subscribed
    /\ crashed' = (life[i] = "bare")
    /\ UNCHANGED <<pc, tries, promiseVars, systemVars, pluginVars, careless>>

-----------------------------------------------------------------------------
Link ==
    \/ \E config \in SUBSET Range(Methods) : Connect(config)
    \/ \E tell \in BOOLEAN : Subscribe(tell)
    \/ Timeout \/ GiveUp \/ Found
    \/ \E ok \in BOOLEAN : Check(ok) \/ getUniqueID(ok)
    \/ Regist \/ LinkSucceeds

Callback == OnNewSystem \/ SetValue

Client ==
    \/ \E k \in Range(Kinds) : Open(k)
    \/ \E i \in Plugins : Close(i) \/ startThread(i) \/ start(i)
    \/ RateIsSet \/ subscribe

Next ==
    /\ ~crashed
    /\ \/ Link \/ Callback \/ Client \/ DestroySystem \/ Log
       \/ \E s \in Systems : Discover(s)
       \/ \E p \in Parties : Join(p) \/ Free(p)
       \/ \E i \in Plugins : collectThread(i) \/ Message(i)

Spec == Init /\ [][Next]_vars

\* link() goes on once it was called, and so do the threads it waits for.
\* Nothing is assumed of the vehicle or the client.
FairSpec ==
    /\ Spec
    /\ WF_vars(~crashed /\ pc # "idle" /\ Link)
    /\ WF_vars(~crashed /\ (Join("linker") \/ Free("linker")))
    /\ \A i \in Plugins : WF_vars(~crashed /\ collectThread(i))

-----------------------------------------------------------------------------
\* isLink() between links means that every plugin in the registry was made for
\* the system of the last link, is alive, and that system has an autopilot.
LinkedIsReady ==
    linked /\ pc = "idle" =>
        /\ current \in Autopilots
        /\ \A k \in Range(Kinds) :
               registry[k] = links /\ life[<<k, links>>] = "alive"

\* The process lives, unless a discovery is on its way when link() gives up, a
\* second system is discovered before the first was told, a collector is
\* started twice, a started one is replaced, or the system is destroyed: no
\* promise is set after its link, no thread outlives its plugin.
CarefulIsSafe == crashed => careless

\* link() returns, whatever the vehicle does, unless a listener of a plugin it
\* replaces asks the registry, whose mutex the joining thread holds.
LinkReturns == pc # "idle" ~> (pc = "idle" \/ asks \/ crashed)

-----------------------------------------------------------------------------
(* The inductive invariant of the proofs.                                  *)

Lives == {"unborn", "alive", "leaving", "bare", "gone"}

TypeOK ==
    /\ pc \in {"idle", "subscribe", "wait", "expired", "check", "identify", "regist"}
    /\ links \in 0..MaxLinks /\ tries \in Nat
    /\ linked \in BOOLEAN /\ gone \in BOOLEAN
    /\ systems \in Seq(Systems) /\ current \in Systems \cup {None}
    /\ subscriber \in 0..MaxLinks /\ calls \in Seq(Links)
    /\ setting = <<>> \/ setting \in Links \X Autopilots
    /\ value \in Autopilots \cup {None}
    /\ registry \in [Range(Kinds) -> 0..MaxLinks]
    /\ life \in [Plugins -> Lives]
    /\ worker \in [Plugins -> {"none", "run", "sleep", "publish", "ended"}]
    /\ subscribed \subseteq Plugins /\ held \subseteq Plugins
    /\ starting \in Plugins \cup {None}
    /\ dying \in [Parties -> Plugins \cup {None}] /\ asks \in BOOLEAN
    /\ careless \in BOOLEAN /\ crashed \in BOOLEAN

\* A link that found its system goes on with an autopilot.
SystemInv ==
    /\ pc # "idle" => links # 0
    /\ pc \in {"check", "identify", "regist"} => current \in Autopilots
    /\ pc = "idle" /\ linked => current \in Autopilots /\ links # 0

\* The kinds are registered in their order; what is registered is alive.
Registers(j) ==
    LET link == registry[Kinds[j]] IN
    /\ link <= links
    /\ link # 0 => life[<<Kinds[j], link>>] = "alive"
    /\ pc \notin {"idle", "regist"} => link < links
    /\ pc = "regist" => IF j > tries THEN link < links ELSE link = links
    /\ pc = "idle" /\ linked => link = links

RegistryInv ==
    /\ \A j \in 1..Len(Kinds) : Registers(j)
    /\ pc = "regist" => tries <= Len(Kinds)

\* What a proxy holds is alive, what is being destroyed is not.
HeldInv ==
    /\ \A i \in held : life[i] = "alive"
    /\ starting # None => starting \in held
    /\ \A i \in Plugins : worker[i] \in {"run", "sleep", "publish"} =>
           life[i] \in {"alive", "leaving"}

\* As long as nothing careless happened there is at most one call of a
\* callback, it is of the link that waits for it, and telemetry is for the
\* living.
CarefulInv ==
    /\ subscriber # 0 => /\ subscriber = links /\ value = None /\ setting = <<>>
                         /\ pc \in {"wait", "expired"}
    /\ calls # <<>> => calls = <<links>> /\ subscriber # 0
    /\ setting # <<>> => /\ setting[1] = links /\ value = None
                         /\ pc \in {"wait", "expired"} /\ calls = <<>>
    /\ pc = "subscribe" => value = None
    /\ \A i \in subscribed : life[i] = "alive"
    /\ ~gone /\ ~crashed

IInv ==
    /\ TypeOK /\ SystemInv /\ RegistryInv /\ HeldInv
    /\ ~careless => CarefulInv
=============================================================================
