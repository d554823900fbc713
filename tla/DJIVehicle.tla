------------------------------ MODULE DJIVehicle ------------------------------
(***************************************************************************)
(* The DJI vehicle system: link() with its steps that may fail, the camera *)
(* that is initialised after it, the registration of the plugins the model *)
(* of the vehicle supports; and the plugins at work: telemetry packages,   *)
(* the thread that queries the battery, zoom, video stream and gimbal.     *)
(*                                                                         *)
(* The calls of the OSDK share one mutex, DJIAPIMutex, but not all of them *)
(* take it.  Every link makes a new Linker and a new Vehicle that points   *)
(* to it; plugins get at the vehicle of the system, or keep a pointer into *)
(* the vehicle they were made with.  Linkers, vehicles and plugins are     *)
(* named by the call of link() that made them.                             *)
(*                                                                         *)
(* A definition commented "Slip" is wrong on purpose: it is a variant of   *)
(* the definition after it, which shows that a property can fail.          *)
(***************************************************************************)
EXTENDS Naturals, Sequences, Functions

CONSTANTS
    Models,      \* DJIVehicleModels, without UNKNOWN
    M300,        \* the model that has a camera to initialise
    Unknown,     \* the model before a vehicle was recognised
    Kinds,       \* the plugins, in the order they are registered
    Supports,    \* supportModel of every kind
    MaxLinks,    \* bound: calls of link()
    None         \* no plugin, nobody

ASSUME ConstantsAssumption ==
    /\ M300 \in Models /\ Unknown \notin Models
    /\ Kinds \in Seq(Range(Kinds)) /\ IsInjective(Kinds)
    /\ Supports \in [Range(Kinds) -> SUBSET Models]
    /\ MaxLinks \in Nat
    /\ None \notin (Range(Kinds) \X (1..MaxLinks)) \cup {"linker", "client", "battery"}

CameraTries == 3
Links   == 1..MaxLinks
Plugins == Range(Kinds) \X Links

VARIABLES
    pc, links,    \* where link() is, and how often it was called
    linker,       \* _dji_linker, or 0
    vehicle,      \* _dji_vehicle, or 0
    model,        \* _model
    linked,       \* is_linked
    tries,        \* attempts of the camera, then registered plugins
    registry,     \* plugin_hash_map: the link a plugin is of, or 0
    plugins,      \* the plugins that are alive
    dying,        \* the plugin that link() destroys, or None
    api,          \* who holds DJIAPIMutex
    calling,      \* the plugin in whose call the client is, or None
    battery,      \* the thread of every battery plugin
    callbacks,    \* telemetry plugins whose package the vehicle pushes
    stream,       \* the video plugin whose stream runs, or None
    viewers,      \* video plugins with a subscriber
    careless,     \* history: something happened that the code does not protect
    crashed       \* the process is gone

linkVars   == <<pc, links, linked, tries>>
sdkVars    == <<linker, vehicle, model>>
pluginVars == <<registry, plugins, dying>>
workVars   == <<api, calling, battery>>
streamVars == <<callbacks, stream, viewers>>
vars == <<linkVars, sdkVars, pluginVars, workVars, streamVars, careless, crashed>>

Init ==
    /\ pc = "idle" /\ links = 0 /\ linked = FALSE /\ tries = 0
    /\ linker = 0 /\ vehicle = 0 /\ model = Unknown
    /\ registry = [k \in Range(Kinds) |-> 0] /\ plugins = {} /\ dying = None
    /\ api = None /\ calling = None /\ battery = [l \in Links |-> "none"]
    /\ callbacks = {} /\ stream = None /\ viewers = {}
    /\ careless = FALSE /\ crashed = FALSE

\* The vehicle of the system refers to a linker that is gone, or is null.
Unsafe == vehicle = 0 \/ vehicle # linker

\* A call is covered when the system is linked and the plugin is of this link.
Covered(i) == pc = "idle" /\ linked /\ i[2] = links

Risk(risky) == careless' = (careless \/ risky)

-----------------------------------------------------------------------------
(* link().                                                                 *)

\* Slip: the system is still linked when a later link() fails.
FailStillLinked == pc' = "idle" /\ linked' = linked

Fail == pc' = "idle" /\ linked' = FALSE

GoOn(next) == pc' = next /\ linked' = linked

\* The new linker replaces the old one, whose vehicle stays for now; nothing
\* is pushed any more.  A linker that cannot be made changes nothing.
NewLinker(made) ==
    /\ pc = "idle" /\ links < MaxLinks
    /\ links' = links + 1 /\ tries' = 0
    /\ IF made
       THEN /\ linker' = links' /\ callbacks' = {} /\ stream' = None
            /\ GoOn("channels")
            /\ Risk(calling # None \/ \E l \in Links : battery[l] # "none")
       ELSE Fail /\ UNCHANGED <<linker, callbacks, stream, careless>>
    /\ UNCHANGED <<vehicle, model, pluginVars, workVars, viewers, crashed>>

\* Both ports must be configured and opened.
addUartChannels(usb, acm, opened) ==
    /\ pc = "channels"
    /\ IF usb /\ acm /\ opened THEN GoOn("vehicle") ELSE Fail
    /\ UNCHANGED <<links, tries, sdkVars, pluginVars, workVars, streamVars,
                   careless, crashed>>

\* The answer to the activation is not looked at, and a vehicle that is none
\* of the models leaves the last model.
NewVehicle(m) ==
    /\ pc = "vehicle"
    /\ vehicle' = links
    /\ model' = IF m \in Models THEN m ELSE model
    /\ GoOn("verify")
    /\ UNCHANGED <<links, tries, linker, pluginVars, workVars, streamVars,
                   careless, crashed>>

verify(success) ==
    /\ pc = "verify"
    /\ IF success THEN GoOn("camera") ELSE Fail
    /\ UNCHANGED <<links, tries, sdkVars, pluginVars, workVars, streamVars,
                   careless, crashed>>

\* An attempt to initialise the camera ended.
CameraTried(success) ==
    IF success \/ tries + 1 = CameraTries
    THEN GoOn("regist") /\ tries' = 0
    ELSE GoOn("camera") /\ tries' = tries + 1

\* The files are listed, with the mutex locked, for an M300 whose camera answers
\* (here also for a vehicle of no known model that came after an M300).
InitCamera(answers) ==
    /\ pc = "camera"
    /\ IF answers /\ model = M300
       THEN api = None /\ api' = "linker" /\ GoOn("files") /\ tries' = tries
       ELSE api' = api /\ CameraTried(FALSE)
    /\ UNCHANGED <<links, sdkVars, pluginVars, calling, battery, streamVars,
                   careless, crashed>>

\* The list has come.  Whether the SDK took the request for it is not looked at,
\* and the mutex stays locked until there is an answer, which need not come.
syncCameraFile(success) ==
    /\ pc = "files"
    /\ api' = None
    /\ CameraTried(success)
    /\ UNCHANGED <<links, sdkVars, pluginVars, calling, battery, streamVars,
                   careless, crashed>>

\* dji_regist_plugin for the next kind.  A plugin that is not supported is made
\* and dropped; one that is replaced ends, unless a proxy keeps it.
Regist(kept) ==
    LET k == Kinds[tries + 1] old == <<k, registry[k]>>
        supported == model \in Supports[k]
        ends == supported /\ registry[k] # 0 /\ ~kept /\ old # calling IN
    /\ pc = "regist" /\ dying = None /\ tries < Len(Kinds)
    /\ tries' = tries + 1
    /\ registry' = [registry EXCEPT ![k] = IF supported THEN links ELSE @]
    /\ plugins' = plugins \cup (IF supported THEN {<<k, links>>} ELSE {})
    /\ dying' = IF ends THEN old ELSE None
    /\ Risk(ends /\ (old \in callbacks \/ stream = old))
    /\ UNCHANGED <<pc, links, linked, sdkVars, workVars, streamVars, crashed>>

\* The destructor of the battery plugin joins its thread.
Destroyed ==
    /\ dying # None
    /\ dying[1] = "battery" => battery[dying[2]] \in {"none", "ended"}
    /\ plugins' = plugins \ {dying} /\ dying' = None
    /\ UNCHANGED <<linkVars, sdkVars, registry, workVars, streamVars, careless,
                   crashed>>

LinkSucceeds ==
    /\ pc = "regist" /\ dying = None /\ tries = Len(Kinds)
    /\ pc' = "idle" /\ linked' = TRUE
    /\ UNCHANGED <<links, tries, sdkVars, pluginVars, workVars, streamVars,
                   careless, crashed>>

-----------------------------------------------------------------------------
(* Telemetry and zoom: calls under DJIAPIMutex.                            *)

Use(i) == calling = None /\ i \in plugins /\ i # dying

\* start() of a telemetry plugin, setZoomFactorSync of the camera.
Call(i) ==
    /\ Use(i) /\ i[1] \in {"telemetry", "camera"}
    /\ calling' = i
    /\ Risk(~Covered(i))
    /\ UNCHANGED <<linkVars, sdkVars, pluginVars, api, battery, streamVars,
                   crashed>>

\* A camera plugin keeps the camera manager of the vehicle it was made with.
Enter ==
    /\ calling # None /\ api = None
    /\ api' = "client"
    /\ crashed' = (Unsafe \/ (calling[1] = "camera" /\ calling[2] # vehicle))
    /\ UNCHANGED <<linkVars, sdkVars, pluginVars, calling, battery, streamVars,
                   careless>>

\* The callback is registered, and the plugin says it is started, whatever
\* became of its package.
Return(pushes) ==
    /\ api = "client"
    /\ callbacks' = IF pushes /\ calling[1] = "telemetry" /\ ~Unsafe
                    THEN callbacks \cup {calling} ELSE callbacks
    /\ api' = None /\ calling' = None
    /\ UNCHANGED <<linkVars, sdkVars, pluginVars, battery, stream, viewers,
                   careless, crashed>>

\* A message is converted in the plugin it was registered for.
convert(i) == crashed' = (i \notin plugins)

\* The vehicle pushes a message, which the plugin tells its subscribers.
Push(i) ==
    /\ i \in callbacks
    /\ convert(i)
    /\ UNCHANGED <<linkVars, sdkVars, pluginVars, workVars, streamVars, careless>>

-----------------------------------------------------------------------------
(* The thread of a battery plugin.                                         *)

\* exec swaps the new thread in: the end of a running one ends the process.
\* The thread first subscribes, without the mutex.
startBattery(i) ==
    /\ Use(i) /\ i[1] = "battery"
    /\ battery' = [battery EXCEPT ![i[2]] = "run"]
    /\ crashed' = (battery[i[2]] # "none" \/ Unsafe)
    /\ Risk(battery[i[2]] # "none" \/ ~Covered(i))
    /\ UNCHANGED <<linkVars, sdkVars, pluginVars, api, calling, streamVars>>

\* A round of collect begins, if the mutex can be had at once.
Collect(l) ==
    /\ battery[l] = "run"
    /\ IF dying = <<"battery", l>>
       THEN battery' = [battery EXCEPT ![l] = "ended"] /\ UNCHANGED <<api, crashed>>
       ELSE /\ api = None /\ api' = "battery"
            /\ battery' = [battery EXCEPT ![l] = "query"]
            /\ crashed' = Unsafe
    /\ UNCHANGED <<linkVars, sdkVars, pluginVars, calling, streamVars, careless>>

\* Slip: a thread that has to end returns before it releases the mutex.
CollectedKeepsApi(l) ==
    /\ battery[l] = "query"
    /\ battery' = [battery EXCEPT ![l] = "run"]
    /\ api' = IF dying = <<"battery", l>> THEN api ELSE None
    /\ UNCHANGED <<linkVars, sdkVars, pluginVars, calling, streamVars, careless,
                   crashed>>

\* Both batteries are read, the mutex is released, the subscribers are told.
Collected(l) ==
    /\ battery[l] = "query"
    /\ battery' = [battery EXCEPT ![l] = "run"]
    /\ api' = None
    /\ UNCHANGED <<linkVars, sdkVars, pluginVars, calling, streamVars, careless,
                   crashed>>

-----------------------------------------------------------------------------
(* Video stream and gimbal: calls without the mutex.                       *)

startStream(i) ==
    /\ Use(i) /\ i[1] = "video"
    /\ stream' = i
    /\ crashed' = Unsafe
    /\ Risk(i \notin viewers \/ ~Covered(i))
    /\ UNCHANGED <<linkVars, sdkVars, pluginVars, workVars, callbacks, viewers>>

\* isStarted does the same.
stopStream(i) ==
    /\ Use(i) /\ i[1] = "video"
    /\ stream' = None
    /\ crashed' = Unsafe
    /\ Risk(~Covered(i))
    /\ UNCHANGED <<linkVars, sdkVars, pluginVars, workVars, callbacks, viewers>>

\* The function of the last subscriber is the one that is called; it is
\* assigned without a lock.
subscribeStreamData(i) ==
    /\ Use(i) /\ i[1] = "video"
    /\ viewers' = viewers \cup {i}
    /\ crashed' \in (IF stream = i THEN BOOLEAN ELSE {FALSE})
    /\ Risk(stream = i)
    /\ UNCHANGED <<linkVars, sdkVars, pluginVars, workVars, callbacks, stream>>

\* Slip: the frame takes the plugin for its Impl, as the gimbal does.
dataHandleOfPlugin ==
    /\ stream # None
    /\ crashed' \in BOOLEAN
    /\ UNCHANGED <<linkVars, sdkVars, pluginVars, workVars, streamVars, careless>>

\* A frame for a stream nobody subscribed to calls an empty function.
dataHandle ==
    /\ stream # None
    /\ crashed' = ~(stream \in plugins /\ stream \in viewers)
    /\ UNCHANGED <<linkVars, sdkVars, pluginVars, workVars, streamVars, careless>>

\* The gimbal is given the plugin, and its answer takes it for the plugin's
\* Impl: what the answer then calls is undefined.
rotateAsync(i) ==
    /\ Use(i) /\ i[1] = "gimbal"
    /\ crashed' \in BOOLEAN
    /\ careless' = TRUE
    /\ UNCHANGED <<linkVars, sdkVars, pluginVars, workVars, streamVars>>

-----------------------------------------------------------------------------
Link ==
    \/ \E made \in BOOLEAN : NewLinker(made)
    \/ \E usb, acm, opened \in BOOLEAN : addUartChannels(usb, acm, opened)
    \/ \E m \in Models \cup {Unknown} : NewVehicle(m)
    \/ \E ok \in BOOLEAN :
           verify(ok) \/ InitCamera(ok) \/ syncCameraFile(ok) \/ Regist(ok)
    \/ Destroyed \/ LinkSucceeds

Client ==
    \/ \E i \in Plugins : \/ Call(i) \/ startBattery(i) \/ startStream(i)
                          \/ stopStream(i) \/ subscribeStreamData(i)
                          \/ rotateAsync(i)
    \/ Enter \/ \E ok \in BOOLEAN : Return(ok)

Next ==
    /\ ~crashed
    /\ \/ Link \/ Client \/ dataHandle
       \/ \E i \in Plugins : Push(i)
       \/ \E l \in Links : Collect(l) \/ Collected(l)

Spec == Init /\ [][Next]_vars

\* The calls of the OSDK that have a timeout return; the list of files has none,
\* so nothing says that it comes.  The mutex is not fair, but the battery thread
\* sleeps for a second between its rounds.
FairSpec ==
    /\ Spec
    /\ SF_vars(~crashed /\ Enter)
    /\ WF_vars(~crashed /\ \E ok \in BOOLEAN : Return(ok))
    /\ \A l \in Links : WF_vars(~crashed /\ Collected(l))

-----------------------------------------------------------------------------
\* isLink() between links means that the vehicle has its linker, and that the
\* plugins made for this link are those the vehicle's model supports: a later
\* link() that fails on the way leaves a vehicle without a linker, but not a
\* linked system.  The model is the last one that was recognised, or UNKNOWN: a
\* link with a vehicle of no known model succeeds, without a plugin of its own.
LinkedHasItsLinker ==
    linked /\ pc = "idle" =>
        /\ ~Unsafe
        /\ \A k \in Range(Kinds) :
               /\ registry[k] = links <=> model \in Supports[k]
               /\ registry[k] = links => <<k, links>> \in plugins

\* The process lives as long as no link begins while a battery is collected or
\* a call is under way, calls are made while the system is linked and to
\* plugins of the last link, the battery is started once, a stream after its
\* subscriber was set, and the gimbal is left alone.
CarefulIsSafe == crashed => careless

\* A call that waits for the mutex of the SDK gets it and returns, with the
\* battery queried and the camera listed again and again, unless link() waits for
\* a list that never comes: then it keeps the mutex.
CallReturns ==
    calling # None ~> (calling = None \/ crashed \/ [](pc = "files"))

-----------------------------------------------------------------------------
(* The inductive invariant of the proofs.                                  *)

TypeOK ==
    /\ pc \in {"idle", "channels", "vehicle", "verify", "camera", "files", "regist"}
    /\ links \in 0..MaxLinks /\ tries \in Nat /\ linked \in BOOLEAN
    /\ linker \in 0..MaxLinks /\ vehicle \in 0..MaxLinks
    /\ model \in Models \cup {Unknown}
    /\ registry \in [Range(Kinds) -> 0..MaxLinks]
    /\ plugins \subseteq Plugins /\ dying \in Plugins \cup {None}
    /\ api \in {None, "linker", "client", "battery"}
    /\ calling \in Plugins \cup {None}
    /\ battery \in [Links -> {"none", "run", "query", "ended"}]
    /\ callbacks \subseteq Plugins /\ viewers \subseteq Plugins
    /\ stream \in Plugins \cup {None}
    /\ careless \in BOOLEAN /\ crashed \in BOOLEAN

\* Linker and vehicle of a link that goes on or succeeded are its own.
SdkInv ==
    /\ pc # "idle" => linker = links /\ links # 0
    /\ pc \in {"verify", "camera", "files", "regist"} => vehicle = links
    /\ linked /\ pc = "idle" => linker = links /\ vehicle = links /\ links # 0

\* The kind at place j is registered, if the model supports it.
Registered(j) ==
    /\ registry[Kinds[j]] = links <=> model \in Supports[Kinds[j]]
    /\ registry[Kinds[j]] = links => <<Kinds[j], links>> \in plugins

Registers(j) ==
    /\ registry[Kinds[j]] <= links
    /\ pc \notin {"idle", "regist"} => registry[Kinds[j]] < links
    /\ pc = "regist" /\ j > tries => registry[Kinds[j]] < links
    /\ pc = "regist" /\ j <= tries => Registered(j)
    /\ pc = "idle" /\ linked => Registered(j)

\* A link registers the kinds in their order, and ends older plugins only.
RegistryInv ==
    /\ \A j \in 1..Len(Kinds) : Registers(j)
    /\ pc = "regist" => tries <= Len(Kinds)
    /\ dying # None => pc = "regist" /\ dying[2] < links

\* As long as nothing careless happened, calls, the battery and what the
\* vehicle pushes are between links, on a vehicle with its linker.
CarefulInv ==
    /\ calling # None => /\ pc = "idle" /\ ~Unsafe
                         /\ calling \in plugins /\ calling[2] = vehicle
    /\ \A l \in Links : battery[l] # "none" => pc = "idle" /\ ~Unsafe
    /\ callbacks \subseteq plugins /\ dying \notin callbacks
    /\ stream # None => stream \in plugins \cap viewers /\ stream # dying
    /\ ~crashed

IInv ==
    /\ TypeOK /\ SdkInv /\ RegistryInv
    /\ api = "client" => calling # None
    /\ ~careless => CarefulInv
=============================================================================
