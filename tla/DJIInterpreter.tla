--------------------------- MODULE DJIInterpreter ---------------------------
(***************************************************************************)
(* STDWPInterpreter, which converts a plan, a list of MAVLink items, to a  *)
(* DJIWPMission: waypoints, actions at them, and two tables that tell the  *)
(* vehicle's events back in terms of the plan.                             *)
(*                                                                         *)
(* One pass over the items, an action each.  A waypoint with a hold time   *)
(* becomes an action that stops the vehicle, and a later item adds the     *)
(* action that lets it go on, after the hold time, or after the photos.    *)
(*                                                                         *)
(* The mission is in the memory of a proxy and is appended to by every     *)
(* plan; the context is the interpreter's and survives proxies.  It holds  *)
(* two pointers, which may be stale.                                       *)
(*                                                                         *)
(* Plans are built by addItem: an item's sequence number is its position.  *)
(* Hold times are binary32 numbers of seconds, here in units of 2^-22 s,   *)
(* which is their spacing between two and four seconds; shorter ones that  *)
(* are finer are left out.  The vehicle's delays are whole tenths.  Angles *)
(* are in degrees; positions are the items they were taken from.           *)
(*                                                                         *)
(* A definition commented "Slip" is wrong on purpose: it is a variant of   *)
(* the definition after it, which shows that a property can fail.          *)
(***************************************************************************)
EXTENDS Integers, Sequences

CONSTANTS
    Plans,         \* the plans a client may set
    MaxMissions    \* bound: missions that are started

Commands == {"NAV_WAYPOINT", "IMAGE_START_CAPTURE", "NAV_TAKEOFF", "NAV_LAND",
             "NAV_RETURN_TO_LAUNCH", "other"}

\* WPMItem: command, hold time, yaw and number of images.
WPMItem == [cmd : Commands, wait : Nat, yaw : Nat, images : Nat]

Second      == 4194304      \* 2^22 units
LongestHold == 106954752    \* 25.5 seconds
DefaultWait == 2 * Second

ASSUME ConstantsAssumption ==
    /\ \A p \in Plans : p \in Seq(WPMItem)
    /\ MaxMissions \in Nat

\* Values of pointers, which are numbers that no item or heading has.
None  == -1000    \* null
Stale == -2000    \* to memory that is gone

VARIABLES
    state,         \* "idle", "convert", or "crashed"
    count,         \* number of missions started
    plan,          \* waypointItems() of the plugin
    index,         \* items of it that are converted
    (* the context *)
    shouldWait,    \* should_wait_time
    pause,         \* wait_time_info: the pausing action and the hold time
    lastWp,        \* last_wp: the sequence number of an item, None or Stale
    lastHeading,   \* last_dji_wp: the heading there, None or Stale
    (* the mission *)
    wps,           \* _dji_wps
    actions,       \* _dji_actions
    events,        \* _action_map, a function of action ids
    seqs,          \* _wp_index_seq_list
    valid,         \* _is_valid
    autoReturn,    \* _autoReturnHome
    photoPoints,   \* dji_photo_point of the memory
    (* history *)
    base,          \* lengths of wps, actions and photoPoints before this plan,
                   \* and whether this memory is where it is converted to
    held,          \* hold time of every waypoint
    orderly        \* every plan of this memory was an orderly one

contextVars == <<shouldWait, pause, lastWp, lastHeading>>
missionVars == <<wps, actions, events, seqs, held, photoPoints>>
flagVars    == <<valid, autoReturn>>
planVars    == <<count, plan, base, orderly>>
vars == <<state, index, contextVars, missionVars, flagVars, planVars>>

Init ==
    /\ state = "idle" /\ count = 0 /\ plan = <<>> /\ index = 0
    /\ shouldWait = FALSE /\ pause = [action |-> 0, time |-> 0]
    /\ lastWp = None /\ lastHeading = None
    /\ wps = <<>> /\ actions = <<>> /\ events = <<>> /\ seqs = <<>>
    /\ valid = TRUE /\ autoReturn = FALSE /\ photoPoints = <<>>
    /\ base = [wps |-> 0, actions |-> 0, points |-> 0, here |-> FALSE]
    /\ held = <<>> /\ orderly = TRUE

-----------------------------------------------------------------------------
(* Helpers.                                                                *)

UInt8(n)  == n % 256
UInt16(n) == n % 65536

\* nomoralizeYawAngle: -180 to 180.
NomoralizeYawAngle(yaw) ==
    IF yaw % 360 > 180 THEN (yaw % 360) - 360 ELSE yaw % 360

\* calTurnMode; a negative difference is left as it is.
CalTurnMode(nextRaw, currentConverted) ==
    IF nextRaw - currentConverted > 180
    THEN "CounterClockwise" ELSE "Clockwise"

ReachedTrigger(wp) == [on |-> "reached", of |-> UInt16(wp), delay |-> 0]

\* A product is rounded to 24 bits, to the nearest: half of the last one's weight.
Half(n) ==
    IF n < 4 * Second THEN 0 ELSE IF n < 8 * Second THEN 1
    ELSE IF n < 16 * Second THEN 2 ELSE IF n < 32 * Second THEN 4
    ELSE IF n < 64 * Second THEN 8 ELSE IF n < 128 * Second THEN 16 ELSE 32

\* time * 10, a binary32 product, cut off to an integer.
Tenths(time) == (10 * time + Half(10 * time)) \div Second

AssociateTrigger(time, id) ==
    [on |-> "associated", of |-> UInt16(id), delay |-> UInt8(Tenths(time))]

Action(id, trigger, actuator) ==
    [id |-> UInt16(id), trigger |-> trigger, actuator |-> actuator]

Event(type, item, adjoint) == [type |-> type, item |-> item, adjoint |-> adjoint]

\* addActionEvent
AddActionEvent(table, id, event) ==
    [i \in DOMAIN table \cup {id} |-> IF i = id THEN event ELSE table[i]]

Item == plan[index + 1]

-----------------------------------------------------------------------------
(* Starting missions.                                                      *)

\* A plan is orderly if it has three items at least, a waypoint before every
\* photo, and after every hold, except in the last item but one, an item that
\* ends it.
IsOrderly(p) ==
    /\ Len(p) > 2
    /\ \A i \in 1..Len(p) :
          /\ p[i].cmd = "IMAGE_START_CAPTURE" =>
                 \E j \in 1..(i - 1) : p[j].cmd = "NAV_WAYPOINT"
          /\ p[i].cmd = "NAV_WAYPOINT" /\ p[i].wait # 0 /\ i # Len(p) - 1 =>
                 \E j \in (i + 1)..Len(p) :
                     p[j].cmd \in {"NAV_WAYPOINT", "IMAGE_START_CAPTURE"}

\* The vehicle numbers waypoints and actions with 16 bits.
Fits(p) ==
    /\ Len(wps) + Len(p) <= 65536
    /\ Len(actions) + 2 * Len(p) <= 65536

\* A proxy is opened: createDelegateMemory.  The memory of the proxy before is
\* kept if that one is still there.
OpenProxy ==
    /\ state = "idle" /\ count < MaxMissions
    /\ wps' = <<>> /\ actions' = <<>> /\ events' = <<>> /\ seqs' = <<>>
    /\ held' = <<>> /\ photoPoints' = <<>>
    /\ valid' = TRUE /\ autoReturn' = FALSE /\ orderly' = TRUE
    /\ \/ UNCHANGED lastHeading
       \/ lastHeading # None /\ lastHeading' = Stale
    /\ base' = [wps |-> 0, actions |-> 0, points |-> 0, here |-> FALSE]
    /\ UNCHANGED <<state, count, plan, index, shouldWait, pause, lastWp>>

\* interpret of a plan the client sets; last_wp points into the list of items
\* that is overwritten.
Interpret(p) ==
    /\ state = "idle" /\ count < MaxMissions
    /\ count' = count + 1 /\ plan' = p /\ index' = 0
    /\ shouldWait' = FALSE /\ pause' = [action |-> 0, time |-> 0]
    /\ lastWp' = IF lastWp = None THEN None ELSE Stale
    /\ base' = [wps |-> Len(wps), actions |-> Len(actions),
                points |-> Len(photoPoints), here |-> Len(p) > 2]
    /\ orderly' = (orderly /\ IsOrderly(p) /\ Fits(p))
    /\ IF Len(p) <= 2
       THEN UNCHANGED <<state, autoReturn>>
       ELSE /\ state' = "convert"
            /\ autoReturn' = (autoReturn \/ p[Len(p)].cmd = "NAV_RETURN_TO_LAUNCH")
    /\ UNCHANGED <<missionVars, valid, lastHeading>>

-----------------------------------------------------------------------------
(* The pass over the items.                                                *)

\* The next item is a cmd.
Converts(cmd) == state = "convert" /\ index < Len(plan) /\ Item.cmd = cmd

GoesOn == index' = index + 1 /\ UNCHANGED <<state, planVars, flagVars>>

\* The conversion ends without success.
Fails ==
    /\ state' = "idle" /\ valid' = FALSE
    /\ UNCHANGED <<index, planVars, autoReturn>>

\* Take-off, landing and return are left to the vehicle, others are ignored.
Skip ==
    /\ state = "convert" /\ index < Len(plan)
    /\ Item.cmd \notin {"NAV_WAYPOINT", "IMAGE_START_CAPTURE"}
    /\ GoesOn /\ UNCHANGED <<contextVars, missionVars>>

\* A hold time that does not fit the vehicle's 8 bits.
WaitTimeTooLong ==
    /\ Converts("NAV_WAYPOINT") /\ Item.wait > LongestHold
    /\ lastWp' = index /\ seqs' = Append(seqs, index)
    /\ Fails
    /\ UNCHANGED <<shouldWait, pause, lastHeading, wps, actions, events, held,
                   photoPoints>>

\* The actions a waypoint adds: the vehicle goes on from the one before ...
Resumed(list, table) ==
    IF shouldWait
    THEN LET id == Len(list) IN
         [list  |-> Append(list, Action(id,
                        AssociateTrigger(pause.time, pause.action), "start")),
          table |-> AddActionEvent(table, id, Event("Resumed", index, index))]
    ELSE [list |-> list, table |-> table]

\* ... and stops at this one, unless it is the last item but one.
Stops == Item.wait # 0 /\ index # Len(plan) - 2

ConvertWaypoint ==
    /\ Converts("NAV_WAYPOINT") /\ Item.wait <= LongestHold
    /\ LET resumed == Resumed(actions, events)
           id      == Len(resumed.list)
       IN IF Stops
          THEN /\ actions' = Append(resumed.list,
                                 Action(id, ReachedTrigger(Len(wps)), "stop"))
               /\ events' = AddActionEvent(resumed.table, id,
                                Event("Paused", index, index))
               /\ shouldWait' = TRUE
               /\ pause' = [action |-> id, time |-> Item.wait]
          ELSE /\ actions' = resumed.list /\ events' = resumed.table
               /\ shouldWait' = FALSE /\ UNCHANGED pause
    /\ \E turn \in IF lastHeading = None THEN {"Clockwise"}
                   ELSE IF lastHeading = Stale THEN {"Clockwise", "CounterClockwise"}
                   ELSE {CalTurnMode(Item.yaw, lastHeading)} :
           wps' = Append(wps, [heading |-> NomoralizeYawAngle(Item.yaw),
                               turn |-> turn])
    /\ lastHeading' = NomoralizeYawAngle(Item.yaw)
    /\ lastWp' = index /\ seqs' = Append(seqs, index)
    /\ held' = Append(held, Item.wait)
    /\ GoesOn /\ UNCHANGED photoPoints

\* Slip: the mission stays valid.
UnsupportPhotoTimesStaysValid ==
    /\ Converts("IMAGE_START_CAPTURE") /\ lastWp # None /\ Item.images # 1
    /\ wps' = <<>> /\ actions' = <<>> /\ events' = <<>> /\ seqs' = <<>>
    /\ held' = <<>> /\ state' = "idle"
    /\ UNCHANGED <<index, planVars, flagVars, contextVars, photoPoints>>

\* More images than one, or none: everything converted is given up.
UnsupportPhotoTimes ==
    /\ Converts("IMAGE_START_CAPTURE") /\ lastWp # None /\ Item.images # 1
    /\ wps' = <<>> /\ actions' = <<>> /\ events' = <<>> /\ seqs' = <<>>
    /\ held' = <<>>
    /\ Fails /\ UNCHANGED <<contextVars, photoPoints>>

\* A photo before any waypoint uses a null pointer, or one to an old item.
NoLastWp ==
    /\ Converts("IMAGE_START_CAPTURE") /\ lastWp \in {None, Stale}
    /\ state' = "crashed"
    /\ UNCHANGED <<index, contextVars, missionVars, flagVars, planVars>>

\* last_wait_time: what is left of a hold time after the photo.
Rest(time) == IF time > DefaultWait THEN time - DefaultWait ELSE 0

\* While the vehicle is stopped: a photo two seconds after that, and the vehicle
\* goes on when the rest of the hold time is over.
PhotoAndGo(item, wp) ==
    LET id == Len(actions)
    IN /\ actions' = actions \o
              <<Action(id, AssociateTrigger(DefaultWait, pause.action), "photo"),
                Action(id + 1, AssociateTrigger(Rest(pause.time), id), "start")>>
       /\ events' = AddActionEvent(
              AddActionEvent(events, id, Event("TakenPhoto", item, wp)),
              id + 1, Event("Resumed", wp, wp))

\* Slip: the waypoint that will be converted next.
PhotoAtTheNext(item, wp) ==
    LET id == Len(actions)
    IN /\ actions' = Append(actions,
              Action(id, ReachedTrigger(Len(wps)), "photo"))
       /\ events' = AddActionEvent(events, id, Event("TakenPhoto", item, wp))

\* Otherwise: a photo when the waypoint is reached.
PhotoInPassing(item, wp) ==
    LET id == Len(actions)
    IN /\ actions' = Append(actions,
              Action(id, ReachedTrigger(Len(wps) - 1), "photo"))
       /\ events' = AddActionEvent(events, id, Event("TakenPhoto", item, wp))

\* Slip: the vehicle is let go on again by the next item.
ConvertPhotoStillWaits ==
    /\ Converts("IMAGE_START_CAPTURE") /\ lastWp # None /\ Item.images = 1
    /\ \E wp \in IF lastWp = Stale THEN 0..(Len(plan) - 1) ELSE {lastWp} :
           /\ photoPoints' = Append(photoPoints, [at |-> wp, item |-> index])
           /\ IF shouldWait
              THEN PhotoAndGo(index, wp)
              ELSE PhotoInPassing(index, wp)
    /\ GoesOn
    /\ UNCHANGED <<shouldWait, pause, lastWp, lastHeading, wps, seqs, held>>

ConvertPhoto ==
    /\ Converts("IMAGE_START_CAPTURE") /\ lastWp # None /\ Item.images = 1
    /\ \E wp \in IF lastWp = Stale THEN 0..(Len(plan) - 1) ELSE {lastWp} :
           /\ photoPoints' = Append(photoPoints, [at |-> wp, item |-> index])
           /\ IF shouldWait
              THEN PhotoAndGo(index, wp)
              ELSE PhotoInPassing(index, wp)
    /\ shouldWait' = FALSE
    /\ GoesOn
    /\ UNCHANGED <<pause, lastWp, lastHeading, wps, seqs, held>>

\* All items are converted.
Succeed ==
    /\ state = "convert" /\ index = Len(plan)
    /\ state' = "idle"
    /\ UNCHANGED <<index, contextVars, missionVars, flagVars, planVars>>

Done ==
    /\ state = "crashed" \/ (state = "idle" /\ count = MaxMissions)
    /\ UNCHANGED vars

Next ==
    \/ OpenProxy
    \/ \E p \in Plans : Interpret(p)
    \/ Skip \/ ConvertWaypoint \/ WaitTimeTooLong
    \/ ConvertPhoto \/ UnsupportPhotoTimes \/ NoLastWp
    \/ Succeed \/ Done

Spec == Init /\ [][Next]_vars

-----------------------------------------------------------------------------
(* Properties.                                                             *)

Triggers    == [on : {"reached", "associated"}, of : Nat, delay : Nat]
ActionType  == [id : Nat, trigger : Triggers, actuator : {"stop", "start", "photo"}]
EventType   == [type : {"Paused", "Resumed", "TakenPhoto"}, item : Nat,
                adjoint : Nat]
WaypointV2  == [heading : Int, turn : {"Clockwise", "CounterClockwise"}]

\* Types.
TypeOK ==
    /\ state \in {"idle", "convert", "crashed"}
    /\ count \in Nat /\ plan \in Seq(WPMItem) /\ index \in 0..Len(plan)
    /\ shouldWait \in BOOLEAN /\ pause \in [action : Nat, time : Nat]
    /\ lastWp \in Nat \cup {None, Stale} /\ lastHeading \in Int
    /\ wps \in Seq(WaypointV2) /\ actions \in Seq(ActionType)
    /\ events \in [0..(Len(actions) - 1) -> EventType]
    /\ seqs \in Seq(Nat) /\ held \in Seq(Nat)
    /\ photoPoints \in Seq([at : Nat, item : Nat])
    /\ valid \in BOOLEAN /\ autoReturn \in BOOLEAN /\ orderly \in BOOLEAN
    /\ base \in [wps : Nat, actions : Nat, points : Nat, here : BOOLEAN]

Good == valid /\ orderly

Follows(j, i) ==
    /\ actions[j].trigger.on = "associated"
    /\ actions[j].trigger.of = actions[i].id

\* A pause of so many tenths lasts the hold time, cut off to tenths, but for what
\* the rounding of a product adds: no more than 32 units, eight microseconds.
Lasts(tenths, time) ==
    /\ 10 * time - Second < tenths * Second
    /\ tenths * Second <= 10 * time + 32

\* With a photo it lasts two seconds at least.
WithPhoto(time) == IF time > DefaultWait THEN time ELSE DefaultWait

\* The open stop, if there is one, is the last action.
IsOpen(i) == state = "convert" /\ shouldWait /\ i = Len(actions)

\* What is told of an action.
TypeOf(actuator) ==
    IF actuator = "stop" THEN "Paused"
    ELSE IF actuator = "start" THEN "Resumed" ELSE "TakenPhoto"

\* Numbers and tables agree.
TablesInv ==
    /\ valid => Len(seqs) = Len(wps) /\ Len(held) = Len(wps)
    /\ orderly => \A i \in 1..Len(actions) :
           /\ actions[i].id = i - 1
           /\ events[i - 1].type = TypeOf(actions[i].actuator)
    /\ orderly /\ state = "convert" =>
           /\ IsOrderly(plan)
           /\ Len(wps) + Len(plan) - index <= 65536
           /\ Len(actions) + 2 * (Len(plan) - index) <= 65536

\* Where a trigger points to: the action before, or a waypoint there is.
TriggersInv ==
    Good => \A i \in 1..Len(actions) :
        LET t == actions[i].trigger IN
        IF t.on = "associated"
        THEN t.of = i - 2
        ELSE t.of < Len(wps) /\ actions[i].actuator # "start"

\* The context of the conversion.
ContextInv ==
    /\ pause.time <= LongestHold
    /\ state = "convert" /\ lastWp \in {None, Stale} =>
          \A j \in 1..index : plan[j].cmd # "NAV_WAYPOINT"
    /\ Good /\ state = "convert" =>
          /\ IF lastWp \in {None, Stale}
             THEN ~shouldWait
             ELSE Len(seqs) > 0 /\ lastWp = seqs[Len(seqs)]
          /\ shouldWait =>
                /\ Len(actions) > 0 /\ actions[Len(actions)].actuator = "stop"
                /\ pause.action = Len(actions) - 1
                /\ actions[Len(actions)].trigger.of = Len(wps) - 1
                /\ pause.time = held[Len(wps)]
                /\ \E j \in (index + 1)..Len(plan) :
                      plan[j].cmd \in {"NAV_WAYPOINT", "IMAGE_START_CAPTURE"}

\* The vehicle goes on with the next action, or takes a photo with it first.
GoesOnNext(i, time) ==
    /\ i < Len(actions) /\ actions[i + 1].trigger.on = "associated"
    /\ \/ /\ actions[i + 1].actuator = "start"
          /\ Lasts(actions[i + 1].trigger.delay, time)
       \/ /\ actions[i + 1].actuator = "photo"
          /\ i + 1 < Len(actions) /\ actions[i + 2].trigger.on = "associated"
          /\ actions[i + 2].actuator = "start"
          /\ Lasts(actions[i + 1].trigger.delay + actions[i + 2].trigger.delay,
                   WithPhoto(time))

\* Of every stop but the open one: what follows it.
StopsInv ==
    Good => \A i \in 1..Len(actions) :
        /\ actions[i].actuator = "stop" =>
               /\ actions[i].trigger.on = "reached"
               /\ IsOpen(i) \/ GoesOnNext(i, held[actions[i].trigger.of + 1])
        /\ actions[i].trigger.on = "associated" /\ actions[i].actuator = "photo" =>
               i > 1 /\ actions[i - 1].actuator = "stop"

\* Nothing but a photo item before any waypoint ends the process
\* (_convert_item<IMAGE_START_CAPTURE>).
CrashInv ==
    state = "crashed" => ~IsOrderly(plan)

\* The vehicle goes on from a stop after the hold time, or takes a photo first.
IsResumed(i, time) ==
    \E j \in 1..Len(actions) :
        /\ \A k \in 1..Len(actions) : Follows(k, i) <=> k = j
        /\ \/ /\ actions[j].actuator = "start"
              /\ Lasts(actions[j].trigger.delay, time)
           \/ /\ actions[j].actuator = "photo"
              /\ \E m \in 1..Len(actions) :
                    /\ \A k \in 1..Len(actions) : Follows(k, j) <=> k = m
                    /\ actions[m].actuator = "start"
                    /\ Lasts(actions[j].trigger.delay + actions[m].trigger.delay,
                             WithPhoto(time))

\* A mission whose plans are orderly never leaves the vehicle hovering: whenever
\* it stops there is one action that lets it go on, or one that takes a photo and
\* one after that lets it go on.  By then the pause has lasted the hold time, cut
\* off to tenths: up to a tenth less, also in two parts, and with a photo two
\* seconds at least (parse_common_wp, parse_photo_item, createAssociateTrigger).
PausesEnd ==
    state = "idle" /\ Good => \A i \in 1..Len(actions) :
        actions[i].actuator = "stop" =>
            IsResumed(i, held[actions[i].trigger.of + 1])

\* The waypoint at which an action is done.
WaypointOf(i) ==
    IF actions[i].trigger.on = "reached"
    THEN actions[i].trigger.of
    ELSE actions[i - 1].trigger.of

\* What is told of photos and stops, and what photos are compared with, names the
\* waypoint where the vehicle does them (DJIActionEvent, dji_photo_point).
PhotosAtTheirWaypoint ==
    Good => \A i \in 1..Len(actions) : actions[i].actuator # "start" =>
        /\ WaypointOf(i) < Len(seqs)
        /\ seqs[WaypointOf(i) + 1] = events[i - 1].adjoint
        /\ actions[i].actuator = "photo" =>
               \E n \in 1..Len(photoPoints) :
                   photoPoints[n] = [at   |-> events[i - 1].adjoint,
                                     item |-> events[i - 1].item]

IInv ==
    /\ TypeOK /\ TablesInv /\ TriggersInv /\ ContextInv /\ StopsInv /\ CrashInv
    /\ PhotosAtTheirWaypoint

\* What this plan has added, as positions of items: the waypoints, by their place
\* in the list, the photos, by their action, and the photo points.
NewWaypoints == [k \in (base.wps + 1)..Len(seqs) |-> seqs[k]]

NewPhotos ==
    [i \in {i \in base.actions..(Len(actions) - 1) : events[i].type = "TakenPhoto"}
         |-> events[i].item]

NewPoints ==
    [k \in (base.points + 1)..Len(photoPoints) |-> photoPoints[k].item]

\* They are the items with this command among the first n, each of them once and
\* in the plan's order.
InPlanOrder(added, cmd, n) ==
    /\ \A i \in DOMAIN added : added[i] \in 0..(n - 1) /\ plan[added[i] + 1].cmd = cmd
    /\ \A i, j \in DOMAIN added : i < j => added[i] < added[j]
    /\ \A s \in 0..(n - 1) :
           plan[s + 1].cmd = cmd => \E i \in DOMAIN added : added[i] = s

\* The vehicle flies what the tables say: a waypoint with the item's heading for
\* each sequence number, and a photo where a photo is told.
IsFlown ==
    /\ Len(wps) = Len(seqs)
    /\ \A k \in (base.wps + 1)..Len(seqs) :
           wps[k].heading = NomoralizeYawAngle(plan[seqs[k] + 1].yaw)
    /\ \A i \in base.actions..(Len(actions) - 1) :
           actions[i + 1].actuator = "photo" <=> events[i].type = "TakenPhoto"

Converted(n) ==
    /\ InPlanOrder(NewWaypoints, "NAV_WAYPOINT", n)
    /\ InPlanOrder(NewPhotos, "IMAGE_START_CAPTURE", n)
    /\ InPlanOrder(NewPoints, "IMAGE_START_CAPTURE", n)
    /\ IsFlown

\* Behind what the memory held before, which is flown again, a mission that is
\* valid has the waypoints and the photos of the plan, each once and in the plan's
\* order, in what the vehicle is sent as well as in the tables its events are told
\* by, and the list of photo points has the photos (interpret).
ConvertsThePlan == state = "idle" /\ valid /\ base.here => Converted(Len(plan))

\* Why it holds: so far the pass has converted what it has passed.
PassInv ==
    valid /\ base.here /\ state # "crashed" =>
        /\ base.wps <= Len(seqs) /\ base.actions <= Len(actions)
        /\ base.points <= Len(photoPoints)
        /\ Converted(index)
        /\ state = "idle" => index = Len(plan)
=============================================================================
