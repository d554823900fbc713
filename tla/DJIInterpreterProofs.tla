------------------------ MODULE DJIInterpreterProofs ------------------------
(***************************************************************************)
(* The conversion of plans, for all plans and any number of missions.      *)
(*                                                                         *)
(* A step of the pass adds at most two actions.  For the steps that add    *)
(* some, a lemma says which ones they are, in terms of the elements of the *)
(* lists; the conjuncts of the invariant are proved from these lemmas and  *)
(* not from the definitions of the steps.                                  *)
(***************************************************************************)
EXTENDS DJIInterpreter, TLAPS

-----------------------------------------------------------------------------
(* Numbers and lists.                                                      *)

\* Numbers that fit are not changed by the vehicle's types.
LEMMA SmallNumbers ==
    /\ \A n \in Nat : n <= 65535 => UInt16(n) = n
    /\ \A n \in Nat : n <= 255 => UInt8(n) = n
BY DEF UInt16, UInt8

\* Half of the last place's weight: none for a short time, 32 units at most.
LEMMA HalfBounds ==
    ASSUME NEW n \in Nat
    PROVE  Half(n) \in Nat /\ Half(n) <= 32 /\ (n < 4 * Second => Half(n) = 0)
BY DEF Half, Second

\* Hold times in tenths are natural numbers, which fit eight bits if the hold time
\* is not too long, and are the hold time but for what is cut off.
LEMMA TenthsOfHold ==
    ASSUME NEW t \in Nat
    PROVE  /\ Tenths(t) \in Nat /\ Lasts(Tenths(t), t)
           /\ t <= LongestHold => Tenths(t) <= 255
<1> DEFINE h == Half(10 * t)
<1>1. h \in Nat /\ h <= 32
  BY HalfBounds
<1> HIDE DEF h
<1>2. /\ (10 * t + h) \div 4194304 \in Nat
      /\ ((10 * t + h) \div 4194304) * 4194304 <= 10 * t + h
      /\ 10 * t + h < ((10 * t + h) \div 4194304) * 4194304 + 4194304
  BY <1>1
<1>3. Tenths(t) = (10 * t + h) \div 4194304
  BY DEF Tenths, Second, h
<1> QED BY <1>1, <1>2, <1>3 DEF Lasts, Second, LongestHold

\* A photo comes after twenty tenths, and with what is left of the hold time the
\* pause is as long.
LEMMA TenthsOfRest ==
    ASSUME NEW t \in Nat, t <= LongestHold
    PROVE  /\ Tenths(DefaultWait) = 20
           /\ Rest(t) \in Nat /\ Tenths(Rest(t)) \in Nat /\ Tenths(Rest(t)) <= 255
           /\ Lasts(20 + Tenths(Rest(t)), WithPhoto(t))
<1>1. Tenths(DefaultWait) = 20
  <2>1. DefaultWait \in Nat
    BY DEF DefaultWait, Second
  <2>2. Tenths(DefaultWait) \in Nat /\ Lasts(Tenths(DefaultWait), DefaultWait)
    BY <2>1, TenthsOfHold
  <2> QED BY <2>2 DEF Lasts, DefaultWait, Second
<1>2. Rest(t) \in Nat /\ Rest(t) <= t
  BY DEF Rest, DefaultWait, Second
<1>3. /\ Tenths(Rest(t)) \in Nat /\ Tenths(Rest(t)) <= 255
      /\ Lasts(Tenths(Rest(t)), Rest(t))
  <2>1. Rest(t) <= LongestHold
    BY <1>2 DEF LongestHold
  <2> QED BY <1>2, <2>1, TenthsOfHold
<1>4. /\ WithPhoto(t) = Rest(t) + DefaultWait
      /\ 10 * DefaultWait = 20 * Second
  BY DEF WithPhoto, Rest, DefaultWait, Second
<1>5. Lasts(20 + Tenths(Rest(t)), WithPhoto(t))
  <2> DEFINE d == Tenths(Rest(t)) r == Rest(t)
  <2>1. /\ 10 * r - 4194304 < d * 4194304 /\ d * 4194304 <= 10 * r + 32
        /\ d \in Nat /\ r \in Nat
    BY <1>2, <1>3 DEF Lasts, Second
  <2>2. WithPhoto(t) = r + 8388608
    BY <1>4 DEF DefaultWait, Second
  <2> HIDE DEF d, r
  <2>3. Lasts(20 + d, r + 8388608)
    BY <2>1 DEF Lasts, Second
  <2> QED BY <2>2, <2>3 DEF d
<1> QED BY <1>1, <1>2, <1>3, <1>5

\* An action and its event are appended to list and table.
Adds(list, table, action, event, list2, table2) ==
    /\ list2 \in Seq(ActionType) /\ Len(list2) = Len(list) + 1
    /\ list2[Len(list) + 1] = action
    /\ \A i \in 1..Len(list) : list2[i] = list[i]
    /\ table2 \in [0..(Len(list2) - 1) -> EventType]
    /\ table2[Len(list)] = event
    /\ \A i \in 0..(Len(list) - 1) : table2[i] = table[i]

LEMMA AddedAction ==
    ASSUME NEW list \in Seq(ActionType), NEW action \in ActionType,
           NEW table \in [0..(Len(list) - 1) -> EventType], NEW event \in EventType
    PROVE  Adds(list, table, action, event,
                Append(list, action), AddActionEvent(table, Len(list), event))
<1> DEFINE list2  == Append(list, action)
           table2 == AddActionEvent(table, Len(list), event)
<1>1. Len(list) \in Nat
  OBVIOUS
<1>2. /\ list2 \in Seq(ActionType) /\ Len(list2) = Len(list) + 1
      /\ list2[Len(list) + 1] = action
      /\ \A i \in 1..Len(list) : list2[i] = list[i]
  OBVIOUS
<1>3. /\ table2 \in [0..Len(list) -> EventType]
      /\ table2[Len(list)] = event
      /\ \A i \in 0..(Len(list) - 1) : table2[i] = table[i]
  <2>1. DOMAIN table \cup {Len(list)} = 0..Len(list)
    BY <1>1
  <2> QED BY <1>1, <2>1 DEF AddActionEvent
<1> QED BY <1>1, <1>2, <1>3 DEF Adds

\* Types of what the pass adds.
LEMMA AddedTypes ==
    /\ \A n, t \in Nat : AssociateTrigger(t, n) \in Triggers
    /\ \A n \in Nat : ReachedTrigger(n) \in Triggers
    /\ \A n \in Nat, t \in Triggers, a \in {"stop", "start", "photo"} :
          Action(n, t, a) \in ActionType
    /\ \A e \in {"Paused", "Resumed", "TakenPhoto"}, i, w \in Nat :
          Event(e, i, w) \in EventType
<1>1. \A n \in Nat : UInt16(n) \in Nat /\ UInt8(n) \in Nat /\ Tenths(n) \in Nat
  BY TenthsOfHold DEF UInt16, UInt8
<1>2. \A n, t \in Nat : AssociateTrigger(t, n) \in Triggers
  BY <1>1 DEF AssociateTrigger, Triggers
<1>3. \A n \in Nat : ReachedTrigger(n) \in Triggers
  BY <1>1 DEF ReachedTrigger, Triggers
<1>4. \A n \in Nat, t \in Triggers, a \in {"stop", "start", "photo"} :
          Action(n, t, a) \in ActionType
  BY <1>1 DEF Action, ActionType
<1>5. \A e \in {"Paused", "Resumed", "TakenPhoto"}, i, w \in Nat :
          Event(e, i, w) \in EventType
  BY DEF Event, EventType
<1> QED BY <1>2, <1>3, <1>4, <1>5

-----------------------------------------------------------------------------
(* What the steps add.                                                     *)

\* The vehicle goes on: nothing is added, or the action that starts it.
LEMMA ResumedAdds ==
    ASSUME TypeOK
    PROVE  LET n    == Len(actions)
               list == Resumed(actions, events).list
               tab  == Resumed(actions, events).table
           IN /\ list \in Seq(ActionType) /\ tab \in [0..(Len(list) - 1) -> EventType]
              /\ \A i \in 1..n : list[i] = actions[i]
              /\ \A i \in 0..(n - 1) : tab[i] = events[i]
              /\ ~shouldWait => Len(list) = n
              /\ shouldWait =>
                     /\ Len(list) = n + 1
                     /\ list[n + 1] = Action(n,
                            AssociateTrigger(pause.time, pause.action), "start")
                     /\ tab[n] = Event("Resumed", index, index)
<1> DEFINE n == Len(actions)
           r == Resumed(actions, events)
           a == Action(n, AssociateTrigger(pause.time, pause.action), "start")
           e == Event("Resumed", index, index)
<1>1. /\ actions \in Seq(ActionType) /\ events \in [0..(Len(actions) - 1) -> EventType]
      /\ n \in Nat /\ index \in Nat /\ pause.time \in Nat /\ pause.action \in Nat
  BY DEF TypeOK
<1>2. CASE ~shouldWait
  <2>1. r = [list |-> actions, table |-> events]
    BY <1>2 DEF Resumed
  <2> QED BY <1>1, <1>2, <2>1
<1>3. CASE shouldWait
  <2>1. r = [list |-> Append(actions, a), table |-> AddActionEvent(events, n, e)]
    BY <1>3 DEF Resumed
  <2>2. a \in ActionType /\ e \in EventType
    BY <1>1, AddedTypes
  <2>3. r.list = Append(actions, a) /\ r.table = AddActionEvent(events, n, e)
    BY <2>1
  <2> HIDE DEF r, a, e
  <2>4. /\ r.list \in Seq(ActionType) /\ Len(r.list) = Len(actions) + 1
        /\ r.list[Len(actions) + 1] = a
        /\ \A i \in 1..Len(actions) : r.list[i] = actions[i]
        /\ r.table \in [0..(Len(r.list) - 1) -> EventType]
        /\ r.table[Len(actions)] = e
        /\ \A i \in 0..(Len(actions) - 1) : r.table[i] = events[i]
    <3>1. Adds(actions, events, a, e, r.list, r.table)
      BY <1>1, <2>2, <2>3, AddedAction
    <3> QED BY <3>1 DEF Adds
  <2> QED BY <1>3, <2>4 DEF r, a, e
<1> QED BY <1>2, <1>3

\* What a waypoint adds.
WaypointAdds(m) ==
    /\ actions' \in Seq(ActionType) /\ events' \in [0..(Len(actions') - 1) -> EventType]
    /\ \A i \in 1..Len(actions) : actions'[i] = actions[i]
    /\ \A i \in 0..(Len(actions) - 1) : events'[i] = events[i]
    /\ IF shouldWait
       THEN /\ m = Len(actions) + 1
            /\ actions'[m] = Action(m - 1,
                   AssociateTrigger(pause.time, pause.action), "start")
            /\ events'[m - 1] = Event("Resumed", index, index)
       ELSE m = Len(actions)
    /\ IF Stops
       THEN /\ Len(actions') = m + 1
            /\ actions'[m + 1] = Action(m, ReachedTrigger(Len(wps)), "stop")
            /\ events'[m] = Event("Paused", index, index)
            /\ shouldWait' = TRUE /\ pause' = [action |-> m, time |-> Item.wait]
       ELSE Len(actions') = m /\ shouldWait' = FALSE /\ pause' = pause

LEMMA ConvertWaypointAdds ==
    ASSUME TypeOK, ConvertWaypoint
    PROVE  \E m \in Nat : WaypointAdds(m)
<1> DEFINE list == Resumed(actions, events).list
           tab  == Resumed(actions, events).table
           m    == Len(list)
           a    == Action(m, ReachedTrigger(Len(wps)), "stop")
           e    == Event("Paused", index, index)
<1>1. /\ Len(actions) \in Nat /\ index \in Nat /\ Len(wps) \in Nat
  BY DEF TypeOK
<1>2. /\ list \in Seq(ActionType) /\ tab \in [0..(Len(list) - 1) -> EventType]
      /\ \A i \in 1..Len(actions) : list[i] = actions[i]
      /\ \A i \in 0..(Len(actions) - 1) : tab[i] = events[i]
      /\ ~shouldWait => m = Len(actions)
      /\ shouldWait =>
             /\ m = Len(actions) + 1
             /\ list[m] = Action(m - 1,
                    AssociateTrigger(pause.time, pause.action), "start")
             /\ tab[m - 1] = Event("Resumed", index, index)
  <2> HIDE DEF list, tab
  <2>1. LET n == Len(actions)
        IN /\ list \in Seq(ActionType) /\ tab \in [0..(Len(list) - 1) -> EventType]
           /\ \A i \in 1..n : list[i] = actions[i]
           /\ \A i \in 0..(n - 1) : tab[i] = events[i]
           /\ ~shouldWait => Len(list) = n
           /\ shouldWait =>
                  /\ Len(list) = n + 1
                  /\ list[n + 1] = Action(n,
                         AssociateTrigger(pause.time, pause.action), "start")
                  /\ tab[n] = Event("Resumed", index, index)
    BY ResumedAdds DEF list, tab
  <2>2. (Len(actions) + 1) - 1 = Len(actions)
    BY <1>1
  <2> QED BY <2>1, <2>2
<1>3. IF Stops
      THEN /\ actions' = Append(list, a) /\ events' = AddActionEvent(tab, m, e)
           /\ shouldWait' = TRUE /\ pause' = [action |-> m, time |-> Item.wait]
      ELSE /\ actions' = list /\ events' = tab
           /\ shouldWait' = FALSE /\ pause' = pause
  BY DEF ConvertWaypoint
<1>4. a \in ActionType /\ e \in EventType /\ m \in Nat
  BY <1>1, <1>2, AddedTypes
<1> HIDE DEF list, tab, a, e
<1>5. CASE ~Stops
  BY <1>2, <1>3, <1>4, <1>5 DEF WaypointAdds
<1>6. CASE Stops
  <2>0. /\ list \in Seq(ActionType) /\ tab \in [0..(Len(list) - 1) -> EventType]
        /\ actions' = Append(list, a) /\ events' = AddActionEvent(tab, Len(list), e)
    BY <1>2, <1>3, <1>6
  <2>1. /\ actions' \in Seq(ActionType) /\ Len(actions') = Len(list) + 1
        /\ actions'[Len(list) + 1] = a
        /\ \A i \in 1..Len(list) : actions'[i] = list[i]
        /\ events' \in [0..(Len(actions') - 1) -> EventType]
        /\ events'[Len(list)] = e
        /\ \A i \in 0..(Len(list) - 1) : events'[i] = tab[i]
    <3> HIDE DEF m
    <3>1. Adds(list, tab, a, e, actions', events')
      BY <1>4, <2>0, AddedAction
    <3> QED BY <3>1 DEF Adds
  <2>2. /\ \A i \in 1..Len(actions) : actions'[i] = actions[i]
        /\ \A i \in 0..(Len(actions) - 1) : events'[i] = events[i]
    <3>1. m = Len(actions) \/ m = Len(actions) + 1
      BY <1>2
    <3>2. /\ \A i \in 1..Len(actions) : list[i] = actions[i] /\ i \in 1..m
          /\ \A i \in 0..(Len(actions) - 1) : tab[i] = events[i] /\ i \in 0..(m - 1)
      BY <1>1, <1>2, <3>1
    <3> QED BY <2>1, <3>2
  <2>3. shouldWait =>
             /\ actions'[m] = Action(m - 1,
                    AssociateTrigger(pause.time, pause.action), "start")
             /\ events'[m - 1] = Event("Resumed", index, index)
    BY <1>1, <1>2, <1>4, <2>1
  <2> QED BY <1>2, <1>3, <1>4, <1>6, <2>1, <2>2, <2>3 DEF WaypointAdds, a, e
<1> QED BY <1>5, <1>6

\* What a photo adds, where wp is the item of its waypoint.
PhotoAdds(wp) ==
    LET n == Len(actions) IN
    /\ actions' \in Seq(ActionType) /\ events' \in [0..(Len(actions') - 1) -> EventType]
    /\ \A i \in 1..n : actions'[i] = actions[i]
    /\ \A i \in 0..(n - 1) : events'[i] = events[i]
    /\ events'[n] = Event("TakenPhoto", index, wp)
    /\ IF shouldWait
       THEN /\ Len(actions') = n + 2
            /\ actions'[n + 1] = Action(n, AssociateTrigger(DefaultWait, pause.action), "photo")
            /\ actions'[n + 2] = Action(n + 1,
                   AssociateTrigger(Rest(pause.time), n), "start")
            /\ events'[n + 1] = Event("Resumed", wp, wp)
       ELSE /\ Len(actions') = n + 1
            /\ actions'[n + 1] = Action(n, ReachedTrigger(Len(wps) - 1), "photo")

LEMMA ConvertPhotoAdds ==
    ASSUME TypeOK, ConvertPhoto
    PROVE  \E wp \in Nat :
               /\ lastWp # Stale => wp = lastWp
               /\ photoPoints' = Append(photoPoints, [at |-> wp, item |-> index])
               /\ PhotoAdds(wp)
<1>1. PICK wp \in IF lastWp = Stale THEN 0..(Len(plan) - 1) ELSE {lastWp} :
          /\ photoPoints' = Append(photoPoints, [at |-> wp, item |-> index])
          /\ IF shouldWait THEN PhotoAndGo(index, wp) ELSE PhotoInPassing(index, wp)
  BY DEF ConvertPhoto
<1>2. wp \in Nat /\ (lastWp # Stale => wp = lastWp)
  <2>1. lastWp \in Nat \cup {None, Stale} /\ lastWp # None /\ Len(plan) \in Nat
    BY DEF TypeOK, ConvertPhoto
  <2> QED BY <1>1, <2>1
<1>3. /\ Len(actions) \in Nat /\ index \in Nat /\ Len(wps) \in Nat
      /\ actions \in Seq(ActionType) /\ pause.time \in Nat /\ pause.action \in Nat
      /\ events \in [0..(Len(actions) - 1) -> EventType]
  <2>1. /\ actions \in Seq(ActionType) /\ index \in Nat
        /\ events \in [0..(Len(actions) - 1) -> EventType]
    BY DEF TypeOK
  <2>2. Len(wps) \in Nat
    BY DEF TypeOK
  <2>3. pause.time \in Nat /\ pause.action \in Nat
    BY DEF TypeOK
  <2> QED BY <2>1, <2>2, <2>3
<1> DEFINE n == Len(actions)
           e == Event("TakenPhoto", index, wp)
<1>4. e \in EventType
  BY <1>2, <1>3, AddedTypes
<1>5. CASE ~shouldWait
  <2> DEFINE a == Action(n, ReachedTrigger(Len(wps) - 1), "photo")
  <2>1. actions' = Append(actions, a) /\ events' = AddActionEvent(events, Len(actions), e)
    BY <1>1, <1>5 DEF PhotoInPassing
  <2>2. a \in ActionType
    <3>1. UInt16(Len(wps) - 1) \in Nat /\ UInt16(n) \in Nat
      BY <1>3 DEF UInt16
    <3> QED BY <3>1 DEF Action, ReachedTrigger, ActionType, Triggers
  <2> HIDE DEF a, e
  <2>3. /\ actions' \in Seq(ActionType) /\ Len(actions') = Len(actions) + 1
        /\ actions'[Len(actions) + 1] = a
        /\ \A i \in 1..Len(actions) : actions'[i] = actions[i]
        /\ events' \in [0..(Len(actions') - 1) -> EventType]
        /\ events'[Len(actions)] = e
        /\ \A i \in 0..(Len(actions) - 1) : events'[i] = events[i]
    <3> HIDE DEF n
    <3>1. Adds(actions, events, a, e, actions', events')
      BY <1>3, <1>4, <2>1, <2>2, AddedAction
    <3> QED BY <3>1 DEF Adds
  <2> QED BY <1>1, <1>2, <1>5, <2>3 DEF PhotoAdds, a, e
<1>6. CASE shouldWait
  <2> DEFINE a == Action(n, AssociateTrigger(DefaultWait, pause.action), "photo")
             b == Action(n + 1, AssociateTrigger(Rest(pause.time), n), "start")
             f == Event("Resumed", wp, wp)
             l == Append(actions, a)
             t == AddActionEvent(events, n, e)
  <2>1. Rest(pause.time) \in Nat /\ DefaultWait \in Nat
    BY <1>3 DEF Rest, DefaultWait, Second
  <2>2. a \in ActionType /\ b \in ActionType /\ f \in EventType
    BY <1>2, <1>3, <2>1, AddedTypes
  <2>3. /\ actions' = actions \o <<a, b>>
        /\ events' = AddActionEvent(t, n + 1, f)
    BY <1>1, <1>6 DEF PhotoAndGo
  <2>4. actions \o <<a, b>> = Append(l, b)
    <3> HIDE DEF a, b
    <3> QED BY <1>3, <2>2
  <2> HIDE DEF a, b, e, f
  <2>5. /\ l \in Seq(ActionType) /\ Len(l) = Len(actions) + 1
        /\ l[Len(actions) + 1] = a
        /\ \A i \in 1..Len(actions) : l[i] = actions[i]
        /\ t \in [0..(Len(l) - 1) -> EventType]
        /\ t[Len(actions)] = e
        /\ \A i \in 0..(Len(actions) - 1) : t[i] = events[i]
    <3>1. Adds(actions, events, a, e, l, t)
      BY <1>3, <1>4, <2>2, AddedAction
    <3> HIDE DEF l, t
    <3> QED BY <3>1 DEF Adds
  <2>6. actions' = Append(l, b) /\ events' = AddActionEvent(t, Len(l), f)
    BY <2>3, <2>4, <2>5
  <2> HIDE DEF l, t, n
  <2>7. /\ actions' \in Seq(ActionType) /\ Len(actions') = Len(l) + 1
        /\ actions'[Len(l) + 1] = b
        /\ \A i \in 1..Len(l) : actions'[i] = l[i]
        /\ events' \in [0..(Len(actions') - 1) -> EventType]
        /\ events'[Len(l)] = f
        /\ \A i \in 0..(Len(l) - 1) : events'[i] = t[i]
    <3>1. Adds(l, t, b, f, actions', events')
      BY <2>2, <2>5, <2>6, AddedAction
    <3> QED BY <3>1 DEF Adds
  <2>8. /\ Len(actions') = Len(actions) + 2
        /\ actions'[Len(actions) + 2] = b /\ events'[Len(actions) + 1] = f
        /\ actions'[Len(actions) + 1] = a /\ events'[Len(actions)] = e
        /\ \A i \in 1..Len(actions) : actions'[i] = actions[i]
        /\ \A i \in 0..(Len(actions) - 1) : events'[i] = events[i]
    <3>1. \A i \in 1..Len(actions) : i \in 1..Len(l)
      BY <1>3, <2>5
    <3>2. \A i \in 0..(Len(actions) - 1) : i \in 0..(Len(l) - 1)
      BY <1>3, <2>5
    <3>3. Len(actions) + 1 \in 1..Len(l) /\ Len(actions) \in 0..(Len(l) - 1)
      BY <1>3, <2>5
    <3>4. Len(actions') = Len(actions) + 2 /\ Len(l) + 1 = Len(actions) + 2
      BY <1>3, <2>5, <2>7
    <3> QED BY <2>5, <2>7, <3>1, <3>2, <3>3, <3>4
  <2> QED BY <1>1, <1>2, <1>6, <2>7, <2>8 DEF PhotoAdds, a, b, e, f, n
<1> QED BY <1>5, <1>6

-----------------------------------------------------------------------------
(* The invariant.                                                          *)

\* The parts of the type invariant, for provers that are good at one of them.
PassTypes ==
    /\ state \in {"idle", "convert", "crashed"}
    /\ count \in Nat /\ plan \in Seq(WPMItem) /\ index \in 0..Len(plan)
    /\ pause \in [action : Nat, time : Nat]
    /\ lastWp \in Nat \cup {None, Stale} /\ lastHeading \in Int

MissionTypes ==
    /\ wps \in Seq(WaypointV2) /\ actions \in Seq(ActionType)
    /\ events \in [0..(Len(actions) - 1) -> EventType]
    /\ seqs \in Seq(Nat) /\ held \in Seq(Nat)
    /\ photoPoints \in Seq([at : Nat, item : Nat])

FlagTypes ==
    /\ shouldWait \in BOOLEAN /\ valid \in BOOLEAN /\ autoReturn \in BOOLEAN
    /\ orderly \in BOOLEAN /\ base \in [wps : Nat, actions : Nat, points : Nat, here : BOOLEAN]

LEMMA TypeParts == TypeOK <=> PassTypes /\ MissionTypes /\ FlagTypes
BY DEF TypeOK, PassTypes, MissionTypes, FlagTypes

\* The empty table.
LEMMA EmptyTable == <<>> \in [0..(Len(<<>>) - 1) -> EventType]
<1>1. Len(<<>>) = 0 /\ 0..(0 - 1) = 1..0
  OBVIOUS
<1>2. <<>> \in [1..0 -> EventType]
  OBVIOUS
<1> QED BY <1>1, <1>2

LEMMA InitInv == Init => IInv
<1> SUFFICES ASSUME Init PROVE IInv
  OBVIOUS
<1>1. TypeOK
  <2>1. PassTypes
    BY DEF Init, PassTypes, None
  <2>2. MissionTypes
    BY EmptyTable DEF Init, MissionTypes
  <2>3. FlagTypes
    <3>1. base = [wps |-> 0, actions |-> 0, points |-> 0, here |-> FALSE]
      BY DEF Init
    <3>2. base \in [wps : Nat, actions : Nat, points : Nat, here : BOOLEAN]
      BY <3>1
    <3> QED BY <3>2 DEF Init, FlagTypes
  <2> QED BY <2>1, <2>2, <2>3, Zenon
      DEF TypeOK, PassTypes, MissionTypes, FlagTypes
<1>2. TablesInv /\ TriggersInv /\ ContextInv /\ StopsInv /\ CrashInv
  BY DEF Init, TablesInv, TriggersInv, ContextInv, StopsInv, CrashInv, LongestHold
<1>3. PhotosAtTheirWaypoint
  BY DEF Init, PhotosAtTheirWaypoint
<1> QED BY <1>1, <1>2, <1>3 DEF IInv

\* Steps that leave the lists alone, or empty them.
LEMMA OpenProxyInv == IInv /\ OpenProxy => IInv'
<1> SUFFICES ASSUME IInv, OpenProxy PROVE IInv'
  OBVIOUS
<1>1. TypeOK'
  <2> USE DEF OpenProxy
  <2>1. PassTypes /\ MissionTypes /\ FlagTypes
    BY TypeParts DEF IInv
  <2>2. PassTypes'
    BY <2>1 DEF PassTypes, Stale
  <2>3. MissionTypes'
    BY EmptyTable DEF MissionTypes
  <2>4. FlagTypes'
    <3>1. base' \in [wps : Nat, actions : Nat, points : Nat, here : BOOLEAN]
      OBVIOUS
    <3> QED BY <2>1, <3>1, Zenon DEF FlagTypes
  <2> QED BY <2>2, <2>3, <2>4, Zenon
      DEF TypeOK, PassTypes, MissionTypes, FlagTypes
<1>2. (TablesInv /\ TriggersInv /\ ContextInv /\ StopsInv /\ CrashInv)'
  BY DEF IInv, TypeOK, OpenProxy, TablesInv, TriggersInv, ContextInv, StopsInv,
         CrashInv
<1>3. PhotosAtTheirWaypoint'
  BY DEF OpenProxy, PhotosAtTheirWaypoint
<1> QED BY <1>1, <1>2, <1>3 DEF IInv

\* What the context says of the plan does not matter between missions.
LEMMA InterpretInv ==
    ASSUME IInv, NEW p \in Plans, Interpret(p)
    PROVE  IInv'
<1>1. TypeOK'
  <2>1. p \in Seq(WPMItem)
    BY ConstantsAssumption DEF ConstantsAssumption
  <2>2. PassTypes /\ MissionTypes /\ FlagTypes
    BY TypeParts DEF IInv
  <2> USE DEF Interpret
  <2>3. PassTypes'
    BY <2>1, <2>2 DEF PassTypes, None, Stale
  <2>4. MissionTypes'
    BY <2>2 DEF MissionTypes, missionVars
  <2>5. FlagTypes'
    <3>1. base' \in [wps : Nat, actions : Nat, points : Nat, here : BOOLEAN]
      <4>1. Len(wps) \in Nat /\ Len(actions) \in Nat
        BY <2>2 DEF MissionTypes
      <4> QED BY <4>1
    <3> QED BY <2>2, <3>1, Zenon DEF FlagTypes
  <2> QED BY <2>3, <2>4, <2>5, Zenon
      DEF TypeOK, PassTypes, MissionTypes, FlagTypes
<1>2. TablesInv'
  <2>1. orderly' => orderly /\ IsOrderly(p) /\ Fits(p)
    BY DEF Interpret
  <2>2. /\ plan' = p /\ index' = 0 /\ wps' = wps /\ actions' = actions
        /\ events' = events /\ seqs' = seqs /\ held' = held /\ valid' = valid
    BY DEF Interpret, missionVars
  <2>3. Len(p) \in Nat /\ Len(p) - 0 = Len(p) /\ Len(wps) \in Nat /\ Len(actions) \in Nat
    <3>1. Len(p) \in Nat /\ Len(p) - 0 = Len(p)
      BY ConstantsAssumption DEF ConstantsAssumption
    <3>2. wps \in Seq(WaypointV2) /\ actions \in Seq(ActionType)
      BY DEF IInv, TypeOK
    <3> QED BY ONLY <3>1, <3>2
  <2>4. IsOrderly(p) => IsOrderly(plan)'
    BY <2>2 DEF IsOrderly
  <2>5. Fits(p) => (/\ Len(wps) + Len(plan) - index <= 65536
                    /\ Len(actions) + 2 * (Len(plan) - index) <= 65536)'
    BY <2>2, <2>3 DEF Fits
  <2> QED BY <2>1, <2>2, <2>4, <2>5 DEF IInv, TablesInv
<1>3. Good' => Good
  BY DEF Good, Interpret
<1>4. TriggersInv'
  BY <1>3 DEF IInv, TriggersInv, Interpret, missionVars
<1>5. ContextInv'
  <2>1. /\ lastWp' \in {None, Stale} /\ ~shouldWait' /\ index' = 0
        /\ pause' = [action |-> 0, time |-> 0]
    BY DEF Interpret
  <2> QED BY <2>1 DEF ContextInv, LongestHold
<1>6. StopsInv'
  BY <1>3 DEF IInv, StopsInv, IsOpen, GoesOnNext, Interpret, missionVars
<1>7. CrashInv'
  BY DEF CrashInv, Interpret
<1>8. PhotosAtTheirWaypoint'
  BY <1>3 DEF IInv, PhotosAtTheirWaypoint, WaypointOf, Interpret, missionVars
<1> QED BY <1>1, <1>2, <1>4, <1>5, <1>6, <1>7, <1>8 DEF IInv

\* An item that is skipped ends no stop.
LEMMA SkipInv == IInv /\ Skip => IInv'
<1> SUFFICES ASSUME IInv, Skip PROVE IInv'
  OBVIOUS
<1> USE DEF Skip, GoesOn, planVars, flagVars, contextVars, missionVars
<1>1. TypeOK'
  BY DEF IInv, TypeOK
<1>2. index \in Nat /\ Len(plan) \in Nat /\ Len(wps) \in Nat /\ Len(actions) \in Nat
  BY DEF IInv, TypeOK
<1>3. TablesInv'
  BY <1>2 DEF IInv, TablesInv
<1>4. TriggersInv' /\ CrashInv'
  BY DEF IInv, TriggersInv, CrashInv, Good
<1>5. ContextInv'
  <2>1. plan[index + 1].cmd \notin {"NAV_WAYPOINT", "IMAGE_START_CAPTURE"}
    BY DEF Item
  <2>2. /\ \A j \in 1..(index + 1) : j \in 1..index \/ j = index + 1
        /\ \A j \in (index + 1)..Len(plan) :
              j = index + 1 \/ j \in ((index + 1) + 1)..Len(plan)
    BY <1>2
  <2> QED BY <2>1, <2>2 DEF IInv, ContextInv, Good
<1>6. StopsInv'
  BY DEF IInv, StopsInv, IsOpen, GoesOnNext, Good
<1>7. PhotosAtTheirWaypoint'
  BY DEF IInv, PhotosAtTheirWaypoint, WaypointOf, Good
<1> QED BY <1>1, <1>3, <1>4, <1>5, <1>6, <1>7 DEF IInv

\* A mission that is not valid promises its numbers only.
LEMMA FailureInv == IInv /\ (WaitTimeTooLong \/ UnsupportPhotoTimes) => IInv'
<1> SUFFICES ASSUME IInv, WaitTimeTooLong \/ UnsupportPhotoTimes PROVE IInv'
  OBVIOUS
<1> USE DEF WaitTimeTooLong, UnsupportPhotoTimes, Fails, planVars, contextVars
<1>1. TypeOK'
  <2>0. PassTypes /\ MissionTypes /\ FlagTypes
    BY TypeParts DEF IInv
  <2>1. PassTypes'
    BY <2>0 DEF PassTypes
  <2>2. MissionTypes'
    <3>1. CASE WaitTimeTooLong
      <4>1. index \in Nat
        BY <2>0 DEF PassTypes
      <4> HIDE DEF UnsupportPhotoTimes
      <4> QED BY <2>0, <3>1, <4>1 DEF MissionTypes
    <3>2. CASE UnsupportPhotoTimes
      BY <2>0, <3>2, EmptyTable DEF MissionTypes
    <3> QED BY <3>1, <3>2
  <2>3. FlagTypes'
    <3>1. UNCHANGED base /\ UNCHANGED orderly /\ UNCHANGED autoReturn /\ valid' = FALSE
      OBVIOUS
    <3>2. UNCHANGED shouldWait
      <4>1. WaitTimeTooLong => UNCHANGED shouldWait
        BY Zenon
      <4>2. UnsupportPhotoTimes => UNCHANGED shouldWait
        BY Zenon
      <4> QED BY <4>1, <4>2
    <3> HIDE DEF WaitTimeTooLong, UnsupportPhotoTimes, Fails, planVars, contextVars
    <3> QED BY <2>0, <3>1, <3>2, Zenon DEF FlagTypes
  <2> QED BY <2>1, <2>2, <2>3, Zenon
      DEF TypeOK, PassTypes, MissionTypes, FlagTypes
<1>2. ~valid' /\ ~Good' /\ state' = "idle"
  BY DEF Good
<1>3. TablesInv'
  BY <1>2 DEF IInv, TablesInv
<1>4. TriggersInv' /\ StopsInv' /\ CrashInv' /\ PhotosAtTheirWaypoint'
  BY <1>2 DEF TriggersInv, StopsInv, CrashInv, PhotosAtTheirWaypoint
<1>5. ContextInv'
  BY <1>2 DEF IInv, ContextInv
<1> QED BY <1>1, <1>3, <1>4, <1>5 DEF IInv

\* A photo item before any waypoint: the plan is not an orderly one.
LEMMA NoLastWpInv == IInv /\ NoLastWp => IInv'
<1> SUFFICES ASSUME IInv, NoLastWp PROVE IInv'
  OBVIOUS
<1> USE DEF NoLastWp, Converts, planVars, contextVars, missionVars, flagVars
<1>1. TypeOK'
  BY DEF IInv, TypeOK
<1>2. TablesInv' /\ TriggersInv'
  BY DEF IInv, TablesInv, TriggersInv, Good
<1>3. ContextInv'
  BY DEF IInv, ContextInv
<1>4. ~IsOrderly(plan)
  <2>1. /\ \A j \in 1..index : plan[j].cmd # "NAV_WAYPOINT"
        /\ index \in Nat /\ index + 1 \in 1..Len(plan) /\ (index + 1) - 1 = index
        /\ plan[index + 1].cmd = "IMAGE_START_CAPTURE"
    BY DEF IInv, TypeOK, ContextInv, Item
  <2> QED BY <2>1 DEF IsOrderly
<1>5. (StopsInv /\ CrashInv)'
  <2>1. Good => ~shouldWait
    BY DEF IInv, ContextInv
  <2> QED BY <1>4, <2>1 DEF IInv, StopsInv, CrashInv, IsOpen, GoesOnNext, Good, IsOrderly
<1>6. PhotosAtTheirWaypoint'
  BY DEF IInv, PhotosAtTheirWaypoint, WaypointOf, Good
<1> QED BY <1>1, <1>2, <1>3, <1>5, <1>6 DEF IInv

\* At the end of the plan the vehicle is not stopped.
LEMMA SucceedInv == IInv /\ Succeed => IInv'
<1> SUFFICES ASSUME IInv, Succeed PROVE IInv'
  OBVIOUS
<1> USE DEF Succeed, contextVars, missionVars, flagVars, planVars
<1>1. TypeOK'
  BY DEF IInv, TypeOK
<1>2. TablesInv' /\ TriggersInv' /\ ContextInv' /\ CrashInv'
  BY DEF IInv, TablesInv, TriggersInv, ContextInv, CrashInv, Good
<1>3. Good => ~shouldWait
  BY DEF IInv, TypeOK, ContextInv
<1>4. StopsInv'
  BY <1>3 DEF IInv, StopsInv, IsOpen, GoesOnNext, Good
<1>5. PhotosAtTheirWaypoint'
  BY DEF IInv, PhotosAtTheirWaypoint, WaypointOf, Good
<1> QED BY <1>1, <1>2, <1>4, <1>5 DEF IInv

\* What the types say of an action, and of where it is done.
LEMMA ActionTypes ==
    ASSUME TypeOK
    PROVE  \A i \in 1..Len(actions) :
               /\ actions[i].trigger.of \in Nat
               /\ actions[i].trigger.on \in {"reached", "associated"}
               /\ actions[i].actuator \in {"stop", "start", "photo"}
<1>1. actions \in Seq(ActionType)
  BY DEF TypeOK
<1>2. \A i \in 1..Len(actions) : actions[i] \in ActionType
  BY <1>1
<1> QED BY <1>2 DEF ActionType, Triggers

LEMMA WaypointsOfActions ==
    ASSUME TypeOK, StopsInv, Good, NEW i \in 1..Len(actions), actions[i].actuator # "start",
           \A k \in 1..Len(actions) : actions'[k] = actions[k]
    PROVE  WaypointOf(i) \in Nat /\ WaypointOf(i)' = WaypointOf(i)
<1>1. actions[i].trigger.on # "reached" => i > 1
  <2>1. actions[i].actuator = "stop" => actions[i].trigger.on = "reached"
    BY DEF StopsInv
  <2>2. actions[i].trigger.on = "associated" /\ actions[i].actuator = "photo" => i > 1
    BY DEF StopsInv
  <2>3. /\ actions[i].trigger.on \in {"reached", "associated"}
        /\ actions[i].actuator \in {"stop", "start", "photo"}
    BY ActionTypes
  <2> QED BY <2>1, <2>2, <2>3
<1>2. i > 1 => i - 1 \in 1..Len(actions)
  <2>1. Len(actions) \in Nat
    BY DEF TypeOK
  <2> QED BY <2>1
<1>3. CASE actions[i].trigger.on = "reached"
  BY <1>3, ActionTypes DEF WaypointOf
<1>4. CASE actions[i].trigger.on # "reached"
  <2>1. i - 1 \in 1..Len(actions) /\ actions'[i - 1] = actions[i - 1]
    BY <1>1, <1>2, <1>4
  <2>2. actions'[i] = actions[i]
    OBVIOUS
  <2>3. actions[i - 1].trigger.of \in Nat
    BY <2>1, ActionTypes
  <2> QED BY <1>4, <2>1, <2>2, <2>3 DEF WaypointOf
<1> QED BY <1>3, <1>4

\* A waypoint: the vehicle goes on from the one before, and may stop here.
LEMMA ConvertWaypointInv == IInv /\ ConvertWaypoint => IInv'
<1> SUFFICES ASSUME IInv, ConvertWaypoint PROVE IInv'
  OBVIOUS
<1>1. TypeOK
  BY DEF IInv
<1>2. PICK n \in Nat, w \in Nat : n = Len(actions) /\ w = Len(wps)
  BY <1>1 DEF TypeOK
<1>3. PICK m \in Nat : WaypointAdds(m)
  BY <1>1, ConvertWaypointAdds
\* The lists grow.
<1>4. /\ n <= m /\ m <= n + 1 /\ m <= Len(actions') /\ Len(actions') <= m + 1
      /\ Len(actions') \in Nat /\ (shouldWait => m = n + 1) /\ (~shouldWait => m = n)
      /\ Stops => Len(actions') = m + 1 /\ shouldWait'
                     /\ pause' = [action |-> m, time |-> Item.wait]
      /\ ~Stops => Len(actions') = m /\ ~shouldWait' /\ pause' = pause
  <2>1. (shouldWait => m = n + 1) /\ (~shouldWait => m = n)
    BY <1>2, <1>3 DEF WaypointAdds
  <2>2. /\ Stops => Len(actions') = m + 1 /\ shouldWait'
                       /\ pause' = [action |-> m, time |-> Item.wait]
        /\ ~Stops => Len(actions') = m /\ ~shouldWait' /\ pause' = pause
    BY <1>3 DEF WaypointAdds
  <2> QED BY <2>1, <2>2
<1>5. \A i \in 1..n :
          /\ i \in 1..Len(actions) /\ actions'[i] = actions[i]
          /\ events'[i - 1] = events[i - 1]
  <2>1. /\ \A i \in 1..Len(actions) : actions'[i] = actions[i]
        /\ \A i \in 0..(Len(actions) - 1) : events'[i] = events[i]
    BY <1>3 DEF WaypointAdds
  <2>2. \A i \in 1..n : i - 1 \in 0..(n - 1)
    OBVIOUS
  <2> QED BY <1>2, <2>1, <2>2
<1>6. /\ state = "convert" /\ index < Len(plan) /\ Item.cmd = "NAV_WAYPOINT"
      /\ Item.wait <= LongestHold /\ lastWp' = index /\ index' = index + 1
      /\ seqs' = Append(seqs, index) /\ held' = Append(held, Item.wait)
      /\ UNCHANGED <<state, count, plan, base, orderly, valid, autoReturn, photoPoints>>
  BY DEF ConvertWaypoint, Converts, GoesOn, planVars, flagVars
<1>7. /\ index \in Nat /\ Len(plan) \in Nat /\ n \in Nat /\ w \in Nat
      /\ plan \in Seq(WPMItem) /\ Item \in WPMItem /\ Item.wait \in Nat
      /\ seqs \in Seq(Nat) /\ held \in Seq(Nat)
  <2>1. /\ plan \in Seq(WPMItem) /\ index \in 0..Len(plan) /\ n \in Nat /\ w \in Nat
        /\ seqs \in Seq(Nat) /\ held \in Seq(Nat)
    BY <1>1 DEF TypeOK
  <2>2. Item \in WPMItem
    BY <1>6, <2>1 DEF Item
  <2> QED BY <2>1, <2>2 DEF WPMItem
<1>8. \E turn \in {"Clockwise", "CounterClockwise"} :
          wps' = Append(wps, [heading |-> NomoralizeYawAngle(Item.yaw), turn |-> turn])
  BY DEF ConvertWaypoint, CalTurnMode
<1>9. NomoralizeYawAngle(Item.yaw) \in Int /\ lastHeading' = NomoralizeYawAngle(Item.yaw)
  <2>1. Item.yaw \in Nat
    BY <1>7 DEF WPMItem
  <2> QED BY <2>1 DEF NomoralizeYawAngle, ConvertWaypoint
<1>10. wps' \in Seq(WaypointV2) /\ Len(wps') = w + 1
  BY <1>2, <1>1, <1>8, <1>9 DEF TypeOK, WaypointV2
<1>11. /\ seqs' \in Seq(Nat) /\ Len(seqs') = Len(seqs) + 1 /\ Len(seqs) \in Nat
       /\ seqs'[Len(seqs) + 1] = index
       /\ \A i \in 1..Len(seqs) : seqs'[i] = seqs[i]
       /\ held' \in Seq(Nat) /\ Len(held') = Len(held) + 1 /\ Len(held) \in Nat
       /\ held'[Len(held) + 1] = Item.wait
       /\ \A i \in 1..Len(held) : held'[i] = held[i]
  BY <1>6, <1>7
<1>12. TypeOK'
  <2>1. PassTypes'
    <3>1. pause' \in [action : Nat, time : Nat]
      <4>1. pause \in [action : Nat, time : Nat]
        BY <1>1 DEF TypeOK
      <4> QED BY <1>7, <1>4, <4>1
    <3> QED BY <1>1, <1>6, <1>7, <1>9, <3>1 DEF TypeOK, PassTypes
  <2>2. MissionTypes'
    BY <1>1, <1>3, <1>6, <1>10, <1>11 DEF TypeOK, MissionTypes, WaypointAdds
  <2>3. FlagTypes'
    <3>1. shouldWait' \in BOOLEAN
      BY <1>3 DEF WaypointAdds
    <3>2. UNCHANGED valid /\ UNCHANGED autoReturn /\ UNCHANGED orderly /\ UNCHANGED base
      BY <1>6
    <3> QED BY <1>1, <3>1, <3>2, Zenon DEF TypeOK, FlagTypes
  <2> QED BY <2>1, <2>2, <2>3, Zenon DEF TypeOK, PassTypes, MissionTypes, FlagTypes
<1>13. Good' => Good /\ orderly /\ Len(seqs) = w /\ Len(held) = w
  BY <1>2, <1>6 DEF IInv, TablesInv, Good
\* What the numbers are when they fit.
<1>14. orderly => n + 2 <= 65536 /\ w + 1 <= 65536
  <2>1. orderly => /\ w + Len(plan) - index <= 65536
                   /\ n + 2 * (Len(plan) - index) <= 65536
    BY <1>2, <1>6 DEF IInv, TablesInv
  <2> QED BY <1>6, <1>7, <2>1
<1>15. Good /\ shouldWait =>
           /\ n > 0 /\ m = n + 1
           /\ actions'[n + 1].id = n /\ actions'[n + 1].actuator = "start"
           /\ actions'[n + 1].trigger =
                  [on |-> "associated", of |-> n - 1, delay |-> Tenths(pause.time)]
  <2> SUFFICES ASSUME Good, shouldWait
               PROVE  /\ n > 0 /\ m = n + 1
                      /\ actions'[n + 1].id = n /\ actions'[n + 1].actuator = "start"
                      /\ actions'[n + 1].trigger =
                             [on |-> "associated", of |-> n - 1, delay |-> Tenths(pause.time)]
    OBVIOUS
  <2>1. /\ n > 0 /\ pause.action = n - 1
        /\ pause.time \in Nat /\ pause.time <= LongestHold
    <3>1. pause.time \in Nat
      BY <1>1 DEF TypeOK
    <3>2. /\ Len(actions) > 0 /\ pause.action = Len(actions) - 1
          /\ pause.time <= LongestHold
      <4>1. ContextInv
        BY DEF IInv
      <4> QED BY <1>6, <4>1 DEF ContextInv
    <3> QED BY <1>2, <3>1, <3>2
  <2>2. /\ UInt16(n) = n /\ UInt16(n - 1) = n - 1
        /\ UInt8(Tenths(pause.time)) = Tenths(pause.time)
    <3>1. n <= 65535 /\ n - 1 \in Nat /\ n - 1 <= 65535
      BY <1>14, <2>1 DEF Good
    <3>2. Tenths(pause.time) \in Nat /\ Tenths(pause.time) <= 255
      BY <2>1, TenthsOfHold
    <3> QED BY <2>1, <3>1, <3>2, SmallNumbers
  <2>3. m = n + 1 /\ actions'[m] =
            Action(m - 1, AssociateTrigger(pause.time, pause.action), "start")
    BY <1>2, <1>3 DEF WaypointAdds
  <2> QED BY <1>7, <2>1, <2>2, <2>3 DEF Action, AssociateTrigger
<1>16. orderly => \A i \in (n + 1)..Len(actions') :
           /\ actions'[i].id = i - 1
           /\ events'[i - 1].type = TypeOf(actions'[i].actuator)
  <2> SUFFICES ASSUME orderly, NEW i \in (n + 1)..Len(actions')
               PROVE  /\ actions'[i].id = i - 1
                      /\ events'[i - 1].type = TypeOf(actions'[i].actuator)
    OBVIOUS
  <2>1. CASE shouldWait /\ i = n + 1
    <3>1. /\ actions'[i] = Action(n, AssociateTrigger(pause.time, pause.action), "start")
          /\ events'[i - 1] = Event("Resumed", index, index)
      BY <1>2, <1>3, <1>7, <2>1 DEF WaypointAdds
    <3>2. UInt16(n) = n
      <4>1. n <= 65535
        BY <1>14
      <4> QED BY <4>1, SmallNumbers
    <3> QED BY <1>7, <2>1, <3>1, <3>2 DEF Action, Event, TypeOf
  <2>2. CASE ~(shouldWait /\ i = n + 1)
    <3>1. i = m + 1 /\ Stops
      BY <1>4, <2>2
    <3>2. /\ actions'[i] = Action(m, ReachedTrigger(Len(wps)), "stop")
          /\ events'[i - 1] = Event("Paused", index, index)
      BY <1>3, <3>1 DEF WaypointAdds
    <3>3. UInt16(m) = m
      <4>1. m <= 65535
        BY <1>2, <1>3, <1>14 DEF WaypointAdds
      <4> QED BY <4>1, SmallNumbers
    <3> QED BY <3>1, <3>2, <3>3 DEF Action, Event, TypeOf
  <2> QED BY <2>1, <2>2
<1>17. Good /\ Stops =>
           /\ Len(actions') = m + 1 /\ actions'[m + 1].actuator = "stop"
           /\ actions'[m + 1].trigger = [on |-> "reached", of |-> w, delay |-> 0]
           /\ events'[m].adjoint = index /\ events'[m].type = "Paused"
           /\ pause' = [action |-> m, time |-> Item.wait] /\ shouldWait'
  <2>1. Good => UInt16(w) = w
    <3>1. Good => w <= 65535
      BY <1>14 DEF Good
    <3> QED BY <3>1, SmallNumbers
  <2> QED BY <1>2, <1>3, <2>1 DEF WaypointAdds, Action, ReachedTrigger, Event
<1>18. TablesInv'
  <2>1. (valid => Len(seqs) = Len(wps) /\ Len(held) = Len(wps))'
    BY <1>2, <1>6, <1>7, <1>10, <1>11 DEF IInv, TablesInv
  <2>2. (orderly => \A i \in 1..Len(actions) :
             /\ actions[i].id = i - 1
             /\ events[i - 1].type = TypeOf(actions[i].actuator))'
    <3> SUFFICES ASSUME orderly, NEW i \in 1..Len(actions')
                 PROVE  /\ actions'[i].id = i - 1
                        /\ events'[i - 1].type = TypeOf(actions'[i].actuator)
      BY <1>6
    <3>1. CASE i \in 1..n
      <4>1. actions'[i] = actions[i] /\ events'[i - 1] = events[i - 1]
        BY <1>5, <3>1
      <4> QED BY <1>2, <3>1, <4>1 DEF IInv, TablesInv
    <3>2. CASE i \notin 1..n
      <4>1. i \in (n + 1)..Len(actions')
        BY <1>7, <1>4, <3>2
      <4> QED BY <1>16, <4>1
    <3> QED BY <3>1, <3>2
  <2>3. (orderly /\ state = "convert" =>
            /\ IsOrderly(plan)
            /\ Len(wps) + Len(plan) - index <= 65536
            /\ Len(actions) + 2 * (Len(plan) - index) <= 65536)'
    <3>1. orderly => /\ IsOrderly(plan)
                     /\ w + Len(plan) - index <= 65536
                     /\ n + 2 * (Len(plan) - index) <= 65536
      BY <1>2, <1>6 DEF IInv, TablesInv
    <3>2. IsOrderly(plan) => IsOrderly(plan)'
      <4>1. plan' = plan
        BY <1>6
      <4> QED BY <4>1 DEF IsOrderly
    <3>3. /\ w + 1 + Len(plan) - (index + 1) = w + Len(plan) - index
          /\ Len(actions') + 2 * (Len(plan) - (index + 1)) <=
                 n + 2 * (Len(plan) - index)
          /\ n + 2 * (Len(plan) - index) \in Int
      BY <1>7, <1>4
    <3>4. orderly => Len(actions') + 2 * (Len(plan) - (index + 1)) <= 65536
      BY <1>7, <1>4, <3>1, <3>3
    <3> QED BY <1>6, <1>10, <3>1, <3>2, <3>3, <3>4
  <2> QED BY <2>1, <2>2, <2>3 DEF TablesInv
<1>19. TriggersInv'
  <2> SUFFICES ASSUME Good', NEW i \in 1..Len(actions')
               PROVE  IF actions'[i].trigger.on = "associated"
                      THEN actions'[i].trigger.of = i - 2
                      ELSE /\ actions'[i].trigger.of < Len(wps')
                           /\ actions'[i].actuator # "start"
    BY DEF TriggersInv
  <2>1. CASE i \in 1..n
    <3>1. actions'[i] = actions[i] /\ i \in 1..Len(actions)
      BY <1>5, <2>1
    <3>2. actions[i].trigger.of \in Nat
      BY <1>1, <3>1, ActionTypes
    <3>3. IF actions[i].trigger.on = "associated"
          THEN actions[i].trigger.of = i - 2
          ELSE actions[i].trigger.of < w /\ actions[i].actuator # "start"
      BY <1>2, <1>13, <3>1 DEF IInv, TriggersInv
    <3> QED BY <1>7, <1>10, <3>1, <3>2, <3>3
  <2>2. CASE shouldWait /\ i = n + 1
    BY <1>7, <1>13, <1>15, <2>2
  <2>3. CASE i \notin 1..n /\ ~(shouldWait /\ i = n + 1)
    <3>1. i = m + 1 /\ Stops
      BY <1>7, <1>15, <1>13, <1>4, <2>3
    <3> QED BY <1>7, <1>10, <1>13, <1>17, <3>1
  <2> QED BY <2>1, <2>2, <2>3
<1>20. Good /\ Stops => \E j \in ((index + 1) + 1)..Len(plan) :
           plan[j].cmd \in {"NAV_WAYPOINT", "IMAGE_START_CAPTURE"}
  <2> SUFFICES ASSUME Good, Stops
               PROVE  \E j \in ((index + 1) + 1)..Len(plan) :
                          plan[j].cmd \in {"NAV_WAYPOINT", "IMAGE_START_CAPTURE"}
    OBVIOUS
  <2>1. IsOrderly(plan)
    BY <1>6 DEF IInv, TablesInv, Good
  <2>2. /\ index + 1 \in 1..Len(plan) /\ index + 1 # Len(plan) - 1
        /\ plan[index + 1].cmd = "NAV_WAYPOINT" /\ plan[index + 1].wait # 0
    BY <1>6, <1>7 DEF Stops, Item
  <2> QED BY <2>1, <2>2 DEF IsOrderly
<1>21. ContextInv'
  <2>1. (pause.time <= LongestHold)'
    BY <1>3, <1>6 DEF WaypointAdds, IInv, ContextInv
  <2>2. lastWp' \notin {None, Stale}
    BY <1>6, <1>7 DEF None, Stale
  <2>3. Good' => Len(seqs') > 0 /\ lastWp' = seqs'[Len(seqs')]
    BY <1>6, <1>11
  <2>4. Good' /\ shouldWait' =>
            /\ Len(actions') > 0 /\ actions'[Len(actions')].actuator = "stop"
            /\ pause'.action = Len(actions') - 1
            /\ actions'[Len(actions')].trigger.of = Len(wps') - 1
            /\ pause'.time = held'[Len(wps')]
            /\ \E j \in (index' + 1)..Len(plan') :
                  plan'[j].cmd \in {"NAV_WAYPOINT", "IMAGE_START_CAPTURE"}
    <3> SUFFICES ASSUME Good', shouldWait'
                 PROVE  /\ Len(actions') > 0 /\ actions'[Len(actions')].actuator = "stop"
                        /\ pause'.action = Len(actions') - 1
                        /\ actions'[Len(actions')].trigger.of = Len(wps') - 1
                        /\ pause'.time = held'[Len(wps')]
                        /\ \E j \in (index' + 1)..Len(plan') :
                              plan'[j].cmd \in {"NAV_WAYPOINT", "IMAGE_START_CAPTURE"}
      OBVIOUS
    <3>1. Good /\ Stops
      BY <1>13, <1>4
    <3>2. \E j \in (index' + 1)..Len(plan') :
              plan'[j].cmd \in {"NAV_WAYPOINT", "IMAGE_START_CAPTURE"}
      BY <1>6, <1>20, <3>1
    <3>3. Len(wps') = Len(held) + 1
      BY <1>10, <1>13
    <3>4. Len(actions') = m + 1 /\ (m + 1) - 1 = m /\ m + 1 > 0 /\ w = (w + 1) - 1
      BY <1>17, <3>1
    <3>5. /\ Len(actions') > 0 /\ actions'[Len(actions')].actuator = "stop"
          /\ pause'.action = Len(actions') - 1
          /\ actions'[Len(actions')].trigger.of = Len(wps') - 1
      BY <1>10, <1>17, <3>1, <3>4
    <3>6. pause'.time = held'[Len(wps')]
      BY <1>11, <1>17, <3>1, <3>3
    <3> QED BY <3>2, <3>5, <3>6
  <2> QED BY <2>1, <2>2, <2>3, <2>4 DEF ContextInv
<1>22. StopsInv'
  <2> SUFFICES ASSUME Good', NEW i \in 1..Len(actions')
               PROVE  (/\ actions[i].actuator = "stop" =>
                              /\ actions[i].trigger.on = "reached"
                              /\ \/ IsOpen(i)
                                 \/ GoesOnNext(i, held[actions[i].trigger.of + 1])
                       /\ actions[i].trigger.on = "associated"
                              /\ actions[i].actuator = "photo" =>
                          i > 1 /\ actions[i - 1].actuator = "stop")'
    BY DEF StopsInv
  <2>1. CASE i \in 1..n
    <3>1. /\ actions'[i] = actions[i] /\ i \in 1..Len(actions)
          /\ i > 1 => actions'[i - 1] = actions[i - 1]
      <4>1. i > 1 => i - 1 \in 1..n
        BY <2>1
      <4> QED BY <1>5, <2>1, <4>1
    <3>2. /\ actions[i].actuator = "stop" =>
                 /\ actions[i].trigger.on = "reached"
                 /\ \/ IsOpen(i)
                    \/ GoesOnNext(i, held[actions[i].trigger.of + 1])
          /\ actions[i].trigger.on = "associated" /\ actions[i].actuator = "photo" =>
                 i > 1 /\ actions[i - 1].actuator = "stop"
      BY <1>13, <3>1 DEF IInv, StopsInv
    <3>3. ASSUME actions[i].actuator = "stop"
          PROVE  GoesOnNext(i, held[actions[i].trigger.of + 1])'
      <4>1. actions[i].trigger.of \in 0..(w - 1)
        <5>1. actions[i].trigger.of \in Nat
          BY <1>1, <3>1, ActionTypes
        <5>2. actions[i].trigger.of < w
          BY <1>2, <1>13, <3>1, <3>2, <3>3 DEF IInv, TriggersInv
        <5> QED BY <1>7, <5>1, <5>2
      <4>2. held'[actions'[i].trigger.of + 1] = held[actions[i].trigger.of + 1]
        <5>1. actions[i].trigger.of + 1 \in 1..Len(held)
          BY <1>13, <4>1
        <5>2. \A k \in 1..Len(held) : held'[k] = held[k]
          BY <1>11
        <5> QED BY <3>1, <5>1, <5>2
      <4>3. CASE IsOpen(i)
        <5>1. shouldWait /\ i = n
          BY <1>2, <4>3 DEF IsOpen
        <5>2. held[actions[i].trigger.of + 1] = pause.time
          <6>1. actions[n].trigger.of = w - 1 /\ pause.time = held[w]
            BY <1>2, <1>6, <1>13, <5>1 DEF IInv, ContextInv
          <6> QED BY <1>7, <5>1, <6>1
        <5>3. /\ i < Len(actions') /\ actions'[i + 1].actuator = "start"
              /\ actions'[i + 1].trigger.on = "associated"
              /\ Lasts(actions'[i + 1].trigger.delay, pause.time)
          <6>1. pause.time \in Nat
            BY <1>1 DEF TypeOK
          <6>2. Lasts(Tenths(pause.time), pause.time)
            BY <6>1, TenthsOfHold
          <6> QED BY <1>7, <1>13, <1>15, <1>4, <5>1, <6>2
        <5> QED BY <4>2, <5>2, <5>3 DEF GoesOnNext
      <4>4. CASE GoesOnNext(i, held[actions[i].trigger.of + 1])
        <5>1. /\ i + 1 <= n => actions'[i + 1] = actions[i + 1]
              /\ i + 2 <= n => actions'[i + 2] = actions[i + 2]
              /\ n <= Len(actions')
          <6>1. /\ i + 1 <= n => i + 1 \in 1..n
                /\ i + 2 <= n => i + 2 \in 1..n
            BY <2>1
          <6> QED BY <1>4, <1>5, <6>1
        <5>2. i < Len(actions) => i + 1 <= n /\ i < Len(actions')
          BY <1>2, <5>1
        <5>3. i + 1 < Len(actions) => i + 2 <= n /\ i + 1 < Len(actions')
          BY <1>2, <5>1
        <5> QED BY <4>2, <4>4, <5>1, <5>2, <5>3 DEF GoesOnNext
      <4> QED BY <3>2, <3>3, <4>3, <4>4
    <3> QED BY <3>1, <3>2, <3>3
  <2>2. CASE shouldWait /\ i = n + 1
    BY <1>13, <1>15, <2>2
  <2>3. CASE i \notin 1..n /\ ~(shouldWait /\ i = n + 1)
    <3>1. i = m + 1 /\ Stops
      BY <1>7, <1>15, <1>13, <1>4, <2>3
    <3>2. IsOpen(i)'
      BY <1>6, <1>13, <1>17, <3>1 DEF IsOpen
    <3> QED BY <1>13, <1>17, <3>1, <3>2
  <2> QED BY <2>1, <2>2, <2>3
<1>23. CrashInv'
  BY <1>6 DEF CrashInv
<1>24. PhotosAtTheirWaypoint'
  <2> SUFFICES ASSUME Good', NEW i \in 1..Len(actions'), actions'[i].actuator # "start"
               PROVE  (/\ WaypointOf(i) < Len(seqs)
                       /\ seqs[WaypointOf(i) + 1] = events[i - 1].adjoint
                       /\ actions[i].actuator = "photo" =>
                              \E k \in 1..Len(photoPoints) :
                                  photoPoints[k] = [at   |-> events[i - 1].adjoint,
                                                    item |-> events[i - 1].item])'
    BY DEF PhotosAtTheirWaypoint
  <2>1. CASE i \in 1..n
    <3>1. /\ actions'[i] = actions[i] /\ i \in 1..Len(actions)
          /\ events'[i - 1] = events[i - 1]
      BY <1>5, <2>1
    <3>2. WaypointOf(i)' = WaypointOf(i) /\ WaypointOf(i) \in Nat
      <4>1. \A k \in 1..Len(actions) : actions'[k] = actions[k]
        BY <1>2, <1>5
      <4>2. StopsInv /\ Good /\ actions[i].actuator # "start"
        BY <1>13, <3>1 DEF IInv
      <4> QED BY <1>1, <3>1, <4>1, <4>2, WaypointsOfActions
    <3>3. /\ WaypointOf(i) < Len(seqs)
          /\ seqs[WaypointOf(i) + 1] = events[i - 1].adjoint
          /\ actions[i].actuator = "photo" =>
                 \E k \in 1..Len(photoPoints) :
                     photoPoints[k] = [at   |-> events[i - 1].adjoint,
                                       item |-> events[i - 1].item]
      BY <1>13, <3>1 DEF IInv, PhotosAtTheirWaypoint
    <3>4. seqs'[WaypointOf(i) + 1] = seqs[WaypointOf(i) + 1]
      <4>1. WaypointOf(i) + 1 \in 1..Len(seqs)
        <5>1. Len(seqs) \in Nat
          BY <1>11
        <5> QED BY <3>2, <3>3, <5>1
      <4> QED BY <1>11, <4>1
    <3>5. WaypointOf(i) < Len(seqs') /\ photoPoints' = photoPoints
      BY <1>6, <1>11, <3>2, <3>3
    <3>6. WaypointOf(i)' < Len(seqs') /\ seqs'[WaypointOf(i)' + 1] = events'[i - 1].adjoint
      BY <3>1, <3>2, <3>3, <3>4, <3>5
    <3>7. actions'[i].actuator = "photo" =>
              \E k \in 1..Len(photoPoints') :
                  photoPoints'[k] = [at   |-> events'[i - 1].adjoint,
                                     item |-> events'[i - 1].item]
      BY <3>1, <3>3, <3>5
    <3> QED BY <3>6, <3>7
  <2>2. CASE i \notin 1..n
    <3>1. i = m + 1 /\ Stops
      <4>1. ~(shouldWait /\ i = n + 1)
        BY <1>13, <1>15
      <4> QED BY <1>4, <2>2, <4>1
    <3>2. /\ actions'[i].trigger.on = "reached" /\ actions'[i].trigger.of = w
          /\ actions'[i].actuator = "stop" /\ events'[i - 1].adjoint = index
      BY <1>13, <1>17, <3>1
    <3>3. WaypointOf(i)' = w
      BY <3>2 DEF WaypointOf
    <3> QED BY <1>7, <1>11, <1>13, <3>2, <3>3
  <2> QED BY <2>1, <2>2
<1> QED BY <1>12, <1>18, <1>19, <1>21, <1>22, <1>23, <1>24 DEF IInv

\* A photo: the vehicle takes it while it is stopped and then goes on, or takes
\* it in passing.
LEMMA ConvertPhotoInv == IInv /\ ConvertPhoto => IInv'
<1> SUFFICES ASSUME IInv, ConvertPhoto PROVE IInv'
  OBVIOUS
<1>1. TypeOK
  BY DEF IInv
<1>2. PICK n \in Nat, w \in Nat : n = Len(actions) /\ w = Len(wps)
  BY <1>1 DEF TypeOK
<1>3. PICK wp \in Nat :
          /\ lastWp # Stale => wp = lastWp
          /\ photoPoints' = Append(photoPoints, [at |-> wp, item |-> index])
          /\ PhotoAdds(wp)
  BY <1>1, ConvertPhotoAdds
<1>4. /\ state = "convert" /\ index < Len(plan) /\ Item.cmd = "IMAGE_START_CAPTURE"
      /\ index' = index + 1 /\ shouldWait' = FALSE /\ lastWp # None
      /\ UNCHANGED <<state, count, plan, base, orderly, valid, autoReturn>>
      /\ UNCHANGED <<pause, lastWp, lastHeading, wps, seqs, held>>
  BY DEF ConvertPhoto, Converts, GoesOn, planVars, flagVars
<1>5. /\ index \in Nat /\ Len(plan) \in Nat /\ plan \in Seq(WPMItem)
      /\ photoPoints \in Seq([at : Nat, item : Nat])
      /\ seqs \in Seq(Nat) /\ Len(seqs) \in Nat
  BY <1>1 DEF TypeOK
<1>6. /\ photoPoints' \in Seq([at : Nat, item : Nat])
      /\ Len(photoPoints) \in Nat /\ Len(photoPoints') = Len(photoPoints) + 1
      /\ photoPoints'[Len(photoPoints) + 1] = [at |-> wp, item |-> index]
      /\ \A k \in 1..Len(photoPoints) : photoPoints'[k] = photoPoints[k]
  BY <1>3, <1>5
<1>7. TypeOK'
  <2>1. PassTypes'
    BY <1>1, <1>4, <1>5 DEF TypeOK, PassTypes
  <2>2. MissionTypes'
    BY <1>1, <1>3, <1>4, <1>6 DEF TypeOK, MissionTypes, PhotoAdds
  <2>3. FlagTypes'
    <3>1. UNCHANGED valid /\ UNCHANGED autoReturn /\ UNCHANGED orderly /\ UNCHANGED base
      BY <1>4
    <3>2. shouldWait' = FALSE
      BY <1>4
    <3> QED BY <1>1, <3>1, <3>2, Zenon DEF TypeOK, FlagTypes
  <2> QED BY <2>1, <2>2, <2>3, Zenon DEF TypeOK, PassTypes, MissionTypes, FlagTypes
<1>8. Good' => Good /\ orderly /\ Len(seqs) = w
  BY <1>2, <1>4 DEF IInv, TablesInv, Good
<1>9. orderly => n + 2 <= 65536 /\ w <= 65536
  <2>1. orderly => /\ w + Len(plan) - index <= 65536
                   /\ n + 2 * (Len(plan) - index) <= 65536
    BY <1>2, <1>4 DEF IInv, TablesInv
  <2> QED BY <1>4, <1>5, <2>1
\* There is a waypoint before the photo, and its item is wp.
<1>10. Good => Len(seqs) > 0 /\ wp = seqs[Len(seqs)]
  <2> SUFFICES ASSUME Good PROVE Len(seqs) > 0 /\ wp = seqs[Len(seqs)]
    OBVIOUS
  <2>1. ContextInv /\ TablesInv
    BY DEF IInv
  <2>2. lastWp \notin {None, Stale}
    <3>1. IsOrderly(plan)
      BY <1>4, <2>1 DEF TablesInv, Good
    <3>2. index + 1 \in 1..Len(plan) /\ plan[index + 1].cmd = "IMAGE_START_CAPTURE"
      BY <1>4, <1>5 DEF Item
    <3>3. \E j \in 1..index : plan[j].cmd = "NAV_WAYPOINT"
      <4>1. (index + 1) - 1 = index
        BY <1>5
      <4> QED BY <3>1, <3>2, <4>1 DEF IsOrderly
    <3> QED BY <1>4, <2>1, <3>3 DEF ContextInv
  <2> QED BY <1>3, <1>4, <2>1, <2>2 DEF ContextInv
\* What is added, when the numbers fit.
<1>11. Good /\ shouldWait =>
           /\ n > 0 /\ actions[n].actuator = "stop"
           /\ actions[n].trigger.of = w - 1 /\ w > 0 /\ pause.time = held[w]
           /\ pause.action = n - 1 /\ pause.time \in Nat
           /\ pause.time <= LongestHold
  <2> SUFFICES ASSUME Good, shouldWait
               PROVE  /\ n > 0 /\ actions[n].actuator = "stop"
                      /\ actions[n].trigger.of = w - 1 /\ w > 0
                      /\ pause.time = held[w]
                      /\ pause.action = n - 1 /\ pause.time \in Nat
                      /\ pause.time <= LongestHold
    OBVIOUS
  <2>1. ContextInv /\ TablesInv
    BY DEF IInv
  <2>2. pause.time \in Nat
    BY <1>1 DEF TypeOK
  <2>3. Len(seqs) = w
    BY <1>2, <2>1 DEF TablesInv, Good
  <2> QED BY <1>2, <1>4, <1>10, <2>1, <2>2, <2>3 DEF ContextInv
<1>12. Good /\ shouldWait =>
           /\ Len(actions') = n + 2
           /\ actions'[n + 1].actuator = "photo"
           /\ actions'[n + 1].trigger = [on |-> "associated", of |-> n - 1, delay |-> 20]
           /\ actions'[n + 2].actuator = "start"
           /\ actions'[n + 2].trigger =
                  [on |-> "associated", of |-> n, delay |-> Tenths(Rest(held[w]))]
  <2> SUFFICES ASSUME Good, shouldWait
               PROVE  /\ Len(actions') = n + 2
                      /\ actions'[n + 1].actuator = "photo"
                      /\ actions'[n + 1].trigger =
                             [on |-> "associated", of |-> n - 1, delay |-> 20]
                      /\ actions'[n + 2].actuator = "start"
                      /\ actions'[n + 2].trigger =
                             [on |-> "associated", of |-> n, delay |-> Tenths(Rest(held[w]))]
    OBVIOUS
  <2>1. UInt16(n - 1) = n - 1 /\ UInt16(n) = n
    <3>1. n <= 65535 /\ n - 1 \in Nat /\ n - 1 <= 65535
      BY <1>9, <1>11 DEF Good
    <3> QED BY <3>1, SmallNumbers
  <2>2. /\ UInt8(Tenths(DefaultWait)) = 20
        /\ UInt8(Tenths(Rest(pause.time))) = Tenths(Rest(pause.time))
    <3>1. /\ Tenths(DefaultWait) = 20
          /\ Tenths(Rest(pause.time)) \in Nat /\ Tenths(Rest(pause.time)) <= 255
      BY <1>11, TenthsOfRest
    <3> QED BY <3>1, SmallNumbers
  <2>3. /\ Len(actions') = n + 2
        /\ actions'[n + 1] = Action(n, AssociateTrigger(DefaultWait, pause.action), "photo")
        /\ actions'[n + 2] = Action(n + 1, AssociateTrigger(Rest(pause.time), n), "start")
    BY <1>2, <1>3 DEF PhotoAdds
  <2> QED BY <1>11, <2>1, <2>2, <2>3 DEF Action, AssociateTrigger
<1>13. Good /\ ~shouldWait =>
           /\ Len(actions') = n + 1 /\ w > 0
           /\ actions'[n + 1].actuator = "photo"
           /\ actions'[n + 1].trigger = [on |-> "reached", of |-> w - 1, delay |-> 0]
  <2> SUFFICES ASSUME Good, ~shouldWait
               PROVE  /\ Len(actions') = n + 1 /\ w > 0
                      /\ actions'[n + 1].actuator = "photo"
                      /\ actions'[n + 1].trigger =
                             [on |-> "reached", of |-> w - 1, delay |-> 0]
    OBVIOUS
  <2>1. w > 0
    <3>1. Len(seqs) = w
      BY <1>2 DEF IInv, TablesInv, Good
    <3> QED BY <1>10, <3>1
  <2>2. UInt16(w - 1) = w - 1
    <3>1. w - 1 \in Nat /\ w - 1 <= 65535
      BY <1>9, <2>1 DEF Good
    <3> QED BY <3>1, SmallNumbers
  <2>3. /\ Len(actions') = n + 1
        /\ actions'[n + 1] = Action(n, ReachedTrigger(w - 1), "photo")
    BY <1>2, <1>3 DEF PhotoAdds
  <2> QED BY <2>1, <2>2, <2>3 DEF Action, ReachedTrigger
<1>14. /\ \A i \in 1..n : actions'[i] = actions[i]
       /\ \A i \in 0..(n - 1) : events'[i] = events[i]
       /\ Len(actions') \in (n + 1)..(n + 2)
       /\ events'[n].adjoint = wp /\ events'[n].item = index
  BY <1>2, <1>3 DEF PhotoAdds, Event
<1>15. TablesInv'
  <2>1. (valid => Len(seqs) = Len(wps) /\ Len(held) = Len(wps))'
    BY <1>4 DEF IInv, TablesInv
  <2>2. (orderly => \A i \in 1..Len(actions) :
             /\ actions[i].id = i - 1
             /\ events[i - 1].type = TypeOf(actions[i].actuator))'
    <3> SUFFICES ASSUME orderly, NEW i \in 1..Len(actions')
                 PROVE  /\ actions'[i].id = i - 1
                        /\ events'[i - 1].type = TypeOf(actions'[i].actuator)
      BY <1>4
    <3>1. CASE i \in 1..n
      <4>1. /\ actions'[i] = actions[i] /\ events'[i - 1] = events[i - 1]
            /\ i \in 1..Len(actions)
        BY <1>2, <1>14, <3>1
      <4>2. TablesInv
        BY DEF IInv
      <4> QED BY <4>1, <4>2 DEF TablesInv
    <3>2. CASE i = n + 1
      <4>1. /\ actions'[n + 1].id = UInt16(n) /\ actions'[n + 1].actuator = "photo"
            /\ events'[n].type = "TakenPhoto"
        BY <1>2, <1>3 DEF PhotoAdds, Action, Event
      <4>2. n <= 65535
        BY <1>9
      <4>3. UInt16(n) = n
        BY <4>2, SmallNumbers
      <4> QED BY <3>2, <4>1, <4>3 DEF TypeOf
    <3>3. CASE i = n + 2
      <4>1. shouldWait
        BY <1>2, <1>3, <3>3 DEF PhotoAdds
      <4>2. /\ actions'[n + 2].id = UInt16(n + 1) /\ actions'[n + 2].actuator = "start"
            /\ events'[n + 1].type = "Resumed"
        BY <1>2, <1>3, <4>1 DEF PhotoAdds, Action, Event
      <4>3. n + 1 <= 65535
        BY <1>9
      <4>4. UInt16(n + 1) = n + 1
        BY <4>3, SmallNumbers
      <4> QED BY <3>3, <4>2, <4>4 DEF TypeOf
    <3> QED BY <1>14, <3>1, <3>2, <3>3
  <2>3. (orderly /\ state = "convert" =>
            /\ IsOrderly(plan)
            /\ Len(wps) + Len(plan) - index <= 65536
            /\ Len(actions) + 2 * (Len(plan) - index) <= 65536)'
    <3>1. orderly => /\ IsOrderly(plan)
                     /\ w + Len(plan) - index <= 65536
                     /\ n + 2 * (Len(plan) - index) <= 65536
      BY <1>2, <1>4 DEF IInv, TablesInv
    <3>2. IsOrderly(plan) => IsOrderly(plan)'
      <4>1. plan' = plan
        BY <1>4
      <4> QED BY <4>1 DEF IsOrderly
    <3>3. /\ Len(wps') = w /\ Len(plan') = Len(plan) /\ index' = index + 1
          /\ Len(plan) \in Nat /\ index \in Nat /\ Len(actions') \in Nat
          /\ Len(actions') <= n + 2 /\ n \in Nat /\ w \in Nat
          /\ orderly' = orderly
      <4>1. Len(wps') = w /\ Len(plan') = Len(plan)
        BY ONLY <1>2, <1>4
      <4>2. Len(actions') \in Nat /\ Len(actions') <= n + 2
        BY ONLY <1>2, <1>14
      <4> QED BY ONLY <1>2, <1>4, <1>5, <4>1, <4>2
    <3> QED BY ONLY <3>1, <3>2, <3>3
  <2> QED BY <2>1, <2>2, <2>3 DEF TablesInv
<1>16. TriggersInv'
  <2> SUFFICES ASSUME Good', NEW i \in 1..Len(actions')
               PROVE  IF actions'[i].trigger.on = "associated"
                      THEN actions'[i].trigger.of = i - 2
                      ELSE /\ actions'[i].trigger.of < Len(wps')
                           /\ actions'[i].actuator # "start"
    BY DEF TriggersInv
  <2>1. CASE i \in 1..n
    <3>1. actions'[i] = actions[i] /\ i \in 1..Len(actions) /\ wps' = wps
      BY <1>2, <1>4, <1>14, <2>1
    <3>2. TriggersInv
      BY DEF IInv
    <3> QED BY <1>8, <3>1, <3>2 DEF TriggersInv
  <2>2. CASE shouldWait /\ i \notin 1..n
    <3>1. i = n + 1 \/ i = n + 2
      BY <1>14, <2>2
    <3> QED BY <1>8, <1>12, <2>2, <3>1
  <2>3. CASE ~shouldWait /\ i \notin 1..n
    <3>1. i = n + 1 /\ Len(wps') = w
      BY <1>2, <1>4, <1>8, <1>13, <1>14, <2>3
    <3> QED BY <1>8, <1>13, <2>3, <3>1
  <2> QED BY <2>1, <2>2, <2>3
<1>17. ContextInv'
  <2>1. ContextInv
    BY DEF IInv
  <2>2. (pause.time <= LongestHold)'
    BY <1>4, <2>1 DEF ContextInv
  <2>3. (state = "convert" /\ lastWp \in {None, Stale} =>
            \A j \in 1..index : plan[j].cmd # "NAV_WAYPOINT")'
    <3>1. \A j \in 1..(index + 1) : j \in 1..index \/ j = index + 1
      BY <1>5
    <3>2. plan[index + 1].cmd # "NAV_WAYPOINT"
      BY <1>4 DEF Item
    <3> QED BY <1>4, <2>1, <3>1, <3>2 DEF ContextInv
  <2>4. Good' => \/ Len(seqs') > 0 /\ lastWp' = seqs'[Len(seqs')]
                 \/ lastWp' = Stale
    BY <1>3, <1>4, <1>8, <1>10
  <2>5. lastWp' = seqs'[Len(seqs')] \/ lastWp' \in {None, Stale} \/ ~Good'
    BY <2>4
  <2>6. Good' => Len(seqs') > 0
    BY <1>4, <1>8, <1>10
  <2> QED BY <1>4, <2>2, <2>3, <2>5, <2>6 DEF ContextInv
<1>18. StopsInv'
  <2> SUFFICES ASSUME Good', NEW i \in 1..Len(actions')
               PROVE  (/\ actions[i].actuator = "stop" =>
                              /\ actions[i].trigger.on = "reached"
                              /\ \/ IsOpen(i)
                                 \/ GoesOnNext(i, held[actions[i].trigger.of + 1])
                       /\ actions[i].trigger.on = "associated"
                              /\ actions[i].actuator = "photo" =>
                          i > 1 /\ actions[i - 1].actuator = "stop")'
    BY DEF StopsInv
  <2>1. CASE i \in 1..n
    <3>1. /\ actions'[i] = actions[i] /\ i \in 1..Len(actions) /\ held' = held
          /\ i > 1 => actions'[i - 1] = actions[i - 1]
      BY <1>2, <1>4, <1>14, <2>1
    <3>2. /\ actions[i].actuator = "stop" =>
                 /\ actions[i].trigger.on = "reached"
                 /\ \/ IsOpen(i)
                    \/ GoesOnNext(i, held[actions[i].trigger.of + 1])
          /\ actions[i].trigger.on = "associated" /\ actions[i].actuator = "photo" =>
                 i > 1 /\ actions[i - 1].actuator = "stop"
      BY <1>8, <3>1 DEF IInv, StopsInv
    <3>3. ASSUME actions[i].actuator = "stop"
          PROVE  GoesOnNext(i, held[actions[i].trigger.of + 1])'
      <4>1. CASE IsOpen(i)
        <5>1. shouldWait /\ i = n
          BY <1>2, <4>1 DEF IsOpen
        <5>2. /\ (n + 1) + 1 = n + 2 /\ n < n + 2 /\ n + 1 < n + 2
              /\ (w - 1) + 1 = w
          OBVIOUS
        <5>3. held'[actions'[i].trigger.of + 1] = held[w]
          BY <1>8, <1>11, <3>1, <5>1, <5>2
        <5>4. Lasts(20 + Tenths(Rest(held[w])), WithPhoto(held[w]))
          BY <1>8, <1>11, <5>1, TenthsOfRest
        <5> QED BY <1>8, <1>12, <5>1, <5>2, <5>3, <5>4 DEF GoesOnNext
      <4>2. CASE GoesOnNext(i, held[actions[i].trigger.of + 1])
        <5>1. /\ i + 1 <= n => actions'[i + 1] = actions[i + 1]
              /\ i + 2 <= n => actions'[i + 2] = actions[i + 2]
              /\ n <= Len(actions')
          BY <1>14, <2>1
        <5>2. i < Len(actions) => i + 1 <= n /\ i < Len(actions')
          BY <1>2, <5>1
        <5>3. i + 1 < Len(actions) => i + 2 <= n /\ i + 1 < Len(actions')
          BY <1>2, <5>1
        <5> QED BY <3>1, <4>2, <5>1, <5>2, <5>3 DEF GoesOnNext
      <4> QED BY <3>2, <3>3, <4>1, <4>2
    <3> QED BY <3>1, <3>2, <3>3
  <2>2. CASE shouldWait /\ i \notin 1..n
    <3>1. i = n + 1 \/ i = n + 2
      BY <1>14, <2>2
    <3>2. n > 0 /\ actions'[n].actuator = "stop" /\ (n + 1) - 1 = n
      <4>1. n > 0 /\ actions[n].actuator = "stop" /\ n \in 1..n
        BY <1>8, <1>11, <2>2
      <4> QED BY <1>14, <4>1
    <3> QED BY <1>8, <1>12, <2>2, <3>1, <3>2
  <2>3. CASE ~shouldWait /\ i \notin 1..n
    <3>1. i = n + 1
      BY <1>8, <1>13, <1>14, <2>3
    <3> QED BY <1>8, <1>13, <2>3, <3>1
  <2> QED BY <2>1, <2>2, <2>3
<1>19. CrashInv'
  BY <1>4 DEF CrashInv
<1>20. PhotosAtTheirWaypoint'
  <2> SUFFICES ASSUME Good', NEW i \in 1..Len(actions'), actions'[i].actuator # "start"
               PROVE  (/\ WaypointOf(i) < Len(seqs)
                       /\ seqs[WaypointOf(i) + 1] = events[i - 1].adjoint
                       /\ actions[i].actuator = "photo" =>
                              \E k \in 1..Len(photoPoints) :
                                  photoPoints[k] = [at   |-> events[i - 1].adjoint,
                                                    item |-> events[i - 1].item])'
    BY DEF PhotosAtTheirWaypoint
  <2>1. CASE i \in 1..n
    <3>1. /\ actions'[i] = actions[i] /\ i \in 1..Len(actions)
          /\ events'[i - 1] = events[i - 1] /\ seqs' = seqs
      BY <1>2, <1>4, <1>14, <2>1
    <3>2. WaypointOf(i)' = WaypointOf(i)
      BY <1>1, <1>2, <1>8, <1>14, <3>1, WaypointsOfActions DEF IInv
    <3>3. /\ WaypointOf(i) < Len(seqs)
          /\ seqs[WaypointOf(i) + 1] = events[i - 1].adjoint
          /\ actions[i].actuator = "photo" =>
                 \E k \in 1..Len(photoPoints) :
                     photoPoints[k] = [at   |-> events[i - 1].adjoint,
                                       item |-> events[i - 1].item]
      BY <1>8, <3>1 DEF IInv, PhotosAtTheirWaypoint
    <3>4. actions'[i].actuator = "photo" =>
              \E k \in 1..Len(photoPoints') :
                  photoPoints'[k] = [at   |-> events'[i - 1].adjoint,
                                     item |-> events'[i - 1].item]
      <4>1. \A k \in 1..Len(photoPoints) :
                k \in 1..Len(photoPoints') /\ photoPoints'[k] = photoPoints[k]
        BY ONLY <1>6
      <4> QED BY <3>1, <3>3, <4>1
    <3> QED BY <3>1, <3>2, <3>3, <3>4
  <2>2. CASE i \notin 1..n
    <3>1. i = n + 1
      <4>1. i = n + 1 \/ i = n + 2
        BY <1>14, <2>2
      <4>2. CASE shouldWait
        BY <1>8, <1>12, <4>1, <4>2
      <4>3. CASE ~shouldWait
        BY <1>8, <1>13, <4>1, <4>3
      <4> QED BY <4>2, <4>3
    <3>2. WaypointOf(i)' = w - 1 /\ w > 0
      <4>1. CASE shouldWait
        <5>1. actions'[i - 1] = actions[n] /\ actions'[i].trigger.on = "associated"
          BY <1>8, <1>11, <1>12, <1>14, <3>1, <4>1
        <5> QED BY <1>8, <1>11, <4>1, <5>1 DEF WaypointOf
      <4>2. CASE ~shouldWait
        BY <1>8, <1>13, <3>1, <4>2 DEF WaypointOf
      <4> QED BY <4>1, <4>2
    <3>3. /\ w - 1 < Len(seqs) /\ seqs'[(w - 1) + 1] = events'[i - 1].adjoint
          /\ seqs' = seqs
      BY <1>4, <1>8, <1>10, <1>14, <3>1
    <3>4. \E k \in 1..Len(photoPoints') :
              photoPoints'[k] = [at   |-> events'[i - 1].adjoint,
                                 item |-> events'[i - 1].item]
      <4>1. i - 1 = n /\ Len(photoPoints) + 1 \in 1..Len(photoPoints')
        BY <1>6, <3>1
      <4> QED BY <1>6, <1>14, <4>1
    <3> QED BY <3>2, <3>3, <3>4
  <2> QED BY <2>1, <2>2
<1> QED BY <1>7, <1>15, <1>16, <1>17, <1>18, <1>19, <1>20 DEF IInv

-----------------------------------------------------------------------------
(* The theorems.                                                           *)

\* No step breaks the invariant.
LEMMA NextInv == IInv /\ [Next]_vars => IInv'
<1> SUFFICES ASSUME IInv, [Next]_vars PROVE IInv'
  OBVIOUS
<1>1. CASE OpenProxy
  BY <1>1, OpenProxyInv
<1>2. CASE \E p \in Plans : Interpret(p)
  BY <1>2, InterpretInv
<1>3. CASE Skip
  BY <1>3, SkipInv
<1>4. CASE ConvertWaypoint
  BY <1>4, ConvertWaypointInv
<1>5. CASE WaitTimeTooLong \/ UnsupportPhotoTimes
  BY <1>5, FailureInv
<1>6. CASE ConvertPhoto
  BY <1>6, ConvertPhotoInv
<1>7. CASE NoLastWp
  BY <1>7, NoLastWpInv
<1>8. CASE Succeed
  BY <1>8, SucceedInv
<1>9. CASE UNCHANGED vars
  <2>1. /\ UNCHANGED state /\ UNCHANGED index /\ UNCHANGED contextVars
        /\ UNCHANGED missionVars /\ UNCHANGED flagVars /\ UNCHANGED planVars
    BY <1>9 DEF vars
  <2>2. TypeOK' /\ TablesInv' /\ TriggersInv' /\ ContextInv' /\ CrashInv'
    BY <2>1 DEF contextVars, missionVars, flagVars, planVars, IInv, TypeOK,
        TablesInv, TriggersInv, ContextInv, CrashInv, Good, IsOrderly
  <2>3. StopsInv'
    BY <2>1 DEF contextVars, missionVars, flagVars, planVars, IInv, StopsInv,
        Good, IsOpen, GoesOnNext
  <2>4. PhotosAtTheirWaypoint'
    BY <2>1 DEF contextVars, missionVars, flagVars, planVars, IInv,
        PhotosAtTheirWaypoint, Good, WaypointOf
  <2> QED BY <2>2, <2>3, <2>4 DEF IInv
<1> QED BY <1>1, <1>2, <1>3, <1>4, <1>5, <1>6, <1>7, <1>8, <1>9 DEF Next, Done

\* The inductive invariant: the types, that the tables have what the actions are,
\* that triggers point to the action before or to a waypoint there is, what the
\* context knows of an open stop, and what ends the others (interpret).
THEOREM InterpreterInvariant == Spec => []IInv
<1>1. Init => IInv
  BY InitInv
<1>2. IInv /\ [Next]_vars => IInv'
  BY NextInv
<1> QED BY <1>1, <1>2, PTL DEF Spec

\* Triggers point to the action before: only the next one follows an action.
LEMMA OnlyTheNextFollows ==
    ASSUME IInv, Good, NEW i \in 1..Len(actions), i < Len(actions),
           actions[i + 1].trigger.on = "associated"
    PROVE  \A k \in 1..Len(actions) : Follows(k, i) <=> k = i + 1
<1> SUFFICES ASSUME NEW k \in 1..Len(actions) PROVE Follows(k, i) <=> k = i + 1
  OBVIOUS
<1>1. Len(actions) \in Nat
  BY DEF IInv, TypeOK
<1>2. actions[i].id = i - 1 /\ i + 1 \in 1..Len(actions)
  BY <1>1 DEF IInv, TablesInv, Good
<1>3. \A j \in 1..Len(actions) :
          actions[j].trigger.on = "associated" => actions[j].trigger.of = j - 2
  BY DEF IInv, TriggersInv
<1>4. actions[i + 1].trigger.of = (i + 1) - 2
  BY <1>2, <1>3
<1>5. Follows(k, i) => k = i + 1
  <2>1. Follows(k, i) => k - 2 = i - 1
    BY <1>2, <1>3 DEF Follows
  <2> QED BY <1>1, <2>1
<1>6. Follows(i + 1, i)
  BY <1>1, <1>2, <1>4 DEF Follows
<1> QED BY <1>5, <1>6

LEMMA StopsAreResumed == IInv => PausesEnd
<1> SUFFICES ASSUME IInv, state = "idle", Good, NEW i \in 1..Len(actions),
                    actions[i].actuator = "stop"
             PROVE  IsResumed(i, held[actions[i].trigger.of + 1])
  BY DEF PausesEnd
<1> DEFINE time == held[actions[i].trigger.of + 1]
<1>1. Len(actions) \in Nat
  BY DEF IInv, TypeOK
<1>2. GoesOnNext(i, time)
  BY DEF IInv, StopsInv, IsOpen
<1> HIDE DEF time
<1>3. /\ i < Len(actions) /\ i + 1 \in 1..Len(actions)
      /\ actions[i + 1].trigger.on = "associated"
  BY <1>1, <1>2 DEF GoesOnNext
<1>4. \A k \in 1..Len(actions) : Follows(k, i) <=> k = i + 1
  BY <1>3, OnlyTheNextFollows
<1>5. CASE /\ actions[i + 1].actuator = "start"
           /\ Lasts(actions[i + 1].trigger.delay, time)
  BY <1>3, <1>4, <1>5 DEF IsResumed, time
<1>6. CASE ~(/\ actions[i + 1].actuator = "start"
             /\ Lasts(actions[i + 1].trigger.delay, time))
  <2>1. /\ actions[i + 1].actuator = "photo"
        /\ i + 1 < Len(actions) /\ actions[i + 2].trigger.on = "associated"
        /\ actions[i + 2].actuator = "start"
        /\ Lasts(actions[i + 1].trigger.delay + actions[i + 2].trigger.delay,
                 WithPhoto(time))
    BY <1>2, <1>6 DEF GoesOnNext
  <2>2. (i + 1) + 1 = i + 2 /\ i + 2 \in 1..Len(actions)
    BY <1>1, <2>1
  <2>3. \A k \in 1..Len(actions) : Follows(k, i + 1) <=> k = i + 2
    BY <1>3, <2>1, <2>2, OnlyTheNextFollows
  <2> QED BY <1>3, <1>4, <2>1, <2>2, <2>3 DEF IsResumed, time
<1> QED BY <1>5, <1>6

\* A mission converted from orderly plans never leaves the vehicle hovering: every
\* stop has one action that lets it go on, itself or after a photo, when the hold
\* time, cut off to tenths, has passed, or two seconds if there is a photo.
THEOREM EveryPauseEnds == Spec => []PausesEnd
<1>1. IInv => PausesEnd
  BY StopsAreResumed
<1> QED BY <1>1, InterpreterInvariant, PTL

\* What is told of a photo or a stop names the waypoint where the vehicle does it.
THEOREM EventsNameTheirWaypoint == Spec => []PhotosAtTheirWaypoint
<1>1. IInv => PhotosAtTheirWaypoint
  BY DEF IInv
<1> QED BY <1>1, InterpreterInvariant, PTL

-----------------------------------------------------------------------------
(* The mission is the plan.                                                *)

\* An item that adds nothing to a list is none of its kind.
LEMMA OrderKept ==
    ASSUME NEW f, NEW g, NEW cmd, NEW n \in Nat, InPlanOrder(f, cmd, n),
           DOMAIN g = DOMAIN f, \A i \in DOMAIN f : g[i] = f[i],
           plan[n + 1].cmd # cmd
    PROVE  InPlanOrder(g, cmd, n + 1)
<1>1. \A s \in 0..((n + 1) - 1) : s \in 0..(n - 1) \/ s = n
  OBVIOUS
<1>2. \A s \in 0..(n - 1) : s \in 0..((n + 1) - 1)
  OBVIOUS
<1> QED BY <1>1, <1>2 DEF InPlanOrder

\* An item of its kind goes to the end of the list.
LEMMA OrderExtended ==
    ASSUME NEW f, NEW g, NEW cmd, NEW n \in Nat, NEW d \in Int,
           InPlanOrder(f, cmd, n), plan[n + 1].cmd = cmd,
           DOMAIN f \subseteq Int, \A i \in DOMAIN f : i < d,
           DOMAIN g = DOMAIN f \cup {d}, \A i \in DOMAIN f : g[i] = f[i], g[d] = n
    PROVE  InPlanOrder(g, cmd, n + 1)
<1>1. \A s \in 0..((n + 1) - 1) : s \in 0..(n - 1) \/ s = n
  OBVIOUS
<1>2. \A s \in 0..(n - 1) : s \in 0..((n + 1) - 1) /\ s < n
  OBVIOUS
<1>3. n \in 0..((n + 1) - 1)
  OBVIOUS
<1>4. ASSUME NEW i \in DOMAIN g
      PROVE  g[i] \in 0..((n + 1) - 1) /\ plan[g[i] + 1].cmd = cmd
  BY <1>2, <1>3, <1>4 DEF InPlanOrder
<1>5. ASSUME NEW i \in DOMAIN g, NEW j \in DOMAIN g, i < j PROVE g[i] < g[j]
  <2>1. i \in DOMAIN f
    <3>1. CASE i = d
      <4>1. j \in DOMAIN f \/ j = d
        BY <1>5
      <4>2. ~(d < j)
        BY <4>1
      <4> QED BY <1>5, <3>1, <4>2
    <3> QED BY <1>5, <3>1
  <2>2. CASE j \in DOMAIN f
    BY <1>5, <2>1, <2>2 DEF InPlanOrder
  <2>3. CASE j = d
    <3>1. f[i] \in 0..(n - 1)
      BY <2>1 DEF InPlanOrder
    <3> QED BY <1>2, <2>1, <2>3, <3>1
  <2> QED BY <1>5, <2>2, <2>3
<1>6. ASSUME NEW s \in 0..((n + 1) - 1), plan[s + 1].cmd = cmd
      PROVE  \E i \in DOMAIN g : g[i] = s
  BY <1>1, <1>6 DEF InPlanOrder
<1> QED BY <1>4, <1>5, <1>6 DEF InPlanOrder

\* What the step of the pass has to show of the two lists.
LEMMA PassStep ==
    ASSUME index' = index + 1, plan' = plan,
           InPlanOrder(NewWaypoints', "NAV_WAYPOINT", index + 1),
           InPlanOrder(NewPhotos', "IMAGE_START_CAPTURE", index + 1),
           InPlanOrder(NewPoints', "IMAGE_START_CAPTURE", index + 1),
           IsFlown'
    PROVE  Converted(index)'
BY DEF Converted, InPlanOrder

\* A photo is flown where a photo is told, also among the actions that are added.
LEMMA PhotosFlown ==
    ASSUME NEW n \in Nat, n = Len(actions), Len(actions') \in Nat, n <= Len(actions'),
           base.actions \in Nat, base' = base, IsFlown,
           \A i \in 1..n : actions'[i] = actions[i],
           \A i \in 0..(n - 1) : events'[i] = events[i],
           \A i \in n..(Len(actions') - 1) :
               actions'[i + 1].actuator = "photo" <=> events'[i].type = "TakenPhoto"
    PROVE  \A i \in base.actions'..(Len(actions') - 1) :
               actions'[i + 1].actuator = "photo" <=> events'[i].type = "TakenPhoto"
<1> SUFFICES ASSUME NEW i \in base.actions'..(Len(actions') - 1)
             PROVE  actions'[i + 1].actuator = "photo" <=> events'[i].type = "TakenPhoto"
  OBVIOUS
<1>1. base.actions' = base.actions
  OBVIOUS
<1>2. i \in n..(Len(actions') - 1) \/ i \in base.actions..(n - 1)
  BY <1>1
<1>3. CASE i \in base.actions..(n - 1)
  <2>1. i + 1 \in 1..n /\ i \in 0..(n - 1)
    BY <1>3
  <2>2. actions[i + 1].actuator = "photo" <=> events[i].type = "TakenPhoto"
    BY <1>3 DEF IsFlown
  <2> QED BY <2>1, <2>2
<1> QED BY <1>2, <1>3

\* The waypoint that is added has the item's heading.
LEMMA WaypointsFlown ==
    ASSUME seqs \in Seq(Nat), wps \in Seq(WaypointV2), NEW s \in Nat, NEW w,
           seqs' = Append(seqs, s), wps' = Append(wps, w), wps' \in Seq(WaypointV2),
           base.wps \in Nat, base' = base, plan' = plan, IsFlown,
           w.heading = NomoralizeYawAngle(plan[s + 1].yaw)
    PROVE  /\ Len(wps') = Len(seqs')
           /\ \A k \in (base.wps' + 1)..Len(seqs') :
                  wps'[k].heading = NomoralizeYawAngle(plan'[seqs'[k] + 1].yaw)
<1> DEFINE n == Len(seqs)
<1>1. /\ n \in Nat /\ Len(seqs') = n + 1 /\ seqs'[n + 1] = s
      /\ \A k \in 1..n : seqs'[k] = seqs[k]
  OBVIOUS
<1>2. Len(wps) = n
  BY DEF IsFlown
<1>3. /\ Len(wps') = n + 1 /\ wps'[n + 1] = w
      /\ \A k \in 1..n : wps'[k] = wps[k]
  <2>1. /\ Len(wps') = Len(wps) + 1 /\ wps'[Len(wps) + 1] = w
        /\ \A k \in 1..Len(wps) : wps'[k] = wps[k]
    BY DEF WaypointV2
  <2> QED BY <1>2, <2>1
<1>4. \A k \in (base.wps + 1)..n :
          wps[k].heading = NomoralizeYawAngle(plan[seqs[k] + 1].yaw)
  BY DEF IsFlown
<1> HIDE DEF n
<1>5. \A k \in (base.wps + 1)..(n + 1) :
          k = n + 1 \/ (k \in (base.wps + 1)..n /\ k \in 1..n)
  BY <1>1
<1>6. base.wps' = base.wps
  OBVIOUS
<1> QED BY <1>1, <1>3, <1>4, <1>5, <1>6

\* Photos stay where they are when actions are added ...
LEMMA PhotosStay ==
    ASSUME NEW n \in Nat, n = Len(actions), Len(actions') \in Nat, n <= Len(actions'),
           base.actions \in Nat, base' = base, base.actions <= n,
           \A i \in 0..(n - 1) : events'[i] = events[i],
           \A i \in n..(Len(actions') - 1) : events'[i].type # "TakenPhoto"
    PROVE  /\ DOMAIN NewPhotos' = DOMAIN NewPhotos
           /\ \A i \in DOMAIN NewPhotos : NewPhotos'[i] = NewPhotos[i]
<1>1. \A i \in base.actions..(Len(actions') - 1) :
          i \in base.actions..(n - 1) \/ i \in n..(Len(actions') - 1)
  OBVIOUS
<1>2. \A i \in base.actions..(n - 1) :
          i \in base.actions..(Len(actions') - 1) /\ i \in 0..(n - 1)
  OBVIOUS
<1> QED BY <1>1, <1>2 DEF NewPhotos

\* ... and the one that is added comes last.
LEMMA PhotoComesLast ==
    ASSUME NEW n \in Nat, n = Len(actions), Len(actions') \in Nat, n < Len(actions'),
           base.actions \in Nat, base' = base, base.actions <= n,
           \A i \in 0..(n - 1) : events'[i] = events[i],
           events'[n].type = "TakenPhoto",
           \A i \in (n + 1)..(Len(actions') - 1) : events'[i].type # "TakenPhoto"
    PROVE  /\ DOMAIN NewPhotos \subseteq Int /\ \A i \in DOMAIN NewPhotos : i < n
           /\ DOMAIN NewPhotos' = DOMAIN NewPhotos \cup {n}
           /\ \A i \in DOMAIN NewPhotos : NewPhotos'[i] = NewPhotos[i]
           /\ NewPhotos'[n] = events'[n].item
<1>1. \A i \in base.actions..(Len(actions') - 1) :
          i \in base.actions..(n - 1) \/ i = n \/ i \in (n + 1)..(Len(actions') - 1)
  OBVIOUS
<1>2. \A i \in base.actions..(n - 1) :
          /\ i \in base.actions..(Len(actions') - 1)
          /\ i \in 0..(n - 1) /\ i < n /\ i \in Int
  OBVIOUS
<1>3. n \in base.actions..(Len(actions') - 1)
  OBVIOUS
<1> QED BY <1>1, <1>2, <1>3 DEF NewPhotos

\* Waypoints stay, or the next one comes last.
LEMMA WaypointsStay ==
    ASSUME seqs' = seqs, base' = base
    PROVE  /\ DOMAIN NewWaypoints' = DOMAIN NewWaypoints
           /\ \A k \in DOMAIN NewWaypoints : NewWaypoints'[k] = NewWaypoints[k]
BY DEF NewWaypoints

LEMMA WaypointComesLast ==
    ASSUME seqs \in Seq(Nat), NEW s \in Nat, seqs' = Append(seqs, s),
           base.wps \in Nat, base' = base, base.wps <= Len(seqs)
    PROVE  /\ DOMAIN NewWaypoints \subseteq Int
           /\ \A k \in DOMAIN NewWaypoints : k < Len(seqs) + 1
           /\ DOMAIN NewWaypoints' = DOMAIN NewWaypoints \cup {Len(seqs) + 1}
           /\ \A k \in DOMAIN NewWaypoints : NewWaypoints'[k] = NewWaypoints[k]
           /\ NewWaypoints'[Len(seqs) + 1] = s
           /\ Len(seqs) \in Nat /\ Len(seqs') = Len(seqs) + 1
<1>1. /\ Len(seqs) \in Nat /\ Len(seqs') = Len(seqs) + 1
      /\ seqs'[Len(seqs) + 1] = s /\ \A k \in 1..Len(seqs) : seqs'[k] = seqs[k]
  OBVIOUS
<1>2. \A k \in (base.wps + 1)..(Len(seqs) + 1) :
          k \in (base.wps + 1)..Len(seqs) \/ k = Len(seqs) + 1
  BY <1>1
<1>3. \A k \in (base.wps + 1)..Len(seqs) :
          /\ k \in (base.wps + 1)..(Len(seqs) + 1) /\ k \in 1..Len(seqs)
          /\ k < Len(seqs) + 1 /\ k \in Int
  BY <1>1
<1>4. Len(seqs) + 1 \in (base.wps + 1)..(Len(seqs) + 1)
  BY <1>1
<1> QED BY <1>1, <1>2, <1>3, <1>4 DEF NewWaypoints

\* So do the photo points.
LEMMA PointsStay ==
    ASSUME photoPoints' = photoPoints, base' = base
    PROVE  /\ DOMAIN NewPoints' = DOMAIN NewPoints
           /\ \A k \in DOMAIN NewPoints : NewPoints'[k] = NewPoints[k]
BY DEF NewPoints

LEMMA PointComesLast ==
    ASSUME NEW T, photoPoints \in Seq(T), NEW p \in T,
           photoPoints' = Append(photoPoints, p),
           base.points \in Nat, base' = base, base.points <= Len(photoPoints)
    PROVE  /\ DOMAIN NewPoints \subseteq Int
           /\ \A k \in DOMAIN NewPoints : k < Len(photoPoints) + 1
           /\ DOMAIN NewPoints' = DOMAIN NewPoints \cup {Len(photoPoints) + 1}
           /\ \A k \in DOMAIN NewPoints : NewPoints'[k] = NewPoints[k]
           /\ NewPoints'[Len(photoPoints) + 1] = p.item
           /\ Len(photoPoints) \in Nat /\ Len(photoPoints') = Len(photoPoints) + 1
<1>1. /\ Len(photoPoints) \in Nat /\ Len(photoPoints') = Len(photoPoints) + 1
      /\ photoPoints'[Len(photoPoints) + 1] = p
      /\ \A k \in 1..Len(photoPoints) : photoPoints'[k] = photoPoints[k]
  OBVIOUS
<1>2. \A k \in (base.points + 1)..(Len(photoPoints) + 1) :
          k \in (base.points + 1)..Len(photoPoints) \/ k = Len(photoPoints) + 1
  BY <1>1
<1>3. \A k \in (base.points + 1)..Len(photoPoints) :
          /\ k \in (base.points + 1)..(Len(photoPoints) + 1)
          /\ k \in 1..Len(photoPoints)
          /\ k < Len(photoPoints) + 1 /\ k \in Int
  BY <1>1
<1>4. Len(photoPoints) + 1 \in (base.points + 1)..(Len(photoPoints) + 1)
  BY <1>1
<1> QED BY <1>1, <1>2, <1>3, <1>4 DEF NewPoints

\* What a step of the pass over a valid plan starts from.
LEMMA PassFrom ==
    ASSUME IInv, PassInv, valid, base.here, state = "convert"
    PROVE  /\ base.wps \in Nat /\ base.actions \in Nat /\ index \in Nat
           /\ Len(actions) \in Nat /\ Len(seqs) \in Nat /\ seqs \in Seq(Nat)
           /\ base.points \in Nat
           /\ base.wps <= Len(seqs) /\ base.actions <= Len(actions)
           /\ base.points <= Len(photoPoints)
           /\ InPlanOrder(NewWaypoints, "NAV_WAYPOINT", index)
           /\ InPlanOrder(NewPhotos, "IMAGE_START_CAPTURE", index)
           /\ InPlanOrder(NewPoints, "IMAGE_START_CAPTURE", index)
           /\ IsFlown
<1>1. MissionTypes /\ FlagTypes /\ PassTypes
  BY TypeParts DEF IInv
<1>2. base.wps \in Nat /\ base.actions \in Nat /\ base.points \in Nat
  BY <1>1 DEF FlagTypes
<1>3. Len(actions) \in Nat /\ Len(seqs) \in Nat /\ seqs \in Seq(Nat) /\ index \in Nat
  BY <1>1 DEF MissionTypes, PassTypes
<1> QED BY <1>2, <1>3 DEF PassInv, Converted

\* A waypoint is added to the waypoints, and no photo.
LEMMA WaypointPass ==
    ASSUME IInv, PassInv, ConvertWaypoint
    PROVE  PassInv'
<1> SUFFICES ASSUME valid', base'.here, state' # "crashed"
             PROVE  /\ base.wps' <= Len(seqs)' /\ base.actions' <= Len(actions)'
                    /\ base.points' <= Len(photoPoints)'
                    /\ Converted(index)' /\ state' # "idle"
  BY DEF PassInv
<1>1. /\ state = "convert" /\ state' = state /\ valid' = valid /\ base' = base
      /\ index' = index + 1 /\ plan' = plan /\ seqs' = Append(seqs, index)
      /\ photoPoints' = photoPoints /\ plan[index + 1].cmd = "NAV_WAYPOINT"
  BY DEF ConvertWaypoint, Converts, Item, GoesOn, planVars, flagVars
<1> DEFINE n == Len(actions)
<1>2. /\ base.wps \in Nat /\ base.actions \in Nat /\ index \in Nat
      /\ n \in Nat /\ Len(seqs) \in Nat /\ seqs \in Seq(Nat)
      /\ base.wps <= Len(seqs) /\ base.actions <= n
      /\ InPlanOrder(NewWaypoints, "NAV_WAYPOINT", index)
      /\ InPlanOrder(NewPhotos, "IMAGE_START_CAPTURE", index)
      /\ InPlanOrder(NewPoints, "IMAGE_START_CAPTURE", index)
      /\ base.points \in Nat /\ base.points <= Len(photoPoints) /\ IsFlown
  BY <1>1, PassFrom
<1>3. PICK m \in Nat : WaypointAdds(m)
  BY ConvertWaypointAdds DEF IInv
<1>4. /\ m \in {n, n + 1} /\ Len(actions') \in {m, m + 1}
      /\ \A i \in 0..(n - 1) : events'[i] = events[i]
      /\ \A i \in 1..n : actions'[i] = actions[i]
      /\ m = n + 1 => /\ events'[m - 1].type = "Resumed"
                      /\ actions'[m].actuator = "start"
      /\ Len(actions') = m + 1 => /\ events'[m].type = "Paused"
                                  /\ actions'[m + 1].actuator = "stop"
  <2>1. /\ Event("Resumed", index, index).type = "Resumed"
        /\ Event("Paused", index, index).type = "Paused"
        /\ \A id, t, a : Action(id, t, a).actuator = a
    BY DEF Event, Action
  <2>2. n + 1 # n /\ m + 1 # m
    BY <1>2
  <2> QED BY <1>3, <2>1, <2>2 DEF WaypointAdds
<1>5. /\ Len(actions') \in Nat /\ n <= Len(actions')
      /\ \A i \in n..(Len(actions') - 1) :
             (i = m - 1 /\ m = n + 1) \/ (i = m /\ Len(actions') = m + 1)
  <2>1. n \in Nat /\ m \in {n, n + 1} /\ Len(actions') \in {m, m + 1}
    BY <1>2, <1>4
  <2> HIDE DEF n
  <2> QED BY ONLY <2>1
<1>6. \A i \in n..(Len(actions') - 1) :
          events'[i].type # "TakenPhoto" /\ actions'[i + 1].actuator # "photo"
  <2> SUFFICES ASSUME NEW i \in n..(Len(actions') - 1)
               PROVE  events'[i].type # "TakenPhoto" /\ actions'[i + 1].actuator # "photo"
    OBVIOUS
  <2>1. CASE i = m - 1 /\ m = n + 1
    <3>1. i + 1 = m
      BY <2>1
    <3> QED BY <1>4, <2>1, <3>1
  <2>2. CASE i = m /\ Len(actions') = m + 1
    BY <1>4, <2>2
  <2> QED BY <1>5, <2>1, <2>2
<1>7. InPlanOrder(NewPhotos', "IMAGE_START_CAPTURE", index + 1)
  <2>1. /\ DOMAIN NewPhotos' = DOMAIN NewPhotos
        /\ \A i \in DOMAIN NewPhotos : NewPhotos'[i] = NewPhotos[i]
    BY <1>1, <1>2, <1>4, <1>5, <1>6, PhotosStay
  <2>2. plan[index + 1].cmd # "IMAGE_START_CAPTURE"
    BY <1>1
  <2> QED BY <1>2, <2>1, <2>2, OrderKept
<1>8. InPlanOrder(NewWaypoints', "NAV_WAYPOINT", index + 1) /\ Len(seqs') = Len(seqs) + 1
  <2>1. /\ DOMAIN NewWaypoints \subseteq Int
        /\ \A k \in DOMAIN NewWaypoints : k < Len(seqs) + 1
        /\ DOMAIN NewWaypoints' = DOMAIN NewWaypoints \cup {Len(seqs) + 1}
        /\ \A k \in DOMAIN NewWaypoints : NewWaypoints'[k] = NewWaypoints[k]
        /\ NewWaypoints'[Len(seqs) + 1] = index
        /\ Len(seqs') = Len(seqs) + 1
    BY ONLY <1>1, <1>2, WaypointComesLast
  <2>2. Len(seqs) + 1 \in Int
    BY <1>2
  <2> QED BY <1>1, <1>2, <2>1, <2>2, OrderExtended
<1>9. Converted(index)'
  <2>1. InPlanOrder(NewPoints', "IMAGE_START_CAPTURE", index + 1)
    <3>1. plan[index + 1].cmd # "IMAGE_START_CAPTURE"
      BY <1>1
    <3> QED BY <1>1, <1>2, <3>1, PointsStay, OrderKept
  <2>2. \A i \in base.actions'..(Len(actions') - 1) :
            actions'[i + 1].actuator = "photo" <=> events'[i].type = "TakenPhoto"
    BY ONLY <1>1, <1>2, <1>4, <1>5, <1>6, PhotosFlown
  <2>3. /\ Len(wps') = Len(seqs')
        /\ \A k \in (base.wps' + 1)..Len(seqs') :
               wps'[k].heading = NomoralizeYawAngle(plan'[seqs'[k] + 1].yaw)
    <3>1. PICK w : /\ wps' = Append(wps, w)
                   /\ w.heading = NomoralizeYawAngle(plan[index + 1].yaw)
      <4>1. PICK turn : wps' = Append(wps, [heading |-> NomoralizeYawAngle(Item.yaw),
                                            turn |-> turn])
        BY DEF ConvertWaypoint
      <4> QED BY <4>1 DEF Item
    <3>2. wps \in Seq(WaypointV2) /\ wps' \in Seq(WaypointV2)
      <4>1. TypeOK'
        BY ConvertWaypointInv DEF IInv
      <4> QED BY <4>1 DEF TypeOK, IInv
    <3> QED BY ONLY <1>1, <1>2, <3>1, <3>2, WaypointsFlown
  <2>4. IsFlown'
    BY <2>2, <2>3 DEF IsFlown
  <2> QED BY <1>1, <1>7, <1>8, <2>1, <2>4, PassStep
<1>10. base.wps' <= Len(seqs') /\ base.actions' <= Len(actions')
  <2>1. base.wps' = base.wps /\ base.actions' = base.actions
    BY <1>1
  <2> HIDE DEF n
  <2>2. base.actions <= n /\ n <= Len(actions') /\ base.wps <= Len(seqs) + 1
    BY <1>2, <1>5
  <2>3. base.actions <= Len(actions')
    BY <1>2, <1>5, <2>2
  <2> QED BY <1>8, <2>1, <2>2, <2>3
<1>11. base.points' <= Len(photoPoints')
  BY <1>1, <1>2
<1> QED BY <1>1, <1>9, <1>10, <1>11

\* A photo is added to the photos, and no waypoint.
LEMMA PhotoPass ==
    ASSUME IInv, PassInv, ConvertPhoto
    PROVE  PassInv'
<1> SUFFICES ASSUME valid', base'.here, state' # "crashed"
             PROVE  /\ base.wps' <= Len(seqs)' /\ base.actions' <= Len(actions)'
                    /\ base.points' <= Len(photoPoints)'
                    /\ Converted(index)' /\ state' # "idle"
  BY DEF PassInv
<1>1. /\ state = "convert" /\ state' = state /\ valid' = valid /\ base' = base
      /\ index' = index + 1 /\ plan' = plan /\ seqs' = seqs /\ wps' = wps
      /\ plan[index + 1].cmd = "IMAGE_START_CAPTURE"
  BY DEF ConvertPhoto, Converts, Item, GoesOn, planVars, flagVars
<1> DEFINE n == Len(actions)
<1>2. /\ base.wps \in Nat /\ base.actions \in Nat /\ index \in Nat
      /\ n \in Nat /\ Len(seqs) \in Nat /\ seqs \in Seq(Nat)
      /\ base.wps <= Len(seqs) /\ base.actions <= n
      /\ InPlanOrder(NewWaypoints, "NAV_WAYPOINT", index)
      /\ InPlanOrder(NewPhotos, "IMAGE_START_CAPTURE", index)
      /\ InPlanOrder(NewPoints, "IMAGE_START_CAPTURE", index)
      /\ base.points \in Nat /\ base.points <= Len(photoPoints) /\ IsFlown
  BY <1>1, PassFrom
<1>3. PICK wp \in Nat :
          /\ photoPoints' = Append(photoPoints, [at |-> wp, item |-> index])
          /\ PhotoAdds(wp)
  BY ConvertPhotoAdds DEF IInv
<1>4. /\ Len(actions') \in {n + 1, n + 2}
      /\ \A i \in 0..(n - 1) : events'[i] = events[i]
      /\ events'[n].type = "TakenPhoto" /\ events'[n].item = index
      /\ \A i \in 1..n : actions'[i] = actions[i]
      /\ actions'[n + 1].actuator = "photo"
      /\ Len(actions') = n + 2 => /\ events'[n + 1].type = "Resumed"
                                  /\ actions'[n + 2].actuator = "start"
  <2>1. /\ Event("TakenPhoto", index, wp).type = "TakenPhoto"
        /\ Event("TakenPhoto", index, wp).item = index
        /\ Event("Resumed", wp, wp).type = "Resumed"
        /\ \A id, t, a : Action(id, t, a).actuator = a
    BY DEF Event, Action
  <2>2. n + 1 # n + 2
    BY <1>2
  <2> QED BY <1>3, <2>1, <2>2 DEF PhotoAdds
<1>5. /\ Len(actions') \in Nat /\ n < Len(actions') /\ n <= Len(actions')
      /\ \A i \in (n + 1)..(Len(actions') - 1) : i = n + 1 /\ Len(actions') = n + 2
  <2> HIDE DEF n
  <2> QED BY ONLY <1>2, <1>4
<1>6. \A i \in (n + 1)..(Len(actions') - 1) : events'[i].type # "TakenPhoto"
  BY <1>4, <1>5
<1>7. InPlanOrder(NewPhotos', "IMAGE_START_CAPTURE", index + 1)
  <2>1. /\ DOMAIN NewPhotos \subseteq Int /\ \A i \in DOMAIN NewPhotos : i < n
        /\ DOMAIN NewPhotos' = DOMAIN NewPhotos \cup {n}
        /\ \A i \in DOMAIN NewPhotos : NewPhotos'[i] = NewPhotos[i]
        /\ NewPhotos'[n] = index
    BY <1>1, <1>2, <1>4, <1>5, <1>6, PhotoComesLast
  <2>2. n \in Int
    BY <1>2
  <2> QED BY <1>1, <1>2, <2>1, <2>2, OrderExtended
<1>8. InPlanOrder(NewWaypoints', "NAV_WAYPOINT", index + 1)
  <2>1. plan[index + 1].cmd # "NAV_WAYPOINT"
    BY <1>1
  <2> QED BY <1>1, <1>2, <2>1, WaypointsStay, OrderKept
<1>9. Converted(index)' /\ base.points' <= Len(photoPoints')
  <2> DEFINE T == [at : Nat, item : Nat]
             p == [at |-> wp, item |-> index]
  <2>1. photoPoints \in Seq(T) /\ p \in T /\ p.item = index
    BY <1>2 DEF IInv, TypeOK
  <2> HIDE DEF T
  <2>2. /\ DOMAIN NewPoints \subseteq Int
        /\ \A k \in DOMAIN NewPoints : k < Len(photoPoints) + 1
        /\ DOMAIN NewPoints' = DOMAIN NewPoints \cup {Len(photoPoints) + 1}
        /\ \A k \in DOMAIN NewPoints : NewPoints'[k] = NewPoints[k]
        /\ NewPoints'[Len(photoPoints) + 1] = index
        /\ Len(photoPoints) \in Nat /\ Len(photoPoints') = Len(photoPoints) + 1
    <3>1. photoPoints' = Append(photoPoints, p)
      BY <1>3
    <3> HIDE DEF p
    <3> QED BY ONLY <1>1, <1>2, <2>1, <3>1, PointComesLast
  <2>3. Len(photoPoints) + 1 \in Int /\ base.points' <= Len(photoPoints')
    BY <1>1, <1>2, <2>2
  <2>4. InPlanOrder(NewPoints', "IMAGE_START_CAPTURE", index + 1)
    BY <1>1, <1>2, <2>2, <2>3, OrderExtended
  <2>5. \A i \in n..(Len(actions') - 1) :
            actions'[i + 1].actuator = "photo" <=> events'[i].type = "TakenPhoto"
    <3> SUFFICES ASSUME NEW i \in n..(Len(actions') - 1)
                 PROVE  actions'[i + 1].actuator = "photo" <=> events'[i].type = "TakenPhoto"
      OBVIOUS
    <3>1. CASE i = n
      BY <1>4, <3>1
    <3>2. CASE i # n
      <4>1. i \in (n + 1)..(Len(actions') - 1)
        BY <1>2, <1>5, <3>2
      <4>2. i = n + 1 /\ i + 1 = n + 2 /\ Len(actions') = n + 2
        BY <1>2, <1>5, <4>1
      <4> QED BY <1>4, <4>2
    <3> QED BY <3>1, <3>2
  <2>6. \A i \in base.actions'..(Len(actions') - 1) :
            actions'[i + 1].actuator = "photo" <=> events'[i].type = "TakenPhoto"
    BY ONLY <1>1, <1>2, <1>4, <1>5, <2>5, PhotosFlown
  <2>7. IsFlown'
    BY <1>1, <1>2, <2>6 DEF IsFlown
  <2> QED BY <1>1, <1>7, <1>8, <2>3, <2>4, <2>7, PassStep
<1>10. base.wps' <= Len(seqs') /\ base.actions' <= Len(actions')
  <2> HIDE DEF n
  <2>1. base.actions <= Len(actions')
    BY <1>2, <1>5
  <2> QED BY <1>1, <1>2, <2>1
<1> QED BY <1>1, <1>9, <1>10

\* An item that is skipped is neither.
LEMMA SkipPass ==
    ASSUME IInv, PassInv, Skip
    PROVE  PassInv'
<1> SUFFICES ASSUME valid', base'.here, state' # "crashed"
             PROVE  /\ base.wps' <= Len(seqs)' /\ base.actions' <= Len(actions)'
                    /\ base.points' <= Len(photoPoints)'
                    /\ Converted(index)' /\ state' # "idle"
  BY DEF PassInv
<1>1. /\ state = "convert" /\ state' = state /\ valid' = valid /\ base' = base
      /\ index' = index + 1 /\ plan' = plan
      /\ seqs' = seqs /\ actions' = actions /\ events' = events /\ wps' = wps
      /\ photoPoints' = photoPoints
      /\ plan[index + 1].cmd \notin {"NAV_WAYPOINT", "IMAGE_START_CAPTURE"}
  BY DEF Skip, Item, GoesOn, planVars, flagVars, missionVars
<1>2. /\ base.wps <= Len(seqs) /\ base.actions <= Len(actions) /\ index \in Nat
      /\ InPlanOrder(NewWaypoints, "NAV_WAYPOINT", index)
      /\ InPlanOrder(NewPhotos, "IMAGE_START_CAPTURE", index)
      /\ InPlanOrder(NewPoints, "IMAGE_START_CAPTURE", index)
      /\ base.points \in Nat /\ base.points <= Len(photoPoints) /\ IsFlown
  BY <1>1, PassFrom
<1>3. /\ DOMAIN NewPhotos' = DOMAIN NewPhotos
      /\ \A i \in DOMAIN NewPhotos : NewPhotos'[i] = NewPhotos[i]
  BY <1>1 DEF NewPhotos
<1>4. /\ InPlanOrder(NewWaypoints', "NAV_WAYPOINT", index + 1)
      /\ InPlanOrder(NewPhotos', "IMAGE_START_CAPTURE", index + 1)
      /\ InPlanOrder(NewPoints', "IMAGE_START_CAPTURE", index + 1)
      /\ IsFlown'
  <2>1. /\ InPlanOrder(NewWaypoints', "NAV_WAYPOINT", index + 1)
        /\ InPlanOrder(NewPhotos', "IMAGE_START_CAPTURE", index + 1)
    BY <1>1, <1>2, <1>3, WaypointsStay, OrderKept
  <2>2. InPlanOrder(NewPoints', "IMAGE_START_CAPTURE", index + 1)
    BY <1>1, <1>2, PointsStay, OrderKept
  <2>3. IsFlown'
    BY <1>1, <1>2 DEF IsFlown
  <2> QED BY <2>1, <2>2, <2>3
<1>5. Converted(index)'
  BY <1>1, <1>4, PassStep
<1> QED BY <1>1, <1>2, <1>5

\* A plan is begun: nothing of it is converted.
LEMMA InterpretPass ==
    ASSUME IInv, PassInv, NEW p \in Plans, Interpret(p)
    PROVE  PassInv'
<1> SUFFICES ASSUME valid', base'.here, state' # "crashed"
             PROVE  /\ base.wps' <= Len(seqs)' /\ base.actions' <= Len(actions)'
                    /\ base.points' <= Len(photoPoints)'
                    /\ Converted(index)' /\ state' # "idle"
  BY DEF PassInv
<1>1. /\ index' = 0 /\ valid' = valid /\ seqs' = seqs /\ actions' = actions
      /\ wps' = wps /\ events' = events /\ photoPoints' = photoPoints
      /\ base' = [wps |-> Len(wps), actions |-> Len(actions),
                  points |-> Len(photoPoints), here |-> Len(p) > 2]
      /\ Len(p) > 2 => state' = "convert"
  BY DEF Interpret, missionVars
<1>2. /\ base.wps' = Len(seqs) /\ base.actions' = Len(actions) /\ Len(p) > 2
      /\ base.points' = Len(photoPoints) /\ Len(seqs) = Len(wps)
  <2>1. Len(seqs) = Len(wps)
    BY <1>1 DEF IInv, TablesInv
  <2>2. /\ base.wps' = Len(wps) /\ base.actions' = Len(actions) /\ Len(p) > 2
        /\ base.points' = Len(photoPoints)
    BY <1>1
  <2> QED BY <2>1, <2>2
<1>3. Len(seqs) \in Nat /\ Len(actions) \in Nat /\ Len(photoPoints) \in Nat
  BY DEF IInv, TypeOK
<1>4. /\ (Len(seqs) + 1)..Len(seqs) = {} /\ Len(actions)..(Len(actions) - 1) = {}
      /\ (Len(photoPoints) + 1)..Len(photoPoints) = {}
  BY <1>3
<1>5. DOMAIN NewWaypoints' = {} /\ DOMAIN NewPhotos' = {} /\ DOMAIN NewPoints' = {}
  BY <1>1, <1>2, <1>4 DEF NewWaypoints, NewPhotos, NewPoints
<1>6. IsFlown'
  BY <1>1, <1>2, <1>4 DEF IsFlown
<1>7. Converted(index)'
  <2>1. 0..(0 - 1) = {}
    OBVIOUS
  <2> QED BY <1>1, <1>5, <1>6, <2>1 DEF Converted, InPlanOrder
<1>8. /\ base.wps' <= Len(seqs') /\ base.actions' <= Len(actions')
      /\ base.points' <= Len(photoPoints')
  BY <1>1, <1>2, <1>3
<1> QED BY <1>1, <1>2, <1>7, <1>8

\* Every step keeps it: the others end the pass, or the plan's validity.
LEMMA PassNext == IInv /\ PassInv /\ [Next]_vars => PassInv'
<1> SUFFICES ASSUME IInv, PassInv, [Next]_vars PROVE PassInv'
  OBVIOUS
<1>1. CASE OpenProxy
  BY <1>1 DEF OpenProxy, PassInv
<1>2. CASE \E p \in Plans : Interpret(p)
  BY <1>2, InterpretPass
<1>3. CASE Skip
  BY <1>3, SkipPass
<1>4. CASE ConvertWaypoint
  BY <1>4, WaypointPass
<1>5. CASE ConvertPhoto
  BY <1>5, PhotoPass
<1>6. CASE WaitTimeTooLong \/ UnsupportPhotoTimes
  BY <1>6 DEF WaitTimeTooLong, UnsupportPhotoTimes, Fails, PassInv
<1>7. CASE NoLastWp
  BY <1>7 DEF NoLastWp, PassInv
<1>8. CASE Succeed \/ UNCHANGED vars
  <2>1. /\ UNCHANGED <<index, seqs, actions, events, valid, base, plan>>
        /\ UNCHANGED <<wps, photoPoints>>
        /\ state' = state \/ (state = "convert" /\ state' = "idle" /\ index = Len(plan))
    BY <1>8 DEF Succeed, vars, missionVars, flagVars, planVars
  <2>2. /\ NewWaypoints' = NewWaypoints /\ NewPhotos' = NewPhotos
        /\ NewPoints' = NewPoints /\ (IsFlown => IsFlown')
    BY <2>1 DEF NewWaypoints, NewPhotos, NewPoints, IsFlown
  <2>3. Converted(index) => Converted(index)'
    BY <2>1, <2>2 DEF Converted, InPlanOrder
  <2> QED BY <2>1, <2>3 DEF PassInv
<1> QED BY <1>1, <1>2, <1>3, <1>4, <1>5, <1>6, <1>7, <1>8 DEF Next, Done

\* So far the pass has converted what it has passed, in every reachable state.
THEOREM PassInvariant == Spec => []PassInv
<1>1. Init => PassInv
  BY DEF Init, PassInv
<1> QED BY <1>1, PassNext, InterpreterInvariant, PTL DEF Spec

\* Behind what the memory held before, which is flown again, a mission that is
\* valid has the waypoints and the photos of the plan, each once and in its order.
THEOREM MissionIsThePlan == Spec => []ConvertsThePlan
<1>1. PassInv => ConvertsThePlan
  BY DEF PassInv, ConvertsThePlan
<1> QED BY <1>1, PassInvariant, PTL

=============================================================================
