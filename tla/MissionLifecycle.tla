-------------------------- MODULE MissionLifecycle --------------------------
(***************************************************************************)
(* What a mission proxy promises to the client that listens to it: the     *)
(* phase of the instance and the log of the events posted for it.  The     *)
(* threads, locks and download tasks of MissionInstanceProxy are absent;   *)
(* MissionInstance is shown to implement this module.                      *)
(***************************************************************************)
EXTENDS Naturals, Sequences

CONSTANTS Missions,   \* the main tasks, one for every startMission
          NoMission   \* the mission of an event that names none

VARIABLES phase,      \* "waiting", "executing", "finished" or "failed"
          log         \* the events posted so far, oldest first

vars == <<phase, log>>

Event(type, m) == [type |-> type, task |-> m]

Ends == {"Finished", "Interrupted", "Failed"}

Posted(l, type, m) == \E i \in DOMAIN l : l[i] = Event(type, m)

Mentioned(l, m) == \E i \in DOMAIN l : l[i].task = m

Init == phase = "waiting" /\ log = <<>>

\* MissionStartedEvent: no other mission is open and this one is new.
Begin(m) ==
    /\ phase # "executing"
    /\ ~Mentioned(log, m)
    /\ phase' = "executing"
    /\ log' = Append(log, Event("Started", m))

\* MissionStartFailedEvent: the mission is over before it began.
Refuse(m) ==
    /\ phase # "executing"
    /\ ~Mentioned(log, m)
    /\ phase' = "failed"
    /\ log' = Append(log, Event("StartFailed", m))

\* A photo may be told of at any time, also before the start of its mission
\* is, and after a start that was told as failed; it opens and ends nothing.
Photo ==
    /\ log' = Append(log, Event("TakenPhoto", NoMission))
    /\ UNCHANGED phase

\* MissionFinishedEvent (interrupted or not) or MissionFailedEvent: ends the
\* mission that was started, once.
End(m, type) ==
    /\ phase = "executing"
    /\ Posted(log, "Started", m)
    /\ \A e \in Ends : ~Posted(log, e, m)
    /\ phase' = (IF type = "Failed" THEN "failed" ELSE "finished")
    /\ log' = Append(log, Event(type, m))

Next ==
    \/ \E m \in Missions : Begin(m) \/ Refuse(m)
    \/ \E m \in Missions, type \in Ends : End(m, type)
    \/ Photo

Spec == Init /\ [][Next]_vars
=============================================================================
