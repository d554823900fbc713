----------------------------- MODULE MissionTask -----------------------------
(***************************************************************************)
(* What every mission task promises to the listener it is executed with    *)
(* (MissionTask::execute): it reports the result of its start stage once,  *)
(* then, if that was a success, the result of its executing stage once,    *)
(* and no other.  How a plugin comes by the results is absent; MavMission  *)
(* and DJIMission are shown to implement this module, and MissionInstance, *)
(* which is the listener, relies on no more.                               *)
(***************************************************************************)

CONSTANTS Tasks,
          StartResults,  \* results the start stage may report
          ExecResults    \* results the executing stage may report

VARIABLES at,     \* "idle", "starting", "executing" or "over"
          start,  \* the result OnStartStageFinished was given
          exec    \* the result OnExecutingStageFinished was given

vars == <<at, start, exec>>

Init ==
    /\ at = [t \in Tasks |-> "idle"]
    /\ start = [t \in Tasks |-> "UNEXECUTE"]
    /\ exec = [t \in Tasks |-> "UNEXECUTE"]

\* A task is executed once.
Execute(t) ==
    /\ at[t] = "idle"
    /\ at' = [at EXCEPT ![t] = "starting"]
    /\ UNCHANGED <<start, exec>>

\* A task that could not start is over.
StartFinished(t, r) ==
    /\ at[t] = "starting"
    /\ start' = [start EXCEPT ![t] = r]
    /\ at' = [at EXCEPT ![t] = IF r = "SUCCESS" THEN "executing" ELSE "over"]
    /\ UNCHANGED exec

ExecutingFinished(t, r) ==
    /\ at[t] = "executing"
    /\ exec' = [exec EXCEPT ![t] = r]
    /\ at' = [at EXCEPT ![t] = "over"]
    /\ UNCHANGED start

Next ==
    \E t \in Tasks :
        \/ Execute(t)
        \/ \E r \in StartResults : StartFinished(t, r)
        \/ \E r \in ExecResults : ExecutingFinished(t, r)

Spec == Init /\ [][Next]_vars
=============================================================================
