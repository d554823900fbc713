------------------------- MODULE MCMissionInstance --------------------------
(* Small instances of MissionInstance for TLC.                             *)
EXTENDS MissionInstance, TLC

\* Tasks of one kind are interchangeable: no definition tells them apart.
Symmetry == Permutations(MainTasks) \cup Permutations(SubTasks)
=============================================================================
