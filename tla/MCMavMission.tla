---------------------------- MODULE MCMavMission ----------------------------
(* Small instances of MavMission for TLC.                                  *)
EXTENDS MavMission, TLC

\* Tasks are interchangeable, and so are plans.
Symmetry == Permutations(Tasks) \cup Permutations(Plans)
=============================================================================
