---------------------------- MODULE MCDJIMission ----------------------------
(* Small instances of DJIMission for TLC.                                  *)
EXTENDS DJIMission, TLC

\* Tasks are interchangeable, and so are proxies.
Symmetry == Permutations(Tasks) \cup Permutations(Proxies)
=============================================================================
