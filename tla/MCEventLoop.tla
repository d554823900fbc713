---------------------------- MODULE MCEventLoop -----------------------------
(* Small instances of EventLoop for TLC.                                   *)
EXTENDS EventLoop, TLC

Symmetry == Permutations(Events)
=============================================================================
