----------------------------- MODULE MCMavVehicle -----------------------------
(* A small instance of MavVehicle for TLC.                                 *)
EXTENDS MavVehicle, TLC

CONSTANTS vehicle, camera

\* The camera answers on the same connection and has no autopilot.
MCMethods == <<"acm", "udp">>
MCVia == (vehicle :> "udp") @@ (camera :> "udp")
MCKinds == <<"attitude", "battery">>
=============================================================================
