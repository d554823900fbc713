----------------------------- MODULE MCDJIVehicle -----------------------------
(* A small instance of DJIVehicle for TLC.                                 *)
EXTENDS DJIVehicle, TLC

\* A plugin of each kind: those for the M300 only, and those for all models.
MCKinds == <<"telemetry", "battery", "video", "camera", "gimbal">>
MCSupports ==
    [k \in Range(Kinds) |->
         IF k \in {"telemetry", "video"} THEN Models ELSE {M300}]
=============================================================================
