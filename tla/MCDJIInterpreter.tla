-------------------------- MODULE MCDJIInterpreter --------------------------
(* Finite values for the constants of DJIInterpreter. *)
EXTENDS DJIInterpreter

Waypoint(wait, yaw) ==
    [cmd |-> "NAV_WAYPOINT", wait |-> wait, yaw |-> yaw, images |-> 0]
Photo(n) == [cmd |-> "IMAGE_START_CAPTURE", wait |-> 0, yaw |-> 0, images |-> n]
Other(c) == [cmd |-> c, wait |-> 0, yaw |-> 0, images |-> 0]

\* Passing through, holding for the binary32 next to 2.3 seconds, of which a photo
\* leaves less than 0.3, and for the longest time there is.
Legs == {Waypoint(0, 0), Waypoint(9646899, 200), Waypoint(LongestHold, 300),
         Photo(1)}
Ends == {Other("NAV_LAND"), Other("NAV_RETURN_TO_LAUNCH")}
\* One second, which a photo outlasts, and 25.6.
All  == Legs \cup Ends \cup {Waypoint(Second, 200), Waypoint(107374184, 0), Photo(2)}

\* All plans of two and three items, and longer ones as clients write them.
MCPlans ==
    [1..2 -> All] \cup [1..3 -> All] \cup
    {<<Other("NAV_TAKEOFF"), a, b, c, Other("NAV_LAND")>> : a, b, c \in Legs}
=============================================================================
