---------------------------- MODULE EventChannel ----------------------------
(***************************************************************************)
(* What RobotSystem::postEvent promises: every event is handed to the      *)
(* dispatcher at most once, in the order of the posts, and until the       *)
(* channel is closed nothing else can happen to it.                        *)
(***************************************************************************)
EXTENDS Naturals, Sequences

CONSTANT Events

VARIABLES posted,  \* the events posted, oldest first
          seen,    \* the events the dispatcher was given
          closed   \* the owner is destroying the channel

vars == <<posted, seen, closed>>

Init == posted = <<>> /\ seen = <<>> /\ closed = FALSE

Post(e) ==
    /\ posted' = Append(posted, e)
    /\ UNCHANGED <<seen, closed>>

Dispatch ==
    /\ Len(seen) < Len(posted)
    /\ seen' = Append(seen, posted[Len(seen) + 1])
    /\ UNCHANGED <<posted, closed>>

Close ==
    /\ ~closed
    /\ closed' = TRUE
    /\ UNCHANGED <<posted, seen>>

Next == (\E e \in Events : Post(e)) \/ Dispatch \/ Close

Spec == Init /\ [][Next]_vars
=============================================================================
