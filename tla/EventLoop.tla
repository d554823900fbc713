----------------------------- MODULE EventLoop ------------------------------
(***************************************************************************)
(* The event loop of a RobotSystem: pushEvent from any thread, the queue   *)
(* thread with its condition variable, and the destructor.                 *)
(*                                                                         *)
(* Every section under _queue_wait_mutex releases it before anything that  *)
(* blocks (the wait, the callback), so each section is one step and the    *)
(* mutex needs no variable.  The queue thread is therefore always before   *)
(* one of its sections, asleep in the wait, or in the callback.            *)
(*                                                                         *)
(* A definition commented "Slip" is wrong on purpose: it is a variant of   *)
(* the definition after it, which shows that a property can fail.          *)
(***************************************************************************)
EXTENDS Naturals, Sequences

CONSTANTS Events,   \* the events that can be posted
          MaxPosts  \* bound: pushEvent calls

ASSUME MaxPostsAssumption == MaxPosts \in Nat

VARIABLES
    queue,      \* _event_queue
    quit,       \* _thread_quit
    loop,       \* where the queue thread is
    notified,   \* a notify_all reached the sleeping queue thread
    destroyed,  \* the destructor returned
    posted,     \* history: the events pushed
    seen        \* history: the events the callback was given

loopVars == <<queue, quit, loop, notified, destroyed, posted, seen>>

LoopInit ==
    /\ queue = <<>> /\ quit = FALSE /\ loop = "top" /\ notified = FALSE
    /\ destroyed = FALSE
    /\ posted = <<>> /\ seen = <<>>

\* notify_all wakes the thread only if it is asleep at that moment.
NotifyAll == notified' = (notified \/ loop = "asleep")

\* Slip: a sleeping queue thread is not notified.
PushEventSilently(e) ==
    /\ ~quit \/ loop = "callback"
    /\ Len(posted) < MaxPosts
    /\ queue' = Append(queue, e)
    /\ posted' = Append(posted, e)
    /\ UNCHANGED <<quit, loop, notified, destroyed, seen>>

\* Slip: the newest event goes first.
PushEventInFront(e) ==
    /\ ~quit \/ loop = "callback"
    /\ Len(posted) < MaxPosts
    /\ queue' = <<e>> \o queue
    /\ posted' = Append(posted, e)
    /\ NotifyAll
    /\ UNCHANGED <<quit, loop, destroyed, seen>>

\* pushEvent, from any thread while the system is in use, and from a callback
\* even when the destructor is already waiting for the queue thread.
PushEvent(e) ==
    /\ ~quit \/ loop = "callback"
    /\ Len(posted) < MaxPosts
    /\ queue' = Append(queue, e)
    /\ posted' = Append(posted, e)
    /\ NotifyAll
    /\ UNCHANGED <<quit, loop, destroyed, seen>>

\* The front of the queue goes to the callback, by reference and unlocked.
Front ==
    /\ seen' = Append(seen, Head(queue))
    /\ loop' = "callback"

\* while(!_thread_quit), read without the mutex
LoopTop ==
    /\ loop = "top"
    /\ loop' = IF quit THEN "exit" ELSE "lock"
    /\ UNCHANGED <<queue, quit, notified, destroyed, posted, seen>>

\* The section from the lock, or from the return of the wait, to the next wait,
\* to the break, or to the first callback.
Section ==
    /\ \/ /\ queue = <<>> /\ ~quit
          /\ loop' = "asleep"
          /\ UNCHANGED seen
       \/ /\ quit
          /\ loop' = "exit"
          /\ UNCHANGED seen
       \/ /\ queue # <<>> /\ ~quit
          /\ Front
    /\ notified' = FALSE
    /\ UNCHANGED <<queue, quit, destroyed, posted>>

LockQueue == loop = "lock" /\ Section

\* The wait returns because of a notification or spuriously.
Wake         == loop = "asleep" /\ notified /\ Section
SpuriousWake == loop = "asleep" /\ ~notified /\ Section

\* The callback returns.
CallbackReturns ==
    /\ loop = "callback"
    /\ loop' = "relock"
    /\ UNCHANGED <<queue, quit, notified, destroyed, posted, seen>>

\* Slip: the event handed to the callback is not popped.
PopEventKept ==
    /\ loop = "relock"
    /\ loop' = "top"
    /\ UNCHANGED <<queue, quit, notified, destroyed, posted, seen>>

\* lock, pop, and on to the next event: the inner loop drains the queue
\* without looking at _thread_quit.
PopEvent ==
    /\ loop = "relock"
    /\ queue' = Tail(queue)
    /\ \/ /\ Tail(queue) # <<>>
          /\ seen' = Append(seen, Head(Tail(queue)))
          /\ loop' = "callback"
       \/ /\ Tail(queue) = <<>>
          /\ loop' = "top"
          /\ UNCHANGED seen
    /\ UNCHANGED <<quit, notified, destroyed, posted>>

\* Slip: the destructor sets the flag and does not notify.
QuitSilently ==
    /\ ~quit
    /\ quit' = TRUE
    /\ UNCHANGED <<queue, loop, notified, destroyed, posted, seen>>

\* ~Impl: set _thread_quit and notify, under the mutex ...
Quit ==
    /\ ~quit
    /\ quit' = TRUE
    /\ NotifyAll
    /\ UNCHANGED <<queue, loop, destroyed, posted, seen>>

\* ... then join the queue thread.
Join ==
    /\ quit /\ loop = "exit" /\ ~destroyed
    /\ destroyed' = TRUE
    /\ UNCHANGED <<queue, quit, loop, notified, posted, seen>>

Halt == destroyed /\ UNCHANGED loopVars

QueueThread == LoopTop \/ LockQueue \/ Wake \/ CallbackReturns \/ PopEvent

LoopNext ==
    \/ \E e \in Events : PushEvent(e)
    \/ QueueThread
    \/ SpuriousWake
    \/ Quit
    \/ Join
    \/ Halt

LoopSpec == LoopInit /\ [][LoopNext]_loopVars

\* The queue thread is scheduled and callbacks return.  Nothing obliges the
\* system to wake the thread spuriously, nor the owner to destroy the loop.
LoopFairSpec == LoopSpec /\ WF_loopVars(QueueThread) /\ WF_loopVars(Join)

-----------------------------------------------------------------------------
(* Properties.                                                             *)

LoopTypeOK ==
    /\ queue \in Seq(Events) /\ posted \in Seq(Events) /\ seen \in Seq(Events)
    /\ quit \in BOOLEAN /\ notified \in BOOLEAN /\ destroyed \in BOOLEAN
    /\ loop \in {"top", "lock", "asleep", "callback", "relock", "exit"}

\* The callback was given the first events posted, in their order.
SeenIsPrefix ==
    /\ Len(seen) <= Len(posted)
    /\ \A i \in DOMAIN seen : seen[i] = posted[i]

\* Events that are out of the queue for good.
Popped == IF loop \in {"callback", "relock"} THEN Len(seen) - 1 ELSE Len(seen)

\* The queue is what was posted and not popped, in order: nothing is lost,
\* doubled or overtaken while the mutex is released around the callback
\* (handle, pushEvent).
QueueIsTheRest ==
    /\ loop \in {"callback", "relock"} => Len(seen) > 0
    /\ Len(queue) = Len(posted) - Popped
    /\ \A i \in DOMAIN queue : queue[i] = posted[Popped + i]

\* The event a callback works on, by reference, is still the front of the
\* queue, whatever was pushed meanwhile (handle: front, unlock, callback, pop).
FrontIsInUse ==
    loop \in {"callback", "relock"} =>
        queue # <<>> /\ Head(queue) = seen[Len(seen)]

\* No wake-up is lost: a thread that sleeps without a pending notification has
\* nothing to do and was not told to quit (pushEvent and ~Impl notify under
\* the mutex the wait releases).
NoLostWakeup == loop = "asleep" /\ ~notified => queue = <<>> /\ ~quit

\* Why the properties above hold: together they are inductive.
LoopInv == LoopTypeOK /\ SeenIsPrefix /\ QueueIsTheRest /\ NoLostWakeup

\* The loop implements the channel: at most once, in order.
Channel == INSTANCE EventChannel WITH closed <- quit
ImplementsChannel == Channel!Spec

\* Every event posted is dispatched unless the owner destroys the loop.
PostedIsDispatched ==
    \A n \in 1 .. MaxPosts : Len(posted) >= n ~> Len(seen) >= n \/ quit

\* The destructor returns, even when callbacks go on posting while the inner
\* loop drains the queue (their number is bounded here).
DestructorReturns == quit ~> destroyed
=============================================================================
