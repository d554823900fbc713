----------------------------- MODULE EventProofs ----------------------------
(***************************************************************************)
(* The event loop keeps its queue in step with the history of the posts,   *)
(* loses no wake-up and implements EventChannel, for any number of events. *)
(* The objects around it take its steps and no others, so all of that      *)
(* holds of them too, and clients that keep to the rules of ProxyEvents    *)
(* never make a call on an object that is gone.                            *)
(***************************************************************************)
EXTENDS ProxyEvents, TLAPS


\* The head and the tail of a queue that is not empty.
LEMMA HeadTail ==
    ASSUME NEW S, NEW q \in Seq(S), q # <<>>
    PROVE  /\ Head(q) \in S /\ Head(q) = q[1] /\ Len(q) \in Nat /\ Len(q) >= 1
           /\ Tail(q) \in Seq(S) /\ Len(Tail(q)) = Len(q) - 1
           /\ \A i \in DOMAIN Tail(q) : Tail(q)[i] = q[i + 1]
  OBVIOUS

\* Appending to a sequence.
LEMMA AppendOne ==
    ASSUME NEW S, NEW q \in Seq(S), NEW e \in S
    PROVE  /\ Append(q, e) \in Seq(S) /\ Len(Append(q, e)) = Len(q) + 1
           /\ Append(q, e)[Len(q) + 1] = e
           /\ \A i \in DOMAIN q : Append(q, e)[i] = q[i]
  OBVIOUS

\* Initially the queue is empty and nothing was posted.
LEMMA LoopInvInit == LoopInit => LoopInv
  <1> SUFFICES ASSUME LoopInit PROVE LoopInv
    OBVIOUS
  <1>1. LoopTypeOK
    <2>1. <<>> \in Seq(Events)
      OBVIOUS
    <2>2. QED
      BY <2>1 DEF LoopInit, LoopTypeOK
  <1>2. /\ Len(queue) = 0 /\ Len(posted) = 0 /\ Len(seen) = 0
        /\ DOMAIN queue = {} /\ DOMAIN seen = {}
    BY DEF LoopInit
  <1>3. SeenIsPrefix
    BY <1>2 DEF LoopInit, SeenIsPrefix
  <1>4. QueueIsTheRest
    BY <1>2 DEF LoopInit, QueueIsTheRest, Popped
  <1>5. QED
    BY <1>1, <1>3, <1>4 DEF LoopInit, LoopInv, NoLostWakeup

\* pushEvent keeps the invariant.
LEMMA PushStep ==
    ASSUME LoopInv, NEW e \in Events, PushEvent(e)
    PROVE  LoopInv'
  <1> USE DEF LoopInv, LoopTypeOK
  <1>1. /\ queue' = Append(queue, e) /\ posted' = Append(posted, e)
        /\ UNCHANGED <<quit, loop, destroyed, seen>>
        /\ notified' = (notified \/ loop = "asleep")
    BY DEF PushEvent, NotifyAll
  <1>2. LoopTypeOK'
    BY <1>1, AppendOne
  <1>3. /\ Len(queue') = Len(queue) + 1 /\ Len(posted') = Len(posted) + 1
        /\ queue'[Len(queue) + 1] = e /\ posted'[Len(posted) + 1] = e
        /\ \A i \in 1 .. Len(queue) : queue'[i] = queue[i]
        /\ \A i \in 1 .. Len(posted) : posted'[i] = posted[i]
        /\ DOMAIN queue' = 1 .. Len(queue') /\ DOMAIN queue = 1 .. Len(queue)
        /\ Len(queue) \in Nat /\ Len(posted) \in Nat /\ Len(seen) \in Nat
    BY <1>1, <1>2
  <1>4. SeenIsPrefix'
    BY <1>1, <1>3 DEF SeenIsPrefix
  <1>5. Popped' = Popped /\ Popped \in Nat /\ Popped + Len(queue) = Len(posted)
    BY <1>1, <1>3 DEF QueueIsTheRest, Popped
  <1>6. QueueIsTheRest'
    <2>1. ASSUME NEW i \in 1 .. Len(queue) + 1
          PROVE  queue'[i] = posted'[Popped + i]
      <3>1. CASE i = Len(queue) + 1
        BY ONLY <1>3, <1>5, <3>1
      <3>2. CASE i \in 1 .. Len(queue)
        <4>1. queue'[i] = queue[i] /\ queue[i] = posted[Popped + i]
          BY <1>3, <3>2 DEF QueueIsTheRest
        <4>2. Popped + i \in 1 .. Len(posted)
          BY ONLY <1>3, <1>5, <3>2
        <4>3. QED
          BY ONLY <1>3, <4>1, <4>2
      <3>3. QED
        BY ONLY <1>3, <2>1, <3>1, <3>2
    <2>2. Len(queue') = Len(posted') - Popped'
      BY ONLY <1>3, <1>5
    <2>3. loop' \in {"callback", "relock"} => Len(seen') > 0
      BY <1>1 DEF QueueIsTheRest
    <2>4. \A i \in DOMAIN queue' : queue'[i] = posted'[Popped' + i]
      BY ONLY <1>3, <1>5, <2>1
    <2>5. QED
      BY ONLY <2>2, <2>3, <2>4 DEF QueueIsTheRest
  <1>7. NoLostWakeup'
    BY <1>1 DEF NoLostWakeup
  <1>8. QED
    BY <1>2, <1>4, <1>6, <1>7

\* A section of the queue thread keeps the invariant.
LEMMA SectionStep ==
    ASSUME LoopInv, loop \in {"lock", "asleep"}, Section
    PROVE  LoopInv'
  <1> USE DEF LoopInv, LoopTypeOK
  <1>1. CASE queue # <<>> /\ ~quit
    <2>1. /\ seen' = Append(seen, Head(queue)) /\ loop' = "callback"
          /\ notified' = FALSE /\ UNCHANGED <<queue, quit, destroyed, posted>>
      BY <1>1 DEF Section, Front
    <2>2. LoopTypeOK'
      BY <1>1, <2>1, HeadTail, AppendOne
    <2>3. Len(seen') = Len(seen) + 1 /\ Len(seen) \in Nat
      BY <1>1, <2>1, HeadTail, AppendOne
    <2>4. QueueIsTheRest'
      BY <2>1, <2>3 DEF QueueIsTheRest, Popped
    <2>5. Len(queue) > 0 /\ Head(queue) = posted[Len(seen) + 1]
      BY <1>1, HeadTail DEF QueueIsTheRest, Popped
    <2>6. SeenIsPrefix'
      BY <2>1, <2>5, HeadTail DEF SeenIsPrefix, QueueIsTheRest, Popped
    <2>7. QED
      BY <2>1, <2>2, <2>4, <2>6 DEF NoLostWakeup
  <1>2. CASE queue = <<>> \/ quit
    <2>1. /\ loop' = (IF quit THEN "exit" ELSE "asleep")
          /\ notified' = FALSE
          /\ UNCHANGED <<queue, quit, destroyed, posted, seen>>
      BY <1>2 DEF Section
    <2>2. LoopTypeOK' /\ QueueIsTheRest' /\ SeenIsPrefix'
      BY <2>1 DEF QueueIsTheRest, Popped, SeenIsPrefix
    <2>3. NoLostWakeup'
      BY <1>2, <2>1 DEF NoLostWakeup
    <2>4. QED
      BY <2>2, <2>3
  <1>3. QED
    BY <1>1, <1>2

\* Popping an event, and going on to the next one, keeps the invariant.
LEMMA PopStep ==
    ASSUME LoopInv, PopEvent
    PROVE  LoopInv'
  <1> USE DEF LoopInv, LoopTypeOK
  <1>1. /\ loop = "relock" /\ queue' = Tail(queue) /\ loop' # "asleep"
        /\ UNCHANGED <<quit, notified, destroyed, posted>>
    BY DEF PopEvent
  <1>2. /\ Len(seen) > 0 /\ Len(seen) \in Nat /\ Len(posted) \in Nat
        /\ Popped = Len(seen) - 1 /\ Len(queue) = Len(posted) - Popped
        /\ Len(queue) > 0 /\ queue # <<>>
    BY <1>1 DEF QueueIsTheRest, SeenIsPrefix, Popped
  <1> DEFINE rest == Tail(queue)
  <1>3. /\ rest \in Seq(Events) /\ Len(rest) = Len(queue) - 1
        /\ DOMAIN rest = 1 .. Len(rest) /\ DOMAIN queue = 1 .. Len(queue)
        /\ \A i \in DOMAIN rest : rest[i] = queue[i + 1]
        /\ rest # <<>> => Head(rest) = rest[1]
    BY <1>2, HeadTail
  <1>4. \A i \in DOMAIN rest : rest[i] = posted[Len(seen) + i]
    <2>1. ASSUME NEW i \in DOMAIN rest
          PROVE  queue[i + 1] = posted[Popped + (i + 1)]
                 /\ Popped + (i + 1) = Len(seen) + i
      <3>1. i + 1 \in DOMAIN queue /\ i \in Nat
        BY ONLY <1>2, <1>3, <2>1
      <3>2. queue[i + 1] = posted[Popped + (i + 1)]
        BY <3>1 DEF QueueIsTheRest
      <3>3. Popped + (i + 1) = Len(seen) + i
        BY ONLY <1>2, <3>1
      <3>4. QED
        BY <3>2, <3>3
    <2>2. QED
      BY ONLY <1>3, <2>1
  <1> HIDE DEF rest
  <1>5. NoLostWakeup'
    BY <1>1 DEF NoLostWakeup
  <1>6. CASE rest # <<>>
    <2>1. seen' = Append(seen, Head(rest)) /\ loop' = "callback"
      BY <1>6 DEF PopEvent, rest
    <2>2. Len(rest) > 0 /\ Head(rest) \in Events
      BY <1>3, <1>4, <1>6
    <2>3. Head(rest) = posted[Len(seen) + 1] /\ Len(posted) > Len(seen)
      <3>1. 1 \in DOMAIN rest /\ Head(rest) = rest[1]
        BY ONLY <1>3, <1>6, <2>2
      <3>2. Head(rest) = posted[Len(seen) + 1]
        BY ONLY <1>4, <3>1
      <3>3. Len(posted) > Len(seen)
        BY ONLY <1>2, <1>3, <2>2
      <3>4. QED
        BY <3>2, <3>3
    <2> loop' = "callback"
      BY <2>1
    <2>4. /\ seen' \in Seq(Events) /\ Len(seen') = Len(seen) + 1
          /\ seen'[Len(seen) + 1] = posted[Len(seen) + 1]
          /\ \A i \in 1 .. Len(seen) : seen'[i] = seen[i]
          /\ DOMAIN seen' = 1 .. Len(seen) + 1 /\ DOMAIN seen = 1 .. Len(seen)
      BY <2>1, <2>2, <2>3
    <2>5. LoopTypeOK'
      BY <1>1, <1>3, <1>4, <2>1, <2>4 DEF rest
    <2>6. SeenIsPrefix'
      <3>1. Len(seen') <= Len(posted')
        BY ONLY <1>1, <1>2, <2>3, <2>4
      <3>2. ASSUME NEW i \in 1 .. Len(seen) + 1 PROVE seen'[i] = posted[i]
        <4>1. CASE i = Len(seen) + 1
          BY ONLY <2>4, <4>1
        <4>2. CASE i \in 1 .. Len(seen)
          BY <2>4, <4>2 DEF SeenIsPrefix
        <4>3. QED
          BY <1>2, <3>2, <4>1, <4>2
      <3>3. QED
        BY ONLY <1>1, <2>4, <3>1, <3>2 DEF SeenIsPrefix
    <2>7. Popped' = Len(seen)
      <3>1. Popped' = Len(seen') - 1
        BY DEF Popped
      <3>2. QED
        BY ONLY <1>2, <2>4, <3>1
    <2>8. QueueIsTheRest'
      BY ONLY <1>1, <1>2, <1>3, <1>4, <2>4, <2>7 DEF QueueIsTheRest, rest
    <2>9. QED
      BY <1>5, <2>5, <2>6, <2>8
  <1>7. CASE rest = <<>>
    <2>1. seen' = seen /\ loop' = "top"
      BY <1>7 DEF PopEvent, rest
    <2>2. LoopTypeOK'
      BY <1>1, <1>3, <1>4, <2>1 DEF rest
    <2>3. SeenIsPrefix'
      BY <1>1, <2>1 DEF SeenIsPrefix
    <2>4. Popped' = Len(seen)
      BY ONLY <2>1 DEF Popped
    <2>5. QueueIsTheRest'
      BY ONLY <1>1, <1>2, <1>3, <1>4, <2>1, <2>4 DEF QueueIsTheRest, rest
    <2>6. QED
      BY <1>5, <2>2, <2>3, <2>5
  <1>8. QED
    BY <1>6, <1>7

\* Every step keeps the invariant.
LEMMA LoopInvStep == LoopInv /\ [LoopNext]_loopVars => LoopInv'
  <1> SUFFICES ASSUME LoopInv, [LoopNext]_loopVars PROVE LoopInv'
    OBVIOUS
  <1>1. ASSUME NEW e \in Events, PushEvent(e) PROVE LoopInv'
    BY <1>1, PushStep
  <1>2. CASE LoopTop
    BY <1>2 DEF LoopInv, LoopTypeOK, SeenIsPrefix, QueueIsTheRest, Popped, NoLostWakeup, LoopTop
  <1>3. CASE LockQueue \/ Wake \/ SpuriousWake
    BY <1>3, SectionStep DEF LockQueue, Wake, SpuriousWake
  <1>4. CASE CallbackReturns
    BY <1>4 DEF LoopInv, LoopTypeOK, SeenIsPrefix, QueueIsTheRest, Popped, NoLostWakeup,
                CallbackReturns
  <1>5. CASE PopEvent
    BY <1>5, PopStep
  <1>6. CASE Quit
    BY <1>6 DEF LoopInv, LoopTypeOK, SeenIsPrefix, QueueIsTheRest, Popped, NoLostWakeup, Quit,
                NotifyAll
  <1>7. CASE Join
    BY <1>7 DEF LoopInv, LoopTypeOK, SeenIsPrefix, QueueIsTheRest, Popped, NoLostWakeup, Join
  <1>8. CASE UNCHANGED loopVars
    BY <1>8 DEF LoopInv, LoopTypeOK, SeenIsPrefix, QueueIsTheRest, Popped, NoLostWakeup, loopVars
  <1>9. QED
    BY <1>1, <1>2, <1>3, <1>4, <1>5, <1>6, <1>7, <1>8
       DEF LoopNext, QueueThread, Halt

\* The invariant holds in every reachable state.
THEOREM LoopInvariance == LoopSpec => []LoopInv
  BY LoopInvInit, LoopInvStep, PTL DEF LoopSpec

\* The queue holds exactly what was posted and not popped, and the event in use
\* by reference is its front.
THEOREM QueueIntegrity == LoopSpec => [](QueueIsTheRest /\ FrontIsInUse)
  <1>1. LoopInv => QueueIsTheRest /\ FrontIsInUse
    <2> SUFFICES ASSUME LoopInv, loop \in {"callback", "relock"}
                 PROVE  queue # <<>> /\ Head(queue) = seen[Len(seen)]
      BY DEF LoopInv, FrontIsInUse
    <2>1. Len(seen) > 0 /\ Popped = Len(seen) - 1
      BY DEF LoopInv, QueueIsTheRest, Popped
    <2>2. Len(seen) \in Nat /\ Len(queue) > 0
      BY <2>1 DEF LoopInv, LoopTypeOK, QueueIsTheRest, SeenIsPrefix
    <2>3. Head(queue) = posted[Len(seen)]
      BY <2>1, <2>2, HeadTail DEF LoopInv, LoopTypeOK, QueueIsTheRest
    <2>4. QED
      BY <2>1, <2>2, <2>3 DEF LoopInv, LoopTypeOK, SeenIsPrefix
  <1>2. QED
    BY <1>1, LoopInvariance, PTL

\* No wake-up of the queue thread is lost.
THEOREM WakeupsAreKept == LoopSpec => []NoLostWakeup
  <1>1. LoopInv => NoLostWakeup
    BY DEF LoopInv
  <1>2. QED
    BY <1>1, LoopInvariance, PTL

-----------------------------------------------------------------------------
\* Handing the front to the callback dispatches the next event posted.
LEMMA DispatchNext ==
    ASSUME LoopTypeOK, NEW e, e = posted[Len(seen) + 1], Len(seen) < Len(posted),
           seen' = Append(seen, e), UNCHANGED <<posted, quit>>
    PROVE  Channel!Dispatch
  BY DEF Channel!Dispatch

\* Every step of the loop is a step of the channel or a stutter.
LEMMA ChannelStep ==
    ASSUME LoopInv, [LoopNext]_loopVars
    PROVE  [Channel!Next]_(Channel!vars)
  <1> USE DEF Channel!vars
  <1>1. ASSUME NEW e \in Events, PushEvent(e) PROVE Channel!Post(e)
    BY <1>1 DEF PushEvent, Channel!Post
  <1>2. ASSUME loop \in {"lock", "asleep"}, Section
        PROVE  [Channel!Next]_(Channel!vars)
    <2>1. CASE queue # <<>> /\ ~quit
      <3>1. /\ Head(queue) = posted[Len(seen) + 1]
            /\ Len(seen) < Len(posted)
        BY <1>2, <2>1, HeadTail DEF LoopInv, LoopTypeOK, QueueIsTheRest, Popped
      <3>2. Channel!Dispatch
        BY <1>2, <2>1, <3>1, DispatchNext DEF Section, Front, LoopInv
      <3>3. QED
        BY <3>2 DEF Channel!Next
    <2>2. CASE queue = <<>> \/ quit
      BY <1>2, <2>2 DEF Section
    <2>3. QED
      BY <2>1, <2>2
  <1>3. ASSUME PopEvent PROVE [Channel!Next]_(Channel!vars)
    <2>1. CASE Tail(queue) # <<>>
      <3>1. queue # <<>> /\ Len(seen) > 0 /\ Popped = Len(seen) - 1
        BY <1>3 DEF PopEvent, LoopInv, LoopTypeOK, QueueIsTheRest, Popped, SeenIsPrefix
      <3>2. /\ Head(Tail(queue)) = posted[Len(seen) + 1]
            /\ Len(seen) < Len(posted)
        BY <2>1, <3>1, HeadTail DEF LoopInv, LoopTypeOK, QueueIsTheRest
      <3>3. Channel!Dispatch
        BY <1>3, <2>1, <3>2, DispatchNext DEF PopEvent, LoopInv
      <3>4. QED
        BY <3>3 DEF Channel!Next
    <2>2. CASE Tail(queue) = <<>>
      BY <1>3, <2>2 DEF PopEvent
    <2>3. QED
      BY <2>1, <2>2
  <1>4. ASSUME Quit PROVE Channel!Close
    BY <1>4 DEF Quit, Channel!Close
  <1>5. CASE LoopTop \/ CallbackReturns \/ Join \/ UNCHANGED loopVars
    BY <1>5 DEF LoopTop, CallbackReturns, Join, loopVars
  <1>6. QED
    BY <1>1, <1>2, <1>3, <1>4, <1>5
       DEF LoopNext, QueueThread, LockQueue, Wake, SpuriousWake, Halt, Channel!Next

\* The loop implements the channel: every event is dispatched at most once and
\* in the order of the posts.
THEOREM Refinement == LoopSpec => ImplementsChannel
  <1>1. LoopInit => Channel!Init
    BY DEF LoopInit, Channel!Init
  <1>2. LoopInv /\ [LoopNext]_loopVars => [Channel!Next]_(Channel!vars)
    BY ChannelStep
  <1>3. QED
    BY <1>1, <1>2, LoopInvariance, PTL DEF LoopSpec, Channel!Spec, ImplementsChannel

-----------------------------------------------------------------------------
(* The objects, the proxies and the posts around the loop.                 *)

Stages == {"idle", "push", "notify", "publish", "call", "lock", "filter", "filtering",
           "revent", "reventing"}
Calls  == [stage : Stages, event : 0..MaxEvents, target : Objects \cup {None},
           watcher : Objects \cup {None}]

\* An object an event may go to: it is there, and nobody sets its watcher.
Free(o) == Alive(o) /\ setting[o] = None

\* What a thread's call may be: in range, and for a careful client with living
\* objects only.
CallFits(r) ==
    /\ r \in Calls
    /\ r.stage # "idle" => r.event \in Numbers /\ r.target \in Objects
CallIsSafe(r) ==
    /\ r.target # None => Free(r.target)
    /\ r.watcher # None => Alive(r.watcher)
    /\ r.stage = "call" => bare[r.target] # None
    /\ r.stage = "lock" => weak[r.target] # None

\* The invariant's parts on the objects, without the calls and the loop.
ObjectTypes ==
    /\ life \in [Objects -> {"unborn", "installing", "alive", "gone"}]
    /\ plugin \in [Proxies -> Plugins \cup {None}]
    /\ bare \in [Objects -> Objects \cup {None}]
    /\ weak \in [Objects -> Objects \cup {None}]
    /\ setting \in [Objects -> Objects \cup {None}]
    /\ newest \in [Plugins -> Proxies \cup {None}]
RestTypes ==
    /\ reenters \subseteq Listeners
    /\ holder \in [Listeners -> Threads \cup {None}]
    /\ events \in 0..MaxEvents
    /\ careless \in BOOLEAN /\ crashed \in BOOLEAN

NewestLive == \A o \in Plugins : newest[o] # None => life[newest[o]] = "alive"
GoneBelow ==
    \A n \in Nodes : life[n] = "gone" /\ Parent[n] # None => life[Parent[n]] = "gone"
SettingLive ==
    \A o \in Objects : setting[o] # None => Alive(o) /\ Alive(setting[o])
QueueIsSafe == \A i \in 1..Len(queue) : Waits(i) => Free(queue[i].target)

\* The invariant, taken apart as the proofs need it.
InvParts ==
    /\ ObjectTypes /\ RestTypes /\ LoopInv /\ WatchersFit /\ LivesFit
    /\ call \in [Threads -> Calls]
    /\ \A t \in Threads : CallFits(call[t])
    /\ call[Loop].stage # "idle" => loop = "callback"
    /\ queue \in Seq(Jobs)
    /\ ~careless => /\ ~crashed /\ NewestLive /\ GoneBelow /\ SettingLive /\ QueueIsSafe
                    /\ \A t \in Threads : CallIsSafe(call[t])

\* That no target of an event has its watcher changed is said of the watchers in
\* the invariant, and of the targets here.
LEMMA TargetsFree ==
    ASSUME call \in [Threads -> Calls], queue \in Seq(Jobs),
           setting \in [Objects -> Objects \cup {None}]
    PROVE  (\A o \in Objects : setting[o] # None => ~IsTarget(o))
           <=> /\ \A t \in Threads :
                      call[t].target # None => setting[call[t].target] = None
               /\ \A i \in 1..Len(queue) : Waits(i) => setting[queue[i].target] = None
  <1>1. /\ \A t \in Threads : call[t].target \in Objects \cup {None}
        /\ \A i \in 1..Len(queue) : queue[i].target \in Objects
        /\ None \notin Objects
    <2>1. \A j \in Jobs : j.target \in Objects
      BY DEF Jobs
    <2>2. \A i \in 1..Len(queue) : queue[i] \in Jobs
      OBVIOUS
    <2>3. \A r \in Calls : r.target \in Objects \cup {None}
      BY DEF Calls
    <2>4. None \notin Objects
      BY ConstantsAssumption DEF Objects
    <2>5. QED
      BY <2>1, <2>2, <2>3, <2>4
  <1>2. \A o :
            IsTarget(o) <=> \/ \E t \in Threads : call[t].target = o
                            \/ \E i \in 1..Len(queue) :
                                   Waits(i) /\ queue[i].target = o
    BY DEF IsTarget
  <1>3. QED
    BY ONLY <1>1, <1>2

LEMMA Parts == IInv <=> InvParts
  <1> DEFINE Types == /\ TypeOK /\ LoopInv /\ CallsAreReal /\ WatchersFit /\ LivesFit
  <1>1. Types <=> /\ ObjectTypes /\ RestTypes /\ LoopInv /\ WatchersFit /\ LivesFit
                  /\ call \in [Threads -> Calls]
                  /\ \A t \in Threads : CallFits(call[t])
                  /\ call[Loop].stage # "idle" => loop = "callback"
                  /\ queue \in Seq(Jobs)
    BY DEF TypeOK, CallsAreReal, ObjectTypes, RestTypes, Calls, Stages, CallFits, LoopInv
  <1>2. ASSUME Types
        PROVE  Careful <=> /\ ~crashed /\ NewestLive /\ GoneBelow /\ SettingLive
                           /\ QueueIsSafe
                           /\ \A t \in Threads : CallIsSafe(call[t])
    <2>1. /\ call \in [Threads -> Calls] /\ queue \in Seq(Jobs)
          /\ setting \in [Objects -> Objects \cup {None}]
      BY <1>1, <1>2 DEF ObjectTypes
    <2>2. QED
      BY <2>1, TargetsFree
         DEF Careful, NewestLive, GoneBelow, SettingLive, QueueIsSafe, CallIsSafe, Free
  <1>3. QED
    BY <1>1, <1>2 DEF IInv, InvParts

\* The same of the next state.
LEMMA PartsNext == IInv' <=> InvParts'
  BY Parts, PTL

USE DEF InvParts

\* A thread's call becomes r, and the objects stay as they are.
LEMMA CallStep ==
    ASSUME IInv, LoopInv', NEW t \in Threads, NEW r, CallFits(r),
           call' = [call EXCEPT ![t] = r],
           UNCHANGED <<treeVars, watchVars, reenters>>,
           careless' \in BOOLEAN, careless => careless',
           holder' \in [Listeners -> Threads \cup {None}],
           events' \in 0..MaxEvents, crashed' \in BOOLEAN,
           queue' \in Seq(Jobs), call'[Loop].stage # "idle" => loop' = "callback",
           ~careless' => ~crashed' /\ CallIsSafe(r) /\ QueueIsSafe'
    PROVE  IInv'
  <1> USE Parts
  <1>1. ObjectTypes' /\ RestTypes'
    BY DEF ObjectTypes, RestTypes, treeVars, watchVars
  <1>2. WatchersFit' /\ LivesFit'
    BY DEF WatchersFit, LivesFit, Alive, treeVars, watchVars
  <1>3. call' \in [Threads -> Calls]
    BY DEF CallFits
  <1>4. \A u \in Threads : call'[u] = (IF u = t THEN r ELSE call[u])
    OBVIOUS
  <1>5. \A u \in Threads : CallFits(call'[u])
    BY <1>4
  <1>6. ASSUME ~careless' PROVE \A u \in Threads : CallIsSafe(call[u])'
    <2>1. ~careless
      BY <1>6
    <2>2. \A u \in Threads : CallIsSafe(call'[u])
      BY <1>4, <1>6, <2>1
    <2>3. QED
      BY <2>2 DEF CallIsSafe, Free, Alive, treeVars, watchVars
  <1>7. ASSUME ~careless'
        PROVE  ~crashed' /\ NewestLive' /\ GoneBelow' /\ SettingLive' /\ QueueIsSafe'
    BY <1>7 DEF NewestLive, GoneBelow, SettingLive, Alive, treeVars, watchVars
  <1>8. QED
    BY ONLY <1>1, <1>2, <1>3, <1>5, <1>6, <1>7, LoopInv', PartsNext, queue' \in Seq(Jobs),
            call'[Loop].stage # "idle" => loop' = "callback"

\* What waits in the queue stays safe while the queue and the lives stay.
LEMMA QueueKept ==
    ASSUME IInv, ~careless, UNCHANGED <<life, setting, loopVars>>
    PROVE  QueueIsSafe'
  BY Parts DEF QueueIsSafe, Waits, Free, Alive, loopVars

\* Going to another stage of the call.
LEMMA ToIs ==
    ASSUME IInv, NEW t \in Threads, NEW st, NEW w, To(t, st, w)
    PROVE  call' = [call EXCEPT ![t] = [stage |-> st, event |-> call[t].event,
                                        target |-> call[t].target, watcher |-> w]]
  BY DEF To

\* A call that is in a stage fits and, of a careful client, is safe.
LEMMA CallNow ==
    ASSUME IInv, NEW t \in Threads
    PROVE  /\ call[t] \in Calls /\ CallFits(call[t])
           /\ call[t].stage # "idle" =>
                 call[t].event \in Numbers /\ call[t].target \in Objects
           /\ call[t].watcher \in Objects \cup {None}
           /\ ~careless => CallIsSafe(call[t])
           /\ t = Loop /\ call[t].stage # "idle" => loop = "callback"
  BY Parts DEF CallFits, Calls

\* A thread that is in a call goes on to another stage of it, or is done.
LEMMA StageStep ==
    ASSUME IInv, NEW t \in Threads, call[t].stage # "idle",
           NEW st \in Stages, NEW w \in Objects \cup {None},
           \/ To(t, st, w)
           \/ call' = [call EXCEPT ![t] = Idle],
           UNCHANGED <<treeVars, watchVars, reenters, events, loopVars, careless>>,
           holder' \in [Listeners -> Threads \cup {None}],
           crashed' \in BOOLEAN,
           ~careless => /\ ~crashed'
                        /\ w # None => Alive(w)
                        /\ st = "call" => bare[call[t].target] # None
                        /\ st = "lock" => weak[call[t].target] # None
    PROVE  IInv'
  <1>1. LoopInv'
    BY Parts, LoopInvStep DEF loopVars
  <1>2. PICK r : /\ call' = [call EXCEPT ![t] = r]
                 /\ r \in {Idle, [stage |-> st, event |-> call[t].event,
                                  target |-> call[t].target, watcher |-> w]}
    BY ToIs
  <1>3. CallFits(r)
    BY <1>2, CallNow, ConstantsAssumption DEF CallFits, Calls, Stages, Idle
  <1>4. ASSUME ~careless PROVE CallIsSafe(r)
    BY <1>2, <1>4, CallNow DEF CallIsSafe, Idle
  <1>5. call'[Loop].stage # "idle" => loop' = "callback"
    BY <1>2, CallNow, Parts DEF Threads, loopVars
  <1>6. events' \in 0..MaxEvents /\ queue' \in Seq(Jobs)
    BY Parts DEF RestTypes, loopVars
  <1>7. ASSUME ~careless PROVE QueueIsSafe'
    BY <1>7, QueueKept DEF treeVars, watchVars
  <1>8. careless \in BOOLEAN
    BY Parts DEF RestTypes
  <1>9. QED
    BY <1>1, <1>2, <1>3, <1>4, <1>5, <1>6, <1>7, <1>8, CallStep

\* Using the watchers of an object that is free fails if they are bad.
LEMMA UsesIs ==
    ASSUME NEW o, NEW bad \in BOOLEAN, Uses(o, bad)
    PROVE  crashed' \in BOOLEAN /\ (~bad /\ setting[o] = None => ~crashed')
  <1>1. crashed' = bad \/ crashed' = (bad \/ setting[o] # None)
    BY DEF Uses
  <1>2. CASE crashed' = bad
    BY <1>2
  <1>3. CASE crashed' = (bad \/ setting[o] # None)
    <2>1. crashed' \in BOOLEAN /\ (crashed' <=> bad \/ setting[o] # None)
      BY <1>3
    <2>2. QED
      BY <2>1
  <1>4. QED
    BY <1>1, <1>2, <1>3

\* Notifying an object, as far as it is the caller's own business.
LEMMA NotifyStep ==
    ASSUME IInv, ~crashed, NEW t \in Threads, Notify(t)
    PROVE  IInv'
  <1> DEFINE o == call[t].target
             w == call[t].watcher
  <1>1. /\ call[t].stage # "idle" => o \in Objects
        /\ w \in Objects \cup {None}
        /\ ~careless => CallIsSafe(call[t])
    BY CallNow
  <1>2. holder \in [Listeners -> Threads \cup {None}] /\ crashed \in BOOLEAN
    BY Parts DEF RestTypes
  <1>3. /\ call[t].stage # "idle" => o # None
        /\ None \notin Proxies \cup {System}
    BY <1>1, ConstantsAssumption DEF Objects
  <1>4. CASE notifyied(t)
    <2>1. PICK st \in {"call", "lock", "revent"} :
              /\ To(t, st, None)
              /\ st = "call" => bare[o] # None
              /\ st = "lock" => weak[o] # None
      BY <1>4 DEF notifyied
    <2>2. /\ call[t].stage = "notify" /\ Uses(o, ~Alive(o))
          /\ UNCHANGED <<treeVars, watchVars, reenters, holder, events, loopVars,
                         careless>>
      BY <1>4 DEF notifyied, subVars
    <2>3. crashed' \in BOOLEAN /\ (~careless => ~crashed')
      BY <1>1, <1>3, <2>2, UsesIs DEF CallIsSafe, Free, Alive
    <2>4. QED
      BY <1>2, <2>1, <2>2, <2>3, StageStep DEF Stages
  <1>5. CASE CallWatcher(t)
    <2>1. /\ call[t].stage = "call" /\ Uses(o, ~Alive(o) \/ bare[o] = None)
          /\ To(t, "filter", bare[o])
          /\ UNCHANGED <<treeVars, watchVars, reenters, holder, events, loopVars,
                         careless>>
      BY <1>5 DEF CallWatcher, subVars
    <2>2. bare[o] \in Objects \cup {None}
      BY <1>1, <2>1, Parts DEF ObjectTypes
    <2>3. ASSUME ~careless, bare[o] # None PROVE Alive(bare[o])
      BY <1>1, <2>1, <2>3, Parts DEF WatchersFit, NewestLive, Alive
    <2>4. crashed' \in BOOLEAN /\ (~careless => ~crashed')
      BY <1>1, <1>3, <2>1, UsesIs DEF CallIsSafe, Free, Alive
    <2>5. QED
      BY <1>2, <2>1, <2>2, <2>3, <2>4, StageStep DEF Stages
  <1>6. CASE LockWatcher(t)
    <2>1. /\ call[t].stage = "lock" /\ Uses(o, ~Alive(o) \/ weak[o] = None)
          /\ To(t, "revent", None)
          /\ UNCHANGED <<treeVars, watchVars, reenters, holder, events, loopVars,
                         careless>>
      BY <1>6 DEF LockWatcher, subVars
    <2>2. crashed' \in BOOLEAN /\ (~careless => ~crashed')
      BY <1>1, <1>3, <2>1, UsesIs DEF CallIsSafe, Free, Alive
    <2>3. QED
      BY <1>2, <2>1, <2>2, StageStep DEF Stages
  <1>7. CASE Listen(t)
    <2>1. /\ call[t].stage \in {"filter", "revent", "publish"}
          /\ crashed' = ~Alive(Callee(t))
          /\ Callee(t) \in Listeners /\ holder' = [holder EXCEPT ![Callee(t)] = t]
          /\ UNCHANGED <<treeVars, watchVars, reenters, events, loopVars, careless>>
      BY <1>7 DEF Listen
    <2>2. PICK st \in {"filtering", "reventing"} : To(t, st, w)
      BY <1>7 DEF Listen
    <2>3. ~careless => Alive(Callee(t))
      BY <1>1, <2>1, ConstantsAssumption DEF Callee, CallIsSafe, Free, Listeners
    <2>4. ~careless => (w # None => Alive(w))
      BY <1>1 DEF CallIsSafe
    <2>5. holder' \in [Listeners -> Threads \cup {None}]
      BY <1>2, <2>1
    <2>6. st \in Stages /\ st \notin {"call", "lock"} /\ call[t].stage # "idle"
      BY <2>1, <2>2 DEF Stages
    <2>7. QED
      BY <1>1, <2>1, <2>2, <2>3, <2>4, <2>5, <2>6, StageStep
  <1>8. CASE Heard(t)
    <2>1. /\ call[t].stage \in {"filtering", "reventing"}
          /\ UNCHANGED <<treeVars, watchVars, reenters, events, loopVars, careless, crashed>>
          /\ To(t, "revent", None) \/ call' = [call EXCEPT ![t] = Idle]
      BY <1>8 DEF Heard
    <2>2. holder' \in [Listeners -> Threads \cup {None}]
      BY <1>2, <1>8 DEF Heard
    <2>3. "revent" \in Stages /\ call[t].stage # "idle" /\ crashed' \in BOOLEAN
      BY <1>2, <2>1 DEF Stages
    <2>4. QED
      BY <2>1, <2>2, <2>3, StageStep, Parts
  <1>9. CASE revent(t)
    <2>1. /\ call[t].stage = "revent" /\ crashed' = ~Alive(o)
          /\ call' = [call EXCEPT ![t] = Idle]
          /\ UNCHANGED <<treeVars, watchVars, reenters, holder, events, loopVars, careless>>
      BY <1>9 DEF revent, subVars
    <2>2. ~careless => Alive(o)
      BY <1>1, <1>3, <2>1 DEF CallIsSafe, Free
    <2>3. "revent" \in Stages
      BY DEF Stages
    <2>4. QED
      BY <1>2, <2>1, <2>2, <2>3, StageStep
  <1>10. QED
    BY <1>4, <1>6, <1>7, <1>8, <1>9, <1>5 DEF Notify

\* Sending, posting and publishing start with a target that is alive.
LEMMA MakeStep ==
    ASSUME IInv, ~crashed, NEW t \in Clients, NEW o \in Objects,
           NEW st \in {"notify", "push", "publish"}, Make(t, o, st)
    PROVE  IInv'
  <1> DEFINE r == [stage |-> st, event |-> events + 1, target |-> o, watcher |-> None]
  <1>1. /\ Alive(o) /\ events < MaxEvents /\ events' = events + 1
        /\ call' = [call EXCEPT ![t] = r]
        /\ call[t].stage = "idle"
        /\ careless' = (careless \/ setting[o] # None)
        /\ UNCHANGED <<treeVars, watchVars, reenters, holder, loopVars, crashed>>
    BY DEF Make, subVars
  <1>2. events \in 0..MaxEvents /\ events' \in 0..MaxEvents /\ events + 1 \in Numbers
    BY <1>1, Parts, ConstantsAssumption DEF RestTypes, Numbers
  <1>3. CallFits(r)
    BY <1>2 DEF CallFits, Calls, Stages, Numbers
  <1>4. ASSUME ~careless' PROVE ~crashed' /\ CallIsSafe(r) /\ QueueIsSafe'
    <2>1. ~careless /\ setting[o] = None
      BY <1>1, <1>4
    <2>2. QED
      BY <1>1, <2>1, QueueKept DEF CallIsSafe, Free, treeVars, watchVars
  <1>5. LoopInv'
    BY <1>1, Parts, LoopInvStep DEF loopVars
  <1>6. call'[Loop].stage # "idle" => loop' = "callback"
    BY <1>1, Parts, ConstantsAssumption DEF Threads, loopVars
  <1>7. /\ queue' \in Seq(Jobs) /\ crashed' \in BOOLEAN
        /\ holder' \in [Listeners -> Threads \cup {None}]
        /\ careless' \in BOOLEAN /\ (careless => careless')
    BY <1>1, Parts DEF RestTypes, loopVars
  <1>8. QED
    BY <1>1, <1>2, <1>3, <1>4, <1>5, <1>6, <1>7, CallStep DEF Threads

\* What a thread pushes is a job of the loop's, and so an event of its.
LEMMA JobFits ==
    ASSUME IInv, NEW t \in Threads, call[t].stage = "push"
    PROVE  Job(t) \in Jobs /\ Job(t) \in Events
  <1>1. call[t].event \in Numbers /\ call[t].target \in Objects
    BY CallNow
  <1>2. QED
    BY <1>1, JobsAssumption DEF Job, Jobs

\* Appending to a sequence of jobs.
LEMMA AppendJob ==
    ASSUME NEW q \in Seq(Jobs), NEW j \in Jobs
    PROVE  /\ Append(q, j) \in Seq(Jobs) /\ Len(Append(q, j)) = Len(q) + 1
           /\ Append(q, j)[Len(q) + 1] = j /\ Len(q) \in Nat
           /\ \A i \in 1..Len(q) : Append(q, j)[i] = q[i]
  OBVIOUS

\* A client's post reaches the queue behind the others.
LEMMA PushStepHere ==
    ASSUME IInv, ~crashed, NEW t \in Clients, Push(t)
    PROVE  IInv'
  <1>1. /\ call[t].stage = "push" /\ PushEvent(Job(t))
        /\ call' = [call EXCEPT ![t] = Idle]
        /\ queue' = Append(queue, Job(t)) /\ loop' = loop
        /\ UNCHANGED <<treeVars, watchVars, reenters, holder, events, careless, crashed>>
    BY DEF Push, PushEvent, subVars
  <1>2. Job(t) \in Jobs /\ Job(t) \in Events /\ t \in Threads
    BY <1>1, JobFits DEF Threads
  <1>3. LoopInv'
    BY <1>1, <1>2, Parts, PushStep
  <1>4. CallFits(Idle) /\ CallIsSafe(Idle)
    BY ConstantsAssumption DEF CallFits, Calls, Stages, CallIsSafe, Idle
  <1>5. queue \in Seq(Jobs)
    BY Parts
  <1>6. /\ queue' \in Seq(Jobs) /\ Len(queue') = Len(queue) + 1 /\ Len(queue) \in Nat
        /\ queue'[Len(queue) + 1] = Job(t)
        /\ \A i \in 1..Len(queue) : queue'[i] = queue[i]
    BY ONLY <1>1, <1>2, <1>5, AppendJob
  <1>7. ASSUME ~careless PROVE ~crashed' /\ QueueIsSafe'
    <2>1. Free(Job(t).target)
      BY <1>1, <1>2, <1>7, CallNow, ConstantsAssumption DEF CallIsSafe, Job, Jobs, Objects
    <2>2. \A i \in 1..Len(queue) : Waits(i) => Free(queue[i].target)
      BY <1>7, Parts DEF QueueIsSafe
    <2>3. ASSUME NEW i \in 1..Len(queue'), Waits(i)' PROVE Free(queue'[i].target)
      <3>1. Waits(i)
        BY <1>1, <2>3 DEF Waits
      <3>2. i \in 1..Len(queue) \/ i = Len(queue) + 1
        BY ONLY <1>6, <2>3
      <3>3. QED
        BY <1>6, <2>1, <2>2, <3>1, <3>2
    <2>4. QED
      BY <1>1, <2>3 DEF QueueIsSafe, Free, Alive, treeVars, watchVars
  <1>8. /\ call'[Loop].stage # "idle" => loop' = "callback"
        /\ events' \in 0..MaxEvents /\ crashed' \in BOOLEAN
        /\ holder' \in [Listeners -> Threads \cup {None}]
        /\ careless \in BOOLEAN
    BY <1>1, Parts, ConstantsAssumption DEF Threads, RestTypes
  <1>9. QED
    BY <1>1, <1>2, <1>3, <1>4, <1>6, <1>7, <1>8, CallStep

\* The head and the tail of a queue of jobs.
LEMMA TailOfJobs ==
    ASSUME NEW q \in Seq(Jobs), q # <<>>
    PROVE  /\ Head(q) \in Jobs /\ Head(q) = q[1] /\ Len(q) \in Nat /\ Len(q) >= 1
           /\ Tail(q) \in Seq(Jobs) /\ Len(Tail(q)) = Len(q) - 1
           /\ \A i \in 1..Len(Tail(q)) : Tail(q)[i] = q[i + 1]
           /\ Tail(q) # <<>> => Len(q) >= 2 /\ Head(Tail(q)) = q[2] /\ q[2] \in Jobs
  OBVIOUS

\* The loop's thread gives its callback one job, which waited until then, or
\* none, and what still waits is what waited before.
LEMMA HandOver ==
    ASSUME IInv, QueueThread \/ SpuriousWake
    PROVE  /\ queue' \in Seq(Jobs)
           /\ ~careless => \A i \in 1..Len(queue') :
                               Waits(i)' => Free(queue'[i].target)
           /\ \/ seen' = seen /\ (loop = "callback" \/ loop' # "callback")
              \/ \E j \in Jobs : /\ seen' = Append(seen, j) /\ loop' = "callback"
                                 /\ ~careless => Free(j.target)
  <1>1. /\ queue \in Seq(Jobs) /\ Len(queue) \in Nat
        /\ ~careless => \A i \in 1..Len(queue) : Waits(i) => Free(queue[i].target)
    BY Parts DEF QueueIsSafe
  <1>2. CASE PopEvent
    <2>1. loop = "relock" /\ queue' = Tail(queue) /\ queue # <<>>
      BY <1>2, Parts DEF PopEvent, LoopInv, LoopTypeOK, SeenIsPrefix, QueueIsTheRest, Popped
    <2>2. /\ queue' \in Seq(Jobs) /\ Len(queue') = Len(queue) - 1 /\ Len(queue) >= 1
          /\ \A i \in 1..Len(queue') : queue'[i] = queue[i + 1]
      BY ONLY <1>1, <2>1, TailOfJobs
    <2>3. ASSUME ~careless, NEW i \in 1..Len(queue')
          PROVE  Free(queue'[i].target)
      <3>1. i + 1 \in 1..Len(queue) /\ i + 1 # 1
        BY ONLY <1>1, <2>2, <2>3
      <3>2. Free(queue[i + 1].target)
        BY <1>1, <2>3, <3>1 DEF Waits
      <3>3. QED
        BY <2>2, <3>2
    <2>4. CASE Tail(queue) # <<>>
      <3>1. /\ seen' = Append(seen, Head(Tail(queue))) /\ loop' = "callback"
            /\ Head(Tail(queue)) = queue'[1] /\ 1 \in 1..Len(queue') /\ queue'[1] \in Jobs
        BY <1>1, <1>2, <2>1, <2>2, <2>4, TailOfJobs DEF PopEvent
      <3>2. ~careless => Free(queue'[1].target)
        BY <2>3, <3>1
      <3>3. QED
        BY <2>2, <2>3, <3>1, <3>2
    <2>5. CASE Tail(queue) = <<>>
      BY <1>2, <2>2, <2>3, <2>5 DEF PopEvent
    <2>6. QED
      BY <2>4, <2>5
  <1>3. CASE loop \in {"lock", "asleep"} /\ Section
    <2>1. queue' = queue /\ \A i \in 1..Len(queue) : Waits(i)
      BY <1>3 DEF Section, Waits
    <2>2. CASE queue # <<>> /\ ~quit
      <3>1. /\ seen' = Append(seen, Head(queue)) /\ loop' = "callback"
            /\ Head(queue) \in Jobs /\ Head(queue) = queue[1] /\ 1 \in 1..Len(queue)
        BY <1>1, <1>3, <2>2, TailOfJobs DEF Section, Front
      <3>2. QED
        BY <1>1, <2>1, <3>1
    <2>3. CASE queue = <<>> \/ quit
      <3>1. seen' = seen /\ loop' # "callback"
        BY <1>3, <2>3 DEF Section
      <3>2. QED
        BY <1>1, <2>1, <3>1
    <2>4. QED
      BY <2>2, <2>3
  <1>4. CASE LoopTop \/ CallbackReturns
    <2>1. /\ seen' = seen /\ queue' = queue /\ loop' # "callback"
          /\ \A i \in 1..Len(queue) : Waits(i)' => Waits(i)
      BY <1>4 DEF LoopTop, CallbackReturns, Waits
    <2>2. QED
      BY <1>1, <2>1
  <1>5. QED
    BY <1>2, <1>3, <1>4 DEF QueueThread, LockQueue, Wake, SpuriousWake

\* The loop's own steps, and the handing of a job to its target.
LEMMA LoopStep ==
    ASSUME IInv, ~crashed, LoopThread \/ LoopWakes
    PROVE  IInv'
  <1>1. /\ QueueThread \/ SpuriousWake
        /\ loop = "callback" => call[Loop].stage = "idle"
        /\ onEventLoopPop
        /\ UNCHANGED <<treeVars, watchVars, reenters, holder, events, careless, crashed>>
    BY DEF LoopThread, LoopWakes, SpuriousWake, subVars
  <1>2. LoopInv'
    BY <1>1, Parts, LoopInvStep DEF LoopNext
  <1>3. /\ queue' \in Seq(Jobs)
        /\ ~careless => QueueIsSafe'
    BY <1>1, HandOver DEF QueueIsSafe, Free, Alive, treeVars, watchVars
  <1>4. Loop \in Threads /\ call \in [Threads -> Calls]
    BY Parts DEF Threads
  <1>5. PICK r : /\ call' = [call EXCEPT ![Loop] = r] /\ CallFits(r)
                 /\ ~careless => CallIsSafe(r)
                 /\ r.stage # "idle" => loop' = "callback"
    <2>1. CASE seen' = seen
      <3>1. call' = [call EXCEPT ![Loop] = call[Loop]]
        BY <1>1, <1>4, <2>1 DEF onEventLoopPop
      <3>2. call[Loop].stage = "idle"
        BY <1>1, Parts
      <3>3. QED
        BY <1>4, <3>1, <3>2, CallNow
    <2>2. ASSUME NEW j \in Jobs, seen' = Append(seen, j), loop' = "callback",
                 ~careless => Free(j.target)
          PROVE  \E r : /\ call' = [call EXCEPT ![Loop] = r] /\ CallFits(r)
                        /\ ~careless => CallIsSafe(r)
                        /\ r.stage # "idle" => loop' = "callback"
      <3> DEFINE r == [stage |-> "notify", event |-> j.event, target |-> j.target,
                       watcher |-> None]
      <3>1. j \in Events /\ seen \in Seq(Events)
        BY <2>2, Parts, JobsAssumption DEF LoopInv, LoopTypeOK
      <3>2. seen' # seen /\ seen'[Len(seen')] = j
        BY ONLY <2>2, <3>1, AppendOne
      <3>3. call' = [call EXCEPT ![Loop] = r]
        BY <1>1, <3>2 DEF onEventLoopPop
      <3>4. CallFits(r)
        BY <2>2, ConstantsAssumption DEF CallFits, Calls, Stages, Jobs, Numbers
      <3>5. ~careless => CallIsSafe(r)
        BY <2>2 DEF CallIsSafe
      <3>6. QED
        BY <2>2, <3>3, <3>4, <3>5
    <2>3. QED
      BY <1>1, <2>1, <2>2, HandOver
  <1>6. /\ events' \in 0..MaxEvents /\ crashed' \in BOOLEAN
        /\ holder' \in [Listeners -> Threads \cup {None}] /\ careless \in BOOLEAN
    BY <1>1, Parts DEF RestTypes
  <1>7. call'[Loop].stage # "idle" => loop' = "callback"
    BY <1>4, <1>5
  <1>8. ~careless => ~crashed'
    BY <1>1, Parts
  <1>9. QED
    BY <1>1, <1>2, <1>3, <1>4, <1>5, <1>6, <1>7, <1>8, CallStep

\* A step of a client's that touches no call and not the loop: it is enough
\* that whoever is in use stays alive, that the watchers of a target are not
\* about to be changed, and that a watcher about to be called or locked stays.
LEMMA ManageStep ==
    ASSUME IInv, UNCHANGED <<events, loopVars, call, holder>>,
           ObjectTypes', WatchersFit', LivesFit', reenters' \subseteq Listeners,
           careless' \in BOOLEAN, crashed' \in BOOLEAN,
           ~careless' => /\ ~careless /\ ~crashed' /\ NewestLive' /\ GoneBelow'
                         /\ SettingLive'
                         /\ \A o \in Objects : InUse(o) /\ Alive(o) => Alive(o)'
                         /\ \A o \in Objects :
                                IsTarget(o) => setting'[o] \in {None, setting[o]}
                         /\ \A t \in Threads : call[t].stage = "call" =>
                                bare'[call[t].target] # None
                         /\ \A t \in Threads : call[t].stage = "lock" =>
                                weak'[call[t].target] # None
    PROVE  IInv'
  <1>1. RestTypes' /\ LoopInv'
    BY Parts, LoopInvStep DEF RestTypes, loopVars
  <1>2. /\ call' \in [Threads -> Calls] /\ queue' \in Seq(Jobs)
        /\ \A t \in Threads : CallFits(call'[t])
        /\ call'[Loop].stage # "idle" => loop' = "callback"
    BY Parts DEF loopVars
  <1>3. ASSUME ~careless' PROVE \A t \in Threads : CallIsSafe(call[t])'
    <2> SUFFICES ASSUME NEW t \in Threads PROVE CallIsSafe(call[t])'
      OBVIOUS
    <2> DEFINE o == call[t].target
               w == call[t].watcher
    <2>1. /\ CallIsSafe(call[t]) /\ o \in Objects \cup {None}
          /\ w \in Objects \cup {None}
      BY <1>3, Parts, CallNow, ConstantsAssumption DEF Calls
    <2>2. InUse(o) /\ InUse(w) /\ IsTarget(o)
      BY DEF InUse, IsTarget
    <2>3. /\ o # None => Alive(o)' /\ setting'[o] = None
          /\ w # None => Alive(w)'
          /\ call[t].stage = "call" => bare'[o] # None
          /\ call[t].stage = "lock" => weak'[o] # None
      BY <1>3, <2>1, <2>2 DEF CallIsSafe, Free
    <2>4. call'[t] = call[t]
      OBVIOUS
    <2>5. QED
      BY <2>3, <2>4 DEF CallIsSafe, Free, Alive
  <1>4. ASSUME ~careless' PROVE QueueIsSafe'
    <2>1. ASSUME NEW i \in 1..Len(queue), Waits(i) PROVE Free(queue[i].target)'
      <3>1. queue[i] \in Jobs
        BY <2>1, Parts
      <3>2. queue[i].target \in Objects
        BY <3>1 DEF Jobs
      <3>3. Free(queue[i].target)
        BY <1>4, <2>1, Parts DEF QueueIsSafe
      <3>4. InUse(queue[i].target) /\ IsTarget(queue[i].target)
        BY <2>1 DEF InUse, IsTarget
      <3>5. queue' = queue
        BY DEF loopVars
      <3>6. life'[queue[i].target] \in {"installing", "alive"}
        BY <1>4, <3>2, <3>3, <3>4 DEF Free, Alive
      <3>7. setting'[queue[i].target] = None
        BY <1>4, <3>2, <3>3, <3>4 DEF Free
      <3>8. QED
        BY <3>5, <3>6, <3>7 DEF Free, Alive
    <2>2. UNCHANGED <<queue, loop>>
      BY DEF loopVars
    <2>3. QED
      BY <2>1, <2>2 DEF QueueIsSafe, Waits, Free, Alive
  <1>5. QED
    BY <1>1, <1>2, <1>3, <1>4, PartsNext

\* Opening a proxy, up to the moment its filter is set.
LEMMA OpenStep ==
    ASSUME IInv, ~crashed, ~careless,
           NEW p \in Proxies, NEW o \in Plugins \cup {None}, Open(p, o)
    PROVE  IInv'
  <1>1. /\ ObjectTypes /\ WatchersFit /\ LivesFit /\ ~crashed /\ NewestLive /\ GoneBelow
        /\ SettingLive /\ reenters \subseteq Listeners
        /\ \A t \in Threads : CallIsSafe(call[t]) /\ call[t] \in Calls /\ CallFits(call[t])
    BY Parts, CallNow DEF RestTypes
  <1>2. /\ life[p] = "unborn" /\ plugin' = [plugin EXCEPT ![p] = o] /\ newest' = newest
        /\ careless' = (careless \/ (o # None /\ bare[o] # None /\ IsNotified(o)))
        /\ UNCHANGED <<setting, reenters, holder, events, loopVars, call, crashed>>
    BY DEF Open, watchVars, subVars
  <1>3. PICK l \in {"alive", "installing"} : life' = [life EXCEPT ![p] = l]
    BY DEF Open
  <1>4. \/ o = None /\ bare' = bare /\ weak' = weak
        \/ /\ o \in Plugins
           /\ weak' = [weak EXCEPT ![o] = None] /\ bare' = [bare EXCEPT ![o] = None]
    BY DEF Open, removeEventFilter, watchVars
  <1>5. ObjectTypes'
    BY <1>1, <1>2, <1>3, <1>4 DEF ObjectTypes
  <1>6. \A x \in Objects : x # p => life'[x] = life[x]
    BY <1>1, <1>3 DEF ObjectTypes
  <1>7. /\ \A x \in Plugins : bare'[x] \in {None, bare[x]}
        /\ \A x \in Objects \ Plugins : bare'[x] = bare[x] /\ weak'[x] = weak[x]
        /\ \A x \in Objects : weak'[x] \in {None, weak[x]}
    BY <1>1, <1>4 DEF ObjectTypes, Objects
  <1>8. \A x \in Objects : Alive(x) => Alive(x)'
    BY <1>1, <1>2, <1>6 DEF Alive
  <1>9. WatchersFit'
    BY <1>1, <1>2, <1>7, <1>8 DEF WatchersFit, Objects
  <1>10. p \notin Nodes \cup Plugins \cup {System} /\ p \in Objects
    BY ConstantsAssumption DEF Objects
  <1>11. LivesFit' /\ GoneBelow'
    BY <1>1, <1>6, <1>10, ConstantsAssumption DEF LivesFit, GoneBelow, Objects
  <1>12. NewestLive'
    BY <1>1, <1>2, <1>6, ConstantsAssumption DEF NewestLive, ObjectTypes, Objects
  <1>13. ASSUME NEW t \in Threads, call[t].stage = "lock"
         PROVE  weak'[call[t].target] # None
    BY <1>1, <1>7, <1>13, ConstantsAssumption
       DEF CallIsSafe, CallFits, WatchersFit, Objects
  <1>14. ASSUME ~careless', NEW t \in Threads, call[t].stage = "call"
         PROVE  bare'[call[t].target] # None
    <2>1. bare[call[t].target] # None /\ call[t].target \in Objects
      BY <1>1, <1>14, ConstantsAssumption DEF CallIsSafe, CallFits
    <2>2. CASE o # None /\ call[t].target = o
      <3>1. IsNotified(o)
        BY <1>14, <2>2 DEF IsNotified
      <3>2. QED
        BY <1>2, <1>14, <2>1, <2>2, <3>1
    <2>3. CASE ~(o # None /\ call[t].target = o)
      BY <1>1, <1>4, <2>1, <2>3, ConstantsAssumption DEF ObjectTypes, Objects
    <2>4. QED
      BY <2>2, <2>3
  <1>15. SettingLive'
    BY <1>1, <1>2, <1>8 DEF SettingLive, ObjectTypes
  <1>16. careless' \in BOOLEAN /\ crashed' \in BOOLEAN /\ reenters' \subseteq Listeners
    BY <1>1, <1>2, Parts DEF RestTypes
  <1>17. QED
    BY <1>1, <1>2, <1>5, <1>8, <1>9, <1>11, <1>12, <1>13, <1>16, <1>14, <1>15,
       ManageStep

\* What the steps of the clients start from.
LEMMA ManageFrom ==
    ASSUME IInv
    PROVE  /\ ObjectTypes /\ WatchersFit /\ LivesFit /\ reenters \subseteq Listeners
           /\ careless \in BOOLEAN /\ crashed \in BOOLEAN
           /\ ~careless => ~crashed /\ NewestLive /\ GoneBelow /\ SettingLive
           /\ ~careless => \A t \in Threads :
                  /\ call[t].stage \in {"call", "lock"} =>
                         /\ call[t].target \in Objects /\ IsTarget(call[t].target)
                         /\ setting[call[t].target] = None
                  /\ call[t].stage = "call" => bare[call[t].target] # None
                  /\ call[t].stage = "lock" =>
                         call[t].target \in Nodes /\ weak[call[t].target] # None
  <1>1. /\ ObjectTypes /\ WatchersFit /\ LivesFit /\ reenters \subseteq Listeners
        /\ careless \in BOOLEAN /\ crashed \in BOOLEAN
        /\ ~careless => ~crashed /\ NewestLive /\ GoneBelow /\ SettingLive
    BY Parts DEF RestTypes
  <1>2. ASSUME ~careless, NEW t \in Threads, call[t].stage \in {"call", "lock"}
        PROVE  /\ call[t].target \in Objects /\ IsTarget(call[t].target)
               /\ setting[call[t].target] = None
               /\ call[t].stage = "call" => bare[call[t].target] # None
               /\ call[t].stage = "lock" =>
                      call[t].target \in Nodes /\ weak[call[t].target] # None
    <2>1. call[t].target \in Objects /\ CallIsSafe(call[t]) /\ None \notin Objects
      BY <1>2, CallNow, ConstantsAssumption DEF Objects
    <2>2. QED
      BY <1>1, <1>2, <2>1 DEF CallIsSafe, Free, WatchersFit, IsTarget
  <1>3. QED
    BY <1>1, <1>2

\* The new proxy becomes the filter of its plugin.
LEMMA InstallStep ==
    ASSUME IInv, NEW p \in Proxies, Install(p)
    PROVE  IInv'
  <1>1. /\ life[p] = "installing" /\ life' = [life EXCEPT ![p] = "alive"]
        /\ bare' = [bare EXCEPT ![plugin[p]] = p]
        /\ newest' = [newest EXCEPT ![plugin[p]] = p]
        /\ UNCHANGED <<plugin, weak, setting, reenters, holder, events, loopVars, call,
                       careless, crashed>>
    BY DEF Install, subVars
  <1>2. p \notin Nodes \cup Plugins \cup {System} /\ p \in Objects
    BY ConstantsAssumption DEF Objects
  <1>3. ObjectTypes'
    BY <1>1, <1>2, ManageFrom DEF ObjectTypes
  <1>4. /\ \A x \in Objects : x # p => life'[x] = life[x]
        /\ life'[p] = "alive"
        /\ \A x \in Objects : Alive(x) => Alive(x)'
    BY <1>1, <1>2, ManageFrom DEF ObjectTypes, Alive
  <1>5. /\ \A x \in Plugins : \/ newest'[x] = newest[x] /\ bare'[x] = bare[x]
                              \/ newest'[x] = p /\ bare'[x] = p
        /\ \A x \in Objects \ Plugins : bare'[x] = bare[x]
    BY <1>1, ManageFrom, ConstantsAssumption DEF ObjectTypes, Objects
  <1>6. WatchersFit'
    BY <1>1, <1>4, <1>5, ManageFrom DEF WatchersFit, Objects
  <1>7. LivesFit' /\ (~careless => GoneBelow')
    BY <1>2, <1>4, ManageFrom, ConstantsAssumption DEF LivesFit, GoneBelow, Objects
  <1>8. ~careless => NewestLive'
    BY <1>4, <1>5, ManageFrom DEF NewestLive, ObjectTypes, Objects
  <1>9. ~careless => SettingLive'
    BY <1>1, <1>4, ManageFrom DEF SettingLive, ObjectTypes
  <1>10. ASSUME ~careless, NEW t \in Threads, call[t].stage = "call"
         PROVE  bare'[call[t].target] # None
    BY <1>2, <1>5, <1>10, ManageFrom, ConstantsAssumption DEF Objects
  <1>11. QED
    BY <1>1, <1>3, <1>4, <1>6, <1>7, <1>8, <1>9, <1>10, ManageFrom, ManageStep

\* The watcher of a node is set: of a careful client both are there.
LEMMA SetWatcherStep ==
    ASSUME IInv, NEW o \in Objects, SetWatcher(o)
    PROVE  IInv'
  <1>1. /\ setting[o] # None /\ setting' = [setting EXCEPT ![o] = None]
        /\ weak' = [weak EXCEPT ![o] = IF Alive(setting[o]) THEN setting[o] ELSE None]
        /\ crashed' \in BOOLEAN /\ (crashed' <=> ~Alive(o))
        /\ UNCHANGED <<life, plugin, bare, newest, reenters, holder, events, loopVars, call,
                       careless>>
    BY DEF SetWatcher, subVars, treeVars
  <1>2. o \in Nodes /\ setting[o] \in Nodes /\ setting[o] \in Objects
    BY <1>1, ManageFrom DEF WatchersFit, Objects
  <1>3. ObjectTypes'
    BY <1>1, <1>2, ManageFrom DEF ObjectTypes
  <1>4. WatchersFit'
    BY <1>1, <1>2, ManageFrom DEF WatchersFit, ObjectTypes, Alive
  <1>5. LivesFit' /\ (~careless => GoneBelow' /\ NewestLive')
    BY <1>1, ManageFrom DEF LivesFit, GoneBelow, NewestLive
  <1>6. ASSUME ~careless PROVE SettingLive' /\ ~crashed'
    BY <1>1, <1>6, ManageFrom DEF SettingLive, ObjectTypes, Alive
  <1>7. \A x \in Objects :
            /\ Alive(x) => Alive(x)'
            /\ setting'[x] \in {None, setting[x]}
    BY <1>1, ManageFrom DEF Alive, ObjectTypes
  <1>8. ASSUME ~careless, NEW t \in Threads, call[t].stage = "lock"
        PROVE  weak'[call[t].target] # None
    BY <1>1, <1>8, ManageFrom DEF ObjectTypes
  <1>9. QED
    BY <1>1, <1>3, <1>4, <1>5, <1>6, <1>7, <1>8, ManageFrom, ManageStep

\* A proxy that no plugin has last and no thread uses goes away.
LEMMA CloseStep ==
    ASSUME IInv, ~crashed, ~careless, NEW p \in Proxies, Close(p)
    PROVE  IInv'
  <1>1. /\ life[p] = "alive" /\ life' = [life EXCEPT ![p] = "gone"]
        /\ careless' = (careless \/ InUse(p) \/ \E o \in Plugins : newest[o] = p)
        /\ UNCHANGED <<plugin, bare, weak, setting, newest, reenters, holder, events,
                       loopVars, call, crashed>>
    BY DEF Close, subVars, watchVars
  <1>2. p \notin Nodes \cup Plugins \cup {System} /\ p \in Objects
    BY ConstantsAssumption DEF Objects
  <1>3. ObjectTypes' /\ careless' \in BOOLEAN
    BY <1>1, <1>2, ManageFrom DEF ObjectTypes
  <1>4. \A x \in Objects : x # p => life'[x] = life[x]
    BY <1>1, <1>2, ManageFrom DEF ObjectTypes
  <1>5. WatchersFit'
    BY <1>1, <1>2, <1>4, ManageFrom DEF WatchersFit, Objects, Alive
  <1>6. LivesFit' /\ GoneBelow'
    BY <1>2, <1>4, ManageFrom, ConstantsAssumption DEF LivesFit, GoneBelow, Objects
  <1>7. ASSUME NEW x \in Objects, setting[x] # None
        PROVE  Alive(x)' /\ Alive(setting[x])'
    <2>1. x \in Nodes /\ setting[x] \in Nodes /\ Alive(x) /\ Alive(setting[x])
      BY <1>7, ManageFrom DEF WatchersFit, SettingLive
    <2>2. life'[x] = life[x] /\ life'[setting[x]] = life[setting[x]] /\ setting' = setting
      BY <1>1, <1>2, <1>4, <2>1 DEF Objects
    <2>3. QED
      BY <2>1, <2>2 DEF Alive
  <1>8. SettingLive'
    BY <1>1, <1>7 DEF SettingLive
  <1>9. ASSUME ~careless'
        PROVE  /\ NewestLive'
               /\ \A x \in Objects : InUse(x) /\ Alive(x) => Alive(x)'
    BY <1>1, <1>4, <1>9, ManageFrom DEF NewestLive, ObjectTypes, Objects, Alive
  <1>10. QED
    BY <1>1, <1>3, <1>5, <1>6, <1>9, <1>8, ManageFrom, ManageStep

\* A client begins to watch a node of its own: its old watcher goes.
LEMMA WatchStep ==
    ASSUME IInv, ~crashed, ~careless, NEW n \in Nodes, NEW w \in Nodes,
           installEventFilter(n, w)
    PROVE  IInv'
  <1>1. /\ Alive(n) /\ Alive(w)
        /\ weak' = [weak EXCEPT ![n] = None] /\ bare' = [bare EXCEPT ![n] = None]
        /\ setting' = [setting EXCEPT ![n] = w]
        /\ careless' = (careless \/ IsTarget(n))
        /\ UNCHANGED <<life, plugin, newest, reenters, holder, events, loopVars, call, crashed>>
    BY DEF installEventFilter, removeEventFilter, subVars, treeVars
  <1>2. n \in Objects /\ w \in Objects /\ n \notin Plugins /\ w # None
    BY ConstantsAssumption DEF Objects
  <1>3. ObjectTypes'
    BY <1>1, <1>2, ManageFrom DEF ObjectTypes
  <1>4. WatchersFit'
    BY <1>1, <1>2, ManageFrom DEF WatchersFit, ObjectTypes, Objects, Alive
  <1>5. LivesFit' /\ GoneBelow' /\ NewestLive'
    BY <1>1, ManageFrom DEF LivesFit, GoneBelow, NewestLive
  <1>6. SettingLive'
    BY <1>1, ManageFrom DEF SettingLive, ObjectTypes, Alive
  <1>7. \A x \in Objects : Alive(x) => Alive(x)'
    BY <1>1 DEF Alive
  <1>8. ASSUME ~careless', NEW x \in Objects, IsTarget(x) PROVE setting'[x] = setting[x]
    BY <1>1, <1>8, ManageFrom DEF ObjectTypes
  <1>9. ASSUME ~careless', NEW t \in Threads, call[t].stage \in {"call", "lock"}
        PROVE  /\ call[t].stage = "call" => bare'[call[t].target] # None
               /\ call[t].stage = "lock" => weak'[call[t].target] # None
    BY <1>1, <1>9, ManageFrom DEF ObjectTypes
  <1>10. careless' \in BOOLEAN
    BY <1>1, ManageFrom DEF IsTarget
  <1>11. QED
    BY <1>1, <1>3, <1>4, <1>5, <1>6, <1>7, <1>8, <1>9, <1>10, ManageFrom, ManageStep

\* What a client does that is careless anyway.
LEMMA CarelessStep ==
    ASSUME IInv, ~careless,
           \/ \E p \in Proxies : start(p)
           \/ \E p \in Listeners : setEventListener(p)
    PROVE  IInv'
  <1>1. /\ careless' = TRUE /\ crashed' \in BOOLEAN /\ reenters' \subseteq Listeners
        /\ UNCHANGED <<treeVars, watchVars, holder, events, loopVars, call>>
    BY ManageFrom DEF start, setEventListener, subVars
  <1>2. ObjectTypes' /\ WatchersFit' /\ LivesFit'
    BY <1>1, ManageFrom
       DEF ObjectTypes, WatchersFit, LivesFit, Alive, treeVars, watchVars
  <1>3. QED
    BY <1>1, <1>2, ManageStep

\* Who is below a node: the node, the children of whoever is, and nobody else.
LEMMA BelowIs ==
    ASSUME NEW n \in Nodes
    PROVE  /\ Below(n) \subseteq Nodes /\ n \in Below(n)
           /\ \A k \in Nodes : Parent[k] \in Below(n) => k \in Below(n)
           /\ \A m \in Below(n) : m # n => Parent[m] \in Below(n)
  <1> DEFINE Closed(S) == n \in S /\ \A k \in Nodes : Parent[k] \in S => k \in S
  <1>1. \A m : m \in Below(n) <=>
                   m \in Nodes /\ \A S \in SUBSET Nodes : Closed(S) => m \in S
    BY DEF Below
  <1>2. n \in Below(n) /\ Below(n) \subseteq Nodes
    BY <1>1
  <1>3. \A k \in Nodes : Parent[k] \in Below(n) => k \in Below(n)
    BY <1>1
  <1>4. ASSUME NEW m \in Below(n), m # n, Parent[m] \notin Below(n)
        PROVE  FALSE
    <2> DEFINE S == Below(n) \ {m}
    <2>1. S \in SUBSET Nodes /\ n \in S
      BY <1>2, <1>4
    <2>2. \A k \in Nodes : Parent[k] \in S => k \in S
      BY <1>3, <1>4
    <2>3. m \in S
      BY <1>1, <1>4, <2>1, <2>2
    <2>4. QED
      BY <2>3
  <1>5. QED
    BY <1>2, <1>3, <1>4

\* Below a node that is there nobody is gone.
LEMMA NobodyGone ==
    ASSUME NEW n \in Nodes, life[n] = "alive", LivesFit, GoneBelow
    PROVE  \A m \in Below(n) : life[m] # "gone"
  <1> DEFINE S == {k \in Nodes : life[k] # "gone"}
  <1>1. S \in SUBSET Nodes /\ n \in S
    OBVIOUS
  <1>2. ASSUME NEW k \in Nodes, Parent[k] \in S PROVE k \in S
    BY <1>2, ConstantsAssumption DEF GoneBelow
  <1>3. ASSUME NEW m \in Below(n) PROVE m \in S
    BY <1>1, <1>2, <1>3 DEF Below
  <1>4. QED
    BY <1>3

\* A node that nobody uses, and whose parent is not there, goes with all that
\* is below it.
LEMMA DeleteStep ==
    ASSUME IInv, ~crashed, ~careless, NEW n \in Nodes, Delete(n)
    PROVE  IInv'
  <1>1. /\ Alive(n)
        /\ life' = [o \in Objects |-> IF o \in Below(n) THEN "gone" ELSE life[o]]
        /\ weak' = [o \in Objects |-> IF weak[o] \in Below(n) THEN None ELSE weak[o]]
        /\ crashed' <=> \E m \in Below(n) : life[m] = "gone"
        /\ careless' <=> \/ careless
                         \/ \E m \in Below(n) : InUse(m)
                         \/ (Parent[n] # None /\ Alive(Parent[n]))
        /\ crashed' \in BOOLEAN /\ careless' \in BOOLEAN
        /\ UNCHANGED <<plugin, bare, setting, newest, reenters, holder, events, loopVars, call>>
    BY DEF Delete, subVars
  <1>2. /\ Below(n) \subseteq Nodes /\ n \in Below(n)
        /\ \A k \in Nodes : Parent[k] \in Below(n) => k \in Below(n)
        /\ \A m \in Below(n) : m # n => Parent[m] \in Below(n)
    BY BelowIs
  <1>3. Nodes \subseteq Objects /\ Nodes \cap (Plugins \cup Proxies \cup {System}) = {}
    BY ConstantsAssumption DEF Objects
  <1>4. life[n] = "alive"
    BY <1>1, ManageFrom DEF Alive, LivesFit
  <1>5. ObjectTypes'
    BY <1>1, ManageFrom DEF ObjectTypes
  <1>6. \A x \in Objects : life'[x] = (IF x \in Below(n) THEN "gone" ELSE life[x])
    BY <1>1
  <1>7. LivesFit'
    BY <1>2, <1>3, <1>6, ManageFrom DEF LivesFit, Objects
  <1>8. WatchersFit'
    <2>1. \A o \in Plugins : bare'[o] \in {None, newest'[o]}
      BY <1>1, ManageFrom DEF WatchersFit
    <2>2. \A o \in Objects \ Plugins : bare'[o] = None
      BY <1>1, ManageFrom DEF WatchersFit
    <2>3. ASSUME NEW o \in Objects, weak'[o] # None
          PROVE  o \in Nodes /\ weak'[o] \in Nodes /\ Alive(weak[o])'
      <3>1. weak'[o] = weak[o] /\ weak[o] \notin Below(n)
        BY <1>1, <2>3
      <3>2. o \in Nodes /\ weak[o] \in Nodes /\ Alive(weak[o])
        BY <2>3, <3>1, ManageFrom DEF WatchersFit
      <3>3. life'[weak[o]] = life[weak[o]]
        BY <1>3, <1>6, <3>1, <3>2
      <3>4. QED
        BY <3>1, <3>2, <3>3 DEF Alive
    <2>4. \A o \in Objects : setting'[o] # None => o \in Nodes /\ setting'[o] \in Nodes
      BY <1>1, ManageFrom DEF WatchersFit
    <2>5. QED
      BY <2>1, <2>2, <2>3, <2>4 DEF WatchersFit
  <1>9. ~crashed'
    BY <1>1, <1>4, NobodyGone, ManageFrom
  <1>10. NewestLive'
    BY <1>1, <1>2, <1>3, <1>6, ManageFrom DEF NewestLive, ObjectTypes, Objects
  <1>11. ASSUME ~careless', NEW k \in Nodes, life'[k] = "gone", Parent[k] # None
         PROVE  life'[Parent[k]] = "gone"
    <2>1. Parent[k] \in Nodes /\ Parent[k] \in Objects
      BY <1>3, <1>11, ConstantsAssumption
    <2>2. CASE k \in Below(n) /\ k # n
      BY <1>2, <1>6, <2>1, <2>2
    <2>3. CASE k = n
      BY <1>1, <1>6, <1>11, <2>1, <2>3, ManageFrom DEF LivesFit, Alive
    <2>4. CASE k \notin Below(n)
      BY <1>3, <1>6, <1>11, <2>1, <2>4, ManageFrom DEF GoneBelow
    <2>5. QED
      BY <2>2, <2>3, <2>4
  <1>12. ASSUME ~careless', NEW x \in Objects, InUse(x), Alive(x) PROVE Alive(x)'
    BY <1>1, <1>6, <1>12 DEF Alive
  <1>13. ASSUME ~careless', NEW t \in Threads, call[t].stage = "lock"
         PROVE  weak'[call[t].target] # None
    <2>1. /\ call[t].target \in Objects /\ weak[call[t].target] # None
          /\ InUse(weak[call[t].target])
      BY <1>13, ManageFrom DEF InUse
    <2>2. QED
      BY <1>1, <1>13, <2>1
  <1>14. ~careless' => GoneBelow'
    BY <1>11 DEF GoneBelow
  <1>15. ASSUME ~careless', NEW x \in Objects, setting[x] # None
         PROVE  Alive(x)' /\ Alive(setting[x])'
    <2>1. InUse(x) /\ InUse(setting[x]) /\ setting[x] \in Objects
      BY <1>15, ManageFrom DEF InUse, ObjectTypes
    <2>2. Alive(x) /\ Alive(setting[x])
      BY <1>1, <1>15, ManageFrom DEF SettingLive
    <2>3. Alive(x)' /\ life'[setting[x]] \in {"installing", "alive"}
      BY <1>1, <1>6, <1>15, <2>1, <2>2 DEF Alive
    <2>4. QED
      BY <1>1, <2>3 DEF Alive
  <1>16. ASSUME ~careless' PROVE SettingLive'
    BY <1>1, <1>15, <1>16 DEF SettingLive
  <1>17. QED
    BY <1>1, <1>5, <1>7, <1>8, <1>9, <1>10, <1>12, <1>13, <1>14, <1>16, ManageFrom,
       ManageStep

-----------------------------------------------------------------------------
\* Every step keeps the invariant.
LEMMA InvStep == IInv /\ [Next]_vars => IInv'
  <1> SUFFICES ASSUME IInv, [Next]_vars PROVE IInv'
    OBVIOUS
  <1>1. CASE UNCHANGED vars
    <2>1. call' = [call EXCEPT ![Loop] = call[Loop]] /\ Loop \in Threads
      BY <1>1, Parts DEF vars, Threads
    <2>2. /\ LoopInv' /\ queue' \in Seq(Jobs) /\ events' \in 0..MaxEvents
          /\ crashed' \in BOOLEAN /\ holder' \in [Listeners -> Threads \cup {None}]
          /\ careless \in BOOLEAN
      BY <1>1, Parts, LoopInvStep DEF vars, loopVars, RestTypes, subVars
    <2>3. ~careless => ~crashed' /\ QueueIsSafe' /\ CallIsSafe(call[Loop])
      BY <1>1, <2>1, Parts, QueueKept DEF vars, treeVars, watchVars
    <2>4. QED
      BY <1>1, <2>1, <2>2, <2>3, Parts, CallStep DEF vars, subVars, loopVars
  <1>2. CASE ~crashed /\ ~careless /\ Manage
    BY <1>2, OpenStep, CloseStep, CarelessStep, WatchStep, DeleteStep DEF Manage
  <1>3. CASE Finish
    BY <1>3, InstallStep, SetWatcherStep DEF Finish
  <1>4. ASSUME ~crashed, NEW t \in Clients, ClientStep(t) PROVE IInv'
    <2>1. System \in Objects
      BY DEF Objects
    <2>2. QED
      BY <1>4, <2>1, MakeStep DEF ClientStep, sendEvent, postEvent, _publish
  <1>5. ASSUME ~crashed, NEW t \in Clients, Push(t) PROVE IInv'
    BY <1>5, PushStepHere
  <1>6. ASSUME ~crashed, NEW t \in Threads, Notify(t) PROVE IInv'
    BY <1>6, NotifyStep
  <1>7. CASE ~crashed /\ (LoopThread \/ LoopWakes)
    BY <1>7, LoopStep
  <1>8. QED
    BY <1>1, <1>2, <1>4, <1>5, <1>6, <1>7, <1>3 DEF Next

\* The invariant holds at the start.
LEMMA InvInit == Init => IInv
  <1> SUFFICES ASSUME Init PROVE IInv
    OBVIOUS
  <1>1. ObjectTypes /\ LoopInv
    BY LoopInvInit DEF Init, ObjectTypes
  <1>2. RestTypes
    <2>1. 0 \in 0..MaxEvents
      BY ConstantsAssumption
    <2>2. QED
      BY <2>1 DEF Init, RestTypes
  <1>3. LivesFit /\ WatchersFit
    BY ConstantsAssumption DEF Init, LivesFit, WatchersFit, Objects
  <1>4. CallFits(Idle) /\ CallIsSafe(Idle)
    BY ConstantsAssumption DEF CallFits, CallIsSafe, Idle, Calls, Stages
  <1>5. /\ call \in [Threads -> Calls]
        /\ \A t \in Threads : CallFits(call[t]) /\ CallIsSafe(call[t])
        /\ call[Loop].stage = "idle"
    BY <1>4 DEF Init, Idle, CallFits, Threads
  <1>6. queue \in Seq(Jobs) /\ QueueIsSafe
    BY DEF Init, LoopInit, QueueIsSafe
  <1>7. ~crashed /\ NewestLive /\ GoneBelow /\ SettingLive
    BY ConstantsAssumption DEF Init, NewestLive, GoneBelow, SettingLive, Objects
  <1>8. QED
    BY <1>1, <1>2, <1>3, <1>5, <1>6, <1>7, Parts

\* The inductive invariant of the objects, the watchers and the calls holds in
\* every reachable state.
THEOREM ObjectsInvariant == Spec => []IInv
  BY InvInit, InvStep, PTL DEF Spec

\* A client that stays within the named rules meets no object that is gone,
\* whichever thread notifies and whatever it opens, watches, posts or deletes.
THEOREM CarefulUse == Spec => []CarefulIsSafe
  <1>1. IInv => CarefulIsSafe
    BY Parts DEF CarefulIsSafe
  <1>2. QED
    BY <1>1, ObjectsInvariant, PTL

\* What the clients and the handlers do is no step of the loop's, and the
\* steps they make the loop take are the loop's own.
LEMMA ComposedStep == IInv /\ [Next]_vars => [LoopNext]_loopVars
  <1> SUFFICES ASSUME IInv, [Next]_vars PROVE [LoopNext]_loopVars
    OBVIOUS
  <1>1. CASE UNCHANGED vars
    BY <1>1 DEF vars
  <1>2. CASE Manage
    BY <1>2 DEF Manage, Open, start, Close, setEventListener, installEventFilter, Delete
  <1>3. CASE Finish
    BY <1>3 DEF Finish, Install, SetWatcher
  <1>4. ASSUME NEW t \in Clients, ClientStep(t) PROVE UNCHANGED loopVars
    BY <1>4 DEF ClientStep, sendEvent, postEvent, _publish, Make
  <1>5. ASSUME NEW t \in Clients, Push(t) PROVE LoopNext
    BY <1>5, JobFits DEF Push, LoopNext, Threads
  <1>6. ASSUME NEW t \in Threads, Notify(t) PROVE UNCHANGED loopVars
    BY <1>6 DEF Notify, notifyied, CallWatcher, LockWatcher, Listen, Heard, revent
  <1>7. CASE LoopThread \/ LoopWakes
    BY <1>7 DEF LoopThread, LoopWakes, LoopNext
  <1>8. QED
    BY <1>1, <1>2, <1>4, <1>5, <1>6, <1>7, <1>3 DEF Next

\* So the loop inside the system is an EventLoop ...
LEMMA LoopInside == Spec => LoopSpec
  <1>1. Init => LoopInit
    BY DEF Init
  <1>2. QED
    BY <1>1, ComposedStep, ObjectsInvariant, PTL DEF Spec, LoopSpec

\* ... and what was proved of the loop holds of the system, whatever its clients
\* and handlers do: the posted events are handed out at most once and in order,
\* and no wake-up of the loop's thread is lost.
THEOREM ChannelInside == Spec => ImplementsChannel /\ []NoLostWakeup
  BY LoopInside, Refinement, WakeupsAreKept, PTL
=============================================================================
