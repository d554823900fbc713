--------------------------- MODULE MavVehicleProofs ---------------------------
(***************************************************************************)
(* A linked mavlink system has an autopilot and the plugins of its last    *)
(* link, and only careless use ends the process, for any systems, kinds of *)
(* plugins and number of links.                                            *)
(***************************************************************************)
EXTENDS MavVehicle, TLAPS

\* The list of kinds names each once, and nothing but kinds.
LEMMA ConstantFacts ==
    /\ \A j \in 1..Len(Kinds) : Kinds[j] \in Range(Kinds)
    /\ \A k \in Range(Kinds) : \E j \in 1..Len(Kinds) : Kinds[j] = k
    /\ \A i, j \in 1..Len(Kinds) : Kinds[i] = Kinds[j] => i = j
    /\ Len(Kinds) \in Nat /\ MaxLinks \in Nat /\ Retries \in Nat
    /\ Autopilots \subseteq Systems /\ None \notin Systems
    /\ None \notin Plugins
  <1>1. Len(Kinds) \in Nat /\ DOMAIN Kinds = 1..Len(Kinds)
    BY ConstantsAssumption
  <1>2. QED
    BY <1>1, ConstantsAssumption DEF Range, IsInjective, Plugins, Links

LEMMA PluginOf ==
    ASSUME NEW k \in Range(Kinds), NEW l \in 0..MaxLinks, l # 0
    PROVE  <<k, l>> \in Plugins
BY ConstantFacts DEF Plugins, Links

\* The types, in parts.
LinkTypes ==
    /\ pc \in {"idle", "subscribe", "wait", "expired", "check", "identify", "regist"}
    /\ links \in 0..MaxLinks /\ tries \in Nat
    /\ current \in Systems \cup {None}
    /\ value \in Autopilots \cup {None}
    /\ registry \in [Range(Kinds) -> 0..MaxLinks]
CallTypes ==
    /\ systems \in Seq(Systems)
    /\ subscriber \in 0..MaxLinks /\ calls \in Seq(Links)
    /\ setting = <<>> \/ setting \in Links \X Autopilots
LifeTypes ==
    /\ life \in [Plugins -> Lives]
    /\ dying \in [Parties -> Plugins \cup {None}]
WorkTypes ==
    /\ worker \in [Plugins -> {"none", "run", "sleep", "publish", "ended"}]
    /\ subscribed \subseteq Plugins /\ held \subseteq Plugins
    /\ starting \in Plugins \cup {None}
Flags ==
    /\ linked \in BOOLEAN /\ gone \in BOOLEAN /\ asks \in BOOLEAN
    /\ careless \in BOOLEAN /\ crashed \in BOOLEAN

-----------------------------------------------------------------------------
\* Every step keeps the types: the link,
LEMMA LinkTypesStep ==
    ASSUME TypeOK, SystemInv, [Next]_vars
    PROVE  LinkTypes'
  <1> USE ConstantFacts DEF TypeOK, SystemInv, LinkTypes, promiseVars,
     systemVars, pluginVars
  <1>1. ASSUME NEW config \in SUBSET Range(Methods), Connect(config) PROVE LinkTypes'
    BY <1>1 DEF Connect
  <1>2. ASSUME NEW tell \in BOOLEAN, Subscribe(tell) PROVE LinkTypes'
    BY <1>2 DEF Subscribe
  <1>3. ASSUME Timeout PROVE LinkTypes'
    BY <1>3 DEF Timeout
  <1>4. ASSUME GiveUp PROVE LinkTypes'
    BY <1>4 DEF GiveUp
  <1>5. ASSUME Found PROVE LinkTypes'
    BY <1>5 DEF Found
  <1>6. ASSUME NEW ok \in BOOLEAN, Check(ok) PROVE LinkTypes'
    BY <1>6 DEF Check
  <1>7. ASSUME NEW ok \in BOOLEAN, getUniqueID(ok) PROVE LinkTypes'
    BY <1>7 DEF getUniqueID
  <1>8. ASSUME Regist PROVE LinkTypes'
    BY <1>8 DEF Regist, Destroy, Locked
  <1>9. ASSUME LinkSucceeds PROVE LinkTypes'
    BY <1>9 DEF LinkSucceeds, Locked
  <1>10. ASSUME OnNewSystem PROVE LinkTypes'
    BY <1>10 DEF OnNewSystem
  <1>11. ASSUME SetValue PROVE LinkTypes'
    BY <1>11 DEF SetValue
  <1>12. ASSUME NEW k \in Range(Kinds), Open(k) PROVE LinkTypes'
    BY <1>12 DEF Open, ClientIdle, Locked
  <1>13. ASSUME NEW i \in Plugins, Close(i) PROVE LinkTypes'
    BY <1>13 DEF Close, Destroy, ClientIdle
  <1>14. ASSUME NEW i \in Plugins, startThread(i) PROVE LinkTypes'
    BY <1>14 DEF startThread, ClientIdle
  <1>15. ASSUME NEW i \in Plugins, start(i) PROVE LinkTypes'
    BY <1>15 DEF start, ClientIdle
  <1>16. ASSUME RateIsSet PROVE LinkTypes'
    BY <1>16 DEF RateIsSet
  <1>17. ASSUME subscribe PROVE LinkTypes'
    BY <1>17 DEF subscribe
  <1>18. ASSUME DestroySystem PROVE LinkTypes'
    BY <1>18 DEF DestroySystem
  <1>19. ASSUME Log PROVE LinkTypes'
    BY <1>19 DEF Log
  <1>20. ASSUME NEW s \in Systems, Discover(s) PROVE LinkTypes'
    BY <1>20 DEF Discover
  <1>21. ASSUME NEW p \in Parties, Join(p) PROVE LinkTypes'
    BY <1>21 DEF Join
  <1>22. ASSUME NEW p \in Parties, Free(p) PROVE LinkTypes'
    BY <1>22 DEF Free
  <1>23. ASSUME NEW i \in Plugins, collectThread(i) PROVE LinkTypes'
    BY <1>23 DEF collectThread, Locked
  <1>24. ASSUME NEW i \in Plugins, Message(i) PROVE LinkTypes'
    BY <1>24 DEF Message
  <1>25. CASE UNCHANGED vars
    BY <1>25 DEF vars
  <1>26. QED
    BY ONLY [Next]_vars, <1>1, <1>2, <1>3, <1>4, <1>5, <1>6, <1>7, <1>8,
       <1>9, <1>10, <1>11, <1>12, <1>13, <1>14, <1>15, <1>16, <1>17, <1>18,
       <1>19, <1>20, <1>21, <1>22, <1>23, <1>24, <1>25
       DEF Next, Link, Callback, Client

\* the calls of callbacks,
LEMMA CallTypesStep ==
    ASSUME TypeOK, SystemInv, [Next]_vars
    PROVE  CallTypes'
  <1> USE ConstantFacts DEF TypeOK, SystemInv, CallTypes, Links, promiseVars,
     systemVars, pluginVars
  <1>1. ASSUME NEW config \in SUBSET Range(Methods), Connect(config) PROVE CallTypes'
    BY <1>1 DEF Connect
  <1>2. ASSUME NEW tell \in BOOLEAN, Subscribe(tell) PROVE CallTypes'
    <2>1. links \in Links
      BY <1>2 DEF Subscribe
    <2>2. Append(calls, links) \in Seq(Links)
      BY ONLY <2>1, calls \in Seq(Links)
    <2>3. calls' \in Seq(Links) /\ subscriber' = links
          /\ UNCHANGED <<systems, setting>>
      BY <1>2, <2>2 DEF Subscribe
    <2>4. QED
      BY ONLY <2>3, TypeOK DEF TypeOK, CallTypes
  <1>3. ASSUME Timeout PROVE CallTypes'
    BY <1>3 DEF Timeout
  <1>4. ASSUME GiveUp PROVE CallTypes'
    BY <1>4 DEF GiveUp
  <1>5. ASSUME Found PROVE CallTypes'
    BY <1>5 DEF Found
  <1>6. ASSUME NEW ok \in BOOLEAN, Check(ok) PROVE CallTypes'
    BY <1>6 DEF Check
  <1>7. ASSUME NEW ok \in BOOLEAN, getUniqueID(ok) PROVE CallTypes'
    BY <1>7 DEF getUniqueID
  <1>8. ASSUME Regist PROVE CallTypes'
    BY <1>8 DEF Regist, Destroy, Locked
  <1>9. ASSUME LinkSucceeds PROVE CallTypes'
    BY <1>9 DEF LinkSucceeds, Locked
  <1>10. ASSUME OnNewSystem PROVE CallTypes'
    BY <1>10 DEF OnNewSystem
  <1>11. ASSUME SetValue PROVE CallTypes'
    BY <1>11 DEF SetValue
  <1>12. ASSUME NEW k \in Range(Kinds), Open(k) PROVE CallTypes'
    BY <1>12 DEF Open, ClientIdle, Locked
  <1>13. ASSUME NEW i \in Plugins, Close(i) PROVE CallTypes'
    BY <1>13 DEF Close, Destroy, ClientIdle
  <1>14. ASSUME NEW i \in Plugins, startThread(i) PROVE CallTypes'
    BY <1>14 DEF startThread, ClientIdle
  <1>15. ASSUME NEW i \in Plugins, start(i) PROVE CallTypes'
    BY <1>15 DEF start, ClientIdle
  <1>16. ASSUME RateIsSet PROVE CallTypes'
    BY <1>16 DEF RateIsSet
  <1>17. ASSUME subscribe PROVE CallTypes'
    BY <1>17 DEF subscribe
  <1>18. ASSUME DestroySystem PROVE CallTypes'
    BY <1>18 DEF DestroySystem
  <1>19. ASSUME Log PROVE CallTypes'
    BY <1>19 DEF Log
  <1>20. ASSUME NEW s \in Systems, Discover(s) PROVE CallTypes'
    <2>1. subscriber # 0 => subscriber \in Links
      OBVIOUS
    <2>2. subscriber # 0 => Append(calls, subscriber) \in Seq(Links)
      BY ONLY <2>1, calls \in Seq(Links)
    <2>3. Append(systems, s) \in Seq(Systems)
      BY ONLY systems \in Seq(Systems), s \in Systems
    <2>4. /\ calls' = calls \/ (subscriber # 0 /\ calls' = Append(calls, subscriber))
          /\ systems' = Append(systems, s) /\ UNCHANGED <<subscriber, setting>>
      BY <1>20 DEF Discover
    <2>5. QED
      BY ONLY <2>2, <2>3, <2>4, TypeOK DEF TypeOK, CallTypes
  <1>21. ASSUME NEW p \in Parties, Join(p) PROVE CallTypes'
    BY <1>21 DEF Join
  <1>22. ASSUME NEW p \in Parties, Free(p) PROVE CallTypes'
    BY <1>22 DEF Free
  <1>23. ASSUME NEW i \in Plugins, collectThread(i) PROVE CallTypes'
    BY <1>23 DEF collectThread, Locked
  <1>24. ASSUME NEW i \in Plugins, Message(i) PROVE CallTypes'
    BY <1>24 DEF Message
  <1>25. CASE UNCHANGED vars
    BY <1>25 DEF vars
  <1>26. QED
    BY ONLY [Next]_vars, <1>1, <1>2, <1>3, <1>4, <1>5, <1>6, <1>7, <1>8,
       <1>9, <1>10, <1>11, <1>12, <1>13, <1>14, <1>15, <1>16, <1>17, <1>18,
       <1>19, <1>20, <1>21, <1>22, <1>23, <1>24, <1>25
       DEF Next, Link, Callback, Client

\* the plugins' lives,
LEMMA LifeTypesStep ==
    ASSUME TypeOK, SystemInv, [Next]_vars
    PROVE  LifeTypes'
  <1> USE ConstantFacts DEF TypeOK, SystemInv, LifeTypes, Lives, Parties,
     promiseVars, systemVars, pluginVars
  <1>1. ASSUME NEW config \in SUBSET Range(Methods), Connect(config) PROVE LifeTypes'
    BY <1>1 DEF Connect
  <1>2. ASSUME NEW tell \in BOOLEAN, Subscribe(tell) PROVE LifeTypes'
    BY <1>2 DEF Subscribe
  <1>3. ASSUME Timeout PROVE LifeTypes'
    BY <1>3 DEF Timeout
  <1>4. ASSUME GiveUp PROVE LifeTypes'
    BY <1>4 DEF GiveUp
  <1>5. ASSUME Found PROVE LifeTypes'
    BY <1>5 DEF Found
  <1>6. ASSUME NEW ok \in BOOLEAN, Check(ok) PROVE LifeTypes'
    BY <1>6 DEF Check
  <1>7. ASSUME NEW ok \in BOOLEAN, getUniqueID(ok) PROVE LifeTypes'
    BY <1>7 DEF getUniqueID
  <1>8. ASSUME Regist PROVE LifeTypes'
    <2> DEFINE k == Kinds[tries + 1]
    <2>1. /\ k \in Range(Kinds) /\ links # 0
          /\ \/ registry[k] # 0 /\ dying' = [dying EXCEPT !["linker"] = <<k, registry[k]>>]
                /\ life' = [life EXCEPT ![<<k, links>>] = "alive",
                                       ![<<k, registry[k]>>] = "leaving"]
             \/ dying' = dying /\ life' = [life EXCEPT ![<<k, links>>] = "alive"]
      BY <1>8 DEF Regist, Destroy
    <2>2. registry[k] \in 0..MaxLinks /\ links \in 0..MaxLinks
      BY ONLY <2>1, TypeOK DEF TypeOK
    <2>3. <<k, links>> \in Plugins /\ (registry[k] # 0 => <<k, registry[k]>> \in Plugins)
      BY ONLY <2>1, <2>2, PluginOf
    <2>4. life' \in [Plugins -> Lives]
      BY ONLY <2>1, TypeOK DEF TypeOK, Lives
    <2>5. dying' \in [Parties -> Plugins \cup {None}]
      <3>1. \/ dying' = dying
            \/ registry[k] # 0 /\ dying' = [dying EXCEPT !["linker"] = <<k, registry[k]>>]
        BY ONLY <2>1
      <3>2. dying \in [Parties -> Plugins \cup {None}]
        BY ONLY TypeOK DEF TypeOK
      <3>3. QED
        BY ONLY <2>3, <3>1, <3>2
    <2>6. QED
      BY ONLY <2>4, <2>5 DEF LifeTypes
  <1>9. ASSUME LinkSucceeds PROVE LifeTypes'
    BY <1>9 DEF LinkSucceeds, Locked
  <1>10. ASSUME OnNewSystem PROVE LifeTypes'
    BY <1>10 DEF OnNewSystem
  <1>11. ASSUME SetValue PROVE LifeTypes'
    BY <1>11 DEF SetValue
  <1>12. ASSUME NEW k \in Range(Kinds), Open(k) PROVE LifeTypes'
    BY <1>12 DEF Open, ClientIdle, Locked
  <1>13. ASSUME NEW i \in Plugins, Close(i) PROVE LifeTypes'
    BY <1>13 DEF Close, Destroy, ClientIdle
  <1>14. ASSUME NEW i \in Plugins, startThread(i) PROVE LifeTypes'
    BY <1>14 DEF startThread, ClientIdle
  <1>15. ASSUME NEW i \in Plugins, start(i) PROVE LifeTypes'
    BY <1>15 DEF start, ClientIdle
  <1>16. ASSUME RateIsSet PROVE LifeTypes'
    BY <1>16 DEF RateIsSet
  <1>17. ASSUME subscribe PROVE LifeTypes'
    BY <1>17 DEF subscribe
  <1>18. ASSUME DestroySystem PROVE LifeTypes'
    BY <1>18 DEF DestroySystem
  <1>19. ASSUME Log PROVE LifeTypes'
    BY <1>19 DEF Log
  <1>20. ASSUME NEW s \in Systems, Discover(s) PROVE LifeTypes'
    BY <1>20 DEF Discover
  <1>21. ASSUME NEW p \in Parties, Join(p) PROVE LifeTypes'
    BY <1>21 DEF Join
  <1>22. ASSUME NEW p \in Parties, Free(p) PROVE LifeTypes'
    BY <1>22 DEF Free
  <1>23. ASSUME NEW i \in Plugins, collectThread(i) PROVE LifeTypes'
    BY <1>23 DEF collectThread, Locked
  <1>24. ASSUME NEW i \in Plugins, Message(i) PROVE LifeTypes'
    BY <1>24 DEF Message
  <1>25. CASE UNCHANGED vars
    BY <1>25 DEF vars
  <1>26. QED
    BY ONLY [Next]_vars, <1>1, <1>2, <1>3, <1>4, <1>5, <1>6, <1>7, <1>8,
       <1>9, <1>10, <1>11, <1>12, <1>13, <1>14, <1>15, <1>16, <1>17, <1>18,
       <1>19, <1>20, <1>21, <1>22, <1>23, <1>24, <1>25
       DEF Next, Link, Callback, Client

\* their work,
LEMMA WorkTypesStep ==
    ASSUME TypeOK, [Next]_vars
    PROVE  WorkTypes'
  <1> USE ConstantFacts DEF TypeOK, WorkTypes, promiseVars, systemVars,
     pluginVars
  <1>1. ASSUME NEW config \in SUBSET Range(Methods), Connect(config) PROVE WorkTypes'
    BY <1>1 DEF Connect
  <1>2. ASSUME NEW tell \in BOOLEAN, Subscribe(tell) PROVE WorkTypes'
    BY <1>2 DEF Subscribe
  <1>3. ASSUME Timeout PROVE WorkTypes'
    BY <1>3 DEF Timeout
  <1>4. ASSUME GiveUp PROVE WorkTypes'
    BY <1>4 DEF GiveUp
  <1>5. ASSUME Found PROVE WorkTypes'
    BY <1>5 DEF Found
  <1>6. ASSUME NEW ok \in BOOLEAN, Check(ok) PROVE WorkTypes'
    BY <1>6 DEF Check
  <1>7. ASSUME NEW ok \in BOOLEAN, getUniqueID(ok) PROVE WorkTypes'
    BY <1>7 DEF getUniqueID
  <1>8. ASSUME Regist PROVE WorkTypes'
    BY <1>8 DEF Regist, Destroy, Locked
  <1>9. ASSUME LinkSucceeds PROVE WorkTypes'
    BY <1>9 DEF LinkSucceeds, Locked
  <1>10. ASSUME OnNewSystem PROVE WorkTypes'
    BY <1>10 DEF OnNewSystem
  <1>11. ASSUME SetValue PROVE WorkTypes'
    BY <1>11 DEF SetValue
  <1>12. ASSUME NEW k \in Range(Kinds), Open(k) PROVE WorkTypes'
    <2>1. registry[k] # 0 /\ registry[k] \in 0..MaxLinks
      BY <1>12 DEF Open
    <2>2. <<k, registry[k]>> \in Plugins
      BY ONLY <2>1, PluginOf, k \in Range(Kinds)
    <2>3. QED
      BY ONLY <1>12, <2>2, TypeOK DEF Open, TypeOK, WorkTypes
  <1>13. ASSUME NEW i \in Plugins, Close(i) PROVE WorkTypes'
    BY <1>13 DEF Close, Destroy, ClientIdle
  <1>14. ASSUME NEW i \in Plugins, startThread(i) PROVE WorkTypes'
    BY <1>14 DEF startThread, ClientIdle
  <1>15. ASSUME NEW i \in Plugins, start(i) PROVE WorkTypes'
    BY <1>15 DEF start, ClientIdle
  <1>16. ASSUME RateIsSet PROVE WorkTypes'
    BY <1>16 DEF RateIsSet
  <1>17. ASSUME subscribe PROVE WorkTypes'
    BY <1>17 DEF subscribe
  <1>18. ASSUME DestroySystem PROVE WorkTypes'
    BY <1>18 DEF DestroySystem
  <1>19. ASSUME Log PROVE WorkTypes'
    BY <1>19 DEF Log
  <1>20. ASSUME NEW s \in Systems, Discover(s) PROVE WorkTypes'
    BY <1>20 DEF Discover
  <1>21. ASSUME NEW p \in Parties, Join(p) PROVE WorkTypes'
    BY <1>21 DEF Join
  <1>22. ASSUME NEW p \in Parties, Free(p) PROVE WorkTypes'
    BY <1>22 DEF Free
  <1>23. ASSUME NEW i \in Plugins, collectThread(i) PROVE WorkTypes'
    BY <1>23 DEF collectThread, Locked
  <1>24. ASSUME NEW i \in Plugins, Message(i) PROVE WorkTypes'
    BY <1>24 DEF Message
  <1>25. CASE UNCHANGED vars
    BY <1>25 DEF vars
  <1>26. QED
    BY ONLY [Next]_vars, <1>1, <1>2, <1>3, <1>4, <1>5, <1>6, <1>7, <1>8,
       <1>9, <1>10, <1>11, <1>12, <1>13, <1>14, <1>15, <1>16, <1>17, <1>18,
       <1>19, <1>20, <1>21, <1>22, <1>23, <1>24, <1>25
       DEF Next, Link, Callback, Client

\* and the flags.
LEMMA FlagsStep ==
    ASSUME TypeOK, [Next]_vars
    PROVE  Flags'
  <1> USE ConstantFacts DEF TypeOK, Flags, promiseVars, systemVars,
     pluginVars
  <1>1. ASSUME NEW config \in SUBSET Range(Methods), Connect(config) PROVE Flags'
    BY <1>1 DEF Connect
  <1>2. ASSUME NEW tell \in BOOLEAN, Subscribe(tell) PROVE Flags'
    BY <1>2 DEF Subscribe
  <1>3. ASSUME Timeout PROVE Flags'
    BY <1>3 DEF Timeout
  <1>4. ASSUME GiveUp PROVE Flags'
    BY <1>4 DEF GiveUp
  <1>5. ASSUME Found PROVE Flags'
    BY <1>5 DEF Found
  <1>6. ASSUME NEW ok \in BOOLEAN, Check(ok) PROVE Flags'
    BY <1>6 DEF Check
  <1>7. ASSUME NEW ok \in BOOLEAN, getUniqueID(ok) PROVE Flags'
    BY <1>7 DEF getUniqueID
  <1>8. ASSUME Regist PROVE Flags'
    BY <1>8 DEF Regist, Destroy, Locked
  <1>9. ASSUME LinkSucceeds PROVE Flags'
    BY <1>9 DEF LinkSucceeds, Locked
  <1>10. ASSUME OnNewSystem PROVE Flags'
    BY <1>10 DEF OnNewSystem
  <1>11. ASSUME SetValue PROVE Flags'
    BY <1>11 DEF SetValue
  <1>12. ASSUME NEW k \in Range(Kinds), Open(k) PROVE Flags'
    BY <1>12 DEF Open, ClientIdle, Locked
  <1>13. ASSUME NEW i \in Plugins, Close(i) PROVE Flags'
    BY <1>13 DEF Close, Destroy, ClientIdle
  <1>14. ASSUME NEW i \in Plugins, startThread(i) PROVE Flags'
    BY <1>14 DEF startThread, ClientIdle
  <1>15. ASSUME NEW i \in Plugins, start(i) PROVE Flags'
    BY <1>15 DEF start, ClientIdle
  <1>16. ASSUME RateIsSet PROVE Flags'
    BY <1>16 DEF RateIsSet
  <1>17. ASSUME subscribe PROVE Flags'
    BY <1>17 DEF subscribe
  <1>18. ASSUME DestroySystem PROVE Flags'
    BY <1>18 DEF DestroySystem
  <1>19. ASSUME Log PROVE Flags'
    BY <1>19 DEF Log
  <1>20. ASSUME NEW s \in Systems, Discover(s) PROVE Flags'
    BY <1>20 DEF Discover
  <1>21. ASSUME NEW p \in Parties, Join(p) PROVE Flags'
    BY <1>21 DEF Join
  <1>22. ASSUME NEW p \in Parties, Free(p) PROVE Flags'
    BY <1>22 DEF Free
  <1>23. ASSUME NEW i \in Plugins, collectThread(i) PROVE Flags'
    BY <1>23 DEF collectThread, Locked
  <1>24. ASSUME NEW i \in Plugins, Message(i) PROVE Flags'
    BY <1>24 DEF Message
  <1>25. CASE UNCHANGED vars
    BY <1>25 DEF vars
  <1>26. QED
    BY ONLY [Next]_vars, <1>1, <1>2, <1>3, <1>4, <1>5, <1>6, <1>7, <1>8,
       <1>9, <1>10, <1>11, <1>12, <1>13, <1>14, <1>15, <1>16, <1>17, <1>18,
       <1>19, <1>20, <1>21, <1>22, <1>23, <1>24, <1>25
       DEF Next, Link, Callback, Client

LEMMA TypeStep ==
    ASSUME TypeOK, SystemInv, [Next]_vars
    PROVE  TypeOK'
BY LinkTypesStep, CallTypesStep, LifeTypesStep, WorkTypesStep, FlagsStep
   DEF TypeOK, LinkTypes, CallTypes, LifeTypes, WorkTypes, Flags

\* A link that goes on has an autopilot.
LEMMA SystemStep ==
    ASSUME TypeOK, SystemInv, [Next]_vars
    PROVE  SystemInv'
  <1> USE ConstantFacts DEF TypeOK, SystemInv, promiseVars, systemVars,
     pluginVars
  <1>1. ASSUME NEW config \in SUBSET Range(Methods), Connect(config) PROVE SystemInv'
    BY <1>1 DEF Connect
  <1>2. ASSUME NEW tell \in BOOLEAN, Subscribe(tell) PROVE SystemInv'
    BY <1>2 DEF Subscribe
  <1>3. ASSUME Timeout PROVE SystemInv'
    BY <1>3 DEF Timeout
  <1>4. ASSUME GiveUp PROVE SystemInv'
    BY <1>4 DEF GiveUp
  <1>5. ASSUME Found PROVE SystemInv'
    BY <1>5 DEF Found
  <1>6. ASSUME NEW ok \in BOOLEAN, Check(ok) PROVE SystemInv'
    BY <1>6 DEF Check
  <1>7. ASSUME NEW ok \in BOOLEAN, getUniqueID(ok) PROVE SystemInv'
    BY <1>7 DEF getUniqueID
  <1>8. ASSUME Regist PROVE SystemInv'
    BY <1>8 DEF Regist, Destroy, Locked
  <1>9. ASSUME LinkSucceeds PROVE SystemInv'
    BY <1>9 DEF LinkSucceeds, Locked
  <1>10. ASSUME OnNewSystem PROVE SystemInv'
    BY <1>10 DEF OnNewSystem
  <1>11. ASSUME SetValue PROVE SystemInv'
    BY <1>11 DEF SetValue
  <1>12. ASSUME NEW k \in Range(Kinds), Open(k) PROVE SystemInv'
    BY <1>12 DEF Open, ClientIdle, Locked
  <1>13. ASSUME NEW i \in Plugins, Close(i) PROVE SystemInv'
    BY <1>13 DEF Close, Destroy, ClientIdle
  <1>14. ASSUME NEW i \in Plugins, startThread(i) PROVE SystemInv'
    BY <1>14 DEF startThread, ClientIdle
  <1>15. ASSUME NEW i \in Plugins, start(i) PROVE SystemInv'
    BY <1>15 DEF start, ClientIdle
  <1>16. ASSUME RateIsSet PROVE SystemInv'
    BY <1>16 DEF RateIsSet
  <1>17. ASSUME subscribe PROVE SystemInv'
    BY <1>17 DEF subscribe
  <1>18. ASSUME DestroySystem PROVE SystemInv'
    BY <1>18 DEF DestroySystem
  <1>19. ASSUME Log PROVE SystemInv'
    BY <1>19 DEF Log
  <1>20. ASSUME NEW s \in Systems, Discover(s) PROVE SystemInv'
    BY <1>20 DEF Discover
  <1>21. ASSUME NEW p \in Parties, Join(p) PROVE SystemInv'
    BY <1>21 DEF Join
  <1>22. ASSUME NEW p \in Parties, Free(p) PROVE SystemInv'
    BY <1>22 DEF Free
  <1>23. ASSUME NEW i \in Plugins, collectThread(i) PROVE SystemInv'
    BY <1>23 DEF collectThread, Locked
  <1>24. ASSUME NEW i \in Plugins, Message(i) PROVE SystemInv'
    BY <1>24 DEF Message
  <1>25. CASE UNCHANGED vars
    BY <1>25 DEF vars
  <1>26. QED
    BY ONLY [Next]_vars, <1>1, <1>2, <1>3, <1>4, <1>5, <1>6, <1>7, <1>8,
       <1>9, <1>10, <1>11, <1>12, <1>13, <1>14, <1>15, <1>16, <1>17, <1>18,
       <1>19, <1>20, <1>21, <1>22, <1>23, <1>24, <1>25
       DEF Next, Link, Callback, Client

\* Kinds are registered in order, and stay alive.
LEMMA RegistryStep ==
    ASSUME TypeOK, SystemInv, RegistryInv, HeldInv, [Next]_vars
    PROVE  RegistryInv'
  <1> USE ConstantFacts DEF TypeOK, SystemInv, RegistryInv, Registers,
     HeldInv, promiseVars, systemVars, pluginVars
  <1>1. ASSUME NEW config \in SUBSET Range(Methods), Connect(config) PROVE RegistryInv'
    <2>1. ASSUME NEW j \in 1..Len(Kinds) PROVE Registers(j)'
      <3>1. Kinds[j] \in Range(Kinds) /\ Registers(j) /\ registry[Kinds[j]] \in 0..MaxLinks
        BY ONLY j \in 1..Len(Kinds), ConstantFacts, RegistryInv, TypeOK
        DEF RegistryInv, TypeOK
      <3>2. /\ links' = links + 1 /\ pc' = "subscribe" /\ UNCHANGED <<registry, life>>
        BY <1>1 DEF Connect
      <3>3. links \in Nat /\ registry[Kinds[j]] \in Nat
        BY ONLY <3>1, ConstantFacts, TypeOK DEF TypeOK
      <3>4. QED
        BY ONLY <3>1, <3>2, <3>3 DEF Registers
    <2>2. (pc = "regist" => tries <= Len(Kinds))'
      BY <1>1 DEF Connect
    <2>3. QED
      BY <2>1, <2>2 DEF RegistryInv
  <1>2. ASSUME NEW tell \in BOOLEAN, Subscribe(tell) PROVE RegistryInv'
    BY <1>2 DEF Subscribe
  <1>3. ASSUME Timeout PROVE RegistryInv'
    BY <1>3 DEF Timeout
  <1>4. ASSUME GiveUp PROVE RegistryInv'
    BY <1>4 DEF GiveUp
  <1>5. ASSUME Found PROVE RegistryInv'
    BY <1>5 DEF Found
  <1>6. ASSUME NEW ok \in BOOLEAN, Check(ok) PROVE RegistryInv'
    BY <1>6 DEF Check
  <1>7. ASSUME NEW ok \in BOOLEAN, getUniqueID(ok) PROVE RegistryInv'
    BY <1>7 DEF getUniqueID
  <1>8. ASSUME Regist PROVE RegistryInv'
    <2> DEFINE k == Kinds[tries + 1]
    <2>1. /\ pc = "regist" /\ UNCHANGED <<pc, links>> /\ tries' = tries + 1
          /\ tries + 1 \in 1..Len(Kinds) /\ k \in Range(Kinds) /\ tries \in Nat
          /\ registry' = [registry EXCEPT ![k] = links]
          /\ \/ registry[k] # 0
                /\ life' = [life EXCEPT ![<<k, links>>] = "alive",
                                       ![<<k, registry[k]>>] = "leaving"]
             \/ life' = [life EXCEPT ![<<k, links>>] = "alive"]
      BY ONLY <1>8, ConstantFacts, TypeOK DEF Regist, TypeOK
    <2>2. /\ registry[k] \in 0..MaxLinks /\ links \in 0..MaxLinks /\ links # 0
          /\ registry[k] < links
      <3>1. Registers(tries + 1)
        BY ONLY <2>1, RegistryInv DEF RegistryInv
      <3>2. QED
        BY ONLY <2>1, <3>1, TypeOK, SystemInv DEF TypeOK, SystemInv, Registers
    <2>3. <<k, links>> \in Plugins
      BY ONLY <2>1, <2>2, PluginOf
    <2>4. ASSUME NEW j \in 1..Len(Kinds) PROVE Registers(j)'
      <3>1. Kinds[j] \in Range(Kinds) /\ Registers(j) /\ registry[Kinds[j]] \in 0..MaxLinks
        BY ONLY j \in 1..Len(Kinds), ConstantFacts, RegistryInv, TypeOK
        DEF RegistryInv, TypeOK
      <3>2. links \in Nat /\ registry[Kinds[j]] \in Nat /\ registry[k] \in Nat
        BY ONLY <3>1, <2>2, ConstantFacts
      <3>3. CASE j = tries + 1
        <4>1. registry'[Kinds[j]] = links
          BY ONLY <2>1, <3>1, <3>3, TypeOK DEF TypeOK
        <4>2. life'[<<Kinds[j], links>>] = "alive"
          BY ONLY <2>1, <2>2, <2>3, <3>2, <3>3, TypeOK DEF TypeOK
        <4>3. QED
          BY ONLY <2>1, <3>2, <3>3, <4>1, <4>2 DEF Registers
      <3>4. CASE j # tries + 1
        <4>1. Kinds[j] # k
          BY ONLY <2>1, <3>4, j \in 1..Len(Kinds), ConstantFacts
        <4>2. registry'[Kinds[j]] = registry[Kinds[j]]
          BY ONLY <2>1, <3>1, <4>1, TypeOK DEF TypeOK
        <4>3. registry[Kinds[j]] # 0 =>
                  life'[<<Kinds[j], registry[Kinds[j]]>>] = "alive"
          <5> SUFFICES ASSUME registry[Kinds[j]] # 0
                       PROVE  life'[<<Kinds[j], registry[Kinds[j]]>>] = "alive"
            OBVIOUS
          <5>1. <<Kinds[j], registry[Kinds[j]]>> \in Plugins
            BY ONLY <3>1, registry[Kinds[j]] # 0, PluginOf
          <5>2. life[<<Kinds[j], registry[Kinds[j]]>>] = "alive"
            BY ONLY <3>1, registry[Kinds[j]] # 0 DEF Registers
          <5>3. QED
            BY ONLY <2>1, <4>1, <5>1, <5>2, TypeOK DEF TypeOK
        <4>4. j \in Nat
          OBVIOUS
        <4>5. QED
          BY ONLY <2>1, <3>1, <3>2, <3>4, <4>2, <4>3, <4>4 DEF Registers
      <3>5. QED
        BY ONLY <3>3, <3>4
    <2>5. (pc = "regist" => tries <= Len(Kinds))'
      BY ONLY <2>1
    <2>6. QED
      BY ONLY <2>4, <2>5 DEF RegistryInv
  <1>9. ASSUME LinkSucceeds PROVE RegistryInv'
    BY <1>9 DEF LinkSucceeds, Locked
  <1>10. ASSUME OnNewSystem PROVE RegistryInv'
    BY <1>10 DEF OnNewSystem
  <1>11. ASSUME SetValue PROVE RegistryInv'
    BY <1>11 DEF SetValue
  <1>12. ASSUME NEW k \in Range(Kinds), Open(k) PROVE RegistryInv'
    BY <1>12 DEF Open, ClientIdle, Locked
  <1>13. ASSUME NEW i \in Plugins, Close(i) PROVE RegistryInv'
    <2>1. ASSUME NEW j \in 1..Len(Kinds) PROVE Registers(j)'
      <3>1. Kinds[j] \in Range(Kinds) /\ Registers(j) /\ registry[Kinds[j]] \in 0..MaxLinks
        BY ONLY j \in 1..Len(Kinds), ConstantFacts, RegistryInv, TypeOK
        DEF RegistryInv, TypeOK
      <3>2. /\ UNCHANGED <<links, pc, tries, linked, registry>>
            /\ life' = life \/ (registry[i[1]] # i[2] /\ life' = [life EXCEPT ![i] = "leaving"])
        BY <1>13 DEF Close
      <3>3. CASE registry[Kinds[j]] # 0
        <4>1. <<Kinds[j], registry[Kinds[j]]>> \in Plugins
          BY ONLY <3>1, <3>3, PluginOf
        <4>2. life'[<<Kinds[j], registry[Kinds[j]]>>] = "alive"
          BY ONLY <3>1, <3>2, <3>3, <4>1, TypeOK DEF Registers, TypeOK
        <4>3. QED
          BY ONLY <3>1, <3>2, <4>2 DEF Registers
      <3>4. CASE registry[Kinds[j]] = 0
        BY ONLY <3>1, <3>2, <3>4 DEF Registers
      <3>5. QED
        BY ONLY <3>3, <3>4
    <2>2. (pc = "regist" => tries <= Len(Kinds))'
      BY <1>13 DEF Close
    <2>3. QED
      BY <2>1, <2>2 DEF RegistryInv
  <1>14. ASSUME NEW i \in Plugins, startThread(i) PROVE RegistryInv'
    BY <1>14 DEF startThread, ClientIdle
  <1>15. ASSUME NEW i \in Plugins, start(i) PROVE RegistryInv'
    BY <1>15 DEF start, ClientIdle
  <1>16. ASSUME RateIsSet PROVE RegistryInv'
    BY <1>16 DEF RateIsSet
  <1>17. ASSUME subscribe PROVE RegistryInv'
    BY <1>17 DEF subscribe
  <1>18. ASSUME DestroySystem PROVE RegistryInv'
    BY <1>18 DEF DestroySystem
  <1>19. ASSUME Log PROVE RegistryInv'
    BY <1>19 DEF Log
  <1>20. ASSUME NEW s \in Systems, Discover(s) PROVE RegistryInv'
    BY <1>20 DEF Discover
  <1>21. ASSUME NEW p \in Parties, Join(p) PROVE RegistryInv'
    <2>1. ASSUME NEW j \in 1..Len(Kinds) PROVE Registers(j)'
      <3>1. Kinds[j] \in Range(Kinds) /\ Registers(j) /\ registry[Kinds[j]] \in 0..MaxLinks
        BY ONLY j \in 1..Len(Kinds), ConstantFacts, RegistryInv, TypeOK
        DEF RegistryInv, TypeOK
      <3>2. /\ UNCHANGED <<links, pc, tries, linked, registry>>
            /\ life[dying[p]] = "leaving" /\ life' = [life EXCEPT ![dying[p]] = "bare"]
        BY <1>21 DEF Join
      <3>3. CASE registry[Kinds[j]] # 0
        <4>1. <<Kinds[j], registry[Kinds[j]]>> \in Plugins
          BY ONLY <3>1, <3>3, PluginOf
        <4>2. life'[<<Kinds[j], registry[Kinds[j]]>>] = "alive"
          BY ONLY <3>1, <3>2, <3>3, <4>1, TypeOK DEF Registers, TypeOK
        <4>3. QED
          BY ONLY <3>1, <3>2, <4>2 DEF Registers
      <3>4. CASE registry[Kinds[j]] = 0
        BY ONLY <3>1, <3>2, <3>4 DEF Registers
      <3>5. QED
        BY ONLY <3>3, <3>4
    <2>2. (pc = "regist" => tries <= Len(Kinds))'
      BY <1>21 DEF Join
    <2>3. QED
      BY <2>1, <2>2 DEF RegistryInv
  <1>22. ASSUME NEW p \in Parties, Free(p) PROVE RegistryInv'
    <2>1. ASSUME NEW j \in 1..Len(Kinds) PROVE Registers(j)'
      <3>1. Kinds[j] \in Range(Kinds) /\ Registers(j) /\ registry[Kinds[j]] \in 0..MaxLinks
        BY ONLY j \in 1..Len(Kinds), ConstantFacts, RegistryInv, TypeOK
        DEF RegistryInv, TypeOK
      <3>2. /\ UNCHANGED <<links, pc, tries, linked, registry>>
            /\ life[dying[p]] = "bare" /\ life' = [life EXCEPT ![dying[p]] = "gone"]
        BY <1>22 DEF Free
      <3>3. CASE registry[Kinds[j]] # 0
        <4>1. <<Kinds[j], registry[Kinds[j]]>> \in Plugins
          BY ONLY <3>1, <3>3, PluginOf
        <4>2. life'[<<Kinds[j], registry[Kinds[j]]>>] = "alive"
          BY ONLY <3>1, <3>2, <3>3, <4>1, TypeOK DEF Registers, TypeOK
        <4>3. QED
          BY ONLY <3>1, <3>2, <4>2 DEF Registers
      <3>4. CASE registry[Kinds[j]] = 0
        BY ONLY <3>1, <3>2, <3>4 DEF Registers
      <3>5. QED
        BY ONLY <3>3, <3>4
    <2>2. (pc = "regist" => tries <= Len(Kinds))'
      BY <1>22 DEF Free
    <2>3. QED
      BY <2>1, <2>2 DEF RegistryInv
  <1>23. ASSUME NEW i \in Plugins, collectThread(i) PROVE RegistryInv'
    BY <1>23 DEF collectThread, Locked
  <1>24. ASSUME NEW i \in Plugins, Message(i) PROVE RegistryInv'
    BY <1>24 DEF Message
  <1>25. CASE UNCHANGED vars
    BY <1>25 DEF vars
  <1>26. QED
    BY ONLY [Next]_vars, <1>1, <1>2, <1>3, <1>4, <1>5, <1>6, <1>7, <1>8,
       <1>9, <1>10, <1>11, <1>12, <1>13, <1>14, <1>15, <1>16, <1>17, <1>18,
       <1>19, <1>20, <1>21, <1>22, <1>23, <1>24, <1>25
       DEF Next, Link, Callback, Client

\* What is held lives, and a thread ends before its plugin.
LEMMA HeldStep ==
    ASSUME TypeOK, SystemInv, RegistryInv, HeldInv, [Next]_vars
    PROVE  HeldInv'
  <1> USE ConstantFacts DEF TypeOK, SystemInv, RegistryInv, Registers,
     HeldInv, promiseVars, systemVars, pluginVars
  <1>1. ASSUME NEW config \in SUBSET Range(Methods), Connect(config) PROVE HeldInv'
    BY <1>1 DEF Connect
  <1>2. ASSUME NEW tell \in BOOLEAN, Subscribe(tell) PROVE HeldInv'
    BY <1>2 DEF Subscribe
  <1>3. ASSUME Timeout PROVE HeldInv'
    BY <1>3 DEF Timeout
  <1>4. ASSUME GiveUp PROVE HeldInv'
    BY <1>4 DEF GiveUp
  <1>5. ASSUME Found PROVE HeldInv'
    BY <1>5 DEF Found
  <1>6. ASSUME NEW ok \in BOOLEAN, Check(ok) PROVE HeldInv'
    BY <1>6 DEF Check
  <1>7. ASSUME NEW ok \in BOOLEAN, getUniqueID(ok) PROVE HeldInv'
    BY <1>7 DEF getUniqueID
  <1>8. ASSUME Regist PROVE HeldInv'
    <2> DEFINE k == Kinds[tries + 1]
    <2>1. /\ k \in Range(Kinds) /\ links # 0 /\ UNCHANGED <<held, starting, worker>>
          /\ \/ registry[k] # 0 /\ <<k, registry[k]>> \notin held
                /\ life' = [life EXCEPT ![<<k, links>>] = "alive",
                                       ![<<k, registry[k]>>] = "leaving"]
             \/ life' = [life EXCEPT ![<<k, links>>] = "alive"]
      BY <1>8 DEF Regist
    <2>2. ASSUME NEW i \in Plugins
          PROVE  \/ life'[i] = life[i]
                 \/ life'[i] = "alive"
                 \/ i \notin held /\ life'[i] = "leaving"
      BY ONLY <2>1, i \in Plugins, TypeOK DEF TypeOK
    <2>3. held \subseteq Plugins
      BY ONLY TypeOK DEF TypeOK
    <2>4. QED
      BY ONLY <2>1, <2>2, <2>3, HeldInv DEF HeldInv
  <1>9. ASSUME LinkSucceeds PROVE HeldInv'
    BY <1>9 DEF LinkSucceeds, Locked
  <1>10. ASSUME OnNewSystem PROVE HeldInv'
    BY <1>10 DEF OnNewSystem
  <1>11. ASSUME SetValue PROVE HeldInv'
    BY <1>11 DEF SetValue
  <1>12. ASSUME NEW k \in Range(Kinds), Open(k) PROVE HeldInv'
    BY <1>12 DEF Open, ClientIdle, Locked
  <1>13. ASSUME NEW i \in Plugins, Close(i) PROVE HeldInv'
    <2>1. /\ starting = None /\ UNCHANGED <<starting, worker>>
          /\ i \in held /\ held' = held \ {i}
          /\ life' = life \/ life' = [life EXCEPT ![i] = "leaving"]
      BY <1>13 DEF Close, Destroy, ClientIdle
    <2>2. ASSUME NEW j \in Plugins
          PROVE  life'[j] = life[j] \/ (j = i /\ life'[j] = "leaving")
      <3>1. life \in [Plugins -> Lives]
        BY ONLY TypeOK DEF TypeOK
      <3>2. CASE life' = life
        BY ONLY <3>2
      <3>3. CASE life' = [life EXCEPT ![i] = "leaving"]
        BY ONLY <3>1, <3>3, j \in Plugins
      <3>4. QED
        BY ONLY <2>1, <3>2, <3>3
    <2>3. held \subseteq Plugins
      BY ONLY TypeOK DEF TypeOK
    <2>4. QED
      BY ONLY <2>1, <2>2, <2>3, HeldInv DEF HeldInv
  <1>14. ASSUME NEW i \in Plugins, startThread(i) PROVE HeldInv'
    BY <1>14 DEF startThread, ClientIdle
  <1>15. ASSUME NEW i \in Plugins, start(i) PROVE HeldInv'
    BY <1>15 DEF start, ClientIdle
  <1>16. ASSUME RateIsSet PROVE HeldInv'
    BY <1>16 DEF RateIsSet
  <1>17. ASSUME subscribe PROVE HeldInv'
    BY <1>17 DEF subscribe
  <1>18. ASSUME DestroySystem PROVE HeldInv'
    BY <1>18 DEF DestroySystem
  <1>19. ASSUME Log PROVE HeldInv'
    BY <1>19 DEF Log
  <1>20. ASSUME NEW s \in Systems, Discover(s) PROVE HeldInv'
    BY <1>20 DEF Discover
  <1>21. ASSUME NEW p \in Parties, Join(p) PROVE HeldInv'
    BY <1>21 DEF Join
  <1>22. ASSUME NEW p \in Parties, Free(p) PROVE HeldInv'
    BY <1>22 DEF Free
  <1>23. ASSUME NEW i \in Plugins, collectThread(i) PROVE HeldInv'
    BY <1>23 DEF collectThread, Locked
  <1>24. ASSUME NEW i \in Plugins, Message(i) PROVE HeldInv'
    BY <1>24 DEF Message
  <1>25. CASE UNCHANGED vars
    BY <1>25 DEF vars
  <1>26. QED
    BY ONLY [Next]_vars, <1>1, <1>2, <1>3, <1>4, <1>5, <1>6, <1>7, <1>8,
       <1>9, <1>10, <1>11, <1>12, <1>13, <1>14, <1>15, <1>16, <1>17, <1>18,
       <1>19, <1>20, <1>21, <1>22, <1>23, <1>24, <1>25
       DEF Next, Link, Callback, Client

\* Without careless use no call outlives its link.
LEMMA CarefulStep ==
    ASSUME IInv, TypeOK', ~careless', [Next]_vars
    PROVE  CarefulInv'
  <1> USE ConstantFacts DEF IInv, TypeOK, SystemInv, RegistryInv, HeldInv,
     CarefulInv, promiseVars, systemVars, pluginVars
  <1>1. ASSUME NEW config \in SUBSET Range(Methods), Connect(config) PROVE CarefulInv'
    BY ONLY <1>1, IInv, ~careless' DEF IInv, CarefulInv, Connect, pluginVars
  <1>2. ASSUME NEW tell \in BOOLEAN, Subscribe(tell) PROVE CarefulInv'
    <2>1. /\ pc = "subscribe" /\ CarefulInv /\ ~careless
          /\ pc' = "wait" /\ subscriber' = links
          /\ calls' = calls \/ calls' = Append(calls, links)
          /\ UNCHANGED <<setting, value, links, subscribed, life, gone, crashed>>
      BY ONLY <1>2, IInv, ~careless' DEF IInv, Subscribe, systemVars,
         pluginVars
    <2>2. calls = <<>> /\ setting = <<>> /\ value = None
      BY ONLY <2>1 DEF CarefulInv
    <2>3. calls' = <<>> \/ calls' = <<links>>
      BY ONLY <2>1, <2>2
    <2>4. links # 0
      BY ONLY <2>1, IInv DEF IInv, SystemInv
    <2>5. QED
      BY ONLY <2>1, <2>2, <2>3, <2>4 DEF CarefulInv
  <1>3. ASSUME Timeout PROVE CarefulInv'
    BY <1>3 DEF Timeout
  <1>4. ASSUME GiveUp PROVE CarefulInv'
    <2>1. /\ ~careless /\ ~UnderWay(links) /\ CarefulInv
          /\ pc' = "idle" /\ subscriber' = 0
          /\ UNCHANGED <<calls, setting, value, links, subscribed, life, gone, crashed>>
      BY ONLY <1>4, IInv, ~careless' DEF IInv, GiveUp, pluginVars
    <2>2. calls # <<links>>
      <3> SUFFICES ASSUME calls = <<links>> PROVE FALSE
        OBVIOUS
      <3>1. DOMAIN calls = 1..1 /\ calls[1] = links
        OBVIOUS
      <3>2. links \in Range(calls)
        BY ONLY <3>1 DEF Range
      <3>3. QED
        BY ONLY <2>1, <3>2 DEF UnderWay
    <2>3. calls = <<>> /\ setting = <<>>
      BY ONLY <2>1, <2>2 DEF CarefulInv, UnderWay
    <2>4. QED
      BY ONLY <2>1, <2>3 DEF CarefulInv
  <1>5. ASSUME Found PROVE CarefulInv'
    BY <1>5 DEF Found
  <1>6. ASSUME NEW ok \in BOOLEAN, Check(ok) PROVE CarefulInv'
    BY <1>6 DEF Check
  <1>7. ASSUME NEW ok \in BOOLEAN, getUniqueID(ok) PROVE CarefulInv'
    BY <1>7 DEF getUniqueID
  <1>8. ASSUME Regist PROVE CarefulInv'
    <2> DEFINE k == Kinds[tries + 1]
    <2>1. /\ ~careless /\ CarefulInv
          /\ pc = "regist" /\ UNCHANGED <<pc, promiseVars, links, subscribed, gone, crashed>>
          /\ \/ /\ <<k, registry[k]>> \notin subscribed
                /\ life' = [life EXCEPT ![<<k, links>>] = "alive",
                                       ![<<k, registry[k]>>] = "leaving"]
             \/ life' = [life EXCEPT ![<<k, links>>] = "alive"]
      BY ONLY <1>8, IInv, ~careless' DEF IInv, Regist, Destroy, systemVars
    <2>2. ASSUME NEW i \in subscribed PROVE life'[i] = "alive"
      <3>1. i \in Plugins /\ life[i] = "alive"
        BY ONLY <2>1, i \in subscribed, IInv DEF IInv, TypeOK, CarefulInv
      <3>2. QED
        BY ONLY <2>1, <3>1, i \in subscribed, IInv DEF IInv, TypeOK
    <2>3. QED
      BY ONLY <2>1, <2>2 DEF CarefulInv, promiseVars
  <1>9. ASSUME LinkSucceeds PROVE CarefulInv'
    BY <1>9 DEF LinkSucceeds, Locked
  <1>10. ASSUME OnNewSystem PROVE CarefulInv'
    <2>1. /\ ~careless /\ CarefulInv /\ setting = <<>> /\ calls # <<>>
          /\ calls' = Tail(calls)
          /\ \/ /\ subscriber' = 0 /\ setting' = <<Head(calls), Last(systems)>>
             \/ UNCHANGED <<subscriber, setting>>
          /\ UNCHANGED <<pc, value, links, subscribed, life, gone, crashed>>
      BY ONLY <1>10, IInv, ~careless' DEF IInv, OnNewSystem, systemVars,
         pluginVars
    <2>2. /\ calls = <<links>> /\ subscriber = links /\ value = None
          /\ pc \in {"wait", "expired"}
      BY ONLY <2>1 DEF CarefulInv
    <2>3. calls' = <<>> /\ Head(calls) = links
      BY ONLY <2>1, <2>2
    <2>4. QED
      BY ONLY <2>1, <2>2, <2>3 DEF CarefulInv
  <1>11. ASSUME SetValue PROVE CarefulInv'
    BY <1>11 DEF SetValue
  <1>12. ASSUME NEW k \in Range(Kinds), Open(k) PROVE CarefulInv'
    BY <1>12 DEF Open, ClientIdle, Locked
  <1>13. ASSUME NEW i \in Plugins, Close(i) PROVE CarefulInv'
    BY <1>13 DEF Close, Destroy, ClientIdle
  <1>14. ASSUME NEW i \in Plugins, startThread(i) PROVE CarefulInv'
    BY <1>14 DEF startThread, ClientIdle
  <1>15. ASSUME NEW i \in Plugins, start(i) PROVE CarefulInv'
    BY <1>15 DEF start, ClientIdle
  <1>16. ASSUME RateIsSet PROVE CarefulInv'
    BY <1>16 DEF RateIsSet
  <1>17. ASSUME subscribe PROVE CarefulInv'
    BY <1>17 DEF subscribe
  <1>18. ASSUME DestroySystem PROVE CarefulInv'
    BY <1>18 DEF DestroySystem
  <1>19. ASSUME Log PROVE CarefulInv'
    BY <1>19 DEF Log
  <1>20. ASSUME NEW s \in Systems, Discover(s) PROVE CarefulInv'
    <2>1. /\ ~careless /\ CarefulInv
          /\ \/ subscriber = 0 /\ calls' = calls
             \/ /\ subscriber # 0 /\ ~UnderWay(subscriber)
                /\ calls' = Append(calls, subscriber)
          /\ UNCHANGED <<pc, subscriber, setting, value, links, subscribed, life, gone,
                         crashed>>
      BY ONLY <1>20, IInv, ~careless' DEF IInv, Discover, pluginVars
    <2>2. CASE subscriber = 0
      BY ONLY <2>1, <2>2 DEF CarefulInv
    <2>3. CASE subscriber # 0
      <3>1. subscriber = links /\ calls # <<links>>
        <4>1. subscriber = links
          BY ONLY <2>1, <2>3 DEF CarefulInv
        <4> SUFFICES ASSUME calls = <<links>> PROVE FALSE
          BY <4>1
        <4>2. DOMAIN calls = 1..1 /\ calls[1] = links
          OBVIOUS
        <4>3. links \in Range(calls)
          BY ONLY <4>2 DEF Range
        <4>4. QED
          BY ONLY <2>1, <2>3, <4>1, <4>3 DEF UnderWay
      <3>2. calls = <<>>
        BY ONLY <2>1, <3>1 DEF CarefulInv
      <3>3. calls' = <<links>>
        BY ONLY <2>1, <2>3, <3>1, <3>2
      <3>4. QED
        BY ONLY <2>1, <2>3, <3>1, <3>3 DEF CarefulInv
    <2>4. QED
      BY ONLY <2>2, <2>3
  <1>21. ASSUME NEW p \in Parties, Join(p) PROVE CarefulInv'
    BY <1>21 DEF Join
  <1>22. ASSUME NEW p \in Parties, Free(p) PROVE CarefulInv'
    BY <1>22 DEF Free
  <1>23. ASSUME NEW i \in Plugins, collectThread(i) PROVE CarefulInv'
    BY <1>23 DEF collectThread, Locked
  <1>24. ASSUME NEW i \in Plugins, Message(i) PROVE CarefulInv'
    BY <1>24 DEF Message
  <1>25. CASE UNCHANGED vars
    BY <1>25 DEF vars
  <1>26. QED
    BY ONLY [Next]_vars, <1>1, <1>2, <1>3, <1>4, <1>5, <1>6, <1>7, <1>8,
       <1>9, <1>10, <1>11, <1>12, <1>13, <1>14, <1>15, <1>16, <1>17, <1>18,
       <1>19, <1>20, <1>21, <1>22, <1>23, <1>24, <1>25
       DEF Next, Link, Callback, Client

-----------------------------------------------------------------------------
\* The inductive invariant holds, for any systems, kinds and number of links.
THEOREM VehicleInvariant == Spec => []IInv
  <1>1. Init => IInv
    <2> SUFFICES ASSUME Init PROVE IInv
      OBVIOUS
    <2>1. TypeOK
      <3>1. 0 \in 0..MaxLinks /\ 0 \in Nat
        BY ConstantFacts
      <3>2. registry \in [Range(Kinds) -> 0..MaxLinks]
        BY <3>1 DEF Init
      <3>3. /\ life \in [Plugins -> Lives]
            /\ worker \in [Plugins -> {"none", "run", "sleep", "publish", "ended"}]
            /\ dying \in [Parties -> Plugins \cup {None}]
        BY DEF Init, Lives
      <3>4. systems \in Seq(Systems) /\ calls \in Seq(Links)
        BY DEF Init
      <3>5. QED
        BY <3>1, <3>2, <3>3, <3>4 DEF Init, TypeOK
    <2>2. SystemInv
      BY DEF Init, SystemInv
    <2>3. RegistryInv
      <3>1. ASSUME NEW j \in 1..Len(Kinds) PROVE Registers(j)
        BY ConstantFacts DEF Init, Registers
      <3>2. QED
        BY <3>1 DEF Init, RegistryInv
    <2>4. HeldInv /\ CarefulInv
      BY DEF Init, HeldInv, CarefulInv
    <2>5. QED
      BY <2>1, <2>2, <2>3, <2>4 DEF IInv
  <1>2. IInv /\ [Next]_vars => IInv'
    BY TypeStep, SystemStep, RegistryStep, HeldStep, CarefulStep DEF IInv
  <1>3. QED
    BY <1>1, <1>2, PTL DEF Spec

\* isLink() between links means that the system has an autopilot, and that
\* every kind of plugin is registered, alive and of the last link.
THEOREM LinkedSystem == Spec => []LinkedIsReady
  <1>1. IInv => LinkedIsReady
    BY ConstantFacts DEF IInv, SystemInv, RegistryInv, Registers, LinkedIsReady
  <1>2. QED
    BY <1>1, VehicleInvariant, PTL

\* The process ends only after something the code does not protect.
THEOREM CarefulUse == Spec => []CarefulIsSafe
  <1>1. IInv => CarefulIsSafe
    BY DEF IInv, CarefulInv, CarefulIsSafe
  <1>2. QED
    BY <1>1, VehicleInvariant, PTL
=============================================================================
