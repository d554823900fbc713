--------------------------- MODULE DJIVehicleProofs ---------------------------
(***************************************************************************)
(* A linked DJI system has its linker, its vehicle and, of this link, just *)
(* the plugins its model supports, and only careless use ends the process, *)
(* for any models, kinds of plugins and number of links.                   *)
(***************************************************************************)
EXTENDS DJIVehicle, TLAPS

\* The list of kinds names each once, and nothing but kinds.
LEMMA KindsFacts ==
    /\ \A j \in 1..Len(Kinds) : Kinds[j] \in Range(Kinds)
    /\ \A k \in Range(Kinds) : \E j \in 1..Len(Kinds) : Kinds[j] = k
    /\ \A i, j \in 1..Len(Kinds) : Kinds[i] = Kinds[j] => i = j
    /\ Len(Kinds) \in Nat /\ MaxLinks \in Nat
  <1>1. Len(Kinds) \in Nat /\ DOMAIN Kinds = 1..Len(Kinds)
    BY ConstantsAssumption
  <1>2. QED
    BY <1>1, ConstantsAssumption DEF Range, IsInjective

\* The types, in parts.
SdkTypes ==
    /\ pc \in {"idle", "channels", "vehicle", "verify", "camera", "files", "regist"}
    /\ links \in 0..MaxLinks /\ tries \in Nat
    /\ linker \in 0..MaxLinks /\ vehicle \in 0..MaxLinks
    /\ model \in Models \cup {Unknown}
PluginTypes ==
    /\ registry \in [Range(Kinds) -> 0..MaxLinks]
    /\ plugins \subseteq Plugins /\ dying \in Plugins \cup {None}
WorkTypes ==
    /\ api \in {None, "linker", "client", "battery"}
    /\ calling \in Plugins \cup {None}
    /\ battery \in [Links -> {"none", "run", "query", "ended"}]
    /\ callbacks \subseteq Plugins /\ viewers \subseteq Plugins
    /\ stream \in Plugins \cup {None}
Flags == linked \in BOOLEAN /\ careless \in BOOLEAN /\ crashed \in BOOLEAN

-----------------------------------------------------------------------------
\* Every step keeps the types: the link and its vehicle,
LEMMA SdkTypesStep ==
    ASSUME TypeOK, [Next]_vars
    PROVE  SdkTypes'
  <1> USE ConstantsAssumption, KindsFacts DEF TypeOK, SdkTypes, linkVars,
     sdkVars, pluginVars, workVars, streamVars, CameraTries
  <1>1. ASSUME NEW made \in BOOLEAN, NewLinker(made) PROVE SdkTypes'
    BY <1>1 DEF NewLinker, Fail, GoOn, Risk
  <1>2. ASSUME NEW usb \in BOOLEAN, NEW acm \in BOOLEAN, NEW opened \in BOOLEAN,
           addUartChannels(usb, acm, opened) PROVE SdkTypes'
    BY <1>2 DEF addUartChannels, Fail, GoOn
  <1>3. ASSUME NEW m \in Models \cup {Unknown}, NewVehicle(m) PROVE SdkTypes'
    BY <1>3 DEF NewVehicle, GoOn
  <1>4. ASSUME NEW ok \in BOOLEAN, verify(ok) PROVE SdkTypes'
    BY <1>4 DEF verify, Fail, GoOn
  <1>5. ASSUME NEW ok \in BOOLEAN, InitCamera(ok) PROVE SdkTypes'
    BY <1>5 DEF InitCamera, GoOn, CameraTried
  <1>6. ASSUME NEW ok \in BOOLEAN, syncCameraFile(ok) PROVE SdkTypes'
    BY <1>6 DEF syncCameraFile, GoOn, CameraTried
  <1>7. ASSUME NEW ok \in BOOLEAN, Regist(ok) PROVE SdkTypes'
    BY <1>7 DEF Regist, Risk
  <1>8. ASSUME Destroyed PROVE SdkTypes'
    BY <1>8 DEF Destroyed
  <1>9. ASSUME LinkSucceeds PROVE SdkTypes'
    BY <1>9 DEF LinkSucceeds
  <1>10. ASSUME NEW i \in Plugins, Call(i) PROVE SdkTypes'
    BY <1>10 DEF Call, Risk, Use, Covered
  <1>11. ASSUME NEW i \in Plugins, startBattery(i) PROVE SdkTypes'
    BY <1>11 DEF startBattery, Risk, Use, Covered
  <1>12. ASSUME NEW i \in Plugins, startStream(i) PROVE SdkTypes'
    BY <1>12 DEF startStream, Risk, Use, Covered
  <1>13. ASSUME NEW i \in Plugins, stopStream(i) PROVE SdkTypes'
    BY <1>13 DEF stopStream, Risk, Use, Covered
  <1>14. ASSUME NEW i \in Plugins, subscribeStreamData(i) PROVE SdkTypes'
    BY <1>14 DEF subscribeStreamData, Risk, Use, Covered
  <1>15. ASSUME NEW i \in Plugins, rotateAsync(i) PROVE SdkTypes'
    BY <1>15 DEF rotateAsync, Use
  <1>16. ASSUME Enter PROVE SdkTypes'
    BY <1>16 DEF Enter
  <1>17. ASSUME NEW ok \in BOOLEAN, Return(ok) PROVE SdkTypes'
    BY <1>17 DEF Return
  <1>18. ASSUME dataHandle PROVE SdkTypes'
    BY <1>18 DEF dataHandle
  <1>19. ASSUME NEW i \in Plugins, Push(i) PROVE SdkTypes'
    BY <1>19 DEF Push, convert
  <1>20. ASSUME NEW l \in Links, Collect(l) PROVE SdkTypes'
    BY <1>20 DEF Collect
  <1>21. ASSUME NEW l \in Links, Collected(l) PROVE SdkTypes'
    BY <1>21 DEF Collected
  <1>22. CASE UNCHANGED vars
    BY <1>22 DEF vars
  <1>23. QED
    BY ONLY [Next]_vars, <1>1, <1>2, <1>3, <1>4, <1>5, <1>6, <1>7, <1>8,
       <1>9, <1>10, <1>11, <1>12, <1>13, <1>14, <1>15, <1>16, <1>17, <1>18,
       <1>19, <1>20, <1>21, <1>22 DEF Next, Link, Client

\* the plugins,
LEMMA PluginTypesStep ==
    ASSUME TypeOK, SdkInv, [Next]_vars
    PROVE  PluginTypes'
  <1> USE ConstantsAssumption, KindsFacts DEF TypeOK, SdkInv, PluginTypes,
     Plugins, Links, linkVars, sdkVars, pluginVars, workVars, streamVars
  <1>1. ASSUME NEW made \in BOOLEAN, NewLinker(made) PROVE PluginTypes'
    BY <1>1 DEF NewLinker, Fail, GoOn, Risk
  <1>2. ASSUME NEW usb \in BOOLEAN, NEW acm \in BOOLEAN, NEW opened \in BOOLEAN,
           addUartChannels(usb, acm, opened) PROVE PluginTypes'
    BY <1>2 DEF addUartChannels, Fail, GoOn
  <1>3. ASSUME NEW m \in Models \cup {Unknown}, NewVehicle(m) PROVE PluginTypes'
    BY <1>3 DEF NewVehicle, GoOn
  <1>4. ASSUME NEW ok \in BOOLEAN, verify(ok) PROVE PluginTypes'
    BY <1>4 DEF verify, Fail, GoOn
  <1>5. ASSUME NEW ok \in BOOLEAN, InitCamera(ok) PROVE PluginTypes'
    BY <1>5 DEF InitCamera, GoOn, CameraTried
  <1>6. ASSUME NEW ok \in BOOLEAN, syncCameraFile(ok) PROVE PluginTypes'
    BY <1>6 DEF syncCameraFile, GoOn, CameraTried
  <1>7. ASSUME NEW ok \in BOOLEAN, Regist(ok) PROVE PluginTypes'
    <2> DEFINE k == Kinds[tries + 1]
    <2>1. /\ k \in Range(Kinds) /\ links \in 1..MaxLinks /\ links \in 0..MaxLinks
          /\ registry' = [registry EXCEPT ![k] = IF model \in Supports[k] THEN links
                                                ELSE registry[k]]
          /\ plugins' \subseteq plugins \cup {<<k, links>>}
          /\ dying' = None \/ (dying' = <<k, registry[k]>> /\ registry[k] # 0)
      BY ONLY <1>7, KindsFacts, TypeOK, SdkInv DEF Regist, TypeOK, SdkInv
    <2>2. registry[k] \in 0..MaxLinks
      BY ONLY <2>1, TypeOK DEF TypeOK
    <2>3. <<k, links>> \in Plugins /\ (registry[k] # 0 => <<k, registry[k]>> \in Plugins)
      BY ONLY <2>1, <2>2, KindsFacts DEF Plugins, Links
    <2>4. QED
      BY ONLY <2>1, <2>2, <2>3, TypeOK DEF TypeOK, PluginTypes
  <1>8. ASSUME Destroyed PROVE PluginTypes'
    BY <1>8 DEF Destroyed
  <1>9. ASSUME LinkSucceeds PROVE PluginTypes'
    BY <1>9 DEF LinkSucceeds
  <1>10. ASSUME NEW i \in Plugins, Call(i) PROVE PluginTypes'
    BY <1>10 DEF Call, Risk, Use, Covered
  <1>11. ASSUME NEW i \in Plugins, startBattery(i) PROVE PluginTypes'
    BY <1>11 DEF startBattery, Risk, Use, Covered
  <1>12. ASSUME NEW i \in Plugins, startStream(i) PROVE PluginTypes'
    BY <1>12 DEF startStream, Risk, Use, Covered
  <1>13. ASSUME NEW i \in Plugins, stopStream(i) PROVE PluginTypes'
    BY <1>13 DEF stopStream, Risk, Use, Covered
  <1>14. ASSUME NEW i \in Plugins, subscribeStreamData(i) PROVE PluginTypes'
    BY <1>14 DEF subscribeStreamData, Risk, Use, Covered
  <1>15. ASSUME NEW i \in Plugins, rotateAsync(i) PROVE PluginTypes'
    BY <1>15 DEF rotateAsync, Use
  <1>16. ASSUME Enter PROVE PluginTypes'
    BY <1>16 DEF Enter
  <1>17. ASSUME NEW ok \in BOOLEAN, Return(ok) PROVE PluginTypes'
    BY <1>17 DEF Return
  <1>18. ASSUME dataHandle PROVE PluginTypes'
    BY <1>18 DEF dataHandle
  <1>19. ASSUME NEW i \in Plugins, Push(i) PROVE PluginTypes'
    BY <1>19 DEF Push, convert
  <1>20. ASSUME NEW l \in Links, Collect(l) PROVE PluginTypes'
    BY <1>20 DEF Collect
  <1>21. ASSUME NEW l \in Links, Collected(l) PROVE PluginTypes'
    BY <1>21 DEF Collected
  <1>22. CASE UNCHANGED vars
    BY <1>22 DEF vars
  <1>23. QED
    BY ONLY [Next]_vars, <1>1, <1>2, <1>3, <1>4, <1>5, <1>6, <1>7, <1>8,
       <1>9, <1>10, <1>11, <1>12, <1>13, <1>14, <1>15, <1>16, <1>17, <1>18,
       <1>19, <1>20, <1>21, <1>22 DEF Next, Link, Client

\* their work,
LEMMA WorkTypesStep ==
    ASSUME TypeOK, api = "client" => calling # None, [Next]_vars
    PROVE  WorkTypes'
  <1> USE ConstantsAssumption, KindsFacts DEF TypeOK, WorkTypes, Links,
     linkVars, sdkVars, pluginVars, workVars, streamVars
  <1>1. ASSUME NEW made \in BOOLEAN, NewLinker(made) PROVE WorkTypes'
    BY <1>1 DEF NewLinker, Fail, GoOn, Risk
  <1>2. ASSUME NEW usb \in BOOLEAN, NEW acm \in BOOLEAN, NEW opened \in BOOLEAN,
           addUartChannels(usb, acm, opened) PROVE WorkTypes'
    BY <1>2 DEF addUartChannels, Fail, GoOn
  <1>3. ASSUME NEW m \in Models \cup {Unknown}, NewVehicle(m) PROVE WorkTypes'
    BY <1>3 DEF NewVehicle, GoOn
  <1>4. ASSUME NEW ok \in BOOLEAN, verify(ok) PROVE WorkTypes'
    BY <1>4 DEF verify, Fail, GoOn
  <1>5. ASSUME NEW ok \in BOOLEAN, InitCamera(ok) PROVE WorkTypes'
    BY <1>5 DEF InitCamera, GoOn, CameraTried
  <1>6. ASSUME NEW ok \in BOOLEAN, syncCameraFile(ok) PROVE WorkTypes'
    BY <1>6 DEF syncCameraFile, GoOn, CameraTried
  <1>7. ASSUME NEW ok \in BOOLEAN, Regist(ok) PROVE WorkTypes'
    BY <1>7 DEF Regist, Risk
  <1>8. ASSUME Destroyed PROVE WorkTypes'
    BY <1>8 DEF Destroyed
  <1>9. ASSUME LinkSucceeds PROVE WorkTypes'
    BY <1>9 DEF LinkSucceeds
  <1>10. ASSUME NEW i \in Plugins, Call(i) PROVE WorkTypes'
    BY <1>10 DEF Call, Risk, Use, Covered
  <1>11. ASSUME NEW i \in Plugins, startBattery(i) PROVE WorkTypes'
    BY <1>11 DEF startBattery, Risk, Use, Covered
  <1>12. ASSUME NEW i \in Plugins, startStream(i) PROVE WorkTypes'
    BY <1>12 DEF startStream, Risk, Use, Covered
  <1>13. ASSUME NEW i \in Plugins, stopStream(i) PROVE WorkTypes'
    BY <1>13 DEF stopStream, Risk, Use, Covered
  <1>14. ASSUME NEW i \in Plugins, subscribeStreamData(i) PROVE WorkTypes'
    BY <1>14 DEF subscribeStreamData, Risk, Use, Covered
  <1>15. ASSUME NEW i \in Plugins, rotateAsync(i) PROVE WorkTypes'
    BY <1>15 DEF rotateAsync, Use
  <1>16. ASSUME Enter PROVE WorkTypes'
    BY <1>16 DEF Enter
  <1>17. ASSUME NEW ok \in BOOLEAN, Return(ok) PROVE WorkTypes'
    BY <1>17 DEF Return
  <1>18. ASSUME dataHandle PROVE WorkTypes'
    BY <1>18 DEF dataHandle
  <1>19. ASSUME NEW i \in Plugins, Push(i) PROVE WorkTypes'
    BY <1>19 DEF Push, convert
  <1>20. ASSUME NEW l \in Links, Collect(l) PROVE WorkTypes'
    BY <1>20 DEF Collect
  <1>21. ASSUME NEW l \in Links, Collected(l) PROVE WorkTypes'
    BY <1>21 DEF Collected
  <1>22. CASE UNCHANGED vars
    BY <1>22 DEF vars
  <1>23. QED
    BY ONLY [Next]_vars, <1>1, <1>2, <1>3, <1>4, <1>5, <1>6, <1>7, <1>8,
       <1>9, <1>10, <1>11, <1>12, <1>13, <1>14, <1>15, <1>16, <1>17, <1>18,
       <1>19, <1>20, <1>21, <1>22 DEF Next, Link, Client

\* and the flags.
LEMMA FlagsStep ==
    ASSUME TypeOK, [Next]_vars
    PROVE  Flags'
  <1> USE ConstantsAssumption, KindsFacts DEF TypeOK, Flags, Unsafe,
     linkVars, sdkVars, pluginVars, workVars, streamVars
  <1>1. ASSUME NEW made \in BOOLEAN, NewLinker(made) PROVE Flags'
    BY <1>1 DEF NewLinker, Fail, GoOn, Risk
  <1>2. ASSUME NEW usb \in BOOLEAN, NEW acm \in BOOLEAN, NEW opened \in BOOLEAN,
           addUartChannels(usb, acm, opened) PROVE Flags'
    BY <1>2 DEF addUartChannels, Fail, GoOn
  <1>3. ASSUME NEW m \in Models \cup {Unknown}, NewVehicle(m) PROVE Flags'
    BY <1>3 DEF NewVehicle, GoOn
  <1>4. ASSUME NEW ok \in BOOLEAN, verify(ok) PROVE Flags'
    BY <1>4 DEF verify, Fail, GoOn
  <1>5. ASSUME NEW ok \in BOOLEAN, InitCamera(ok) PROVE Flags'
    BY <1>5 DEF InitCamera, GoOn, CameraTried
  <1>6. ASSUME NEW ok \in BOOLEAN, syncCameraFile(ok) PROVE Flags'
    BY <1>6 DEF syncCameraFile, GoOn, CameraTried
  <1>7. ASSUME NEW ok \in BOOLEAN, Regist(ok) PROVE Flags'
    BY <1>7 DEF Regist, Risk
  <1>8. ASSUME Destroyed PROVE Flags'
    BY <1>8 DEF Destroyed
  <1>9. ASSUME LinkSucceeds PROVE Flags'
    BY <1>9 DEF LinkSucceeds
  <1>10. ASSUME NEW i \in Plugins, Call(i) PROVE Flags'
    BY <1>10 DEF Call, Risk, Use, Covered
  <1>11. ASSUME NEW i \in Plugins, startBattery(i) PROVE Flags'
    BY <1>11 DEF startBattery, Risk, Use, Covered
  <1>12. ASSUME NEW i \in Plugins, startStream(i) PROVE Flags'
    BY <1>12 DEF startStream, Risk, Use, Covered
  <1>13. ASSUME NEW i \in Plugins, stopStream(i) PROVE Flags'
    BY <1>13 DEF stopStream, Risk, Use, Covered
  <1>14. ASSUME NEW i \in Plugins, subscribeStreamData(i) PROVE Flags'
    BY <1>14 DEF subscribeStreamData, Risk, Use, Covered
  <1>15. ASSUME NEW i \in Plugins, rotateAsync(i) PROVE Flags'
    BY <1>15 DEF rotateAsync, Use
  <1>16. ASSUME Enter PROVE Flags'
    BY <1>16 DEF Enter
  <1>17. ASSUME NEW ok \in BOOLEAN, Return(ok) PROVE Flags'
    BY <1>17 DEF Return
  <1>18. ASSUME dataHandle PROVE Flags'
    BY <1>18 DEF dataHandle
  <1>19. ASSUME NEW i \in Plugins, Push(i) PROVE Flags'
    BY <1>19 DEF Push, convert
  <1>20. ASSUME NEW l \in Links, Collect(l) PROVE Flags'
    BY <1>20 DEF Collect
  <1>21. ASSUME NEW l \in Links, Collected(l) PROVE Flags'
    BY <1>21 DEF Collected
  <1>22. CASE UNCHANGED vars
    BY <1>22 DEF vars
  <1>23. QED
    BY ONLY [Next]_vars, <1>1, <1>2, <1>3, <1>4, <1>5, <1>6, <1>7, <1>8,
       <1>9, <1>10, <1>11, <1>12, <1>13, <1>14, <1>15, <1>16, <1>17, <1>18,
       <1>19, <1>20, <1>21, <1>22 DEF Next, Link, Client

LEMMA TypeStep ==
    ASSUME TypeOK, SdkInv, api = "client" => calling # None, [Next]_vars
    PROVE  TypeOK'
BY SdkTypesStep, PluginTypesStep, WorkTypesStep, FlagsStep
   DEF TypeOK, SdkTypes, PluginTypes, WorkTypes, Flags

\* Linkers and vehicles are those of the link that goes on or succeeded.
LEMMA SdkStep ==
    ASSUME TypeOK, SdkInv, [Next]_vars
    PROVE  SdkInv'
  <1> USE ConstantsAssumption, KindsFacts DEF TypeOK, SdkInv, linkVars,
     sdkVars, pluginVars, workVars, streamVars, CameraTries
  <1>1. ASSUME NEW made \in BOOLEAN, NewLinker(made) PROVE SdkInv'
    BY <1>1 DEF NewLinker, Fail, GoOn, Risk
  <1>2. ASSUME NEW usb \in BOOLEAN, NEW acm \in BOOLEAN, NEW opened \in BOOLEAN,
           addUartChannels(usb, acm, opened) PROVE SdkInv'
    BY <1>2 DEF addUartChannels, Fail, GoOn
  <1>3. ASSUME NEW m \in Models \cup {Unknown}, NewVehicle(m) PROVE SdkInv'
    BY <1>3 DEF NewVehicle, GoOn
  <1>4. ASSUME NEW ok \in BOOLEAN, verify(ok) PROVE SdkInv'
    BY <1>4 DEF verify, Fail, GoOn
  <1>5. ASSUME NEW ok \in BOOLEAN, InitCamera(ok) PROVE SdkInv'
    BY <1>5 DEF InitCamera, GoOn, CameraTried
  <1>6. ASSUME NEW ok \in BOOLEAN, syncCameraFile(ok) PROVE SdkInv'
    BY <1>6 DEF syncCameraFile, GoOn, CameraTried
  <1>7. ASSUME NEW ok \in BOOLEAN, Regist(ok) PROVE SdkInv'
    BY <1>7 DEF Regist, Risk
  <1>8. ASSUME Destroyed PROVE SdkInv'
    BY <1>8 DEF Destroyed
  <1>9. ASSUME LinkSucceeds PROVE SdkInv'
    BY <1>9 DEF LinkSucceeds
  <1>10. ASSUME NEW i \in Plugins, Call(i) PROVE SdkInv'
    BY <1>10 DEF Call, Risk, Use, Covered
  <1>11. ASSUME NEW i \in Plugins, startBattery(i) PROVE SdkInv'
    BY <1>11 DEF startBattery, Risk, Use, Covered
  <1>12. ASSUME NEW i \in Plugins, startStream(i) PROVE SdkInv'
    BY <1>12 DEF startStream, Risk, Use, Covered
  <1>13. ASSUME NEW i \in Plugins, stopStream(i) PROVE SdkInv'
    BY <1>13 DEF stopStream, Risk, Use, Covered
  <1>14. ASSUME NEW i \in Plugins, subscribeStreamData(i) PROVE SdkInv'
    BY <1>14 DEF subscribeStreamData, Risk, Use, Covered
  <1>15. ASSUME NEW i \in Plugins, rotateAsync(i) PROVE SdkInv'
    BY <1>15 DEF rotateAsync, Use
  <1>16. ASSUME Enter PROVE SdkInv'
    BY <1>16 DEF Enter
  <1>17. ASSUME NEW ok \in BOOLEAN, Return(ok) PROVE SdkInv'
    BY <1>17 DEF Return
  <1>18. ASSUME dataHandle PROVE SdkInv'
    BY <1>18 DEF dataHandle
  <1>19. ASSUME NEW i \in Plugins, Push(i) PROVE SdkInv'
    BY <1>19 DEF Push, convert
  <1>20. ASSUME NEW l \in Links, Collect(l) PROVE SdkInv'
    BY <1>20 DEF Collect
  <1>21. ASSUME NEW l \in Links, Collected(l) PROVE SdkInv'
    BY <1>21 DEF Collected
  <1>22. CASE UNCHANGED vars
    BY <1>22 DEF vars
  <1>23. QED
    BY ONLY [Next]_vars, <1>1, <1>2, <1>3, <1>4, <1>5, <1>6, <1>7, <1>8,
       <1>9, <1>10, <1>11, <1>12, <1>13, <1>14, <1>15, <1>16, <1>17, <1>18,
       <1>19, <1>20, <1>21, <1>22 DEF Next, Link, Client

\* Kinds are registered in order.
LEMMA RegistryStep ==
    ASSUME TypeOK, SdkInv, RegistryInv, [Next]_vars
    PROVE  RegistryInv'
  <1> USE ConstantsAssumption, KindsFacts DEF TypeOK, SdkInv, RegistryInv,
     Registers, Registered, linkVars, sdkVars, pluginVars, workVars,
     streamVars, CameraTries, Plugins, Links
  <1>1. ASSUME NEW made \in BOOLEAN, NewLinker(made) PROVE RegistryInv'
    <2>1. ASSUME NEW j \in 1..Len(Kinds) PROVE Registers(j)'
      <3>1. Kinds[j] \in Range(Kinds) /\ Registers(j) /\ registry[Kinds[j]] \in 0..MaxLinks
        OBVIOUS
      <3>2. /\ links' = links + 1 /\ registry' = registry
            /\ pc' = "channels" \/ (pc' = "idle" /\ linked' = FALSE)
        BY <1>1 DEF NewLinker, Fail, GoOn
      <3>3. links \in Nat /\ registry[Kinds[j]] <= links /\ registry[Kinds[j]] \in Nat
        BY ONLY <3>1, KindsFacts, TypeOK DEF Registers, TypeOK
      <3>4. QED
        BY ONLY <3>2, <3>3 DEF Registers
    <2>2. (pc = "regist" => tries <= Len(Kinds))'
          /\ (dying # None => pc = "regist" /\ dying[2] < links)'
      BY <1>1 DEF NewLinker, Fail, GoOn, Risk
    <2>3. QED
      BY <2>1, <2>2
  <1>2. ASSUME NEW usb \in BOOLEAN, NEW acm \in BOOLEAN, NEW opened \in BOOLEAN,
           addUartChannels(usb, acm, opened) PROVE RegistryInv'
    BY <1>2 DEF addUartChannels, Fail, GoOn
  <1>3. ASSUME NEW m \in Models \cup {Unknown}, NewVehicle(m) PROVE RegistryInv'
    BY <1>3 DEF NewVehicle, GoOn
  <1>4. ASSUME NEW ok \in BOOLEAN, verify(ok) PROVE RegistryInv'
    BY <1>4 DEF verify, Fail, GoOn
  <1>5. ASSUME NEW ok \in BOOLEAN, InitCamera(ok) PROVE RegistryInv'
    <2>1. ASSUME NEW j \in 1..Len(Kinds) PROVE Registers(j)'
      <3>1. Kinds[j] \in Range(Kinds) /\ Registers(j) /\ registry[Kinds[j]] \in 0..MaxLinks
        OBVIOUS
      <3>2. /\ UNCHANGED <<links, registry>> /\ pc = "camera"
            /\ pc' \in {"files", "camera", "regist"} /\ (pc' = "regist" => tries' = 0)
        BY <1>5 DEF InitCamera, GoOn, CameraTried
      <3>3. links \in Nat /\ registry[Kinds[j]] < links /\ registry[Kinds[j]] \in Nat
        BY ONLY <3>1, <3>2, KindsFacts, TypeOK DEF Registers, TypeOK
      <3>4. QED
        BY ONLY <3>2, <3>3, j \in 1..Len(Kinds), Len(Kinds) \in Nat DEF
           Registers
    <2>2. (pc = "regist" => tries <= Len(Kinds))'
          /\ (dying # None => pc = "regist" /\ dying[2] < links)'
      BY <1>5 DEF InitCamera, GoOn, CameraTried
    <2>3. QED
      BY <2>1, <2>2
  <1>6. ASSUME NEW ok \in BOOLEAN, syncCameraFile(ok) PROVE RegistryInv'
    <2>1. ASSUME NEW j \in 1..Len(Kinds) PROVE Registers(j)'
      <3>1. Kinds[j] \in Range(Kinds) /\ Registers(j) /\ registry[Kinds[j]] \in 0..MaxLinks
        OBVIOUS
      <3>2. /\ UNCHANGED <<links, registry>> /\ pc = "files"
            /\ pc' \in {"files", "camera", "regist"} /\ (pc' = "regist" => tries' = 0)
        BY <1>6 DEF syncCameraFile, GoOn, CameraTried
      <3>3. links \in Nat /\ registry[Kinds[j]] < links /\ registry[Kinds[j]] \in Nat
        BY ONLY <3>1, <3>2, KindsFacts, TypeOK DEF Registers, TypeOK
      <3>4. QED
        BY ONLY <3>2, <3>3, j \in 1..Len(Kinds), Len(Kinds) \in Nat DEF
           Registers
    <2>2. (pc = "regist" => tries <= Len(Kinds))'
          /\ (dying # None => pc = "regist" /\ dying[2] < links)'
      BY <1>6 DEF syncCameraFile, GoOn, CameraTried
    <2>3. QED
      BY <2>1, <2>2
  <1>7. ASSUME NEW ok \in BOOLEAN, Regist(ok) PROVE RegistryInv'
    <2>1. ASSUME NEW j \in 1..Len(Kinds) PROVE Registers(j)'
      <3>1. Kinds[j] \in Range(Kinds) /\ Registers(j) /\ registry[Kinds[j]] \in 0..MaxLinks
        OBVIOUS
      <3>2. /\ tries + 1 \in 1..Len(Kinds) /\ Kinds[tries + 1] \in Range(Kinds)
            /\ pc = "regist" /\ UNCHANGED <<pc, links, model>> /\ tries' = tries + 1
            /\ registry' = [registry EXCEPT ![Kinds[tries + 1]] =
                                IF model \in Supports[Kinds[tries + 1]] THEN links
                                ELSE registry[Kinds[tries + 1]]]
            /\ plugins' = plugins \cup (IF model \in Supports[Kinds[tries + 1]]
                                        THEN {<<Kinds[tries + 1], links>>} ELSE {})
        BY ONLY <1>7, KindsFacts, TypeOK DEF Regist, TypeOK
      <3>3. links \in Nat /\ registry[Kinds[j]] \in Nat /\ tries \in Nat
        BY ONLY <3>1, KindsFacts, TypeOK DEF TypeOK
      <3>4. CASE j = tries + 1
        <4>1. registry'[Kinds[j]] = IF model \in Supports[Kinds[j]] THEN links
                                    ELSE registry[Kinds[j]]
          BY ONLY <3>1, <3>2, <3>4, TypeOK DEF TypeOK
        <4>2. registry[Kinds[j]] < links
          BY <3>1, <3>2, <3>4 DEF Registers
        <4>3. model \in Supports[Kinds[j]] => <<Kinds[j], links>> \in plugins'
          BY <3>2, <3>4
        <4>4. QED
          BY ONLY <4>1, <4>2, <4>3, <3>2, <3>3, <3>4 DEF Registers, Registered
      <3>5. CASE j # tries + 1
        <4>1. Kinds[j] # Kinds[tries + 1]
          BY <3>2, <3>5
        <4>2. registry'[Kinds[j]] = registry[Kinds[j]]
          BY <4>1, <3>1, <3>2
        <4>3. plugins \subseteq plugins'
          BY <3>2
        <4>4. j \in Nat
          OBVIOUS
        <4>5. QED
          BY ONLY <4>2, <4>3, <4>4, <3>1, <3>2, <3>3, <3>5 DEF Registers,
             Registered
      <3>6. QED
        BY <3>4, <3>5
    <2>2. (pc = "regist" => tries <= Len(Kinds))'
          /\ (dying # None => pc = "regist" /\ dying[2] < links)'
      <3>1. /\ pc = "regist" /\ tries + 1 \in 1..Len(Kinds) /\ UNCHANGED <<pc, links>>
            /\ Kinds[tries + 1] \in Range(Kinds) /\ tries' = tries + 1
            /\ dying' # None => dying' = <<Kinds[tries + 1], registry[Kinds[tries + 1]]>>
        BY ONLY <1>7, KindsFacts, TypeOK DEF Regist, TypeOK
      <3>2. registry[Kinds[tries + 1]] < links
        <4>1. Registers(tries + 1)
          BY ONLY <3>1, RegistryInv DEF RegistryInv
        <4>2. tries \in Nat
          BY ONLY TypeOK DEF TypeOK
        <4>3. QED
          BY ONLY <4>1, <4>2, <3>1 DEF Registers
      <3>3. QED
        BY ONLY <3>1, <3>2, TypeOK, KindsFacts DEF TypeOK
    <2>3. QED
      BY <2>1, <2>2
  <1>8. ASSUME Destroyed PROVE RegistryInv'
    <2>1. ASSUME NEW j \in 1..Len(Kinds) PROVE Registers(j)'
      <3>1. Kinds[j] \in Range(Kinds) /\ Registers(j) /\ registry[Kinds[j]] \in 0..MaxLinks
        OBVIOUS
      <3>2. /\ pc = "regist" /\ UNCHANGED <<pc, links, linked, tries, model, registry>>
            /\ plugins' = plugins \ {dying} /\ dying[2] < links
        BY <1>8 DEF Destroyed
      <3>3. dying # <<Kinds[j], links>>
        BY ONLY <3>2, TypeOK DEF TypeOK
      <3>4. QED
        BY ONLY <3>1, <3>2, <3>3 DEF Registers, Registered
    <2>2. (pc = "regist" => tries <= Len(Kinds))'
          /\ (dying # None => pc = "regist" /\ dying[2] < links)'
      BY <1>8 DEF Destroyed
    <2>3. QED
      BY <2>1, <2>2
  <1>9. ASSUME LinkSucceeds PROVE RegistryInv'
    BY <1>9 DEF LinkSucceeds
  <1>10. ASSUME NEW i \in Plugins, Call(i) PROVE RegistryInv'
    BY <1>10 DEF Call, Risk, Use, Covered
  <1>11. ASSUME NEW i \in Plugins, startBattery(i) PROVE RegistryInv'
    BY <1>11 DEF startBattery, Risk, Use, Covered
  <1>12. ASSUME NEW i \in Plugins, startStream(i) PROVE RegistryInv'
    BY <1>12 DEF startStream, Risk, Use, Covered
  <1>13. ASSUME NEW i \in Plugins, stopStream(i) PROVE RegistryInv'
    BY <1>13 DEF stopStream, Risk, Use, Covered
  <1>14. ASSUME NEW i \in Plugins, subscribeStreamData(i) PROVE RegistryInv'
    BY <1>14 DEF subscribeStreamData, Risk, Use, Covered
  <1>15. ASSUME NEW i \in Plugins, rotateAsync(i) PROVE RegistryInv'
    BY <1>15 DEF rotateAsync, Use
  <1>16. ASSUME Enter PROVE RegistryInv'
    BY <1>16 DEF Enter
  <1>17. ASSUME NEW ok \in BOOLEAN, Return(ok) PROVE RegistryInv'
    BY <1>17 DEF Return
  <1>18. ASSUME dataHandle PROVE RegistryInv'
    BY <1>18 DEF dataHandle
  <1>19. ASSUME NEW i \in Plugins, Push(i) PROVE RegistryInv'
    BY <1>19 DEF Push, convert
  <1>20. ASSUME NEW l \in Links, Collect(l) PROVE RegistryInv'
    BY <1>20 DEF Collect
  <1>21. ASSUME NEW l \in Links, Collected(l) PROVE RegistryInv'
    BY <1>21 DEF Collected
  <1>22. CASE UNCHANGED vars
    BY <1>22 DEF vars
  <1>23. QED
    BY ONLY [Next]_vars, <1>1, <1>2, <1>3, <1>4, <1>5, <1>6, <1>7, <1>8,
       <1>9, <1>10, <1>11, <1>12, <1>13, <1>14, <1>15, <1>16, <1>17, <1>18,
       <1>19, <1>20, <1>21, <1>22 DEF Next, Link, Client

\* Without careless use everything happens between links.
LEMMA CarefulStep ==
    ASSUME IInv, TypeOK', ~careless', [Next]_vars
    PROVE  CarefulInv'
  <1> USE ConstantsAssumption, KindsFacts DEF IInv, TypeOK, SdkInv,
     RegistryInv, CarefulInv, Unsafe, linkVars, sdkVars, pluginVars,
     workVars, streamVars, CameraTries, Plugins, Links
  <1>1. ASSUME NEW made \in BOOLEAN, NewLinker(made) PROVE CarefulInv'
    <2>1. CASE made
      <3>1. /\ calling = None /\ \A l \in Links : battery[l] = "none"
            /\ callbacks' = {} /\ stream' = None
            /\ UNCHANGED <<calling, battery, crashed>> /\ ~careless
        BY <1>1, <2>1 DEF NewLinker, Risk
      <3>2. QED
        BY ONLY <3>1, IInv DEF IInv, CarefulInv
    <2>2. CASE ~made
      BY ONLY <1>1, <2>2, IInv, ~careless'
      DEF IInv, CarefulInv, Unsafe, NewLinker, Fail, pluginVars, workVars
    <2>3. QED
      BY ONLY <2>1, <2>2, made \in BOOLEAN
  <1>2. ASSUME NEW usb \in BOOLEAN, NEW acm \in BOOLEAN, NEW opened \in BOOLEAN,
           addUartChannels(usb, acm, opened) PROVE CarefulInv'
    BY <1>2 DEF addUartChannels, Fail, GoOn
  <1>3. ASSUME NEW m \in Models \cup {Unknown}, NewVehicle(m) PROVE CarefulInv'
    BY <1>3 DEF NewVehicle, GoOn
  <1>4. ASSUME NEW ok \in BOOLEAN, verify(ok) PROVE CarefulInv'
    BY <1>4 DEF verify, Fail, GoOn
  <1>5. ASSUME NEW ok \in BOOLEAN, InitCamera(ok) PROVE CarefulInv'
    BY <1>5 DEF InitCamera, GoOn, CameraTried
  <1>6. ASSUME NEW ok \in BOOLEAN, syncCameraFile(ok) PROVE CarefulInv'
    BY <1>6 DEF syncCameraFile, GoOn, CameraTried
  <1>7. ASSUME NEW ok \in BOOLEAN, Regist(ok) PROVE CarefulInv'
    BY <1>7 DEF Regist, Risk
  <1>8. ASSUME Destroyed PROVE CarefulInv'
    <2>1. /\ pc = "regist" /\ dying # None /\ dying' = None /\ plugins' = plugins \ {dying}
          /\ UNCHANGED <<calling, battery, callbacks, stream, viewers, crashed, careless>>
      BY ONLY <1>8, IInv DEF Destroyed, IInv, RegistryInv, workVars, streamVars
    <2>2. None \notin callbacks
      BY ONLY IInv, ConstantsAssumption DEF IInv, TypeOK,
         ConstantsAssumption, Plugins, Links
    <2>3. QED
      BY ONLY <2>1, <2>2, IInv, ~careless' DEF IInv, CarefulInv
  <1>9. ASSUME LinkSucceeds PROVE CarefulInv'
    BY <1>9 DEF LinkSucceeds
  <1>10. ASSUME NEW i \in Plugins, Call(i) PROVE CarefulInv'
    BY <1>10 DEF Call, Risk, Use, Covered
  <1>11. ASSUME NEW i \in Plugins, startBattery(i) PROVE CarefulInv'
    BY <1>11 DEF startBattery, Risk, Use, Covered
  <1>12. ASSUME NEW i \in Plugins, startStream(i) PROVE CarefulInv'
    BY <1>12 DEF startStream, Risk, Use, Covered
  <1>13. ASSUME NEW i \in Plugins, stopStream(i) PROVE CarefulInv'
    BY <1>13 DEF stopStream, Risk, Use, Covered
  <1>14. ASSUME NEW i \in Plugins, subscribeStreamData(i) PROVE CarefulInv'
    BY <1>14 DEF subscribeStreamData, Risk, Use, Covered
  <1>15. ASSUME NEW i \in Plugins, rotateAsync(i) PROVE CarefulInv'
    BY <1>15 DEF rotateAsync, Use
  <1>16. ASSUME Enter PROVE CarefulInv'
    BY <1>16 DEF Enter
  <1>17. ASSUME NEW ok \in BOOLEAN, Return(ok) PROVE CarefulInv'
    BY <1>17 DEF Return
  <1>18. ASSUME dataHandle PROVE CarefulInv'
    BY <1>18 DEF dataHandle
  <1>19. ASSUME NEW i \in Plugins, Push(i) PROVE CarefulInv'
    BY <1>19 DEF Push, convert
  <1>20. ASSUME NEW l \in Links, Collect(l) PROVE CarefulInv'
    BY <1>20 DEF Collect
  <1>21. ASSUME NEW l \in Links, Collected(l) PROVE CarefulInv'
    BY <1>21 DEF Collected
  <1>22. CASE UNCHANGED vars
    BY <1>22 DEF vars
  <1>23. QED
    BY ONLY [Next]_vars, <1>1, <1>2, <1>3, <1>4, <1>5, <1>6, <1>7, <1>8,
       <1>9, <1>10, <1>11, <1>12, <1>13, <1>14, <1>15, <1>16, <1>17, <1>18,
       <1>19, <1>20, <1>21, <1>22 DEF Next, Link, Client

\* The client has the mutex in a call only.
LEMMA ClientStep ==
    ASSUME TypeOK, api = "client" => calling # None, [Next]_vars
    PROVE  api' = "client" => calling' # None
  <1> USE ConstantsAssumption, KindsFacts DEF TypeOK, linkVars, sdkVars,
     pluginVars, workVars, streamVars, CameraTries
  <1>1. ASSUME NEW made \in BOOLEAN, NewLinker(made) PROVE api' = "client" => calling' # None
    BY <1>1 DEF NewLinker, Fail, GoOn, Risk
  <1>2. ASSUME NEW usb \in BOOLEAN, NEW acm \in BOOLEAN, NEW opened \in BOOLEAN,
           addUartChannels(usb, acm, opened) PROVE api' = "client" => calling' # None
    BY <1>2 DEF addUartChannels, Fail, GoOn
  <1>3. ASSUME NEW m \in Models \cup {Unknown}, NewVehicle(m) PROVE api' = "client" => calling' # None
    BY <1>3 DEF NewVehicle, GoOn
  <1>4. ASSUME NEW ok \in BOOLEAN, verify(ok) PROVE api' = "client" => calling' # None
    BY <1>4 DEF verify, Fail, GoOn
  <1>5. ASSUME NEW ok \in BOOLEAN, InitCamera(ok) PROVE api' = "client" => calling' # None
    BY <1>5 DEF InitCamera, GoOn, CameraTried
  <1>6. ASSUME NEW ok \in BOOLEAN, syncCameraFile(ok) PROVE api' = "client" => calling' # None
    BY <1>6 DEF syncCameraFile, GoOn, CameraTried
  <1>7. ASSUME NEW ok \in BOOLEAN, Regist(ok) PROVE api' = "client" => calling' # None
    BY <1>7 DEF Regist, Risk
  <1>8. ASSUME Destroyed PROVE api' = "client" => calling' # None
    BY <1>8 DEF Destroyed
  <1>9. ASSUME LinkSucceeds PROVE api' = "client" => calling' # None
    BY <1>9 DEF LinkSucceeds
  <1>10. ASSUME NEW i \in Plugins, Call(i) PROVE api' = "client" => calling' # None
    BY <1>10 DEF Call, Risk, Use, Covered
  <1>11. ASSUME NEW i \in Plugins, startBattery(i) PROVE api' = "client" => calling' # None
    BY <1>11 DEF startBattery, Risk, Use, Covered
  <1>12. ASSUME NEW i \in Plugins, startStream(i) PROVE api' = "client" => calling' # None
    BY <1>12 DEF startStream, Risk, Use, Covered
  <1>13. ASSUME NEW i \in Plugins, stopStream(i) PROVE api' = "client" => calling' # None
    BY <1>13 DEF stopStream, Risk, Use, Covered
  <1>14. ASSUME NEW i \in Plugins, subscribeStreamData(i) PROVE api' = "client" => calling' # None
    BY <1>14 DEF subscribeStreamData, Risk, Use, Covered
  <1>15. ASSUME NEW i \in Plugins, rotateAsync(i) PROVE api' = "client" => calling' # None
    BY <1>15 DEF rotateAsync, Use
  <1>16. ASSUME Enter PROVE api' = "client" => calling' # None
    BY <1>16 DEF Enter
  <1>17. ASSUME NEW ok \in BOOLEAN, Return(ok) PROVE api' = "client" => calling' # None
    BY <1>17 DEF Return
  <1>18. ASSUME dataHandle PROVE api' = "client" => calling' # None
    BY <1>18 DEF dataHandle
  <1>19. ASSUME NEW i \in Plugins, Push(i) PROVE api' = "client" => calling' # None
    BY <1>19 DEF Push, convert
  <1>20. ASSUME NEW l \in Links, Collect(l) PROVE api' = "client" => calling' # None
    BY <1>20 DEF Collect
  <1>21. ASSUME NEW l \in Links, Collected(l) PROVE api' = "client" => calling' # None
    BY <1>21 DEF Collected
  <1>22. CASE UNCHANGED vars
    BY <1>22 DEF vars
  <1>23. QED
    BY ONLY [Next]_vars, <1>1, <1>2, <1>3, <1>4, <1>5, <1>6, <1>7, <1>8,
       <1>9, <1>10, <1>11, <1>12, <1>13, <1>14, <1>15, <1>16, <1>17, <1>18,
       <1>19, <1>20, <1>21, <1>22 DEF Next, Link, Client

-----------------------------------------------------------------------------
\* The inductive invariant holds, for any models, kinds and number of links.
THEOREM VehicleInvariant == Spec => []IInv
  <1>1. Init => IInv
    <2> SUFFICES ASSUME Init PROVE IInv
      OBVIOUS
    <2>1. TypeOK
      <3>1. 0 \in 0..MaxLinks /\ 0 \in Nat
        BY KindsFacts
      <3>2. registry \in [Range(Kinds) -> 0..MaxLinks]
        BY <3>1 DEF Init
      <3>3. battery \in [Links -> {"none", "run", "query", "ended"}]
        BY DEF Init
      <3>4. QED
        BY <3>1, <3>2, <3>3 DEF Init, TypeOK
    <2>2. SdkInv
      BY DEF Init, SdkInv
    <2>3. RegistryInv
      <3>1. ASSUME NEW j \in 1..Len(Kinds) PROVE Registers(j)
        BY KindsFacts DEF Init, Registers
      <3>2. QED
        BY <3>1 DEF Init, RegistryInv
    <2>4. CarefulInv
      BY DEF Init, CarefulInv
    <2>5. QED
      BY <2>1, <2>2, <2>3, <2>4, ConstantsAssumption DEF IInv, Init, ConstantsAssumption
  <1>2. IInv /\ [Next]_vars => IInv'
    BY TypeStep, SdkStep, RegistryStep, CarefulStep, ClientStep DEF IInv
  <1>3. QED
    BY <1>1, <1>2, PTL DEF Spec

\* isLink() between links means that the vehicle has its linker, and that the
\* plugins of this link are those the recorded model supports, and alive.  The
\* model may be UNKNOWN or an earlier vehicle's: the link succeeds all the same.
THEOREM LinkedSystem == Spec => []LinkedHasItsLinker
  <1>1. IInv => LinkedHasItsLinker
    BY KindsFacts DEF IInv, SdkInv, RegistryInv, Registered, LinkedHasItsLinker, Unsafe, Registers
  <1>2. QED
    BY <1>1, VehicleInvariant, PTL

\* The process ends only after a call the code does not protect.
THEOREM CarefulUse == Spec => []CarefulIsSafe
  <1>1. IInv => CarefulIsSafe
    BY DEF IInv, CarefulInv, CarefulIsSafe
  <1>2. QED
    BY <1>1, VehicleInvariant, PTL
=============================================================================
