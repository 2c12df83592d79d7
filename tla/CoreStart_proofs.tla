-------------------------- MODULE CoreStart_proofs --------------------------
(***************************************************************************)
(* Proofs about CoreStart, for any plugins, exports and order of loading.  *)
(***************************************************************************)
EXTENDS CoreStart, TLAPS

Ended(p) == Len(Exports[p]) - Len(exporting)

\* What is left of the exports is the end of the list of the current plugin,
\* and in "condition" its head has just been entered.
Position ==
  /\ current # NoFunction =>
       /\ current \in loaded /\ Ended(current) \in Nat
       /\ \A j \in 1..Len(exporting) : exporting[j] = Exports[current][Ended(current) + j]
  /\ mainPc = "condition" => exporting # <<>> /\ Registered(Exported.name)

\* What has been passed in a list of exports is registered.
PassedRegistered ==
  \A p \in loaded : \A i \in 1..Len(Exports[p]) :
    (p = current => i <= Ended(p)) => Registered(Exports[p][i].name)

\* A threaded function without its condition is the one just entered.
ConditionsFollow ==
  \A n \in Names :
    thrFunctions[n] # NoFunction =>
      n \in conditions \/ (mainPc = "condition" /\ n = Exported.name)

\* A plugin is loaded or given up, and a function is that of a loaded plugin.
LoadedExport ==
  /\ loaded \cap failed = {}
  /\ \A n \in Names : {functions[n], thrFunctions[n]} \subseteq loaded \cup {NoFunction}

\* The order of main: all plugins, then the signal.
SignalLast ==
  /\ mainPc \in {"create", "config", "folder"} => loaded = {}
  /\ mainPc \in {"signal", "uiLoop"} => loaded = Plugins \ failed
  /\ corePc = "signalled" => mainPc = "uiLoop"

StartInv ==
  TypeOK /\ Position /\ PassedRegistered /\ ConditionsFollow
  /\ LoadedExport /\ SignalLast

-----------------------------------------------------------------------------
LEMMA Elements ==
  ASSUME NEW S, NEW s \in Seq(S)
  PROVE  /\ Len(s) \in Nat
         /\ \A i \in 1..Len(s) : s[i] \in S
         /\ s # <<>> => /\ Head(s) = s[1] /\ Head(s) \in S
                        /\ Len(s) > 0 /\ Tail(s) \in Seq(S)
                        /\ Len(Tail(s)) = Len(s) - 1
                        /\ \A j \in 1..Len(Tail(s)) : Tail(s)[j] = s[j + 1]
<1>1. Len(s) \in Nat /\ \A i \in 1..Len(s) : s[i] \in S
  OBVIOUS
<1>2. s # <<>> => Head(s) = s[1] /\ Len(s) > 0 /\ Tail(s) \in Seq(S)
  OBVIOUS
<1>3. s # <<>> => Len(Tail(s)) = Len(s) - 1
  OBVIOUS
<1>4. s # <<>> => \A j \in 1..Len(Tail(s)) : Tail(s)[j] = s[j + 1]
  OBVIOUS
<1> QED
  BY <1>1, <1>2, <1>3, <1>4

LEMMA ExportsType ==
  ASSUME NEW p \in Plugins
  PROVE  /\ Exports[p] \in Seq([name : Names, threaded : BOOLEAN])
         /\ Len(Exports[p]) \in Nat
         /\ \A i \in 1..Len(Exports[p]) : Exports[p][i].name \in Names
<1>1. Exports[p] \in Seq([name : Names, threaded : BOOLEAN])
  BY ExportsAssumption
<1>2. \A i \in 1..Len(Exports[p]) : Exports[p][i] \in [name : Names, threaded : BOOLEAN]
  BY <1>1, Elements
<1> QED
  BY <1>1, <1>2, Elements

LEMMA ExportedType ==
  ASSUME TypeOK, exporting # <<>>
  PROVE  /\ Exported.name \in Names
         /\ Exported = exporting[1]
         /\ Len(exporting) \in Nat \ {0}
         /\ Tail(exporting) \in Seq([name : Names, threaded : BOOLEAN])
         /\ Len(Tail(exporting)) = Len(exporting) - 1
         /\ \A j \in 1..Len(Tail(exporting)) : Tail(exporting)[j] = exporting[j + 1]
<1>1. exporting \in Seq([name : Names, threaded : BOOLEAN])
  BY DEF TypeOK
<1>2. Exported \in [name : Names, threaded : BOOLEAN] /\ Exported = exporting[1]
  BY <1>1, Elements DEF Exported
<1> QED
  BY <1>1, <1>2, Elements

\* The head of the list is the export after the last that has been passed, so
\* that a step that registers it and goes on to the tail keeps Position and
\* PassedRegistered.
LEMMA HeadPassed ==
  ASSUME NEW name \in Names, name = Exported.name, Registered(name)',
         StartInv, current # NoFunction, exporting # <<>>,
         exporting' = Tail(exporting), UNCHANGED <<loaded, current>>,
         \A n \in Names : Registered(n) => Registered(n)',
         mainPc' = "init"
  PROVE  Position' /\ PassedRegistered'
<1> USE DEF StartInv
<1>1. /\ name = exporting[1].name
      /\ Len(exporting) \in Nat \ {0} /\ Len(exporting') = Len(exporting) - 1
      /\ \A j \in 1..Len(exporting') : exporting'[j] = exporting[j + 1]
  BY ExportedType
<1>2. current \in Plugins /\ Len(Exports[current]) \in Nat
  BY ExportsType DEF TypeOK
<1>3. Ended(current)' = Ended(current) + 1
  BY <1>1, <1>2 DEF Ended
<1>4. Position'
  <2>1. Ended(current) \in Nat /\ current \in loaded
    BY DEF Position
  <2>2. ASSUME NEW j \in 1..Len(exporting')
        PROVE  exporting'[j] = Exports[current][Ended(current) + 1 + j]
    <3>1. j + 1 \in 1..Len(exporting) /\ exporting'[j] = exporting[j + 1]
      BY <1>1
    <3>2. exporting[j + 1] = Exports[current][Ended(current) + (j + 1)]
      BY <3>1 DEF Position
    <3>3. Ended(current) + (j + 1) = Ended(current) + 1 + j
      BY <2>1, <3>1
    <3> QED
      BY <3>1, <3>2, <3>3
  <2>3. Ended(current)' \in Nat
    BY <1>3, <2>1
  <2> QED
    BY <1>3, <2>1, <2>2, <2>3 DEF Position
<1>5. PassedRegistered'
  <2> SUFFICES ASSUME NEW p \in loaded, NEW i \in 1..Len(Exports[p]),
                      p = current => i <= Ended(p)'
               PROVE  Registered(Exports[p][i].name)'
    BY DEF PassedRegistered
  <2>1. p \in Plugins /\ Exports[p][i].name \in Names
    BY ExportsType DEF TypeOK
  <2>2. CASE p = current => i <= Ended(p)
    <3>1. Registered(Exports[p][i].name)
      BY <2>2 DEF PassedRegistered
    <3> QED
      BY <2>1, <3>1
  <2>3. CASE p = current /\ i = Ended(current) + 1
    <3>1. exporting[1] = Exports[current][Ended(current) + 1]
      BY <1>1 DEF Position
    <3>2. Exports[p][i].name = name
      BY <1>1, <2>3, <3>1
    <3> QED
      BY <3>2
  <2>4. p = current => i <= Ended(current) + 1
    BY <1>3
  <2>5. Ended(current) \in Nat
    BY DEF Position
  <2> QED
    BY <2>2, <2>3, <2>4, <2>5
<1> QED
  BY <1>4, <1>5
-----------------------------------------------------------------------------
LEMMA StartInit == Init => StartInv
<1> SUFFICES ASSUME Init PROVE StartInv
  OBVIOUS
<1>1. TypeOK
  BY DEF Init, TypeOK, MainPcs, CorePcs
<1>2. Position /\ PassedRegistered /\ SignalLast /\ LoadedExport
  BY DEF Init, Position, PassedRegistered, SignalLast, LoadedExport
<1>3. ConditionsFollow
  BY DEF Init, ConditionsFollow
<1> QED
  BY <1>1, <1>2, <1>3 DEF StartInv

\* A step that neither loads nor exports.
LEMMA Elsewhere ==
  ASSUME StartInv, UNCHANGED <<loading, registry>>,
         mainPc # "condition", mainPc' # "condition"
  PROVE  Position' /\ PassedRegistered' /\ ConditionsFollow'
<1>1. Position'
  BY DEF StartInv, Position, Ended, loading, registry
<1>2. PassedRegistered'
  BY DEF StartInv, PassedRegistered, Ended, Registered, loading, registry
<1>3. ConditionsFollow'
  BY DEF StartInv, ConditionsFollow, loading, registry
<1> QED
  BY <1>1, <1>2, <1>3

LEMMA StartStep == StartInv /\ [Next]_vars => StartInv'
<1> SUFFICES ASSUME StartInv, [Next]_vars PROVE StartInv'
  OBVIOUS
<1>t. TypeOK /\ Position /\ PassedRegistered /\ ConditionsFollow /\ LoadedExport /\ SignalLast
  BY DEF StartInv
<1> USE DEF MainPcs, CorePcs, MainGoes
<1>1. CASE CreateCore
  <2>1. TypeOK' /\ SignalLast' /\ LoadedExport'
    BY <1>t, <1>1 DEF CreateCore, TypeOK, SignalLast, LoadedExport, loading, registry
  <2>2. UNCHANGED <<loading, registry>> /\ mainPc # "condition" /\ mainPc' # "condition"
    BY <1>1 DEF CreateCore
  <2> QED
    BY <2>1, <2>2, Elsewhere DEF StartInv
<1>2. CASE Configure
  <2>1. TypeOK' /\ SignalLast' /\ LoadedExport'
    BY <1>t, <1>2 DEF Configure, TypeOK, SignalLast, LoadedExport, loading, registry
  <2>2. UNCHANGED <<loading, registry>> /\ mainPc # "condition" /\ mainPc' # "condition"
    BY <1>2 DEF Configure
  <2> QED
    BY <2>1, <2>2, Elsewhere DEF StartInv
<1>3. ASSUME NEW p \in Plugins, OpenPlugin(p) PROVE StartInv'
  <2>1. Exports[p] \in Seq([name : Names, threaded : BOOLEAN]) /\ Len(Exports[p]) \in Nat
    BY ExportsType
  <2>2. TypeOK' /\ SignalLast' /\ LoadedExport'
    BY <1>t, <1>3, <2>1, ExportsAssumption
    DEF OpenPlugin, ToOpen, TypeOK, SignalLast, LoadedExport, registry
  <2>3. Position'
    BY <1>3, <2>1 DEF OpenPlugin, Position, Ended
  <2>4. PassedRegistered'
    <3>1. current = NoFunction /\ \A q \in loaded : q # NoFunction
      BY <1>t, <1>3, ExportsAssumption DEF OpenPlugin, TypeOK
    <3>2. \A q \in loaded : \A i \in 1..Len(Exports[q]) : Registered(Exports[q][i].name)
      BY <1>t, <3>1 DEF PassedRegistered
    <3>3. /\ loaded' = loaded \cup {p} /\ current' = p /\ exporting' = Exports[p]
          /\ functions' = functions /\ thrFunctions' = thrFunctions
      BY <1>3 DEF OpenPlugin, registry
    <3>4. SUFFICES ASSUME NEW q \in loaded', NEW i \in 1..Len(Exports[q]),
                          q = current' => i <= Ended(q)'
                   PROVE  Registered(Exports[q][i].name)'
      BY DEF PassedRegistered
    <3>5. q # p
      BY <2>1, <3>3, <3>4 DEF Ended
    <3>6. Registered(Exports[q][i].name)
      BY <3>2, <3>3, <3>5
    <3> QED
      BY <3>3, <3>6 DEF Registered
  <2>5. ConditionsFollow'
    BY <1>t, <1>3 DEF OpenPlugin, ConditionsFollow, registry
  <2> QED
    BY <2>2, <2>3, <2>4, <2>5 DEF StartInv
<1>4. CASE RefuseExport
  <2>1. exporting # <<>> /\ current # NoFunction
    BY <1>t, <1>4 DEF RefuseExport, TypeOK
  <2>2. Exported.name \in Names /\ Registered(Exported.name)
    BY <1>4, <1>t, <2>1, ExportedType DEF RefuseExport, Refused, Registered
  <2>3. TypeOK' /\ SignalLast' /\ LoadedExport' /\ ConditionsFollow'
    BY <1>t, <1>4, ExportedType
    DEF RefuseExport, TypeOK, SignalLast, LoadedExport, ConditionsFollow, registry
  <2>4. PICK name \in Names : name = Exported.name /\ Registered(name)
    BY <2>2
  <2>5. Registered(name)' /\ \A n \in Names : Registered(n) => Registered(n)'
    BY <1>4, <2>4 DEF RefuseExport, Registered, registry
  <2>6. Position' /\ PassedRegistered'
    BY <1>4, <2>1, <2>4, <2>5, HeadPassed DEF RefuseExport
  <2> QED
    BY <2>3, <2>6 DEF StartInv
<1>5. CASE ExportSync
  <2>1. exporting # <<>> /\ current # NoFunction
    BY <1>t, <1>5 DEF ExportSync, TypeOK
  <2>2. PICK name \in Names : name = Exported.name
    BY <1>t, <2>1, ExportedType
  <2>3. TypeOK' /\ SignalLast' /\ LoadedExport' /\ ConditionsFollow'
    BY <1>t, <1>5, <2>1, <2>2, ExportedType
    DEF ExportSync, TypeOK, SignalLast, LoadedExport, ConditionsFollow, Position
  <2>4. Registered(name)' /\ \A n \in Names : Registered(n) => Registered(n)'
    BY <1>t, <1>5, <2>1, <2>2 DEF ExportSync, Registered, TypeOK
  <2>5. Position' /\ PassedRegistered'
    BY <1>5, <2>1, <2>2, <2>4, HeadPassed DEF ExportSync
  <2> QED
    BY <2>3, <2>5 DEF StartInv
<1>6. CASE ExportThreaded
  <2>1. exporting # <<>> /\ current # NoFunction
    BY <1>t, <1>6 DEF ExportThreaded, TypeOK
  <2>2. PICK name \in Names : name = Exported.name
    BY <1>t, <2>1, ExportedType
  <2>3. TypeOK' /\ SignalLast' /\ LoadedExport'
    BY <1>t, <1>6, <2>1, <2>2
    DEF ExportThreaded, TypeOK, SignalLast, LoadedExport, Position, loading
  <2>4. Registered(name)' /\ \A n \in Names : Registered(n) => Registered(n)'
    BY <1>t, <1>6, <2>1, <2>2 DEF ExportThreaded, Registered, TypeOK
  <2>5. Position'
    BY <1>t, <1>6, <2>1, <2>2, <2>4
    DEF ExportThreaded, Position, Ended, Exported, loading
  <2>6. PassedRegistered'
    <3>1. \A p \in loaded : p \in Plugins
      BY <1>t DEF TypeOK
    <3> QED
      BY <1>t, <1>6, <2>4, <3>1, ExportsType
      DEF ExportThreaded, PassedRegistered, Ended, loading
  <2>7. ConditionsFollow'
    BY <1>t, <1>6, <2>2 DEF ExportThreaded, ConditionsFollow, TypeOK, Exported, loading
  <2> QED
    BY <2>3, <2>5, <2>6, <2>7 DEF StartInv
<1>7. CASE ExportCondition
  <2>1. exporting # <<>> /\ current # NoFunction /\ Registered(Exported.name)
    BY <1>t, <1>7 DEF ExportCondition, TypeOK, Position
  <2>2. PICK name \in Names : name = Exported.name /\ Registered(name)
    BY <1>t, <2>1, ExportedType
  <2>3. TypeOK' /\ SignalLast' /\ LoadedExport' /\ ConditionsFollow'
    BY <1>t, <1>7, <2>1, ExportedType
    DEF ExportCondition, TypeOK, SignalLast, LoadedExport, ConditionsFollow
  <2>4. Registered(name)' /\ \A n \in Names : Registered(n) => Registered(n)'
    BY <1>7, <2>2 DEF ExportCondition, Registered
  <2>5. Position' /\ PassedRegistered'
    BY <1>7, <2>1, <2>2, <2>4, HeadPassed DEF ExportCondition
  <2> QED
    BY <2>3, <2>5 DEF StartInv
<1>8. CASE PluginDone
  <2>1. TypeOK' /\ SignalLast' /\ LoadedExport' /\ ConditionsFollow'
    BY <1>t, <1>8 DEF PluginDone, TypeOK, SignalLast, LoadedExport, ConditionsFollow, registry
  <2>2. Position'
    BY <1>8 DEF PluginDone, Position
  <2>3. PassedRegistered'
    <3>1. Len(exporting) = 0 /\ exporting' = exporting
      BY <1>8 DEF PluginDone
    <3>2. \A p \in loaded : p \in Plugins /\ p # NoFunction
      BY <1>t, ExportsAssumption DEF TypeOK
    <3>3. \A p \in loaded : Ended(p) = Len(Exports[p])
      BY <3>1, <3>2, ExportsType DEF Ended
    <3>4. \A p \in loaded : \A i \in 1..Len(Exports[p]) : Registered(Exports[p][i].name)
      BY <1>t, <3>3, <3>2, ExportsType DEF PassedRegistered
    <3> QED
      BY <1>8, <3>4 DEF PluginDone, PassedRegistered, Registered, registry
  <2> QED
    BY <2>1, <2>2, <2>3 DEF StartInv
<1>9. CASE LoaderDone
  <2>1. TypeOK' /\ SignalLast' /\ LoadedExport'
    BY <1>t, <1>9 DEF LoaderDone, TypeOK, SignalLast, LoadedExport, ToOpen, loading, registry
  <2>2. UNCHANGED <<loading, registry>> /\ mainPc # "condition" /\ mainPc' # "condition"
    BY <1>9 DEF LoaderDone
  <2> QED
    BY <2>1, <2>2, Elsewhere DEF StartInv
<1>10. CASE SignalCore
  <2>1. TypeOK' /\ SignalLast' /\ LoadedExport'
    BY <1>t, <1>10 DEF SignalCore, TypeOK, SignalLast, LoadedExport, loading, registry
  <2>2. UNCHANGED <<loading, registry>> /\ mainPc # "condition" /\ mainPc' # "condition"
    BY <1>10 DEF SignalCore
  <2> QED
    BY <2>1, <2>2, Elsewhere DEF StartInv
<1>11. ASSUME CoreStep \/ CoreWakesAlone \/ UNCHANGED vars PROVE StartInv'
  <2>1. UNCHANGED <<mainPc, loading, registry>>
    BY <1>11 DEF CoreStep, CoreMakesHeap, CoreWaits, CoreWakesAlone, vars
  <2>2. TypeOK' /\ SignalLast' /\ LoadedExport'
    BY <1>t, <1>11 DEF CoreStep, CoreMakesHeap, CoreWaits, CoreWakesAlone, vars,
       TypeOK, SignalLast, LoadedExport, loading, registry
  <2>3. Position'
    BY <1>t, <2>1 DEF Position, Ended, Exported, Registered, loading, registry
  <2>4. PassedRegistered' /\ ConditionsFollow'
    BY <1>t, <2>1
    DEF PassedRegistered, ConditionsFollow, Ended, Exported, Registered, loading, registry
  <2> QED
    BY <2>2, <2>3, <2>4 DEF StartInv
<1>12. ASSUME OpenFolder \/ OpenFolderFails \/ \E p \in Plugins : OpenPluginFails(p)
       PROVE  StartInv'
  <2>1. /\ UNCHANGED <<loaded, exporting, current, registry, corePc>>
        /\ mainPc \in {"folder", "load"} /\ mainPc' \in {"load", "signal"}
    BY <1>12 DEF OpenFolder, OpenFolderFails, OpenPluginFails, loading
  <2>2. TypeOK' /\ SignalLast' /\ LoadedExport'
    BY <1>t, <1>12 DEF OpenFolder, OpenFolderFails, OpenPluginFails, ToOpen,
       TypeOK, SignalLast, LoadedExport, loading, registry
  <2>3. Position'
    BY <1>t, <2>1 DEF Position, Ended, registry
  <2>4. PassedRegistered' /\ ConditionsFollow'
    BY <1>t, <2>1 DEF PassedRegistered, ConditionsFollow, Ended, Registered, registry
  <2> QED
    BY <2>2, <2>3, <2>4 DEF StartInv
<1> QED
  BY <1>1, <1>2, <1>3, <1>4, <1>5, <1>6, <1>7, <1>8, <1>9, <1>10, <1>11, <1>12
  DEF Next, MainStep

LEMMA StartInvariant == Spec => []StartInv
<1> QED
  BY StartInit, StartStep, PTL DEF Spec

-----------------------------------------------------------------------------
\* The registries and the places of main and of the core keep their types.
THEOREM StartTypes == Spec => []TypeOK
<1>1. StartInv => TypeOK
  BY DEF StartInv
<1> QED
  BY <1>1, StartInvariant, PTL

\* A core that the signal has started has every plugin loaded or given up, and
\* the exports of the loaded ones in the tables: pluginLoader has come to its
\* end, and so has each list.
THEOREM CoreComesLast == Spec => []CoreAfterPlugins
<1>1. StartInv => CoreAfterPlugins
  <2> SUFFICES ASSUME StartInv, corePc = "signalled" PROVE CoreAfterPlugins
    BY DEF CoreAfterPlugins
  <2>1. loaded = Plugins \ failed /\ current = NoFunction
    BY DEF StartInv, SignalLast, TypeOK
  <2>2. \A p \in loaded : \A i \in 1..Len(Exports[p]) : Registered(Exports[p][i].name)
    BY <2>1, ExportsAssumption DEF StartInv, PassedRegistered
  <2> QED
    BY <2>1, <2>2 DEF CoreAfterPlugins, StartInv, LoadedExport
<1> QED
  BY <1>1, StartInvariant, PTL

\* Every threaded function has its condition when JavaScript starts, although
\* exportThreaded enters the two one after the other (plugins.c, 287).
THEOREM NoConditionMissing == Spec => []ConditionsComplete
<1>1. StartInv => ConditionsComplete
  BY DEF StartInv, SignalLast, ConditionsFollow, ConditionsComplete
<1> QED
  BY <1>1, StartInvariant, PTL

\* No export of any plugin replaces a sync function.
THEOREM FirstSyncStays == Spec => SyncNotReplaced
<1>1. StartInv /\ [Next]_vars =>
        [\A n \in Names : functions[n] # NoFunction =>
           functions'[n] = functions[n] /\ thrFunctions'[n] = thrFunctions[n]]_registry
  <2> SUFFICES ASSUME StartInv, [Next]_vars, ~UNCHANGED registry, NEW n \in Names,
                      functions[n] # NoFunction
               PROVE  functions'[n] = functions[n] /\ thrFunctions'[n] = thrFunctions[n]
    OBVIOUS
  <2>1. ExportSync \/ ExportThreaded \/ ExportCondition
    BY DEF Next, MainStep, CoreStep, CreateCore, Configure, OpenFolder,
       OpenFolderFails, OpenPlugin, OpenPluginFails, loading, RefuseExport, PluginDone, LoaderDone, SignalCore, CoreMakesHeap, CoreWaits, CoreWakesAlone, vars
  <2>2. exporting # <<>> => Exported.name \in Names
    BY ExportedType DEF StartInv
  <2> QED
    BY <2>1, <2>2
    DEF ExportSync, ExportThreaded, ExportCondition, Refused, StartInv, TypeOK
<1> QED
  BY <1>1, StartInvariant, PTL DEF Spec, SyncNotReplaced
=============================================================================
