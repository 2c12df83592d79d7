----------------------------- MODULE CoreStart -----------------------------
(***************************************************************************)
(* The start of the daemon: main (src/wallyd.c) starts the thread of the   *)
(* JavaScript core (duvThread, src/seaduk.c), reads the configuration,     *)
(* loads the plugins in the order of readdir, each of which exports its    *)
(* functions (lib/plugins.c), signals core_ready_condition and enters      *)
(* uiLoop, whether or not there is a folder and its plugins can be opened. *)
(* The core makes its heap, waits for the condition and runs.              *)
(***************************************************************************)
EXTENDS Naturals, Sequences

CONSTANTS
  Plugins,
  Exports,       \* the exports of each plugin, in the order of initPlugin
  Names,         \* of functions
  NoFunction,
  MayDaemonize   \* whether "foreground" may be absent from the configuration

ASSUME ExportsAssumption ==
  /\ Exports \in [Plugins -> Seq([name : Names, threaded : BOOLEAN])]
  /\ NoFunction \notin Plugins
  /\ MayDaemonize \in BOOLEAN

VARIABLES
  mainPc,       \* where main is
  loaded,       \* the plugins whose initPlugin has run or is running
  failed,       \* the plugins that have been given up
  exporting,    \* what is left of the exports of the current plugin
  current,      \* that plugin
  functions,    \* ph->functions: the plugin that exported the name
  thrFunctions, \* ph->thr_functions
  conditions,   \* the names that have a condition in functionWaitConditions
  corePc        \* where the thread of the core is

registry == <<functions, thrFunctions, conditions>>
loading == <<loaded, failed, exporting, current>>
vars == <<mainPc, loading, registry, corePc>>

MainPcs == {"create", "config", "folder", "load", "init", "condition", "signal", "uiLoop"}
CorePcs == {"none", "heap", "toWait", "waiting", "signalled", "unsignalled", "gone"}

\* Type invariant.  A plugin is the current one exactly while its initPlugin
\* runs (openPlugin).
TypeOK ==
  /\ mainPc \in MainPcs
  /\ loaded \subseteq Plugins /\ failed \subseteq Plugins
  /\ exporting \in Seq([name : Names, threaded : BOOLEAN])
  /\ current \in Plugins \cup {NoFunction}
  /\ functions \in [Names -> Plugins \cup {NoFunction}]
  /\ thrFunctions \in [Names -> Plugins \cup {NoFunction}]
  /\ conditions \subseteq Names
  /\ corePc \in CorePcs
  /\ current # NoFunction <=> mainPc \in {"init", "condition"}

Init ==
  /\ mainPc = "create"
  /\ loaded = {} /\ failed = {} /\ exporting = <<>> /\ current = NoFunction
  /\ functions = [n \in Names |-> NoFunction]
  /\ thrFunctions = [n \in Names |-> NoFunction]
  /\ conditions = {}
  /\ corePc = "none"

MainGoes(from, to) == mainPc = from /\ mainPc' = to

CreateCore ==
  /\ MainGoes("create", "config")
  /\ corePc' = "heap"
  /\ UNCHANGED <<loading, registry>>

\* initializeConfig and daemonize: the process that goes on after fork has the
\* thread that called it and no other.
Configure ==
  /\ MainGoes("config", "folder")
  /\ \/ UNCHANGED corePc
     \/ MayDaemonize /\ corePc' = "gone"
  /\ UNCHANGED <<loading, registry>>

\* opendir.
OpenFolder ==
  /\ MainGoes("folder", "load")
  /\ UNCHANGED <<loading, registry, corePc>>

\* pluginLoader returns -1, which main does not look at.
OpenFolderFails ==
  /\ MainGoes("folder", "signal")
  /\ failed' = Plugins
  /\ UNCHANGED <<loaded, exporting, current, registry, corePc>>

\* The files that readdir still has to give.
ToOpen == Plugins \ (loaded \cup failed)

OpenPlugin(p) ==
  /\ MainGoes("load", "init")
  /\ p \in ToOpen
  /\ loaded' = loaded \cup {p}
  /\ exporting' = Exports[p]
  /\ current' = p
  /\ UNCHANGED <<failed, registry, corePc>>

\* dlopen or dlsym fails: nothing is exported and the next file is looked at.
OpenPluginFails(p) ==
  /\ mainPc = "load"
  /\ p \in ToOpen
  /\ failed' = failed \cup {p}
  /\ UNCHANGED <<mainPc, loaded, exporting, current, registry, corePc>>

Exported == Head(exporting)

\* Faulty variant: the table of sync functions is not looked at.
Refused_Never == FALSE

\* Both look at the table of sync functions, and at that only.
Refused == functions[Exported.name] # NoFunction

RefuseExport ==
  /\ mainPc = "init"
  /\ exporting # <<>>
  /\ Refused
  /\ exporting' = Tail(exporting)
  /\ UNCHANGED <<mainPc, loaded, failed, current, registry, corePc>>

ExportSync ==
  /\ mainPc = "init"
  /\ exporting # <<>>
  /\ ~Exported.threaded
  /\ ~Refused
  /\ functions' = [functions EXCEPT ![Exported.name] = current]
  /\ exporting' = Tail(exporting)
  /\ UNCHANGED <<mainPc, loaded, failed, current, thrFunctions, conditions, corePc>>

\* exportThreaded enters the function first and its condition after that.
ExportThreaded ==
  /\ MainGoes("init", "condition")
  /\ exporting # <<>>
  /\ Exported.threaded
  /\ ~Refused
  /\ thrFunctions' = [thrFunctions EXCEPT ![Exported.name] = current]
  /\ UNCHANGED <<loading, functions, conditions, corePc>>

\* Faulty variant: the condition is left to the next export.
ExportCondition_Forgets ==
  /\ MainGoes("condition", "init")
  /\ exporting' = Tail(exporting)
  /\ UNCHANGED <<loaded, failed, current, registry, corePc>>

ExportCondition ==
  /\ MainGoes("condition", "init")
  /\ conditions' = conditions \cup {Exported.name}
  /\ exporting' = Tail(exporting)
  /\ UNCHANGED <<loaded, failed, current, functions, thrFunctions, corePc>>

\* Faulty variant: the plugin is left as the one that exports.
PluginDone_KeepsCurrent ==
  /\ MainGoes("init", "load")
  /\ exporting = <<>>
  /\ UNCHANGED <<loading, registry, corePc>>

PluginDone ==
  /\ MainGoes("init", "load")
  /\ exporting = <<>>
  /\ current' = NoFunction
  /\ UNCHANGED <<loaded, failed, exporting, registry, corePc>>

\* Faulty variant: the signal does not wait for the last plugin.
LoaderDone_Early ==
  /\ MainGoes("load", "signal")
  /\ UNCHANGED <<loading, registry, corePc>>

LoaderDone ==
  /\ MainGoes("load", "signal")
  /\ ToOpen = {}
  /\ UNCHANGED <<loading, registry, corePc>>

\* pthread_cond_signal: a core that does not wait yet is not told.
SignalCore ==
  /\ MainGoes("signal", "uiLoop")
  /\ corePc' = IF corePc = "waiting" THEN "signalled" ELSE corePc
  /\ UNCHANGED <<loading, registry>>

CoreMakesHeap ==
  /\ corePc = "heap"
  /\ corePc' = "toWait"
  /\ UNCHANGED <<mainPc, loading, registry>>

\* The thread does not own core_ready_mutex and looks at nothing that would
\* tell it that the signal has been given.
CoreWaits ==
  /\ corePc = "toWait"
  /\ corePc' = "waiting"
  /\ UNCHANGED <<mainPc, loading, registry>>

\* A wait on a condition may return without a signal, and nothing checks.
CoreWakesAlone ==
  /\ corePc = "waiting"
  /\ corePc' = "unsignalled"
  /\ UNCHANGED <<mainPc, loading, registry>>

MainStep ==
  \/ CreateCore \/ Configure
  \/ OpenFolder \/ OpenFolderFails
  \/ \E p \in Plugins : OpenPlugin(p) \/ OpenPluginFails(p)
  \/ RefuseExport \/ ExportSync \/ ExportThreaded \/ ExportCondition
  \/ PluginDone \/ LoaderDone \/ SignalCore

CoreStep == CoreMakesHeap \/ CoreWaits

Next == MainStep \/ CoreStep \/ CoreWakesAlone

Spec == Init /\ [][Next]_vars

\* Both threads are scheduled and neither is held up by a mutex.
FairSpec == Spec /\ WF_vars(MainStep) /\ WF_vars(CoreStep)
-----------------------------------------------------------------------------
Registered(n) == functions[n] # NoFunction \/ thrFunctions[n] # NoFunction

\* A core that the signal has started runs JavaScript when every plugin has been
\* loaded or given up, with the names the loaded ones export in the tables, and
\* no other names: a name of a plugin that was given up is there only if a
\* loaded one exports it as well, and then it is that one's function.
CoreAfterPlugins ==
  corePc = "signalled" =>
    /\ loaded = Plugins \ failed
    /\ \A p \in loaded : \A i \in 1..Len(Exports[p]) : Registered(Exports[p][i].name)
    /\ \A n \in Names : {functions[n], thrFunctions[n]} \subseteq loaded \cup {NoFunction}

\* A threaded function that callEx can find when JavaScript starts has the
\* condition callEx waits on and uiLoop signals.
ConditionsComplete ==
  corePc = "signalled" =>
    {n \in Names : thrFunctions[n] # NoFunction} \subseteq conditions

\* A sync function stays the one that was registered first.
SyncNotReplaced ==
  [][\A n \in Names : functions[n] # NoFunction =>
       functions'[n] = functions[n] /\ thrFunctions'[n] = thrFunctions[n]]_registry

\* "Signal the duktape core to start" (wallyd.c): the core starts.
CoreStarts == <>(corePc \in {"signalled", "unsignalled"})
=============================================================================
