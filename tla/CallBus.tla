------------------------------ MODULE CallBus ------------------------------
(***************************************************************************)
(* The call core of wallyd: scall, callWtx and callEx (lib/plugins.c) run  *)
(* by the JavaScript thread and by the ffplay threads, and uiLoop          *)
(* (lib/ui.c) run by the main thread.                                      *)
(*                                                                         *)
(* A call to a threaded function is put on the priority queue, an event    *)
(* with its name is pushed for the UI loop, and the caller waits on the    *)
(* condition of that name.  A call to a sync function runs in the caller.  *)
(* One step of this module is one stretch of code between two points at    *)
(* which another thread can be observed: taking a mutex, touching a        *)
(* queue, waiting, signalling.                                             *)
(***************************************************************************)
EXTENDS QueueOps

CONSTANTS
  Js,           \* the thread that runs JavaScript and the command socket
  Ui,           \* the main thread, in uiLoop
  VideoThreads, \* the ffplay threads, which use callWithData
  NoThread,     \* owner of a mutex that is free
  Threaded,     \* names exported with WFUNC_THRD
  Sync,         \* names exported with WFUNC_SYNC
  Script,       \* the sync names that run JavaScript (js::eval, js::evalFile)
  Unregistered, \* names nothing has exported
  RefreshTimer, \* "ffvideo::refresh_timer", the name eventFilter singles out
  VideoFuncs,   \* the names the ffplay threads call
  Wtxs,         \* the call contexts; their number bounds the unfinished calls
  NoWtx,
  MaxEvents     \* bound on the events that are waiting when ffplay calls

Callers == {Js} \cup VideoThreads
Funcs == Threaded \cup Sync \cup Unregistered
JsFuncs == Funcs \ VideoFuncs

ASSUME ThreadsAssumption ==
  /\ Js \notin VideoThreads
  /\ Ui \notin Callers
  /\ NoThread \notin Callers \cup {Ui}

ASSUME FuncsAssumption ==
  /\ Threaded \cap Sync = {}
  /\ Threaded \cap Unregistered = {}
  /\ Sync \cap Unregistered = {}
  /\ Script \subseteq Sync
  /\ VideoFuncs \subseteq Threaded
  /\ RefreshTimer \notin JsFuncs
  /\ JsFuncs # {}

\* A commit is callEx with a context too, but not by way of callWtx.
Kinds == {"wtx", "commit", "str", "ptr"}
CarriesContext(k) == k \in {"wtx", "commit"}
EventRec == [wtx : BOOLEAN, name : Threaded]

ASSUME WtxAssumption ==
  /\ NoWtx \notin Wtxs
  /\ NoWtx \notin EventRec
  /\ MaxEvents \in Nat

VARIABLES
  pc,         \* where each caller is
  fn,         \* the function name of each caller's current call
  kind,       \* its parameter type: WTX, STR or PTR
  ctx,        \* the context of a WTX call
  uiPc,       \* where the UI loop is
  uiEv,       \* the event it handles
  uiWtx,      \* the context it popped
  scallMutex, \* ph->callMutex, taken by scall
  wtxMutex,   \* ph->wtxMutex
  callMutex,  \* the static callMutex of plugins.c
  funcMutex,  \* ph->funcMutex, an SDL mutex that is never unlocked
  taMutex,    \* ph->taMutex
  queue,      \* ph->queue, see QueueOps
  events,     \* the SDL event queue
  wst,        \* what has become of each context
  playVideo,  \* ph->playVideo
  quit        \* ph->quit

callerVars == <<pc, fn, kind, ctx>>
uiVars == <<uiPc, uiEv, uiWtx>>
locks == <<scallMutex, wtxMutex, callMutex, funcMutex, taMutex>>
flags == <<playVideo, quit>>
vars == <<callerVars, uiVars, locks, queue, events, wst, flags>>

CallerPcs == {"idle", "scallLock", "wtxLock", "callLock", "dispatch", "sync",
              "push", "toWait", "waiting", "woken", "callUnlock",
              "wtxUnlock", "scallUnlock"}
UiPcs == {"poll", "pop", "exec", "signal", "free", "freeing", "unlockTa",
          "exit"}
WtxStates == {"unused", "held", "queued", "running", "done", "lost"}

\* Type invariant of the threads, mutexes and queues of the call core.
TypeOK ==
  /\ pc \in [Callers -> CallerPcs]
  /\ fn \in [Callers -> Funcs]
  /\ kind \in [Callers -> Kinds]
  /\ ctx \in [Callers -> Wtxs \cup {NoWtx}]
  /\ uiPc \in UiPcs
  /\ uiEv \in EventRec \cup {NoWtx}
  /\ uiWtx \in Wtxs \cup {NoWtx}
  /\ {scallMutex, callMutex, funcMutex} \subseteq Callers \cup {NoThread}
  /\ {wtxMutex, taMutex} \subseteq Callers \cup {Ui, NoThread}
  /\ queue \in Seq(Wtxs)
  /\ events \in Seq(EventRec)
  /\ wst \in [Wtxs -> WtxStates]
  /\ playVideo \in BOOLEAN
  /\ quit \in BOOLEAN
-----------------------------------------------------------------------------
(***************************************************************************)
(* eventFilter runs in the pushing thread.  callEx leaves the event type   *)
(* of a STR call 0, below SDL_USEREVENT.                                   *)
(***************************************************************************)
\* Faulty variants: no type is below SDL_USEREVENT; that of a WTX call is too.
Dropped_TimerOnly(k, f) == f = RefreshTimer /\ ~playVideo
Dropped_Context(k, f) == k \in {"str", "wtx"}

Dropped(k, f) == k = "str" \/ (f = RefreshTimer /\ ~playVideo)

Goto(t, label) == pc' = [pc EXCEPT ![t] = label]
-----------------------------------------------------------------------------
Init ==
  /\ pc = [t \in Callers |-> "idle"]
  /\ fn = [t \in Callers |-> CHOOSE f \in JsFuncs : TRUE]
  /\ kind = [t \in Callers |-> "str"]
  /\ ctx = [t \in Callers |-> NoWtx]
  /\ uiPc = "poll" /\ uiEv = NoWtx /\ uiWtx = NoWtx
  /\ scallMutex = NoThread /\ wtxMutex = NoThread /\ callMutex = NoThread
  /\ funcMutex = NoThread /\ taMutex = NoThread
  /\ queue = <<>> /\ events = <<>>
  /\ wst = [w \in Wtxs |-> "unused"]
  /\ playVideo = FALSE
  /\ quit = FALSE

(***************************************************************************)
(* The three ways into a call: scall from the JavaScript API, callSync     *)
(* from a line of the command socket, callWithData from ffplay.            *)
(***************************************************************************)
Begin(t, f, k, w, label) ==
  /\ Goto(t, label)
  /\ fn' = [fn EXCEPT ![t] = f]
  /\ kind' = [kind EXCEPT ![t] = k]
  /\ ctx' = [ctx EXCEPT ![t] = w]
  /\ UNCHANGED <<uiVars, locks, queue, events, wst, flags>>

\* The bound of the model: a scall begins while a context is unused.
Scall(f) ==
  /\ pc[Js] = "idle"
  /\ \E w \in Wtxs : wst[w] = "unused"
  /\ Begin(Js, f, "wtx", NoWtx, "scallLock")

CallSync(f) == pc[Js] = "idle" /\ Begin(Js, f, "str", NoWtx, "callLock")

\* The bound of the model: a video call begins while events has room.
CallWithData(t, f) ==
  /\ pc[t] = "idle"
  /\ Len(events) < MaxEvents
  /\ Begin(t, f, "ptr", NoWtx, "callLock")

ScallLock(t) ==
  /\ pc[t] = "scallLock"
  /\ scallMutex = NoThread
  /\ scallMutex' = t
  /\ Goto(t, "wtxLock")
  /\ UNCHANGED <<fn, kind, ctx, uiVars, wtxMutex, callMutex, funcMutex,
                 taMutex, queue, events, wst, flags>>

\* Faulty variant: the context that is handed to callEx is not set.
CallWtx_NoContext(t) ==
  /\ pc[t] = "wtxLock"
  /\ wtxMutex = NoThread
  /\ wtxMutex' = t
  /\ Goto(t, "callLock")
  /\ UNCHANGED <<fn, kind, ctx, uiVars, scallMutex, callMutex, funcMutex,
                 taMutex, queue, events, wst, flags>>

\* callWtx keeps wtxMutex from here until callEx has returned.
CallWtx(t) ==
  /\ pc[t] = "wtxLock"
  /\ wtxMutex = NoThread
  /\ wtxMutex' = t
  /\ \E w \in Wtxs :
       /\ wst[w] = "unused"
       /\ wst' = [wst EXCEPT ![w] = "held"]
       /\ ctx' = [ctx EXCEPT ![t] = w]
  /\ Goto(t, "callLock")
  /\ UNCHANGED <<fn, kind, uiVars, scallMutex, callMutex, funcMutex, taMutex,
                 queue, events, flags>>

CallLock(t) ==
  /\ pc[t] = "callLock"
  /\ callMutex = NoThread
  /\ callMutex' = t
  /\ Goto(t, "dispatch")
  /\ UNCHANGED <<fn, kind, ctx, uiVars, scallMutex, wtxMutex, funcMutex,
                 taMutex, queue, events, wst, flags>>

\* Only a WTX call leaves a node on the priority queue.
DispatchThreaded(t) ==
  /\ pc[t] = "dispatch"
  /\ fn[t] \in Threaded
  /\ IF CarriesContext(kind[t])
       THEN /\ queue' = Insert(queue, ctx[t])
            /\ wst' = [wst EXCEPT ![ctx[t]] = "queued"]
       ELSE UNCHANGED <<queue, wst>>
  /\ Goto(t, "push")
  /\ UNCHANGED <<fn, kind, ctx, uiVars, locks, events, flags>>

DispatchSync(t) ==
  /\ pc[t] = "dispatch"
  /\ fn[t] \in Sync
  /\ Goto(t, "sync")
  /\ UNCHANGED <<fn, kind, ctx, uiVars, locks, queue, events, wst, flags>>

AfterCallEx(t) == IF kind[t] = "wtx" THEN "wtxUnlock" ELSE "idle"

\* The early return for a name nobody exported leaves callMutex locked.
DispatchUnregistered(t) ==
  /\ pc[t] = "dispatch"
  /\ fn[t] \in Unregistered
  /\ Goto(t, AfterCallEx(t))
  /\ UNCHANGED <<fn, kind, ctx, uiVars, locks, queue, events, wst, flags>>

SyncReturns(t) ==
  /\ pc[t] = "sync"
  /\ Goto(t, "callUnlock")
  /\ UNCHANGED <<fn, kind, ctx, uiVars, locks, queue, events, wst, flags>>

\* A script that js::eval was given as a command uses the JavaScript API
\* while the outer callEx still holds callMutex.
SyncCallsBack(t, f) ==
  /\ pc[t] = "sync"
  /\ fn[t] \in Script
  /\ kind[t] = "str"
  /\ Begin(t, f, "wtx", NoWtx, "scallLock")

\* Faulty variant: the event is pushed by the owner of funcMutex only.
PushEvent_IfLocked(t) ==
  /\ pc[t] = "push"
  /\ funcMutex' = IF funcMutex = NoThread THEN t ELSE funcMutex
  /\ events' = IF Dropped(kind[t], fn[t]) \/ funcMutex' # t
                 THEN events
                 ELSE Append(events, [wtx |-> CarriesContext(kind[t]), name |-> fn[t]])
  /\ Goto(t, "toWait")
  /\ UNCHANGED <<fn, kind, ctx, uiVars, scallMutex, wtxMutex, callMutex,
                 taMutex, queue, wst, flags>>

\* SDL_TryLockMutex, then SDL_PushEvent through the filter.
PushEvent(t) ==
  /\ pc[t] = "push"
  /\ funcMutex' = IF funcMutex = NoThread THEN t ELSE funcMutex
  /\ events' = IF Dropped(kind[t], fn[t])
                 THEN events
                 ELSE Append(events, [wtx |-> CarriesContext(kind[t]), name |-> fn[t]])
  /\ Goto(t, "toWait")
  /\ UNCHANGED <<fn, kind, ctx, uiVars, scallMutex, wtxMutex, callMutex,
                 taMutex, queue, wst, flags>>

\* Faulty variant: the wait gives up callMutex.
CondWait_Unlocks(t) ==
  /\ pc[t] = "toWait"
  /\ callMutex' = NoThread
  /\ Goto(t, IF funcMutex = t THEN "waiting" ELSE "callUnlock")
  /\ UNCHANGED <<fn, kind, ctx, uiVars, scallMutex, wtxMutex, funcMutex,
                 taMutex, queue, events, wst, flags>>

\* Without funcMutex the wait fails at once with EPERM.
CondWait(t) ==
  /\ pc[t] = "toWait"
  /\ Goto(t, IF funcMutex = t THEN "waiting" ELSE "callUnlock")
  /\ UNCHANGED <<fn, kind, ctx, uiVars, locks, queue, events, wst, flags>>

\* Faulty variant: a wait without a timeout.
WaitGivesUp_Never(t) == pc[t] = "waiting" /\ FALSE /\ UNCHANGED vars

\* The wait ends after SDLWAITTIMEOUT, or spuriously: there is no predicate.
WaitGivesUp(t) ==
  /\ pc[t] = "waiting"
  /\ Goto(t, "callUnlock")
  /\ UNCHANGED <<fn, kind, ctx, uiVars, locks, queue, events, wst, flags>>

Woken(t) ==
  /\ pc[t] = "woken"
  /\ Goto(t, "callUnlock")
  /\ UNCHANGED <<fn, kind, ctx, uiVars, locks, queue, events, wst, flags>>

CallUnlock(t) ==
  /\ pc[t] = "callUnlock"
  /\ callMutex' = NoThread
  /\ Goto(t, AfterCallEx(t))
  /\ UNCHANGED <<fn, kind, ctx, uiVars, scallMutex, wtxMutex, funcMutex,
                 taMutex, queue, events, wst, flags>>

\* A context that never reached the queue is leaked: nothing refers to it
\* any more, and the model reuses its name.
WtxUnlock(t) ==
  /\ pc[t] = "wtxUnlock"
  /\ wtxMutex' = NoThread
  /\ wst' = IF wst[ctx[t]] = "held"
              THEN [wst EXCEPT ![ctx[t]] = "unused"] ELSE wst
  /\ Goto(t, "scallUnlock")
  /\ UNCHANGED <<fn, kind, ctx, uiVars, scallMutex, callMutex, funcMutex,
                 taMutex, queue, events, flags>>

ScallUnlock(t) ==
  /\ pc[t] = "scallUnlock"
  /\ scallMutex' = NoThread
  /\ Goto(t, "idle")
  /\ UNCHANGED <<fn, kind, ctx, uiVars, wtxMutex, callMutex, funcMutex,
                 taMutex, queue, events, wst, flags>>
-----------------------------------------------------------------------------
(***************************************************************************)
(* The UI loop.                                                            *)
(***************************************************************************)
UiPoll ==
  /\ uiPc = "poll"
  /\ ~quit
  /\ events # <<>>
  /\ uiEv' = Head(events)
  /\ events' = Tail(events)
  /\ uiPc' = "pop"
  /\ UNCHANGED <<callerVars, uiWtx, locks, queue, wst, flags>>

UiExit ==
  /\ uiPc = "poll"
  /\ quit
  /\ uiPc' = "exit"
  /\ UNCHANGED <<callerVars, uiEv, uiWtx, locks, queue, events, wst, flags>>

\* Faulty variant: the caller is signalled before its function runs.
UiPop_SignalsFirst ==
  /\ uiPc = "pop"
  /\ queue # <<>>
  /\ uiWtx' = queue[1]
  /\ queue' = PopRest(queue)
  /\ wst' = [wst EXCEPT ![queue[1]] = "running"]
  /\ uiPc' = "signal"
  /\ UNCHANGED <<callerVars, uiEv, locks, events, flags>>

\* Every event pops a node, whatever its type.
UiPop ==
  /\ uiPc = "pop"
  /\ queue # <<>>
  /\ uiWtx' = queue[1]
  /\ queue' = PopRest(queue)
  /\ wst' = [wst EXCEPT ![queue[1]] =
               IF uiEv.wtx THEN "running" ELSE "lost"]
  /\ uiPc' = "exec"
  /\ UNCHANGED <<callerVars, uiEv, locks, events, flags>>

UiPopsNothing ==
  /\ uiPc = "pop"
  /\ queue = <<>>
  /\ uiPc' = "poll"
  /\ UNCHANGED <<callerVars, uiEv, uiWtx, locks, queue, events, wst, flags>>

\* The function runs from UiPop until this step.
UiExec ==
  /\ uiPc = "exec"
  /\ wst' = IF uiEv.wtx THEN [wst EXCEPT ![uiWtx] = "done"] ELSE wst
  /\ uiPc' = "signal"
  /\ UNCHANGED <<callerVars, uiEv, uiWtx, locks, queue, events, flags>>

WaitSet(f) == {t \in Callers : pc[t] = "waiting" /\ fn[t] = f}

\* SDL_CondSignal without funcMutex: nobody waiting, nobody woken.
UiSignal ==
  /\ uiPc = "signal"
  /\ IF WaitSet(uiEv.name) = {}
       THEN UNCHANGED pc
       ELSE \E t \in WaitSet(uiEv.name) : Goto(t, "woken")
  /\ uiPc' = IF uiEv.wtx THEN "free" ELSE "poll"
  /\ UNCHANGED <<fn, kind, ctx, uiEv, uiWtx, locks, queue, events, wst, flags>>

\* Faulty variant: freeWtx does not wait for the lock.
UiLockWtx_NoWait ==
  /\ uiPc = "free"
  /\ uiPc' = "freeing"
  /\ UNCHANGED <<callerVars, uiEv, uiWtx, locks, queue, events, wst, flags>>

UiLockWtx ==
  /\ uiPc = "free"
  /\ wtxMutex = NoThread
  /\ wtxMutex' = Ui
  /\ uiPc' = "freeing"
  /\ UNCHANGED <<callerVars, uiEv, uiWtx, scallMutex, callMutex, funcMutex,
                 taMutex, queue, events, wst, flags>>

UiFreeWtx ==
  /\ uiPc = "freeing"
  /\ wst' = [wst EXCEPT ![uiWtx] = "unused"]
  /\ wtxMutex' = NoThread
  /\ uiPc' = "unlockTa"
  /\ UNCHANGED <<callerVars, uiEv, uiWtx, scallMutex, callMutex, funcMutex,
                 taMutex, queue, events, flags>>

\* Faulty variant: the unlock is left out.
UiUnlockTa_Keeps ==
  /\ uiPc = "unlockTa"
  /\ uiPc' = "poll"
  /\ uiWtx' = NoWtx
  /\ UNCHANGED <<callerVars, uiEv, locks, queue, events, wst, flags>>

\* The unlock at the end of every WTX call, whoever owns the mutex.
UiUnlockTa ==
  /\ uiPc = "unlockTa"
  /\ taMutex' = NoThread
  /\ uiPc' = "poll"
  /\ uiWtx' = NoWtx
  /\ UNCHANGED <<callerVars, uiEv, scallMutex, wtxMutex, callMutex, funcMutex,
                 queue, events, wst, flags>>
-----------------------------------------------------------------------------
\* ffvideo::play and the end of a video switch the flag eventFilter reads.
SwitchVideo ==
  /\ VideoThreads # {}
  /\ playVideo' = ~playVideo
  /\ UNCHANGED <<callerVars, uiVars, locks, queue, events, wst, quit>>

\* A window close or ESC, seen by eventFilter.
QuitEvent ==
  /\ ~quit
  /\ quit' = TRUE
  /\ UNCHANGED <<callerVars, uiVars, locks, queue, events, wst, playVideo>>

StartCall ==
  \/ \E f \in JsFuncs : Scall(f) \/ CallSync(f)
  \/ \E t \in VideoThreads, f \in VideoFuncs : CallWithData(t, f)

CallerStep(t) ==
  \/ ScallLock(t) \/ CallWtx(t) \/ CallLock(t)
  \/ DispatchThreaded(t) \/ DispatchSync(t) \/ DispatchUnregistered(t)
  \/ SyncReturns(t)
  \/ PushEvent(t) \/ CondWait(t) \/ WaitGivesUp(t) \/ Woken(t)
  \/ CallUnlock(t) \/ WtxUnlock(t) \/ ScallUnlock(t)

UiStep ==
  \/ UiPoll \/ UiExit \/ UiPop \/ UiPopsNothing \/ UiExec \/ UiSignal
  \/ UiLockWtx \/ UiFreeWtx \/ UiUnlockTa

Next ==
  \/ StartCall
  \/ \E t \in Callers : CallerStep(t)
  \/ \E t \in Callers, f \in JsFuncs : SyncCallsBack(t, f)
  \/ UiStep
  \/ SwitchVideo
  \/ QuitEvent

Spec == Init /\ [][Next]_vars

(***************************************************************************)
(* Fairness.  Both loops keep running and an exported function returns     *)
(* (weak fairness); the timeout of the wait is a real clock.  A mutex is   *)
(* not handed over in order, so the thread that waits for one is given     *)
(* strong fairness.  Nobody is obliged to begin a call, to quit, or to     *)
(* call back from a script.                                                *)
(***************************************************************************)
Fairness ==
  /\ \A t \in Callers :
       /\ WF_vars(CallerStep(t))
       /\ SF_vars(ScallLock(t)) /\ SF_vars(CallWtx(t)) /\ SF_vars(CallLock(t))
  /\ WF_vars(UiStep)
  /\ SF_vars(UiLockWtx)

FairSpec == Spec /\ Fairness
-----------------------------------------------------------------------------
(***************************************************************************)
(* Properties.                                                             *)
(***************************************************************************)
InPush(t) == pc[t] = "push" /\ CarriesContext(kind[t])
InCallEx(t) == pc[t] \in {"dispatch", "sync", "push", "toWait", "waiting",
                          "woken", "callUnlock"}
InCallWtx(t) == kind[t] = "wtx"
                /\ (InCallEx(t) \/ pc[t] \in {"callLock", "wtxUnlock"})
InScall(t) == kind[t] = "wtx"
              /\ (InCallWtx(t) \/ pc[t] \in {"wtxLock", "scallUnlock"})

\* At most one thread is between the lock and the unlock of each of the three
\* mutexes of a call, and it is the owner; the UI loop frees a context only
\* as the owner of wtxMutex (scall, callWtx, callEx, freeWtxElements).
LockDiscipline ==
  \A t \in Callers :
    /\ InCallEx(t) => callMutex = t
    /\ InCallWtx(t) => wtxMutex = t /\ uiPc # "freeing"
    /\ InScall(t) => scallMutex = t

\* Nodes that no event will pop: the queue is never longer than the events
\* that are waiting, the one being pushed and the one that is about to pop.
\* callEx must queue the context before it pushes the event.
QueueCovered ==
  Len(queue) <= Len(events) + (IF uiPc = "pop" THEN 1 ELSE 0)
                + (IF \E t \in Callers : InPush(t) THEN 1 ELSE 0)

\* While no video thread calls, the two queues stay in step: the UI loop never
\* finds the priority queue empty and never takes a node of another event.
QueuesPaired ==
  VideoThreads = {} =>
    Len(queue) = Len(events) + (IF uiPc = "pop" THEN 1 ELSE 0)
                 + (IF \E t \in Callers : InPush(t) THEN 1 ELSE 0)

\* A context is in one place: once in the queue, or with the UI loop, or with
\* the caller that made it.  Nothing is run or freed a second time.
ContextOwnedOnce ==
  /\ \A i, j \in 1..Len(queue) : queue[i] = queue[j] => i = j
  /\ \A i \in 1..Len(queue) : wst[queue[i]] = "queued"
  /\ \A w \in Wtxs : wst[w] \in {"running", "done"} =>
                         uiWtx = w /\ uiPc \in {"exec", "signal", "free", "freeing"}

\* As long as its caller is inside callWtx, a context is not freed: freeWtx
\* waits for the wtxMutex the caller holds.
CallerKeepsContext ==
  \A t \in Callers : InCallWtx(t) => wst[ctx[t]] # "unused"

\* A signal may come late and wake the next caller of the same name.  All the
\* same the caller it wakes finds the UI loop between the signal and freeWtx,
\* with an event of that name and a context that has been run to its end: its
\* own, or an older one, and then its own is untouched or has been lost to the
\* event of a video call, and is not running.
WokenMeansDone ==
  \A t \in Callers : pc[t] = "woken" /\ kind[t] = "wtx" =>
    /\ uiPc = "free" /\ uiEv.name = fn[t] /\ wst[uiWtx] = "done"
    /\ uiWtx = ctx[t] \/ wst[ctx[t]] \in {"queued", "lost"}

\* Every call that is begun comes back to its caller, with a lost signal, a
\* dropped event or a UI loop that has quit as well.
EveryCallReturns == \A t \in Callers : pc[t] # "idle" ~> pc[t] = "idle"
-----------------------------------------------------------------------------
(***************************************************************************)
(* The life of a context as CallService sees it.                           *)
(***************************************************************************)
AbstractStatus ==
  [w \in Wtxs |->
     CASE wst[w] \in {"queued", "running"} -> "submitted"
       [] wst[w] = "done" -> "executed"
       [] OTHER -> "idle"]

Service == INSTANCE CallService WITH status <- AbstractStatus, stopped <- quit

\* Without video threads the call core implements the abstract service, its
\* progress for calls that do not pile up included.
ImplementsService == Service!Spec
=============================================================================
