--------------------------- MODULE CallBus_proofs ---------------------------
(***************************************************************************)
(* Proofs about CallBus, for any set of threads, names and contexts.       *)
(*                                                                         *)
(* The lemmas follow the layers of the module: types, then the mutexes,    *)
(* then the contexts, then the lengths of the two queues.  Each invariant  *)
(* is shown to be kept by a step from a state of the layers below it.      *)
(***************************************************************************)
EXTENDS CallBus, SequenceTheorems, TLAPS

-----------------------------------------------------------------------------
(***************************************************************************)
(* Types.                                                                  *)
(***************************************************************************)

\* What the kind of a call tells about the rest of it.
KindsOK ==
  \A t \in Callers :
    /\ kind[t] # "commit"
    /\ pc[t] \in {"scallLock", "wtxLock", "wtxUnlock", "scallUnlock"}
         => kind[t] = "wtx"
    /\ kind[t] = "wtx" => fn[t] \in JsFuncs
    /\ kind[t] = "ptr" => t \in VideoThreads
    /\ pc[t] = "push" => fn[t] \in Threaded

\* Where a context and an event can be relied upon to be there.
ReferencesOK ==
  /\ \A t \in Callers : InCallWtx(t) => ctx[t] \in Wtxs
  /\ uiPc \in {"pop", "exec", "signal"} => uiEv \in EventRec
  /\ uiPc \in {"exec", "signal", "free", "freeing"} => uiWtx \in Wtxs

TypeInv == TypeOK /\ KindsOK /\ ReferencesOK

\* The queue operations return sequences of the same elements.
LEMMA QueueTypes ==
  ASSUME NEW q \in Seq(Wtxs)
  PROVE  /\ \A w \in Wtxs : Insert(q, w) \in Seq(Wtxs)
         /\ q # <<>> => q[1] \in Wtxs /\ PopRest(q) \in Seq(Wtxs)
<1>1. \A w \in Wtxs : Insert(q, w) \in Seq(Wtxs)
  BY DEF Insert
<1>2. ASSUME q # <<>> PROVE q[1] \in Wtxs /\ PopRest(q) \in Seq(Wtxs)
  <2>1. Len(q) \in Nat /\ Len(q) > 0
    BY <1>2
  <2>2. Len(q) - 1 \in Nat
    BY <2>1
  <2>3. PopRest(q) \in [1..(Len(q) - 1) -> Wtxs]
    BY <2>1 DEF PopRest
  <2> QED
    BY <2>1, <2>2, <2>3
<1> QED
  BY <1>1, <1>2

LEMMA TypeInit == Init => TypeInv
<1> SUFFICES ASSUME Init PROVE TypeInv
  OBVIOUS
<1>1. (CHOOSE f \in JsFuncs : TRUE) \in JsFuncs /\ JsFuncs \subseteq Funcs
  BY FuncsAssumption DEF JsFuncs
<1>2. \E f \in JsFuncs : fn = [t \in Callers |-> f]
  BY <1>1 DEF Init
<1>3. /\ pc = [t \in Callers |-> "idle"] /\ kind = [t \in Callers |-> "str"]
      /\ ctx = [t \in Callers |-> NoWtx] /\ wst = [w \in Wtxs |-> "unused"]
      /\ uiPc = "poll" /\ uiEv = NoWtx /\ uiWtx = NoWtx
      /\ scallMutex = NoThread /\ wtxMutex = NoThread /\ callMutex = NoThread
      /\ funcMutex = NoThread /\ taMutex = NoThread
      /\ queue = <<>> /\ events = <<>> /\ playVideo = FALSE /\ quit = FALSE
  BY DEF Init
<1>4. TypeOK
  <2>1. pc \in [Callers -> CallerPcs] /\ kind \in [Callers -> Kinds]
    BY <1>3 DEF CallerPcs, Kinds
  <2>2. fn \in [Callers -> Funcs]
    BY <1>1, <1>2
  <2>3. ctx \in [Callers -> Wtxs \cup {NoWtx}] /\ wst \in [Wtxs -> WtxStates]
    BY <1>3 DEF WtxStates
  <2>4. queue \in Seq(Wtxs) /\ events \in Seq(EventRec)
    BY <1>3
  <2>5. uiPc \in UiPcs
    BY <1>3 DEF UiPcs
  <2> QED
    BY <1>3, <2>1, <2>2, <2>3, <2>4, <2>5 DEF TypeOK
<1>5. KindsOK
  BY <1>2, <1>3 DEF KindsOK
<1>6. ReferencesOK
  BY <1>3 DEF ReferencesOK, InCallWtx, InCallEx
<1> QED
  BY <1>4, <1>5, <1>6 DEF TypeInv

LEMMA TypeStep == TypeInv /\ [Next]_vars => TypeInv'
<1> SUFFICES ASSUME TypeInv, [Next]_vars PROVE TypeInv'
  OBVIOUS
<1> USE ThreadsAssumption, FuncsAssumption, WtxAssumption DEF TypeInv,
       TypeOK, KindsOK, ReferencesOK, CallerPcs, UiPcs, Kinds, WtxStates,
       Callers, JsFuncs, Funcs, InCallWtx, InCallEx
<1>1. ASSUME NEW f \in JsFuncs, Scall(f) PROVE TypeInv'
  BY <1>1 DEF Scall, Begin, Goto, uiVars, locks, flags
<1>2. ASSUME NEW f \in JsFuncs, CallSync(f) PROVE TypeInv'
  BY <1>2 DEF CallSync, Begin, Goto, uiVars, locks, flags
<1>3. ASSUME NEW t \in VideoThreads, NEW f \in VideoFuncs, CallWithData(t, f)
      PROVE TypeInv'
  BY <1>3 DEF CallWithData, Begin, Goto, uiVars, locks, flags
<1>4. ASSUME NEW t \in Callers, ScallLock(t) PROVE TypeInv'
  BY <1>4 DEF ScallLock, Goto, uiVars, flags
<1>5. ASSUME NEW t \in Callers, CallWtx(t) PROVE TypeInv'
  BY <1>5 DEF CallWtx, Goto, uiVars, flags
<1>6. ASSUME NEW t \in Callers, CallLock(t) PROVE TypeInv'
  BY <1>6 DEF CallLock, Goto, uiVars, flags
<1>7. ASSUME NEW t \in Callers, DispatchThreaded(t) PROVE TypeInv'
  <2>1. CarriesContext(kind[t]) => ctx[t] \in Wtxs
    BY <1>7 DEF DispatchThreaded, CarriesContext
  <2>2. queue' \in Seq(Wtxs) /\ wst' \in [Wtxs -> WtxStates]
    <3>1. CASE CarriesContext(kind[t])
      <4>1. Insert(queue, ctx[t]) \in Seq(Wtxs)
        BY <2>1, <3>1, QueueTypes
      <4> QED
        BY <1>7, <3>1, <4>1 DEF DispatchThreaded
    <3>2. CASE ~CarriesContext(kind[t])
      BY <1>7, <3>2 DEF DispatchThreaded
    <3> QED
      BY <3>1, <3>2
  <2>3. TypeOK'
    BY <1>7, <2>2 DEF DispatchThreaded, Goto, uiVars, locks, flags
  <2>4. KindsOK' /\ ReferencesOK'
    BY <1>7 DEF DispatchThreaded, Goto, uiVars, locks, flags
  <2> QED
    BY <2>3, <2>4
<1>8. ASSUME NEW t \in Callers, DispatchSync(t) PROVE TypeInv'
  BY <1>8 DEF DispatchSync, Goto, uiVars, locks, flags
<1>9. ASSUME NEW t \in Callers, DispatchUnregistered(t) PROVE TypeInv'
  BY <1>9 DEF DispatchUnregistered, AfterCallEx, Goto, uiVars, locks, flags
<1>10. ASSUME NEW t \in Callers, SyncReturns(t) PROVE TypeInv'
  BY <1>10 DEF SyncReturns, Goto, uiVars, locks, flags
<1>11. ASSUME NEW t \in Callers, PushEvent(t) PROVE TypeInv'
  <2>1. [wtx |-> CarriesContext(kind[t]), name |-> fn[t]] \in EventRec
    BY <1>11 DEF PushEvent, CarriesContext, EventRec
  <2>2. events' \in Seq(EventRec)
    BY <1>11, <2>1 DEF PushEvent
  <2>3. TypeOK'
    BY <1>11, <2>2 DEF PushEvent, Goto, uiVars, flags
  <2>4. KindsOK' /\ ReferencesOK'
    BY <1>11 DEF PushEvent, Goto, uiVars, flags
  <2> QED
    BY <2>3, <2>4
<1>12. ASSUME NEW t \in Callers, CondWait(t) PROVE TypeInv'
  BY <1>12 DEF CondWait, Goto, uiVars, locks, flags
<1>13. ASSUME NEW t \in Callers, WaitGivesUp(t) PROVE TypeInv'
  BY <1>13 DEF WaitGivesUp, Goto, uiVars, locks, flags
<1>14. ASSUME NEW t \in Callers, Woken(t) PROVE TypeInv'
  BY <1>14 DEF Woken, Goto, uiVars, locks, flags
<1>15. ASSUME NEW t \in Callers, CallUnlock(t) PROVE TypeInv'
  BY <1>15 DEF CallUnlock, AfterCallEx, Goto, uiVars, flags
<1>16. ASSUME NEW t \in Callers, WtxUnlock(t) PROVE TypeInv'
  BY <1>16 DEF WtxUnlock, Goto, uiVars, flags
<1>17. ASSUME NEW t \in Callers, ScallUnlock(t) PROVE TypeInv'
  BY <1>17 DEF ScallUnlock, Goto, uiVars, flags
<1>18. ASSUME NEW t \in Callers, NEW f \in JsFuncs, SyncCallsBack(t, f)
       PROVE TypeInv'
  BY <1>18 DEF SyncCallsBack, Begin, Goto, uiVars, locks, flags
<1>19. ASSUME UiPoll PROVE TypeInv'
  BY <1>19 DEF UiPoll, callerVars, locks, flags
<1>20. ASSUME UiExit PROVE TypeInv'
  BY <1>20 DEF UiExit, callerVars, locks, flags
<1>21. ASSUME UiPop PROVE TypeInv'
  <2>1. queue[1] \in Wtxs /\ queue' \in Seq(Wtxs)
    BY <1>21, QueueTypes DEF UiPop
  <2>2. wst' \in [Wtxs -> WtxStates]
    BY <1>21 DEF UiPop
  <2>3. TypeOK'
    BY <1>21, <2>1, <2>2 DEF UiPop, callerVars, locks, flags
  <2>4. KindsOK' /\ ReferencesOK'
    BY <1>21, <2>1 DEF UiPop, callerVars, locks, flags
  <2> QED
    BY <2>3, <2>4
<1>22. ASSUME UiPopsNothing PROVE TypeInv'
  BY <1>22 DEF UiPopsNothing, callerVars, locks, flags
<1>23. ASSUME UiExec PROVE TypeInv'
  BY <1>23 DEF UiExec, callerVars, locks, flags
<1>24. ASSUME UiSignal PROVE TypeInv'
  BY <1>24 DEF UiSignal, WaitSet, Goto, locks, flags
<1>25. ASSUME UiLockWtx PROVE TypeInv'
  BY <1>25 DEF UiLockWtx, callerVars, flags
<1>26. ASSUME UiFreeWtx PROVE TypeInv'
  BY <1>26 DEF UiFreeWtx, callerVars, flags
<1>27. ASSUME UiUnlockTa PROVE TypeInv'
  BY <1>27 DEF UiUnlockTa, callerVars, flags
<1>28. ASSUME SwitchVideo PROVE TypeInv'
  BY <1>28 DEF SwitchVideo, callerVars, uiVars, locks
<1>29. ASSUME QuitEvent PROVE TypeInv'
  BY <1>29 DEF QuitEvent, callerVars, uiVars, locks
<1>30. ASSUME UNCHANGED vars PROVE TypeInv'
  BY <1>30 DEF vars, callerVars, uiVars, locks, flags
<1> QED
  BY <1>1, <1>2, <1>3, <1>4, <1>5, <1>6, <1>7, <1>8, <1>9, <1>10, <1>11,
     <1>12, <1>13, <1>14, <1>15, <1>16, <1>17, <1>18, <1>19, <1>20, <1>21,
     <1>22, <1>23, <1>24, <1>25, <1>26, <1>27, <1>28, <1>29, <1>30
     DEF Next, StartCall, CallerStep, UiStep

\* Every variable keeps its type, and every reference to a context or to an
\* event is to one that exists where the code uses it (callEx and uiLoop take
\* ctx and uiEv without a look).
THEOREM TypeCorrect == Spec => []TypeOK
<1>1. Init => TypeInv
  BY TypeInit
<1>2. TypeInv /\ [Next]_vars => TypeInv'
  BY TypeStep
<1>3. TypeInv => TypeOK
  BY DEF TypeInv
<1> QED
  BY <1>1, <1>2, <1>3, PTL DEF Spec

-----------------------------------------------------------------------------
(***************************************************************************)
(* Mutexes.                                                                *)
(***************************************************************************)

\* The UI loop frees a context as the owner of wtxMutex.
LockInv == LockDiscipline /\ (uiPc = "freeing" => wtxMutex = Ui)

LEMMA LockInit == Init => LockInv
BY ThreadsAssumption
   DEF Init, LockInv, LockDiscipline, InCallEx, InCallWtx, InScall

LEMMA LockStep == TypeInv /\ LockInv /\ [Next]_vars => LockInv'
<1> SUFFICES ASSUME TypeInv, LockInv, [Next]_vars PROVE LockInv'
  OBVIOUS
<1> USE ThreadsAssumption DEF TypeInv, TypeOK, KindsOK, LockInv,
       LockDiscipline, CallerPcs, Callers, InCallWtx, InCallEx, InScall
<1>1. ASSUME NEW f \in JsFuncs, Scall(f) PROVE LockInv'
  BY <1>1 DEF Scall, Begin, Goto, uiVars, locks, flags
<1>2. ASSUME NEW f \in JsFuncs, CallSync(f) PROVE LockInv'
  BY <1>2 DEF CallSync, Begin, Goto, uiVars, locks, flags
<1>3. ASSUME NEW t \in VideoThreads, NEW f \in VideoFuncs, CallWithData(t, f)
      PROVE LockInv'
  BY <1>3 DEF CallWithData, Begin, Goto, uiVars, locks, flags
<1>4. ASSUME NEW t \in Callers, ScallLock(t) PROVE LockInv'
  BY <1>4 DEF ScallLock, Goto, uiVars, flags
<1>5. ASSUME NEW t \in Callers, CallWtx(t) PROVE LockInv'
  BY <1>5 DEF CallWtx, Goto, uiVars, flags
<1>6. ASSUME NEW t \in Callers, CallLock(t) PROVE LockInv'
  BY <1>6 DEF CallLock, Goto, uiVars, flags
<1>7. ASSUME NEW t \in Callers, DispatchThreaded(t) PROVE LockInv'
  BY <1>7 DEF DispatchThreaded, Goto, uiVars, locks, flags
<1>8. ASSUME NEW t \in Callers, DispatchSync(t) PROVE LockInv'
  BY <1>8 DEF DispatchSync, Goto, uiVars, locks, flags
<1>9. ASSUME NEW t \in Callers, DispatchUnregistered(t) PROVE LockInv'
  BY <1>9 DEF DispatchUnregistered, AfterCallEx, Goto, uiVars, locks, flags
<1>10. ASSUME NEW t \in Callers, SyncReturns(t) PROVE LockInv'
  BY <1>10 DEF SyncReturns, Goto, uiVars, locks, flags
<1>11. ASSUME NEW t \in Callers, PushEvent(t) PROVE LockInv'
  BY <1>11 DEF PushEvent, Goto, uiVars, flags
<1>12. ASSUME NEW t \in Callers, CondWait(t) PROVE LockInv'
  BY <1>12 DEF CondWait, Goto, uiVars, locks, flags
<1>13. ASSUME NEW t \in Callers, WaitGivesUp(t) PROVE LockInv'
  BY <1>13 DEF WaitGivesUp, Goto, uiVars, locks, flags
<1>14. ASSUME NEW t \in Callers, Woken(t) PROVE LockInv'
  BY <1>14 DEF Woken, Goto, uiVars, locks, flags
<1>15. ASSUME NEW t \in Callers, CallUnlock(t) PROVE LockInv'
  BY <1>15 DEF CallUnlock, AfterCallEx, Goto, uiVars, flags
<1>16. ASSUME NEW t \in Callers, WtxUnlock(t) PROVE LockInv'
  BY <1>16 DEF WtxUnlock, Goto, uiVars, flags
<1>17. ASSUME NEW t \in Callers, ScallUnlock(t) PROVE LockInv'
  BY <1>17 DEF ScallUnlock, Goto, uiVars, flags
<1>18. ASSUME NEW t \in Callers, NEW f \in JsFuncs, SyncCallsBack(t, f)
       PROVE LockInv'
  BY <1>18 DEF SyncCallsBack, Begin, Goto, uiVars, locks, flags
<1>19. ASSUME UiPoll PROVE LockInv'
  BY <1>19 DEF UiPoll, callerVars, locks, flags
<1>20. ASSUME UiExit PROVE LockInv'
  BY <1>20 DEF UiExit, callerVars, locks, flags
<1>21. ASSUME UiPop PROVE LockInv'
  BY <1>21 DEF UiPop, callerVars, locks, flags
<1>22. ASSUME UiPopsNothing PROVE LockInv'
  BY <1>22 DEF UiPopsNothing, callerVars, locks, flags
<1>23. ASSUME UiExec PROVE LockInv'
  BY <1>23 DEF UiExec, callerVars, locks, flags
<1>24. ASSUME UiSignal PROVE LockInv'
  BY <1>24 DEF UiSignal, WaitSet, Goto, locks, flags
<1>25. ASSUME UiLockWtx PROVE LockInv'
  BY <1>25 DEF UiLockWtx, callerVars, flags
<1>26. ASSUME UiFreeWtx PROVE LockInv'
  BY <1>26 DEF UiFreeWtx, callerVars, flags
<1>27. ASSUME UiUnlockTa PROVE LockInv'
  BY <1>27 DEF UiUnlockTa, callerVars, flags
<1>28. ASSUME SwitchVideo PROVE LockInv'
  BY <1>28 DEF SwitchVideo, callerVars, uiVars, locks
<1>29. ASSUME QuitEvent PROVE LockInv'
  BY <1>29 DEF QuitEvent, callerVars, uiVars, locks
<1>30. ASSUME UNCHANGED vars PROVE LockInv'
  BY <1>30 DEF vars, callerVars, uiVars, locks, flags
<1> QED
  BY <1>1, <1>2, <1>3, <1>4, <1>5, <1>6, <1>7, <1>8, <1>9, <1>10, <1>11,
     <1>12, <1>13, <1>14, <1>15, <1>16, <1>17, <1>18, <1>19, <1>20, <1>21,
     <1>22, <1>23, <1>24, <1>25, <1>26, <1>27, <1>28, <1>29, <1>30
     DEF Next, StartCall, CallerStep, UiStep

\* The three mutexes of a call exclude every other caller, and freeWtx, for as
\* long as the code between lock and unlock runs.
THEOREM LocksExclude == Spec => []LockDiscipline
<1>1. Init => TypeInv /\ LockInv
  BY TypeInit, LockInit
<1>2. TypeInv /\ LockInv /\ [Next]_vars => (TypeInv /\ LockInv)'
  BY TypeStep, LockStep
<1>3. TypeInv /\ LockInv => LockDiscipline
  BY DEF LockInv
<1> QED
  BY <1>1, <1>2, <1>3, PTL DEF Spec

-----------------------------------------------------------------------------
(***************************************************************************)
(* Contexts.                                                               *)
(***************************************************************************)

\* What has become of a context is what the place of its caller and of the UI
\* loop says.
PlacesOK ==
  /\ \A t \in Callers :
       pc[t] \in {"callLock", "dispatch"} /\ kind[t] = "wtx"
         => wst[ctx[t]] = "held"
  /\ uiPc = "exec" => wst[uiWtx] = IF uiEv.wtx THEN "running" ELSE "lost"
  /\ uiPc = "signal" => wst[uiWtx] = IF uiEv.wtx THEN "done" ELSE "lost"
  /\ uiPc \in {"free", "freeing"} => wst[uiWtx] = "done"

ContextInv == ContextOwnedOnce /\ CallerKeepsContext /\ PlacesOK

\* An insert adds one element at the end; a pop returns the rest, with the last
\* element, if there is one, in the place of the first.
LEMMA InsertElements ==
  ASSUME NEW q \in Seq(Wtxs), NEW w \in Wtxs
  PROVE  /\ Len(Insert(q, w)) = Len(q) + 1
         /\ \A i \in 1..Len(q) : Insert(q, w)[i] = q[i]
         /\ Insert(q, w)[Len(q) + 1] = w
BY DEF Insert

LEMMA PopElements ==
  ASSUME NEW q \in Seq(Wtxs), q # <<>>
  PROVE  /\ Len(PopRest(q)) = Len(q) - 1
         /\ \A i \in 1..Len(PopRest(q)) :
              PopRest(q)[i] = IF i = 1 THEN q[Len(q)] ELSE q[i]
<1>1. Len(q) - 1 \in Nat /\ DOMAIN PopRest(q) = 1..(Len(q) - 1)
  BY DEF PopRest
<1>2. Len(PopRest(q)) = Len(q) - 1
  BY <1>1, QueueTypes
<1> QED
  BY <1>2 DEF PopRest

LEMMA ContextInit == Init => ContextInv
<1> SUFFICES ASSUME Init PROVE ContextInv
  OBVIOUS
<1>1. ContextOwnedOnce
  BY DEF Init, ContextOwnedOnce
<1>2. CallerKeepsContext /\ PlacesOK
  BY DEF Init, CallerKeepsContext, PlacesOK, InCallWtx, InCallEx
<1> QED
  BY <1>1, <1>2 DEF ContextInv

LEMMA ContextStep == TypeInv /\ LockInv /\ ContextInv /\ [Next]_vars => ContextInv'
<1> SUFFICES ASSUME TypeInv, LockInv, ContextInv, [Next]_vars PROVE ContextInv'
  OBVIOUS
<1> USE ThreadsAssumption DEF TypeInv, TypeOK, KindsOK, ReferencesOK,
       LockInv, LockDiscipline, ContextInv, ContextOwnedOnce,
       CallerKeepsContext, PlacesOK, CallerPcs, Callers, InCallWtx, InCallEx
<1>1. ASSUME NEW f \in JsFuncs, Scall(f) PROVE ContextInv'
  BY <1>1 DEF Scall, Begin, Goto, uiVars, locks, flags
<1>2. ASSUME NEW f \in JsFuncs, CallSync(f) PROVE ContextInv'
  BY <1>2 DEF CallSync, Begin, Goto, uiVars, locks, flags
<1>3. ASSUME NEW t \in VideoThreads, NEW f \in VideoFuncs, CallWithData(t, f)
      PROVE  ContextInv'
  BY <1>3 DEF CallWithData, Begin, Goto, uiVars, locks, flags
<1>4. ASSUME NEW t \in Callers, ScallLock(t) PROVE ContextInv'
  BY <1>4 DEF ScallLock, Goto, uiVars, flags
<1>5. ASSUME NEW t \in Callers, CallWtx(t) PROVE ContextInv'
  BY <1>5 DEF CallWtx, Goto, uiVars, flags
<1>6. ASSUME NEW t \in Callers, CallLock(t) PROVE ContextInv'
  BY <1>6 DEF CallLock, Goto, uiVars, flags
<1>7. ASSUME NEW t \in Callers, DispatchThreaded(t) PROVE ContextInv'
  <2>1. CASE CarriesContext(kind[t])
    <3>1. InCallWtx(t) /\ wst[ctx[t]] = "held" /\ ctx[t] \in Wtxs
      BY <1>7, <2>1 DEF DispatchThreaded, CarriesContext
    <3>2. queue' = Insert(queue, ctx[t])
          /\ wst' = [wst EXCEPT ![ctx[t]] = "queued"]
      BY <1>7, <2>1 DEF DispatchThreaded
    <3>3. \A i \in 1..Len(queue) : queue[i] # ctx[t]
      BY <3>1
    <3>4. /\ Len(queue') = Len(queue) + 1
          /\ \A i \in 1..Len(queue) : queue'[i] = queue[i]
          /\ queue'[Len(queue) + 1] = ctx[t]
      BY <3>1, <3>2, InsertElements
    <3>5. /\ \A i \in 1..Len(queue) : queue[i] \in Wtxs
          /\ \A i \in 1..Len(queue') :
               i \in 1..Len(queue) \/ i = Len(queue) + 1
      BY <3>4
    <3>6. \A i, j \in 1..Len(queue') : queue'[i] = queue'[j] => i = j
      <4>1. SUFFICES ASSUME NEW i \in 1..Len(queue'), NEW j \in 1..Len(queue'),
                            queue'[i] = queue'[j]
                     PROVE  i = j
        OBVIOUS
      <4>2. CASE i \in 1..Len(queue) /\ j \in 1..Len(queue)
        BY <3>4, <4>1, <4>2
      <4>3. CASE i = Len(queue) + 1 \/ j = Len(queue) + 1
        BY <3>3, <3>4, <3>5, <4>1, <4>3
      <4> QED
        BY <3>5, <4>2, <4>3
    <3>7. \A i \in 1..Len(queue') : wst'[queue'[i]] = "queued"
      BY <3>1, <3>2, <3>4, <3>5
    <3>8. ContextOwnedOnce'
      BY <1>7, <3>1, <3>2, <3>6, <3>7 DEF DispatchThreaded, uiVars
    <3>9. CallerKeepsContext' /\ PlacesOK'
      BY <1>7, <3>1, <3>2 DEF DispatchThreaded, Goto, uiVars, locks, flags
    <3> QED
      BY <3>8, <3>9
  <2>2. CASE ~CarriesContext(kind[t])
    BY <1>7, <2>2 DEF DispatchThreaded, Goto, uiVars, locks, flags,
                     CarriesContext
  <2> QED
    BY <2>1, <2>2
<1>8. ASSUME NEW t \in Callers, DispatchSync(t) PROVE ContextInv'
  BY <1>8 DEF DispatchSync, Goto, uiVars, locks, flags
<1>9. ASSUME NEW t \in Callers, DispatchUnregistered(t) PROVE ContextInv'
  BY <1>9 DEF DispatchUnregistered, AfterCallEx, Goto, uiVars, locks, flags
<1>10. ASSUME NEW t \in Callers, SyncReturns(t) PROVE ContextInv'
  BY <1>10 DEF SyncReturns, Goto, uiVars, locks, flags
<1>11. ASSUME NEW t \in Callers, PushEvent(t) PROVE ContextInv'
  BY <1>11 DEF PushEvent, Goto, uiVars, flags
<1>12. ASSUME NEW t \in Callers, CondWait(t) PROVE ContextInv'
  BY <1>12 DEF CondWait, Goto, uiVars, locks, flags
<1>13. ASSUME NEW t \in Callers, WaitGivesUp(t) PROVE ContextInv'
  BY <1>13 DEF WaitGivesUp, Goto, uiVars, locks, flags
<1>14. ASSUME NEW t \in Callers, Woken(t) PROVE ContextInv'
  BY <1>14 DEF Woken, Goto, uiVars, locks, flags
<1>15. ASSUME NEW t \in Callers, CallUnlock(t) PROVE ContextInv'
  BY <1>15 DEF CallUnlock, AfterCallEx, Goto, uiVars, flags
<1>16. ASSUME NEW t \in Callers, WtxUnlock(t) PROVE ContextInv'
  BY <1>16 DEF WtxUnlock, Goto, uiVars, flags
<1>17. ASSUME NEW t \in Callers, ScallUnlock(t) PROVE ContextInv'
  BY <1>17 DEF ScallUnlock, Goto, uiVars, flags
<1>18. ASSUME NEW t \in Callers, NEW f \in JsFuncs, SyncCallsBack(t, f)
       PROVE  ContextInv'
  BY <1>18 DEF SyncCallsBack, Begin, Goto, uiVars, locks, flags
<1>19. ASSUME UiPoll PROVE ContextInv'
  BY <1>19 DEF UiPoll, callerVars, locks, flags
<1>20. ASSUME UiExit PROVE ContextInv'
  BY <1>20 DEF UiExit, callerVars, locks, flags
<1>21. ASSUME UiPop PROVE ContextInv'
  <2>1. queue # <<>> /\ queue[1] \in Wtxs /\ wst[queue[1]] = "queued"
    BY <1>21, QueueTypes DEF UiPop
  <2>2. /\ queue' = PopRest(queue) /\ uiWtx' = queue[1] /\ uiPc' = "exec"
        /\ wst' = [wst EXCEPT ![queue[1]] =
                     IF uiEv.wtx THEN "running" ELSE "lost"]
        /\ UNCHANGED <<pc, kind, ctx, uiEv, wtxMutex, callMutex, scallMutex>>
    BY <1>21 DEF UiPop, callerVars, locks, flags
  <2>3. uiPc = "pop"
    BY <1>21 DEF UiPop
  <2>4. \A i, j \in 1..Len(queue') : queue'[i] = queue'[j] => i = j
    BY <2>1, <2>2, PopElements
  <2>5. \A i \in 1..Len(queue') : queue'[i] # queue[1]
                                 /\ wst[queue'[i]] = "queued"
    BY <2>1, <2>2, PopElements
  <2>6. \A i \in 1..Len(queue') : queue'[i] \in Wtxs
    BY <2>1, <2>2, QueueTypes
  <2>7. \A w \in Wtxs : w # queue[1] => wst'[w] = wst[w]
    BY <2>2
  <2>8. ContextOwnedOnce'
    BY <2>1, <2>2, <2>3, <2>4, <2>5, <2>6, <2>7
  <2>9. CallerKeepsContext' /\ PlacesOK'
    BY <2>1, <2>2, <2>3, <2>7
  <2> QED
    BY <2>8, <2>9
<1>22. ASSUME UiPopsNothing PROVE ContextInv'
  BY <1>22 DEF UiPopsNothing, callerVars, locks, flags
<1>23. ASSUME UiExec PROVE ContextInv'
  BY <1>23 DEF UiExec, callerVars, locks, flags
<1>24. ASSUME UiSignal PROVE ContextInv'
  BY <1>24 DEF UiSignal, WaitSet, Goto, locks, flags
<1>25. ASSUME UiLockWtx PROVE ContextInv'
  BY <1>25 DEF UiLockWtx, callerVars, flags
<1>26. ASSUME UiFreeWtx PROVE ContextInv'
  BY <1>26 DEF UiFreeWtx, callerVars, flags
<1>27. ASSUME UiUnlockTa PROVE ContextInv'
  BY <1>27 DEF UiUnlockTa, callerVars, flags
<1>28. ASSUME SwitchVideo PROVE ContextInv'
  BY <1>28 DEF SwitchVideo, callerVars, uiVars, locks
<1>29. ASSUME QuitEvent PROVE ContextInv'
  BY <1>29 DEF QuitEvent, callerVars, uiVars, locks
<1>30. ASSUME UNCHANGED vars PROVE ContextInv'
  BY <1>30 DEF vars, callerVars, uiVars, locks, flags
<1> QED
  BY <1>1, <1>2, <1>3, <1>4, <1>5, <1>6, <1>7, <1>8, <1>9, <1>10, <1>11,
     <1>12, <1>13, <1>14, <1>15, <1>16, <1>17, <1>18, <1>19, <1>20, <1>21,
     <1>22, <1>23, <1>24, <1>25, <1>26, <1>27, <1>28, <1>29, <1>30
     DEF Next, StartCall, CallerStep, UiStep

\* A context is run once and freed once, whatever the order in which callers,
\* the queue and the UI loop come to it.
THEOREM OwnedOnce == Spec => []ContextOwnedOnce
<1>1. Init => TypeInv /\ LockInv /\ ContextInv
  BY TypeInit, LockInit, ContextInit
<1>2. TypeInv /\ LockInv /\ ContextInv /\ [Next]_vars
        => (TypeInv /\ LockInv /\ ContextInv)'
  BY TypeStep, LockStep, ContextStep
<1>3. TypeInv /\ LockInv /\ ContextInv => ContextOwnedOnce
  BY DEF ContextInv
<1> QED
  BY <1>1, <1>2, <1>3, PTL DEF Spec

\* The context of a call is not freed while its caller is inside callWtx.
THEOREM KeepsContext == Spec => []CallerKeepsContext
<1>1. Init => TypeInv /\ LockInv /\ ContextInv
  BY TypeInit, LockInit, ContextInit
<1>2. TypeInv /\ LockInv /\ ContextInv /\ [Next]_vars
        => (TypeInv /\ LockInv /\ ContextInv)'
  BY TypeStep, LockStep, ContextStep
<1>3. TypeInv /\ LockInv /\ ContextInv => CallerKeepsContext
  BY DEF ContextInv
<1> QED
  BY <1>1, <1>2, <1>3, PTL DEF Spec
-----------------------------------------------------------------------------
(***************************************************************************)
(* The lengths of the two queues.                                          *)
(***************************************************************************)

\* The steps that neither put anything on a queue nor take anything off, nor
\* come to the push or leave it.
Quiet ==
  /\ queue' = queue /\ events' = events
  /\ uiPc' = "pop" <=> uiPc = "pop"
  /\ \A t \in Callers : InPush(t)' <=> InPush(t)

CountInv == QueueCovered /\ QueuesPaired

\* The two summands of the covering that are not lengths.
Popping == IF uiPc = "pop" THEN 1 ELSE 0
Pushing == IF \E t \in Callers : InPush(t) THEN 1 ELSE 0

LEMMA CountForm ==
  CountInv <=> /\ Len(queue) <= Len(events) + Popping + Pushing
               /\ VideoThreads = {}
                    => Len(queue) = Len(events) + Popping + Pushing
BY DEF CountInv, QueueCovered, QueuesPaired, Popping, Pushing

LEMMA CountFormPrime ==
  CountInv' <=> /\ Len(queue') <= Len(events') + Popping' + Pushing'
                /\ VideoThreads = {}
                     => Len(queue') = Len(events') + Popping' + Pushing'
BY DEF CountInv, QueueCovered, QueuesPaired, Popping, Pushing

LEMMA CountInit == Init => CountInv
BY DEF Init, CountInv, QueueCovered, QueuesPaired, InPush

LEMMA CountQuiet == CountInv /\ Quiet => CountInv'
BY DEF CountInv, Quiet, QueueCovered, QueuesPaired

LEMMA QuietSteps ==
  TypeInv /\ [Next]_vars =>
    \/ Quiet \/ UiPoll \/ UiPop \/ UiPopsNothing
    \/ \E t \in Callers : DispatchThreaded(t) \/ PushEvent(t)
<1> SUFFICES ASSUME TypeInv, [Next]_vars,
                    ~(UiPoll \/ UiPop \/ UiPopsNothing),
                    \A t \in Callers : ~DispatchThreaded(t) /\ ~PushEvent(t)
             PROVE  Quiet
  OBVIOUS
<1> USE DEF TypeInv, TypeOK, Callers, Quiet, InPush
<1>1. ASSUME NEW f \in JsFuncs, Scall(f) PROVE Quiet
  BY <1>1 DEF Scall, Begin, Goto, uiVars
<1>2. ASSUME NEW f \in JsFuncs, CallSync(f) PROVE Quiet
  BY <1>2 DEF CallSync, Begin, Goto, uiVars
<1>3. ASSUME NEW t \in VideoThreads, NEW f \in VideoFuncs, CallWithData(t, f)
      PROVE Quiet
  BY <1>3 DEF CallWithData, Begin, Goto, uiVars
<1>4. ASSUME NEW t \in Callers, ScallLock(t) PROVE Quiet
  BY <1>4 DEF ScallLock, Goto, uiVars
<1>5. ASSUME NEW t \in Callers, CallWtx(t) PROVE Quiet
  BY <1>5 DEF CallWtx, Goto, uiVars
<1>6. ASSUME NEW t \in Callers, CallLock(t) PROVE Quiet
  BY <1>6 DEF CallLock, Goto, uiVars
<1>7. ASSUME NEW t \in Callers, DispatchSync(t) PROVE Quiet
  BY <1>7 DEF DispatchSync, Goto, uiVars
<1>8. ASSUME NEW t \in Callers, DispatchUnregistered(t) PROVE Quiet
  BY <1>8 DEF DispatchUnregistered, Goto, AfterCallEx, uiVars
<1>9. ASSUME NEW t \in Callers, SyncReturns(t) PROVE Quiet
  BY <1>9 DEF SyncReturns, Goto, uiVars
<1>10. ASSUME NEW t \in Callers, CondWait(t) PROVE Quiet
  BY <1>10 DEF CondWait, Goto, uiVars
<1>11. ASSUME NEW t \in Callers, WaitGivesUp(t) PROVE Quiet
  BY <1>11 DEF WaitGivesUp, Goto, uiVars
<1>12. ASSUME NEW t \in Callers, Woken(t) PROVE Quiet
  BY <1>12 DEF Woken, Goto, uiVars
<1>13. ASSUME NEW t \in Callers, CallUnlock(t) PROVE Quiet
  BY <1>13 DEF CallUnlock, Goto, AfterCallEx, uiVars
<1>14. ASSUME NEW t \in Callers, WtxUnlock(t) PROVE Quiet
  BY <1>14 DEF WtxUnlock, Goto, uiVars
<1>15. ASSUME NEW t \in Callers, ScallUnlock(t) PROVE Quiet
  BY <1>15 DEF ScallUnlock, Goto, uiVars
<1>16. ASSUME NEW t \in Callers, NEW f \in JsFuncs, SyncCallsBack(t, f)
       PROVE Quiet
  BY <1>16 DEF SyncCallsBack, Begin, Goto, uiVars
<1>17. ASSUME UiExit PROVE Quiet
  BY <1>17 DEF UiExit, callerVars
<1>18. ASSUME UiExec PROVE Quiet
  BY <1>18 DEF UiExec, callerVars
<1>19. ASSUME UiSignal PROVE Quiet
  BY <1>19 DEF UiSignal, WaitSet, Goto
<1>20. ASSUME UiLockWtx PROVE Quiet
  BY <1>20 DEF UiLockWtx, callerVars
<1>21. ASSUME UiFreeWtx PROVE Quiet
  BY <1>21 DEF UiFreeWtx, callerVars
<1>22. ASSUME UiUnlockTa PROVE Quiet
  BY <1>22 DEF UiUnlockTa, callerVars
<1>23. ASSUME SwitchVideo PROVE Quiet
  BY <1>23 DEF SwitchVideo, callerVars, uiVars
<1>24. ASSUME QuitEvent PROVE Quiet
  BY <1>24 DEF QuitEvent, callerVars, uiVars
<1>25. ASSUME UNCHANGED vars PROVE Quiet
  BY <1>25 DEF vars, callerVars, uiVars
<1> QED
  BY <1>1, <1>2, <1>3, <1>4, <1>5, <1>6, <1>7, <1>8, <1>9, <1>10, <1>11,
     <1>12, <1>13, <1>14, <1>15, <1>16, <1>17, <1>18, <1>19, <1>20, <1>21,
     <1>22, <1>23, <1>24, <1>25
     DEF Next, StartCall, CallerStep, UiStep

\* One caller at a time is between the dispatch and the push.
LEMMA PushAlone ==
  ASSUME LockInv, NEW t \in Callers, pc[t] \in {"dispatch", "push"}
  PROVE  \A u \in Callers : u # t => ~InPush(u)
BY DEF LockInv, LockDiscipline, InCallEx, InPush

\* The lengths of what the queue operations return.
LEMMA QueueLengths ==
  ASSUME NEW q \in Seq(Wtxs)
  PROVE  /\ Len(q) \in Nat
         /\ \A w \in Wtxs : Len(Insert(q, w)) = Len(q) + 1
         /\ q # <<>> => Len(PopRest(q)) = Len(q) - 1
<1>1. Len(q) \in Nat /\ \A w \in Wtxs : Len(Insert(q, w)) = Len(q) + 1
  BY DEF Insert
<1>2. ASSUME q # <<>> PROVE Len(PopRest(q)) = Len(q) - 1
  <2>1. Len(q) - 1 \in Nat /\ Len(q) \in Nat
    BY <1>2
  <2>2. PopRest(q) \in [1..(Len(q) - 1) -> Wtxs]
    <3>1. \A i \in 1..(Len(q) - 1) : q[i] \in Wtxs /\ q[Len(q)] \in Wtxs
      BY <2>1
    <3> QED
      BY <2>1, <3>1 DEF PopRest
  <2>3. DOMAIN PopRest(q) = 1..(Len(q) - 1) /\ PopRest(q) \in Seq(Wtxs)
    BY <2>1, <2>2
  <2> QED
    BY <2>1, <2>3
<1> QED
  BY <1>1, <1>2

LEMMA CountStep == TypeInv /\ LockInv /\ CountInv /\ [Next]_vars => CountInv'
<1> SUFFICES ASSUME TypeInv, LockInv, CountInv, [Next]_vars PROVE CountInv'
  OBVIOUS
<1>1. /\ queue \in Seq(Wtxs) /\ events \in Seq(EventRec)
      /\ pc \in [Callers -> CallerPcs]
      /\ Len(queue) \in Nat /\ Len(events) \in Nat
  BY DEF TypeInv, TypeOK
<1>2. ASSUME NEW t \in Callers, DispatchThreaded(t) PROVE CountInv'
  <2>1. \A u \in Callers : ~InPush(u)
    BY <1>2, PushAlone DEF DispatchThreaded, InPush
  <2>2. uiPc' = uiPc /\ events' = events /\ kind' = kind
    BY <1>2 DEF DispatchThreaded, uiVars
  <2>3. pc' = [pc EXCEPT ![t] = "push"]
    BY <1>2 DEF DispatchThreaded, Goto
  <2>4. CASE CarriesContext(kind[t])
    <3>1. ctx[t] \in Wtxs
      BY <1>2, <2>4 DEF TypeInv, KindsOK, ReferencesOK, DispatchThreaded,
                        InCallWtx, InCallEx, CarriesContext
    <3>2. Len(queue') = Len(queue) + 1
      BY <1>1, <1>2, <2>4, <3>1, QueueLengths DEF DispatchThreaded
    <3>3. InPush(t)'
      BY <1>1, <2>2, <2>3, <2>4 DEF InPush, CarriesContext
    <3>4. Pushing = 0 /\ Pushing' = 1 /\ Popping' = Popping
      BY <2>1, <2>2, <3>3 DEF Pushing, Popping
    <3>5. Popping \in Nat
      BY DEF Popping
    <3> QED
      BY <1>1, <2>2, <3>2, <3>4, <3>5, CountForm, CountFormPrime
  <2>5. CASE ~CarriesContext(kind[t])
    <3>1. queue' = queue
      BY <1>2, <2>5 DEF DispatchThreaded
    <3>2. \A u \in Callers : ~InPush(u)'
      BY <1>1, <2>1, <2>2, <2>3, <2>5 DEF InPush, CarriesContext
    <3> QED
      BY <1>1, <2>1, <2>2, <3>1, <3>2 DEF CountInv, QueueCovered, QueuesPaired
  <2> QED
    BY <2>4, <2>5
<1>3. ASSUME NEW t \in Callers, PushEvent(t) PROVE CountInv'
  <2>1. \A u \in Callers : u # t => ~InPush(u)
    BY <1>3, PushAlone DEF PushEvent
  <2>2. /\ uiPc' = uiPc /\ queue' = queue /\ kind' = kind
        /\ pc' = [pc EXCEPT ![t] = "toWait"] /\ pc[t] = "push"
    BY <1>3 DEF PushEvent, uiVars, Goto
  <2>3. \A u \in Callers : ~InPush(u)'
    BY <1>1, <2>1, <2>2 DEF InPush, CarriesContext
  <2>4. CASE CarriesContext(kind[t])
    <3>1. kind[t] = "wtx" /\ fn[t] # RefreshTimer /\ fn[t] \in Threaded
      BY <2>2, <2>4, FuncsAssumption DEF TypeInv, KindsOK, CarriesContext
    <3>2. ~Dropped(kind[t], fn[t])
      BY <3>1 DEF Dropped
    <3>3. [wtx |-> CarriesContext(kind[t]), name |-> fn[t]] \in EventRec
      BY <2>4, <3>1 DEF EventRec
    <3>4. Len(events') = Len(events) + 1
      BY <1>1, <1>3, <3>2, <3>3 DEF PushEvent
    <3>5. InPush(t)
      BY <2>2, <2>4 DEF InPush
    <3>6. Pushing = 1 /\ Pushing' = 0 /\ Popping' = Popping
      BY <2>2, <2>3, <3>5 DEF Pushing, Popping
    <3>7. Popping \in Nat
      BY DEF Popping
    <3> QED
      BY <1>1, <2>2, <3>4, <3>6, <3>7, CountForm, CountFormPrime
  <2>5. CASE ~CarriesContext(kind[t])
    <3>1. \A u \in Callers : ~InPush(u)
      BY <2>1, <2>5 DEF InPush
    <3>2. events' = events \/ Len(events') = Len(events) + 1
      <4>1. events' = events
            \/ events' = Append(events, [wtx |-> FALSE, name |-> fn[t]])
        <5>1. CarriesContext(kind[t]) = FALSE
          BY <2>5 DEF CarriesContext
        <5> QED
          BY <1>3, <5>1 DEF PushEvent
      <4>2. [wtx |-> FALSE, name |-> fn[t]] \in EventRec
        BY <2>2 DEF TypeInv, KindsOK, EventRec
      <4> QED
        BY <1>1, <4>1, <4>2
    <3>3. VideoThreads = {} => events' = events
      BY <1>3, <2>5
         DEF TypeInv, TypeOK, KindsOK, Kinds, Callers,
             CarriesContext,
                        PushEvent, Dropped
    <3>4. Pushing = 0 /\ Pushing' = 0 /\ Popping' = Popping
      BY <2>2, <2>3, <3>1 DEF Pushing, Popping
    <3>5. Popping \in Nat
      BY DEF Popping
    <3> QED
      BY <1>1, <2>2, <3>2, <3>3, <3>4, <3>5, CountForm, CountFormPrime
  <2> QED
    BY <2>4, <2>5
<1>4. ASSUME UiPoll PROVE CountInv'
  <2>1. /\ queue' = queue /\ pc' = pc /\ kind' = kind
        /\ uiPc = "poll" /\ uiPc' = "pop"
    BY <1>4 DEF UiPoll, callerVars
  <2>2. Len(events') = Len(events) - 1
    BY <1>1, <1>4 DEF UiPoll
  <2>3. \A t \in Callers : InPush(t)' <=> InPush(t)
    BY <2>1 DEF InPush, CarriesContext
  <2> QED
    BY <1>1, <2>1, <2>2, <2>3 DEF CountInv, QueueCovered, QueuesPaired
<1>5. ASSUME UiPop PROVE CountInv'
  <2>1. /\ events' = events /\ pc' = pc /\ kind' = kind
        /\ uiPc = "pop" /\ uiPc' = "exec"
    BY <1>5 DEF UiPop, callerVars
  <2>2. Len(queue') = Len(queue) - 1
    BY <1>1, <1>5, QueueLengths DEF UiPop
  <2>3. \A t \in Callers : InPush(t)' <=> InPush(t)
    BY <2>1 DEF InPush, CarriesContext
  <2> QED
    BY <1>1, <2>1, <2>2, <2>3 DEF CountInv, QueueCovered, QueuesPaired
<1>6. ASSUME UiPopsNothing PROVE CountInv'
  <2>1. /\ events' = events /\ pc' = pc /\ kind' = kind /\ queue' = queue
        /\ uiPc = "pop" /\ uiPc' = "poll" /\ Len(queue) = 0
    BY <1>6 DEF UiPopsNothing, callerVars
  <2>2. \A t \in Callers : InPush(t)' <=> InPush(t)
    BY <2>1 DEF InPush, CarriesContext
  <2> QED
    BY <1>1, <2>1, <2>2 DEF CountInv, QueueCovered, QueuesPaired
<1> QED
  BY <1>2, <1>3, <1>4, <1>5, <1>6, QuietSteps, CountQuiet

\* A node of the priority queue has its event, which will pop it, for any
\* number of callers and with the threads of a video among them.
THEOREM NodesCovered == Spec => []QueueCovered
<1>1. Init => TypeInv /\ LockInv /\ CountInv
  BY TypeInit, LockInit, CountInit
<1>2. TypeInv /\ LockInv /\ CountInv /\ [Next]_vars
        => (TypeInv /\ LockInv /\ CountInv)'
  BY TypeStep, LockStep, CountStep
<1>3. TypeInv /\ LockInv /\ CountInv => QueueCovered
  BY DEF CountInv
<1> QED
  BY <1>1, <1>2, <1>3, PTL DEF Spec

\* Without video threads the two queues never get out of step.
THEOREM InStep == Spec => []QueuesPaired
<1>1. Init => TypeInv /\ LockInv /\ CountInv
  BY TypeInit, LockInit, CountInit
<1>2. TypeInv /\ LockInv /\ CountInv /\ [Next]_vars
        => (TypeInv /\ LockInv /\ CountInv)'
  BY TypeStep, LockStep, CountStep
<1>3. TypeInv /\ LockInv /\ CountInv => QueuesPaired
  BY DEF CountInv
<1> QED
  BY <1>1, <1>2, <1>3, PTL DEF Spec
-----------------------------------------------------------------------------
(***************************************************************************)
(* The refinement of CallService.                                          *)
(***************************************************************************)

\* Without video threads every event is that of a call with a context.
AllWtx ==
  /\ \A i \in 1..Len(events) : events[i].wtx
  /\ uiPc \in {"pop", "exec", "signal"} => uiEv.wtx

\* eventFilter drops the event of a STR call, and nobody makes a PTR call.
LEMMA AllWtxStep ==
  ASSUME VideoThreads = {}, TypeInv, AllWtx, [Next]_vars
  PROVE  AllWtx'
<1> USE DEF AllWtx
<1>1. ASSUME NEW t \in Callers, PushEvent(t) PROVE AllWtx'
  <2>1. events' = events \/ kind[t] = "wtx"
    BY <1>1 DEF PushEvent, Dropped, TypeInv, TypeOK, KindsOK, Kinds
  <2>2. CASE events' = events
    BY <1>1, <2>2 DEF PushEvent, uiVars
  <2>3. CASE kind[t] = "wtx" /\ events' # events
    <3>1. events' = Append(events, [wtx |-> TRUE, name |-> fn[t]])
      BY <1>1, <2>3 DEF PushEvent, CarriesContext
    <3>2. events \in Seq(EventRec)
      BY DEF TypeInv, TypeOK
    <3>3. \A i \in 1..Len(events') : events'[i].wtx
      BY <3>1, <3>2
    <3> QED
      BY <1>1, <3>3 DEF PushEvent, uiVars
  <2> QED
    BY <2>1, <2>2, <2>3
<1>2. ASSUME UiPoll PROVE AllWtx'
  <2>1. events \in Seq(EventRec) /\ events # <<>>
    BY <1>2 DEF UiPoll, TypeInv, TypeOK
  <2> QED
    BY <1>2, <2>1 DEF UiPoll
<1>3. ASSUME events' = events, uiEv' = uiEv,
             uiPc' \in {"pop", "exec", "signal"} => uiPc \in {"pop", "exec", "signal"}
      PROVE  AllWtx'
  BY <1>3
<1>4. CASE StartCall
  BY <1>3, <1>4 DEF StartCall, Scall, CallSync, CallWithData, Begin, uiVars
<1>5. ASSUME NEW t \in Callers, CallerStep(t) PROVE AllWtx'
  <2>1. CASE PushEvent(t)
    BY <1>1, <2>1
  <2>2. CASE ~PushEvent(t)
    <3>1. events' = events /\ uiVars' = uiVars
      BY <1>5, <2>2
         DEF CallerStep, ScallLock, CallWtx, CallLock, DispatchThreaded, DispatchSync,
             DispatchUnregistered, SyncReturns, CondWait, WaitGivesUp, Woken,
             CallUnlock, WtxUnlock, ScallUnlock
    <3> QED
      BY <1>3, <3>1 DEF uiVars
  <2> QED
    BY <2>1, <2>2
<1>6. ASSUME NEW t \in Callers, NEW f \in JsFuncs, SyncCallsBack(t, f) PROVE AllWtx'
  BY <1>3, <1>6 DEF SyncCallsBack, Begin, uiVars
<1>7. CASE UiStep
  <2>1. CASE UiPoll
    BY <1>2, <2>1
  <2>2. CASE ~UiPoll
    BY <1>3, <1>7, <2>2
       DEF UiStep, UiExit, UiPop, UiPopsNothing, UiExec, UiSignal, UiLockWtx,
           UiFreeWtx, UiUnlockTa
  <2> QED
    BY <2>1, <2>2
<1>8. CASE SwitchVideo \/ QuitEvent \/ UNCHANGED vars
  BY <1>3, <1>8 DEF SwitchVideo, QuitEvent, vars, uiVars
<1> QED
  BY <1>4, <1>5, <1>6, <1>7, <1>8 DEF Next

\* What the service sees of a step that touches one context, or none.
LEMMA StatusOf ==
  ASSUME NEW w \in Wtxs, NEW s, wst \in [Wtxs -> WtxStates], wst' = [wst EXCEPT ![w] = s]
  PROVE  AbstractStatus' =
           [AbstractStatus EXCEPT ![w] =
              CASE s \in {"queued", "running"} -> "submitted"
                [] s = "done" -> "executed"
                [] OTHER -> "idle"]
BY DEF AbstractStatus

\* The same for a context nobody waits for, and for steps that leave contexts alone.
LEMMA StatusIdle ==
  ASSUME NEW w \in Wtxs, NEW s \in {"unused", "held"}, wst \in [Wtxs -> WtxStates],
         wst' = [wst EXCEPT ![w] = s]
  PROVE  AbstractStatus' = [AbstractStatus EXCEPT ![w] = "idle"]
<1>1. CASE s = "unused"
  BY <1>1 DEF AbstractStatus
<1>2. CASE s = "held"
  BY <1>2 DEF AbstractStatus
<1> QED
  BY <1>1, <1>2

LEMMA StatusSame ==
  ASSUME wst' = wst
  PROVE  AbstractStatus' = AbstractStatus
BY DEF AbstractStatus

\* Each step is one of the service or changes nothing it sees: the insert is its
\* Submit, the end of the function Execute, freeWtx Reclaim.
LEMMA ServiceStep ==
  ASSUME VideoThreads = {}, TypeInv, LockInv, ContextInv, AllWtx, [Next]_vars
  PROVE  [Service!Next]_Service!vars
<1> USE DEF Service!vars
<1>1. wst \in [Wtxs -> WtxStates]
  BY DEF TypeInv, TypeOK
<1>2. ASSUME wst' = wst, quit' = quit PROVE UNCHANGED Service!vars
  BY <1>2, StatusSame
<1>3. CASE StartCall
  BY <1>2, <1>3 DEF StartCall, Scall, CallSync, CallWithData, Begin, flags
<1>4. ASSUME NEW t \in Callers, CallerStep(t) PROVE [Service!Next]_Service!vars
  <2>1. quit' = quit
    BY <1>4
       DEF CallerStep, ScallLock, CallWtx, CallLock, DispatchThreaded, DispatchSync,
           DispatchUnregistered, SyncReturns, PushEvent, CondWait, WaitGivesUp, Woken,
           CallUnlock, WtxUnlock, ScallUnlock, flags
  <2>2. CASE CallWtx(t)
    <3>1. PICK w \in Wtxs : wst[w] = "unused" /\ wst' = [wst EXCEPT ![w] = "held"]
      BY <2>2 DEF CallWtx
    <3>2. AbstractStatus' = [AbstractStatus EXCEPT ![w] = "idle"]
      BY <1>1, <3>1, StatusIdle
    <3>3. AbstractStatus' = AbstractStatus
      BY <3>1, <3>2 DEF AbstractStatus
    <3> QED
      BY <2>1, <3>3
  <2>3. CASE WtxUnlock(t)
    <3>1. CASE wst[ctx[t]] = "held"
      <4>1. ctx[t] \in Wtxs /\ wst' = [wst EXCEPT ![ctx[t]] = "unused"]
        BY <2>3, <3>1 DEF WtxUnlock, TypeInv, KindsOK, ReferencesOK, InCallWtx
      <4>2. AbstractStatus' = [AbstractStatus EXCEPT ![ctx[t]] = "idle"]
        BY <1>1, <4>1, StatusIdle
      <4>3. AbstractStatus' = AbstractStatus
        BY <3>1, <4>1, <4>2 DEF AbstractStatus
      <4> QED
        BY <2>1, <4>3
    <3>2. CASE wst[ctx[t]] # "held"
      BY <1>2, <2>1, <2>3, <3>2 DEF WtxUnlock
    <3> QED
      BY <3>1, <3>2
  <2>4. CASE DispatchThreaded(t) /\ CarriesContext(kind[t])
    <3>1. /\ ctx[t] \in Wtxs /\ wst[ctx[t]] = "held"
          /\ wst' = [wst EXCEPT ![ctx[t]] = "queued"]
      BY <2>4 DEF DispatchThreaded, CarriesContext, TypeInv, KindsOK, ReferencesOK,
                  InCallWtx, InCallEx, ContextInv, PlacesOK
    <3>2. AbstractStatus' = [AbstractStatus EXCEPT ![ctx[t]] = "submitted"]
      BY <1>1, <3>1, StatusOf
    <3>3. AbstractStatus[ctx[t]] = "idle"
      BY <3>1 DEF AbstractStatus
    <3>4. Service!Submit(ctx[t])
      BY <2>1, <3>2, <3>3 DEF Service!Submit, Service!Become
    <3> QED
      BY <3>1, <3>4 DEF Service!Next
  <2>5. CASE ~CallWtx(t) /\ ~WtxUnlock(t)
             /\ ~(DispatchThreaded(t) /\ CarriesContext(kind[t]))
    <3>1. wst' = wst
      BY <1>4, <2>5
         DEF CallerStep, ScallLock, CallLock, DispatchThreaded, DispatchSync,
             DispatchUnregistered, SyncReturns, PushEvent, CondWait, WaitGivesUp,
             Woken, CallUnlock, ScallUnlock
    <3> QED
      BY <1>2, <2>1, <3>1
  <2> QED
    BY <2>2, <2>3, <2>4, <2>5
<1>5. ASSUME NEW t \in Callers, NEW f \in JsFuncs, SyncCallsBack(t, f)
      PROVE  UNCHANGED Service!vars
  BY <1>2, <1>5 DEF SyncCallsBack, Begin, flags
<1>6. CASE UiPop
  <2>1. /\ queue[1] \in Wtxs /\ wst[queue[1]] = "queued" /\ quit' = quit
        /\ wst' = [wst EXCEPT ![queue[1]] = "running"]
    <3>1. queue \in Seq(Wtxs) /\ queue # <<>> /\ uiEv.wtx
      BY <1>6 DEF UiPop, AllWtx, TypeInv, TypeOK
    <3> QED
      BY <1>6, <3>1 DEF UiPop, flags, ContextInv, ContextOwnedOnce
  <2>2. AbstractStatus' = [AbstractStatus EXCEPT ![queue[1]] = "submitted"]
    BY <1>1, <2>1, StatusOf
  <2>3. AbstractStatus' = AbstractStatus
    BY <2>1, <2>2 DEF AbstractStatus
  <2> QED
    BY <2>1, <2>3
<1>7. CASE UiExec
  <2>1. /\ uiWtx \in Wtxs /\ wst[uiWtx] = "running" /\ quit' = quit
        /\ wst' = [wst EXCEPT ![uiWtx] = "done"]
        /\ \A v \in Wtxs : wst[v] # "done"
    BY <1>7 DEF UiExec, flags, AllWtx, TypeInv, ReferencesOK, ContextInv,
                ContextOwnedOnce, PlacesOK
  <2>2. AbstractStatus' = [AbstractStatus EXCEPT ![uiWtx] = "executed"]
    BY <1>1, <2>1, StatusOf
  <2>3. /\ AbstractStatus[uiWtx] = "submitted"
        /\ \A v \in Wtxs : AbstractStatus[v] # "executed"
    BY <2>1 DEF AbstractStatus
  <2>4. Service!Execute(uiWtx)
    BY <2>1, <2>2, <2>3 DEF Service!Execute, Service!Become
  <2> QED
    BY <2>1, <2>4 DEF Service!Next
<1>8. CASE UiFreeWtx
  <2>1. /\ uiWtx \in Wtxs /\ wst[uiWtx] = "done" /\ quit' = quit
        /\ wst' = [wst EXCEPT ![uiWtx] = "unused"]
    BY <1>8 DEF UiFreeWtx, flags, TypeInv, ReferencesOK, ContextInv, PlacesOK
  <2>2. AbstractStatus' = [AbstractStatus EXCEPT ![uiWtx] = "idle"]
    BY <1>1, <2>1, StatusIdle
  <2>3. AbstractStatus[uiWtx] = "executed"
    BY <2>1 DEF AbstractStatus
  <2>4. Service!Reclaim(uiWtx)
    BY <2>1, <2>2, <2>3 DEF Service!Reclaim, Service!Become
  <2> QED
    BY <2>1, <2>4 DEF Service!Next
<1>9. CASE UiStep /\ ~UiPop /\ ~UiExec /\ ~UiFreeWtx
  BY <1>2, <1>9
     DEF UiStep, UiPoll, UiExit, UiPopsNothing, UiSignal, UiLockWtx, UiUnlockTa, flags
<1>10. CASE QuitEvent
  BY <1>10, StatusSame DEF QuitEvent, Service!Next, Service!Stop
<1>11. CASE SwitchVideo \/ UNCHANGED vars
  BY <1>2, <1>11 DEF SwitchVideo, vars, flags
<1> QED
  BY <1>3, <1>4, <1>5, <1>6, <1>7, <1>8, <1>9, <1>10, <1>11 DEF Next

\* Without video threads the call core does nothing that CallService does not
\* allow, for any number of contexts in flight.  Its progress is checked with
\* ImplementsService.
THEOREM ImplementsSafely ==
  ASSUME VideoThreads = {}
  PROVE  Spec => Service!SafeSpec
<1> DEFINE Inv == TypeInv /\ LockInv /\ ContextInv /\ AllWtx
<1>1. Init => Inv
  <2>1. Init => AllWtx
    BY DEF Init, AllWtx
  <2> QED
    BY <2>1, TypeInit, LockInit, ContextInit
<1>2. Inv /\ [Next]_vars => Inv'
  BY TypeStep, LockStep, ContextStep, AllWtxStep
<1>3. Init => Service!Init
  BY DEF Init, Service!Init, AbstractStatus
<1>4. Inv /\ [Next]_vars => [Service!Next]_Service!vars
  BY ServiceStep
<1> QED
  BY <1>1, <1>2, <1>3, <1>4, PTL DEF Spec, Service!SafeSpec
-----------------------------------------------------------------------------
(***************************************************************************)
(* What a signal means.                                                    *)
(***************************************************************************)

\* An event that is not of a call with a context has the name of a function
\* that only the ffplay threads call.
NamesOK ==
  /\ \A t \in Callers : kind[t] = "ptr" => fn[t] \in VideoFuncs
  /\ \A i \in 1..Len(events) : events[i].wtx \/ events[i].name \in VideoFuncs
  /\ uiPc \in {"pop", "exec", "signal"} => uiEv.wtx \/ uiEv.name \in VideoFuncs

\* eventFilter drops the event of a STR call, so that only PTR calls push one
\* without a context.
LEMMA NamesStep ==
  ASSUME TypeInv, NamesOK, [Next]_vars
  PROVE  NamesOK'
<1> USE DEF NamesOK
<1>0. /\ fn \in [Callers -> Funcs] /\ kind \in [Callers -> Kinds]
      /\ events \in Seq(EventRec)
  BY DEF TypeInv, TypeOK
<1>1. ASSUME NEW t \in Callers, PushEvent(t) PROVE NamesOK'
  <2>1. events' = events \/ kind[t] = "wtx" \/ fn[t] \in VideoFuncs
    BY <1>0, <1>1 DEF PushEvent, Dropped, TypeInv, KindsOK, Kinds
  <2>2. CASE events' = events
    BY <1>1, <2>2 DEF PushEvent, uiVars
  <2>3. CASE events' # events
    <3>1. events' = Append(events, [wtx |-> CarriesContext(kind[t]), name |-> fn[t]])
      BY <1>1, <2>3 DEF PushEvent
    <3>2. CarriesContext(kind[t]) \/ fn[t] \in VideoFuncs
      BY <2>1, <2>3 DEF CarriesContext
    <3>3. \A i \in 1..Len(events') : events'[i].wtx \/ events'[i].name \in VideoFuncs
      BY <1>0, <3>1, <3>2
    <3> QED
      BY <1>1, <3>3 DEF PushEvent, uiVars
  <2> QED
    BY <2>2, <2>3
<1>2. ASSUME UiPoll PROVE NamesOK'
  <2>1. events # <<>> /\ events' = Tail(events) /\ uiEv' = Head(events)
        /\ fn' = fn /\ kind' = kind
    BY <1>2 DEF UiPoll, callerVars
  <2>2. /\ uiEv' = events[1] /\ 1 \in 1..Len(events)
        /\ \A i \in 1..Len(events') : events'[i] = events[i + 1] /\ i + 1 \in 1..Len(events)
    BY <1>0, <2>1
  <2> QED
    BY <2>1, <2>2
<1>3. ASSUME events' = events, uiEv' = uiEv, fn' = fn, kind' = kind,
             uiPc' \in {"pop", "exec", "signal"} => uiPc \in {"pop", "exec", "signal"}
      PROVE  NamesOK'
  BY <1>3
<1>4. ASSUME NEW t \in Callers, NEW f \in Funcs, NEW k \in Kinds, NEW w, NEW label,
             Begin(t, f, k, w, label), k = "ptr" => f \in VideoFuncs
      PROVE  NamesOK'
  BY <1>0, <1>4 DEF Begin, uiVars
<1>5. CASE StartCall
  BY <1>4, <1>5, FuncsAssumption
     DEF StartCall, Scall, CallSync, CallWithData, JsFuncs, Funcs, Callers, Kinds
<1>6. ASSUME NEW t \in Callers, CallerStep(t) PROVE NamesOK'
  <2>1. CASE PushEvent(t)
    BY <1>1, <2>1
  <2>2. CASE ~PushEvent(t)
    BY <1>3, <1>6, <2>2
       DEF CallerStep, ScallLock, CallWtx, CallLock, DispatchThreaded, DispatchSync,
           DispatchUnregistered, SyncReturns, CondWait, WaitGivesUp, Woken,
           CallUnlock, WtxUnlock, ScallUnlock, uiVars
  <2> QED
    BY <2>1, <2>2
<1>7. ASSUME NEW t \in Callers, NEW f \in JsFuncs, SyncCallsBack(t, f) PROVE NamesOK'
  BY <1>4, <1>7 DEF SyncCallsBack, JsFuncs, Kinds
<1>8. CASE UiStep
  <2>1. CASE UiPoll
    BY <1>2, <2>1
  <2>2. CASE ~UiPoll
    BY <1>3, <1>8, <2>2
       DEF UiStep, UiExit, UiPop, UiPopsNothing, UiExec, UiSignal, UiLockWtx,
           UiFreeWtx, UiUnlockTa, callerVars
  <2> QED
    BY <2>1, <2>2
<1>9. CASE SwitchVideo \/ QuitEvent \/ UNCHANGED vars
  BY <1>3, <1>9 DEF SwitchVideo, QuitEvent, vars, uiVars, callerVars
<1> QED
  BY <1>5, <1>6, <1>7, <1>8, <1>9 DEF Next

\* A caller that has queued its context does not hold it any more.
SubmittedOK ==
  \A t \in Callers :
    pc[t] \in {"push", "toWait", "waiting", "woken"} /\ kind[t] = "wtx"
      => wst[ctx[t]] # "held"

\* The UI loop is between the signal and freeWtx when a caller has been woken,
\* and cannot go on: the caller holds wtxMutex.
WokenOK ==
  \A t \in Callers :
    pc[t] = "woken" /\ kind[t] = "wtx" => uiPc = "free" /\ uiEv.name = fn[t]

LEMMA WokenStep ==
  ASSUME TypeInv, LockInv, NamesOK, WokenOK, [Next]_vars
  PROVE  WokenOK'
<1>1. pc \in [Callers -> CallerPcs] /\ fn \in [Callers -> Funcs]
      /\ kind \in [Callers -> Kinds]
  BY DEF TypeInv, TypeOK
<1>2. ASSUME NEW t \in Callers, NEW label, label # "woken", Goto(t, label),
             \A s \in Callers \ {t} : fn'[s] = fn[s] /\ kind'[s] = kind[s],
             uiVars' = uiVars
      PROVE  WokenOK'
  <2>1. pc'[t] # "woken" /\ \A s \in Callers \ {t} : pc'[s] = pc[s]
    BY <1>1, <1>2 DEF Goto
  <2>2. uiPc' = uiPc /\ uiEv' = uiEv
    BY <1>2 DEF uiVars
  <2>3. ASSUME NEW s \in Callers, pc'[s] = "woken", kind'[s] = "wtx"
        PROVE  uiPc' = "free" /\ uiEv'.name = fn'[s]
    <3>1. s # t
      BY <2>1, <2>3
    <3> QED
      BY <1>2, <2>1, <2>2, <2>3, <3>1 DEF WokenOK
  <2> QED
    BY <2>3 DEF WokenOK
<1>3. ASSUME callerVars' = callerVars,
             uiPc = "free" => uiPc' = "free" /\ uiEv' = uiEv
      PROVE  WokenOK'
  BY <1>3 DEF WokenOK, callerVars
<1>4. ASSUME NEW t \in Callers, NEW f, NEW k, NEW w, NEW label, label # "woken",
             Begin(t, f, k, w, label)
      PROVE  WokenOK'
  <2>1. \A s \in Callers \ {t} : fn'[s] = fn[s] /\ kind'[s] = kind[s]
    BY <1>1, <1>4 DEF Begin
  <2> QED
    BY <1>2, <1>4, <2>1 DEF Begin
<1>5. CASE StartCall
  BY <1>4, <1>5 DEF StartCall, Scall, CallSync, CallWithData, Callers
<1>6. ASSUME NEW t \in Callers, CallerStep(t) PROVE WokenOK'
  <2>1. fn' = fn /\ kind' = kind /\ uiVars' = uiVars
    BY <1>6
       DEF CallerStep, ScallLock, CallWtx, CallLock, DispatchThreaded, DispatchSync,
           DispatchUnregistered, SyncReturns, PushEvent, CondWait, WaitGivesUp, Woken,
           CallUnlock, WtxUnlock, ScallUnlock
  <2>2. \E label \in CallerPcs : label # "woken" /\ Goto(t, label)
    BY <1>6
       DEF CallerStep, ScallLock, CallWtx, CallLock, DispatchThreaded, DispatchSync,
           DispatchUnregistered, SyncReturns, PushEvent, CondWait, WaitGivesUp, Woken,
           CallUnlock, WtxUnlock, ScallUnlock, AfterCallEx, CallerPcs
  <2> QED
    BY <1>2, <2>1, <2>2
<1>7. ASSUME NEW t \in Callers, NEW f \in JsFuncs, SyncCallsBack(t, f) PROVE WokenOK'
  BY <1>4, <1>7 DEF SyncCallsBack
<1>8. CASE UiSignal
  <2>1. uiPc = "signal" /\ uiEv' = uiEv /\ fn' = fn /\ kind' = kind
        /\ uiPc' = IF uiEv.wtx THEN "free" ELSE "poll"
    BY <1>8 DEF UiSignal
  <2>2. ASSUME NEW t \in Callers, pc'[t] = "woken", kind'[t] = "wtx"
        PROVE  uiPc' = "free" /\ uiEv'.name = fn'[t]
    <3>1. pc[t] # "woken"
      BY <2>1, <2>2 DEF WokenOK
    <3>2. fn[t] = uiEv.name
      BY <1>1, <1>8, <2>2, <3>1 DEF UiSignal, WaitSet, Goto
    <3>3. fn[t] \notin VideoFuncs
      BY <2>1, <2>2 DEF TypeInv, KindsOK, JsFuncs
    <3> QED
      BY <2>1, <3>2, <3>3 DEF NamesOK
  <2> QED
    BY <2>2 DEF WokenOK
<1>9. CASE UiLockWtx
  <2>1. ASSUME NEW t \in Callers, pc[t] = "woken", kind[t] = "wtx" PROVE FALSE
    BY <1>9, <2>1, ThreadsAssumption
       DEF UiLockWtx, LockInv, LockDiscipline, InCallWtx, InCallEx
  <2>2. pc' = pc /\ kind' = kind
    BY <1>9 DEF UiLockWtx, callerVars
  <2> QED
    BY <2>1, <2>2 DEF WokenOK
<1>10. CASE UiStep /\ ~UiSignal /\ ~UiLockWtx
  BY <1>3, <1>10
     DEF UiStep, UiPoll, UiExit, UiPop, UiPopsNothing, UiExec, UiFreeWtx, UiUnlockTa
<1>11. CASE SwitchVideo \/ QuitEvent \/ UNCHANGED vars
  BY <1>3, <1>11 DEF SwitchVideo, QuitEvent, vars, uiVars
<1> QED
  BY <1>5, <1>6, <1>7, <1>8, <1>9, <1>10, <1>11 DEF Next

\* A context becomes held only when it is made, and the one of a call that is
\* under way is in use.
LEMMA SubmittedStep ==
  ASSUME TypeInv, LockInv, ContextInv, SubmittedOK, [Next]_vars
  PROVE  SubmittedOK'
<1> DEFINE Past == {"push", "toWait", "waiting", "woken"}
<1>1. /\ pc \in [Callers -> CallerPcs] /\ kind \in [Callers -> Kinds]
      /\ ctx \in [Callers -> Wtxs \cup {NoWtx}] /\ wst \in [Wtxs -> WtxStates]
  BY DEF TypeInv, TypeOK
<1>2. ASSUME NEW t \in Callers,
             pc'[t] \in Past /\ kind'[t] = "wtx" => wst'[ctx'[t]] # "held",
             \A s \in Callers \ {t} :
               pc'[s] = pc[s] /\ kind'[s] = kind[s] /\ ctx'[s] = ctx[s],
             \A w \in Wtxs : wst'[w] = "held" => wst[w] \in {"held", "unused"}
      PROVE  SubmittedOK'
  <2>1. ASSUME NEW s \in Callers, s # t, pc'[s] \in Past, kind'[s] = "wtx"
        PROVE  wst'[ctx'[s]] # "held"
    <3>1. ctx[s] \in Wtxs /\ wst[ctx[s]] # "unused" /\ wst[ctx[s]] # "held"
      BY <1>2, <2>1
         DEF TypeInv, ReferencesOK, ContextInv, CallerKeepsContext, SubmittedOK,
             InCallWtx, InCallEx
    <3> QED
      BY <1>2, <2>1, <3>1
  <2> QED
    BY <1>2, <2>1 DEF SubmittedOK
<1>3. ASSUME NEW t \in Callers, NEW f, NEW k, NEW w, NEW label, label \notin Past,
             Begin(t, f, k, w, label)
      PROVE  SubmittedOK'
  BY <1>1, <1>2, <1>3 DEF Begin, Goto
<1>4. CASE StartCall
  BY <1>3, <1>4 DEF StartCall, Scall, CallSync, CallWithData, Callers
<1>5. ASSUME NEW t \in Callers, NEW f \in JsFuncs, SyncCallsBack(t, f) PROVE SubmittedOK'
  BY <1>3, <1>5 DEF SyncCallsBack
<1>6. ASSUME NEW t \in Callers, NEW label,
             label \in Past => pc[t] \in Past, Goto(t, label),
             kind' = kind, ctx' = ctx, wst' = wst
      PROVE  SubmittedOK'
  BY <1>1, <1>2, <1>6 DEF Goto, SubmittedOK
<1>7. ASSUME NEW t \in Callers, CallerStep(t) PROVE SubmittedOK'
  <2>1. CASE CallWtx(t)
    <3>1. PICK w \in Wtxs : /\ wst[w] = "unused" /\ wst' = [wst EXCEPT ![w] = "held"]
                            /\ ctx' = [ctx EXCEPT ![t] = w]
      BY <2>1 DEF CallWtx
    <3>2. pc' = [pc EXCEPT ![t] = "callLock"] /\ kind' = kind
      BY <2>1 DEF CallWtx, Goto
    <3>3. pc'[t] \notin Past
      BY <1>1, <3>2
    <3>4. \A v \in Wtxs : wst'[v] = "held" => wst[v] \in {"held", "unused"}
      BY <1>1, <3>1
    <3> QED
      BY <1>1, <1>2, <3>1, <3>2, <3>3, <3>4
  <2>2. CASE DispatchThreaded(t)
    <3>1. pc' = [pc EXCEPT ![t] = "push"] /\ kind' = kind /\ ctx' = ctx
      BY <2>2 DEF DispatchThreaded, Goto
    <3>2. kind[t] = "wtx" => ctx[t] \in Wtxs /\ wst' = [wst EXCEPT ![ctx[t]] = "queued"]
      BY <2>2 DEF DispatchThreaded, CarriesContext, TypeInv, ReferencesOK, InCallWtx, InCallEx
    <3>3. kind[t] # "wtx" => wst' = wst
      BY <1>1, <2>2 DEF DispatchThreaded, CarriesContext, TypeInv, KindsOK
    <3>4. kind'[t] = "wtx" => wst'[ctx'[t]] # "held"
      BY <1>1, <3>1, <3>2
    <3>5. \A v \in Wtxs : wst'[v] = "held" => wst[v] \in {"held", "unused"}
      BY <1>1, <3>2, <3>3
    <3> QED
      BY <1>1, <1>2, <3>1, <3>4, <3>5
  <2>3. CASE WtxUnlock(t)
    <3>1. pc' = [pc EXCEPT ![t] = "scallUnlock"] /\ kind' = kind /\ ctx' = ctx
      BY <2>3 DEF WtxUnlock, Goto
    <3>2. \A v \in Wtxs : wst'[v] = "held" => wst[v] \in {"held", "unused"}
      BY <1>1, <2>3 DEF WtxUnlock
    <3>3. pc'[t] \notin Past
      BY <1>1, <3>1
    <3> QED
      BY <1>1, <1>2, <3>1, <3>2, <3>3
  <2>4. CASE ~CallWtx(t) /\ ~DispatchThreaded(t) /\ ~WtxUnlock(t)
    <3>1. kind' = kind /\ ctx' = ctx /\ wst' = wst
      BY <1>7, <2>4
         DEF CallerStep, ScallLock, CallLock, DispatchSync,
             DispatchUnregistered, SyncReturns, PushEvent, CondWait, WaitGivesUp, Woken,
             CallUnlock, ScallUnlock
    <3>2. \E label \in CallerPcs : Goto(t, label) /\ (label \in Past => pc[t] \in Past)
      BY <1>7, <2>4
         DEF CallerStep, ScallLock, CallLock, DispatchSync,
             DispatchUnregistered, SyncReturns, PushEvent, CondWait, WaitGivesUp, Woken,
             CallUnlock, ScallUnlock, AfterCallEx, CallerPcs
    <3> QED
      BY <1>6, <3>1, <3>2
  <2> QED
    BY <2>1, <2>2, <2>3, <2>4
<1>8. ASSUME callerVars' = callerVars,
             \A w \in Wtxs : wst'[w] = "held" => wst[w] = "held"
      PROVE  SubmittedOK'
  BY <1>2, <1>8
     DEF callerVars, SubmittedOK, TypeInv, ReferencesOK, InCallWtx, InCallEx
<1>9. CASE UiSignal
  <2>1. kind' = kind /\ ctx' = ctx /\ wst' = wst
    BY <1>9 DEF UiSignal
  <2>2. pc' = pc \/ \E t \in Callers : pc[t] = "waiting" /\ Goto(t, "woken")
    BY <1>9 DEF UiSignal, WaitSet
  <2>3. CASE pc' = pc
    BY <2>1, <2>3 DEF SubmittedOK
  <2> QED
    BY <1>6, <2>1, <2>2, <2>3
<1>10. CASE UiStep /\ ~UiSignal
  <2>1. callerVars' = callerVars
    BY <1>10
       DEF UiStep, UiPoll, UiExit, UiPop, UiPopsNothing, UiExec, UiLockWtx, UiFreeWtx,
           UiUnlockTa
  <2>2. wst' = wst \/ \E v \in Wtxs, s \in {"running", "lost", "done", "unused"} :
                        wst' = [wst EXCEPT ![v] = s]
    <3>1. queue # <<>> => queue[1] \in Wtxs
      BY DEF TypeInv, TypeOK
    <3> QED
      BY <1>10, <3>1
         DEF UiStep, UiPoll, UiExit, UiPop, UiPopsNothing, UiExec, UiLockWtx, UiFreeWtx,
             UiUnlockTa, TypeInv, ReferencesOK
  <2> QED
    BY <1>1, <1>8, <2>1, <2>2
<1>11. CASE SwitchVideo \/ QuitEvent \/ UNCHANGED vars
  BY <1>8, <1>11 DEF SwitchVideo, QuitEvent, vars
<1> QED
  BY <1>4, <1>5, <1>7, <1>9, <1>10, <1>11 DEF Next

\* A caller that a signal woke finds a call of its function's name executed: its
\* own, or an older one whose caller gave up, while its own is still untouched
\* (callEx returns without a look at what the signal was for).
THEOREM WokenIsDone == Spec => []WokenMeansDone
<1> DEFINE Inv == TypeInv /\ LockInv /\ ContextInv /\ NamesOK /\ WokenOK /\ SubmittedOK
<1>1. Init => Inv
  <2>1. Init => NamesOK /\ WokenOK /\ SubmittedOK
    BY DEF Init, NamesOK, WokenOK, SubmittedOK
  <2> QED
    BY <2>1, TypeInit, LockInit, ContextInit
<1>2. Inv /\ [Next]_vars => Inv'
  BY TypeStep, LockStep, ContextStep, NamesStep, WokenStep, SubmittedStep
<1>3. Inv => WokenMeansDone
  <2> SUFFICES ASSUME Inv, NEW t \in Callers, pc[t] = "woken", kind[t] = "wtx"
               PROVE  /\ uiPc = "free" /\ uiEv.name = fn[t] /\ wst[uiWtx] = "done"
                      /\ uiWtx = ctx[t] \/ wst[ctx[t]] \in {"queued", "lost"}
    BY DEF WokenMeansDone
  <2>1. uiPc = "free" /\ uiEv.name = fn[t] /\ wst[uiWtx] = "done"
    BY DEF WokenOK, ContextInv, PlacesOK
  <2>2. ctx[t] \in Wtxs /\ wst[ctx[t]] \notin {"unused", "held"}
    BY DEF TypeInv, ReferencesOK, ContextInv, CallerKeepsContext, SubmittedOK,
           InCallWtx, InCallEx
  <2>3. wst[ctx[t]] \in {"running", "done"} => uiWtx = ctx[t]
    BY <2>2 DEF ContextInv, ContextOwnedOnce
  <2> QED
    BY <2>1, <2>2, <2>3 DEF TypeInv, TypeOK, WtxStates
<1> QED
  BY <1>1, <1>2, <1>3, PTL DEF Spec
=============================================================================
