------------------------ MODULE Transactions_proofs ------------------------
(***************************************************************************)
(* The proof that transactions keep the contexts apart.  What is proved    *)
(* of the mutexes in CallBus_proofs is of no use here: the unlock of       *)
(* js_commitTransaction releases wtxMutex under the UI loop.  The argument *)
(* rests on the one thread that makes contexts.                            *)
(***************************************************************************)
EXTENDS Transactions, CallBus_proofs

TxTypes ==
  /\ pc \in [Callers -> CallerPcs] /\ kind \in [Callers -> Kinds]
  /\ ctx \in [Callers -> Wtxs \cup {NoWtx}]
  /\ queue \in Seq(Wtxs) /\ wst \in [Wtxs -> WtxStates]
  /\ uiWtx \in Wtxs \cup {NoWtx} /\ txWtx \in Wtxs \cup {NoWtx}

\* Where the context of a call and that of the transaction are: they are held
\* until they are queued, and never the same.
TxPlaces ==
  /\ pc[Js] \in {"scallLock", "wtxLock", "wtxUnlock", "scallUnlock"} => kind[Js] = "wtx"
  /\ InCallWtx(Js) => ctx[Js] \in Wtxs /\ ctx[Js] # txWtx
  /\ pc[Js] \in {"callLock", "dispatch"} /\ CarriesContext(kind[Js])
       => ctx[Js] \in Wtxs /\ wst[ctx[Js]] = "held"
  /\ pc[Js] \in {"callLock", "dispatch"} /\ kind[Js] = "commit"
       => txPhase = "committing"
  /\ pc[Js] # "idle" /\ kind[Js] = "wtx" => txPhase \in {"none", "open", "loop"}
  /\ txPhase = "none" => txWtx = NoWtx
  /\ txPhase \in {"open", "loop"} => txWtx \in Wtxs /\ wst[txWtx] = "held"

\* Where the context of the UI loop is.
UiPlaces ==
  /\ uiPc \in {"exec", "signal", "free", "freeing"} => uiWtx \in Wtxs
  /\ uiPc = "exec" => wst[uiWtx] = IF uiEv.wtx THEN "running" ELSE "lost"
  /\ uiPc = "signal" => wst[uiWtx] = IF uiEv.wtx THEN "done" ELSE "lost"
  /\ uiPc \in {"free", "freeing"} => wst[uiWtx] = "done"

TxInv == TxTypes /\ TxPlaces /\ UiPlaces /\ ContextOwnedOnce

\* No context is held at the start.
LEMMA TxInitHolds == TxInit => TxInv
<1> SUFFICES ASSUME TxInit PROVE TxInv
  OBVIOUS
<1>1. TxTypes
  BY DEF TxInit, Init, TxTypes, CallerPcs, Kinds, WtxStates
<1>2. TxPlaces /\ UiPlaces /\ ContextOwnedOnce
  BY DEF TxInit, Init, TxPlaces, UiPlaces, ContextOwnedOnce, InCallWtx, InCallEx, Callers
<1> QED
  BY <1>1, <1>2 DEF TxInv

\* The steps of the JavaScript thread outside a call.
LEMMA PhaseStep ==
  ASSUME TxInv, NewTransaction \/ TxStep
  PROVE  TxInv'
<1> USE DEF TxInv, TxTypes, TxPlaces, UiPlaces, ContextOwnedOnce, InCallWtx, InCallEx,
            JsAt, CarriesContext
<1>1. CASE NewTransaction
  <2>1. PICK w \in Wtxs : /\ wst[w] = "unused" /\ wst' = [wst EXCEPT ![w] = "held"]
                          /\ txWtx' = w
    BY <1>1 DEF NewTransaction
  <2>2. /\ UNCHANGED <<pc, kind, ctx, uiPc, uiEv, uiWtx, queue>> /\ pc[Js] = "idle"
    BY <1>1 DEF NewTransaction, callerVars, uiVars
  <2>3. TxTypes'
    BY <2>1, <2>2 DEF WtxStates
  <2>4. wst'[w] = "held" /\ \A v \in Wtxs : v # w => wst'[v] = wst[v]
    BY <2>1
  <2>5. TxPlaces'
    BY <1>1, <2>1, <2>2, <2>4 DEF NewTransaction
  <2>6. UiPlaces' /\ ContextOwnedOnce'
    BY <2>1, <2>2
  <2> QED
    BY <2>3, <2>5, <2>6
<1>2. CASE LockTransaction
  BY <1>2 DEF LockTransaction, callerVars, uiVars
<1>3. CASE CommitWtx
  BY <1>3 DEF CommitWtx, Begin, Goto, uiVars, Callers, CallerPcs, Kinds
<1>4. CASE UnlockWtxAfterCommit \/ ClearTransaction
  BY <1>4 DEF UnlockWtxAfterCommit, ClearTransaction, callerVars, uiVars
<1>5. CASE ClearElements
  BY <1>5 DEF ClearElements, callerVars, uiVars
<1> QED
  BY <1>1, <1>2, <1>3, <1>4, <1>5 DEF TxStep

\* The steps of a call.
LEMMA CallStep ==
  ASSUME TxInv, JsCall \/ CallerStep(Js), UNCHANGED txVars
  PROVE  TxInv'
<1> USE DEF TxInv, TxTypes, TxPlaces, UiPlaces, ContextOwnedOnce, InCallWtx, InCallEx,
            CarriesContext, Callers, CallerPcs, Kinds, txVars, Goto, uiVars
<1>1. CASE JsCall
  BY <1>1 DEF JsCall, Scall, CallSync, Begin
<1>2. CASE CallWtx(Js)
  <2>1. PICK w \in Wtxs : /\ wst[w] = "unused" /\ wst' = [wst EXCEPT ![w] = "held"]
                          /\ ctx' = [ctx EXCEPT ![Js] = w]
    BY <1>2 DEF CallWtx
  <2>2. /\ UNCHANGED <<kind, uiPc, uiEv, uiWtx, queue, txPhase, txWtx>>
        /\ pc' = [pc EXCEPT ![Js] = "callLock"] /\ kind[Js] = "wtx"
    BY <1>2 DEF CallWtx
  <2>3. w # txWtx
    BY <1>2, <2>1, <2>2, WtxAssumption DEF CallWtx
  <2>4. TxTypes'
    BY <2>1, <2>2 DEF WtxStates
  <2>5. TxPlaces'
    <3>1. /\ pc'[Js] = "callLock" /\ ctx'[Js] = w /\ wst'[w] = "held" /\ pc[Js] = "wtxLock"
          /\ \A v \in Wtxs : v # w => wst'[v] = wst[v]
      BY <1>2, <2>1, <2>2 DEF CallWtx
    <3> QED
      BY <2>2, <2>3, <3>1
  <2>6. UiPlaces' /\ ContextOwnedOnce'
    BY <2>1, <2>2
  <2> QED
    BY <2>4, <2>5, <2>6
<1>3. CASE DispatchThreaded(Js)
  <2>1. CASE CarriesContext(kind[Js])
    <3>1. /\ wst[ctx[Js]] = "held" /\ ctx[Js] \in Wtxs
          /\ queue' = Insert(queue, ctx[Js]) /\ wst' = [wst EXCEPT ![ctx[Js]] = "queued"]
          /\ pc' = [pc EXCEPT ![Js] = "push"]
          /\ UNCHANGED <<kind, ctx, uiPc, uiEv, uiWtx, txPhase, txWtx>>
      BY <1>3, <2>1 DEF DispatchThreaded
    <3>2. \A i \in 1..Len(queue) : queue[i] \in Wtxs /\ queue[i] # ctx[Js]
      BY <3>1
    <3>3. /\ Len(queue') = Len(queue) + 1
          /\ \A i \in 1..Len(queue) : queue'[i] = queue[i]
          /\ queue'[Len(queue) + 1] = ctx[Js] /\ queue' \in Seq(Wtxs)
          /\ 1..Len(queue') = 1..Len(queue) \cup {Len(queue) + 1}
      <4>1. Len(queue') = Len(queue) + 1 /\ Len(queue) \in Nat
        BY <3>1, InsertElements
      <4>2. 1..Len(queue') = 1..Len(queue) \cup {Len(queue) + 1}
        BY <4>1
      <4>3. Insert(queue, ctx[Js]) \in Seq(Wtxs)
        BY <3>1, QueueTypes
      <4>4. /\ \A i \in 1..Len(queue) : queue'[i] = queue[i]
            /\ queue'[Len(queue) + 1] = ctx[Js]
        BY <3>1, InsertElements
      <4> QED
        BY <3>1, <4>1, <4>2, <4>3, <4>4
    <3>4. \A i, j \in 1..Len(queue') : queue'[i] = queue'[j] => i = j
      BY <3>2, <3>3
    <3>5. \A i \in 1..Len(queue') : wst'[queue'[i]] = "queued"
      <4>1. \A i \in 1..Len(queue) : wst[queue[i]] = "queued"
        OBVIOUS
      <4>2. \A i \in 1..Len(queue) : wst'[queue[i]] = "queued"
        BY <3>1, <3>2, <4>1
      <4>3. wst'[ctx[Js]] = "queued"
        BY <3>1
      <4> QED
        BY <3>3, <4>2, <4>3
    <3>6. ContextOwnedOnce' /\ UiPlaces'
      BY <3>1, <3>4, <3>5
    <3>7. TxTypes'
      BY <3>1, <3>3 DEF WtxStates
    <3>8. txPhase \in {"open", "loop"} => txWtx # ctx[Js]
      BY <1>3, <2>1 DEF DispatchThreaded
    <3>9. TxPlaces'
      <4>1. \A w \in Wtxs : w # ctx[Js] => wst'[w] = wst[w]
        BY <3>1
      <4>2. txPhase' = txPhase /\ txWtx' = txWtx /\ pc'[Js] = "push" /\ kind' = kind
            /\ ctx' = ctx /\ pc[Js] = "dispatch"
        BY <1>3, <3>1 DEF DispatchThreaded
      <4> QED
        BY <3>8, <4>1, <4>2
    <3> QED
      BY <3>6, <3>7, <3>9
  <2>2. CASE ~CarriesContext(kind[Js])
    BY <1>3, <2>2 DEF DispatchThreaded
  <2> QED
    BY <2>1, <2>2
<1>4. CASE WtxUnlock(Js)
  <2>1. /\ ctx[Js] \in Wtxs /\ ctx[Js] # txWtx /\ pc' = [pc EXCEPT ![Js] = "scallUnlock"]
        /\ kind[Js] = "wtx"
        /\ UNCHANGED <<kind, ctx, uiPc, uiEv, uiWtx, queue, txPhase, txWtx>>
    BY <1>4 DEF WtxUnlock
  <2>2. CASE wst[ctx[Js]] = "held"
    <3>1. wst' = [wst EXCEPT ![ctx[Js]] = "unused"]
      BY <1>4, <2>2 DEF WtxUnlock
    <3>2. TxTypes'
      BY <2>1, <3>1 DEF WtxStates
    <3>3. /\ \A w \in Wtxs : w # ctx[Js] => wst'[w] = wst[w]
          /\ pc'[Js] = "scallUnlock" /\ pc[Js] = "wtxUnlock"
      BY <1>4, <2>1, <3>1 DEF WtxUnlock
    <3>4. TxPlaces'
      BY <2>1, <3>3
    <3>5. UiPlaces' /\ ContextOwnedOnce'
      BY <2>1, <2>2, <3>1
    <3> QED
      BY <3>2, <3>4, <3>5
  <2>3. CASE wst[ctx[Js]] # "held"
    BY <1>4, <2>1, <2>3 DEF WtxUnlock
  <2> QED
    BY <2>2, <2>3
<1>5. CASE ScallLock(Js) \/ CallLock(Js) \/ DispatchSync(Js) \/ SyncReturns(Js)
  BY <1>5 DEF ScallLock, CallLock, DispatchSync, SyncReturns
<1>6. CASE DispatchUnregistered(Js) \/ CallUnlock(Js)
  BY <1>6 DEF DispatchUnregistered, CallUnlock, AfterCallEx
<1>7. CASE PushEvent(Js) \/ CondWait(Js) \/ WaitGivesUp(Js) \/ Woken(Js) \/ ScallUnlock(Js)
  BY <1>7 DEF PushEvent, CondWait, WaitGivesUp, Woken, ScallUnlock
<1> QED
  BY <1>1, <1>2, <1>3, <1>4, <1>5, <1>6, <1>7 DEF CallerStep

\* A signal wakes one thread that waits, or none.
LEMMA SignalWakes ==
  ASSUME pc \in [Callers -> CallerPcs], UiSignal
  PROVE  /\ pc' \in [Callers -> CallerPcs]
         /\ pc'[Js] = pc[Js] \/ (pc[Js] = "waiting" /\ pc'[Js] = "woken")
<1>1. \/ pc' = pc
      \/ \E t \in Callers : pc[t] = "waiting" /\ pc' = [pc EXCEPT ![t] = "woken"]
  BY DEF UiSignal, WaitSet, Goto
<1>2. Js \in Callers /\ "woken" \in CallerPcs
  BY DEF Callers, CallerPcs
<1>3. ASSUME NEW t \in Callers, pc[t] = "waiting", pc' = [pc EXCEPT ![t] = "woken"]
      PROVE  /\ pc' \in [Callers -> CallerPcs]
             /\ pc'[Js] = pc[Js] \/ (pc[Js] = "waiting" /\ pc'[Js] = "woken")
  BY <1>2, <1>3
<1> QED
  BY <1>1, <1>3

\* The steps of the UI loop, which may lose wtxMutex at any of them.
LEMMA LoopStep ==
  ASSUME TxInv, UiStep, UNCHANGED txVars
  PROVE  TxInv'
<1> USE DEF TxInv, TxTypes, TxPlaces, UiPlaces, ContextOwnedOnce, InCallWtx, InCallEx,
            CarriesContext, Callers, CallerPcs, Kinds, txVars, callerVars
<1>1. CASE UiPoll \/ UiExit \/ UiPopsNothing \/ UiLockWtx \/ UiUnlockTa
  BY <1>1 DEF UiPoll, UiExit, UiPopsNothing, UiLockWtx, UiUnlockTa
<1>2. CASE UiPop
  <2>1. /\ queue # <<>> /\ queue[1] \in Wtxs /\ wst[queue[1]] = "queued" /\ uiPc = "pop"
        /\ queue' = PopRest(queue) /\ uiWtx' = queue[1] /\ uiPc' = "exec"
        /\ wst' = [wst EXCEPT ![queue[1]] = IF uiEv.wtx THEN "running" ELSE "lost"]
        /\ UNCHANGED <<pc, kind, ctx, uiEv, txPhase, txWtx>>
    BY <1>2, QueueTypes DEF UiPop
  <2>2. /\ \A i, j \in 1..Len(queue') : queue'[i] = queue'[j] => i = j
        /\ \A i \in 1..Len(queue') : queue'[i] # queue[1] /\ wst[queue'[i]] = "queued"
    BY <2>1, PopElements
  <2>3. queue' \in Seq(Wtxs)
    BY <2>1, QueueTypes
  <2>4. \A i \in 1..Len(queue') : queue'[i] \in Wtxs
    BY <2>3
  <2>5. \A w \in Wtxs : w # queue[1] => wst'[w] = wst[w]
    BY <2>1
  <2>6. wst' \in [Wtxs -> WtxStates]
    BY <2>1 DEF WtxStates
  <2>7. ContextOwnedOnce'
    BY <2>1, <2>2, <2>4, <2>5
  <2>8. TxTypes' /\ UiPlaces'
    BY <2>1, <2>3, <2>6
  <2>9. TxPlaces'
    BY <2>1, <2>5
  <2> QED
    BY <2>7, <2>8, <2>9
<1>3. CASE UiExec
  BY <1>3 DEF UiExec, WtxStates
<1>4. CASE UiSignal
  <2>1. /\ uiPc = "signal" /\ uiPc' = IF uiEv.wtx THEN "free" ELSE "poll"
        /\ UNCHANGED <<kind, ctx, uiEv, uiWtx, queue, wst, txPhase, txWtx>>
    BY <1>4 DEF UiSignal
  <2>2. uiPc' \in {"free", "poll"} /\ (uiPc' = "free" <=> uiEv.wtx)
    BY <2>1
  <2>3. pc' \in [Callers -> CallerPcs]
    BY <1>4, SignalWakes
  <2>4. pc'[Js] = pc[Js] \/ (pc[Js] = "waiting" /\ pc'[Js] = "woken")
    BY <1>4, SignalWakes
  <2>5. TxPlaces'
    BY <2>1, <2>2, <2>4
  <2>6. TxTypes'
    BY <2>1, <2>3
  <2>7. UiPlaces'
    BY <2>1, <2>2
  <2>8. ContextOwnedOnce'
    BY <2>1, <2>2
  <2> QED
    BY <2>5, <2>6, <2>7, <2>8
<1>5. CASE UiFreeWtx
  BY <1>5 DEF UiFreeWtx, WtxStates
<1> QED
  BY <1>1, <1>2, <1>3, <1>4, <1>5 DEF UiStep

\* Every step of a daemon with transactions keeps the invariant.
LEMMA TxInvStep == TxInv /\ [TxNext]_allVars => TxInv'
<1> SUFFICES ASSUME TxInv, [TxNext]_allVars PROVE TxInv'
  OBVIOUS
<1>1. CASE UNCHANGED allVars
  BY <1>1 DEF allVars, vars, callerVars, uiVars, txVars, TxInv, TxTypes, TxPlaces,
              UiPlaces, ContextOwnedOnce, InCallWtx, InCallEx
<1> QED
  BY <1>1, PhaseStep, CallStep, LoopStep DEF TxNext, BusStep

\* A context is run once and freed once with transactions too, although the
\* unlock of js_commitTransaction lets the UI loop free without its mutex.
THEOREM OwnedOnceInTransactions == TxSpec => []ContextOwnedOnce
<1>1. TxInv => ContextOwnedOnce
  BY DEF TxInv
<1> QED
  BY <1>1, TxInitHolds, TxInvStep, PTL DEF TxSpec
=============================================================================
