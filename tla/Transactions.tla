---------------------------- MODULE Transactions ----------------------------
(***************************************************************************)
(* Transactions of the JavaScript API: the object of transaction.js over   *)
(* the functions of plugins/transaction.c, on top of the call core.        *)
(*                                                                         *)
(* A transaction has a context of its own from newTransaction on.  commit  *)
(* locks taMutex, runs the collected functions, each of which makes its    *)
(* own calls, hands the context to the UI loop and clears it.              *)
(***************************************************************************)
EXTENDS CallBus

CONSTANT Commit   \* "commit", the name transaction.c exports

ASSUME CommitAssumption == Commit \in Threaded

VARIABLES
  txPhase,    \* where the transaction is
  txWtx       \* the pointer kept in ph->transactions[id]

txVars == <<txPhase, txWtx>>
allVars == <<vars, txVars>>

TxInit ==
  /\ Init
  /\ txPhase = "none"
  /\ txWtx = NoWtx

JsAt(phase) == pc[Js] = "idle" /\ txPhase = phase

\* Faulty variant: the context it takes is still free for others.
NewTransaction_Shared ==
  /\ JsAt("none")
  /\ taMutex = NoThread
  /\ \E w \in Wtxs : wst[w] = "unused" /\ txWtx' = w
  /\ txPhase' = "open"
  /\ UNCHANGED vars

\* The lock and the unlock of taMutex around newWtx are one step.
NewTransaction ==
  /\ JsAt("none")
  /\ taMutex = NoThread
  /\ \E w \in Wtxs :
       /\ wst[w] = "unused"
       /\ wst' = [wst EXCEPT ![w] = "held"]
       /\ txWtx' = w
  /\ txPhase' = "open"
  /\ UNCHANGED <<callerVars, uiVars, locks, queue, events, flags>>

LockTransaction ==
  /\ JsAt("open")
  /\ taMutex = NoThread
  /\ taMutex' = Js
  /\ txPhase' = "loop"
  /\ UNCHANGED <<callerVars, uiVars, scallMutex, wtxMutex, callMutex,
                 funcMutex, queue, events, wst, flags, txWtx>>

CommitWtx ==
  /\ JsAt("loop")
  /\ Begin(Js, Commit, "commit", txWtx, "callLock")
  /\ txPhase' = "committing"
  /\ UNCHANGED txWtx

\* js_commitTransaction unlocks wtxMutex, which this thread has not locked.
UnlockWtxAfterCommit ==
  /\ JsAt("committing")
  /\ wtxMutex' = NoThread
  /\ txPhase' = "clear"
  /\ UNCHANGED <<callerVars, uiVars, scallMutex, callMutex, funcMutex,
                 taMutex, queue, events, wst, flags, txWtx>>

ClearTransaction ==
  /\ JsAt("clear")
  /\ taMutex = NoThread
  /\ taMutex' = Js
  /\ txPhase' = "clearing"
  /\ UNCHANGED <<callerVars, uiVars, scallMutex, wtxMutex, callMutex,
                 funcMutex, queue, events, wst, flags, txWtx>>

\* freeWtxElements on whatever txWtx points to: it has no elements.
ClearElements ==
  /\ JsAt("clearing")
  /\ wtxMutex = NoThread
  /\ taMutex' = NoThread
  /\ txPhase' = "none"
  /\ txWtx' = NoWtx
  /\ UNCHANGED <<callerVars, uiVars, scallMutex, wtxMutex, callMutex,
                 funcMutex, queue, events, wst, flags>>

TxStep ==
  \/ LockTransaction \/ CommitWtx \/ UnlockWtxAfterCommit
  \/ ClearTransaction \/ ClearElements

\* The daemon does not quit here: after uiLoop has left, clear waits for taMutex
\* until the process is gone.  JavaScript calls between transactions and from the
\* functions of one; the command socket is served between its callbacks only.
JsCall ==
  \E f \in JsFuncs \ {Commit} :
    \/ txPhase \in {"none", "open", "loop"} /\ Scall(f)
    \/ txPhase \in {"none", "open"} /\ CallSync(f)

BusStep == JsCall \/ CallerStep(Js) \/ UiStep

TxNext ==
  \/ BusStep /\ UNCHANGED txVars
  \/ NewTransaction
  \/ TxStep

TxSpec == TxInit /\ [][TxNext]_allVars

\* The list of collected functions is finite, so the loop comes to its commit.
TxFairness ==
  /\ WF_allVars(CallerStep(Js) /\ UNCHANGED txVars)
  /\ WF_allVars(UiStep /\ UNCHANGED txVars)
  /\ SF_allVars(UiLockWtx /\ UNCHANGED txVars)
  /\ SF_allVars(CallWtx(Js) /\ UNCHANGED txVars)
  /\ SF_allVars(CommitWtx)
  /\ SF_allVars(ClearTransaction)
  /\ SF_allVars(ClearElements)
  /\ WF_allVars(TxStep)

TxFairSpec == TxSpec /\ TxFairness
-----------------------------------------------------------------------------
\* "All other transactions are blocked while this loop is running!"
\* (transaction.js): the thread that runs the loop of commit owns taMutex.
LoopHoldsLock == txPhase = "loop" => taMutex = Js

\* A commit that has begun ends: the lock that clear takes is released by the
\* UI loop, which has the context of the commit still to come.
TransactionEnds ==
  txPhase \in {"loop", "committing", "clear", "clearing"}
    ~> txPhase = "none"
=============================================================================
