---------------------------- MODULE CallService ----------------------------
(***************************************************************************)
(* What the call core promises about the contexts that scall submits:      *)
(* each is executed once, in the UI thread, one at a time, and reclaimed   *)
(* after that; none is forgotten while the UI loop runs and the calls do   *)
(* not pile up.                                                            *)
(***************************************************************************)
EXTENDS Naturals, FiniteSets

CONSTANTS Wtxs      \* the call contexts

VARIABLES status,   \* what has become of each context
          stopped   \* the UI loop has been told to quit

vars == <<status, stopped>>

Init ==
  /\ status = [w \in Wtxs |-> "idle"]
  /\ stopped = FALSE

Become(w, from, to) ==
  /\ status[w] = from
  /\ status' = [status EXCEPT ![w] = to]
  /\ UNCHANGED stopped

Submit(w) == Become(w, "idle", "submitted")

Execute(w) ==
  /\ \A v \in Wtxs : status[v] # "executed"
  /\ Become(w, "submitted", "executed")

Reclaim(w) == Become(w, "executed", "idle")

Stop == stopped' = TRUE /\ UNCHANGED status

Next ==
  \/ \E w \in Wtxs : Submit(w) \/ Execute(w) \/ Reclaim(w)
  \/ Stop

\* Three calls wait at a time.  pop_node then serves the youngest before the
\* one in front of it.
Crowded ==
  \E W \in SUBSET Wtxs :
    Cardinality(W) = 3 /\ \A w \in W : status[w] = "submitted"

\* Unless it comes to three waiting calls again and again, a submitted context
\* is executed and reclaimed, or the loop is stopped.
Progress ==
  <>[]~Crowded =>
    \A w \in Wtxs : status[w] # "idle" ~> (status[w] = "idle" \/ stopped)

SafeSpec == Init /\ [][Next]_vars

Spec == SafeSpec /\ Progress
=============================================================================
