------------------------------ MODULE QueueOps ------------------------------
(***************************************************************************)
(* The priority queue of lib/pqueue.c as the call core uses it.  Every     *)
(* node has DEFAULT_PRIO, so insert_node never sifts and pop_node never    *)
(* swaps: what is left is the array from slot 1, whose last node pop moves *)
(* to the root.  PriorityQueue checks that this is all there is to it.     *)
(***************************************************************************)
EXTENDS Naturals, Sequences

\* Faulty variant: pop leaves the last node where it was.
PopRest_KeepsLast(q) == [i \in 1..Len(q) |-> IF i = 1 THEN q[Len(q)] ELSE q[i]]

Insert(q, w) == Append(q, w)

PopRest(q) ==
  [i \in 1..(Len(q) - 1) |-> IF i = 1 THEN q[Len(q)] ELSE q[i]]
=============================================================================
