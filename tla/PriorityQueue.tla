--------------------------- MODULE PriorityQueue ---------------------------
(***************************************************************************)
(* The heap of lib/pqueue.c.  Its operations run under heap->lock and are  *)
(* one step each.  Slot 0 of the array is never used.                      *)
(***************************************************************************)
EXTENDS Integers, Sequences

CONSTANTS
  Data,          \* what nodes carry; a value is in the queue at most once
  Priorities,
  InitialLength, \* the argument of priqueue_initialize (512 in plugins.c)
  Null,          \* an empty slot
  Garbage        \* a slot realloc has left uninitialised

Node == [priority : Priorities, index : Nat, data : Data]

\* The NULL of an empty slot is no node.
ASSUME PriorityQueueAssumption ==
  /\ Priorities \subseteq Nat
  /\ InitialLength \in Nat \ {0, 1}
  /\ Null # Garbage
  /\ Null \notin Node

VARIABLES
  array,     \* heap->array; its domain is what has been allocated
  size,      \* heap->heap_size
  occupied,
  current,
  popped     \* what the last operation returned

vars == <<array, size, occupied, current, popped>>

Init ==
  /\ array = [i \in 0..(InitialLength - 1) |-> Null]
  /\ size = InitialLength
  /\ occupied = 1
  /\ current = 1
  /\ popped = Null

Stored == {array[i].data : i \in 1..(current - 1)}

\* Faulty variants: the nodes keep their old index; one node overwrites the
\* other.
SwapNode_OldIndex(a, parent, child) ==
  [a EXCEPT ![parent] = a[child], ![child] = a[parent]]
SwapNode_Overwrites(a, parent, child) ==
  [a EXCEPT ![parent] = [a[child] EXCEPT !.index = parent]]

SwapNode(a, parent, child) ==
  [a EXCEPT ![parent] = [a[child] EXCEPT !.index = a[parent].index],
            ![child] = [a[parent] EXCEPT !.index = child]]

(***************************************************************************)
(* The loop of insert_node: depth rounds from slot last towards the root.  *)
(* (Faulty variant: equal priorities change places.)                       *)
(***************************************************************************)
Settled_Strict(upper, lower) == upper.priority > lower.priority
Settled(upper, lower) == upper.priority >= lower.priority

\* One round, at slot s.at of s.a.
Raised(s) ==
  LET parent == s.at \div 2
      b == SwapNode(s.a, parent, s.at)
  IN IF s.at = 1 \/ Settled(s.a[parent], s.a[s.at])
       THEN s ELSE [a |-> b, at |-> b[parent].index]

SiftUp(a, last, depth) ==
  LET round[d \in 0..depth] ==
        IF d = 0 THEN [a |-> a, at |-> last] ELSE Raised(round[d - 1])
  IN round[depth].a

(***************************************************************************)
(* The loop of pop_node: one pass over the slots that have two children,   *)
(* the deeper after the higher ones.  (Faulty variant: always the left.)   *)
(***************************************************************************)
Larger_Left(a, i) == a[2 * i].index
Larger(a, i) ==
  IF a[2 * i].priority > a[2 * i + 1].priority THEN a[2 * i].index
                                                ELSE a[2 * i + 1].index

\* What the pass does at slot i.
Lowered(b, i) ==
  IF /\ b[2 * i] # Null /\ b[2 * i + 1] # Null
     /\ \/ b[i].priority < b[2 * i].priority
        \/ b[i].priority < b[2 * i + 1].priority
    THEN SwapNode(b, i, Larger(b, i)) ELSE b

SiftDown(a, depth) ==
  LET pass[i \in 0..depth] ==
        IF i = 0 THEN a ELSE Lowered(pass[i - 1], i)
  IN pass[depth]

\* realloc_heap clears the new slots from current + 1 up to heap_size.
Grown(a) ==
  [i \in 0..(2 * size) |->
     IF i \in (current + 1)..(2 * size - 1) THEN Null
     ELSE IF i < size THEN a[i] ELSE Garbage]

InsertNode(d, p) ==
  LET full == ~(current = 1 /\ array[1] = Null) /\ occupied = size
      room == IF full THEN Grown(array) ELSE array
      placed == [room EXCEPT ![current] =
                   [priority |-> p, index |-> current, data |-> d]]
  IN /\ d \notin Stored
     /\ array' = SiftUp(placed, current, (current + 1) \div 2)
     /\ size' = IF full THEN 2 * size ELSE size
     /\ occupied' = occupied + 1
     /\ current' = current + 1
     /\ popped' = Null

\* pop_node on an empty heap returns NULL.
PopNothing ==
  /\ current = 1
  /\ popped' = Null
  /\ UNCHANGED <<array, size, occupied, current>>

PopNode ==
  LET last == current - 1
      moved == [array EXCEPT ![1] = array[last]]
      cut == [moved EXCEPT ![last] = Null]
      top == IF cut[1] = Null THEN cut ELSE [cut EXCEPT ![1].index = 1]
  IN /\ current >= 2
     /\ popped' = array[1]
     /\ current' = last
     /\ occupied' = occupied - 1
     /\ array' = SiftDown(top, (last - 1) \div 2)
     /\ UNCHANGED size

Next ==
  \/ \E d \in Data, p \in Priorities : InsertNode(d, p)
  \/ PopNothing
  \/ PopNode

Spec == Init /\ [][Next]_vars
-----------------------------------------------------------------------------
\* The slots below current hold nodes that know their slot, the others are
\* empty, and the slot the next insert writes is within the allocation.
ShapeOK ==
  /\ occupied = current
  /\ current \in 1..size
  /\ 0..(size - 1) \subseteq DOMAIN array
  /\ \A i \in 1..(current - 1) : array[i] \in Node /\ array[i].index = i
  /\ \A i \in current..(size - 1) : array[i] = Null

\* Whatever is moved around, an insert adds its node and a pop removes the one
\* it returns; no node is lost and none is stored twice.
NothingLost ==
  [][/\ \A i, j \in 1..(current' - 1) :
          array'[i].data = array'[j].data => i = j
     /\ IF current' < current THEN Stored' = Stored \ {popped'.data}
                              ELSE Stored \subseteq Stored']_<<array, current>>

Ordered == \A i \in 2..(current - 1) :
             array[i \div 2].priority >= array[i].priority

\* What holds of the heap order: an insert keeps it, and a pop keeps it unless
\* the last inner slot is left with one child, which pop_node passes over.
OrderKept ==
  [][Ordered /\ (current' >= current \/ current' % 2 = 0) => Ordered']_vars

Ops == INSTANCE QueueOps

Contents == [i \in 1..(current - 1) |-> array[i].data]

SamePriority ==
  \A i, j \in 1..(current - 1) : array[i].priority = array[j].priority

\* As long as all nodes have one priority, as in the call core, the heap does
\* what QueueOps says and CallBus uses: an insert appends, a pop returns the
\* root and moves the last node there.
ActsAsCallQueue ==
  [][SamePriority /\ SamePriority' =>
       \/ \E d \in Data : Contents' = Ops!Insert(Contents, d)
       \/ /\ popped' # Null
          /\ popped'.data = Contents[1]
          /\ Contents' = Ops!PopRest(Contents)]_Contents
=============================================================================
