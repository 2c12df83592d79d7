------------------------ MODULE PriorityQueue_proofs ------------------------
(***************************************************************************)
(* The proofs about the heap of pqueue.c, for any data, priorities and     *)
(* first length: its shape, that nothing is lost, its order, and that it   *)
(* is the queue of the call core while all priorities are the same.        *)
(*                                                                         *)
(* The loops are recursive functions.  A lemma on one takes the rounds as  *)
(* the values of a function f on 0..n and shows what holds after each of   *)
(* them with SetInduction.                                                 *)
(***************************************************************************)
EXTENDS PriorityQueue, DataLemmas

\* The slots 1..n of a hold nodes that know their slot.
KnowSlots(a, n) ==
  /\ 1..n \subseteq DOMAIN a
  /\ \A i \in 1..n : a[i] \in Node /\ a[i].index = i

\* The slots 1..n of b hold what those of a do, each node once.
Same(a, b, n) ==
  /\ {b[i].data : i \in 1..n} = {a[i].data : i \in 1..n}
  /\ (\A i, j \in 1..n : a[i].data = a[j].data => i = j)
       => (\A i, j \in 1..n : b[i].data = b[j].data => i = j)
  /\ {b[i].priority : i \in 1..n} = {a[i].priority : i \in 1..n}

\* The rest of the array is untouched.
Rest(a, b, n) ==
  /\ DOMAIN b = DOMAIN a
  /\ \A i \in DOMAIN a : i \notin 1..n => b[i] = a[i]

\* The heap order of the slots 1..n.
Sorted(a, n) == \A i \in 2..n : a[i \div 2].priority >= a[i].priority

\* The parent of slot i is i \div 2, whose children are 2i and 2i + 1.
LEMMA Halves ==
  \A i \in Nat : /\ i \div 2 \in Nat /\ 2 * (i \div 2) <= i /\ i <= 2 * (i \div 2) + 1
OBVIOUS

\* swap_node: the nodes at p and c change places, each with the index of its new
\* slot, and all other slots stay.
LEMMA SwapFacts ==
  ASSUME NEW a, NEW n \in Nat, KnowSlots(a, n), NEW p \in 1..n, NEW c \in 1..n, p # c
  PROVE  LET b == SwapNode(a, p, c)
         IN /\ DOMAIN b = DOMAIN a
            /\ \A i \in DOMAIN a : i # p /\ i # c => b[i] = a[i]
            /\ b[p] = [priority |-> a[c].priority, index |-> p, data |-> a[c].data]
            /\ b[c] = [priority |-> a[p].priority, index |-> c, data |-> a[p].data]
<1> DEFINE b == SwapNode(a, p, c)
<1>1. /\ p \in DOMAIN a /\ c \in DOMAIN a
      /\ a[p] \in Node /\ a[c] \in Node /\ a[p].index = p
  BY DEF KnowSlots
<1>2. /\ DOMAIN b = DOMAIN a
      /\ \A i \in DOMAIN a : i # p /\ i # c => b[i] = a[i]
      /\ b[p] = [a[c] EXCEPT !.index = a[p].index]
      /\ b[c] = [a[p] EXCEPT !.index = c]
  BY <1>1 DEF SwapNode
<1>3. \A r \in Node, k \in Nat : [r EXCEPT !.index = k] =
                     [priority |-> r.priority, index |-> k, data |-> r.data]
  BY DEF Node
<1> QED
  BY <1>1, <1>2, <1>3

\* swap_node keeps what the slots hold and the index of each node.
LEMMA SwapKeeps ==
  ASSUME NEW a, NEW n \in Nat, KnowSlots(a, n), NEW p \in 1..n, NEW c \in 1..n, p # c
  PROVE  LET b == SwapNode(a, p, c)
         IN KnowSlots(b, n) /\ Same(a, b, n) /\ Rest(a, b, n)
<1> DEFINE b == SwapNode(a, p, c)
<1>1. /\ DOMAIN b = DOMAIN a
      /\ \A i \in DOMAIN a : i # p /\ i # c => b[i] = a[i]
      /\ b[p] = [priority |-> a[c].priority, index |-> p, data |-> a[c].data]
      /\ b[c] = [priority |-> a[p].priority, index |-> c, data |-> a[p].data]
  BY SwapFacts
<1>2. /\ a[p] \in Node /\ a[c] \in Node /\ 1..n \subseteq DOMAIN a
      /\ \A i \in 1..n : a[i] \in Node /\ a[i].index = i
  BY DEF KnowSlots
<1> HIDE DEF b
<1>3. KnowSlots(b, n)
  <2>1. b[p] \in Node /\ b[p].index = p /\ b[c] \in Node /\ b[c].index = c
    BY <1>1, <1>2 DEF Node
  <2> QED
    BY <1>1, <1>2, <2>1 DEF KnowSlots
<1>4. Rest(a, b, n)
  BY <1>1 DEF Rest
<1>5. /\ b[p].data = a[c].data /\ b[c].data = a[p].data
      /\ b[p].priority = a[c].priority /\ b[c].priority = a[p].priority
  BY <1>1
<1>6. \A i \in 1..n : i # p /\ i # c => b[i] = a[i]
  BY <1>1, <1>2
<1>7. Same(a, b, n)
  <2>1. {b[i].data : i \in 1..n} = {a[i].data : i \in 1..n}
    BY <1>5, <1>6
  <2>2. {b[i].priority : i \in 1..n} = {a[i].priority : i \in 1..n}
    BY <1>5, <1>6
  <2>3. ASSUME \A i, j \in 1..n : a[i].data = a[j].data => i = j,
               NEW i \in 1..n, NEW j \in 1..n, b[i].data = b[j].data
        PROVE  i = j
    BY <1>5, <1>6, <2>3
  <2> QED
    BY <2>1, <2>2, <2>3 DEF Same
<1> QED
  BY <1>3, <1>4, <1>7 DEF b

\* What holds of two steps one after the other holds of both together.
LEMMA KeepsTransitive ==
  ASSUME NEW a, NEW b, NEW c, NEW n
  PROVE  /\ Same(a, a, n) /\ Rest(a, a, n)
         /\ Same(a, b, n) /\ Same(b, c, n) => Same(a, c, n)
         /\ Rest(a, b, n) /\ Rest(b, c, n) => Rest(a, c, n)
BY DEF Same, Rest

-----------------------------------------------------------------------------
\* The recursive function in SiftUp exists.
LEMMA UpExists ==
  ASSUME NEW c, NEW n \in Nat
  PROVE  \E f : f = [d \in 0..n |-> IF d = 0 THEN c ELSE Raised(f[d - 1])]
<1> DEFINE S == {m \in Nat :
                   \E f : f = [d \in 0..m |-> IF d = 0 THEN c ELSE Raised(f[d - 1])]}
<1>1. 0 \in S
  <2> DEFINE f == [d \in 0..0 |-> c]
  <2>1. f = [d \in 0..0 |-> IF d = 0 THEN c ELSE Raised(f[d - 1])]
    OBVIOUS
  <2> QED
    BY <2>1
<1>2. ASSUME NEW m \in Nat, m \in S PROVE m + 1 \in S
  <2>1. PICK f : f = [d \in 0..m |-> IF d = 0 THEN c ELSE Raised(f[d - 1])]
    BY <1>2
  <2> DEFINE g == [d \in 0..(m + 1) |-> IF d = m + 1 THEN Raised(f[m]) ELSE f[d]]
  <2>2. \A d \in 0..(m + 1) : g[d] = IF d = 0 THEN c ELSE Raised(g[d - 1])
    <3>1. \A d \in 0..m : f[d] = IF d = 0 THEN c ELSE Raised(f[d - 1])
      BY <2>1
    <3>2. g[m] = f[m] /\ \A d \in 0..m : g[d] = f[d]
      OBVIOUS
    <3> QED
      BY <3>1, <3>2
  <2>3. g = [d \in 0..(m + 1) |-> IF d = 0 THEN c ELSE Raised(g[d - 1])]
    BY <2>2
  <2>4. \E h : h = [d \in 0..(m + 1) |-> IF d = 0 THEN c ELSE Raised(h[d - 1])]
    <3> HIDE DEF g
    <3> QED
      BY <2>3
  <2> QED
    BY <2>4
<1>3. Nat \subseteq S
  <2> HIDE DEF S
  <2> QED
    BY <1>1, <1>2, SetInduction
<1> QED
  BY <1>3

\* SiftUp is what n rounds of Raised make of the array, one after the other.
LEMMA UpRounds ==
  ASSUME NEW a, NEW last, NEW n \in Nat
  PROVE  \E f : /\ SiftUp(a, last, n) = f[n].a
                /\ f[0] = [a |-> a, at |-> last]
                /\ \A d \in 1..n : f[d] = Raised(f[d - 1])
<1> DEFINE c == [a |-> a, at |-> last]
           round[d \in 0..n] == IF d = 0 THEN c ELSE Raised(round[d - 1])
<1>1. SiftUp(a, last, n) = round[n].a
  BY DEF SiftUp
<1> HIDE DEF c
<1>2. round = [d \in 0..n |-> IF d = 0 THEN c ELSE Raised(round[d - 1])]
  BY UpExists
<1> HIDE DEF round
<1>3. \A d \in 0..n : round[d] = IF d = 0 THEN c ELSE Raised(round[d - 1])
  BY <1>2
<1>4. round[0] = c /\ \A d \in 1..n : round[d] = Raised(round[d - 1])
  BY <1>3
<1> QED
  BY <1>1, <1>4 DEF c

\* Nothing is left to do for the loop of insert_node.
Done(s) == s.at = 1 \/ Settled(s.a[s.at \div 2], s.a[s.at])

\* One round of the loop of insert_node: it swaps a node that is above its parent
\* and goes on there, or changes nothing for good.
LEMMA RaisedKeeps ==
  ASSUME NEW s, NEW n \in Nat, KnowSlots(s.a, n), s.at \in 1..n
  PROVE  LET r == Raised(s)
         IN /\ KnowSlots(r.a, n) /\ Same(s.a, r.a, n) /\ Rest(s.a, r.a, n)
            /\ r.at \in 1..n
            /\ Done(s) => r = s
            /\ ~Done(s) => s.at # 1 /\ r.at = s.at \div 2
                           /\ r.a = SwapNode(s.a, s.at \div 2, s.at)
<1> DEFINE p == s.at \div 2
           b == SwapNode(s.a, p, s.at)
<1>1. CASE Done(s)
  <2>1. Raised(s) = s
    BY <1>1 DEF Raised, Done
  <2> QED
    BY <1>1, <2>1, KeepsTransitive
<1>2. CASE ~Done(s)
  <2>1. s.at # 1 /\ Raised(s) = [a |-> b, at |-> b[p].index]
    BY <1>2 DEF Raised, Done
  <2>2. p \in 1..n /\ p # s.at
    BY <2>1, Halves
  <2>3. KnowSlots(b, n) /\ Same(s.a, b, n) /\ Rest(s.a, b, n)
    BY <2>2, SwapKeeps
  <2> HIDE DEF b
  <2>4. b[p].index = p
    BY <2>2, <2>3 DEF KnowSlots
  <2>5. Raised(s).a = b /\ Raised(s).at = p
    BY <2>1, <2>4
  <2> QED
    BY <1>2, <2>1, <2>2, <2>3, <2>5 DEF b
<1> QED
  BY <1>1, <1>2

\* All is in order but the node at slot at, which may be above its parent.
Rising(a, at, n) ==
  /\ \A i \in 2..n : i # at => a[i \div 2].priority >= a[i].priority
  /\ at # 1 => \A i \in 2..n : i \div 2 = at
                                 => a[at \div 2].priority >= a[i].priority

\* A swap with the parent moves the only place that may be out of order one
\* level up.
LEMMA RisesOne ==
  ASSUME NEW a, NEW n \in Nat, KnowSlots(a, n), NEW c \in 2..n, Rising(a, c, n),
         ~Settled(a[c \div 2], a[c])
  PROVE  Rising(SwapNode(a, c \div 2, c), c \div 2, n)
<1> DEFINE p == c \div 2
           b == SwapNode(a, p, c)
           P(i) == a[i].priority
<1>1. p \in 1..n /\ p # c /\ p < c
  BY Halves
<1>2. \A i \in 1..n : P(i) \in Nat
  BY PriorityQueueAssumption DEF KnowSlots, Node
<1>3. /\ b[p].priority = P(c) /\ b[c].priority = P(p)
      /\ \A i \in 1..n : i # p /\ i # c => b[i].priority = P(i)
  <2>1. 1..n \subseteq DOMAIN a
    BY DEF KnowSlots
  <2> HIDE DEF b
  <2>2. /\ \A i \in DOMAIN a : i # p /\ i # c => b[i] = a[i]
        /\ b[p] = [priority |-> a[c].priority, index |-> p, data |-> a[c].data]
        /\ b[c] = [priority |-> a[p].priority, index |-> c, data |-> a[p].data]
    BY <1>1, SwapFacts DEF b
  <2> QED
    BY <2>1, <2>2
<1>4. P(p) < P(c)
  BY <1>1, <1>2 DEF Settled
<1>5. /\ \A i \in 2..n : i # c => P(i \div 2) >= P(i)
      /\ \A i \in 2..n : i \div 2 = c => P(p) >= P(i)
  BY DEF Rising
<1>6. \A i \in 2..n : i \div 2 \in 1..n /\ i \div 2 < i
  BY Halves
<1> HIDE DEF b, P, p
<1>7. ASSUME NEW i \in 2..n, i # p PROVE b[i \div 2].priority >= b[i].priority
  <2>1. CASE i = c
    BY <1>1, <1>2, <1>3, <1>4, <2>1 DEF p
  <2>2. CASE i # c /\ i \div 2 = p
    BY <1>1, <1>2, <1>3, <1>4, <1>5, <1>7, <2>2
  <2>3. CASE i # c /\ i \div 2 = c
    BY <1>1, <1>3, <1>5, <1>7, <2>3
  <2>4. CASE i # c /\ i \div 2 # p /\ i \div 2 # c
    BY <1>3, <1>5, <1>6, <1>7, <2>4
  <2> QED
    BY <2>1, <2>2, <2>3, <2>4
<1>8. ASSUME p # 1, NEW i \in 2..n, i \div 2 = p
      PROVE  b[p \div 2].priority >= b[i].priority
  <2>1. p \in 2..n /\ p \div 2 \in 1..n /\ p \div 2 < p
    BY <1>1, <1>6, <1>8
  <2>2. b[p \div 2].priority = P(p \div 2) /\ P(p \div 2) >= P(p)
    BY <1>1, <1>3, <1>5, <2>1
  <2>3. i # p
    BY <1>6, <1>8
  <2>4. CASE i = c
    BY <1>3, <2>2, <2>4
  <2>5. CASE i # c
    <3>1. P(p) >= P(i) /\ b[i].priority = P(i)
      BY <1>3, <1>5, <1>8, <2>3, <2>5
    <3>2. P(p) \in Nat /\ P(i) \in Nat /\ P(p \div 2) \in Nat
      BY <1>1, <1>2, <2>1
    <3> QED
      BY <2>2, <3>1, <3>2
  <2> QED
    BY <2>4, <2>5
<1> QED
  BY <1>7, <1>8 DEF Rising, b, p

\* The loop of insert_node (pqueue.c 160-181): (n + 1) \div 2 rounds, more than
\* the levels above slot n, keep every node and end in order if only the node at
\* the end was out of it.
LEMMA SiftUpWorks ==
  ASSUME NEW a, NEW n \in Nat \ {0}, KnowSlots(a, n)
  PROVE  LET b == SiftUp(a, n, (n + 1) \div 2)
         IN /\ KnowSlots(b, n) /\ Same(a, b, n) /\ Rest(a, b, n)
            /\ Rising(a, n, n) => Sorted(b, n)
<1> DEFINE depth == (n + 1) \div 2
<1>1. depth \in Nat /\ 2 * depth <= n + 1 /\ n <= 2 * depth /\ depth # 0
  BY Halves
<1> HIDE DEF depth
<1>2. PICK f : /\ SiftUp(a, n, depth) = f[depth].a
               /\ f[0] = [a |-> a, at |-> n]
               /\ \A d \in 1..depth : f[d] = Raised(f[d - 1])
  BY <1>1, UpRounds
<1> DEFINE Good(d) ==
             /\ KnowSlots(f[d].a, n) /\ Same(a, f[d].a, n) /\ Rest(a, f[d].a, n)
             /\ f[d].at \in 1..n
             /\ Rising(a, n, n) => Rising(f[d].a, f[d].at, n)
             /\ d # 0 => Done(f[d]) \/ f[d].at + d <= (n \div 2) + 1
           S == {d \in Nat : d <= depth => Good(d)}
<1>3. 0 \in S
  BY <1>2, KeepsTransitive
<1>4. ASSUME NEW d \in Nat, d \in S PROVE d + 1 \in S
  <2> SUFFICES ASSUME d + 1 <= depth PROVE Good(d + 1)
    OBVIOUS
  <2> DEFINE s == f[d]
             r == f[d + 1]
  <2>1. Good(d)
    BY <1>1, <1>4
  <2>2. r = Raised(s)
    BY <1>1, <1>2
  <2> HIDE DEF s, r
  <2>3. /\ KnowSlots(r.a, n) /\ Same(s.a, r.a, n) /\ Rest(s.a, r.a, n)
        /\ r.at \in 1..n
        /\ Done(s) => r = s
        /\ ~Done(s) => s.at # 1 /\ r.at = s.at \div 2
                       /\ r.a = SwapNode(s.a, s.at \div 2, s.at)
    BY <2>1, <2>2, RaisedKeeps DEF s
  <2>4. Same(a, r.a, n) /\ Rest(a, r.a, n)
    BY <2>1, <2>3, KeepsTransitive DEF s
  <2>5. ASSUME Rising(a, n, n) PROVE Rising(r.a, r.at, n)
    <3>1. Rising(s.a, s.at, n)
      BY <2>1, <2>5 DEF s
    <3>2. CASE Done(s)
      BY <2>3, <3>1, <3>2
    <3>3. CASE ~Done(s)
      <4>1. s.at \in 2..n /\ ~Settled(s.a[s.at \div 2], s.a[s.at]) /\ KnowSlots(s.a, n)
        BY <2>1, <3>3 DEF Done, s
      <4> QED
        BY <2>3, <3>1, <3>3, <4>1, RisesOne
    <3> QED
      BY <3>2, <3>3
  <2>6. Done(r) \/ r.at + (d + 1) <= (n \div 2) + 1
    <3>1. CASE Done(s)
      BY <2>3, <3>1
    <3>2. CASE ~Done(s) /\ d = 0
      BY <1>2, <2>3, <3>2 DEF s
    <3>3. CASE ~Done(s) /\ d # 0
      <4>1. s.at \in 1..n /\ s.at # 1 /\ s.at + d <= (n \div 2) + 1 /\ r.at = s.at \div 2
        BY <2>1, <2>3, <3>3 DEF s
      <4>2. r.at + 1 <= s.at
        BY <4>1, Halves
      <4> QED
        BY <2>3, <4>1, <4>2, Halves
    <3> QED
      BY <3>1, <3>2, <3>3
  <2> QED
    BY <2>3, <2>4, <2>5, <2>6 DEF r
<1>5. depth \in S
  <2> HIDE DEF S
  <2>1. Nat \subseteq S
    BY <1>3, <1>4, SetInduction
  <2> QED
    BY <1>1, <2>1
<1>6. Good(depth)
  BY <1>1, <1>5
<1>7. ASSUME Rising(a, n, n) PROVE Sorted(f[depth].a, n)
  <2> DEFINE s == f[depth]
  <2>1. Rising(s.a, s.at, n) /\ s.at \in 1..n
    BY <1>6, <1>7
  <2>2. Done(s)
    <3>1. (n \div 2) + 1 - depth <= 1 /\ n \div 2 \in Nat
      BY <1>1, Halves
    <3>2. Done(s) \/ s.at + depth <= (n \div 2) + 1
      BY <1>1, <1>6
    <3> HIDE DEF s
    <3>3. s.at + depth <= (n \div 2) + 1 => s.at = 1
      BY <1>1, <2>1, <3>1
    <3> QED
      BY <3>2, <3>3 DEF Done
  <2> HIDE DEF s
  <2>3. \A i \in 2..n : i # s.at => s.a[i \div 2].priority >= s.a[i].priority
    BY <2>1 DEF Rising
  <2>4. s.at # 1 => s.a[s.at \div 2].priority >= s.a[s.at].priority
    BY <2>2 DEF Done, Settled
  <2>5. Sorted(s.a, n)
    BY <2>1, <2>3, <2>4 DEF Sorted
  <2> QED
    BY <2>5 DEF s
<1> QED
  BY <1>2, <1>6, <1>7 DEF depth

-----------------------------------------------------------------------------
\* The recursive function in SiftDown exists.
LEMMA DownExists ==
  ASSUME NEW c, NEW n \in Nat
  PROVE  \E f : f = [i \in 0..n |-> IF i = 0 THEN c ELSE Lowered(f[i - 1], i)]
<1> DEFINE S == {m \in Nat :
                   \E f : f = [i \in 0..m |-> IF i = 0 THEN c ELSE Lowered(f[i - 1], i)]}
<1>1. 0 \in S
  <2> DEFINE f == [i \in 0..0 |-> c]
  <2>1. f = [i \in 0..0 |-> IF i = 0 THEN c ELSE Lowered(f[i - 1], i)]
    OBVIOUS
  <2> QED
    BY <2>1
<1>2. ASSUME NEW m \in Nat, m \in S PROVE m + 1 \in S
  <2>1. PICK f : f = [i \in 0..m |-> IF i = 0 THEN c ELSE Lowered(f[i - 1], i)]
    BY <1>2
  <2> DEFINE g == [i \in 0..(m + 1) |-> IF i = m + 1 THEN Lowered(f[m], m + 1) ELSE f[i]]
  <2>2. \A i \in 0..(m + 1) : g[i] = IF i = 0 THEN c ELSE Lowered(g[i - 1], i)
    <3>1. \A i \in 0..m : f[i] = IF i = 0 THEN c ELSE Lowered(f[i - 1], i)
      BY <2>1
    <3>2. g[m] = f[m] /\ \A i \in 0..m : g[i] = f[i]
      OBVIOUS
    <3> QED
      BY <3>1, <3>2
  <2>3. g = [i \in 0..(m + 1) |-> IF i = 0 THEN c ELSE Lowered(g[i - 1], i)]
    BY <2>2
  <2>4. \E h : h = [i \in 0..(m + 1) |-> IF i = 0 THEN c ELSE Lowered(h[i - 1], i)]
    <3> HIDE DEF g
    <3> QED
      BY <2>3
  <2> QED
    BY <2>4
<1>3. Nat \subseteq S
  <2> HIDE DEF S
  <2> QED
    BY <1>1, <1>2, SetInduction
<1> QED
  BY <1>3

\* SiftDown is what Lowered makes of the array at slots 1..n, one after the other.
LEMMA DownPasses ==
  ASSUME NEW a, NEW n \in Nat
  PROVE  \E f : /\ SiftDown(a, n) = f[n]
                /\ f[0] = a
                /\ \A i \in 1..n : f[i] = Lowered(f[i - 1], i)
<1> DEFINE pass[i \in 0..n] == IF i = 0 THEN a ELSE Lowered(pass[i - 1], i)
<1>1. SiftDown(a, n) = pass[n]
  BY DEF SiftDown
<1>2. pass = [i \in 0..n |-> IF i = 0 THEN a ELSE Lowered(pass[i - 1], i)]
  BY DownExists
<1> HIDE DEF pass
<1>3. \A i \in 0..n : pass[i] = IF i = 0 THEN a ELSE Lowered(pass[i - 1], i)
  BY <1>2
<1>4. pass[0] = a /\ \A i \in 1..n : pass[i] = Lowered(pass[i - 1], i)
  BY <1>3
<1> QED
  BY <1>1, <1>4

\* The slot after the last node is empty.
Ends(a, n) == n + 1 \in DOMAIN a /\ a[n + 1] = Null

\* One step of the pass of pop_node: it leaves slot i, which is then not below its
\* children if it has two, or swaps it with the larger child.
LEMMA LoweredCases ==
  ASSUME NEW a, NEW n \in Nat, KnowSlots(a, n), Ends(a, n),
         NEW i \in 1..(n \div 2)
  PROVE  \/ /\ Lowered(a, i) = a
            /\ 2 * i + 1 <= n => /\ a[i].priority >= a[2 * i].priority
                                 /\ a[i].priority >= a[2 * i + 1].priority
         \/ /\ 2 * i + 1 <= n
            /\ \E c \in {2 * i, 2 * i + 1} :
                 /\ Lowered(a, i) = SwapNode(a, i, c)
                 /\ a[i].priority < a[c].priority
                 /\ a[c].priority >= a[2 * i].priority
                 /\ a[c].priority >= a[2 * i + 1].priority
<1>1. 2 * i <= n /\ i \in 1..n /\ i \in Nat
  BY Halves
<1>2. \A j \in 1..n : a[j] \in Node /\ a[j].index = j /\ a[j] # Null
                      /\ a[j].priority \in Nat
  BY PriorityQueueAssumption DEF KnowSlots, Node
<1>3. CASE 2 * i + 1 > n
  <2>1. a[2 * i + 1] = Null
    BY <1>1, <1>3 DEF Ends
  <2> QED
    BY <1>3, <2>1 DEF Lowered
<1>4. CASE 2 * i + 1 <= n
  <2>1. /\ 2 * i \in 1..n /\ 2 * i + 1 \in 1..n
        /\ a[2 * i] # Null /\ a[2 * i + 1] # Null
        /\ a[2 * i].index = 2 * i /\ a[2 * i + 1].index = 2 * i + 1
        /\ a[i].priority \in Nat
        /\ a[2 * i].priority \in Nat /\ a[2 * i + 1].priority \in Nat
    BY <1>1, <1>2, <1>4
  <2>2. CASE \/ a[i].priority < a[2 * i].priority
             \/ a[i].priority < a[2 * i + 1].priority
    <3>1. Lowered(a, i) = SwapNode(a, i, Larger(a, i))
      BY <2>1, <2>2 DEF Lowered
    <3>2. CASE a[2 * i].priority > a[2 * i + 1].priority
      <4>1. Larger(a, i) = 2 * i
        BY <2>1, <3>2 DEF Larger
      <4> QED
        BY <1>4, <2>1, <2>2, <3>1, <3>2, <4>1
    <3>3. CASE ~(a[2 * i].priority > a[2 * i + 1].priority)
      <4>1. Larger(a, i) = 2 * i + 1
        BY <2>1, <3>3 DEF Larger
      <4> QED
        BY <1>4, <2>1, <2>2, <3>1, <3>3, <4>1
    <3> QED
      BY <3>2, <3>3
  <2>3. CASE ~(\/ a[i].priority < a[2 * i].priority
               \/ a[i].priority < a[2 * i + 1].priority)
    BY <2>1, <2>3 DEF Lowered
  <2> QED
    BY <2>2, <2>3
<1> QED
  BY <1>1, <1>3, <1>4

\* One step of the pass of pop_node keeps every node.
LEMMA LoweredKeeps ==
  ASSUME NEW a, NEW n \in Nat, KnowSlots(a, n), Ends(a, n), NEW i \in 1..(n \div 2)
  PROVE  LET b == Lowered(a, i)
         IN KnowSlots(b, n) /\ Same(a, b, n) /\ Rest(a, b, n) /\ Ends(b, n)
<1>1. CASE Lowered(a, i) = a
  BY <1>1, KeepsTransitive
<1>2. CASE \E c \in {2 * i, 2 * i + 1} : 2 * i + 1 <= n /\ Lowered(a, i) = SwapNode(a, i, c)
  <2>1. PICK c \in {2 * i, 2 * i + 1} :
               2 * i + 1 <= n /\ Lowered(a, i) = SwapNode(a, i, c)
    BY <1>2
  <2>2. i \in 1..n /\ c \in 1..n /\ c # i
    BY <2>1, Halves
  <2> DEFINE b == SwapNode(a, i, c)
  <2>3. KnowSlots(b, n) /\ Same(a, b, n) /\ Rest(a, b, n)
    BY <2>2, SwapKeeps
  <2> HIDE DEF b
  <2>4. Ends(b, n)
    BY <2>3 DEF Rest, Ends
  <2> QED
    BY <2>1, <2>3, <2>4 DEF b
<1> QED
  BY <1>1, <1>2, LoweredCases

\* All is in order but the children of slot h, one of which may be above it.
Falling(a, h, n) ==
  /\ \A i \in 2..n : i \div 2 # h => a[i \div 2].priority >= a[i].priority
  /\ h # 1 => \A i \in 2..n : i \div 2 = h
                                => a[h \div 2].priority >= a[i].priority

\* A swap with the larger child moves the only place that may be out of order one
\* level down.
LEMMA FallsOne ==
  ASSUME NEW a, NEW n \in Nat, KnowSlots(a, n), NEW h \in Nat \ {0}, Falling(a, h, n),
         NEW c \in 2..n, c \div 2 = h, a[h].priority < a[c].priority,
         \A i \in 2..n : i \div 2 = h => a[c].priority >= a[i].priority
  PROVE  Falling(SwapNode(a, h, c), c, n)
<1> DEFINE b == SwapNode(a, h, c)
           P(i) == a[i].priority
<1>1. h \in 1..n /\ h # c /\ h < c
  BY Halves
<1>2. \A i \in 1..n : P(i) \in Nat
  BY PriorityQueueAssumption DEF KnowSlots, Node
<1>3. /\ b[h].priority = P(c) /\ b[c].priority = P(h)
      /\ \A i \in 1..n : i # h /\ i # c => b[i].priority = P(i)
  <2>1. 1..n \subseteq DOMAIN a
    BY DEF KnowSlots
  <2> HIDE DEF b
  <2>2. /\ \A i \in DOMAIN a : i # h /\ i # c => b[i] = a[i]
        /\ b[h] = [priority |-> a[c].priority, index |-> h, data |-> a[c].data]
        /\ b[c] = [priority |-> a[h].priority, index |-> c, data |-> a[h].data]
    BY <1>1, SwapFacts DEF b
  <2> QED
    BY <2>1, <2>2
<1>4. P(h) < P(c) /\ \A i \in 2..n : i \div 2 = h => P(c) >= P(i)
  OBVIOUS
<1>5. /\ \A i \in 2..n : i \div 2 # h => P(i \div 2) >= P(i)
      /\ h # 1 => P(h \div 2) >= P(c)
  BY DEF Falling
<1>6. \A i \in 2..n : i \div 2 \in 1..n /\ i \div 2 < i
  BY Halves
<1> HIDE DEF b, P
<1>7. ASSUME NEW i \in 2..n, i \div 2 # c PROVE b[i \div 2].priority >= b[i].priority
  <2>1. CASE i = c
    BY <1>1, <1>2, <1>3, <1>4, <2>1
  <2>2. CASE i # c /\ i \div 2 = h
    <3>1. i # h
      BY <1>6, <2>2
    <3> QED
      BY <1>1, <1>3, <1>4, <2>2, <3>1
  <2>3. CASE i = h
    <3>1. h # 1 /\ i \div 2 # h /\ i \div 2 # c /\ i \div 2 \in 1..n
      BY <1>6, <1>7, <2>3
    <3> QED
      BY <1>3, <1>5, <2>3, <3>1
  <2>4. CASE i # c /\ i # h /\ i \div 2 # h
    BY <1>3, <1>5, <1>6, <1>7, <2>4
  <2> QED
    BY <2>1, <2>2, <2>3, <2>4
<1>8. ASSUME NEW i \in 2..n, i \div 2 = c PROVE b[c \div 2].priority >= b[i].priority
  <2>1. i # c /\ i # h /\ i \div 2 # h
    BY <1>1, <1>6, <1>8
  <2> QED
    BY <1>3, <1>5, <1>8, <2>1
<1> QED
  BY <1>7, <1>8 DEF Falling, b

\* The pass is never behind the place that may be out of order.
LEMMA LoweredOrder ==
  ASSUME NEW a, NEW n \in Nat, KnowSlots(a, n), Ends(a, n), n = 2 * (n \div 2) + 1,
         NEW i \in 1..(n \div 2), NEW h \in Nat, h >= i, Falling(a, h, n)
  PROVE  \E k \in Nat : k >= i + 1 /\ Falling(Lowered(a, i), k, n)
<1>1. 2 * i + 1 <= n /\ i \in 1..n /\ 2 * i \in 2..n /\ 2 * i + 1 \in 2..n
  BY Halves
<1>2. (2 * i) \div 2 = i /\ (2 * i + 1) \div 2 = i
      /\ \A j \in 2..n : j \div 2 = i => j = 2 * i \/ j = 2 * i + 1
  BY Halves
<1>3. CASE /\ Lowered(a, i) = a
           /\ a[i].priority >= a[2 * i].priority
           /\ a[i].priority >= a[2 * i + 1].priority
  <2>1. CASE h = i
    <3>1. \A j \in 2..n : a[j \div 2].priority >= a[j].priority
      BY <1>2, <1>3, <2>1 DEF Falling
    <3>2. \A j \in 2..n : j \div 2 # n + 1
      BY Halves
    <3>3. Falling(a, n + 1, n)
      BY <3>1, <3>2 DEF Falling
    <3> QED
      BY <1>1, <1>3, <3>3
  <2>2. CASE h # i
    BY <1>3, <2>2
  <2> QED
    BY <2>1, <2>2
<1>4. CASE \E c \in {2 * i, 2 * i + 1} :
             /\ Lowered(a, i) = SwapNode(a, i, c)
             /\ a[i].priority < a[c].priority
             /\ a[c].priority >= a[2 * i].priority
             /\ a[c].priority >= a[2 * i + 1].priority
  <2>1. PICK c \in {2 * i, 2 * i + 1} :
             /\ Lowered(a, i) = SwapNode(a, i, c)
             /\ a[i].priority < a[c].priority
             /\ a[c].priority >= a[2 * i].priority
             /\ a[c].priority >= a[2 * i + 1].priority
    BY <1>4
  <2>2. c \in 2..n /\ c \div 2 = i
    BY <1>1, <1>2
  <2>3. h = i
    <3>1. \A j \in 1..n : a[j].priority \in Nat
      BY PriorityQueueAssumption DEF KnowSlots, Node
    <3>2. a[i].priority \in Nat /\ a[c].priority \in Nat
      BY <1>1, <2>2, <3>1
    <3> QED
      BY <2>1, <2>2, <3>2 DEF Falling
  <2>4. \A j \in 2..n : j \div 2 = i => a[c].priority >= a[j].priority
    BY <1>2, <2>1
  <2>5. Falling(SwapNode(a, i, c), c, n)
    BY <1>1, <2>1, <2>2, <2>3, <2>4, FallsOne
  <2>6. c \in Nat /\ c >= i + 1
    BY <1>1
  <2> QED
    BY <2>1, <2>5, <2>6
<1> QED
  BY <1>1, <1>3, <1>4, LoweredCases

\* The pass of pop_node (pqueue.c 232-247) keeps every node, and ends in order if
\* only the root was out of it and every inner slot has two children.
LEMMA SiftDownWorks ==
  ASSUME NEW a, NEW n \in Nat, KnowSlots(a, n), Ends(a, n)
  PROVE  LET b == SiftDown(a, n \div 2)
         IN /\ KnowSlots(b, n) /\ Same(a, b, n) /\ Rest(a, b, n)
            /\ n = 2 * (n \div 2) + 1 /\ Falling(a, 1, n) => Sorted(b, n)
<1> DEFINE depth == n \div 2
<1>1. depth \in Nat /\ 2 * depth <= n /\ n <= 2 * depth + 1
  BY Halves
<1> HIDE DEF depth
<1>2. PICK f : /\ SiftDown(a, depth) = f[depth]
               /\ f[0] = a
               /\ \A i \in 1..depth : f[i] = Lowered(f[i - 1], i)
  BY <1>1, DownPasses
<1> DEFINE Good(i) ==
             /\ KnowSlots(f[i], n) /\ Same(a, f[i], n) /\ Rest(a, f[i], n) /\ Ends(f[i], n)
             /\ n = 2 * depth + 1 /\ Falling(a, 1, n)
                  => \E h \in Nat : h >= i + 1 /\ Falling(f[i], h, n)
           S == {i \in Nat : i <= depth => Good(i)}
<1>3. 0 \in S
  BY <1>2, KeepsTransitive
<1>4. ASSUME NEW i \in Nat, i \in S PROVE i + 1 \in S
  <2> SUFFICES ASSUME i + 1 <= depth PROVE Good(i + 1)
    OBVIOUS
  <2> DEFINE s == f[i]
             r == f[i + 1]
  <2>1. Good(i)
    BY <1>1, <1>4
  <2>2. r = Lowered(s, i + 1)
    BY <1>1, <1>2
  <2>3. i + 1 \in 1..(n \div 2)
    BY <1>1 DEF depth
  <2> HIDE DEF s, r
  <2>4. KnowSlots(r, n) /\ Same(s, r, n) /\ Rest(s, r, n) /\ Ends(r, n)
    BY <2>1, <2>2, <2>3, LoweredKeeps DEF s
  <2>5. Same(a, r, n) /\ Rest(a, r, n)
    BY <2>1, <2>4, KeepsTransitive DEF s
  <2>6. ASSUME n = 2 * depth + 1, Falling(a, 1, n)
        PROVE  \E h \in Nat : h >= (i + 1) + 1 /\ Falling(r, h, n)
    <3>1. PICK h \in Nat : h >= i + 1 /\ Falling(s, h, n)
      BY <2>1, <2>6 DEF s
    <3>2. n = 2 * (n \div 2) + 1
      BY <2>6 DEF depth
    <3> QED
      BY <2>1, <2>2, <2>3, <3>1, <3>2, LoweredOrder DEF s
  <2> QED
    BY <2>4, <2>5, <2>6 DEF r
<1>5. depth \in S
  <2> HIDE DEF S
  <2>1. Nat \subseteq S
    BY <1>3, <1>4, SetInduction
  <2> QED
    BY <1>1, <2>1
<1>6. Good(depth)
  BY <1>1, <1>5
<1>7. ASSUME n = 2 * depth + 1, Falling(a, 1, n) PROVE Sorted(f[depth], n)
  <2>1. PICK h \in Nat : h >= depth + 1 /\ Falling(f[depth], h, n)
    BY <1>6, <1>7
  <2>2. \A i \in 2..n : i \div 2 # h
    BY <1>1, <2>1, Halves
  <2> QED
    BY <2>1, <2>2 DEF Falling, Sorted
<1> QED
  BY <1>2, <1>6, <1>7 DEF depth

-----------------------------------------------------------------------------
\* The inductive invariant: the shape, and that no data is stored twice.
HeapInv ==
  /\ ShapeOK
  /\ size \in Nat /\ size >= 2
  /\ \A i, j \in 1..(current - 1) : array[i].data = array[j].data => i = j

\* The array with the new node at its end, before it rises.
Placed(a, d, p) ==
  /\ KnowSlots(a, current)
  /\ a[current] = [priority |-> p, index |-> current, data |-> d]
  /\ \A i \in 1..(current - 1) : a[i] = array[i]
  /\ 0..(size' - 1) \subseteq DOMAIN a
  /\ \A i \in (current + 1)..(size' - 1) : a[i] = Null

\* insert_node before its loop: the array, grown if it was full, with the node at
\* its end.
LEMMA InsertPlaces ==
  ASSUME HeapInv, NEW d \in Data, NEW p \in Priorities, InsertNode(d, p)
  PROVE  /\ size' \in Nat /\ size' >= 2 /\ current + 1 <= size'
         /\ \E a : /\ Placed(a, d, p)
                   /\ array' = SiftUp(a, current, (current + 1) \div 2)
<1> DEFINE full == ~(current = 1 /\ array[1] = Null) /\ occupied = size
           room == IF full THEN Grown(array) ELSE array
           node == [priority |-> p, index |-> current, data |-> d]
           a == [room EXCEPT ![current] = node]
<1>1. /\ array' = SiftUp(a, current, (current + 1) \div 2)
      /\ size' = IF full THEN 2 * size ELSE size
  BY DEF InsertNode
<1>2. /\ occupied = current /\ current \in Nat \ {0} /\ current <= size
      /\ size \in Nat /\ size >= 2
      /\ 0..(size - 1) \subseteq DOMAIN array
      /\ \A i \in 1..(current - 1) : array[i] \in Node /\ array[i].index = i
      /\ \A i \in current..(size - 1) : array[i] = Null
  BY DEF HeapInv, ShapeOK
<1>3. size' \in Nat /\ size' >= 2 /\ current + 1 <= size'
  <2>1. CASE full
    BY <1>1, <1>2, <2>1
  <2>2. CASE ~full
    <3>1. current < size
      BY <1>2, <2>2
    <3> QED
      BY <1>1, <1>2, <2>2, <3>1
  <2> QED
    BY <2>1, <2>2
<1>4. /\ 0..(size' - 1) \subseteq DOMAIN room
      /\ \A i \in 1..(current - 1) : room[i] = array[i]
      /\ \A i \in (current + 1)..(size' - 1) : room[i] = Null
  <2>1. CASE full
    <3>1. room = Grown(array) /\ size' = 2 * size
      BY <1>1, <2>1
    <3>2. DOMAIN room = 0..(2 * size)
      BY <3>1 DEF Grown
    <3>3. \A i \in 1..(current - 1) : room[i] = array[i]
      BY <1>2, <3>1 DEF Grown
    <3>4. \A i \in (current + 1)..(size' - 1) : room[i] = Null
      BY <1>2, <3>1 DEF Grown
    <3> QED
      BY <1>2, <3>1, <3>2, <3>3, <3>4
  <2>2. CASE ~full
    BY <1>1, <1>2, <2>2
  <2> QED
    BY <2>1, <2>2
<1>5. node \in Node /\ node.index = current
  BY <1>2 DEF Node
<1> HIDE DEF full, room, node
<1>6. /\ DOMAIN a = DOMAIN room /\ current \in DOMAIN room
      /\ a[current] = node
      /\ \A i \in DOMAIN room : i # current => a[i] = room[i]
  BY <1>2, <1>3, <1>4
<1> HIDE DEF a
<1>7. \A i \in 1..(current - 1) : i \in DOMAIN room /\ a[i] = array[i]
  <2>1. \A i \in 1..(current - 1) : i \in 0..(size' - 1) /\ i # current
    <3>1. current \in Nat /\ size' \in Nat /\ current + 1 <= size'
      BY <1>2, <1>3
    <3>2. \A m, k \in Nat : m + 1 <= k =>
            \A i \in 1..(m - 1) : i \in 0..(k - 1) /\ i # m
      OBVIOUS
    <3> QED
      BY <3>1, <3>2
  <2> QED
    BY <1>4, <1>6, <2>1
<1>8. \A i \in (current + 1)..(size' - 1) : a[i] = Null
  <2>1. \A i \in (current + 1)..(size' - 1) : i \in 0..(size' - 1) /\ i # current
    <3>1. current \in Nat /\ size' \in Nat /\ current + 1 <= size'
      BY <1>2, <1>3
    <3>2. \A m, k \in Nat : m + 1 <= k =>
            \A i \in (m + 1)..(k - 1) : i \in 0..(k - 1) /\ i # m
      OBVIOUS
    <3> QED
      BY <3>1, <3>2
  <2> QED
    BY <1>4, <1>6, <2>1
<1>9. KnowSlots(a, current)
  <2>1. 1..current \subseteq DOMAIN a
    <3>1. current \in Nat /\ size' \in Nat /\ current + 1 <= size'
      BY <1>2, <1>3
    <3>2. \A m, k \in Nat : m + 1 <= k => 1..m \subseteq 0..(k - 1)
      OBVIOUS
    <3>3. 1..current \subseteq 0..(size' - 1)
      BY <3>1, <3>2
    <3> QED
      BY <1>4, <1>6, <3>3
  <2>2. \A i \in 1..current : a[i] \in Node /\ a[i].index = i
    BY <1>2, <1>5, <1>6, <1>7
  <2> QED
    BY <2>1, <2>2 DEF KnowSlots
<1>10. Placed(a, d, p)
  BY <1>4, <1>6, <1>7, <1>8, <1>9 DEF Placed, node
<1> QED
  BY <1>1, <1>3, <1>10

\* insert_node adds its node and keeps shape and order.
LEMMA InsertWorks ==
  ASSUME HeapInv, NEW d \in Data, NEW p \in Priorities, InsertNode(d, p)
  PROVE  HeapInv' /\ Stored' = Stored \cup {d} /\ (Ordered => Ordered')
<1>1. /\ occupied = current /\ current \in Nat \ {0} /\ current <= size
      /\ \A i \in 1..(current - 1) : array[i] \in Node
      /\ \A i, j \in 1..(current - 1) : array[i].data = array[j].data => i = j
      /\ d \notin Stored /\ current' = current + 1 /\ occupied' = current'
  BY DEF HeapInv, ShapeOK, InsertNode
<1>2. size' \in Nat /\ size' >= 2 /\ current + 1 <= size'
  BY InsertPlaces
<1>3. PICK a : /\ Placed(a, d, p)
               /\ array' = SiftUp(a, current, (current + 1) \div 2)
  BY InsertPlaces
<1>4. /\ KnowSlots(a, current)
      /\ a[current].data = d
      /\ \A i \in 1..(current - 1) : a[i] = array[i]
      /\ 0..(size' - 1) \subseteq DOMAIN a
      /\ \A i \in (current + 1)..(size' - 1) : a[i] = Null
  BY <1>3 DEF Placed
<1>5. /\ KnowSlots(array', current) /\ Same(a, array', current) /\ Rest(a, array', current)
      /\ Rising(a, current, current) => Sorted(array', current)
  BY <1>1, <1>3, <1>4, SiftUpWorks
<1>6. ShapeOK'
  <2>1. 0..(size' - 1) \subseteq DOMAIN array'
    BY <1>4, <1>5 DEF Rest
  <2>2. \A i \in current'..(size' - 1) : array'[i] = Null
    <3>1. \A i \in current'..(size' - 1) : i \in DOMAIN a /\ i \notin 1..current
      BY <1>1, <1>4
    <3> QED
      BY <1>1, <1>4, <1>5, <3>1 DEF Rest
  <2>3. \A i \in 1..(current' - 1) : array'[i] \in Node /\ array'[i].index = i
    BY <1>1, <1>5 DEF KnowSlots
  <2>4. current' \in 1..size'
    BY <1>1, <1>2
  <2> QED
    BY <1>1, <2>1, <2>2, <2>3, <2>4 DEF ShapeOK
<1>7. {a[i].data : i \in 1..current} = Stored \cup {d}
  BY <1>1, <1>4 DEF Stored
<1>8. \A i, j \in 1..current : a[i].data = a[j].data => i = j
  BY <1>1, <1>4 DEF Stored
<1>9. Stored' = Stored \cup {d}
  <2>1. {array'[i].data : i \in 1..current} = Stored \cup {d}
    BY <1>5, <1>7 DEF Same
  <2>2. current' - 1 = current
    BY <1>1
  <2> QED
    BY <2>1, <2>2 DEF Stored
<1>10. \A i, j \in 1..(current' - 1) : array'[i].data = array'[j].data => i = j
  BY <1>1, <1>5, <1>8 DEF Same
<1>11. ASSUME Ordered PROVE Ordered'
  <2>1. \A i \in 2..current : i \div 2 \in 1..(current - 1) /\ i \div 2 < i
    BY <1>1, Halves
  <2>2. Rising(a, current, current)
    BY <1>1, <1>4, <1>11, <2>1 DEF Rising, Ordered
  <2> QED
    BY <1>1, <1>5, <2>2 DEF Sorted, Ordered
<1> QED
  BY <1>2, <1>6, <1>9, <1>10, <1>11 DEF HeapInv

\* The array without its last node, which is at the root, before it sinks.
Cut(a, n) ==
  /\ KnowSlots(a, n) /\ Ends(a, n)
  /\ DOMAIN a = DOMAIN array
  /\ n # 0 => a[1].data = array[n + 1].data /\ a[1].priority = array[n + 1].priority
  /\ \A i \in DOMAIN array : i # 1 /\ i # n + 1 => a[i] = array[i]

\* pop_node before its loop: the last node takes the place of the root.
LEMMA PopCuts ==
  ASSUME HeapInv, PopNode
  PROVE  /\ current - 2 \in Nat
         /\ \E a : Cut(a, current - 2) /\ array' = SiftDown(a, (current - 2) \div 2)
<1> DEFINE last == current - 1
           n == last - 1
           moved == [array EXCEPT ![1] = array[last]]
           cut == [moved EXCEPT ![last] = Null]
           top == IF cut[1] = Null THEN cut ELSE [cut EXCEPT ![1].index = 1]
<1>1. /\ occupied = current /\ current \in Nat /\ current >= 2 /\ current <= size
      /\ size \in Nat
      /\ 0..(size - 1) \subseteq DOMAIN array
      /\ \A i \in 1..last : array[i] \in Node /\ array[i].index = i
      /\ \A i \in current..(size - 1) : array[i] = Null
      /\ \A i, j \in 1..last : array[i].data = array[j].data => i = j
      /\ size' = size /\ occupied' = current' /\ current' = last
      /\ popped' = array[1]
  BY DEF HeapInv, ShapeOK, PopNode
<1>2. array' = SiftDown(top, (current - 2) \div 2)
  <2>1. last - 1 = current - 2
    BY <1>1
  <2>2. array' = SiftDown(top, (last - 1) \div 2)
    BY DEF PopNode
  <2> QED
    BY <2>1, <2>2
<1>3. n \in Nat /\ last \in Nat /\ last = n + 1 /\ 1..last \subseteq DOMAIN array
  BY <1>1
<1>4. /\ DOMAIN top = DOMAIN array
      /\ top[last] = Null
      /\ n # 0 => top[1] = [array[last] EXCEPT !.index = 1]
      /\ \A i \in DOMAIN array : i # 1 /\ i # last => top[i] = array[i]
  <2>1. array[last] # Null
    BY <1>1, <1>3, PriorityQueueAssumption
  <2>2. /\ DOMAIN cut = DOMAIN array /\ cut[last] = Null
        /\ n # 0 => cut[1] = array[last]
        /\ \A i \in DOMAIN array : i # 1 /\ i # last => cut[i] = array[i]
    BY <1>1, <1>3
  <2>3. n = 0 => top = cut
    BY <1>3, <2>2
  <2>4. n # 0 => top = [cut EXCEPT ![1].index = 1]
    BY <2>1, <2>2
  <2> HIDE DEF cut, top
  <2>5. CASE n = 0
    BY <2>2, <2>3, <2>5
  <2>6. CASE n # 0
    BY <1>1, <1>3, <2>2, <2>4, <2>6
  <2> QED
    BY <2>5, <2>6
<1> HIDE DEF top, cut, moved
<1>5. n # 0 => /\ top[1] \in Node /\ top[1].index = 1
               /\ top[1].data = array[last].data /\ top[1].priority = array[last].priority
  <2>1. \A r \in Node : /\ [r EXCEPT !.index = 1] \in Node
                        /\ [r EXCEPT !.index = 1].index = 1
                        /\ [r EXCEPT !.index = 1].data = r.data
                        /\ [r EXCEPT !.index = 1].priority = r.priority
    BY DEF Node
  <2>2. array[last] \in Node
    BY <1>1, <1>3
  <2> QED
    BY <1>4, <2>1, <2>2
<1>6. \A i \in 2..n : top[i] = array[i]
  BY <1>3, <1>4
<1>7. KnowSlots(top, n) /\ Ends(top, n)
  <2>1. 1..n \subseteq DOMAIN top /\ n + 1 \in DOMAIN top /\ top[n + 1] = Null
    BY <1>3, <1>4
  <2>2. \A i \in 1..n : top[i] \in Node /\ top[i].index = i
    BY <1>1, <1>3, <1>5, <1>6
  <2> QED
    BY <2>1, <2>2 DEF KnowSlots, Ends
<1>8. Cut(top, current - 2)
  <2>1. n = current - 2 /\ last = (current - 2) + 1
    BY <1>1
  <2> QED
    BY <1>3, <1>4, <1>5, <1>7, <2>1 DEF Cut
<1> QED
  BY <1>1, <1>2, <1>3, <1>8

\* pop_node removes the node it returns, keeps the shape, and the order if the
\* number of nodes left is odd.
LEMMA PopWorks ==
  ASSUME HeapInv, PopNode
  PROVE  /\ HeapInv' /\ Stored' = Stored \ {popped'.data}
         /\ Ordered /\ current' % 2 = 0 => Ordered'
<1> DEFINE last == current - 1
           n == current - 2
<1>1. /\ occupied = current /\ current \in Nat /\ current >= 2 /\ current <= size
      /\ size \in Nat
      /\ 0..(size - 1) \subseteq DOMAIN array
      /\ \A i \in 1..last : array[i] \in Node /\ array[i].index = i
      /\ \A i \in current..(size - 1) : array[i] = Null
      /\ \A i, j \in 1..last : array[i].data = array[j].data => i = j
      /\ size' = size /\ occupied' = current' /\ current' = last
      /\ popped' = array[1]
  BY DEF HeapInv, ShapeOK, PopNode
<1>2. PICK top : Cut(top, n) /\ array' = SiftDown(top, n \div 2)
  BY PopCuts
<1>3. n \in Nat /\ last \in Nat /\ last = n + 1 /\ 1..last \subseteq DOMAIN array
  BY <1>1, PopCuts
<1>4. /\ DOMAIN top = DOMAIN array
      /\ top[last] = Null
      /\ \A i \in DOMAIN array : i # 1 /\ i # last => top[i] = array[i]
  BY <1>2, <1>3 DEF Cut, Ends
<1>5. n # 0 => top[1].data = array[last].data
  BY <1>2, <1>3 DEF Cut
<1>6. \A i \in 2..n : top[i] = array[i]
  BY <1>3, <1>4
<1>7. KnowSlots(top, n) /\ Ends(top, n)
  BY <1>2 DEF Cut
<1>8. /\ KnowSlots(array', n) /\ Same(top, array', n) /\ Rest(top, array', n)
      /\ n = 2 * (n \div 2) + 1 /\ Falling(top, 1, n) => Sorted(array', n)
  BY <1>2, <1>3, <1>7, SiftDownWorks
<1>9. ShapeOK'
  <2>1. 0..(size' - 1) \subseteq DOMAIN array'
    BY <1>1, <1>4, <1>8 DEF Rest
  <2>2. \A i \in current'..(size' - 1) : array'[i] = Null
    <3>1. \A i \in last..(size - 1) : i \in DOMAIN top /\ i \notin 1..n /\ top[i] = Null
      <4>1. ASSUME NEW i \in last..(size - 1) PROVE i \in DOMAIN top /\ i \notin 1..n
        BY <1>1, <1>3, <1>4
      <4>2. ASSUME NEW i \in last..(size - 1) PROVE top[i] = Null
        <5>1. CASE i = last
          BY <1>4, <5>1
        <5>2. CASE i # last
          BY <1>1, <1>3, <1>4, <5>2
        <5> QED
          BY <5>1, <5>2
      <4> QED
        BY <4>1, <4>2
    <3> QED
      BY <1>1, <1>4, <1>8, <3>1 DEF Rest
  <2>3. \A i \in 1..(current' - 1) : array'[i] \in Node /\ array'[i].index = i
    BY <1>1, <1>8 DEF KnowSlots
  <2>4. current' \in 1..size'
    BY <1>1
  <2> QED
    BY <1>1, <2>1, <2>2, <2>3, <2>4 DEF ShapeOK
<1>10. {top[i].data : i \in 1..n} = Stored \ {array[1].data}
  <2>1. ASSUME NEW i \in 1..n PROVE top[i].data \in Stored \ {array[1].data}
    <3>1. CASE i = 1
      <4>1. top[1].data = array[last].data /\ last \in 1..last /\ 1 \in 1..last /\ last # 1
        BY <1>3, <1>5, <3>1
      <4> QED
        BY <1>1, <3>1, <4>1 DEF Stored
    <3>2. CASE i # 1
      BY <1>1, <1>3, <1>6, <3>2 DEF Stored
    <3> QED
      BY <3>1, <3>2
  <2>2. ASSUME NEW x \in Stored \ {array[1].data} PROVE \E i \in 1..n : top[i].data = x
    <3>1. PICK i \in 1..last : array[i].data = x
      BY DEF Stored
    <3>2. i # 1
      BY <3>1
    <3>3. CASE i = last
      <4>1. last # 1
        BY <3>2, <3>3
      <4>2. n # 0
        BY <1>3, <4>1
      <4>3. 1 \in 1..n
        <5>1. \A m \in Nat : m # 0 => 1 \in 1..m
          OBVIOUS
        <5> QED
          BY <1>3, <4>2, <5>1
      <4> QED
        BY <1>5, <3>1, <3>3, <4>2, <4>3
    <3>4. CASE i # last
      BY <1>3, <1>6, <3>1, <3>2, <3>4
    <3> QED
      BY <3>3, <3>4
  <2> QED
    BY <2>1, <2>2
<1>11. \A i, j \in 1..n : top[i].data = top[j].data => i = j
  <2>1. \A i \in 1..n : top[i].data = array[IF i = 1 THEN last ELSE i].data
    BY <1>3, <1>5, <1>6
  <2> QED
    BY <1>1, <1>3, <2>1
<1>12. Stored' = Stored \ {popped'.data}
  <2>1. {array'[i].data : i \in 1..n} = Stored \ {array[1].data}
    BY <1>8, <1>10 DEF Same
  <2>2. current' - 1 = n
    BY <1>1, <1>3
  <2> QED
    BY <1>1, <2>1, <2>2 DEF Stored
<1>13. \A i, j \in 1..(current' - 1) : array'[i].data = array'[j].data => i = j
  BY <1>1, <1>8, <1>11 DEF Same
<1>14. ASSUME Ordered, current' % 2 = 0 PROVE Ordered'
  <2>1. n = 2 * (n \div 2) + 1
    BY <1>1, <1>3, <1>14
  <2>2. \A i \in 2..n : i \div 2 # 1 => i \div 2 \in 2..n
    BY <1>3, Halves
  <2>3. Falling(top, 1, n)
    BY <1>1, <1>3, <1>6, <1>14, <2>2 DEF Falling, Ordered
  <2> QED
    BY <1>1, <1>8, <2>1, <2>3 DEF Sorted, Ordered
<1> QED
  BY <1>1, <1>9, <1>12, <1>13, <1>14 DEF HeapInv

\* An initialised heap is empty and in shape.
LEMMA HeapInit == Init => HeapInv
BY PriorityQueueAssumption DEF Init, HeapInv, ShapeOK

\* Every operation of the heap keeps the invariant.
LEMMA HeapStep == HeapInv /\ [Next]_vars => HeapInv'
<1> SUFFICES ASSUME HeapInv, [Next]_vars PROVE HeapInv'
  OBVIOUS
<1>1. CASE PopNothing \/ UNCHANGED vars
  BY <1>1 DEF PopNothing, vars, HeapInv, ShapeOK
<1> QED
  BY <1>1, InsertWorks, PopWorks DEF Next

\* ShapeOK: the nodes fill the slots below current and know them, and the slot the
\* next insert writes is allocated, for every heap and any number of operations.
THEOREM HeapShape == Spec => []ShapeOK
<1>1. HeapInv => ShapeOK
  BY DEF HeapInv
<1> QED
  BY <1>1, HeapInit, HeapStep, PTL DEF Spec

\* NothingLost: insert_node and pop_node lose no node and store none twice.
THEOREM HeapLosesNothing == Spec => NothingLost
<1> DEFINE Step == /\ \A i, j \in 1..(current' - 1) :
                          array'[i].data = array'[j].data => i = j
                   /\ IF current' < current THEN Stored' = Stored \ {popped'.data}
                                            ELSE Stored \subseteq Stored'
<1>1. HeapInv /\ [Next]_vars => [Step]_<<array, current>>
  <2> SUFFICES ASSUME HeapInv, Next, ~(UNCHANGED <<array, current>>) PROVE Step
    BY DEF vars
  <2>1. HeapInv'
    BY HeapStep
  <2>2. \A i, j \in 1..(current' - 1) : array'[i].data = array'[j].data => i = j
    BY <2>1 DEF HeapInv
  <2>3. current \in Nat
    BY DEF HeapInv, ShapeOK
  <2>4. ASSUME NEW d \in Data, NEW p \in Priorities, InsertNode(d, p) PROVE Step
    <3>1. current' = current + 1 /\ Stored \subseteq Stored'
      BY <2>4, InsertWorks DEF InsertNode
    <3> QED
      BY <2>2, <2>3, <3>1
  <2>5. CASE PopNode
    <3>1. current' = current - 1 /\ Stored' = Stored \ {popped'.data}
      BY <2>5, PopWorks DEF PopNode
    <3> QED
      BY <2>2, <2>3, <3>1
  <2>6. CASE PopNothing
    BY <2>6 DEF PopNothing
  <2> QED
    BY <2>4, <2>5, <2>6 DEF Next
<1> QED
  BY <1>1, HeapInit, HeapStep, PTL DEF Spec, NothingLost

\* OrderKept: an insert keeps the heap order, and so does a pop that leaves no
\* inner slot with one child.
THEOREM HeapKeepsOrder == Spec => OrderKept
<1> DEFINE Step == Ordered /\ (current' >= current \/ current' % 2 = 0) => Ordered'
<1>1. HeapInv /\ [Next]_vars => [Step]_vars
  <2> SUFFICES ASSUME HeapInv, Next PROVE Step
    OBVIOUS
  <2>1. CASE PopNode
    <3>1. current' < current
      BY <2>1 DEF PopNode, HeapInv, ShapeOK
    <3>2. current \in Nat /\ current' \in Nat
      BY <2>1 DEF PopNode, HeapInv, ShapeOK
    <3>3. ~(current' >= current)
      BY <3>1, <3>2
    <3> QED
      BY <2>1, <3>3, PopWorks
  <2>2. CASE PopNothing
    BY <2>2 DEF PopNothing, Ordered
  <2> QED
    BY <2>1, <2>2, InsertWorks DEF Next
<1> QED
  BY <1>1, HeapInit, HeapStep, PTL DEF Spec, OrderKept

-----------------------------------------------------------------------------
\* All priorities of the slots 1..n are the same.
Level(a, n) == \A i, j \in 1..n : a[i].priority = a[j].priority

\* Among equal priorities no node rises,
LEMMA UpStays ==
  ASSUME NEW a, NEW n \in Nat \ {0}, KnowSlots(a, n), Level(a, n), NEW depth \in Nat
  PROVE  SiftUp(a, n, depth) = a
<1> DEFINE c == [a |-> a, at |-> n]
<1>1. PICK f : /\ SiftUp(a, n, depth) = f[depth].a
               /\ f[0] = c
               /\ \A d \in 1..depth : f[d] = Raised(f[d - 1])
  BY UpRounds
<1>2. Raised(c) = c
  <2>1. n = 1 \/ n \div 2 \in 1..n
    BY Halves
  <2>2. \A i \in 1..n : a[i].priority \in Nat
    BY PriorityQueueAssumption DEF KnowSlots, Node
  <2>3. n \div 2 \in 1..n => Settled(a[n \div 2], a[n])
    BY <2>2 DEF Level, Settled
  <2>4. Done(c)
    BY <2>1, <2>3 DEF Done
  <2>5. c.a = a /\ c.at = n
    OBVIOUS
  <2> HIDE DEF c
  <2> QED
    BY <2>4 DEF Raised, Done
<1> DEFINE S == {d \in Nat : d <= depth => f[d] = c}
<1> HIDE DEF c
<1>3. 0 \in S
  BY <1>1
<1>4. ASSUME NEW d \in Nat, d \in S PROVE d + 1 \in S
  BY <1>1, <1>2, <1>4
<1>5. depth \in S
  <2> HIDE DEF S
  <2>1. Nat \subseteq S
    BY <1>3, <1>4, SetInduction
  <2> QED
    BY <2>1
<1> QED
  BY <1>1, <1>5 DEF c

\* and none sinks.
LEMMA DownStays ==
  ASSUME NEW a, NEW n \in Nat, KnowSlots(a, n), Ends(a, n), Level(a, n)
  PROVE  SiftDown(a, n \div 2) = a
<1> DEFINE depth == n \div 2
<1>1. depth \in Nat /\ 2 * depth <= n
  BY Halves
<1>2. ASSUME NEW i \in 1..(n \div 2) PROVE Lowered(a, i) = a
  <2>1. ASSUME 2 * i + 1 <= n, NEW c \in {2 * i, 2 * i + 1}
        PROVE  ~(a[i].priority < a[c].priority)
    <3>1. i \in 1..n /\ c \in 1..n
      BY <2>1
    <3>2. \A j \in 1..n : a[j].priority \in Nat
      BY PriorityQueueAssumption DEF KnowSlots, Node
    <3> QED
      BY <3>1, <3>2 DEF Level
  <2> QED
    BY <2>1, LoweredCases
<1> HIDE DEF depth
<1>3. PICK f : /\ SiftDown(a, depth) = f[depth]
               /\ f[0] = a
               /\ \A i \in 1..depth : f[i] = Lowered(f[i - 1], i)
  BY <1>1, DownPasses
<1> DEFINE S == {i \in Nat : i <= depth => f[i] = a}
<1>4. 0 \in S
  BY <1>3
<1>5. ASSUME NEW i \in Nat, i \in S PROVE i + 1 \in S
  <2>1. i + 1 <= depth => i + 1 \in 1..(n \div 2)
    BY <1>1 DEF depth
  <2> QED
    BY <1>1, <1>2, <1>3, <1>5, <2>1
<1>6. depth \in S
  <2> HIDE DEF S
  <2>1. Nat \subseteq S
    BY <1>4, <1>5, SetInduction
  <2> QED
    BY <1>1, <2>1
<1> QED
  BY <1>1, <1>3, <1>6 DEF depth

\* A function on 1..n is a sequence of length n.
LEMMA CutOne ==
  ASSUME NEW n \in Nat, NEW T, NEW f \in [1..n -> T]
  PROVE  f \in Seq(T) /\ Len(f) = n
BY SeqDef

\* With one priority insert_node appends to what the heap holds.
LEMMA InsertAppends ==
  ASSUME HeapInv, NEW d \in Data, NEW p \in Priorities, InsertNode(d, p),
         SamePriority'
  PROVE  Contents' = Ops!Insert(Contents, d)
<1>1. /\ current \in Nat \ {0} /\ current' - 1 = current
      /\ \A i \in 1..(current - 1) : array[i] \in Node
  BY DEF HeapInv, ShapeOK, InsertNode
<1>2. PICK a : /\ Placed(a, d, p)
               /\ array' = SiftUp(a, current, (current + 1) \div 2)
  BY InsertPlaces
<1>3. /\ KnowSlots(a, current)
      /\ a[current].data = d
      /\ \A i \in 1..(current - 1) : a[i] = array[i]
  BY <1>2 DEF Placed
<1>4. Same(a, array', current)
  BY <1>1, <1>2, <1>3, SiftUpWorks
<1>5. Level(a, current)
  <2>1. \A i, j \in 1..current : array'[i].priority = array'[j].priority
    BY <1>1 DEF SamePriority
  <2>2. {array'[i].priority : i \in 1..current} = {a[i].priority : i \in 1..current}
    BY <1>4 DEF Same
  <2> QED
    BY <2>1, <2>2 DEF Level
<1>6. array' = a
  BY <1>1, <1>2, <1>3, <1>5, Halves, UpStays
<1> DEFINE q == [i \in 1..(current - 1) |-> array[i].data]
           r == [i \in 1..current |-> a[i].data]
           T == {a[i].data : i \in 1..current}
<1>7. q \in Seq(T) /\ Len(q) = current - 1 /\ r \in Seq(T) /\ Len(r) = current
  <2>1. q \in [1..(current - 1) -> T] /\ r \in [1..current -> T]
    BY <1>1, <1>3
  <2> HIDE DEF q, r, T
  <2>2. current - 1 \in Nat /\ current \in Nat
    BY <1>1
  <2> QED
    BY <2>1, <2>2, CutOne
<1>8. d \in T /\ r[current] = d /\ \A i \in 1..(current - 1) : r[i] = q[i]
  BY <1>1, <1>3
<1>9. Contents = q /\ Contents' = r
  BY <1>1, <1>6 DEF Contents
<1> HIDE DEF q, r, T
<1>10. r = Append(q, d)
  <2>1. /\ Append(q, d) \in Seq(T) /\ Len(Append(q, d)) = current
        /\ \A i \in 1..current : Append(q, d)[i] = IF i = current THEN d ELSE q[i]
    BY <1>1, <1>7, <1>8, AppendProperties
  <2>2. \A i \in 1..Len(r) : r[i] = Append(q, d)[i]
    BY <1>1, <1>7, <1>8, <2>1
  <2> QED
    BY <1>7, <2>1, <2>2, SeqEqual
<1> QED
  BY <1>9, <1>10 DEF Ops!Insert

\* With one priority pop_node returns the first of what the heap holds and puts
\* the last in its place.
LEMMA PopMoves ==
  ASSUME HeapInv, PopNode, SamePriority
  PROVE  /\ popped' # Null
         /\ popped'.data = Contents[1]
         /\ Contents' = Ops!PopRest(Contents)
<1> DEFINE n == current - 2
<1>1. /\ current \in Nat /\ current >= 2 /\ current' - 1 = n /\ popped' = array[1]
      /\ current - 1 = n + 1 /\ n \in Nat
      /\ \A i \in 1..(current - 1) : array[i] \in Node
      /\ 0..(size - 1) \subseteq DOMAIN array /\ size \in Nat /\ current <= size
  BY DEF HeapInv, ShapeOK, PopNode
<1> HIDE DEF n
<1>2. PICK top : Cut(top, n) /\ array' = SiftDown(top, n \div 2)
  BY PopCuts DEF n
<1>3. /\ KnowSlots(top, n) /\ Ends(top, n)
      /\ n # 0 => top[1].data = array[n + 1].data
                  /\ top[1].priority = array[n + 1].priority
      /\ \A i \in 2..n : top[i] = array[i]
  <2>1. \A i \in 2..n : i \in DOMAIN array /\ i # 1 /\ i # n + 1
    BY <1>1
  <2> QED
    BY <1>2, <2>1 DEF Cut
<1>4. Level(top, n)
  <2>1. \A i \in 1..n : top[i].priority = array[IF i = 1 THEN n + 1 ELSE i].priority
    BY <1>1, <1>3
  <2> QED
    BY <1>1, <2>1 DEF Level, SamePriority
<1>5. array' = top
  BY <1>1, <1>2, <1>3, <1>4, DownStays
<1>6. popped' # Null /\ popped'.data = Contents[1]
  <2>1. 1 \in 1..(current - 1)
    BY <1>1
  <2> QED
    BY <1>1, <2>1, PriorityQueueAssumption DEF Contents
<1> DEFINE T == {array[i].data : i \in 1..(current - 1)}
<1>7. Len(Contents) = n + 1
  <2>1. Contents \in [1..(n + 1) -> T]
    BY <1>1 DEF Contents
  <2> QED
    BY <1>1, <2>1, CutOne
<1>8. Contents' = [i \in 1..n |-> top[i].data]
  BY <1>1, <1>5 DEF Contents
<1>9. \A i \in 1..(n + 1) : Contents[i] = array[i].data
  BY <1>1 DEF Contents
<1>10. (n + 1) - 1 = n
  BY <1>1
<1>11. \A i \in 1..n : top[i].data = IF i = 1 THEN Contents[n + 1] ELSE Contents[i]
  BY <1>1, <1>3, <1>9
<1> QED
  BY <1>6, <1>7, <1>8, <1>10, <1>11 DEF Ops!PopRest

\* ActsAsCallQueue: while all nodes have one priority, as in the call core, the
\* heap is the queue of QueueOps that CallBus uses.
THEOREM HeapIsCallQueue == Spec => ActsAsCallQueue
<1> DEFINE Step ==
      SamePriority /\ SamePriority' =>
       \/ \E d \in Data : Contents' = Ops!Insert(Contents, d)
       \/ /\ popped' # Null
          /\ popped'.data = Contents[1]
          /\ Contents' = Ops!PopRest(Contents)
<1>1. HeapInv /\ [Next]_vars => [Step]_Contents
  <2> SUFFICES ASSUME HeapInv, [Next]_vars, ~(UNCHANGED Contents), SamePriority, SamePriority'
               PROVE  Step
    OBVIOUS
  <2>1. CASE PopNothing \/ UNCHANGED vars
    BY <2>1 DEF PopNothing, vars, Contents
  <2>2. CASE PopNode
    BY <2>2, PopMoves
  <2>3. CASE \E d \in Data, p \in Priorities : InsertNode(d, p)
    BY <2>3, InsertAppends
  <2> QED
    BY <2>1, <2>2, <2>3 DEF Next
<1> QED
  BY <1>1, HeapInit, HeapStep, PTL DEF Spec, ActsAsCallQueue
=============================================================================
