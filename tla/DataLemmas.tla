----------------------------- MODULE DataLemmas -----------------------------
(***************************************************************************)
(* Facts about numbers and sequences that the proofs about the heap, the   *)
(* table, the textures and the codec share.                                *)
(***************************************************************************)
EXTENDS Integers, SequencesExt, SequenceTheorems, FiniteSetTheorems,
        WellFoundedInduction, TLAPS

\* The order of the natural numbers is well-founded.
LEMMA NatWellFounded == IsWellFoundedOn({p \in Nat \X Nat : p[1] < p[2]}, Nat)
BY NatLessThanWellFounded DEF OpToRel

\* A set with 0 that holds the successor of each of its numbers holds all of
\* them.  The lemmas on the loops use it with the numbers of rounds after which
\* what they say is true.
LEMMA SetInduction ==
  ASSUME NEW S, 0 \in S, \A n \in Nat : n \in S => n + 1 \in S
  PROVE  Nat \subseteq S
<1> DEFINE T == {n \in Nat : n \notin S}
           R == {p \in Nat \X Nat : p[1] < p[2]}
<1>1. SUFFICES ASSUME T # {} PROVE FALSE
  OBVIOUS
<1>2. IsWellFoundedOn(R, Nat)
  BY NatWellFounded
<1>3. T \subseteq Nat
  OBVIOUS
<1>4. \E x \in T : \A y \in T : ~ (<<y, x>> \in R)
  <2> HIDE DEF T, R
  <2> QED
    BY <1>1, <1>2, <1>3, WFMin
<1>5. PICK x \in T : \A y \in T : ~ (<<y, x>> \in R)
  BY <1>4
<1>6. x # 0 /\ x \in Nat /\ x \notin S
  OBVIOUS
<1>7. x - 1 \in Nat /\ x - 1 \notin S
  BY <1>6
<1>8. x - 1 \in T /\ <<x - 1, x>> \in R
  BY <1>6, <1>7
<1> QED
  BY <1>5, <1>8

\* A set of natural numbers has a least one.
LEMMA LeastIs ==
  ASSUME NEW S, S \subseteq Nat, S # {}
  PROVE  Min(S) \in S /\ \A y \in S : Min(S) <= y
<1> DEFINE R == {p \in Nat \X Nat : p[1] < p[2]}
<1>1. \E x \in S : \A y \in S : ~ (<<y, x>> \in R)
  <2>1. IsWellFoundedOn(R, Nat)
    BY NatWellFounded
  <2> HIDE DEF R
  <2> QED
    BY <2>1, WFMin
<1>2. PICK x \in S : \A y \in S : ~ (<<y, x>> \in R)
  BY <1>1
<1>3. \A y \in S : x <= y
  <2> TAKE y \in S
  <2>1. ~ (<<y, x>> \in R) /\ y \in Nat /\ x \in Nat
    BY <1>2
  <2> QED
    BY <2>1
<1> QED
  BY <1>3 DEF Min

\* The recursive function in FlattenSeq exists.
LEMMA FlattenExists ==
  ASSUME NEW s, NEW n \in Nat
  PROVE  \E f : f = [i \in 1..n |-> IF i = 1 THEN s[i] ELSE f[i - 1] \o s[i]]
<1> DEFINE S == {m \in Nat :
                   \E f : f = [i \in 1..m |-> IF i = 1 THEN s[i] ELSE f[i - 1] \o s[i]]}
<1>1. 0 \in S
  <2> DEFINE f == [i \in 1..0 |-> s[i]]
  <2>1. f = [i \in 1..0 |-> IF i = 1 THEN s[i] ELSE f[i - 1] \o s[i]]
    OBVIOUS
  <2> QED
    BY <2>1
<1>2. ASSUME NEW m \in Nat, m \in S PROVE m + 1 \in S
  <2>1. PICK f : f = [i \in 1..m |-> IF i = 1 THEN s[i] ELSE f[i - 1] \o s[i]]
    BY <1>2
  <2> DEFINE new == IF m = 0 THEN s[1] ELSE f[m] \o s[m + 1]
             g == [i \in 1..(m + 1) |-> IF i = m + 1 THEN new ELSE f[i]]
  <2> HIDE DEF new
  <2>2. \A i \in 1..(m + 1) : g[i] = IF i = 1 THEN s[i] ELSE g[i - 1] \o s[i]
    <3>1. \A i \in 1..m : f[i] = IF i = 1 THEN s[i] ELSE f[i - 1] \o s[i]
      BY <2>1
    <3>2. g[m + 1] = new /\ \A i \in 1..m : g[i] = f[i]
      OBVIOUS
    <3>3. ASSUME NEW i \in 1..m PROVE g[i] = IF i = 1 THEN s[i] ELSE g[i - 1] \o s[i]
      BY <3>1, <3>2
    <3>4. g[m + 1] = IF m + 1 = 1 THEN s[m + 1] ELSE g[(m + 1) - 1] \o s[m + 1]
      <4>1. m = 0 \/ m \in 1..m
        OBVIOUS
      <4> HIDE DEF g
      <4> QED
        BY <3>2, <4>1 DEF new
    <3> HIDE DEF g
    <3>5. \A i \in 1..(m + 1) : i \in 1..m \/ i = m + 1
      OBVIOUS
    <3> QED
      BY <3>3, <3>4, <3>5
  <2>3. g = [i \in 1..(m + 1) |-> IF i = 1 THEN s[i] ELSE g[i - 1] \o s[i]]
    BY <2>2
  <2>4. \E h : h = [i \in 1..(m + 1) |-> IF i = 1 THEN s[i] ELSE h[i - 1] \o s[i]]
    <3> HIDE DEF g
    <3> QED
      BY <2>3
  <2>5. m + 1 \in Nat
    OBVIOUS
  <2> QED
    BY <2>4, <2>5
<1>3. Nat \subseteq S
  <2> HIDE DEF S
  <2> QED
    BY <1>1, <1>2, SetInduction
<1> QED
  BY <1>3

\* FlattenSeq joins the sequences one after the other.
LEMMA FlattenRounds ==
  ASSUME NEW s, Len(s) \in Nat \ {0}
  PROVE  \E f : /\ FlattenSeq(s) = f[Len(s)]
                /\ f[1] = s[1]
                /\ \A i \in 2..Len(s) : f[i] = f[i - 1] \o s[i]
<1> DEFINE flatten[i \in 1..Len(s)] == IF i = 1 THEN s[i] ELSE flatten[i - 1] \o s[i]
<1>1. FlattenSeq(s) = flatten[Len(s)]
  BY DEF FlattenSeq
<1>2. flatten = [i \in 1..Len(s) |-> IF i = 1 THEN s[i] ELSE flatten[i - 1] \o s[i]]
  BY FlattenExists
<1> HIDE DEF flatten
<1>3. \A i \in 1..Len(s) : flatten[i] = IF i = 1 THEN s[i] ELSE flatten[i - 1] \o s[i]
  BY <1>2
<1>4. flatten[1] = s[1]
  <2>1. 1 \in 1..Len(s)
    OBVIOUS
  <2> QED
    BY <1>3, <2>1
<1>5. \A i \in 2..Len(s) : flatten[i] = flatten[i - 1] \o s[i]
  <2>1. \A i \in 2..Len(s) : i \in 1..Len(s) /\ i # 1
    OBVIOUS
  <2> QED
    BY <1>3, <2>1
<1> QED
  BY <1>1, <1>4, <1>5

\* The elements of a sequence.
Elements(q) == {q[i] : i \in 1..Len(q)}

\* Two sequences joined have the elements of both.
LEMMA ConcatFacts ==
  ASSUME NEW S, NEW p \in Seq(S), NEW q \in Seq(S)
  PROVE  LET r == p \o q
         IN /\ r \in Seq(S) /\ Len(r) = Len(p) + Len(q)
            /\ \A j \in 1..Len(r) : \/ j \in 1..Len(p) /\ r[j] = p[j]
                                    \/ j - Len(p) \in 1..Len(q) /\ r[j] = q[j - Len(p)]
            /\ \A j \in 1..Len(p) : j \in 1..Len(r) /\ r[j] = p[j]
            /\ \A j \in 1..Len(q) : j + Len(p) \in 1..Len(r) /\ r[j + Len(p)] = q[j]
            /\ Elements(r) = Elements(p) \cup Elements(q)
<1> DEFINE r == p \o q
<1>1. /\ r \in Seq(S) /\ Len(r) = Len(p) + Len(q) /\ Len(p) \in Nat /\ Len(q) \in Nat
      /\ \A j \in 1..(Len(p) + Len(q)) :
           r[j] = IF j <= Len(p) THEN p[j] ELSE q[j - Len(p)]
  BY ConcatProperties
<1> HIDE DEF r
<1>2. ASSUME NEW j \in 1..Len(r)
      PROVE  \/ j \in 1..Len(p) /\ r[j] = p[j]
             \/ j - Len(p) \in 1..Len(q) /\ r[j] = q[j - Len(p)]
  <2>1. CASE j <= Len(p)
    BY <1>1, <2>1
  <2>2. CASE ~(j <= Len(p))
    BY <1>1, <2>2
  <2> QED
    BY <2>1, <2>2
<1>3. \A j \in 1..Len(p) : j \in 1..Len(r) /\ r[j] = p[j]
  BY <1>1
<1>4. ASSUME NEW j \in 1..Len(q) PROVE j + Len(p) \in 1..Len(r) /\ r[j + Len(p)] = q[j]
  <2>1. /\ j + Len(p) \in 1..(Len(p) + Len(q)) /\ ~(j + Len(p) <= Len(p))
        /\ (j + Len(p)) - Len(p) = j
    BY <1>1
  <2> QED
    BY <1>1, <2>1
<1>5. Elements(r) = Elements(p) \cup Elements(q)
  <2>1. Elements(r) \subseteq Elements(p) \cup Elements(q)
    BY <1>2 DEF Elements
  <2>2. ASSUME NEW j \in 1..Len(p) PROVE p[j] \in Elements(r)
    BY <1>3 DEF Elements
  <2>3. ASSUME NEW j \in 1..Len(q) PROVE q[j] \in Elements(r)
    BY <1>4 DEF Elements
  <2>4. Elements(p) \cup Elements(q) \subseteq Elements(r)
    BY <2>2, <2>3 DEF Elements
  <2> QED
    BY <2>1, <2>4
<1> QED
  BY <1>1, <1>2, <1>3, <1>4, <1>5 DEF r

\* A sequence with an element in front.
LEMMA ConsWorks ==
  ASSUME NEW S, NEW s \in Seq(S), NEW e \in S
  PROVE  LET r == <<e>> \o s
         IN /\ r \in Seq(S) /\ Len(r) = Len(s) + 1 /\ r[1] = e
            /\ \A i \in 1..Len(s) : r[i + 1] = s[i]
            /\ \A i \in 2..Len(r) : r[i] = s[i - 1]
OBVIOUS

\* RemoveAt takes one element out and moves those behind it.
LEMMA RemoveAtWorks ==
  ASSUME NEW S, NEW s \in Seq(S), NEW at \in 1..Len(s)
  PROVE  LET r == RemoveAt(s, at)
         IN /\ r \in Seq(S) /\ Len(r) = Len(s) - 1
            /\ \A i \in 1..Len(r) : r[i] = s[IF i < at THEN i ELSE i + 1]
<1> DEFINE p == SubSeq(s, 1, at - 1)
           q == SubSeq(s, at + 1, Len(s))
           r == RemoveAt(s, at)
<1>1. Len(s) \in Nat /\ at \in Nat /\ 1 <= at /\ at <= Len(s)
  OBVIOUS
<1>2. p \in Seq(S) /\ Len(p) = at - 1 /\ \A i \in 1..(at - 1) : p[i] = s[i]
  BY <1>1
<1>3. /\ q \in Seq(S) /\ Len(q) = Len(s) - at
      /\ \A i \in 1..(Len(s) - at) : q[i] = s[at + i]
  <2>1. at + 1 \in Int /\ Len(s) \in Int /\ \A i \in (at + 1)..Len(s) : s[i] \in S
    BY <1>1
  <2>2. /\ q \in Seq(S)
        /\ Len(q) = IF at + 1 <= Len(s) THEN Len(s) - (at + 1) + 1 ELSE 0
        /\ \A i \in 1..(Len(s) - (at + 1) + 1) : q[i] = s[(at + 1) + i - 1]
    BY <2>1, SubSeqProperties
  <2> HIDE DEF q
  <2>3. /\ Len(s) - (at + 1) + 1 = Len(s) - at
        /\ \A i \in 1..(Len(s) - at) : (at + 1) + i - 1 = at + i
        /\ ~(at + 1 <= Len(s)) => Len(s) - at = 0
    BY <1>1
  <2>4. Len(q) = Len(s) - at
    BY <2>2, <2>3
  <2>5. ASSUME NEW i \in 1..(Len(s) - at) PROVE q[i] = s[at + i]
    BY <2>2, <2>3
  <2> QED
    BY <2>2, <2>4, <2>5
<1>4. r = p \o q
  BY DEF RemoveAt
<1> HIDE DEF r, p, q
<1>5. /\ r \in Seq(S) /\ Len(r) = Len(s) - 1
      /\ \A i \in 1..Len(r) : r[i] = IF i <= at - 1 THEN p[i] ELSE q[i - (at - 1)]
  <2>1. Len(p) + Len(q) = Len(s) - 1
    BY <1>1, <1>2, <1>3
  <2>2. /\ p \o q \in Seq(S) /\ Len(p \o q) = Len(p) + Len(q)
        /\ \A i \in 1..(Len(p) + Len(q)) :
             (p \o q)[i] = IF i <= Len(p) THEN p[i] ELSE q[i - Len(p)]
    BY <1>2, <1>3, ConcatProperties
  <2> QED
    BY <1>2, <1>4, <2>1, <2>2
<1>6. ASSUME NEW i \in 1..Len(r) PROVE r[i] = s[IF i < at THEN i ELSE i + 1]
  <2>1. CASE i < at
    BY <1>1, <1>2, <1>5, <2>1
  <2>2. CASE ~(i < at)
    <3>1. /\ i - (at - 1) \in 1..(Len(s) - at) /\ at + (i - (at - 1)) = i + 1
          /\ ~(i <= at - 1)
      BY <1>1, <1>5, <2>2
    <3> QED
      BY <1>3, <1>5, <2>2, <3>1
  <2> QED
    BY <2>1, <2>2
<1> QED
  BY <1>5, <1>6 DEF r

\* InsertAt puts one element at its place and moves those from there on.
LEMMA InsertAtWorks ==
  ASSUME NEW S, NEW s \in Seq(S), NEW at \in 1..(Len(s) + 1), NEW e \in S
  PROVE  LET r == InsertAt(s, at, e)
         IN /\ r \in Seq(S) /\ Len(r) = Len(s) + 1
            /\ r[at] = e
            /\ \A i \in 1..Len(s) : r[IF i < at THEN i ELSE i + 1] = s[i]
<1> DEFINE p == SubSeq(s, 1, at - 1)
           q == SubSeq(s, at, Len(s))
           m == p \o <<e>>
           r == InsertAt(s, at, e)
           n == Len(s)
<1>1. n \in Nat /\ at \in Nat /\ 1 <= at /\ at <= n + 1
  OBVIOUS
<1>2. p \in Seq(S) /\ Len(p) = at - 1 /\ \A i \in 1..(at - 1) : p[i] = s[i]
  <2>1. 1 \in Int /\ at - 1 \in Int /\ \A i \in 1..(at - 1) : s[i] \in S
    BY <1>1
  <2>2. /\ p \in Seq(S)
        /\ Len(p) = IF 1 <= at - 1 THEN at - 1 - 1 + 1 ELSE 0
        /\ \A i \in 1..(at - 1 - 1 + 1) : p[i] = s[1 + i - 1]
    BY <2>1, SubSeqProperties
  <2> HIDE DEF p
  <2>3. /\ at - 1 - 1 + 1 = at - 1
        /\ \A i \in 1..(at - 1) : 1 + i - 1 = i
        /\ ~(1 <= at - 1) => at - 1 = 0
    BY <1>1
  <2>4. Len(p) = at - 1
    BY <2>2, <2>3
  <2>5. ASSUME NEW i \in 1..(at - 1) PROVE p[i] = s[i]
    BY <2>2, <2>3
  <2> QED
    BY <2>2, <2>4, <2>5
<1>3. /\ q \in Seq(S) /\ Len(q) = n + 1 - at
      /\ \A i \in 1..(n + 1 - at) : q[i] = s[at + i - 1]
  <2>1. at \in Int /\ Len(s) \in Int /\ \A i \in at..Len(s) : s[i] \in S
    BY <1>1
  <2>2. /\ q \in Seq(S)
        /\ Len(q) = IF at <= Len(s) THEN Len(s) - at + 1 ELSE 0
        /\ \A i \in 1..(Len(s) - at + 1) : q[i] = s[at + i - 1]
    BY <2>1, SubSeqProperties
  <2> HIDE DEF q
  <2>3. /\ Len(s) - at + 1 = n + 1 - at
        /\ ~(at <= Len(s)) => n + 1 - at = 0
    BY <1>1
  <2> QED
    BY <2>2, <2>3
<1>4. r = m \o q
  BY DEF InsertAt
<1>5. m \in Seq(S) /\ Len(m) = at /\ m[at] = e /\ \A i \in 1..(at - 1) : m[i] = s[i]
  <2> HIDE DEF p
  <2>1. /\ <<e>> \in Seq(S) /\ Len(<<e>>) = 1 /\ <<e>>[1] = e
    OBVIOUS
  <2>2. /\ m \in Seq(S) /\ Len(m) = Len(p) + 1
        /\ \A i \in 1..(Len(p) + 1) : m[i] = IF i <= Len(p) THEN p[i] ELSE <<e>>[i - Len(p)]
    BY <1>2, <2>1, ConcatProperties
  <2> HIDE DEF m
  <2>3. at - 1 + 1 = at /\ at \in 1..at /\ ~(at <= at - 1) /\ at - (at - 1) = 1
        /\ \A i \in 1..(at - 1) : i \in 1..at /\ i <= at - 1
    BY <1>1
  <2>4. m[at] = <<e>>[1]
    <3>1. at \in 1..(Len(p) + 1) /\ ~(at <= Len(p)) /\ at - Len(p) = 1
      BY <1>1, <1>2
    <3>2. m[at] = <<e>>[at - Len(p)]
      BY <2>2, <3>1
    <3> QED
      BY <3>1, <3>2
  <2> QED
    BY <1>2, <2>1, <2>2, <2>3, <2>4
<1> HIDE DEF r, p, q, m
<1>6. /\ r \in Seq(S) /\ Len(r) = n + 1
      /\ \A i \in 1..(n + 1) : r[i] = IF i <= at THEN m[i] ELSE q[i - at]
  <2>1. Len(m) + Len(q) = n + 1
    BY <1>1, <1>3, <1>5
  <2>2. /\ m \o q \in Seq(S) /\ Len(m \o q) = Len(m) + Len(q)
        /\ \A i \in 1..(Len(m) + Len(q)) :
             (m \o q)[i] = IF i <= Len(m) THEN m[i] ELSE q[i - Len(m)]
    BY <1>3, <1>5, ConcatProperties
  <2> QED
    BY <1>4, <1>5, <2>1, <2>2
<1>7. r[at] = e
  BY <1>1, <1>5, <1>6
<1>8. ASSUME NEW i \in 1..n PROVE r[IF i < at THEN i ELSE i + 1] = s[i]
  <2>1. CASE i < at
    <3>1. i \in 1..(at - 1) /\ i \in 1..(n + 1) /\ i <= at
      BY <1>1, <2>1
    <3> QED
      BY <1>5, <1>6, <2>1, <3>1
  <2>2. CASE ~(i < at)
    <3>1. /\ i + 1 \in 1..(n + 1) /\ ~(i + 1 <= at)
          /\ i + 1 - at \in 1..(n + 1 - at) /\ at + (i + 1 - at) - 1 = i
      BY <1>1, <2>2
    <3>2. r[i + 1] = q[i + 1 - at]
      BY <1>6, <3>1
    <3>3. q[i + 1 - at] = s[i]
      BY <1>3, <3>1
    <3> QED
      BY <2>2, <3>2, <3>3
  <2> QED
    BY <2>1, <2>2
<1> QED
  BY <1>6, <1>7, <1>8 DEF r

\* A sequence without a repetition has as many elements as its length.
LEMMA CountElements ==
  ASSUME NEW S, NEW q \in Seq(S), \A i, j \in 1..Len(q) : q[i] = q[j] => i = j
  PROVE  IsFiniteSet(Elements(q)) /\ Cardinality(Elements(q)) = Len(q)
<1> DEFINE n == Len(q)
<1>1. n \in Nat /\ q \in [1..n -> S]
  OBVIOUS
<1>2. q \in Surjection(1..n, Elements(q)) /\ q \in Injection(1..n, Elements(q))
  <2>1. q \in [1..n -> Elements(q)]
    BY <1>1 DEF Elements
  <2>2. \A x \in Elements(q) : \E i \in 1..n : q[i] = x
    BY DEF Elements
  <2>3. DOMAIN q = 1..n
    BY <1>1
  <2> QED
    BY <2>1, <2>2, <2>3 DEF Surjection, Injection, IsInjective
<1>3. IsFiniteSet(1..n) /\ Cardinality(1..n) = n
  <2>1. 1 \in Int /\ n \in Int /\ n - 1 + 1 = n /\ (1 > n => n = 0)
    BY <1>1
  <2> HIDE DEF n
  <2> QED
    BY <2>1, FS_Interval
<1> QED
  BY <1>2, <1>3, FS_Surjection
=============================================================================
