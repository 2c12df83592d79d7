-------------------------- MODULE Containers_proofs -------------------------
(***************************************************************************)
(* The proofs about the hash table and the textures, for any keys, hashes, *)
(* values and first size: a key is found where it is looked for, the table *)
(* implements the associative map, and the names in drawing order agree    *)
(* with it.                                                                *)
(*                                                                         *)
(* A table is taken as the set of its pairs (Pairs): an operation is shown *)
(* to change that set as a map would, and to keep each pair in the bucket  *)
(* of its key (Shape).                                                     *)
(***************************************************************************)
EXTENDS MCContainers, PriorityQueue_proofs

\* A node of a chain.
Entry == [key : Keys, value : Values]

\* A table of n slots: every node is in the bucket of its key, alone with its key.
Shape(t, n) ==
  /\ t \in [slots : [0..(n - 1) -> Seq(Entry)], count : Nat]
  /\ \A b \in 0..(n - 1) : \A i, j \in 1..Len(t.slots[b]) :
       /\ Bucket(t.slots[b][i].key, n) = b
       /\ t.slots[b][i].key = t.slots[b][j].key => i = j

\* The keys and values a table of n slots holds.
Pairs(t, n) ==
  {e \in Entry : \E b \in 0..(n - 1) : \E i \in 1..Len(t.slots[b]) : t.slots[b][i] = e}

\* The table holds the key k.
Has(t, n, k) == \E e \in Pairs(t, n) : e.key = k

\* What the definition of Shape says, taken apart.
LEMMA ShapeFacts ==
  ASSUME NEW t, NEW n, Shape(t, n)
  PROVE  /\ t.slots \in [0..(n - 1) -> Seq(Entry)] /\ t.count \in Nat
         /\ t = [slots |-> t.slots, count |-> t.count]
         /\ \A b \in 0..(n - 1) :
              /\ t.slots[b] \in Seq(Entry) /\ Len(t.slots[b]) \in Nat
              /\ \A i \in 1..Len(t.slots[b]) :
                   /\ t.slots[b][i] \in Entry
                   /\ Bucket(t.slots[b][i].key, n) = b
                   /\ \A j \in 1..Len(t.slots[b]) :
                        t.slots[b][i].key = t.slots[b][j].key => i = j
<1>1. /\ t.slots \in [0..(n - 1) -> Seq(Entry)] /\ t.count \in Nat
      /\ t = [slots |-> t.slots, count |-> t.count]
  BY DEF Shape
<1>2. \A b \in 0..(n - 1) : t.slots[b] \in Seq(Entry)
  BY <1>1
<1>3. \A q \in Seq(Entry) : Len(q) \in Nat /\ \A i \in 1..Len(q) : q[i] \in Entry
  OBVIOUS
<1> QED
  BY <1>1, <1>2, <1>3 DEF Shape

\* The buckets of a table of n slots are 0..n-1, and a key is looked for in one
\* of them.
LEMMA ShapeSize ==
  ASSUME NEW t, NEW n \in Nat \ {0}, Shape(t, n)
  PROVE  /\ Size(t) = n
         /\ \A k \in Keys : Bucket(k, n) \in 0..(n - 1) /\ Chain(t, k) = t.slots[Bucket(k, n)]
<1>1. DOMAIN t.slots = 0..(n - 1)
  BY DEF Shape
<1>2. Cardinality(0..(n - 1)) = n
  <2>1. 0 \in Int /\ n - 1 \in Int /\ ~(0 > n - 1) /\ (n - 1) - 0 + 1 = n
    OBVIOUS
  <2> QED
    BY <2>1, FS_Interval
<1>3. \A k \in Keys : Hash[k] \in Nat
  BY HashTableAssumption
<1>4. \A k \in Keys : Hash[k] % n \in 0..(n - 1)
  BY <1>3
<1> QED
  BY <1>1, <1>2, <1>4 DEF Size, Bucket, Chain

\* hashtable_get finds the one value a key has, if it has one.
LEMMA LookupIs ==
  ASSUME NEW t, NEW n \in Nat \ {0}, Shape(t, n), NEW k \in Keys
  PROVE  /\ HasKey(Chain(t, k), k) <=> Has(t, n, k)
         /\ Has(t, n, k) => /\ Lookup(t, k) \in Values
                            /\ [key |-> k, value |-> Lookup(t, k)] \in Pairs(t, n)
         /\ \A e \in Pairs(t, n) : e.key = k => e = [key |-> k, value |-> Lookup(t, k)]
         /\ ~Has(t, n, k) => Lookup(t, k) = NoValue
<1> DEFINE b == Bucket(k, n)
           chain == Chain(t, k)
           found == {i \in 1..Len(chain) : chain[i].key = k}
<1>1. b \in 0..(n - 1) /\ chain = t.slots[b] /\ chain \in Seq(Entry)
  BY ShapeSize, ShapeFacts
<1>2. Len(chain) \in Nat /\ \A i \in 1..Len(chain) : chain[i] \in Entry
  BY <1>1
<1>3. \A i, j \in 1..Len(chain) : chain[i].key = chain[j].key => i = j
  BY <1>1 DEF Shape
<1>4. \A e \in Pairs(t, n) : e.key = k => e \in Entry /\ \E i \in found : chain[i] = e
  <2> TAKE e \in Pairs(t, n)
  <2> HAVE e.key = k
  <2>1. PICK c \in 0..(n - 1) : \E i \in 1..Len(t.slots[c]) : t.slots[c][i] = e
    BY DEF Pairs
  <2>2. PICK i \in 1..Len(t.slots[c]) : t.slots[c][i] = e
    BY <2>1
  <2>3. c = b
    BY <2>2 DEF Shape
  <2> QED
    BY <1>1, <2>2, <2>3 DEF Pairs
<1>5. \A i \in found : chain[i] \in Pairs(t, n)
  BY <1>1, <1>2 DEF Pairs
<1>6. HasKey(chain, k) <=> found # {}
  BY DEF HasKey
<1>7. Has(t, n, k) <=> found # {}
  BY <1>4, <1>5 DEF Has
<1>8. ASSUME NEW i \in found PROVE Lookup(t, k) = chain[i].value
  <2>1. found = {i} /\ i \in Nat
    BY <1>3, <1>8
  <2>2. \A j \in found : j <= i
    BY <2>1
  <2>3. (CHOOSE m \in found : \A j \in found : j <= m) = i
    BY <2>1, <2>2
  <2>4. Lookup(t, k) = chain[CHOOSE m \in found : \A j \in found : j <= m].value
    BY <2>1 DEF Lookup
  <2> QED
    BY <2>3, <2>4
<1>9. found = {} => Lookup(t, k) = NoValue
  BY DEF Lookup
<1>10. ASSUME NEW e \in Pairs(t, n), e.key = k
       PROVE  e = [key |-> k, value |-> Lookup(t, k)]
  <2>1. PICK i \in found : chain[i] = e
    BY <1>4, <1>10
  <2> QED
    BY <1>4, <1>8, <1>10, <2>1 DEF Entry
<1>11. ASSUME Has(t, n, k) PROVE Lookup(t, k) \in Values
                           /\ [key |-> k, value |-> Lookup(t, k)] \in Pairs(t, n)
  <2>1. PICK e \in Pairs(t, n) : e.key = k
    BY <1>11 DEF Has
  <2>2. e = [key |-> k, value |-> Lookup(t, k)] /\ e \in Entry
    BY <1>4, <1>10, <2>1
  <2>3. e.value = Lookup(t, k) /\ e.value \in Values
    BY <2>2 DEF Entry
  <2> QED
    BY <2>1, <2>2, <2>3
<1> QED
  BY <1>6, <1>7, <1>9, <1>10, <1>11

\* A chain of bucket b of n.
Chained(q, b, n) ==
  /\ q \in Seq(Entry)
  /\ \A i, j \in 1..Len(q) : /\ Bucket(q[i].key, n) = b
                             /\ q[i].key = q[j].key => i = j

\* The pairs of the keys of a bucket are the elements of its chain.
LEMMA PairsOfBucket ==
  ASSUME NEW t, NEW n \in Nat \ {0}, Shape(t, n), NEW b \in 0..(n - 1)
  PROVE  /\ Chained(t.slots[b], b, n)
         /\ {e \in Pairs(t, n) : Bucket(e.key, n) = b} = Elements(t.slots[b])
<1>1. /\ t.slots[b] \in Seq(Entry)
      /\ \A c \in 0..(n - 1) : \A i \in 1..Len(t.slots[c]) :
           /\ t.slots[c][i] \in Entry
           /\ Bucket(t.slots[c][i].key, n) = c
           /\ \A j \in 1..Len(t.slots[c]) :
                t.slots[c][i].key = t.slots[c][j].key => i = j
  BY ShapeFacts
<1>2. Chained(t.slots[b], b, n)
  BY <1>1 DEF Chained
<1>3. ASSUME NEW e \in Pairs(t, n), Bucket(e.key, n) = b
      PROVE  e \in Elements(t.slots[b])
  <2>1. PICK c \in 0..(n - 1) : \E i \in 1..Len(t.slots[c]) : t.slots[c][i] = e
    BY DEF Pairs
  <2>2. PICK i \in 1..Len(t.slots[c]) : t.slots[c][i] = e
    BY <2>1
  <2>3. c = b
    BY <1>1, <1>3, <2>2
  <2> QED
    BY <2>2, <2>3 DEF Elements
<1>4. ASSUME NEW i \in 1..Len(t.slots[b])
      PROVE  t.slots[b][i] \in Pairs(t, n) /\ Bucket(t.slots[b][i].key, n) = b
  BY <1>1 DEF Pairs
<1> QED
  BY <1>2, <1>3, <1>4 DEF Elements

\* A table with another chain of bucket b holds the pairs of that chain and those
\* of the other buckets.
LEMMA ChainChanged ==
  ASSUME NEW t, NEW n \in Nat \ {0}, Shape(t, n), NEW b \in 0..(n - 1),
         NEW q, Chained(q, b, n), NEW m \in Nat
  PROVE  LET r == [slots |-> [t.slots EXCEPT ![b] = q], count |-> m]
         IN /\ Shape(r, n)
            /\ Pairs(r, n) = {e \in Pairs(t, n) : Bucket(e.key, n) # b} \cup Elements(q)
<1> DEFINE r == [slots |-> [t.slots EXCEPT ![b] = q], count |-> m]
<1>1. /\ t.slots \in [0..(n - 1) -> Seq(Entry)]
      /\ \A c \in 0..(n - 1) : \A i \in 1..Len(t.slots[c]) :
           /\ t.slots[c][i] \in Entry
           /\ Bucket(t.slots[c][i].key, n) = c
           /\ \A j \in 1..Len(t.slots[c]) :
                t.slots[c][i].key = t.slots[c][j].key => i = j
  BY ShapeFacts
<1>2. /\ q \in Seq(Entry)
      /\ \A i \in 1..Len(q) : q[i] \in Entry
      /\ \A i, j \in 1..Len(q) : /\ Bucket(q[i].key, n) = b
                                 /\ q[i].key = q[j].key => i = j
  BY DEF Chained
<1>3. /\ r \in [slots : [0..(n - 1) -> Seq(Entry)], count : Nat]
      /\ r.slots[b] = q
      /\ \A c \in 0..(n - 1) : c # b => r.slots[c] = t.slots[c]
  BY <1>1, <1>2
<1> HIDE DEF r
<1>4. Shape(r, n)
  <2>1. ASSUME NEW c \in 0..(n - 1), NEW i \in 1..Len(r.slots[c]),
               NEW j \in 1..Len(r.slots[c])
        PROVE  /\ Bucket(r.slots[c][i].key, n) = c
               /\ r.slots[c][i].key = r.slots[c][j].key => i = j
    <3>1. CASE c = b
      BY <1>2, <1>3, <2>1, <3>1
    <3>2. CASE c # b
      <4>1. r.slots[c] = t.slots[c]
        BY <1>3, <3>2
      <4> QED
        BY <1>1, <2>1, <4>1
    <3> QED
      BY <3>1, <3>2
  <2> QED
    BY <1>3, <2>1 DEF Shape
<1>5. ASSUME NEW e \in Pairs(r, n)
      PROVE  e \in {f \in Pairs(t, n) : Bucket(f.key, n) # b} \cup Elements(q)
  <2>1. PICK c \in 0..(n - 1) : \E i \in 1..Len(r.slots[c]) : r.slots[c][i] = e
    BY DEF Pairs
  <2>2. PICK i \in 1..Len(r.slots[c]) : r.slots[c][i] = e
    BY <2>1
  <2>3. CASE c = b
    BY <1>3, <2>2, <2>3 DEF Elements
  <2>4. CASE c # b
    <3>1. i \in 1..Len(t.slots[c]) /\ t.slots[c][i] = e
      BY <1>3, <2>2, <2>4
    <3> QED
      BY <1>1, <2>4, <3>1 DEF Pairs
  <2> QED
    BY <2>3, <2>4
<1>6. ASSUME NEW e \in Pairs(t, n), Bucket(e.key, n) # b
      PROVE  e \in Pairs(r, n)
  <2>1. PICK c \in 0..(n - 1) : \E i \in 1..Len(t.slots[c]) : t.slots[c][i] = e
    BY DEF Pairs
  <2>2. PICK i \in 1..Len(t.slots[c]) : t.slots[c][i] = e
    BY <2>1
  <2>3. c # b
    BY <1>1, <1>6, <2>2
  <2>4. r.slots[c] = t.slots[c]
    BY <1>3, <2>3
  <2> QED
    BY <2>2, <2>4 DEF Pairs
<1>7. Elements(q) \subseteq Pairs(r, n)
  BY <1>2, <1>3 DEF Elements, Pairs
<1>8. Pairs(r, n) = {e \in Pairs(t, n) : Bucket(e.key, n) # b} \cup Elements(q)
  BY <1>5, <1>6, <1>7
<1> QED
  BY <1>4, <1>8 DEF r

\* A node of a new key in front of its chain.
LEMMA PrependWorks ==
  ASSUME NEW t, NEW n \in Nat \ {0}, Shape(t, n), NEW e \in Entry, ~Has(t, n, e.key)
  PROVE  LET r == Prepend(t, e)
         IN Shape(r, n) /\ Pairs(r, n) = Pairs(t, n) \cup {e} /\ r.count = t.count + 1
<1> DEFINE b == Bucket(e.key, n)
           s == t.slots[b]
           q == <<e>> \o s
           r == Prepend(t, e)
<1>1. /\ e.key \in Keys /\ b \in 0..(n - 1) /\ Size(t) = n
      /\ t.count \in Nat /\ s \in Seq(Entry)
  <2>1. e.key \in Keys
    BY DEF Entry
  <2> QED
    BY <2>1, ShapeSize, ShapeFacts
<1>2. Chained(s, b, n) /\ {f \in Pairs(t, n) : Bucket(f.key, n) = b} = Elements(s)
  BY <1>1, PairsOfBucket
<1>3. r = [slots |-> [t.slots EXCEPT ![b] = q], count |-> t.count + 1]
  BY <1>1 DEF Prepend
<1>4. /\ q \in Seq(Entry) /\ Len(q) = Len(s) + 1 /\ q[1] = e /\ Len(s) \in Nat
      /\ \A i \in 1..Len(s) : q[i + 1] = s[i]
      /\ \A i \in 2..Len(q) : q[i] = s[i - 1]
  BY <1>1, ConsWorks
<1>5. \A i \in 1..Len(s) : /\ s[i].key # e.key /\ Bucket(s[i].key, n) = b
                          /\ \A j \in 1..Len(s) : s[i].key = s[j].key => i = j
  BY <1>2 DEF Has, Elements, Chained
<1>6. b = Bucket(e.key, n)
  OBVIOUS
<1> HIDE DEF r, q, s, b
<1>7. \A i \in 1..Len(q) : i # 1 => i - 1 \in 1..Len(s) /\ q[i] = s[i - 1]
  BY <1>4
<1>8. Chained(q, b, n)
  <2> SUFFICES ASSUME NEW i \in 1..Len(q), NEW j \in 1..Len(q)
               PROVE  Bucket(q[i].key, n) = b /\ (q[i].key = q[j].key => i = j)
    BY <1>4 DEF Chained
  <2>1. CASE i = 1
    BY <1>4, <1>5, <1>6, <1>7, <2>1
  <2>2. CASE i # 1 /\ j = 1
    BY <1>4, <1>5, <1>7, <2>2
  <2>3. CASE i # 1 /\ j # 1
    <3>1. /\ i - 1 \in 1..Len(s) /\ q[i] = s[i - 1]
          /\ j - 1 \in 1..Len(s) /\ q[j] = s[j - 1]
      BY <1>7, <2>3
    <3>2. q[i].key = q[j].key => i - 1 = j - 1
      BY <1>5, <3>1
    <3>3. Bucket(q[i].key, n) = b
      BY <1>5, <3>1
    <3> QED
      BY <3>2, <3>3
  <2> QED
    BY <2>1, <2>2, <2>3
<1>9. Elements(q) = Elements(s) \cup {e}
  <2>1. \A i \in 1..Len(s) : i + 1 \in 1..Len(q)
    BY <1>4
  <2>2. 1 \in 1..Len(q)
    BY <1>4
  <2>3. ASSUME NEW i \in 1..Len(q) PROVE q[i] \in Elements(s) \cup {e}
    BY <1>4, <1>7 DEF Elements
  <2>4. ASSUME NEW i \in 1..Len(s) PROVE s[i] \in Elements(q)
    BY <1>4, <2>1 DEF Elements
  <2>5. e \in Elements(q)
    BY <1>4, <2>2 DEF Elements
  <2> QED
    BY <2>3, <2>4, <2>5 DEF Elements
<1>10. /\ Shape(r, n)
       /\ Pairs(r, n) = {f \in Pairs(t, n) : Bucket(f.key, n) # b} \cup Elements(q)
       /\ r.count = t.count + 1
  <2>1. t.count + 1 \in Nat
    BY <1>1
  <2> QED
    BY <1>1, <1>3, <1>8, <2>1, ChainChanged
<1>11. Pairs(r, n) = Pairs(t, n) \cup {e}
  BY <1>2, <1>9, <1>10
<1> QED
  BY <1>10, <1>11 DEF r

\* A put of a key that has a node.
LEMMA ReplaceWorks ==
  ASSUME NEW t, NEW n \in Nat \ {0}, Shape(t, n), NEW k \in Keys, NEW v \in Values,
         Has(t, n, k)
  PROVE  LET r == WithPut(t, k, v)
         IN /\ Shape(r, n) /\ r.count = t.count
            /\ Pairs(r, n) = {e \in Pairs(t, n) : e.key # k}
                               \cup {[key |-> k, value |-> v]}
<1> DEFINE b == Bucket(k, n)
           s == t.slots[b]
           q == [i \in 1..Len(s) |-> IF s[i].key = k THEN [s[i] EXCEPT !.value = v]
                                     ELSE s[i]]
           r == WithPut(t, k, v)
           new == [key |-> k, value |-> v]
<1>1. /\ b \in 0..(n - 1) /\ Size(t) = n /\ Chain(t, k) = s
      /\ t.count \in Nat /\ s \in Seq(Entry) /\ Len(s) \in Nat
      /\ t = [slots |-> t.slots, count |-> t.count]
      /\ t.slots \in [0..(n - 1) -> Seq(Entry)]
      /\ \A i \in 1..Len(s) : s[i] \in Entry
  BY ShapeSize, ShapeFacts
<1>2. Chained(s, b, n) /\ {f \in Pairs(t, n) : Bucket(f.key, n) = b} = Elements(s)
  BY <1>1, PairsOfBucket
<1>3. r = [slots |-> [t.slots EXCEPT ![b] = q], count |-> t.count]
  <2>1. HasKey(Chain(t, k), k)
    BY LookupIs
  <2>2. r = [t EXCEPT !.slots[b] = q]
    BY <1>1, <2>1 DEF WithPut
  <2> HIDE DEF q
  <2> QED
    BY <1>1, <2>2
<1>4. /\ q \in Seq(Entry) /\ Len(q) = Len(s)
      /\ \A i \in 1..Len(s) : q[i] = IF s[i].key = k THEN new ELSE s[i]
      /\ new \in Entry
  <2>1. \A i \in 1..Len(s) : s[i].key = k => [s[i] EXCEPT !.value = v] = new
    BY <1>1 DEF Entry
  <2>2. new \in Entry
    BY DEF Entry
  <2>3. \A i \in 1..Len(s) : q[i] = IF s[i].key = k THEN new ELSE s[i]
    BY <2>1
  <2>4. q \in [1..Len(s) -> Entry]
    BY <1>1, <2>1, <2>2
  <2> HIDE DEF q, s
  <2>5. q \in Seq(Entry) /\ Len(q) = Len(s)
    BY <1>1, <2>4, SeqDef
  <2> QED
    BY <2>2, <2>3, <2>5
<1>5. \A i \in 1..Len(s) : /\ Bucket(s[i].key, n) = b
                          /\ \A j \in 1..Len(s) : s[i].key = s[j].key => i = j
  BY <1>2 DEF Chained
<1>6. new.key = k /\ b = Bucket(k, n)
  OBVIOUS
<1>7. \E i \in 1..Len(s) : s[i].key = k
  BY <1>1, LookupIs DEF HasKey
<1> HIDE DEF r, q, s, b, new
<1>8. \A i \in 1..Len(s) : q[i].key = s[i].key
  BY <1>4, <1>6
<1>9. Chained(q, b, n)
  BY <1>4, <1>5, <1>8 DEF Chained
<1>10. Elements(q) = {e \in Elements(s) : e.key # k} \cup {new}
  BY <1>4, <1>7 DEF Elements
<1>11. /\ Shape(r, n) /\ r.count = t.count
       /\ Pairs(r, n) = {f \in Pairs(t, n) : Bucket(f.key, n) # b} \cup Elements(q)
  <2>1. t.count \in Nat /\ b \in 0..(n - 1)
    BY <1>1
  <2>2. /\ Shape(r, n)
        /\ Pairs(r, n) = {f \in Pairs(t, n) : Bucket(f.key, n) # b} \cup Elements(q)
    BY <1>3, <1>9, <2>1, ChainChanged
  <2> QED
    BY <1>3, <2>2
<1>12. Pairs(r, n) = {e \in Pairs(t, n) : e.key # k} \cup {new}
  <2>1. \A e : Bucket(e.key, n) # b => e.key # k
    BY <1>6
  <2> QED
    BY <1>2, <1>10, <1>11, <2>1
<1> QED
  BY <1>11, <1>12 DEF r, new

\* hashtable_remove takes away the node of its key and no other.
LEMMA RemoveWorks ==
  ASSUME NEW t, NEW n \in Nat \ {0}, Shape(t, n), NEW k \in Keys,
         Has(t, n, k), t.count # 0
  PROVE  LET r == WithRemoved(t, k)
         IN /\ Shape(r, n) /\ r.count = t.count - 1
            /\ Pairs(r, n) = {e \in Pairs(t, n) : e.key # k}
<1> DEFINE b == Bucket(k, n)
           s == t.slots[b]
           found == {i \in 1..Len(s) : s[i].key = k}
           at == Min(found)
           q == RemoveAt(s, at)
           r == WithRemoved(t, k)
<1>1. /\ b \in 0..(n - 1) /\ Size(t) = n /\ Chain(t, k) = s
      /\ t.count \in Nat /\ s \in Seq(Entry) /\ Len(s) \in Nat
      /\ t.slots \in [0..(n - 1) -> Seq(Entry)]
      /\ \A i \in 1..Len(s) : s[i] \in Entry
  BY ShapeSize, ShapeFacts
<1>2. Chained(s, b, n) /\ {f \in Pairs(t, n) : Bucket(f.key, n) = b} = Elements(s)
  BY <1>1, PairsOfBucket
<1>3. \A i \in 1..Len(s) : /\ Bucket(s[i].key, n) = b
                          /\ \A j \in 1..Len(s) : s[i].key = s[j].key => i = j
  BY <1>2 DEF Chained
<1>4. r = [slots |-> [t.slots EXCEPT ![b] = q], count |-> t.count - 1]
  BY <1>1 DEF WithRemoved
<1>5. at \in 1..Len(s) /\ s[at].key = k
  <2>1. PICK i \in 1..Len(s) : s[i].key = k
    <3>1. HasKey(Chain(t, k), k)
      BY LookupIs
    <3> QED
      BY <1>1, <3>1 DEF HasKey
  <2>2. found = {i}
    BY <1>3, <2>1
  <2>3. i <= i
    BY <2>1
  <2>4. at = i
    BY <2>2, <2>3 DEF Min
  <2> QED
    BY <2>1, <2>4
<1>6. b = Bucket(k, n)
  OBVIOUS
<1> HIDE DEF at, found
<1>7. /\ q \in Seq(Entry) /\ Len(q) = Len(s) - 1
      /\ \A i \in 1..Len(q) : q[i] = s[IF i < at THEN i ELSE i + 1]
  BY <1>1, <1>5, RemoveAtWorks
<1> HIDE DEF r, q, s, b
<1> DEFINE from(i) == IF i < at THEN i ELSE i + 1
<1>8. /\ \A i \in 1..Len(q) : /\ from(i) \in 1..Len(s) /\ from(i) # at
                              /\ q[i] = s[from(i)]
      /\ \A i, j \in 1..Len(q) : from(i) = from(j) => i = j
      /\ \A i \in 1..Len(s) : i # at => \E j \in 1..Len(q) : from(j) = i
  <2>1. ASSUME NEW i \in 1..Len(s), i # at PROVE \E j \in 1..Len(q) : from(j) = i
    <3>1. CASE i < at
      <4>1. i \in 1..Len(q) /\ from(i) = i
        BY <1>1, <1>5, <1>7, <2>1, <3>1
      <4> QED
        BY <4>1
    <3>2. CASE ~(i < at)
      <4>1. i - 1 \in 1..Len(q) /\ from(i - 1) = i
        BY <1>1, <1>5, <1>7, <2>1, <3>2
      <4> QED
        BY <4>1
    <3> QED
      BY <3>1, <3>2
  <2>2. ASSUME NEW i \in 1..Len(q)
        PROVE  from(i) \in 1..Len(s) /\ from(i) # at /\ q[i] = s[from(i)]
    BY <1>1, <1>5, <1>7
  <2>3. ASSUME NEW i \in 1..Len(q), NEW j \in 1..Len(q), from(i) = from(j)
        PROVE  i = j
    <3>1. i \in Nat /\ j \in Nat /\ at \in Nat
      BY <1>5, <1>7
    <3> QED
      BY <2>3, <3>1
  <2> QED
    BY <2>1, <2>2, <2>3
<1> HIDE DEF from
<1>9. Chained(q, b, n)
  <2>1. ASSUME NEW i \in 1..Len(q), NEW j \in 1..Len(q)
        PROVE  Bucket(q[i].key, n) = b /\ (q[i].key = q[j].key => i = j)
    <3>1. /\ from(i) \in 1..Len(s) /\ q[i] = s[from(i)]
          /\ from(j) \in 1..Len(s) /\ q[j] = s[from(j)]
          /\ from(i) = from(j) => i = j
      BY <1>8
    <3> QED
      BY <1>3, <3>1
  <2> QED
    BY <1>7, <2>1 DEF Chained
<1>10. Elements(q) = {e \in Elements(s) : e.key # k}
  <2>1. ASSUME NEW i \in 1..Len(q) PROVE q[i] \in Elements(s) /\ q[i].key # k
    BY <1>3, <1>5, <1>8 DEF Elements
  <2>2. ASSUME NEW i \in 1..Len(s), s[i].key # k PROVE s[i] \in Elements(q)
    <3>1. i # at
      BY <1>5, <2>2
    <3>2. PICK j \in 1..Len(q) : from(j) = i
      BY <1>8, <3>1
    <3>3. q[j] = s[i]
      BY <1>8, <3>2
    <3> QED
      BY <3>3 DEF Elements
  <2> QED
    BY <2>1, <2>2 DEF Elements
<1>11. /\ Shape(r, n) /\ r.count = t.count - 1
       /\ Pairs(r, n) = {f \in Pairs(t, n) : Bucket(f.key, n) # b} \cup Elements(q)
  <2>1. t.count - 1 \in Nat /\ b \in 0..(n - 1)
    BY <1>1
  <2>2. /\ Shape(r, n)
        /\ Pairs(r, n) = {f \in Pairs(t, n) : Bucket(f.key, n) # b} \cup Elements(q)
    BY <1>4, <1>9, <2>1, ChainChanged
  <2> QED
    BY <1>4, <2>2
<1>12. Pairs(r, n) = {e \in Pairs(t, n) : e.key # k}
  <2>1. \A e : Bucket(e.key, n) # b => e.key # k
    BY <1>6
  <2> QED
    BY <1>2, <1>10, <1>11, <2>1
<1> QED
  BY <1>11, <1>12 DEF r

-----------------------------------------------------------------------------
\* ht_keys and the loops of a resize visit every pair of the table once.
LEMMA NodesWork ==
  ASSUME NEW t, NEW n \in Nat \ {0}, Shape(t, n)
  PROVE  /\ Nodes(t) \in Seq(Entry)
         /\ Elements(Nodes(t)) = Pairs(t, n)
         /\ \A i, j \in 1..Len(Nodes(t)) : Nodes(t)[i].key = Nodes(t)[j].key => i = j
         /\ IsFiniteSet(Pairs(t, n)) /\ Cardinality(Pairs(t, n)) = Len(Nodes(t))
<1> DEFINE s == [i \in 1..n |-> t.slots[i - 1]]
<1>1. Size(t) = n
  BY ShapeSize
<1>2. /\ Len(s) = n
      /\ \A i \in 1..n : s[i] = t.slots[i - 1]
  <2>1. \A i \in 1..n : i - 1 \in 0..(n - 1)
    OBVIOUS
  <2>2. \A i \in 1..n : t.slots[i - 1] \in Seq(Entry)
    BY <2>1, ShapeFacts
  <2>3. s \in [1..n -> Seq(Entry)]
    BY <2>2
  <2>4. \A i \in 1..n : s[i] = t.slots[i - 1]
    OBVIOUS
  <2> HIDE DEF s
  <2>5. Len(s) = n
    BY <2>3, SeqDef
  <2> QED
    BY <2>4, <2>5
<1>3. Nodes(t) = FlattenSeq(s)
  BY <1>1 DEF Nodes
<1> HIDE DEF s
<1>4. PICK f : /\ FlattenSeq(s) = f[n]
               /\ f[1] = s[1]
               /\ \A i \in 2..n : f[i] = f[i - 1] \o s[i]
  BY <1>2, FlattenRounds
<1> DEFINE Good(i) ==
             /\ f[i] \in Seq(Entry)
             /\ Elements(f[i]) = {e \in Pairs(t, n) : Bucket(e.key, n) < i}
             /\ \A j, l \in 1..Len(f[i]) : f[i][j].key = f[i][l].key => j = l
           S == {i \in Nat : i + 1 <= n => Good(i + 1)}
<1>5. \A e \in Pairs(t, n) : Bucket(e.key, n) \in 0..(n - 1)
  BY ShapeSize DEF Pairs, Entry
<1>6. ASSUME NEW i \in 0..(n - 1)
      PROVE  /\ Chained(t.slots[i], i, n)
             /\ {e \in Pairs(t, n) : Bucket(e.key, n) = i} = Elements(t.slots[i])
  BY PairsOfBucket
<1>7. 0 \in S
  <2> DEFINE q == t.slots[0]
  <2>1. f[1] = q /\ 0 \in 0..(n - 1)
    BY <1>2, <1>4
  <2>2. Chained(q, 0, n) /\ {e \in Pairs(t, n) : Bucket(e.key, n) = 0} = Elements(q)
    BY <1>6, <2>1
  <2>3. \A e \in Pairs(t, n) : Bucket(e.key, n) = 0 <=> Bucket(e.key, n) < 1
    BY <1>5
  <2> HIDE DEF q
  <2>4. {e \in Pairs(t, n) : Bucket(e.key, n) = 0} = {e \in Pairs(t, n) : Bucket(e.key, n) < 1}
    BY <2>3
  <2>5. Good(1)
    BY <2>1, <2>2, <2>4 DEF Chained
  <2> QED
    BY <2>5
<1>8. ASSUME NEW i \in Nat, i \in S PROVE i + 1 \in S
  <2> SUFFICES ASSUME i + 2 <= n PROVE Good(i + 2)
    OBVIOUS
  <2> DEFINE k == i + 1
             p == f[k]
             q == t.slots[k]
             r == p \o q
  <2>1. Good(k) /\ k \in 0..(n - 1) /\ k \in Nat
    BY <1>8
  <2>2. Chained(q, k, n) /\ {e \in Pairs(t, n) : Bucket(e.key, n) = k} = Elements(q)
    BY <1>6, <2>1
  <2>3. f[i + 2] = r
    <3>1. i + 2 \in 2..n /\ i + 2 \in 1..n /\ (i + 2) - 1 = k
      OBVIOUS
    <3> QED
      BY <1>2, <1>4, <3>1
  <2> HIDE DEF p, q
  <2>4. /\ p \in Seq(Entry) /\ Len(p) \in Nat
        /\ Elements(p) = {e \in Pairs(t, n) : Bucket(e.key, n) < k}
        /\ \A j, l \in 1..Len(p) : p[j].key = p[l].key => j = l
    BY <2>1 DEF p
  <2>5. /\ q \in Seq(Entry) /\ Len(q) \in Nat
        /\ \A j, l \in 1..Len(q) : q[j].key = q[l].key => j = l
    BY <2>2 DEF Chained
  <2>7. /\ r \in Seq(Entry) /\ Len(r) = Len(p) + Len(q)
        /\ \A j \in 1..Len(r) : \/ j \in 1..Len(p) /\ r[j] = p[j]
                                \/ j - Len(p) \in 1..Len(q) /\ r[j] = q[j - Len(p)]
        /\ Elements(r) = Elements(p) \cup Elements(q)
    BY <2>4, <2>5, ConcatFacts
  <2> HIDE DEF r
  <2>9. Elements(r) = {e \in Pairs(t, n) : Bucket(e.key, n) < i + 2}
    <3>1. \A e \in Pairs(t, n) :
            Bucket(e.key, n) < i + 2 <=> Bucket(e.key, n) < k \/ Bucket(e.key, n) = k
      BY <1>5
    <3> HIDE DEF k
    <3> QED
      BY <2>2, <2>4, <2>7, <3>1
  <2>10. \A e \in Elements(p), g \in Elements(q) : e.key # g.key
    <3>1. \A e \in Elements(p) : e \in Pairs(t, n) /\ Bucket(e.key, n) < k
      BY <2>4
    <3>2. \A e \in Elements(q) : Bucket(e.key, n) = k
      BY <2>2
    <3> HIDE DEF k
    <3> QED
      BY <2>1, <3>1, <3>2
  <2>11. ASSUME NEW j \in 1..Len(r), NEW l \in 1..Len(r), r[j].key = r[l].key
         PROVE  j = l
    <3>1. /\ \A m \in 1..Len(p) : p[m] \in Elements(p)
          /\ \A m \in 1..Len(q) : q[m] \in Elements(q)
      BY DEF Elements
    <3>2. CASE j \in 1..Len(p) /\ r[j] = p[j]
      <4>1. l \in 1..Len(p) /\ r[l] = p[l]
        BY <2>7, <2>10, <2>11, <3>1, <3>2
      <4> QED
        BY <2>4, <2>11, <3>2, <4>1
    <3>3. CASE j - Len(p) \in 1..Len(q) /\ r[j] = q[j - Len(p)]
      <4>1. l - Len(p) \in 1..Len(q) /\ r[l] = q[l - Len(p)]
        BY <2>7, <2>10, <2>11, <3>1, <3>3
      <4>2. j - Len(p) = l - Len(p)
        BY <2>5, <2>11, <3>3, <4>1
      <4> QED
        BY <2>4, <2>7, <4>2
    <3> QED
      BY <2>7, <3>2, <3>3
  <2>12. /\ r \in Seq(Entry)
         /\ Elements(r) = {e \in Pairs(t, n) : Bucket(e.key, n) < i + 2}
         /\ \A j, l \in 1..Len(r) : r[j].key = r[l].key => j = l
    BY <2>7, <2>9, <2>11
  <2> QED
    BY <2>3, <2>12
<1>9. Good(n)
  <2>1. n - 1 \in S
    <3> HIDE DEF S
    <3>1. Nat \subseteq S
      BY <1>7, <1>8, SetInduction
    <3> QED
      BY <3>1
  <2>2. (n - 1) + 1 = n
    OBVIOUS
  <2> HIDE DEF Good
  <2> QED
    BY <2>1, <2>2
<1> DEFINE q == Nodes(t)
<1>10. q = f[n]
  BY <1>3, <1>4
<1>11. /\ q \in Seq(Entry)
       /\ Elements(q) = {e \in Pairs(t, n) : Bucket(e.key, n) < n}
       /\ \A i, j \in 1..Len(q) : q[i].key = q[j].key => i = j
  <2> HIDE DEF q
  <2> QED
    BY <1>9, <1>10
<1>12. Elements(q) = Pairs(t, n)
  BY <1>5, <1>11
<1>13. \A i, j \in 1..Len(q) : q[i] = q[j] => i = j
  BY <1>11
<1> HIDE DEF q
<1>14. IsFiniteSet(Elements(q)) /\ Cardinality(Elements(q)) = Len(q)
  BY <1>11, <1>13, CountElements
<1> QED
  BY <1>11, <1>12, <1>14 DEF q

-----------------------------------------------------------------------------
\* All of q put into c, as a resize does.
PrependAll(c, q) == FoldLeft(Prepend, c, q)

\* The fold goes through the values of some f, step by step.
PrependRun(c, q) ==
  \E f : /\ PrependAll(c, q) = f[Len(q)]
         /\ f[0] = c
         /\ \A k \in 1..Len(q) : f[k] = Prepend(f[k - 1], q[k])

\* A fold with Prepend exists, step by step.  (The fold of a given operator is
\* proved for that operator: a lemma cannot take an operator as its parameter.)
LEMMA PrependRounds ==
  ASSUME NEW c, NEW q, Len(q) \in Nat, DOMAIN q = 1..Len(q)
  PROVE  PrependRun(c, q)
<1> DEFINE n == Len(q)
<1>11. n \in Nat /\ DOMAIN q = 1..n
  OBVIOUS
<1> HIDE DEF n
<1> DEFINE S == {m \in Nat :
                   \E f : f = [s \in SUBSET (1..m) |->
                       IF s = {} THEN c ELSE Prepend(f[s \ {Max(s)}], q[Max(s)])]}
<1>1. 0 \in S
  <2> DEFINE f == [s \in SUBSET (1..0) |-> c]
  <2>1. \A s \in SUBSET (1..0) : s = {}
    OBVIOUS
  <2>2. f = [s \in SUBSET (1..0) |->
               IF s = {} THEN c ELSE Prepend(f[s \ {Max(s)}], q[Max(s)])]
    BY <2>1
  <2>3. \E h : h = [s \in SUBSET (1..0) |->
               IF s = {} THEN c ELSE Prepend(h[s \ {Max(s)}], q[Max(s)])]
    <3> HIDE DEF f
    <3> QED
      BY <2>2
  <2> QED
    BY <2>3
<1>2. ASSUME NEW m \in Nat, m \in S PROVE m + 1 \in S
  <2>1. PICK f : f = [s \in SUBSET (1..m) |->
                        IF s = {} THEN c ELSE Prepend(f[s \ {Max(s)}], q[Max(s)])]
    BY <1>2
  <2> DEFINE k == m + 1
             g == [s \in SUBSET (1..k) |->
                     IF k \in s THEN Prepend(f[s \ {k}], q[k]) ELSE f[s]]
  <2>2. k \in Nat
    OBVIOUS
  <2>3. ASSUME NEW s \in SUBSET (1..k)
        PROVE  /\ k \in s => Max(s) = k /\ s # {}
               /\ s \ {k} \in SUBSET (1..m)
               /\ k \notin s => s \in SUBSET (1..m)
    <3>1. \A i \in s : i \in 1..k /\ k >= i /\ (i # k => i \in 1..m)
      OBVIOUS
    <3>2. k \in s => Max(s) = k
      <4>1. ASSUME NEW x \in s, \A y \in s : x >= y, k \in s PROVE x = k
        BY <3>1, <4>1
      <4> QED
        BY <3>1, <4>1 DEF Max
    <3> HIDE DEF k
    <3> QED
      BY <3>1, <3>2
  <2>4. \A s \in SUBSET (1..m) : s \in SUBSET (1..k) /\ k \notin s
    OBVIOUS
  <2> HIDE DEF k
  <2>5. \A s \in SUBSET (1..m) :
          f[s] = IF s = {} THEN c ELSE Prepend(f[s \ {Max(s)}], q[Max(s)])
    BY <2>1
  <2>6. \A s \in SUBSET (1..k) : g[s] = IF k \in s THEN Prepend(f[s \ {k}], q[k]) ELSE f[s]
    OBVIOUS
  <2>7. \A s \in SUBSET (1..m) : g[s] = f[s]
    BY <2>4, <2>6
  <2> HIDE DEF g
  <2>8. ASSUME NEW s \in SUBSET (1..k)
        PROVE  g[s] = IF s = {} THEN c ELSE Prepend(g[s \ {Max(s)}], q[Max(s)])
    <3>1. CASE k \in s
      <4>1. Max(s) = k /\ s # {} /\ s \ {k} \in SUBSET (1..m)
        BY <2>3, <3>1
      <4>2. g[s \ {k}] = f[s \ {k}]
        BY <2>7, <4>1
      <4>3. g[s] = Prepend(f[s \ {k}], q[k])
        BY <2>6, <3>1
      <4> QED
        BY <4>1, <4>2, <4>3
    <3>2. CASE k \notin s
      <4>1. s \in SUBSET (1..m)
        BY <2>3, <3>2
      <4>2. s \ {Max(s)} \in SUBSET (1..m)
        BY <4>1
      <4>3. g[s] = f[s] /\ g[s \ {Max(s)}] = f[s \ {Max(s)}]
        BY <2>7, <4>1, <4>2
      <4> QED
        BY <2>5, <4>1, <4>3
    <3> QED
      BY <3>1, <3>2
  <2>9. DOMAIN g = SUBSET (1..k) /\ g = [s \in SUBSET (1..k) |-> g[s]]
    BY DEF g
  <2>10. g = [s \in SUBSET (1..k) |->
               IF s = {} THEN c ELSE Prepend(g[s \ {Max(s)}], q[Max(s)])]
    BY <2>8, <2>9
  <2>11. \E h : h = [s \in SUBSET (1..k) |->
               IF s = {} THEN c ELSE Prepend(h[s \ {Max(s)}], q[Max(s)])]
    BY <2>10
  <2> QED
    BY <2>2, <2>11 DEF k
<1>3. Nat \subseteq S
  <2> HIDE DEF S
  <2> QED
    BY <1>1, <1>2, SetInduction
<1>4. \E f : f = [s \in SUBSET (1..n) |->
               IF s = {} THEN c ELSE Prepend(f[s \ {Max(s)}], q[Max(s)])]
  BY <1>3, <1>11
<1> DEFINE iter[s \in SUBSET (1..n)] ==
             IF s = {} THEN c ELSE Prepend(iter[s \ {Max(s)}], q[Max(s)])
<1>5. PrependAll(c, q) = iter[1..n]
  BY <1>11 DEF PrependAll, FoldLeft, MapThenFoldSet
<1>6. iter = [s \in SUBSET (1..n) |->
                IF s = {} THEN c ELSE Prepend(iter[s \ {Max(s)}], q[Max(s)])]
  BY <1>4
<1> HIDE DEF iter
<1> DEFINE f == [k \in 0..n |-> iter[1..k]]
<1>7. \A s \in SUBSET (1..n) :
        iter[s] = IF s = {} THEN c ELSE Prepend(iter[s \ {Max(s)}], q[Max(s)])
  BY <1>6
<1>8. f[0] = c
  <2>1. 1..0 = {} /\ 1..0 \in SUBSET (1..n)
    BY <1>11
  <2>2. iter[1..0] = c
    BY <1>7, <2>1
  <2>3. 0 \in 0..n
    BY <1>11
  <2> QED
    BY <2>2, <2>3
<1>9. ASSUME NEW k \in 1..n PROVE f[k] = Prepend(f[k - 1], q[k])
  <2>5. k \in Nat /\ k >= 1 /\ k <= n
    BY <1>11
  <2>6. \A m \in Nat : m >= 1 =>
          /\ (1..m) \ {m} = 1..(m - 1) /\ m \in 1..m
          /\ \A i \in 1..m : m >= i
    OBVIOUS
  <2>7. 1..k \in SUBSET (1..n)
    BY <1>11, <2>5
  <2>1. /\ 1..k \in SUBSET (1..n) /\ 1..k # {} /\ (1..k) \ {k} = 1..(k - 1)
        /\ k \in 1..k /\ \A i \in 1..k : k >= i
    BY <2>5, <2>6, <2>7
  <2>2. Max(1..k) = k
    <3>1. ASSUME NEW x \in 1..k, \A y \in 1..k : x >= y PROVE x = k
      BY <2>1, <3>1
    <3> QED
      BY <2>1, <3>1 DEF Max
  <2>3. iter[1..k] = Prepend(iter[1..(k - 1)], q[k])
    BY <1>7, <2>1, <2>2
  <2>4. k \in 0..n /\ k - 1 \in 0..n
    BY <1>11
  <2> QED
    BY <2>3, <2>4
<1>10. f[n] = iter[1..n]
  BY <1>11
<1>12. /\ PrependAll(c, q) = f[n]
       /\ f[0] = c
       /\ \A k \in 1..n : f[k] = Prepend(f[k - 1], q[k])
  BY <1>5, <1>8, <1>9, <1>10
<1> HIDE DEF f
<1> QED
  BY <1>12 DEF n, PrependRun

\* All of q sorted into c.
InsertedAll(c, q) == FoldLeft(Inserted, c, q)

\* The same of the fold with Inserted.
InsertedRun(c, q) ==
  \E f : /\ InsertedAll(c, q) = f[Len(q)]
         /\ f[0] = c
         /\ \A k \in 1..Len(q) : f[k] = Inserted(f[k - 1], q[k])

\* A fold with Inserted exists, step by step.
LEMMA InsertedRounds ==
  ASSUME NEW c, NEW q, Len(q) \in Nat, DOMAIN q = 1..Len(q)
  PROVE  InsertedRun(c, q)
<1> DEFINE n == Len(q)
<1>11. n \in Nat /\ DOMAIN q = 1..n
  OBVIOUS
<1> HIDE DEF n
<1> DEFINE S == {m \in Nat :
                   \E f : f = [s \in SUBSET (1..m) |->
                       IF s = {} THEN c ELSE Inserted(f[s \ {Max(s)}], q[Max(s)])]}
<1>1. 0 \in S
  <2> DEFINE f == [s \in SUBSET (1..0) |-> c]
  <2>1. \A s \in SUBSET (1..0) : s = {}
    OBVIOUS
  <2>2. f = [s \in SUBSET (1..0) |->
               IF s = {} THEN c ELSE Inserted(f[s \ {Max(s)}], q[Max(s)])]
    BY <2>1
  <2>3. \E h : h = [s \in SUBSET (1..0) |->
               IF s = {} THEN c ELSE Inserted(h[s \ {Max(s)}], q[Max(s)])]
    <3> HIDE DEF f
    <3> QED
      BY <2>2
  <2> QED
    BY <2>3
<1>2. ASSUME NEW m \in Nat, m \in S PROVE m + 1 \in S
  <2>1. PICK f : f = [s \in SUBSET (1..m) |->
                        IF s = {} THEN c ELSE Inserted(f[s \ {Max(s)}], q[Max(s)])]
    BY <1>2
  <2> DEFINE k == m + 1
             g == [s \in SUBSET (1..k) |->
                     IF k \in s THEN Inserted(f[s \ {k}], q[k]) ELSE f[s]]
  <2>2. k \in Nat
    OBVIOUS
  <2>3. ASSUME NEW s \in SUBSET (1..k)
        PROVE  /\ k \in s => Max(s) = k /\ s # {}
               /\ s \ {k} \in SUBSET (1..m)
               /\ k \notin s => s \in SUBSET (1..m)
    <3>1. \A i \in s : i \in 1..k /\ k >= i /\ (i # k => i \in 1..m)
      OBVIOUS
    <3>2. k \in s => Max(s) = k
      <4>1. ASSUME NEW x \in s, \A y \in s : x >= y, k \in s PROVE x = k
        BY <3>1, <4>1
      <4> QED
        BY <3>1, <4>1 DEF Max
    <3> HIDE DEF k
    <3> QED
      BY <3>1, <3>2
  <2>4. \A s \in SUBSET (1..m) : s \in SUBSET (1..k) /\ k \notin s
    OBVIOUS
  <2> HIDE DEF k
  <2>5. \A s \in SUBSET (1..m) :
          f[s] = IF s = {} THEN c ELSE Inserted(f[s \ {Max(s)}], q[Max(s)])
    BY <2>1
  <2>6. \A s \in SUBSET (1..k) : g[s] = IF k \in s THEN Inserted(f[s \ {k}], q[k]) ELSE f[s]
    OBVIOUS
  <2>7. \A s \in SUBSET (1..m) : g[s] = f[s]
    BY <2>4, <2>6
  <2> HIDE DEF g
  <2>8. ASSUME NEW s \in SUBSET (1..k)
        PROVE  g[s] = IF s = {} THEN c ELSE Inserted(g[s \ {Max(s)}], q[Max(s)])
    <3>1. CASE k \in s
      <4>1. Max(s) = k /\ s # {} /\ s \ {k} \in SUBSET (1..m)
        BY <2>3, <3>1
      <4>2. g[s \ {k}] = f[s \ {k}]
        BY <2>7, <4>1
      <4>3. g[s] = Inserted(f[s \ {k}], q[k])
        BY <2>6, <3>1
      <4> QED
        BY <4>1, <4>2, <4>3
    <3>2. CASE k \notin s
      <4>1. s \in SUBSET (1..m)
        BY <2>3, <3>2
      <4>2. s \ {Max(s)} \in SUBSET (1..m)
        BY <4>1
      <4>3. g[s] = f[s] /\ g[s \ {Max(s)}] = f[s \ {Max(s)}]
        BY <2>7, <4>1, <4>2
      <4> QED
        BY <2>5, <4>1, <4>3
    <3> QED
      BY <3>1, <3>2
  <2>9. DOMAIN g = SUBSET (1..k) /\ g = [s \in SUBSET (1..k) |-> g[s]]
    BY DEF g
  <2>10. g = [s \in SUBSET (1..k) |->
               IF s = {} THEN c ELSE Inserted(g[s \ {Max(s)}], q[Max(s)])]
    BY <2>8, <2>9
  <2>11. \E h : h = [s \in SUBSET (1..k) |->
               IF s = {} THEN c ELSE Inserted(h[s \ {Max(s)}], q[Max(s)])]
    BY <2>10
  <2> QED
    BY <2>2, <2>11 DEF k
<1>3. Nat \subseteq S
  <2> HIDE DEF S
  <2> QED
    BY <1>1, <1>2, SetInduction
<1>4. \E f : f = [s \in SUBSET (1..n) |->
               IF s = {} THEN c ELSE Inserted(f[s \ {Max(s)}], q[Max(s)])]
  BY <1>3, <1>11
<1> DEFINE iter[s \in SUBSET (1..n)] ==
             IF s = {} THEN c ELSE Inserted(iter[s \ {Max(s)}], q[Max(s)])
<1>5. InsertedAll(c, q) = iter[1..n]
  BY <1>11 DEF InsertedAll, FoldLeft, MapThenFoldSet
<1>6. iter = [s \in SUBSET (1..n) |->
                IF s = {} THEN c ELSE Inserted(iter[s \ {Max(s)}], q[Max(s)])]
  BY <1>4
<1> HIDE DEF iter
<1> DEFINE f == [k \in 0..n |-> iter[1..k]]
<1>7. \A s \in SUBSET (1..n) :
        iter[s] = IF s = {} THEN c ELSE Inserted(iter[s \ {Max(s)}], q[Max(s)])
  BY <1>6
<1>8. f[0] = c
  <2>1. 1..0 = {} /\ 1..0 \in SUBSET (1..n)
    BY <1>11
  <2>2. iter[1..0] = c
    BY <1>7, <2>1
  <2>3. 0 \in 0..n
    BY <1>11
  <2> QED
    BY <2>2, <2>3
<1>9. ASSUME NEW k \in 1..n PROVE f[k] = Inserted(f[k - 1], q[k])
  <2>5. k \in Nat /\ k >= 1 /\ k <= n
    BY <1>11
  <2>6. \A m \in Nat : m >= 1 =>
          /\ (1..m) \ {m} = 1..(m - 1) /\ m \in 1..m
          /\ \A i \in 1..m : m >= i
    OBVIOUS
  <2>7. 1..k \in SUBSET (1..n)
    BY <1>11, <2>5
  <2>1. /\ 1..k \in SUBSET (1..n) /\ 1..k # {} /\ (1..k) \ {k} = 1..(k - 1)
        /\ k \in 1..k /\ \A i \in 1..k : k >= i
    BY <2>5, <2>6, <2>7
  <2>2. Max(1..k) = k
    <3>1. ASSUME NEW x \in 1..k, \A y \in 1..k : x >= y PROVE x = k
      BY <2>1, <3>1
    <3> QED
      BY <2>1, <3>1 DEF Max
  <2>3. iter[1..k] = Inserted(iter[1..(k - 1)], q[k])
    BY <1>7, <2>1, <2>2
  <2>4. k \in 0..n /\ k - 1 \in 0..n
    BY <1>11
  <2> QED
    BY <2>3, <2>4
<1>10. f[n] = iter[1..n]
  BY <1>11
<1>12. /\ InsertedAll(c, q) = f[n]
       /\ f[0] = c
       /\ \A k \in 1..n : f[k] = Inserted(f[k - 1], q[k])
  BY <1>5, <1>8, <1>9, <1>10
<1> HIDE DEF f
<1> QED
  BY <1>12 DEF n, InsertedRun

-----------------------------------------------------------------------------
\* A table of n empty chains holds nothing.
LEMMA EmptyWorks ==
  ASSUME NEW n \in Nat \ {0}
  PROVE  Shape(Empty(n), n) /\ Pairs(Empty(n), n) = {} /\ Empty(n).count = 0
<1>1. /\ Empty(n).slots = [b \in 0..(n - 1) |-> <<>>] /\ Empty(n).count = 0
      /\ Empty(n) = [slots |-> [b \in 0..(n - 1) |-> <<>>], count |-> 0]
  BY DEF Empty
<1>2. <<>> \in Seq(Entry) /\ Len(<<>>) = 0
  OBVIOUS
<1>3. \A b \in 0..(n - 1) : Empty(n).slots[b] = <<>>
  BY <1>1
<1>4. Empty(n) \in [slots : [0..(n - 1) -> Seq(Entry)], count : Nat]
  BY <1>1, <1>2
<1>5. 1..0 = {}
  OBVIOUS
<1> QED
  BY <1>1, <1>2, <1>3, <1>4, <1>5 DEF Shape, Pairs

\* Nodes of different keys put into an empty table are what it holds then.
LEMMA PrependAllWorks ==
  ASSUME NEW m \in Nat \ {0}, NEW c, Shape(c, m), Pairs(c, m) = {}, c.count = 0,
         NEW q, Len(q) \in Nat, DOMAIN q = 1..Len(q),
         \A i \in 1..Len(q) : q[i] \in Entry,
         \A i, j \in 1..Len(q) : q[i].key = q[j].key => i = j
  PROVE  LET r == PrependAll(c, q)
         IN /\ Shape(r, m) /\ r.count = Len(q)
            /\ Pairs(r, m) = {q[i] : i \in 1..Len(q)}
<1>0. PrependRun(c, q)
  BY PrependRounds
<1>6. PICK f : /\ PrependAll(c, q) = f[Len(q)]
               /\ f[0] = c
               /\ \A k \in 1..Len(q) : f[k] = Prepend(f[k - 1], q[k])
  BY <1>0 DEF PrependRun
<1> DEFINE Good(k) == /\ Shape(f[k], m) /\ f[k].count = k
                      /\ Pairs(f[k], m) = {q[i] : i \in 1..k}
           S == {k \in Nat : k <= Len(q) => Good(k)}
<1>7. 0 \in S
  <2>1. {q[i] : i \in 1..0} = {}
    OBVIOUS
  <2> QED
    BY <1>6, <2>1
<1>8. ASSUME NEW k \in Nat, k \in S PROVE k + 1 \in S
  <2> SUFFICES ASSUME k + 1 <= Len(q) PROVE Good(k + 1)
    OBVIOUS
  <2> DEFINE p == f[k]
             r == f[k + 1]
             e == q[k + 1]
  <2>1. Good(k) /\ k + 1 \in 1..Len(q) /\ \A i \in 1..k : i \in 1..Len(q) /\ i # k + 1
    BY <1>8
  <2>2. r = Prepend(p, e) /\ e \in Entry
    BY <1>6, <2>1
  <2>3. \A i \in 1..k : q[i].key # e.key
    BY <2>1
  <2>4. Shape(p, m) /\ p.count = k /\ Pairs(p, m) = {q[i] : i \in 1..k}
    BY <2>1
  <2>5. {q[i] : i \in 1..(k + 1)} = {q[i] : i \in 1..k} \cup {e}
    <3>1. \A i : i \in 1..(k + 1) <=> i \in 1..k \/ i = k + 1
      OBVIOUS
    <3> QED
      BY <3>1
  <2> HIDE DEF p, r, e
  <2>6. ~Has(p, m, e.key)
    BY <2>3, <2>4 DEF Has
  <2>7. Shape(r, m) /\ Pairs(r, m) = Pairs(p, m) \cup {e} /\ r.count = k + 1
    BY <2>2, <2>4, <2>6, PrependWorks
  <2> QED
    BY <2>4, <2>5, <2>7 DEF r
<1>9. Good(Len(q))
  <2> HIDE DEF S
  <2>1. Nat \subseteq S
    BY <1>7, <1>8, SetInduction
  <2>2. Len(q) \in S
    BY <2>1
  <2> QED
    BY <2>2 DEF S
<1> QED
  BY <1>6, <1>9

\* A resize (Hash_Table.c) keeps every pair, each in its bucket of the new size.
LEMMA ResizedWorks ==
  ASSUME NEW t, NEW n \in Nat \ {0}, Shape(t, n), (3 * n) \div 2 \in Nat \ {0}
  PROVE  LET m == (3 * n) \div 2
             r == Resized(t)
         IN /\ Shape(r, m) /\ Pairs(r, m) = Pairs(t, n)
            /\ r.count = Cardinality(Pairs(t, n))
<1> DEFINE m == (3 * n) \div 2
           q == Nodes(t)
           c == Empty(m)
           r == PrependAll(c, q)
<1>1. Resized(t) = r
  BY ShapeSize DEF Resized, PrependAll
<1>2. /\ q \in Seq(Entry) /\ Elements(q) = Pairs(t, n)
      /\ \A i, j \in 1..Len(q) : q[i].key = q[j].key => i = j
      /\ Cardinality(Pairs(t, n)) = Len(q)
  BY NodesWork
<1>3. Shape(c, m) /\ Pairs(c, m) = {} /\ c.count = 0
  BY EmptyWorks
<1>4. m \in Nat \ {0}
  OBVIOUS
<1>5. Len(q) \in Nat /\ DOMAIN q = 1..Len(q) /\ \A i \in 1..Len(q) : q[i] \in Entry
  <2> HIDE DEF q
  <2> QED
    BY <1>2
<1>6. /\ Shape(r, m) /\ r.count = Len(q)
      /\ Pairs(r, m) = {q[i] : i \in 1..Len(q)}
  <2> HIDE DEF m, q, c
  <2> QED
    BY <1>2, <1>3, <1>4, <1>5, PrependAllWorks
<1>10. {q[i] : i \in 1..Len(q)} = Pairs(t, n)
  BY <1>2 DEF Elements
<1> HIDE DEF r, q, c
<1> QED
  BY <1>1, <1>2, <1>6, <1>10

\* The inductive invariant of the table: at least four slots, each key alone and
\* in its bucket, count the number of nodes, and the load not past the maximum by
\* more than one node.
TableOK(t) ==
  LET n == Size(t)
  IN /\ n \in Nat /\ n >= 4
     /\ Shape(t, n)
     /\ t.count = Cardinality(Pairs(t, n))
     /\ 10 * t.count <= 7 * n + 10

\* Two tables hold the same for the key k.
SameFor(t, n, r, m, k) == {e \in Pairs(t, n) : e.key = k} = {e \in Pairs(r, m) : e.key = k}

\* Tables that hold the same for a key answer the same,
LEMMA LookupSame ==
  ASSUME NEW t, NEW n \in Nat \ {0}, Shape(t, n),
         NEW r, NEW m \in Nat \ {0}, Shape(r, m), NEW k \in Keys, SameFor(t, n, r, m, k)
  PROVE  Lookup(r, k) = Lookup(t, k) /\ (Has(r, m, k) <=> Has(t, n, k))
<1>1. Has(r, m, k) <=> Has(t, n, k)
  BY DEF Has, SameFor
<1>2. CASE Has(t, n, k)
  <2> DEFINE e == [key |-> k, value |-> Lookup(t, k)]
             g == [key |-> k, value |-> Lookup(r, k)]
  <2>1. e \in Pairs(t, n) /\ e.key = k
    BY <1>2, LookupIs
  <2>2. e \in Pairs(r, m)
    BY <2>1 DEF SameFor
  <2>3. e = g
    <3> HIDE DEF e
    <3> QED
      BY <2>1, <2>2, LookupIs
  <2>4. e.value = g.value
    BY <2>3
  <2> QED
    BY <1>1, <2>4
<1>3. CASE ~Has(t, n, k)
  BY <1>1, <1>3, LookupIs
<1> QED
  BY <1>2, <1>3

\* and one that holds a pair answers with it.
LEMMA LookupNew ==
  ASSUME NEW r, NEW m \in Nat \ {0}, Shape(r, m), NEW k \in Keys, NEW v,
         [key |-> k, value |-> v] \in Pairs(r, m)
  PROVE  Lookup(r, k) = v /\ Has(r, m, k)
<1> DEFINE e == [key |-> k, value |-> v]
           g == [key |-> k, value |-> Lookup(r, k)]
<1>1. e \in Pairs(r, m) /\ e.key = k
  OBVIOUS
<1>2. e = g
  <2> HIDE DEF e
  <2> QED
    BY <1>1, LookupIs
<1>3. e.value = g.value
  BY <1>2
<1> QED
  BY <1>1, <1>3 DEF Has

\* hashtable_put keeps the invariant, with or without a resize, and changes the
\* answer for its key only.
LEMMA PutWorks ==
  ASSUME NEW t, TableOK(t), NEW k \in Keys, NEW v \in Values
  PROVE  LET r == WithPut(t, k, v)
         IN /\ TableOK(r)
            /\ \A j \in Keys : Lookup(r, j) = IF j = k THEN v ELSE Lookup(t, j)
            /\ \A j \in Keys : HasKey(Chain(r, j), j) <=> j = k \/ HasKey(Chain(t, j), j)
            /\ r.count = IF HasKey(Chain(t, k), k) THEN t.count ELSE t.count + 1
<1> DEFINE n == Size(t)
           r == WithPut(t, k, v)
           new == [key |-> k, value |-> v]
<1>1. /\ n \in Nat \ {0} /\ n >= 4 /\ Shape(t, n) /\ t.count = Cardinality(Pairs(t, n))
      /\ 10 * t.count <= 7 * n + 10 /\ t.count \in Nat /\ IsFiniteSet(Pairs(t, n))
  <2>1. n \in Nat \ {0} /\ n >= 4 /\ Shape(t, n) /\ t.count = Cardinality(Pairs(t, n))
        /\ 10 * t.count <= 7 * n + 10
    BY DEF TableOK
  <2> HIDE DEF n
  <2> QED
    BY <2>1, NodesWork, ShapeFacts
<1>2. new \in Entry /\ new.key = k /\ new.value = v
  BY DEF Entry
<1>3. HasKey(Chain(t, k), k) <=> Has(t, n, k)
  <2> HIDE DEF n
  <2> QED
    BY <1>1, LookupIs
<1> HIDE DEF r, new, n
<1>4. \E m \in Nat : /\ m >= 4 /\ Shape(r, m) /\ r.count = Cardinality(Pairs(r, m))
                     /\ 10 * r.count <= 7 * m + 10
                     /\ \A j \in Keys : j # k => SameFor(t, n, r, m, j)
                     /\ new \in Pairs(r, m)
                     /\ r.count = IF Has(t, n, k) THEN t.count ELSE t.count + 1
  <2>1. CASE Has(t, n, k)
    <3>1. /\ Shape(r, n) /\ r.count = t.count
          /\ Pairs(r, n) = {e \in Pairs(t, n) : e.key # k} \cup {new}
      BY <1>1, <2>1, ReplaceWorks DEF r, new
    <3> DEFINE old == [key |-> k, value |-> Lookup(t, k)]
    <3>2. old \in Pairs(t, n) /\ \A e \in Pairs(t, n) : e.key = k <=> e = old
      <4>1. old \in Pairs(t, n) /\ old.key = k
        BY <1>1, <2>1, LookupIs
      <4>2. \A e \in Pairs(t, n) : e.key = k => e = old
        BY <1>1, LookupIs
      <4> HIDE DEF old
      <4> QED
        BY <4>1, <4>2
    <3> HIDE DEF old
    <3>3. Pairs(r, n) = (Pairs(t, n) \ {old}) \cup {new} /\ new \notin Pairs(t, n) \ {old}
      BY <1>2, <3>1, <3>2
    <3>4. Cardinality(Pairs(r, n)) = Cardinality(Pairs(t, n))
      <4>1. /\ IsFiniteSet(Pairs(t, n) \ {old})
            /\ Cardinality(Pairs(t, n) \ {old}) = t.count - 1
        BY <1>1, <3>2, FS_RemoveElement
      <4>2. Cardinality(Pairs(r, n)) = (t.count - 1) + 1
        BY <3>3, <4>1, FS_AddElement
      <4> QED
        BY <1>1, <4>2
    <3>5. \A j \in Keys : j # k => SameFor(t, n, r, n, j)
      BY <1>2, <3>1 DEF SameFor
    <3> QED
      BY <1>1, <2>1, <3>1, <3>4, <3>5
  <2>2. CASE ~Has(t, n, k)
    <3> DEFINE base == IF TooFull(t) THEN Resized(t) ELSE t
    <3>1. r = Prepend(base, new)
      BY <1>3, <2>2 DEF WithPut, r, new
    <3>2. \E m \in Nat : /\ m >= 4 /\ Shape(base, m) /\ Pairs(base, m) = Pairs(t, n)
                         /\ base.count = t.count /\ 10 * (t.count + 1) <= 7 * m + 10
      <4>1. CASE TooFull(t)
        <5> DEFINE m == (3 * n) \div 2
        <5>1. m \in Nat /\ 2 * m >= 3 * n - 1
          BY <1>1
        <5>2. m >= 4 /\ 10 * (t.count + 1) <= 7 * m + 10
          <6> HIDE DEF m
          <6> QED
            BY <1>1, <5>1
        <5>3. /\ Shape(Resized(t), m) /\ Pairs(Resized(t), m) = Pairs(t, n)
              /\ Resized(t).count = Cardinality(Pairs(t, n))
          BY <1>1, <5>1, <5>2, ResizedWorks
        <5> QED
          BY <1>1, <4>1, <5>1, <5>2, <5>3
      <4>2. CASE ~TooFull(t)
        BY <1>1, <4>2 DEF TooFull, n
      <4> QED
        BY <4>1, <4>2
    <3> HIDE DEF base
    <3>3. PICK m \in Nat : /\ m >= 4 /\ Shape(base, m) /\ Pairs(base, m) = Pairs(t, n)
                           /\ base.count = t.count /\ 10 * (t.count + 1) <= 7 * m + 10
      BY <3>2
    <3>4. m \in Nat \ {0} /\ ~Has(base, m, new.key)
      BY <1>2, <2>2, <3>3 DEF Has
    <3>5. Shape(r, m) /\ Pairs(r, m) = Pairs(t, n) \cup {new} /\ r.count = t.count + 1
      BY <1>2, <3>1, <3>3, <3>4, PrependWorks
    <3>6. Cardinality(Pairs(r, m)) = t.count + 1
      <4>1. new \notin Pairs(t, n)
        BY <1>2, <2>2 DEF Has
      <4> QED
        BY <1>1, <3>5, <4>1, FS_AddElement
    <3>7. \A j \in Keys : j # k => SameFor(t, n, r, m, j)
      BY <1>2, <3>5 DEF SameFor
    <3> QED
      BY <2>2, <3>3, <3>5, <3>6, <3>7
  <2> QED
    BY <2>1, <2>2
<1>5. PICK m \in Nat : /\ m >= 4 /\ Shape(r, m) /\ r.count = Cardinality(Pairs(r, m))
                       /\ 10 * r.count <= 7 * m + 10
                       /\ \A j \in Keys : j # k => SameFor(t, n, r, m, j)
                       /\ new \in Pairs(r, m)
                       /\ r.count = IF Has(t, n, k) THEN t.count ELSE t.count + 1
  BY <1>4
<1>6. m \in Nat \ {0} /\ Size(r) = m
  <2>1. m \in Nat \ {0}
    BY <1>5
  <2> QED
    BY <1>5, <2>1, ShapeSize
<1>7. TableOK(r)
  BY <1>5, <1>6 DEF TableOK
<1>8. Lookup(r, k) = v /\ Has(r, m, k)
  BY <1>5, <1>6, LookupNew DEF new
<1>9. ASSUME NEW j \in Keys, j # k
      PROVE  Lookup(r, j) = Lookup(t, j) /\ (Has(r, m, j) <=> Has(t, n, j))
  <2>1. SameFor(t, n, r, m, j)
    BY <1>5, <1>9
  <2> QED
    BY <1>1, <1>5, <1>6, <2>1, LookupSame
<1>10. \A j \in Keys : /\ HasKey(Chain(r, j), j) <=> Has(r, m, j)
                       /\ HasKey(Chain(t, j), j) <=> Has(t, n, j)
  BY <1>1, <1>5, <1>6, LookupIs
<1>11. \A j \in Keys : HasKey(Chain(r, j), j) <=> j = k \/ HasKey(Chain(t, j), j)
  BY <1>8, <1>9, <1>10
<1> QED
  BY <1>3, <1>5, <1>7, <1>8, <1>9, <1>11 DEF r

\* hashtable_remove keeps the invariant and changes the answer for its key only.
LEMMA RemoveKeeps ==
  ASSUME NEW t, TableOK(t), NEW k \in Keys, HasKey(Chain(t, k), k)
  PROVE  LET r == WithRemoved(t, k)
         IN /\ TableOK(r)
            /\ \A j \in Keys : Lookup(r, j) = IF j = k THEN NoValue ELSE Lookup(t, j)
            /\ \A j \in Keys : HasKey(Chain(r, j), j) <=> j # k /\ HasKey(Chain(t, j), j)
            /\ r.count = t.count - 1
<1> DEFINE n == Size(t)
           r == WithRemoved(t, k)
           old == [key |-> k, value |-> Lookup(t, k)]
<1>1. n \in Nat \ {0} /\ n >= 4 /\ Shape(t, n) /\ t.count = Cardinality(Pairs(t, n))
      /\ 10 * t.count <= 7 * n + 10
  BY DEF TableOK
<1> HIDE DEF n
<1>2. t.count \in Nat /\ IsFiniteSet(Pairs(t, n)) /\ Has(t, n, k)
  BY <1>1, NodesWork, ShapeFacts, LookupIs
<1>3. old \in Pairs(t, n) /\ \A e \in Pairs(t, n) : e.key = k <=> e = old
  <2>1. old \in Pairs(t, n) /\ old.key = k
    BY <1>1, <1>2, LookupIs
  <2>2. \A e \in Pairs(t, n) : e.key = k => e = old
    BY <1>1, LookupIs
  <2> HIDE DEF old
  <2> QED
    BY <2>1, <2>2
<1> HIDE DEF r, old
<1>4. t.count # 0
  BY <1>1, <1>2, <1>3, FS_EmptySet
<1>5. /\ Shape(r, n) /\ r.count = t.count - 1
      /\ Pairs(r, n) = {e \in Pairs(t, n) : e.key # k}
  BY <1>1, <1>2, <1>4, RemoveWorks DEF r
<1>6. Pairs(r, n) = Pairs(t, n) \ {old}
  BY <1>3, <1>5
<1>7. Cardinality(Pairs(r, n)) = t.count - 1
  BY <1>1, <1>2, <1>3, <1>6, FS_RemoveElement
<1>8. Size(r) = n
  BY <1>1, <1>5, ShapeSize
<1>9. TableOK(r)
  BY <1>1, <1>2, <1>5, <1>7, <1>8 DEF TableOK
<1>10. ~Has(r, n, k) /\ Lookup(r, k) = NoValue
  <2>1. ~Has(r, n, k)
    BY <1>5 DEF Has
  <2> QED
    BY <1>1, <1>5, <2>1, LookupIs
<1>11. ASSUME NEW j \in Keys, j # k
       PROVE  Lookup(r, j) = Lookup(t, j) /\ (Has(r, n, j) <=> Has(t, n, j))
  <2>1. SameFor(t, n, r, n, j)
    BY <1>5, <1>11 DEF SameFor
  <2> QED
    BY <1>1, <1>5, <2>1, LookupSame
<1>12. \A j \in Keys : /\ HasKey(Chain(r, j), j) <=> Has(r, n, j)
                       /\ HasKey(Chain(t, j), j) <=> Has(t, n, j)
  BY <1>1, <1>5, LookupIs
<1> QED
  BY <1>5, <1>9, <1>10, <1>11, <1>12 DEF r

-----------------------------------------------------------------------------
\* From the lowest z to the highest.
ByDepth(s) == \A i, j \in 1..Len(s) : i < j => s[i].value.z <= s[j].value.z
\* No key twice.
OneEach(s) == \A i, j \in 1..Len(s) : s[i].key = s[j].key => i = j

\* A texture inserted before the first that is above it leaves a sorted list
\* sorted.
LEMMA InsertedWorks ==
  ASSUME NEW s \in Seq(Entry), ByDepth(s), OneEach(s), NEW e \in Entry,
         \A i \in 1..Len(s) : s[i].key # e.key
  PROVE  LET r == Inserted(s, e)
         IN /\ r \in Seq(Entry) /\ Len(r) = Len(s) + 1 /\ ByDepth(r) /\ OneEach(r)
            /\ Elements(r) = Elements(s) \cup {e}
<1> DEFINE n == Len(s)
           above == {i \in 1..Len(s) : s[i].value.z > e.value.z} \cup {Len(s) + 1}
           at == Min(above)
           r == Inserted(s, e)
<1>1. n \in Nat /\ \A i \in 1..n : s[i] \in Entry
  OBVIOUS
<1>2. \A d \in Entry : d.value.z \in Nat
  BY DepthsAssumption DEF Entry
<1>3. /\ at \in 1..(n + 1)
      /\ \A i \in 1..n : i < at => s[i].value.z <= e.value.z
      /\ \A i \in 1..n : i >= at => s[i].value.z >= e.value.z
  <2>1. above \subseteq Nat /\ above # {} /\ above \subseteq 1..(n + 1)
    BY <1>1
  <2>2. at \in above /\ \A y \in above : at <= y
    <3> HIDE DEF above
    <3> QED
      BY <2>1, LeastIs
  <2>3. at \in 1..(n + 1)
    BY <2>1, <2>2
  <2>4. \A i \in 1..n : i \in above <=> s[i].value.z > e.value.z
    BY <1>1
  <2>5. at = n + 1 \/ (at \in 1..n /\ s[at].value.z > e.value.z)
    BY <2>2
  <2> HIDE DEF above, at
  <2>6. ASSUME NEW i \in 1..n, i < at PROVE s[i].value.z <= e.value.z
    <3>1. i \notin above
      BY <1>1, <2>1, <2>2, <2>3, <2>6
    <3>2. s[i].value.z \in Nat /\ e.value.z \in Nat
      BY <1>1, <1>2
    <3> QED
      BY <2>4, <3>1, <3>2
  <2>7. ASSUME NEW i \in 1..n, i >= at PROVE s[i].value.z >= e.value.z
    <3>1. at \in 1..n /\ s[at].value.z > e.value.z
      BY <1>1, <2>3, <2>5, <2>7
    <3>2. s[i].value.z \in Nat /\ e.value.z \in Nat /\ s[at].value.z \in Nat
      BY <1>1, <1>2, <3>1
    <3>3. at = i \/ (at < i /\ s[at].value.z <= s[i].value.z)
      BY <1>1, <2>7, <3>1 DEF ByDepth
    <3> QED
      BY <3>1, <3>2, <3>3
  <2> QED
    BY <2>3, <2>6, <2>7
<1>4. r = InsertAt(s, at, e)
  BY DEF Inserted
<1> HIDE DEF above, at
<1> DEFINE to(i) == IF i < at THEN i ELSE i + 1
<1>5. /\ r \in Seq(Entry) /\ Len(r) = n + 1 /\ r[at] = e
      /\ \A i \in 1..n : r[to(i)] = s[i]
  BY <1>3, <1>4, InsertAtWorks
<1> HIDE DEF r
<1>6. \A i \in 1..n : to(i) \in 1..(n + 1) /\ to(i) # at
  BY <1>1, <1>3
<1>7. ASSUME NEW j \in 1..(n + 1)
      PROVE  j = at \/ \E i \in 1..n : to(i) = j
  <2>1. CASE j < at
    <3>1. j \in 1..n /\ to(j) = j
      BY <1>1, <1>3, <2>1
    <3> QED
      BY <3>1
  <2>2. CASE j > at
    <3>1. j - 1 \in 1..n /\ to(j - 1) = j
      BY <1>1, <1>3, <2>2
    <3> QED
      BY <3>1
  <2> QED
    BY <1>3, <2>1, <2>2
<1>8. \A i, j \in 1..n : to(i) < to(j) => i < j
  BY <1>1, <1>3
<1>9. \A i \in 1..n : /\ to(i) < at => i < at
                      /\ at < to(i) => i >= at
  BY <1>1, <1>3
<1> HIDE DEF to
<1>10. ByDepth(r)
  <2> SUFFICES ASSUME NEW x \in 1..(n + 1), NEW y \in 1..(n + 1), x < y
               PROVE  r[x].value.z <= r[y].value.z
    BY <1>5 DEF ByDepth
  <2>1. CASE x = at
    <3>1. PICK j \in 1..n : to(j) = y
      BY <1>7, <2>1
    <3>2. e.value.z \in Nat /\ s[j].value.z \in Nat /\ s[j].value.z >= e.value.z
      BY <1>1, <1>2, <1>3, <1>9, <2>1, <3>1
    <3> QED
      BY <1>5, <2>1, <3>1, <3>2
  <2>2. CASE x # at
    <3>1. PICK i \in 1..n : to(i) = x
      BY <1>7, <2>2
    <3>2. CASE y = at
      BY <1>3, <1>5, <1>9, <3>1, <3>2
    <3>3. CASE y # at
      <4>1. PICK j \in 1..n : to(j) = y
        BY <1>7, <3>3
      <4>2. i < j
        BY <1>8, <3>1, <4>1
      <4> QED
        BY <1>5, <3>1, <4>1, <4>2 DEF ByDepth
    <3> QED
      BY <3>2, <3>3
  <2> QED
    BY <2>1, <2>2
<1>11. OneEach(r)
  <2> SUFFICES ASSUME NEW x \in 1..(n + 1), NEW y \in 1..(n + 1), r[x].key = r[y].key
               PROVE  x = y
    BY <1>5 DEF OneEach
  <2>1. CASE x = at /\ y # at
    BY <1>5, <1>7, <2>1
  <2>2. CASE x # at /\ y = at
    BY <1>5, <1>7, <2>2
  <2>3. CASE x # at /\ y # at
    <3>1. PICK i \in 1..n : to(i) = x
      BY <1>7, <2>3
    <3>2. PICK j \in 1..n : to(j) = y
      BY <1>7, <2>3
    <3>3. s[i].key = s[j].key
      BY <1>5, <3>1, <3>2
    <3> QED
      BY <3>1, <3>2, <3>3 DEF OneEach
  <2> QED
    BY <2>1, <2>2, <2>3
<1>12. Elements(r) = Elements(s) \cup {e}
  <2>1. \A i \in 1..n : s[i] \in Elements(r)
    BY <1>5, <1>6 DEF Elements
  <2>2. e \in Elements(r)
    BY <1>3, <1>5 DEF Elements
  <2>3. ASSUME NEW j \in 1..(n + 1) PROVE r[j] \in Elements(s) \cup {e}
    <3>1. CASE j = at
      BY <1>5, <3>1
    <3>2. CASE j # at
      <4>1. PICK i \in 1..n : to(i) = j
        BY <1>7, <3>2
      <4> QED
        BY <1>5, <4>1 DEF Elements
    <3> QED
      BY <3>1, <3>2
  <2> QED
    BY <1>5, <2>1, <2>2, <2>3 DEF Elements
<1> QED
  BY <1>5, <1>10, <1>11, <1>12 DEF r

\* The sort of updateTextureNamesByPrio keeps all textures and sorts them by z.
LEMMA InsertedAllWorks ==
  ASSUME NEW q \in Seq(Entry), OneEach(q)
  PROVE  LET r == InsertedAll(<<>>, q)
         IN /\ r \in Seq(Entry) /\ Len(r) = Len(q) /\ ByDepth(r) /\ OneEach(r)
            /\ Elements(r) = Elements(q)
<1>5. Len(q) \in Nat /\ DOMAIN q = 1..Len(q) /\ \A i \in 1..Len(q) : q[i] \in Entry
  OBVIOUS
<1>0. InsertedRun(<<>>, q)
  BY <1>5, InsertedRounds
<1>6. PICK f : /\ InsertedAll(<<>>, q) = f[Len(q)]
               /\ f[0] = <<>>
               /\ \A k \in 1..Len(q) : f[k] = Inserted(f[k - 1], q[k])
  BY <1>0 DEF InsertedRun
<1> DEFINE Good(k) == /\ f[k] \in Seq(Entry) /\ Len(f[k]) = k
                      /\ ByDepth(f[k]) /\ OneEach(f[k])
                      /\ Elements(f[k]) = {q[i] : i \in 1..k}
           S == {k \in Nat : k <= Len(q) => Good(k)}
<1>7. 0 \in S
  <2>1. {q[i] : i \in 1..0} = {}
    OBVIOUS
  <2>2. <<>> \in Seq(Entry) /\ Len(<<>>) = 0
    OBVIOUS
  <2>3. ByDepth(<<>>) /\ OneEach(<<>>) /\ Elements(<<>>) = {}
    BY <2>2 DEF ByDepth, OneEach, Elements
  <2> QED
    BY <1>6, <2>1, <2>2, <2>3
<1>8. ASSUME NEW k \in Nat, k \in S PROVE k + 1 \in S
  <2> SUFFICES ASSUME k + 1 <= Len(q) PROVE Good(k + 1)
    OBVIOUS
  <2> DEFINE p == f[k]
             r == f[k + 1]
             e == q[k + 1]
  <2>1. Good(k) /\ k + 1 \in 1..Len(q) /\ \A i \in 1..k : i \in 1..Len(q) /\ i # k + 1
    BY <1>5, <1>8
  <2>2. r = Inserted(p, e) /\ e \in Entry
    BY <1>5, <1>6, <2>1
  <2>3. \A i \in 1..k : q[i].key # e.key
    BY <2>1 DEF OneEach
  <2>4. p \in Seq(Entry) /\ Len(p) = k /\ ByDepth(p) /\ OneEach(p)
        /\ Elements(p) = {q[i] : i \in 1..k}
    BY <2>1
  <2>5. {q[i] : i \in 1..(k + 1)} = {q[i] : i \in 1..k} \cup {e}
    <3>1. \A i : i \in 1..(k + 1) <=> i \in 1..k \/ i = k + 1
      OBVIOUS
    <3> QED
      BY <3>1
  <2> HIDE DEF p, r, e
  <2>6. ASSUME NEW i \in 1..Len(p) PROVE p[i].key # e.key
    <3>1. p[i] \in {q[j] : j \in 1..k}
      BY <2>4 DEF Elements
    <3>2. PICK j \in 1..k : p[i] = q[j]
      BY <3>1
    <3> QED
      BY <2>3, <3>2
  <2>7. /\ r \in Seq(Entry) /\ Len(r) = Len(p) + 1 /\ ByDepth(r) /\ OneEach(r)
        /\ Elements(r) = Elements(p) \cup {e}
    BY <2>2, <2>4, <2>6, InsertedWorks
  <2> QED
    BY <2>4, <2>5, <2>7 DEF r
<1>9. Good(Len(q))
  <2> HIDE DEF S
  <2>1. Nat \subseteq S
    BY <1>7, <1>8, SetInduction
  <2>2. Len(q) \in S
    BY <1>5, <2>1
  <2> QED
    BY <1>5, <2>2 DEF S
<1> QED
  BY <1>6, <1>9 DEF Elements

\* updateTextureNamesByPrio: the names are those of the table, each once, as many
\* as it counts, from the lowest z to the highest.
LEMMA NamesWork ==
  ASSUME NEW t, TableOK(t)
  PROVE  LET p == NamesByPrio(t)
         IN /\ p \in Seq(Keys) /\ Len(p) = t.count
            /\ \A i \in 1..Len(p) : HasKey(Chain(t, p[i]), p[i])
            /\ \A i, j \in 1..Len(p) :
                 i < j => p[i] # p[j] /\ Lookup(t, p[i]).z <= Lookup(t, p[j]).z
<1> DEFINE n == Size(t)
           q == Nodes(t)
           s == InsertedAll(<<>>, q)
           p == NamesByPrio(t)
<1>1. n \in Nat \ {0} /\ Shape(t, n) /\ t.count = Cardinality(Pairs(t, n))
  BY DEF TableOK
<1>2. /\ q \in Seq(Entry) /\ Elements(q) = Pairs(t, n) /\ OneEach(q) /\ t.count = Len(q)
  <2> HIDE DEF n
  <2> QED
    BY <1>1, NodesWork DEF OneEach
<1>3. p = [i \in 1..Len(s) |-> s[i].key]
  BY DEF NamesByPrio, InsertedAll
<1> HIDE DEF n, q, p
<1>4. /\ s \in Seq(Entry) /\ Len(s) = Len(q) /\ ByDepth(s) /\ OneEach(s)
      /\ Elements(s) = Pairs(t, n)
  BY <1>2, InsertedAllWorks
<1> HIDE DEF s
<1>5. Len(s) \in Nat /\ \A i \in 1..Len(s) : s[i] \in Entry /\ s[i].key \in Keys
  <2>1. Len(s) \in Nat /\ \A i \in 1..Len(s) : s[i] \in Entry
    BY <1>4
  <2> QED
    BY <2>1 DEF Entry
<1>6. p \in Seq(Keys) /\ Len(p) = Len(s) /\ \A i \in 1..Len(s) : p[i] = s[i].key
  BY <1>3, <1>5, SeqDef
<1>7. ASSUME NEW i \in 1..Len(s)
      PROVE  HasKey(Chain(t, p[i]), p[i]) /\ Lookup(t, p[i]) = s[i].value
  <2> DEFINE k == p[i]
             e == s[i]
             g == [key |-> k, value |-> Lookup(t, k)]
  <2>1. e \in Pairs(t, n) /\ e.key = k /\ k \in Keys
    BY <1>4, <1>5, <1>6 DEF Elements
  <2>2. Has(t, n, k)
    BY <2>1 DEF Has
  <2> HIDE DEF k, e
  <2>3. e = g /\ HasKey(Chain(t, k), k)
    BY <1>1, <2>1, <2>2, LookupIs
  <2>4. e.value = Lookup(t, k)
    BY <2>3
  <2> QED
    BY <2>3, <2>4 DEF k, e
<1>8. ASSUME NEW i \in 1..Len(s), NEW j \in 1..Len(s), i < j
      PROVE  p[i] # p[j] /\ Lookup(t, p[i]).z <= Lookup(t, p[j]).z
  <2>1. i # j
    BY <1>5, <1>8
  <2>2. s[i].key # s[j].key /\ s[i].value.z <= s[j].value.z
    BY <1>4, <1>8, <2>1 DEF ByDepth, OneEach
  <2> QED
    BY <1>6, <1>7, <2>2
<1> QED
  BY <1>2, <1>4, <1>6, <1>7, <1>8 DEF p

-----------------------------------------------------------------------------
\* A texInfo with another z or another state is a texInfo, and the state does not
\* change z.
LEMMA TextureValues ==
  ASSUME NEW v \in Values
  PROVE  /\ \A z \in Depths : [v EXCEPT !.z = z] \in Values
         /\ \A b \in BOOLEAN : LET w == [v EXCEPT !.active = b]
                                IN w \in Values /\ w.z = v.z
BY DepthsAssumption

\* The map a table stands for.
ValueOf(t) == [k \in Keys |-> Lookup(t, k)]

\* A key of the table has a value.
LEMMA LookupTyped ==
  ASSUME NEW t, TableOK(t), NEW k \in Keys
  PROVE  HasKey(Chain(t, k), k) => Lookup(t, k) \in Values
<1> DEFINE n == Size(t)
<1>1. n \in Nat \ {0} /\ Shape(t, n)
  BY DEF TableOK
<1> HIDE DEF n
<1> QED
  BY <1>1, LookupIs

\* The invariant of the table in all three parts; the textures return nothing.
TablesInv ==
  /\ TableOK(table)
  /\ part \in {"heap", "table", "textures"}
  /\ part = "textures" => result = NoValue

\* The invariant of the textures: the names are keys, and what TexturesAgree says.
RegistryInv ==
  part = "textures" =>
    /\ state = "ready" => prio \in Seq(Keys)
    /\ PrioMatchesTable

\* The table hashtable_new makes is in order and stands for the empty map.
LEMMA EmptyOK ==
  LET t == Empty(InitialSize)
  IN TableOK(t) /\ \A k \in Keys : Lookup(t, k) = NoValue
<1> DEFINE n == InitialSize
           t == Empty(InitialSize)
<1>1. n \in Nat \ {0} /\ n >= 4
  BY HashTableAssumption
<1>2. Shape(t, n) /\ Pairs(t, n) = {} /\ t.count = 0
  BY <1>1, EmptyWorks
<1> HIDE DEF n, t
<1>3. Size(t) = n
  BY <1>1, <1>2, ShapeSize
<1>4. Cardinality(Pairs(t, n)) = 0
  BY <1>2, FS_EmptySet
<1>5. 10 * 0 <= 7 * n + 10
  BY <1>1
<1>6. ASSUME NEW k \in Keys PROVE Lookup(t, k) = NoValue
  <2>1. ~Has(t, n, k)
    BY <1>2 DEF Has
  <2> QED
    BY <1>1, <1>2, <2>1, LookupIs
<1>7. TableOK(t)
  BY <1>1, <1>2, <1>3, <1>4, <1>5 DEF TableOK
<1> QED
  BY <1>6, <1>7 DEF t

\* What a step of the table does to it and to the map it stands for.
MapStep(t, r, res) ==
  \/ \E k \in Keys : \E v \in Values :
       ValueOf(r) = [ValueOf(t) EXCEPT ![k] = v] /\ res = NoValue
  \/ \E k \in Keys : ValueOf(r) = [ValueOf(t) EXCEPT ![k] = NoValue] /\ res = NoValue
  \/ \E k \in Keys : r = t /\ res = ValueOf(t)[k]

\* hashtable_put is Put of the map,
LEMMA PutIsMapPut ==
  ASSUME NEW t, TableOK(t), NEW k \in Keys, NEW v \in Values
  PROVE  /\ TableOK(WithPut(t, k, v))
         /\ ValueOf(WithPut(t, k, v)) = [ValueOf(t) EXCEPT ![k] = v]
<1> DEFINE r == WithPut(t, k, v)
<1>1. /\ TableOK(r)
      /\ \A j \in Keys : Lookup(r, j) = IF j = k THEN v ELSE Lookup(t, j)
  BY PutWorks
<1> HIDE DEF r
<1>2. ValueOf(r) = [ValueOf(t) EXCEPT ![k] = v]
  BY <1>1 DEF ValueOf
<1> QED
  BY <1>1, <1>2 DEF r

\* hashtable_remove is its Remove,
LEMMA RemoveIsMapRemove ==
  ASSUME NEW t, TableOK(t), NEW k \in Keys, HasKey(Chain(t, k), k)
  PROVE  /\ TableOK(WithRemoved(t, k))
         /\ ValueOf(WithRemoved(t, k)) = [ValueOf(t) EXCEPT ![k] = NoValue]
<1> DEFINE r == WithRemoved(t, k)
<1>1. /\ TableOK(r)
      /\ \A j \in Keys : Lookup(r, j) = IF j = k THEN NoValue ELSE Lookup(t, j)
  BY RemoveKeeps
<1> HIDE DEF r
<1>2. ValueOf(r) = [ValueOf(t) EXCEPT ![k] = NoValue]
  BY <1>1 DEF ValueOf
<1> QED
  BY <1>1, <1>2 DEF r

\* and the two one after the other, as createTextureEx does them, are one Put.
LEMMA RecreateIsMapPut ==
  ASSUME NEW t, TableOK(t), NEW k \in Keys, HasKey(Chain(t, k), k), NEW v \in Values
  PROVE  LET r == WithPut(WithRemoved(t, k), k, v)
         IN /\ TableOK(r) /\ ValueOf(r) = [ValueOf(t) EXCEPT ![k] = v]
            /\ r.count = t.count
<1> DEFINE s == WithRemoved(t, k)
           r == WithPut(s, k, v)
<1>1. /\ TableOK(s) /\ ValueOf(s) = [ValueOf(t) EXCEPT ![k] = NoValue]
      /\ ~HasKey(Chain(s, k), k) /\ s.count = t.count - 1
  BY RemoveIsMapRemove, RemoveKeeps
<1> HIDE DEF s
<1>2. TableOK(r) /\ ValueOf(r) = [ValueOf(s) EXCEPT ![k] = v] /\ r.count = s.count + 1
  BY <1>1, PutIsMapPut, PutWorks
<1> HIDE DEF r
<1>3. ValueOf(r) = [ValueOf(t) EXCEPT ![k] = v]
  BY <1>1, <1>2 DEF ValueOf
<1>4. t.count \in Nat
  BY ShapeFacts DEF TableOK
<1>5. r.count = t.count
  BY <1>1, <1>2, <1>4
<1> QED
  BY <1>2, <1>3, <1>5 DEF r, s

\* Every step keeps the table in order and is a step of the map.
LEMMA TableSteps ==
  ASSUME TablesInv, ContainersNext
  PROVE  /\ TableOK(table')
         /\ MapStep(table, table', result') \/ (table' = table /\ result' = result)
<1>1. CASE part = "heap"
  BY <1>1 DEF ContainersNext, registryVars, tableVars, TablesInv
<1>2. CASE part = "table"
  <2> SUFFICES ASSUME NEW k \in Keys,
                      \/ \E v \in Values : HtPut(k, v)
                      \/ HtGet(k)
                      \/ HtRemove(k)
                      \/ HtRemoveMissing(k)
               PROVE  TableOK(table') /\ MapStep(table, table', result')
    BY <1>2 DEF ContainersNext, NextHashTable
  <2>0. TableOK(table)
    BY DEF TablesInv
  <2>1. CASE \E v \in Values : HtPut(k, v)
    BY <2>0, <2>1, PutIsMapPut DEF HtPut, MapStep
  <2>2. CASE HtGet(k)
    <3>1. ValueOf(table)[k] = Lookup(table, k)
      BY DEF ValueOf
    <3> QED
      BY <2>0, <2>2, <3>1 DEF HtGet, MapStep
  <2>3. CASE HtRemove(k)
    BY <2>0, <2>3, RemoveIsMapRemove DEF HtRemove, MapStep
  <2>4. CASE HtRemoveMissing(k)
    <3> DEFINE n == Size(table)
    <3>1. n \in Nat \ {0} /\ Shape(table, n)
      BY <2>0 DEF TableOK
    <3>2. Lookup(table, k) = NoValue
      <4> HIDE DEF n
      <4> QED
        BY <2>4, <3>1, LookupIs DEF HtRemoveMissing
    <3>3. ValueOf(table) = [ValueOf(table) EXCEPT ![k] = NoValue]
      BY <3>2 DEF ValueOf
    <3> QED
      BY <2>0, <2>4, <3>3 DEF HtRemoveMissing, MapStep
  <2> QED
    BY <2>1, <2>2, <2>3, <2>4
<1>3. CASE part = "textures"
  <2> SUFFICES ASSUME NEW name \in Keys,
                      \/ \E z \in Depths : \/ CreateNewTexture(name, z)
                                           \/ RecreateTexture(name, z)
                                           \/ SetTexturePrio(name, z)
                      \/ RecreateHangs(name)
                      \/ CreateTextureFails(name)
                      \/ DestroyTexture(name)
                      \/ \E active \in BOOLEAN : SetTextureActive(name, active)
               PROVE  /\ TableOK(table')
                      /\ MapStep(table, table', result') \/ (table' = table /\ result' = result)
    BY <1>3 DEF ContainersNext, NextRegistry
  <2>0. TableOK(table) /\ result = NoValue
    BY <1>3 DEF TablesInv
  <2>1. ASSUME NEW z \in Depths, CreateNewTexture(name, z)
        PROVE  TableOK(table') /\ MapStep(table, table', result')
    <3>1. TexInfo(z) \in Values
      BY DepthsAssumption DEF TexInfo
    <3> QED
      BY <2>0, <2>1, <3>1, PutIsMapPut DEF CreateNewTexture, MapStep
  <2>2. ASSUME NEW z \in Depths, RecreateTexture(name, z)
        PROVE  TableOK(table') /\ MapStep(table, table', result')
    <3>1. TexInfo(z) \in Values
      BY DepthsAssumption DEF TexInfo
    <3> QED
      BY <2>0, <2>2, <3>1, RecreateIsMapPut DEF RecreateTexture, Exists, MapStep
  <2>3. ASSUME NEW z \in Depths, SetTexturePrio(name, z)
        PROVE  TableOK(table') /\ MapStep(table, table', result')
    <3>1. Lookup(table, name) \in Values
      BY <2>0, <2>3, LookupTyped DEF SetTexturePrio, Exists
    <3>2. [Lookup(table, name) EXCEPT !.z = z] \in Values
      BY <3>1, TextureValues
    <3> QED
      BY <2>0, <2>3, <3>2, PutIsMapPut DEF SetTexturePrio, MapStep
  <2>4. ASSUME RecreateHangs(name)
        PROVE  TableOK(table') /\ MapStep(table, table', result')
    BY <2>0, <2>4, RemoveIsMapRemove DEF RecreateHangs, Exists, MapStep
  <2>5. ASSUME DestroyTexture(name)
        PROVE  TableOK(table') /\ MapStep(table, table', result')
    BY <2>0, <2>5, RemoveIsMapRemove DEF DestroyTexture, Exists, MapStep
  <2>6. ASSUME CreateTextureFails(name)
        PROVE  /\ TableOK(table')
               /\ MapStep(table, table', result') \/ (table' = table /\ result' = result)
    BY <2>0, <2>5, <2>6 DEF CreateTextureFails, registryVars, tableVars
  <2>7. ASSUME NEW active \in BOOLEAN, SetTextureActive(name, active)
        PROVE  TableOK(table') /\ MapStep(table, table', result')
    <3>1. Lookup(table, name) \in Values
      BY <2>0, <2>7, LookupTyped DEF SetTextureActive, Exists
    <3>2. [Lookup(table, name) EXCEPT !.active = active] \in Values
      BY <3>1, TextureValues
    <3> QED
      BY <2>0, <2>7, <3>2, PutIsMapPut DEF SetTextureActive, MapStep
  <2> QED
    BY <2>1, <2>2, <2>3, <2>4, <2>5, <2>6, <2>7
<1> QED
  BY <1>1, <1>2, <1>3 DEF TablesInv

\* Every step keeps the invariant of the table.
LEMMA TypesKept ==
  ASSUME TablesInv, [ContainersNext]_containerVars PROVE TablesInv'
<1>1. CASE ContainersNext
  <2>1. part' = part
    BY <1>1 DEF ContainersNext
  <2>2. ASSUME part = "textures" PROVE result' = result
    BY <1>1, <2>2 DEF ContainersNext, NextRegistry, CreateNewTexture, RecreateTexture,
       SetTexturePrio, RecreateHangs, DestroyTexture, CreateTextureFails, SetTextureActive,
       registryVars, tableVars
  <2>3. TableOK(table')
    BY <1>1, TableSteps
  <2> QED
    BY <2>1, <2>2, <2>3 DEF TablesInv
<1>2. CASE UNCHANGED containerVars
  BY <1>2 DEF TablesInv, containerVars, registryVars, tableVars
<1> QED
  BY <1>1, <1>2

\* The invariant of the table holds in every behaviour.
LEMMA TablesInvHolds == ContainersSpec => []TablesInv
<1>1. ContainersInit => TablesInv
  BY EmptyOK DEF ContainersInit, InitRegistry, InitHashTable, TablesInv
<1> QED
  BY <1>1, TypesKept, PTL DEF ContainersSpec

\* It says what ChainsOK says.
LEMMA TableOKMeansChainsOK == TableOK(table) => ChainsOK
<1> SUFFICES ASSUME TableOK(table) PROVE ChainsOK
  OBVIOUS
<1> DEFINE n == Size(table)
<1>1. n \in Nat \ {0} /\ Shape(table, n) /\ table.count = Cardinality(Pairs(table, n))
      /\ 10 * table.count <= 7 * n + 10
  BY DEF TableOK
<1>2. DOMAIN table.slots = 0..(n - 1)
  BY <1>1 DEF Shape
<1>3. table.count = Len(Nodes(table))
  <2> HIDE DEF n
  <2> QED
    BY <1>1, NodesWork
<1> QED
  BY <1>1, <1>2, <1>3 DEF ChainsOK, Shape

\* ChainsOK: after any puts, resizes and removes, by the table or the textures, a
\* key has one node at most, where the next get looks for it, and count is right.
THEOREM ChainsStayOK == ContainersSpec => []ChainsOK
BY TablesInvHolds, TableOKMeansChainsOK, PTL DEF TablesInv

\* ImplementsMap: the table with its chains and resizes implements the associative
\* map of AssociativeMap.
THEOREM TableIsMap == ContainersSpec => ImplementsMap
<1>1. ContainersInit => Map!Init
  BY EmptyOK DEF ContainersInit, InitRegistry, InitHashTable, Map!Init
<1>2. ASSUME TablesInv, [ContainersNext]_containerVars
      PROVE  [Map!Next]_<<[k \in Keys |-> Lookup(table, k)], result>>
  <2>1. CASE ContainersNext
    <3>1. CASE table' = table /\ result' = result
      BY <3>1
    <3>2. CASE MapStep(table, table', result')
      BY <3>2 DEF MapStep, ValueOf, Map!Next, Map!Put, Map!Get, Map!Remove
    <3> QED
      BY <1>2, <2>1, <3>1, <3>2, TableSteps
  <2>2. CASE UNCHANGED containerVars
    BY <2>2 DEF containerVars, registryVars, tableVars
  <2> QED
    BY <1>2, <2>1, <2>2
<1> QED
  BY <1>1, <1>2, TablesInvHolds, PTL DEF ContainersSpec, ImplementsMap, Map!Spec

\* After an updateTextureNamesByPrio the names agree with the table.
LEMMA SortedAgain ==
  ASSUME TableOK(table'), prio' = NamesByPrio(table')
  PROVE  (/\ state = "ready" => prio \in Seq(Keys)
          /\ PrioMatchesTable)'
BY NamesWork DEF PrioMatchesTable, Exists, Depth

\* Every step of the textures keeps table, names and count in agreement.
LEMMA RegistrySteps ==
  ASSUME TablesInv, RegistryInv, [ContainersNext]_containerVars PROVE RegistryInv'
<1> DEFINE Agree == /\ state = "ready" => prio \in Seq(Keys)
                    /\ PrioMatchesTable
<1>0. TableOK(table) /\ table.count \in Nat
  BY ShapeFacts DEF TablesInv, TableOK
<1>00. TableOK(table')
  BY TypesKept DEF TablesInv
<1>1. CASE UNCHANGED containerVars
  BY <1>1 DEF RegistryInv, containerVars, registryVars, tableVars, PrioMatchesTable,
     Exists, Depth
<1>2. CASE ContainersNext /\ part # "textures"
  BY <1>2 DEF ContainersNext, RegistryInv
<1>3. CASE ContainersNext /\ part = "textures"
  <2> SUFFICES ASSUME NEW name \in Keys,
                      \/ \E z \in Depths : \/ CreateNewTexture(name, z)
                                           \/ RecreateTexture(name, z)
                                           \/ SetTexturePrio(name, z)
                      \/ RecreateHangs(name)
                      \/ CreateTextureFails(name)
                      \/ DestroyTexture(name)
                      \/ \E active \in BOOLEAN : SetTextureActive(name, active)
               PROVE  Agree'
    BY <1>3 DEF ContainersNext, NextRegistry, RegistryInv
  <2>0. Agree
    BY <1>3 DEF RegistryInv
  <2>00. state' # "ready" => Agree'
    BY DEF PrioMatchesTable
  <2>1. ASSUME NEW z \in Depths, CreateNewTexture(name, z) PROVE Agree'
    BY <1>00, <2>1, SortedAgain DEF CreateNewTexture
  <2>2. ASSUME NEW z \in Depths, RecreateTexture(name, z) PROVE Agree'
    BY <1>00, <2>2, SortedAgain DEF RecreateTexture
  <2>3. ASSUME NEW z \in Depths, SetTexturePrio(name, z) PROVE Agree'
    <3>1. state' = "ready" => prio' = NamesByPrio(table')
      BY <2>3 DEF SetTexturePrio
    <3> QED
      BY <1>00, <2>00, <3>1, SortedAgain
  <2>4. CASE RecreateHangs(name)
    BY <2>00, <2>4 DEF RecreateHangs
  <2>5. ASSUME DestroyTexture(name) PROVE Agree'
    <3>1. state' = "ready" => prio' = NamesByPrio(table')
      BY <2>5 DEF DestroyTexture, PrioAfterRemove
    <3> QED
      BY <1>00, <2>00, <3>1, SortedAgain
  <2>6. CASE CreateTextureFails(name)
    <3>1. CASE Exists(name)
      BY <2>5, <2>6, <3>1 DEF CreateTextureFails
    <3>2. CASE ~Exists(name)
      BY <2>0, <2>6, <3>2 DEF CreateTextureFails, registryVars, tableVars, PrioMatchesTable,
         Exists, Depth
    <3> QED
      BY <3>1, <3>2
  <2>7. ASSUME NEW active \in BOOLEAN, SetTextureActive(name, active) PROVE Agree'
    <3> DEFINE v == [Lookup(table, name) EXCEPT !.active = active]
    <3>1. v \in Values /\ v.z = Lookup(table, name).z
      BY <1>0, <2>7, LookupTyped, TextureValues DEF SetTextureActive, Exists
    <3> HIDE DEF v
    <3>2. /\ table'.count = table.count
          /\ \A j \in Keys : /\ HasKey(Chain(table', j), j) <=> HasKey(Chain(table, j), j)
                             /\ Lookup(table', j).z = Lookup(table, j).z
      <4>1. table' = WithPut(table, name, v) /\ HasKey(Chain(table, name), name)
        BY <2>7 DEF SetTextureActive, Exists, v
      <4>2. /\ table'.count = table.count
            /\ \A j \in Keys : Lookup(table', j) = IF j = name THEN v ELSE Lookup(table, j)
            /\ \A j \in Keys :
                 HasKey(Chain(table', j), j) <=> j = name \/ HasKey(Chain(table, j), j)
        BY <1>0, <3>1, <4>1, PutWorks
      <4> QED
        BY <3>1, <4>1, <4>2
    <3>3. /\ prio' = prio /\ state = "ready" /\ state' = "ready"
          /\ prio \in Seq(Keys)
      BY <2>0, <2>7 DEF SetTextureActive
    <3>4. \A i \in 1..Len(prio) : prio[i] \in Keys
      BY <3>3
    <3>5. PrioMatchesTable'
      BY <2>0, <3>2, <3>3, <3>4 DEF PrioMatchesTable, Exists, Depth
    <3> QED
      BY <3>3, <3>5
  <2> QED
    BY <2>1, <2>2, <2>3, <2>4, <2>5, <2>6, <2>7
<1> QED
  BY <1>1, <1>2, <1>3

\* TexturesAgree: whatever textures are made, destroyed and changed, renderActive
\* finds what it reads.
THEOREM RegistryAgrees == ContainersSpec => []TexturesAgree
<1>1. ContainersInit => RegistryInv
  <2> SUFFICES ASSUME ContainersInit PROVE RegistryInv
    OBVIOUS
  <2>1. /\ table.count = 0 /\ prio = <<>>
    BY DEF ContainersInit, InitRegistry, InitHashTable, Empty
  <2>2. Len(prio) = 0 /\ prio \in Seq(Keys)
    BY <2>1
  <2> QED
    BY <2>1, <2>2 DEF RegistryInv, PrioMatchesTable
<1>2. RegistryInv => TexturesAgree
  BY DEF RegistryInv, TexturesAgree
<1> QED
  BY <1>1, <1>2, RegistrySteps, TablesInvHolds, PTL DEF ContainersSpec

\* Every behaviour of the three parts is one of the heap: what is proved of the
\* heap alone holds in them too.
LEMMA HeapIsPart == ContainersSpec => Spec
<1>1. ContainersInit => Init
  BY DEF ContainersInit
<1>2. [ContainersNext]_containerVars => [Next]_vars
  BY DEF ContainersNext, containerVars
<1> QED
  BY <1>1, <1>2, PTL DEF ContainersSpec, Spec

\* ShapeOK, NothingLost, OrderKept and ActsAsCallQueue in those behaviours.
THEOREM HeapInContainers ==
  ContainersSpec => []ShapeOK /\ NothingLost /\ OrderKept /\ ActsAsCallQueue
BY HeapIsPart, HeapShape, HeapLosesNothing, HeapKeepsOrder, HeapIsCallQueue, PTL
=============================================================================
