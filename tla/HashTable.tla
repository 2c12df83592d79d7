----------------------------- MODULE HashTable -----------------------------
(***************************************************************************)
(* lib/Hash_Table.c: chained buckets that grow, every operation under      *)
(* ht_mutex.  The wallyd tables for functions, textures, fonts, colours    *)
(* and configuration are all of this kind, with string keys.               *)
(*                                                                         *)
(* A table is a record: slots maps 0..size-1 to chains of nodes, count is  *)
(* what the code keeps in h_table->count.                                  *)
(***************************************************************************)
EXTENDS Naturals, Sequences, SequencesExt

CONSTANTS
  Keys,
  Values,
  NoValue,
  Hash,         \* the adler32 of each key and its terminating NUL
  InitialSize   \* 10 in hashtable_new_default

ASSUME HashTableAssumption ==
  /\ Hash \in [Keys -> Nat]
  /\ NoValue \notin Values
  /\ InitialSize \in Nat /\ InitialSize >= 4

VARIABLES
  table,
  state,     \* "ready", "locked" for good by a remove, or "crashed"
  result     \* what the last operation returned

tableVars == <<table, state, result>>

Size(t) == Cardinality(DOMAIN t.slots)
Bucket(k, n) == Hash[k] % n
Chain(t, k) == t.slots[Bucket(k, Size(t))]

HasKey(chain, k) == \E i \in 1..Len(chain) : chain[i].key = k

\* The nodes in the order of the buckets, as ht_keys and resize visit them.
Nodes(t) == FlattenSeq([i \in 1..Size(t) |-> t.slots[i - 1]])

\* hashtable_get runs through the whole chain: the last match counts.
Lookup(t, k) ==
  LET chain == Chain(t, k)
      found == {i \in 1..Len(chain) : chain[i].key = k}
  IN IF found = {} THEN NoValue
     ELSE chain[CHOOSE i \in found : \A j \in found : j <= i].value

Empty(n) == [slots |-> [i \in 0..(n - 1) |-> <<>>], count |-> 0]

InitHashTable ==
  /\ table = Empty(InitialSize)
  /\ state = "ready"
  /\ result = NoValue

Prepend(t, node) ==
  [slots |-> [t.slots EXCEPT ![Bucket(node.key, Size(t))] = <<node>> \o @],
   count |-> t.count + 1]

\* Faulty variant: the chains stay in the buckets they were in.
Resized_SameBuckets(t) ==
  [slots |-> [i \in 0..(((3 * Size(t)) \div 2) - 1) |->
                IF i < Size(t) THEN t.slots[i] ELSE <<>>],
   count |-> t.count]

\* Each node is put again, from the head of each chain on.  The keys differ
\* and the new load is below 0.7, so that put neither replaces nor resizes.
Resized(t) == FoldLeft(Prepend, Empty((3 * Size(t)) \div 2), Nodes(t))

TooFull(t) == 10 * t.count > 7 * Size(t)

\* Faulty variant: no look for an entry of the key.
WithPut_NoReplace(t, k, v) ==
  Prepend(IF TooFull(t) THEN Resized(t) ELSE t, [key |-> k, value |-> v])

WithPut(t, k, v) ==
  IF HasKey(Chain(t, k), k)
    THEN [t EXCEPT !.slots[Bucket(k, Size(t))] =
            [i \in 1..Len(@) |-> IF @[i].key = k THEN [@[i] EXCEPT !.value = v]
                                                 ELSE @[i]]]
    ELSE Prepend(IF TooFull(t) THEN Resized(t) ELSE t,
                 [key |-> k, value |-> v])

WithRemoved(t, k) ==
  LET at == Min({i \in 1..Len(Chain(t, k)) : Chain(t, k)[i].key = k})
  IN [slots |-> [t.slots EXCEPT ![Bucket(k, Size(t))] = RemoveAt(@, at)],
      count |-> t.count - 1]

HtPut(k, v) ==
  /\ state = "ready"
  /\ table' = WithPut(table, k, v)
  /\ result' = NoValue
  /\ UNCHANGED state

HtGet(k) ==
  /\ state = "ready"
  /\ result' = Lookup(table, k)
  /\ UNCHANGED <<table, state>>

\* hashtable_remove unlocks when the entry is the head of its chain and when
\* it is missing, not when it is further down.
AfterRemove(t, k) == IF Head(Chain(t, k)).key = k THEN "ready" ELSE "locked"

HtRemove(k) ==
  /\ state = "ready"
  /\ HasKey(Chain(table, k), k)
  /\ table' = WithRemoved(table, k)
  /\ state' = AfterRemove(table, k)
  /\ result' = NoValue

\* The key of the head is read before anything looks whether there is one.
HtRemoveMissing(k) ==
  /\ state = "ready"
  /\ ~HasKey(Chain(table, k), k)
  /\ state' = IF Chain(table, k) = <<>> THEN "crashed" ELSE "ready"
  /\ result' = NoValue
  /\ UNCHANGED table

NextHashTable ==
  \E k \in Keys :
    \/ \E v \in Values : HtPut(k, v)
    \/ HtGet(k)
    \/ HtRemove(k)
    \/ HtRemoveMissing(k)

-----------------------------------------------------------------------------
\* After any sequence of put, resize and remove a key has at most one node,
\* which is in the bucket the next get will search, count is the number of
\* nodes, and the load has not passed the maximum by more than one node.
ChainsOK ==
  /\ \A b \in DOMAIN table.slots :
       \A i, j \in 1..Len(table.slots[b]) :
         /\ Bucket(table.slots[b][i].key, Size(table)) = b
         /\ table.slots[b][i].key = table.slots[b][j].key => i = j
  /\ table.count = Len(Nodes(table))
  /\ 10 * table.count <= 7 * Size(table) + 10

\* "Removes entry with given key. If no entry exists, does nothing."
\* (Hash_Table.h): a remove comes to its end and leaves a table that can be
\* used, whatever the key.
RemoveDoesNoHarm == state = "ready"
=============================================================================
