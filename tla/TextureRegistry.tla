-------------------------- MODULE TextureRegistry --------------------------
(***************************************************************************)
(* The textures of lib/ui.c: ph->baseTextures, a hash table of texInfo     *)
(* records, and ph->texturePrio, the names in drawing order.  Both belong  *)
(* to the UI thread; each function is one step.  A texInfo is what the     *)
(* drawing order depends on.  ph->textureCount is left out: nothing reads  *)
(* it but the statistics.                                                  *)
(***************************************************************************)
EXTENDS HashTable

CONSTANT Depths     \* the z values; how the texture is drawn is left out

ASSUME DepthsAssumption ==
  /\ Depths \subseteq Nat
  /\ Values = [z : Depths, active : BOOLEAN]

VARIABLE prio     \* ph->texturePrio, or Stale

registryVars == <<tableVars, prio>>

\* What malloc returned, when the thread stopped before anything was stored.
Stale == <<NoValue>>

InitRegistry ==
  /\ InitHashTable
  /\ prio = <<>>

(***************************************************************************)
(* updateTextureNamesByPrio sorts the keys, as ht_keys lists them, with a  *)
(* bubble sort that exchanges neighbours when z is greater: equal z keep   *)
(* their order.  (Faulty variant: the order of the table.)                 *)
(***************************************************************************)
NamesByPrio_Unsorted(t) == [i \in 1..Len(Nodes(t)) |-> Nodes(t)[i].key]

\* s with n before the first texture that is above it.
Inserted(s, n) ==
  InsertAt(s, Min({i \in 1..Len(s) : s[i].value.z > n.value.z} \cup {Len(s) + 1}), n)

NamesByPrio(t) ==
  LET sorted == FoldLeft(Inserted, <<>>, Nodes(t))
  IN [i \in 1..Len(sorted) |-> sorted[i].key]

\* With the table's mutex kept the first getTexture of the sort never returns;
\* with one entry left nothing has to be compared.
PrioAfterRemove(t, s) ==
  IF s = "locked" /\ t.count >= 2 THEN Stale ELSE NamesByPrio(t)

Exists(name) == HasKey(Chain(table, name), name)

DestroyTexture(name) ==
  /\ state = "ready"
  /\ Exists(name)
  /\ table' = WithRemoved(table, name)
  /\ state' = AfterRemove(table, name)
  /\ prio' = PrioAfterRemove(table', state')
  /\ UNCHANGED result

TexInfo(z) == [z |-> z, active |-> TRUE]

CreateNewTexture(name, z) ==
  /\ state = "ready"
  /\ ~Exists(name)
  /\ table' = WithPut(table, name, TexInfo(z))
  /\ prio' = NamesByPrio(table')
  /\ UNCHANGED <<state, result>>

\* createTextureEx destroys the texture of that name before it makes the new
\* one; it comes that far only if destroyTexture has left the mutex free.
RecreateTexture(name, z) ==
  LET rest == WithRemoved(table, name)
  IN /\ state = "ready"
     /\ Exists(name)
     /\ AfterRemove(table, name) = "ready"
     /\ table' = WithPut(rest, name, TexInfo(z))
     /\ prio' = NamesByPrio(table')
     /\ UNCHANGED <<state, result>>

\* With the mutex kept the thread stops in the sort, or, when there is nothing
\* to sort, at the insert.
RecreateHangs(name) ==
  /\ state = "ready"
  /\ Exists(name)
  /\ AfterRemove(table, name) = "locked"
  /\ table' = WithRemoved(table, name)
  /\ state' = "locked"
  /\ prio' = PrioAfterRemove(table', state')
  /\ UNCHANGED result

\* Wrong parameters, a size of zero or an SDL error are found after the old
\* texture has been destroyed; for a new name nothing has happened yet.
CreateTextureFails(name) ==
  IF Exists(name) THEN DestroyTexture(name)
  ELSE state = "ready" /\ UNCHANGED registryVars

SetTextureActive(name, active) ==
  /\ state = "ready"
  /\ Exists(name)
  /\ table' = WithPut(table, name,
                      [Lookup(table, name) EXCEPT !.active = active])
  /\ UNCHANGED <<state, result, prio>>

\* setTexturePrio (plugins/sdlimage.c) frees texturePrio, which exists by then,
\* and so does updateTextureNamesByPrio after it.  What a second free of the
\* same block does is undefined: the allocator aborts, or does not notice.
SetTexturePrio(name, z) ==
  /\ state = "ready"
  /\ Exists(name)
  /\ table' = WithPut(table, name, [Lookup(table, name) EXCEPT !.z = z])
  /\ \/ state' = "crashed" /\ prio' = Stale
     \/ state' = "ready" /\ prio' = NamesByPrio(table')
  /\ UNCHANGED result

NextRegistry ==
  \E name \in Keys :
    \/ \E z \in Depths : \/ CreateNewTexture(name, z)
                         \/ RecreateTexture(name, z)
                         \/ SetTexturePrio(name, z)
    \/ RecreateHangs(name)
    \/ CreateTextureFails(name)
    \/ DestroyTexture(name)
    \/ \E active \in BOOLEAN : SetTextureActive(name, active)
-----------------------------------------------------------------------------
Depth(name) == Lookup(table, name).z

\* While the thread runs, renderActive finds what it reads without a look at
\* any of it: as many names as the table counts, each of them in the table and
\* listed once, from the lowest z to the highest.
PrioMatchesTable ==
  state = "ready" =>
    /\ Len(prio) = table.count
    /\ \A i \in 1..Len(prio) : Exists(prio[i])
    /\ \A i, j \in 1..Len(prio) :
         i < j => prio[i] # prio[j] /\ Depth(prio[i]) <= Depth(prio[j])
=============================================================================
