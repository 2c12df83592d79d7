---------------------------- MODULE MCContainers ----------------------------
(***************************************************************************)
(* The heap, the hash table and the table of textures for TLC, one of them *)
(* in a behaviour.  The keys are texture names of the wallyd scripts with  *)
(* their real hashes.                                                      *)
(***************************************************************************)
EXTENDS PriorityQueue, TextureRegistry

VARIABLE part

containerVars == <<vars, registryVars, part>>

\* "main", "logo" and "text" share a bucket of four, "logo" and "text" one of
\* the six that the first resize makes.
MCHash ==
  [k \in {"main", "log", "logo", "text"} |->
     CASE k = "main" -> 96534950
       [] k = "log" -> 63897923
       [] k = "logo" -> 99615154
       [] k = "text" -> 103612870]

MCValues == [z : Depths, active : BOOLEAN]

ContainersInit ==
  /\ Init /\ InitRegistry
  /\ part \in {"heap", "table", "textures"}

ContainersNext ==
  /\ UNCHANGED part
  /\ \/ part = "heap" /\ Next /\ UNCHANGED registryVars
     \/ part = "table" /\ NextHashTable /\ UNCHANGED <<vars, prio>>
     \/ part = "textures" /\ NextRegistry /\ UNCHANGED vars

ContainersSpec == ContainersInit /\ [][ContainersNext]_containerVars
-----------------------------------------------------------------------------
Map == INSTANCE AssociativeMap
         WITH map <- [k \in Keys |-> Lookup(table, k)]

\* The table implements the associative map until a remove has broken it, under
\* its own operations and under those of the textures.
ImplementsMap == Map!Spec

\* The table and the drawing order of the registry agree, in the behaviours of
\* the UI.
TexturesAgree == part = "textures" => PrioMatchesTable
=============================================================================
