--------------------------- MODULE AssociativeMap ---------------------------
(***************************************************************************)
(* What the comments of lib/Hash_Table.h promise: put adds or replaces,    *)
(* get returns the value or nothing, remove takes one entry away.          *)
(***************************************************************************)
CONSTANTS Keys, Values, NoValue

VARIABLES map,      \* the value of each key, or NoValue
          result    \* what the last operation returned

Init ==
  /\ map = [k \in Keys |-> NoValue]
  /\ result = NoValue

Put(k, v) == map' = [map EXCEPT ![k] = v] /\ result' = NoValue

Get(k) == result' = map[k] /\ UNCHANGED map

Remove(k) == map' = [map EXCEPT ![k] = NoValue] /\ result' = NoValue

Next ==
  \E k \in Keys :
    \/ \E v \in Values : Put(k, v)
    \/ Get(k)
    \/ Remove(k)

Spec == Init /\ [][Next]_<<map, result>>
=============================================================================
