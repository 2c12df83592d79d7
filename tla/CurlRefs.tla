------------------------------ MODULE CurlRefs ------------------------------
(***************************************************************************)
(* The callbacks of curl handles (plugins/dukcurl.c): legacy_duv_ref and   *)
(* legacy_duv_unref keep them in the array refs of the heap stash, whose   *)
(* free slots are a list that begins in slot 0; a container holds the slot *)
(* of each of its callbacks, 0 for none.                                   *)
(*                                                                         *)
(* Left out is duphandle: it pushes the copy that libcurl makes in place   *)
(* of a container, and what its finaliser then takes for slots is whatever *)
(* libcurl keeps there.  reset leaves callbacks and slots as they are.     *)
(***************************************************************************)
EXTENDS Naturals, Sequences

CONSTANTS
  Handles,      \* curl objects of the script
  Events,       \* the callback options
  Functions,    \* what a script sets
  MaxSlots      \* bound on the array

ASSUME CurlAssumption ==
  /\ MaxSlots \in Nat /\ Functions \cap Nat = {}
  /\ Events = {"write", "header", "read"}

VARIABLES
  refs,       \* refs[i + 1] is slot i: a function, or the next free slot
  container,  \* the slots of each handle
  set,        \* what the script has set last for each handle and event
  overwritten \* slots whose number has been overwritten

curlVars == <<refs, container, set, overwritten>>

At(r, slot) == r[slot + 1]

NoSlots == [e \in Events |-> 0]

InitCurl ==
  /\ refs = <<0>>
  /\ container = [h \in Handles |-> NoSlots]
  /\ set = [h \in Handles |-> NoSlots]
  /\ overwritten = {}

\* Faulty variant: one slot too low.
RefSlot_Last == IF refs[1] # 0 THEN refs[1] ELSE Len(refs) - 1

\* The slot legacy_duv_ref takes: the first of the list, or a new one.
RefSlot == IF refs[1] # 0 THEN refs[1] ELSE Len(refs)

Ref(f) ==
  IF refs[1] # 0 THEN [refs EXCEPT ![1] = refs[refs[1] + 1], ![refs[1] + 1] = f]
                 ELSE Append(refs, f)

Unref(r, slot) ==
  IF slot = 0 THEN r ELSE [r EXCEPT ![slot + 1] = r[1], ![1] = slot]

\* setopt does not give the slot of an earlier callback back.
SetCallback(h, e, f) ==
  /\ Len(refs) < MaxSlots
  /\ refs' = Ref(f)
  /\ container' = [container EXCEPT ![h][e] = RefSlot]
  /\ set' = [set EXCEPT ![h][e] = f]
  /\ overwritten' = overwritten \cup ({container[h][e]} \ {0})

\* The finaliser of a handle; the script makes another.
Cleanup(h) ==
  /\ refs' = Unref(Unref(Unref(refs, container[h]["write"]), container[h]["header"]),
                   container[h]["read"])
  /\ container' = [container EXCEPT ![h] = NoSlots]
  /\ set' = [set EXCEPT ![h] = NoSlots]
  /\ UNCHANGED overwritten

NextCurl ==
  \E h \in Handles :
    \/ \E e \in Events, f \in Functions : SetCallback(h, e, f)
    \/ Cleanup(h)

SpecCurl == InitCurl /\ [][NextCurl]_curlVars
-----------------------------------------------------------------------------
\* The list of free slots: what is in every set that follows it from slot 0 on.
Follows(C, r) == \A c \in C : At(r, c) \in Nat => At(r, c) \in C

FreeOf(r) ==
  {s \in 1..(Len(r) - 1) :
     \A C \in SUBSET (0..(Len(r) - 1)) : 0 \in C /\ Follows(C, r) => s \in C}

Free == FreeOf(refs)

Held == {container[h][e] : h \in Handles, e \in Events} \ {0}

\* Whatever has been set, collected and set again in between: curl calls what
\* the script has set last, and a slot is free, held by one callback of one
\* handle, or lost for having been overwritten.
CallsWhatIsSet ==
  /\ \A h \in Handles, e \in Events :
       container[h][e] # 0 => At(refs, container[h][e]) = set[h][e]
  /\ Free \cup Held \cup overwritten = 1..(Len(refs) - 1)
  /\ Free \cap Held = {} /\ Free \cap overwritten = {} /\ Held \cap overwritten = {}
=============================================================================
