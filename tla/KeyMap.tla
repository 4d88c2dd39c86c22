------------------------------- MODULE KeyMap -------------------------------
(***************************************************************************)
(* What the hash table promises: a map from keys to values, called for one *)
(* key at a time, that answers -1 for a key it does not hold.              *)
(***************************************************************************)
EXTENDS Integers

CONSTANTS Keys, Values, None

VARIABLES
  map,    \* the value of each key, or None
  call,   \* the call under way, or None
  answer  \* of the last get

vars == <<map, call, answer>>

Calls == [name : {"get"}, key : Keys] \cup [name : {"put"}, key : Keys, value : Values]

Init == map = [k \in Keys |-> None] /\ call = None /\ answer = None

Call ==
  /\ call = None /\ call' \in Calls
  /\ UNCHANGED <<map, answer>>

get ==
  /\ call # None /\ call.name = "get"
  /\ answer' = IF map[call.key] = None THEN -1 ELSE map[call.key]
  /\ call' = None
  /\ UNCHANGED map

put ==
  /\ call # None /\ call.name = "put"
  /\ map' = [map EXCEPT ![call.key] = call.value]
  /\ call' = None
  /\ UNCHANGED answer

Next == Call \/ get \/ put

Spec == Init /\ [][Next]_vars
=============================================================================
