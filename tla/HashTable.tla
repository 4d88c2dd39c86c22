----------------------------- MODULE HashTable -----------------------------
(***************************************************************************)
(* HashTable (include/HashTable.h): open addressing with linear probing, a *)
(* fixed number of slots and no deletion.  Each turn of the loop of get or *)
(* put that looks at a slot is a step.  The only user is AggregateNode     *)
(* (include/Node.h:52), which calls it from one thread and has no code yet.*)
(***************************************************************************)
EXTENDS Integers

CONSTANTS TABLE_SIZE, Keys, Values, None

ASSUME HashTableAssumption ==
  /\ TABLE_SIZE \in Nat \ {0} /\ Keys \subseteq Int /\ Values \subseteq Int
  /\ None \notin Values /\ None \notin [key : Keys, value : Values]
  /\ None \notin [name : {"get"}, key : Keys] \cup [name : {"put"}, key : Keys, value : Values]

VARIABLES
  table,   \* an entry, or None, in each slot
  call,    \* the call under way, or None
  hash,    \* the slot it looks at
  answer   \* of the last get

vars == <<table, call, hash, answer>>

Slots == 0 .. TABLE_SIZE - 1

Calls == [name : {"get"}, key : Keys] \cup [name : {"put"}, key : Keys, value : Values]

\* The remainder of C has the sign of the key.
Home(key) == IF key >= 0 THEN key % TABLE_SIZE ELSE -((-key) % TABLE_SIZE)

\* (faulty variant of NextSlot: the last slot is left out)
NextSlot_Short(h) == (h + 1) % (TABLE_SIZE - 1)

NextSlot(h) == (h + 1) % TABLE_SIZE

Init == table = [s \in Slots |-> None] /\ call = None /\ hash = 0 /\ answer = None

Call ==
  /\ call = None /\ call' \in Calls
  /\ hash' = Home(call'.key)
  /\ UNCHANGED <<table, answer>>

EntriesOf(keys) == [key : keys, value : Values]

\* (faulty variant of Found: put takes the first free slot)
Found_Free == table[hash] \in {None} \cup EntriesOf({call.key} \cap {k \in Keys : call.name = "get"})

\* The slot is free or holds the key.
Found == table[hash] \in {None} \cup EntriesOf({call.key})

\* A slot in front of the table is memory of others: nothing more is said of
\* the program once it is looked at.
Probing == call # None /\ hash \in Slots

Probe ==
  /\ Probing /\ ~Found
  /\ hash' = NextSlot(hash)
  /\ UNCHANGED <<table, call, answer>>

get ==
  /\ Probing /\ Found /\ call.name = "get"
  /\ answer' = IF table[hash] = None THEN -1 ELSE table[hash].value
  /\ call' = None
  /\ UNCHANGED <<table, hash>>

put ==
  /\ Probing /\ Found /\ call.name = "put"
  /\ table' = [table EXCEPT ![hash] = [key |-> call.key, value |-> call.value]]
  /\ call' = None
  /\ UNCHANGED <<hash, answer>>

Outside == call # None /\ hash \notin Slots /\ UNCHANGED vars

Next == Call \/ Probe \/ get \/ put \/ Outside

\* A call that has been made is carried on.
Spec == Init /\ [][Next]_vars /\ WF_vars(Probe \/ get \/ put)
-----------------------------------------------------------------------------
(***************************************************************************)
(* Properties                                                              *)
(***************************************************************************)
HoldsAt(T, s, k) == T[s] # None /\ T[s].key = k
Holds(T, k) == \E s \in Slots : HoldsAt(T, s, k)

\* The map a table stands for.
MapOf(T) == [k \in Keys |->
  IF Holds(T, k) THEN T[CHOOSE s \in Slots : HoldsAt(T, s, k)].value ELSE None]

mapOf == MapOf(table)

Abstract == INSTANCE KeyMap WITH map <- mapOf

\* A get answers with the value of the last put of that key, however the keys
\* collide and in whatever order they came: no entry is lost, stored twice or
\* hidden behind a free slot.
ImplementsKeyMap == Abstract!Spec

\* A call that cannot be carried out: the key is not there and no slot is free,
\* or the home of a negative key is no slot.
Doomed ==
  \/ hash \notin Slots
  \/ ~Holds(table, call.key) /\ \A s \in Slots : table[s] # None

\* Every other call returns.
CallsReturn == (call # None /\ ~Doomed) ~> call = None
=============================================================================
