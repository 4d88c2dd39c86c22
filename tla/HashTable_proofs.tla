--------------------------- MODULE HashTable_proofs ---------------------------
(***************************************************************************)
(* The hash table is a map, for every size, set of keys and values: the    *)
(* theorem IsMap.                                                          *)
(***************************************************************************)
EXTENDS HashTable, TLAPS

Entry == [key : Keys, value : Values]

Types ==
  /\ table \in [Slots -> Entry \cup {None}]
  /\ call \in Calls \cup {None}
  /\ hash \in Int

\* The slots from h on and before s, going round the end of the table.
Between(h, t, s) == IF h <= s THEN h <= t /\ t < s ELSE h <= t \/ t < s

\* A key is in at most one slot.
Unique(T) ==
  \A s, t \in Slots : T[s] # None /\ T[t] # None /\ T[s].key = T[t].key => s = t

\* No free slot hides an entry from a search that starts at its home.
Reachable(T) ==
  \A s \in Slots : T[s] # None =>
    /\ Home(T[s].key) \in Slots
    /\ \A t \in Slots : Between(Home(T[s].key), t, s) => T[t] # None

\* The search under way has passed entries of other keys only.
Passed ==
  call # None /\ hash \in Slots =>
    /\ Home(call.key) \in Slots
    /\ \A t \in Slots : Between(Home(call.key), t, hash) => table[t] # None /\ table[t].key # call.key

Inv == Types /\ Unique(table) /\ Reachable(table) /\ Passed

-----------------------------------------------------------------------------
\* The slot after the last one is the first (HashTable.h, hash = (hash + 1) % TABLE_SIZE).
LEMMA NextSlotIs ==
  ASSUME NEW h \in Slots
  PROVE  NextSlot(h) = IF h = TABLE_SIZE - 1 THEN 0 ELSE h + 1
<1>1. TABLE_SIZE \in Nat /\ TABLE_SIZE > 0
  BY HashTableAssumption
<1>2. CASE h = TABLE_SIZE - 1
  <2>1. TABLE_SIZE % TABLE_SIZE = 0
    BY <1>1
  <2> QED BY <1>1, <1>2, <2>1 DEF NextSlot, Slots
<1>3. CASE h # TABLE_SIZE - 1
  <2>1. h + 1 \in 0 .. TABLE_SIZE - 1
    BY <1>1, <1>3 DEF Slots
  <2> QED BY <1>1, <1>3, <2>1 DEF NextSlot, Slots
<1> QED
  BY <1>2, <1>3

\* The remainder a search starts at is an integer, if not always a slot.
LEMMA HomeType ==
  ASSUME NEW k \in Keys
  PROVE  Home(k) \in Int
  BY HashTableAssumption DEF Home

\* In a table with unique keys the map has the value of the slot of a key.
LEMMA MapAt ==
  ASSUME NEW T, Unique(T), NEW s \in Slots, NEW k \in Keys, HoldsAt(T, s, k)
  PROVE  MapOf(T)[k] = T[s].value
<1> DEFINE c == CHOOSE t \in Slots : HoldsAt(T, t, k)
<1>1. c \in Slots /\ HoldsAt(T, c, k)
  OBVIOUS
<1>2. c = s
  BY <1>1 DEF Unique, HoldsAt
<1> QED
  BY <1>2 DEF MapOf, Holds

\* The map has no value for a key no slot holds.
LEMMA MapNone ==
  ASSUME NEW T, NEW k \in Keys, ~Holds(T, k)
  PROVE  MapOf(T)[k] = None
  BY DEF MapOf

\* A free slot at the end of a search: the key is not in the table.
LEMMA FreeMeansAbsent ==
  ASSUME Inv, Probing, table[hash] = None
  PROVE  ~Holds(table, call.key)
<1> SUFFICES ASSUME NEW s \in Slots, HoldsAt(table, s, call.key)
             PROVE  FALSE
  BY DEF Holds
<1> DEFINE h == Home(call.key)
<1>1. h \in Slots /\ hash \in Slots /\ s # hash
  BY DEF Inv, Passed, Probing, HoldsAt
<1>2. ~Between(h, s, hash)
  BY DEF Inv, Passed, Probing, HoldsAt
<1>3. ~Between(h, hash, s)
  BY <1>1 DEF Inv, Reachable, HoldsAt
<1>4. h \in Int /\ hash \in Int /\ s \in Int
  BY <1>1, HashTableAssumption DEF Slots
<1> QED
  BY <1>1, <1>2, <1>3, <1>4 DEF Between
-----------------------------------------------------------------------------
\* A search that goes on has passed only entries of other keys.
LEMMA ProbeStep ==
  ASSUME Inv, Probe
  PROVE  Passed' /\ hash' \in Int
<1> DEFINE h == Home(call.key)
<1>1. hash \in Slots /\ call \in Calls /\ h \in Slots
  BY DEF Inv, Types, Passed, Probe, Probing
<1>2. table[hash] # None /\ table[hash].key # call.key
  BY <1>1 DEF Probe, Found, EntriesOf, Inv, Types, Entry
<1>3. hash' = (IF hash = TABLE_SIZE - 1 THEN 0 ELSE hash + 1) /\ call' = call /\ table' = table
  BY <1>1, NextSlotIs DEF Probe
<1>4. \A t \in Slots : Between(h, t, hash') => Between(h, t, hash) \/ t = hash
  BY <1>1, <1>3, HashTableAssumption DEF Between, Slots
<1>5. hash' \in Int
  BY <1>1, <1>3, HashTableAssumption DEF Slots
<1> QED
  BY <1>1, <1>2, <1>3, <1>4, <1>5 DEF Inv, Passed, Probe, Probing

\* put leaves the keys unique and all entries within reach.
LEMMA PutStep ==
  ASSUME Inv, put
  PROVE  Inv'
<1> DEFINE e == [key |-> call.key, value |-> call.value]
<1>1. /\ hash \in Slots /\ call \in Calls /\ call.name = "put" /\ call' = None
      /\ table' = [table EXCEPT ![hash] = e] /\ hash' = hash
  BY DEF put, Probing, Inv, Types
<1>2. call.key \in Keys /\ call.value \in Values /\ e \in Entry /\ e # None
  BY <1>1, HashTableAssumption DEF Calls, Entry
<1>3. Types'
  BY <1>1, <1>2 DEF Inv, Types
<1>4. \A s \in Slots : s # hash /\ table[s] # None => table[s].key # call.key
  <2>1. CASE table[hash] = None
    <3>1. ~Holds(table, call.key)
      BY <2>1, FreeMeansAbsent DEF put
    <3> QED BY <3>1 DEF Holds, HoldsAt
  <2>2. CASE table[hash] # None
    <3>1. table[hash].key = call.key
      BY <2>2 DEF put, Found, EntriesOf
    <3> QED BY <1>1, <2>2, <3>1 DEF Inv, Unique
  <2> QED BY <2>1, <2>2
<1>5. Unique(table')
  BY <1>1, <1>2, <1>4 DEF Inv, Unique, Types
<1>6. Reachable(table')
  <2> SUFFICES ASSUME NEW s \in Slots, table'[s] # None
               PROVE  /\ Home(table'[s].key) \in Slots
                      /\ \A t \in Slots : Between(Home(table'[s].key), t, s) => table'[t] # None
    BY DEF Reachable
  <2>0. \A t \in Slots : table[t] # None => table'[t] # None
    BY <1>1, <1>2 DEF Inv, Types
  <2>1. CASE s = hash
    <3>1. table'[s].key = call.key
      BY <1>1, <2>1 DEF Inv, Types
    <3> QED BY <1>1, <2>0, <2>1, <3>1 DEF Inv, Passed, put, Probing
  <2>2. CASE s # hash
    <3>1. table'[s] = table[s]
      BY <1>1, <2>2 DEF Inv, Types
    <3> QED BY <2>0, <3>1 DEF Inv, Reachable
  <2> QED BY <2>1, <2>2
<1> QED
  BY <1>1, <1>3, <1>5, <1>6 DEF Inv, Passed

\* A search that begins has passed nothing.
LEMMA CallStep ==
  ASSUME Inv, Call
  PROVE  Inv'
<1>1. call' \in Calls /\ hash' = Home(call'.key) /\ table' = table
  BY DEF Call
<1>2. call'.key \in Keys
  BY <1>1 DEF Calls
<1>3. hash' \in Int
  BY <1>1, <1>2, HomeType
<1>4. ~Between(hash', 0, hash') /\ \A t \in Slots : ~Between(hash', t, hash')
  BY <1>3, HashTableAssumption DEF Between, Slots
<1>5. Passed'
  BY <1>1, <1>4 DEF Passed
<1> QED
  BY <1>1, <1>3, <1>5 DEF Inv, Types

\* Unique keys, no free slot on the way to an entry, and what the search
\* under way has passed: together they are inductive.
LEMMA Invariance == Spec => []Inv
<1>1. Init => Inv
  <2> SUFFICES ASSUME Init PROVE Inv
    OBVIOUS
  <2> QED BY DEF Init, Inv, Types, Unique, Reachable, Passed
<1>2. Inv /\ [Next]_vars => Inv'
  <2> SUFFICES ASSUME Inv, [Next]_vars PROVE Inv'
    OBVIOUS
  <2>1. CASE Call
    BY <2>1, CallStep
  <2>2. CASE Probe
    BY <2>2, ProbeStep DEF Inv, Types, Probe
  <2>3. CASE get
    BY <2>3 DEF get, Inv, Types, Passed
  <2>4. CASE put
    BY <2>4, PutStep
  <2>5. CASE UNCHANGED vars
    BY <2>5 DEF vars, Inv, Types, Passed
  <2> QED
    BY <2>1, <2>2, <2>3, <2>4, <2>5 DEF Next, Outside
<1> QED
  BY <1>1, <1>2, PTL DEF Spec
-----------------------------------------------------------------------------
\* A get that returns answers as the map does.
LEMMA GetIsGet ==
  ASSUME Inv, get
  PROVE  Abstract!get
<1>1. /\ hash \in Slots /\ call \in Calls /\ call # None /\ call.name = "get" /\ call' = None
      /\ answer' = (IF table[hash] = None THEN -1 ELSE table[hash].value) /\ table' = table
  BY DEF get, Probing, Inv, Types
<1>2. call.key \in Keys
  BY <1>1 DEF Calls
<1>3. answer' = IF mapOf[call.key] = None THEN -1 ELSE mapOf[call.key]
  <2>1. CASE table[hash] = None
    <3>1. mapOf[call.key] = None
      BY <1>2, <2>1, FreeMeansAbsent, MapNone DEF mapOf, get
    <3> QED BY <1>1, <2>1, <3>1
  <2>2. CASE table[hash] # None
    <3>1. HoldsAt(table, hash, call.key)
      BY <2>2 DEF get, Found, EntriesOf, HoldsAt
    <3>2. mapOf[call.key] = table[hash].value
      BY <1>1, <1>2, <3>1, MapAt DEF mapOf, Inv
    <3>3. table[hash].value \in Values
      BY <1>1, <2>2 DEF Inv, Types, Entry
    <3> QED BY <1>1, <2>2, <3>2, <3>3, HashTableAssumption
  <2> QED BY <2>1, <2>2
<1>4. mapOf' = mapOf
  BY <1>1 DEF mapOf
<1> QED
  BY <1>1, <1>3, <1>4 DEF Abstract!get

\* A put that returns changes the map at its key and nowhere else.
LEMMA PutIsPut ==
  ASSUME Inv, put
  PROVE  Abstract!put
<1> DEFINE e == [key |-> call.key, value |-> call.value]
<1>1. /\ hash \in Slots /\ call \in Calls /\ call # None /\ call.name = "put" /\ call' = None
      /\ table' = [table EXCEPT ![hash] = e] /\ answer' = answer
  BY DEF put, Probing, Inv, Types
<1>2. call.key \in Keys /\ e # None
  BY <1>1, HashTableAssumption DEF Calls
<1>3. Unique(table')
  BY PutStep DEF Inv
<1>4. \A k \in Keys : MapOf(table')[k] = IF k = call.key THEN call.value ELSE MapOf(table)[k]
  <2> TAKE k \in Keys
  <2>1. CASE k = call.key
    <3>1. HoldsAt(table', hash, k) /\ table'[hash].value = call.value
      BY <1>1, <1>2, <2>1 DEF HoldsAt, Inv, Types
    <3> QED BY <1>1, <1>3, <2>1, <3>1, MapAt
  <2>2. CASE k # call.key
    <3>1. \A s \in Slots : HoldsAt(table', s, k) <=> HoldsAt(table, s, k)
      <4> TAKE s \in Slots
      <4>1. CASE s = hash
        <5>1. table'[s] = e
          BY <1>1, <4>1 DEF Inv, Types
        <5>2. ~HoldsAt(table, s, k)
          BY <2>2, <4>1 DEF put, Found, EntriesOf, HoldsAt
        <5> QED BY <2>2, <5>1, <5>2 DEF HoldsAt
      <4>2. CASE s # hash
        BY <1>1, <4>2 DEF Inv, Types, HoldsAt
      <4> QED BY <4>1, <4>2
    <3>2. CASE Holds(table, k)
      <4>1. PICK s \in Slots : HoldsAt(table, s, k)
        BY <3>2 DEF Holds
      <4>2. HoldsAt(table', s, k)
        BY <3>1, <4>1
      <4>3. table'[s] = table[s]
        BY <1>1, <2>2, <4>1, <4>2 DEF HoldsAt, Inv, Types
      <4>4. MapOf(table)[k] = table[s].value
        BY <4>1, MapAt DEF Inv
      <4>5. MapOf(table')[k] = table'[s].value
        BY <1>3, <4>2, MapAt
      <4> QED BY <2>2, <4>3, <4>4, <4>5
    <3>3. CASE ~Holds(table, k)
      <4>1. ~Holds(table', k)
        BY <3>1, <3>3 DEF Holds
      <4> QED BY <2>2, <3>3, <4>1, MapNone
    <3> QED BY <3>2, <3>3
  <2> QED BY <2>1, <2>2
<1>5. mapOf' = [mapOf EXCEPT ![call.key] = call.value]
  <2> DEFINE m == MapOf(table)
             n == MapOf(table')
  <2>1. m = [k \in Keys |-> m[k]] /\ n = [k \in Keys |-> n[k]]
    BY DEF MapOf
  <2>2. \A k \in Keys : n[k] = IF k = call.key THEN call.value ELSE m[k]
    BY <1>4
  <2> HIDE DEF m, n
  <2>3. n = [m EXCEPT ![call.key] = call.value]
    BY <2>1, <2>2
  <2> QED BY <2>3 DEF mapOf, m, n
<1> QED
  BY <1>1, <1>5 DEF Abstract!put

\* Every call of get and put that returns has the effect and the answer of a
\* map (HashTable.h), however the keys collide and whatever their order.
THEOREM IsMap == Spec => ImplementsKeyMap
<1>1. Init => Abstract!Init
  <2> SUFFICES ASSUME Init PROVE Abstract!Init
    OBVIOUS
  <2>1. \A k \in Keys : ~Holds(table, k)
    BY DEF Init, Holds, HoldsAt
  <2>2. mapOf = [k \in Keys |-> None]
    BY <2>1 DEF mapOf, MapOf
  <2> QED BY <2>2 DEF Init, Abstract!Init
<1>2. Inv /\ [Next]_vars => [Abstract!Next]_(Abstract!vars)
  <2> SUFFICES ASSUME Inv, [Next]_vars PROVE [Abstract!Next]_(Abstract!vars)
    OBVIOUS
  <2>1. CASE Call
    BY <2>1 DEF Call, mapOf, Calls, Abstract!Calls, Abstract!Call, Abstract!Next
  <2>2. CASE get
    BY <2>2, GetIsGet DEF Abstract!Next
  <2>3. CASE put
    BY <2>3, PutIsPut DEF Abstract!Next
  <2>4. CASE Probe \/ Outside \/ UNCHANGED vars
    BY <2>4 DEF Probe, Outside, vars, mapOf, Abstract!vars
  <2> QED
    BY <2>1, <2>2, <2>3, <2>4 DEF Next
<1> QED
  BY <1>1, <1>2, Invariance, PTL DEF Spec, ImplementsKeyMap, Abstract!Spec
=============================================================================
