-------------------------- MODULE TableScan_proofs --------------------------
(***************************************************************************)
(* Proofs about TableScan, for any number of scanners, any directory and   *)
(* any size of the buffer of its stream: what the lock and the counter     *)
(* guarantee, and what becomes of the entry that nextFile hands to a       *)
(* scanner and the scanner looks at after the unlock.                      *)
(***************************************************************************)
EXTENDS TableScan, FiniteSetTheorems, SequenceTheorems, TLAPS

\* Slots that are filled or pointed to hold an entry, a scanner that reads has a
\* file, and one that comes back from Rep::nextFile has its entry or NULL.
SlotInv ==
  /\ \A k \in 1 .. filled : dirbuf[k] # Null
  /\ \A s \in Scanner : /\ ptr[s] # Null => dirbuf[ptr[s]] # Null
                        /\ pc[s] = "read" => reader[s] # Null
                        /\ pc[s] = "check" => ptr[s] # Null
                        /\ pc[s] \in {"lock", "readdir", "check"} => meant[s] = Null
                        /\ pc[s] \in {"unlock", "open"} => (ptr[s] = Null <=> meant[s] = Null)

LockInv == TypeOK /\ NextFileExclusive /\ SlotInv

\* A fill brings in the entries behind those of the fill before; only the last
\* one leaves slots as they were.
BufferInv ==
  /\ filled <= fetched
  /\ \A i \in 1 .. filled : dirbuf[i] = (fetched - filled) + i
  /\ fetched < Len(Dir) => filled = BufSlots \/ fetched = 0
  /\ fetched = 0 => \A i \in 1 .. BufSlots : dirbuf[i] = Null

Several == \E s, t \in Scanner : s # t

\* What can have taken the place of an entry: one of a later fill, fetched by
\* another scanner.
Replaces(e, m) == Several /\ m + BufSlots <= e

\* Under the mutex a dirent is what it was; after the unlock it may have been
\* replaced, and so may the file that is opened.
GivenInv ==
  /\ \A s \in Scanner :
       /\ pc[s] = "check" => dirbuf[ptr[s]] = HandedOut
       /\ pc[s] = "unlock" /\ ptr[s] # Null => dirbuf[ptr[s]] = meant[s]
       /\ pc[s] = "open" /\ ptr[s] # Null =>
            dirbuf[ptr[s]] = meant[s] \/ Replaces(dirbuf[ptr[s]], meant[s])
       /\ pc[s] \in {"idle", "read"} =>
            \/ reader[s] = meant[s]
            \/ Replaces(reader[s], meant[s]) /\ <<meant[s], reader[s]>> \in strays
       /\ pc[s] \in {"new", "gone"} => meant[s] = Null
       /\ eof[s] => pc[s] \in {"idle", "gone"} /\ reader[s] = Null
  /\ \A d \in strays : Replaces(d[2], d[1])

\* A file is meant for one scanner, and one that nextFile still looks at for
\* none.
MeantInv ==
  /\ \A s \in Scanner : meant[s] \in 0 .. HandedOut
  /\ \A s, t \in Scanner : pc[s] = "check" => meant[t] # HandedOut
  /\ \A s, t \in Scanner : s # t /\ meant[s] # Null => meant[s] # meant[t]

\* Nothing has been served of an entry still to be handed out or looked at, nor
\* of one that a scanner has been given and not yet opened; of an open one, only
\* stripes before the cursor.  This is so of all that were not opened in place
\* of others.
ServedInv ==
  \A u \in Scanner : \A d \in served[u] : d[1] \notin Intruders =>
    /\ d[1] \in 1 .. HandedOut
    /\ \A s \in Scanner :
         /\ pc[s] = "check" => d[1] # HandedOut
         /\ pc[s] \in {"unlock", "open"} => d[1] # meant[s]
         /\ pc[s] \in {"idle", "read"} /\ d[1] = reader[s] => d[2] < curStripe[s]

IInv == LockInv /\ BufferInv /\ GivenInv /\ MeantInv /\ ServedInv

-----------------------------------------------------------------------------
(***************************************************************************)
(* The invariant holds initially and is preserved, conjunct by conjunct.   *)
(***************************************************************************)
\* What the assumption on the directory says of the constants.
LEMMA ConstantFacts ==
  /\ BufSlots \in Nat \ {0} /\ MaxResets \in Nat /\ Len(Dir) \in Nat
  /\ NoScanner \notin Scanner
  /\ File \subseteq Position /\ Position \subseteq Nat /\ Null \notin Position
BY DirAssumption DEF File, Position, Null

\* Entries are numbers, and so is Null.
LEMMA Numbers ==
  /\ \A x \in Position \cup {Null} : x \in Nat
  /\ \A x \in File \cup {Null} : x \in Nat
BY DEF File, Position, Null

\* The invariant holds for a table that has just been opened.
LEMMA InitIInv == Init => IInv
<1>. SUFFICES ASSUME Init PROVE IInv
  OBVIOUS
<1>. USE ConstantFacts DEF Init
<1>1. TypeOK
  <2>1. /\ filled = 0 /\ handed = 0 /\ fetched = 0 /\ resets = 0
        /\ handed \in 0 .. filled
    OBVIOUS
  <2>2. dirbuf \in [1 .. BufSlots -> Position \cup {Null}]
    BY DEF Null, Position
  <2>3. /\ pc \in [Scanner -> Location] /\ mtx \in Scanner \cup {NoScanner}
        /\ ptr \in [Scanner -> 0 .. BufSlots]
        /\ reader \in [Scanner -> Position \cup {Null}]
        /\ curStripe \in [Scanner -> Nat]
    BY DEF Location, Null
  <2>4. /\ eof \in [Scanner -> BOOLEAN] /\ crashed \in BOOLEAN
        /\ served \in [Scanner -> SUBSET (Position \X Nat)]
    BY Zenon
  <2>5. meant \in [Scanner -> File \cup {Null}] /\ strays \subseteq File \X Position
    BY Zenon
  <2>. QED
    BY <2>1, <2>2, <2>3, <2>4, <2>5 DEF TypeOK
<1>2. NextFileExclusive
  BY DEF NextFileExclusive, Locked
<1>3. BufferInv
  BY DEF BufferInv
<1>4. GivenInv
  BY DEF GivenInv
<1>5. MeantInv
  BY DEF MeantInv, HandedOut, Null
<1>6. ServedInv
  BY DEF ServedInv
<1>7. SlotInv
  BY DEF SlotInv, Null
<1>. QED
  BY <1>1, <1>2, <1>3, <1>4, <1>5, <1>6, <1>7 DEF IInv, LockInv

\* A fill of the buffer brings in k entries, in place of others.
LEMMA FillFacts ==
  ASSUME TypeOK, NEW s \in Scanner, ReaddirRefill(s)
  PROVE  \E k \in 1 .. BufSlots :
           /\ fetched + k \in 0 .. Len(Dir)
           /\ filled' = k /\ fetched' = fetched + k /\ handed' = 1
           /\ dirbuf' = [i \in 1 .. BufSlots |-> IF i <= k THEN fetched + i ELSE dirbuf[i]]
           /\ pc[s] = "readdir" /\ pc' = [pc EXCEPT ![s] = "check"]
           /\ ptr' = [ptr EXCEPT ![s] = 1]
           /\ UNCHANGED <<mtx, registered, meant, scanVars, crashed, resets>>
<1>. DEFINE k == Smaller(BufSlots, Len(Dir) - fetched)
<1>1. /\ fetched < Len(Dir) /\ fetched \in 0 .. Len(Dir)
      /\ BufSlots \in Nat \ {0} /\ Len(Dir) \in Nat
  BY ConstantFacts DEF ReaddirRefill, TypeOK
<1>2. k \in 1 .. BufSlots /\ fetched + k \in 0 .. Len(Dir)
  BY <1>1 DEF Smaller
<1>3. /\ filled' = k /\ fetched' = fetched + k /\ handed' = 1
      /\ dirbuf' = [i \in 1 .. BufSlots |-> IF i <= k THEN fetched + i ELSE dirbuf[i]]
      /\ pc[s] = "readdir" /\ pc' = [pc EXCEPT ![s] = "check"]
      /\ ptr' = [ptr EXCEPT ![s] = 1]
      /\ UNCHANGED <<mtx, registered, meant, scanVars, crashed, resets>>
  BY DEF ReaddirRefill, Go
<1>. HIDE DEF k
<1>. QED
  BY <1>2, <1>3

\* Types are preserved.
LEMMA TypeStep ==
  ASSUME LockInv, [Next]_vars
  PROVE  TypeOK'
<1>. USE ConstantFacts DEF LockInv, TypeOK, SlotInv, Go, Location, dirVars, ptrVars, scanVars, Null,
         Position
<1>1. ASSUME NEW s \in Scanner, Construct(s) PROVE TypeOK'
  BY <1>1 DEF Construct
<1>2. ASSUME NEW s \in Scanner, NeedFile(s) PROVE TypeOK'
  BY <1>2 DEF NeedFile
<1>3. ASSUME NEW s \in Scanner, HaveStripe(s) PROVE TypeOK'
  BY <1>3 DEF HaveStripe, Exhausted
<1>4. ASSUME NEW s \in Scanner, Lock(s) PROVE TypeOK'
  BY <1>4 DEF Lock
<1>5. ASSUME NEW s \in Scanner, ReaddirBuffered(s) PROVE TypeOK'
  BY <1>5 DEF ReaddirBuffered
<1>6. ASSUME NEW s \in Scanner, ReaddirRefill(s) PROVE TypeOK'
  <2>1. PICK k \in 1 .. BufSlots :
          /\ fetched + k \in 0 .. Len(Dir)
          /\ filled' = k /\ fetched' = fetched + k /\ handed' = 1
          /\ dirbuf' = [i \in 1 .. BufSlots |-> IF i <= k THEN fetched + i ELSE dirbuf[i]]
          /\ pc' = [pc EXCEPT ![s] = "check"]
          /\ ptr' = [ptr EXCEPT ![s] = 1]
          /\ UNCHANGED <<mtx, registered, meant, scanVars, crashed, resets>>
    BY <1>6, FillFacts
  <2>2. dirbuf' \in [1 .. BufSlots -> Position \cup {Null}]
    BY <2>1
  <2>3. /\ filled' \in 0 .. BufSlots /\ handed' \in 0 .. filled'
        /\ fetched' \in 0 .. Len(Dir)
    BY <2>1
  <2>4. pc' \in [Scanner -> Location]
    BY <2>1
  <2>5. ptr' \in [Scanner -> 0 .. BufSlots]
    <3>1. 1 \in 0 .. BufSlots
      OBVIOUS
    <3>2. ptr \in [Scanner -> 0 .. BufSlots] /\ ptr' = [ptr EXCEPT ![s] = 1]
      BY <2>1
    <3>. QED
      BY <3>1, <3>2, Zenon
  <2>. QED
    BY <2>1, <2>2, <2>3, <2>4, <2>5
<1>7. ASSUME NEW s \in Scanner, ReaddirEnd(s) PROVE TypeOK'
  BY <1>7 DEF ReaddirEnd
<1>8. ASSUME NEW s \in Scanner, Accept(s) PROVE TypeOK'
  <2>1. dirbuf[ptr[s]] \in File
    BY <1>8 DEF Accept, File
  <2>2. meant' \in [Scanner -> File \cup {Null}]
    BY <1>8, <2>1 DEF Accept
  <2>. QED
    BY <1>8, <2>2 DEF Accept
<1>9. ASSUME NEW s \in Scanner, Skip(s) PROVE TypeOK'
  BY <1>9 DEF Skip
<1>10. ASSUME NEW s \in Scanner, Unlock(s) PROVE TypeOK'
  BY <1>10 DEF Unlock
<1>11. ASSUME NEW s \in Scanner, Open(s) PROVE TypeOK'
  <2>1. dirbuf[ptr[s]] \in Position /\ meant[s] \in File
    BY <1>11 DEF Open
  <2>2. Strayed(s) \subseteq File \X Position
    BY <2>1 DEF Strayed
  <2>3. strays' \subseteq File \X Position
    BY <1>11, <2>2 DEF Open
  <2>. QED
    BY <1>11, <2>1, <2>3 DEF Open
<1>12. ASSUME NEW s \in Scanner, EndOfData(s) PROVE TypeOK'
  BY <1>12 DEF EndOfData
<1>13. ASSUME NEW s \in Scanner, ReadStripe(s) PROVE TypeOK'
  <2>1. /\ pc' = [pc EXCEPT ![s] = "idle"] /\ eof' = [eof EXCEPT ![s] = FALSE]
        /\ curStripe' = [curStripe EXCEPT ![s] = @ + 1]
        /\ served' = [served EXCEPT ![s] = @ \cup {<<reader[s], curStripe[s]>>}]
        /\ UNCHANGED <<mtx, registered, dirbuf, filled, handed, fetched, ptr, meant, reader,
                       strays, crashed, resets>>
    BY <1>13, Zenon DEF ReadStripe
  <2>2. pc' \in [Scanner -> Location] /\ eof' \in [Scanner -> BOOLEAN]
    BY <2>1
  <2>3. \A t \in Scanner : curStripe[t] \in Nat /\ curStripe[t] + 1 \in Nat
    OBVIOUS
  <2>4. curStripe' \in [Scanner -> Nat]
    BY <2>1, <2>3
  <2>5. reader[s] \in Position
    BY <1>13 DEF ReadStripe
  <2>6. <<reader[s], curStripe[s]>> \in Position \X Nat
    BY <2>3, <2>5, Zenon
  <2>7. served' \in [Scanner -> SUBSET (Position \X Nat)]
    BY <2>1, <2>6
  <2>. HIDE DEF Position, Location, Null
  <2>. QED
    BY <2>1, <2>2, <2>4, <2>7, Zenon DEF TypeOK
<1>14. ASSUME NEW s \in Scanner, ReadBeyond(s) PROVE TypeOK'
  BY <1>14 DEF ReadBeyond
<1>15. ASSUME NEW s \in Scanner, Destroy(s) PROVE TypeOK'
  BY <1>15 DEF Destroy
<1>16. ASSUME Reset PROVE TypeOK'
  BY <1>16 DEF Reset
<1>17. CASE UNCHANGED vars
  BY <1>17 DEF vars, dirVars, ptrVars, scanVars
<1>. QED
  BY <1>1, <1>2, <1>3, <1>4, <1>5, <1>6, <1>7, <1>8, <1>9, <1>10, <1>11, <1>12, <1>13, <1>14, <1>15, <1>16, <1>17 DEF Next, Step, NextFile, Ended

\* The mutex keeps the loop over readdir to one scanner.
LEMMA ExclusiveStep ==
  ASSUME LockInv, [Next]_vars
  PROVE  NextFileExclusive'
<1>. USE ConstantFacts DEF LockInv, TypeOK, NextFileExclusive, Locked, Location, Go,
         dirVars, ptrVars, scanVars
<1>1. ASSUME NEW s \in Scanner, Construct(s) PROVE NextFileExclusive'
  BY <1>1 DEF Construct
<1>2. ASSUME NEW s \in Scanner, NeedFile(s) PROVE NextFileExclusive'
  BY <1>2 DEF NeedFile
<1>3. ASSUME NEW s \in Scanner, HaveStripe(s) PROVE NextFileExclusive'
  BY <1>3 DEF HaveStripe, Exhausted
<1>4. ASSUME NEW s \in Scanner, Lock(s) PROVE NextFileExclusive'
  BY <1>4 DEF Lock
<1>5. ASSUME NEW s \in Scanner, ReaddirBuffered(s) PROVE NextFileExclusive'
  BY <1>5 DEF ReaddirBuffered
<1>6. ASSUME NEW s \in Scanner, ReaddirRefill(s) PROVE NextFileExclusive'
  BY <1>6, FillFacts
<1>7. ASSUME NEW s \in Scanner, ReaddirEnd(s) PROVE NextFileExclusive'
  BY <1>7 DEF ReaddirEnd
<1>8. ASSUME NEW s \in Scanner, Accept(s) PROVE NextFileExclusive'
  BY <1>8 DEF Accept
<1>9. ASSUME NEW s \in Scanner, Skip(s) PROVE NextFileExclusive'
  BY <1>9 DEF Skip
<1>10. ASSUME NEW s \in Scanner, Unlock(s) PROVE NextFileExclusive'
  BY <1>10 DEF Unlock
<1>11. ASSUME NEW s \in Scanner, Open(s) PROVE NextFileExclusive'
  BY <1>11 DEF Open
<1>12. ASSUME NEW s \in Scanner, EndOfData(s) PROVE NextFileExclusive'
  BY <1>12 DEF EndOfData
<1>13. ASSUME NEW s \in Scanner, ReadStripe(s) PROVE NextFileExclusive'
  BY <1>13 DEF ReadStripe
<1>14. ASSUME NEW s \in Scanner, ReadBeyond(s) PROVE NextFileExclusive'
  BY <1>14 DEF ReadBeyond
<1>15. ASSUME NEW s \in Scanner, Destroy(s) PROVE NextFileExclusive'
  BY <1>15 DEF Destroy
<1>16. ASSUME Reset PROVE NextFileExclusive'
  BY <1>16 DEF Reset
<1>17. CASE UNCHANGED vars
  BY <1>17 DEF vars, dirVars, ptrVars, scanVars
<1>. QED
  BY <1>1, <1>2, <1>3, <1>4, <1>5, <1>6, <1>7, <1>8, <1>9, <1>10, <1>11, <1>12, <1>13, <1>14, <1>15, <1>16, <1>17 DEF Next, Step, NextFile, Ended

\* A slot that has been filled is overwritten and never emptied, until the
\* directory is rewound.
LEMMA SlotStep ==
  ASSUME LockInv, [Next]_vars
  PROVE  SlotInv'
<1>. USE ConstantFacts DEF LockInv, TypeOK, SlotInv, Go, Location, dirVars, ptrVars, scanVars, Null,
         Position
<1>1. ASSUME NEW s \in Scanner, Construct(s) PROVE SlotInv'
  BY <1>1 DEF Construct
<1>2. ASSUME NEW s \in Scanner, NeedFile(s) PROVE SlotInv'
  BY <1>2 DEF NeedFile
<1>3. ASSUME NEW s \in Scanner, HaveStripe(s) PROVE SlotInv'
  BY <1>3 DEF HaveStripe, Exhausted
<1>4. ASSUME NEW s \in Scanner, Lock(s) PROVE SlotInv'
  BY <1>4 DEF Lock
<1>5. ASSUME NEW s \in Scanner, ReaddirBuffered(s) PROVE SlotInv'
  BY <1>5 DEF ReaddirBuffered
<1>6. ASSUME NEW s \in Scanner, ReaddirRefill(s) PROVE SlotInv'
  <2>1. PICK k \in 1 .. BufSlots :
          /\ filled' = k
          /\ dirbuf' = [i \in 1 .. BufSlots |-> IF i <= k THEN fetched + i ELSE dirbuf[i]]
          /\ pc' = [pc EXCEPT ![s] = "check"]
          /\ ptr' = [ptr EXCEPT ![s] = 1]
          /\ reader' = reader /\ meant' = meant /\ pc[s] = "readdir"
    BY <1>6, FillFacts
  <2>2. \A i \in 1 .. BufSlots : (i <= k \/ dirbuf[i] # Null) => dirbuf'[i] # Null
    BY <2>1
  <2>. QED
    BY <2>1, <2>2
<1>7. ASSUME NEW s \in Scanner, ReaddirEnd(s) PROVE SlotInv'
  BY <1>7 DEF ReaddirEnd
<1>8. ASSUME NEW s \in Scanner, Accept(s) PROVE SlotInv'
  BY <1>8 DEF Accept
<1>9. ASSUME NEW s \in Scanner, Skip(s) PROVE SlotInv'
  BY <1>9 DEF Skip
<1>10. ASSUME NEW s \in Scanner, Unlock(s) PROVE SlotInv'
  BY <1>10 DEF Unlock
<1>11. ASSUME NEW s \in Scanner, Open(s) PROVE SlotInv'
  BY <1>11 DEF Open
<1>12. ASSUME NEW s \in Scanner, EndOfData(s) PROVE SlotInv'
  BY <1>12 DEF EndOfData
<1>13. ASSUME NEW s \in Scanner, ReadStripe(s) PROVE SlotInv'
  BY <1>13 DEF ReadStripe
<1>14. ASSUME NEW s \in Scanner, ReadBeyond(s) PROVE SlotInv'
  BY <1>14 DEF ReadBeyond
<1>15. ASSUME NEW s \in Scanner, Destroy(s) PROVE SlotInv'
  BY <1>15 DEF Destroy
<1>16. ASSUME Reset PROVE SlotInv'
  BY <1>16 DEF Reset
<1>17. CASE UNCHANGED vars
  BY <1>17 DEF vars
<1>. QED
  BY <1>1, <1>2, <1>3, <1>4, <1>5, <1>6, <1>7, <1>8, <1>9, <1>10, <1>11, <1>12, <1>13, <1>14, <1>15, <1>16, <1>17 DEF Next, Step, NextFile, Ended

\* A fill puts the next entries into the buffer, and nothing else touches it.
LEMMA BufferStep ==
  ASSUME LockInv, BufferInv, [Next]_vars
  PROVE  BufferInv'
<1>. USE ConstantFacts DEF LockInv, TypeOK, BufferInv, dirVars, Null
<1>1. ASSUME NEW s \in Scanner, Construct(s) PROVE BufferInv'
  BY <1>1 DEF Construct
<1>2. ASSUME NEW s \in Scanner, NeedFile(s) PROVE BufferInv'
  BY <1>2 DEF NeedFile
<1>3. ASSUME NEW s \in Scanner, HaveStripe(s) PROVE BufferInv'
  BY <1>3 DEF HaveStripe
<1>4. ASSUME NEW s \in Scanner, Lock(s) PROVE BufferInv'
  BY <1>4 DEF Lock
<1>5. ASSUME NEW s \in Scanner, ReaddirBuffered(s) PROVE BufferInv'
  BY <1>5 DEF ReaddirBuffered
<1>6. ASSUME NEW s \in Scanner, ReaddirRefill(s) PROVE BufferInv'
  <2>. HIDE DEF TypeOK, BufferInv
  <2>1. PICK k \in 1 .. BufSlots :
          /\ fetched + k \in 0 .. Len(Dir)
          /\ filled' = k /\ fetched' = fetched + k
          /\ dirbuf' = [i \in 1 .. BufSlots |-> IF i <= k THEN fetched + i ELSE dirbuf[i]]
    BY <1>6, FillFacts
  <2>. USE DEF TypeOK, BufferInv
  <2>2. filled' = Smaller(BufSlots, Len(Dir) - fetched)
    BY <1>6 DEF ReaddirRefill
  <2>3. fetched' < Len(Dir) => filled' = BufSlots
    BY <2>1, <2>2 DEF Smaller
  <2>4. /\ filled' <= fetched' /\ fetched' # 0
        /\ \A i \in 1 .. filled' : dirbuf'[i] = (fetched' - filled') + i
    BY <2>1
  <2>. QED
    BY <2>3, <2>4
<1>7. ASSUME NEW s \in Scanner, ReaddirEnd(s) PROVE BufferInv'
  BY <1>7 DEF ReaddirEnd
<1>8. ASSUME NEW s \in Scanner, Accept(s) PROVE BufferInv'
  BY <1>8 DEF Accept
<1>9. ASSUME NEW s \in Scanner, Skip(s) PROVE BufferInv'
  BY <1>9 DEF Skip
<1>10. ASSUME NEW s \in Scanner, Unlock(s) PROVE BufferInv'
  BY <1>10 DEF Unlock
<1>11. ASSUME NEW s \in Scanner, Open(s) PROVE BufferInv'
  BY <1>11 DEF Open
<1>12. ASSUME NEW s \in Scanner, EndOfData(s) PROVE BufferInv'
  BY <1>12 DEF EndOfData
<1>13. ASSUME NEW s \in Scanner, ReadStripe(s) PROVE BufferInv'
  BY <1>13 DEF ReadStripe
<1>14. ASSUME NEW s \in Scanner, ReadBeyond(s) PROVE BufferInv'
  BY <1>14 DEF ReadBeyond
<1>15. ASSUME NEW s \in Scanner, Destroy(s) PROVE BufferInv'
  BY <1>15 DEF Destroy
<1>16. ASSUME Reset PROVE BufferInv'
  BY <1>16 DEF Reset
<1>17. CASE UNCHANGED vars
  BY <1>17 DEF vars
<1>. QED
  BY <1>1, <1>2, <1>3, <1>4, <1>5, <1>6, <1>7, <1>8, <1>9,
     <1>10, <1>11, <1>12, <1>13, <1>14, <1>15, <1>16, <1>17 DEF Next, Step, NextFile, Ended

\* What a refill does to the entry in a slot somebody points to: it stays, or one
\* a whole buffer later takes its place.
LEMMA RefillFacts ==
  ASSUME LockInv, BufferInv, NEW s \in Scanner, ReaddirRefill(s)
  PROVE  /\ HandedOut = fetched /\ HandedOut' = fetched + 1 /\ fetched \in Nat
         /\ dirbuf'[1] = fetched + 1
         /\ pc[s] = "readdir" /\ pc' = [pc EXCEPT ![s] = "check"]
         /\ ptr' = [ptr EXCEPT ![s] = 1]
         /\ UNCHANGED <<mtx, registered, meant, reader, curStripe, eof, served, strays>>
         /\ \A t \in Scanner : ptr[t] # Null =>
              \/ dirbuf'[ptr[t]] = dirbuf[ptr[t]]
              \/ dirbuf'[ptr[t]] = dirbuf[ptr[t]] + BufSlots
<1>1. PICK k \in 1 .. BufSlots :
        /\ fetched + k \in 0 .. Len(Dir)
        /\ filled' = k /\ fetched' = fetched + k /\ handed' = 1
        /\ dirbuf' = [i \in 1 .. BufSlots |-> IF i <= k THEN fetched + i ELSE dirbuf[i]]
        /\ pc[s] = "readdir" /\ pc' = [pc EXCEPT ![s] = "check"]
        /\ ptr' = [ptr EXCEPT ![s] = 1]
        /\ UNCHANGED <<mtx, registered, meant, scanVars, crashed, resets>>
  BY FillFacts DEF LockInv
<1>2. /\ handed = filled /\ fetched < Len(Dir) /\ fetched \in Nat /\ filled \in Nat
      /\ BufSlots \in Nat \ {0}
  BY ConstantFacts DEF ReaddirRefill, LockInv, TypeOK
<1>3. HandedOut = fetched /\ HandedOut' = fetched + 1
  BY <1>1, <1>2 DEF HandedOut
<1>4. dirbuf'[1] = fetched + 1
  BY <1>1, <1>2
<1>5. ASSUME NEW t \in Scanner, ptr[t] # Null
      PROVE  \/ dirbuf'[ptr[t]] = dirbuf[ptr[t]]
             \/ dirbuf'[ptr[t]] = dirbuf[ptr[t]] + BufSlots
  <2>1. ptr[t] \in 1 .. BufSlots /\ dirbuf[ptr[t]] # Null
    BY <1>2, <1>5 DEF LockInv, TypeOK, SlotInv, Null
  <2>2. filled = BufSlots
    BY <1>2, <2>1 DEF BufferInv
  <2>3. dirbuf[ptr[t]] + BufSlots = fetched + ptr[t]
    BY <1>2, <2>1, <2>2 DEF BufferInv
  <2>. QED
    BY <1>1, <2>1, <2>3
<1>. QED
  BY <1>1, <1>2, <1>3, <1>4, <1>5 DEF scanVars

\* What a scanner is given stays what it was, until a fill for another scanner
\* puts a later entry in its place.
LEMMA GivenStep ==
  ASSUME LockInv, BufferInv, GivenInv, [Next]_vars
  PROVE  GivenInv'
<1>. USE ConstantFacts DEF LockInv, TypeOK, NextFileExclusive, Locked, SlotInv, GivenInv, Go,
         Location, dirVars, ptrVars, scanVars, Null, HandedOut
<1>1. ASSUME NEW s \in Scanner, Construct(s) PROVE GivenInv'
  BY <1>1 DEF Construct
<1>2. ASSUME NEW s \in Scanner, NeedFile(s) PROVE GivenInv'
  BY <1>2 DEF NeedFile
<1>3. ASSUME NEW s \in Scanner, HaveStripe(s) PROVE GivenInv'
  BY <1>3 DEF HaveStripe, Exhausted
<1>4. ASSUME NEW s \in Scanner, Lock(s) PROVE GivenInv'
  BY <1>4 DEF Lock
<1>5. ASSUME NEW s \in Scanner, ReaddirBuffered(s) PROVE GivenInv'
  <2>1. dirbuf[handed + 1] = HandedOut'
    BY <1>5 DEF ReaddirBuffered, BufferInv
  <2>. QED
    BY <1>5, <2>1 DEF ReaddirBuffered
<1>6. ASSUME NEW s \in Scanner, ReaddirRefill(s) PROVE GivenInv'
  <2>1. ptr'[s] = 1 /\ dirbuf'[1] = HandedOut'
    BY <1>6, RefillFacts
  <2>2. ASSUME NEW t \in Scanner \ {s}, pc[t] = "open", ptr[t] # Null
        PROVE  dirbuf'[ptr[t]] = meant[t] \/ Replaces(dirbuf'[ptr[t]], meant[t])
    <3>1. \/ dirbuf'[ptr[t]] = dirbuf[ptr[t]]
          \/ dirbuf'[ptr[t]] = dirbuf[ptr[t]] + BufSlots
      BY <1>6, <2>2, RefillFacts
    <3>2. Several
      BY DEF Several
    <3>3. dirbuf[ptr[t]] = meant[t] \/ Replaces(dirbuf[ptr[t]], meant[t])
      BY <2>2
    <3>4. /\ ptr \in [Scanner -> 0 .. BufSlots]
          /\ dirbuf \in [1 .. BufSlots -> Position \cup {Null}]
          /\ meant \in [Scanner -> File \cup {Null}]
      BY Zenon
    <3>5. dirbuf[ptr[t]] \in Nat /\ meant[t] \in Nat /\ BufSlots \in Nat
      <4>. HIDE DEF TypeOK, NextFileExclusive, SlotInv, GivenInv, HandedOut
      <4>1. ptr[t] \in 1 .. BufSlots
        BY <2>2, <3>4
      <4>. HIDE DEF Position, Null, File
      <4>2. dirbuf[ptr[t]] \in Position \cup {Null} /\ meant[t] \in File \cup {Null}
        BY <3>4, <4>1, Zenon
      <4>. QED
        BY <4>2, Numbers, Zenon
    <3>. HIDE DEF TypeOK, NextFileExclusive, SlotInv, GivenInv, HandedOut
    <3>. QED
      BY <3>1, <3>2, <3>3, <3>5 DEF Replaces
  <2>3. \A t \in Scanner \ {s} : pc[t] \notin {"check", "unlock"}
    BY <1>6, RefillFacts
  <2>4. /\ pc[s] = "readdir" /\ pc' = [pc EXCEPT ![s] = "check"]
        /\ ptr' = [ptr EXCEPT ![s] = 1]
        /\ UNCHANGED <<meant, reader, eof, strays>>
    BY <1>6, RefillFacts
  <2>. QED
    BY <2>1, <2>2, <2>3, <2>4
<1>7. ASSUME NEW s \in Scanner, ReaddirEnd(s) PROVE GivenInv'
  BY <1>7 DEF ReaddirEnd
<1>8. ASSUME NEW s \in Scanner, Accept(s) PROVE GivenInv'
  BY <1>8 DEF Accept
<1>9. ASSUME NEW s \in Scanner, Skip(s) PROVE GivenInv'
  BY <1>9 DEF Skip
<1>10. ASSUME NEW s \in Scanner, Unlock(s) PROVE GivenInv'
  BY <1>10 DEF Unlock
<1>11. ASSUME NEW s \in Scanner, Open(s) PROVE GivenInv'
  <2>1. /\ pc[s] = "open" /\ pc' = [pc EXCEPT ![s] = "read"] /\ ptr[s] # Null
        /\ reader' = [reader EXCEPT ![s] = dirbuf[ptr[s]]]
        /\ strays' = strays \cup Strayed(s)
        /\ UNCHANGED <<mtx, dirVars, ptrVars, eof>>
    BY <1>11 DEF Open
  <2>2. dirbuf[ptr[s]] = meant[s] \/ Replaces(dirbuf[ptr[s]], meant[s])
    BY <2>1
  <2>3. \A d \in Strayed(s) : d[2] = dirbuf[ptr[s]] /\ d[1] = meant[s] /\ d[2] # d[1]
    BY DEF Strayed
  <2>4. dirbuf[ptr[s]] # meant[s] => <<meant[s], dirbuf[ptr[s]]>> \in Strayed(s)
    BY DEF Strayed
  <2>5. \A d \in strays' : Replaces(d[2], d[1])
    <3>1. \A d \in strays : Replaces(d[2], d[1])
      BY Zenon
    <3>2. \A d \in strays' : d \in strays \/ d \in Strayed(s)
      BY <2>1
    <3>. HIDE DEF TypeOK, SlotInv, GivenInv, NextFileExclusive
    <3>3. \A d \in Strayed(s) : Replaces(d[2], d[1])
      BY <2>2, <2>3
    <3>. QED
      BY <3>1, <3>2, <3>3
  <2>. QED
    BY <2>1, <2>2, <2>4, <2>5, Zenon
<1>12. ASSUME NEW s \in Scanner, EndOfData(s) PROVE GivenInv'
  BY <1>12 DEF EndOfData
<1>13. ASSUME NEW s \in Scanner, ReadStripe(s) PROVE GivenInv'
  BY <1>13 DEF ReadStripe
<1>14. ASSUME NEW s \in Scanner, ReadBeyond(s) PROVE GivenInv'
  BY <1>14 DEF ReadBeyond
<1>15. ASSUME NEW s \in Scanner, Destroy(s) PROVE GivenInv'
  BY <1>15 DEF Destroy, Replaces
<1>16. ASSUME Reset PROVE GivenInv'
  BY <1>16 DEF Reset
<1>17. CASE UNCHANGED vars
  BY <1>17 DEF vars
<1>. QED
  BY <1>1, <1>2, <1>3, <1>4, <1>5, <1>6, <1>7, <1>8, <1>9,
     <1>10, <1>11, <1>12, <1>13, <1>14, <1>15, <1>16, <1>17 DEF Next, Step, NextFile, Ended

\* A file is chosen for one scanner: the one that holds the mutex chooses the
\* entry handed out last.
LEMMA MeantStep ==
  ASSUME LockInv, BufferInv, GivenInv, MeantInv, [Next]_vars
  PROVE  MeantInv'
<1>. USE ConstantFacts DEF LockInv, TypeOK, NextFileExclusive, Locked, MeantInv, Go,
         Location, dirVars, ptrVars, scanVars, Null, HandedOut
<1>1. ASSUME NEW s \in Scanner, Construct(s) PROVE MeantInv'
  BY <1>1 DEF Construct
<1>2. ASSUME NEW s \in Scanner, NeedFile(s) PROVE MeantInv'
  BY <1>2 DEF NeedFile
<1>3. ASSUME NEW s \in Scanner, HaveStripe(s) PROVE MeantInv'
  BY <1>3 DEF HaveStripe, Exhausted
<1>4. ASSUME NEW s \in Scanner, Lock(s) PROVE MeantInv'
  BY <1>4 DEF Lock
<1>5. ASSUME NEW s \in Scanner, ReaddirBuffered(s) PROVE MeantInv'
  <2>1. HandedOut \in Nat /\ HandedOut' = HandedOut + 1
    BY <1>5 DEF ReaddirBuffered, BufferInv
  <2>2. \A t \in Scanner : meant[t] \in 0 .. HandedOut
    OBVIOUS
  <2>. HIDE DEF HandedOut
  <2>. QED
    BY <1>5, <2>1, <2>2 DEF ReaddirBuffered
<1>6. ASSUME NEW s \in Scanner, ReaddirRefill(s) PROVE MeantInv'
  <2>1. /\ HandedOut = fetched /\ HandedOut' = fetched + 1 /\ fetched \in Nat
        /\ meant' = meant /\ pc' = [pc EXCEPT ![s] = "check"]
    BY <1>6, RefillFacts
  <2>2. \A t \in Scanner : meant[t] \in 0 .. HandedOut
    OBVIOUS
  <2>. HIDE DEF HandedOut
  <2>. QED
    BY <2>1, <2>2
<1>7. ASSUME NEW s \in Scanner, ReaddirEnd(s) PROVE MeantInv'
  BY <1>7 DEF ReaddirEnd
<1>8. ASSUME NEW s \in Scanner, Accept(s) PROVE MeantInv'
  <2>1. meant' = [meant EXCEPT ![s] = HandedOut]
    BY <1>8 DEF Accept, GivenInv
  <2>2. HandedOut \in Nat /\ HandedOut' = HandedOut
    BY <1>8 DEF Accept, BufferInv
  <2>. HIDE DEF HandedOut
  <2>. QED
    BY <1>8, <2>1, <2>2 DEF Accept
<1>9. ASSUME NEW s \in Scanner, Skip(s) PROVE MeantInv'
  BY <1>9 DEF Skip
<1>10. ASSUME NEW s \in Scanner, Unlock(s) PROVE MeantInv'
  BY <1>10 DEF Unlock
<1>11. ASSUME NEW s \in Scanner, Open(s) PROVE MeantInv'
  BY <1>11 DEF Open
<1>12. ASSUME NEW s \in Scanner, EndOfData(s) PROVE MeantInv'
  BY <1>12 DEF EndOfData
<1>13. ASSUME NEW s \in Scanner, ReadStripe(s) PROVE MeantInv'
  BY <1>13 DEF ReadStripe
<1>14. ASSUME NEW s \in Scanner, ReadBeyond(s) PROVE MeantInv'
  BY <1>14 DEF ReadBeyond
<1>15. ASSUME NEW s \in Scanner, Destroy(s) PROVE MeantInv'
  BY <1>15 DEF Destroy
<1>16. ASSUME Reset PROVE MeantInv'
  BY <1>16 DEF Reset
<1>17. CASE UNCHANGED vars
  BY <1>17 DEF vars
<1>. QED
  BY <1>1, <1>2, <1>3, <1>4, <1>5, <1>6, <1>7, <1>8, <1>9,
     <1>10, <1>11, <1>12, <1>13, <1>14, <1>15, <1>16, <1>17 DEF Next, Step, NextFile, Ended

\* The two sides of a pair in the history of what was opened in place of what.
LEMMA StrayFacts ==
  ASSUME NEW m, NEW f, <<m, f>> \in strays
  PROVE  f \in Intruders /\ m \in {d[1] : d \in strays}
<1>1. <<m, f>>[1] = m /\ <<m, f>>[2] = f
  OBVIOUS
<1>. QED
  BY <1>1 DEF Intruders

\* What has been served stays behind what is handed out, and before the cursor
\* of the scanner that has the file, but for files opened in place of others.
LEMMA ServedStep ==
  ASSUME LockInv, BufferInv, GivenInv, MeantInv, ServedInv, [Next]_vars
  PROVE  ServedInv'
<1>. USE ConstantFacts DEF LockInv, TypeOK, NextFileExclusive, Locked, ServedInv, Go,
         Location, dirVars, ptrVars, scanVars, Null, HandedOut
<1>1. ASSUME NEW s \in Scanner, Construct(s) PROVE ServedInv'
  BY <1>1 DEF Construct, Intruders
<1>2. ASSUME NEW s \in Scanner, NeedFile(s) PROVE ServedInv'
  BY <1>2 DEF NeedFile, Intruders
<1>3. ASSUME NEW s \in Scanner, HaveStripe(s) PROVE ServedInv'
  BY <1>3 DEF HaveStripe, Exhausted, Intruders
<1>4. ASSUME NEW s \in Scanner, Lock(s) PROVE ServedInv'
  BY <1>4 DEF Lock, Intruders
<1>5. ASSUME NEW s \in Scanner, ReaddirBuffered(s) PROVE ServedInv'
  <2>1. HandedOut \in Nat /\ HandedOut' = HandedOut + 1
    BY <1>5 DEF ReaddirBuffered, BufferInv
  <2>2. Intruders' = Intruders
    BY <1>5 DEF ReaddirBuffered, Intruders
  <2>3. /\ pc[s] = "readdir" /\ pc'[s] = "check" /\ \A t \in Scanner \ {s} : pc'[t] = pc[t]
        /\ UNCHANGED <<meant, reader, curStripe, served, strays>>
    BY <1>5 DEF ReaddirBuffered
  <2>. HIDE DEF HandedOut
  <2>. QED
    BY <2>1, <2>2, <2>3
<1>6. ASSUME NEW s \in Scanner, ReaddirRefill(s) PROVE ServedInv'
  <2>1. /\ HandedOut = fetched /\ HandedOut' = fetched + 1 /\ fetched \in Nat
        /\ pc[s] = "readdir" /\ pc' = [pc EXCEPT ![s] = "check"]
        /\ UNCHANGED <<meant, reader, curStripe, served, strays>>
    BY <1>6, RefillFacts
  <2>2. Intruders' = Intruders
    BY <2>1 DEF Intruders
  <2>3. pc'[s] = "check" /\ \A t \in Scanner \ {s} : pc'[t] = pc[t]
    BY <2>1
  <2>. HIDE DEF HandedOut
  <2>. QED
    BY <2>1, <2>2, <2>3
<1>7. ASSUME NEW s \in Scanner, ReaddirEnd(s) PROVE ServedInv'
  BY <1>7 DEF ReaddirEnd, SlotInv, Intruders
<1>8. ASSUME NEW s \in Scanner, Accept(s) PROVE ServedInv'
  <2>1. meant' = [meant EXCEPT ![s] = HandedOut] /\ pc[s] = "check"
        /\ pc' = [pc EXCEPT ![s] = "unlock"]
    BY <1>8 DEF Accept, GivenInv
  <2>2. HandedOut' = HandedOut /\ Intruders' = Intruders
    BY <1>8 DEF Accept, Intruders
  <2>. HIDE DEF HandedOut
  <2>. QED
    BY <1>8, <2>1, <2>2 DEF Accept
<1>9. ASSUME NEW s \in Scanner, Skip(s) PROVE ServedInv'
  BY <1>9 DEF Skip, Intruders
<1>10. ASSUME NEW s \in Scanner, Unlock(s) PROVE ServedInv'
  BY <1>10 DEF Unlock, Intruders
<1>11. ASSUME NEW s \in Scanner, Open(s) PROVE ServedInv'
  <2>1. /\ pc[s] = "open" /\ pc' = [pc EXCEPT ![s] = "read"] /\ ptr[s] # Null
        /\ reader' = [reader EXCEPT ![s] = dirbuf[ptr[s]]]
        /\ curStripe' = [curStripe EXCEPT ![s] = 0]
        /\ strays' = strays \cup Strayed(s)
        /\ UNCHANGED <<mtx, dirVars, ptrVars, eof, served>>
    BY <1>11 DEF Open
  <2>2. reader'[s] # meant[s] => reader'[s] \in Intruders'
    <3>1. reader'[s] # meant[s] => <<meant[s], reader'[s]>> \in strays'
      BY <2>1 DEF Strayed
    <3>. QED
      BY <3>1 DEF Intruders
  <2>3. Intruders \subseteq Intruders' /\ HandedOut' = HandedOut
    BY <2>1 DEF Intruders
  <2>4. \A t \in Scanner \ {s} : pc'[t] = pc[t] /\ reader'[t] = reader[t]
                                 /\ curStripe'[t] = curStripe[t]
    BY <2>1
  <2>5. ASSUME NEW u \in Scanner, NEW d \in served'[u], d[1] \notin Intruders'
        PROVE  /\ d[1] \in 1 .. HandedOut'
               /\ \A t \in Scanner :
                    /\ pc'[t] = "check" => d[1] # HandedOut'
                    /\ pc'[t] \in {"unlock", "open"} => d[1] # meant'[t]
                    /\ pc'[t] \in {"idle", "read"} /\ d[1] = reader'[t] => d[2] < curStripe'[t]
    <3>1. d \in served[u] /\ d[1] \notin Intruders /\ d[1] # meant[s]
      BY <2>1, <2>3, <2>5
    <3>2. d[1] # reader'[s] /\ pc'[s] = "read"
      BY <2>1, <2>2, <2>5, <3>1
    <3>. HIDE DEF HandedOut
    <3>. QED
      BY <2>1, <2>3, <2>4, <3>1, <3>2
  <2>. QED
    BY <2>5
<1>12. ASSUME NEW s \in Scanner, EndOfData(s) PROVE ServedInv'
  BY <1>12 DEF EndOfData, Intruders
<1>13. ASSUME NEW s \in Scanner, ReadStripe(s) PROVE ServedInv'
  <2>1. /\ pc[s] = "read" /\ pc' = [pc EXCEPT ![s] = "idle"]
        /\ UNCHANGED <<dirVars, ptrVars, reader, strays>>
        /\ curStripe' = [curStripe EXCEPT ![s] = @ + 1]
        /\ served' = [served EXCEPT ![s] = @ \cup {<<reader[s], curStripe[s]>>}]
    BY <1>13, Zenon DEF ReadStripe
  <2>2. /\ pc'[s] = "idle" /\ curStripe[s] \in Nat /\ curStripe'[s] = curStripe[s] + 1
        /\ \A t \in Scanner \ {s} : pc'[t] = pc[t] /\ curStripe'[t] = curStripe[t]
        /\ HandedOut' = HandedOut /\ Intruders' = Intruders
    BY <2>1 DEF Intruders
  <2>. DEFINE new == <<reader[s], curStripe[s]>>
              Good(d) == /\ d[1] \in 1 .. HandedOut
                         /\ \A t \in Scanner :
                              /\ pc'[t] = "check" => d[1] # HandedOut
                              /\ pc'[t] \in {"unlock", "open"} => d[1] # meant[t]
                              /\ pc'[t] \in {"idle", "read"} /\ d[1] = reader[t] => d[2] < curStripe'[t]
  <2>3. \A u \in Scanner : \A d \in served'[u] : d \in served[u] \/ d = new
    BY <2>1
  <2>. HIDE DEF HandedOut
  <2>4. ASSUME NEW u \in Scanner, NEW d \in served[u], d[1] \notin Intruders PROVE Good(d)
    <3>1. d[1] = reader[s] => d[2] \in Nat /\ d[2] < curStripe[s]
      BY <2>1, <2>4
    <3>2. /\ d[1] \in 1 .. HandedOut
          /\ \A t \in Scanner :
               /\ pc[t] = "check" => d[1] # HandedOut
               /\ pc[t] \in {"unlock", "open"} => d[1] # meant[t]
               /\ pc[t] \in {"idle", "read"} /\ d[1] = reader[t] => d[2] < curStripe[t]
      BY <2>4, Zenon
    <3>. HIDE DEF TypeOK, ServedInv, NextFileExclusive
    <3>3. ASSUME NEW t \in Scanner
          PROVE  /\ pc'[t] = "check" => d[1] # HandedOut
                 /\ pc'[t] \in {"unlock", "open"} => d[1] # meant[t]
                 /\ pc'[t] \in {"idle", "read"} /\ d[1] = reader[t] => d[2] < curStripe'[t]
      <4>1. CASE t = s
        BY <2>2, <3>1, <4>1
      <4>2. CASE t # s
        BY <2>2, <3>2, <4>2
      <4>. QED
        BY <4>1, <4>2
    <3>. QED
      BY <3>2, <3>3
  <2>5. reader[s] \notin Intruders => Good(new)
    <3>. SUFFICES ASSUME reader[s] \notin Intruders PROVE Good(new)
      OBVIOUS
    <3>1. new[1] = reader[s] /\ new[2] = curStripe[s]
      OBVIOUS
    <3>2. ASSUME NEW t \in Scanner, pc[t] \in {"idle", "read"}, reader[t] = reader[s]
          PROVE  reader[t] = meant[t]
      <4>1. reader[t] = meant[t] \/ <<meant[t], reader[t]>> \in strays
        BY <3>2, Zenon DEF GivenInv
      <4>2. <<meant[t], reader[t]>> \in strays => reader[t] \in Intruders
        BY StrayFacts, Zenon
      <4>. QED
        BY <3>2, <4>1, <4>2, Zenon
    <3>3. reader[s] = meant[s] /\ meant[s] # Null
      BY <2>1, <3>2 DEF SlotInv
    <3>4. meant[s] \in 1 .. HandedOut
      BY <3>3 DEF MeantInv
    <3>5. ASSUME NEW t \in Scanner
          PROVE  /\ pc'[t] = "check" => reader[s] # HandedOut
                 /\ pc'[t] \in {"unlock", "open"} => reader[s] # meant[t]
                 /\ pc'[t] \in {"idle", "read"} /\ reader[s] = reader[t] =>
                      curStripe[s] < curStripe'[t]
      <4>1. CASE t = s
        BY <2>2, <4>1
      <4>2. CASE t # s
        BY <2>2, <3>2, <3>3, <4>2 DEF MeantInv
      <4>. QED
        BY <4>1, <4>2
    <3>. HIDE DEF new
    <3>. QED
      BY <3>1, <3>3, <3>4, <3>5
  <2>6. ASSUME NEW u \in Scanner, NEW d \in served'[u], d[1] \notin Intruders' PROVE Good(d)
    <3>1. CASE d \in served[u]
      BY <2>2, <2>4, <2>6, <3>1
    <3>2. CASE d = new
      BY <2>2, <2>5, <2>6, <3>2
    <3>. QED
      BY <2>3, <3>1, <3>2
  <2>7. meant' = meant /\ reader' = reader
    BY <2>1
  <2>. HIDE DEF TypeOK, NextFileExclusive, new
  <2>. QED
    BY <2>2, <2>6, <2>7
<1>14. ASSUME NEW s \in Scanner, ReadBeyond(s) PROVE ServedInv'
  BY <1>14 DEF ReadBeyond, Intruders
<1>15. ASSUME NEW s \in Scanner, Destroy(s) PROVE ServedInv'
  BY <1>15 DEF Destroy, Intruders
<1>16. ASSUME Reset PROVE ServedInv'
  BY <1>16 DEF Reset
<1>17. CASE UNCHANGED vars
  BY <1>17 DEF vars, Intruders
<1>. QED
  BY <1>1, <1>2, <1>3, <1>4, <1>5, <1>6, <1>7, <1>8, <1>9,
     <1>10, <1>11, <1>12, <1>13, <1>14, <1>15, <1>16, <1>17 DEF Next, Step, NextFile, Ended

-----------------------------------------------------------------------------
(***************************************************************************)
(* Theorems                                                                *)
(***************************************************************************)
\* The mutex is used as it should be, and what a dirent points to is an entry.
THEOREM LockInvariance == Spec => []LockInv
<1>1. Init => LockInv
  BY InitIInv DEF IInv
<1>2. LockInv /\ [Next]_vars => LockInv'
  BY TypeStep, ExclusiveStep, SlotStep DEF LockInv
<1>. QED
  BY <1>1, <1>2, PTL DEF Spec

\* A step keeps the invariant.
LEMMA InvariantStep == IInv /\ [Next]_vars => IInv'
<1>. SUFFICES ASSUME IInv, [Next]_vars PROVE IInv'
  OBVIOUS
<1>1. LockInv'
  BY TypeStep, ExclusiveStep, SlotStep DEF IInv, LockInv
<1>2. BufferInv' /\ GivenInv' /\ MeantInv' /\ ServedInv'
  BY BufferStep, GivenStep, MeantStep, ServedStep DEF IInv
<1>. QED
  BY <1>1, <1>2 DEF IInv

\* The invariant holds in every reachable state, for any number of scanners, any
\* directory and any size of its buffer.
THEOREM Invariance == Spec => []IInv
BY InitIInv, InvariantStep, PTL DEF Spec

\* Types: every slot, cursor and counter stays in its range.
THEOREM TypeCorrect == Spec => []TypeOK
BY LockInvariance, PTL DEF LockInv

\* Table::mtx: the loop over readdir in Rep::nextFile is run by one scanner.
THEOREM MutualExclusion == Spec => []NextFileExclusive
BY LockInvariance, PTL DEF LockInv

\* What a scanner holds is the file chosen for it, or has taken its place.
LEMMA HeldFacts ==
  ASSUME IInv, NEW s \in Scanner
  PROVE  /\ meant[s] \in File \cup {Null}
         /\ Held(s) = meant[s] \/ (Astray(s) /\ Replaces(Held(s), meant[s]))
<1>1. meant[s] \in File \cup {Null} /\ pc[s] \in Location
  BY DEF IInv, LockInv, TypeOK
<1>2. CASE pc[s] \in {"unlock", "open"}
  <2>1. ptr[s] = Null <=> meant[s] = Null
    BY <1>2 DEF IInv, LockInv, SlotInv
  <2>2. ptr[s] # Null => \/ dirbuf[ptr[s]] = meant[s]
                         \/ Replaces(dirbuf[ptr[s]], meant[s])
    BY <1>2 DEF IInv, GivenInv
  <2>. QED
    BY <1>1, <1>2, <2>1, <2>2 DEF Held, Astray, Replaces
<1>3. CASE pc[s] \in {"idle", "read"}
  <2>1. \/ reader[s] = meant[s]
        \/ Replaces(reader[s], meant[s]) /\ <<meant[s], reader[s]>> \in strays
    BY <1>3 DEF IInv, GivenInv
  <2>2. <<meant[s], reader[s]>> \in strays => meant[s] \in File
    BY DEF IInv, LockInv, TypeOK
  <2>3. Null \notin File
    BY ConstantFacts
  <2>. QED
    BY <1>1, <1>3, <2>1, <2>2, <2>3 DEF Held, Astray, Replaces
<1>4. CASE pc[s] \notin {"unlock", "open", "idle", "read"}
  BY <1>1, <1>4 DEF IInv, LockInv, SlotInv, GivenInv, Held, Location
<1>. QED
  BY <1>1, <1>2, <1>3, <1>4

\* Two scanners hold one file only if one of them was led astray by a refill
\* (Table.h, nextFile: the dirent is looked at after the unlock), and what a
\* scanner holds is the data file chosen for it unless it was.
THEOREM Disjoint == Spec => [](FilesDisjoint /\ OnlyDataFiles)
<1>1. IInv => FilesDisjoint /\ OnlyDataFiles
  <2>. SUFFICES ASSUME IInv PROVE FilesDisjoint /\ OnlyDataFiles
    OBVIOUS
  <2>1. FilesDisjoint
    BY HeldFacts DEF FilesDisjoint, IInv, MeantInv
  <2>2. OnlyDataFiles
    BY HeldFacts DEF OnlyDataFiles
  <2>. QED
    BY <2>1, <2>2
<1>. QED
  BY <1>1, Invariance, PTL

\* No call of nextBatch returns a stripe that has been returned before, but of
\* an entry that was opened in place of another.
THEOREM AtMostOnce == Spec => NoStripeTwice
<1>1. IInv /\ [Next]_vars =>
        [\A s \in Scanner : pc[s] = "read" /\ pc'[s] = "idle" =>
           <<reader[s], curStripe[s]>> \notin AllServed \/ reader[s] \in Intruders]_vars
  <2>. SUFFICES ASSUME IInv, NEW s \in Scanner, pc[s] = "read",
                       <<reader[s], curStripe[s]>> \in AllServed,
                       reader[s] \notin Intruders
                PROVE  FALSE
    BY Zenon
  <2>1. PICK u \in Scanner : <<reader[s], curStripe[s]>> \in served[u]
    BY DEF AllServed
  <2>2. curStripe[s] < curStripe[s]
    BY <2>1 DEF IInv, ServedInv
  <2>. QED
    BY <2>2 DEF IInv, LockInv, TypeOK
<1>. QED
  BY <1>1, Invariance, PTL DEF Spec, NoStripeTwice

\* The two cases in which nothing can go astray: the directory fits the buffer of
\* its stream, which is then filled once in a pass, or there is one scanner.
FitsBuffer == Len(Dir) <= BufSlots
Safe == FitsBuffer \/ ~Several

\* In these cases a dirent is good for as long as a scanner looks at it.
LEMMA SafeFacts ==
  ASSUME IInv, Safe
  PROVE  /\ strays = {}
         /\ \A s \in Scanner :
              /\ pc[s] \in {"unlock", "open"} /\ ptr[s] # Null => dirbuf[ptr[s]] = meant[s]
              /\ pc[s] \in {"idle", "read"} => reader[s] = meant[s]
              /\ ~Astray(s)
<1>1. \A m \in File : \A e \in Position : ~Replaces(e, m)
  BY ConstantFacts DEF Safe, FitsBuffer, Replaces, Position, File
<1>2. strays = {}
  BY <1>1 DEF IInv, LockInv, TypeOK, GivenInv
<1>3. ASSUME NEW s \in Scanner, pc[s] \in {"unlock", "open"}, ptr[s] # Null
      PROVE  dirbuf[ptr[s]] = meant[s]
  <2>1. meant[s] \in File /\ dirbuf[ptr[s]] \in Position
    BY <1>3, ConstantFacts DEF IInv, LockInv, TypeOK, SlotInv, Null
  <2>. QED
    BY <1>1, <1>3, <2>1 DEF IInv, GivenInv
<1>4. ASSUME NEW s \in Scanner, pc[s] \in {"idle", "read"} PROVE reader[s] = meant[s]
  BY <1>2, <1>4 DEF IInv, GivenInv
<1>5. ASSUME NEW s \in Scanner PROVE ~Astray(s)
  <2>1. /\ meant[s] \in File \cup {Null}
        /\ Held(s) = meant[s] \/ Replaces(Held(s), meant[s])
    BY HeldFacts
  <2>2. Held(s) \in Position \cup {Null}
    BY ConstantFacts DEF Held, IInv, LockInv, TypeOK, Null
  <2>3. BufSlots \in Nat \ {0} /\ File \subseteq Nat /\ Position \subseteq Nat
    BY ConstantFacts
  <2>4. SUFFICES ASSUME Astray(s) PROVE FALSE
    OBVIOUS
  <2>5. meant[s] \in File /\ meant[s] + BufSlots <= Held(s)
    BY <2>1, <2>4 DEF Astray
  <2>6. Held(s) \in Nat /\ meant[s] \in Nat
    BY <2>2, <2>5, Numbers, Zenon
  <2>7. Held(s) > meant[s]
    <3>. HIDE DEF Held
    <3>1. \A b \in Nat \ {0} : \A h, m \in Nat : m + b <= h => h > m
      OBVIOUS
    <3>. QED
      BY <2>3, <2>5, <2>6, <3>1
  <2>8. Held(s) # Null
    BY <2>6, <2>7 DEF Null
  <2>9. Held(s) \in Position /\ Held(s) # meant[s]
    BY <2>2, <2>6, <2>7, <2>8
  <2>. QED
    BY <1>1, <2>1, <2>5, <2>9
<1>. QED
  BY <1>2, <1>3, <1>4, <1>5

\* With a buffer that holds the whole directory, or with one scanner (TestSql),
\* every scanner holds and opens what nextFile chose for it.
THEOREM NeverAstray ==
  ASSUME Safe PROVE Spec => [](strays = {} /\ \A s \in Scanner : Held(s) = meant[s])
<1>1. IInv => strays = {} /\ \A s \in Scanner : Held(s) = meant[s]
  BY SafeFacts, HeldFacts
<1>. QED
  BY <1>1, Invariance, PTL

-----------------------------------------------------------------------------
(***************************************************************************)
(* The counter of registered scanners.                                     *)
(***************************************************************************)
Live == {s \in Scanner : pc[s] \notin {"new", "gone"}}

CountInv == pc \in [Scanner -> Location] /\ registered = Cardinality(Live)

\* reg() in the constructor and unreg() in the destructor keep the counter
\* equal to the number of scanners alive.
LEMMA CountStep == CountInv /\ [Next]_vars => CountInv'
<1>. SUFFICES ASSUME CountInv, [Next]_vars PROVE CountInv'
  OBVIOUS
<1>0. IsFiniteSet(Live)
  BY DirAssumption, FS_Subset DEF Live
<1>1. ASSUME NEW s \in Scanner, Construct(s) PROVE CountInv'
  <2>1. pc' \in [Scanner -> Location] /\ Live' = Live \cup {s} /\ s \notin Live
    BY <1>1 DEF Construct, Go, CountInv, Live, Location
  <2>2. Cardinality(Live \cup {s}) = Cardinality(Live) + 1
    BY <1>0, <2>1, FS_AddElement
  <2>. QED
    BY <1>1, <2>1, <2>2 DEF Construct, CountInv
<1>2. ASSUME NEW s \in Scanner, Destroy(s) PROVE CountInv'
  <2>1. pc' \in [Scanner -> Location] /\ Live' = Live \ {s} /\ s \in Live
    BY <1>2 DEF Destroy, Go, CountInv, Live, Location
  <2>2. Cardinality(Live \ {s}) = Cardinality(Live) - 1
    BY <1>0, <2>1, FS_RemoveElement
  <2>. QED
    BY <1>2, <2>1, <2>2 DEF Destroy, CountInv
<1>3. ASSUME Reset PROVE CountInv'
  <2>1. pc' \in [Scanner -> Location] /\ Live' = Live /\ registered' = registered
    BY <1>3 DEF Reset, CountInv, Live, Location
  <2>. QED
    BY <2>1, Zenon DEF CountInv
<1>4. ASSUME NEW s \in Scanner,
             \/ NeedFile(s) \/ HaveStripe(s) \/ NextFile(s) \/ ReadStripe(s) \/ ReadBeyond(s)
      PROVE  CountInv'
  <2>1. registered' = registered
    BY <1>4 DEF NeedFile, HaveStripe, NextFile, Lock, ReaddirBuffered, ReaddirRefill,
         ReaddirEnd, Accept, Skip, Unlock, Open, EndOfData, ReadStripe, ReadBeyond
  <2>2. \/ pc' = pc
        \/ \E from, to \in Location \ {"new", "gone"} : Go(s, from, to)
    BY <1>4, Zenon DEF NeedFile, HaveStripe, NextFile, Lock, ReaddirBuffered, ReaddirRefill,
         ReaddirEnd, Accept, Skip, Unlock, Open, EndOfData, ReadStripe, ReadBeyond, Location
  <2>3. pc' \in [Scanner -> Location] /\ Live' = Live
    BY <2>2 DEF Go, CountInv, Live, Location
  <2>. QED
    BY <2>1, <2>3, Zenon DEF CountInv
<1>5. CASE UNCHANGED vars
  BY <1>5 DEF vars, CountInv, Live
<1>. QED
  BY <1>1, <1>2, <1>3, <1>4, <1>5 DEF Next, Step, Ended

\* unreg() returns 0 to the last scanner alive and to no other one: the counter
\* of Table is the number of live scanners, whatever they interleave.
THEOREM CountedExactly == Spec => []RegisteredCountsLive
<1>1. Init => CountInv
  <2>. SUFFICES ASSUME Init PROVE CountInv
    OBVIOUS
  <2>1. Live = {} /\ pc \in [Scanner -> Location] /\ registered = 0
    BY DEF Init, Live, Location
  <2>. QED
    BY <2>1, FS_EmptySet DEF CountInv
<1>2. CountInv => RegisteredCountsLive
  BY Zenon DEF CountInv, RegisteredCountsLive, Live
<1>. QED
  BY <1>1, <1>2, CountStep, PTL DEF Spec
-----------------------------------------------------------------------------
(***************************************************************************)
(* No file is lost but for entries that were overwritten, and the stripes  *)
(* of a file come in order.                                                *)
(***************************************************************************)
\* Once a scanner has been told "end of data", or is about to be, the directory
\* is used up for all.
EndInv ==
  \A s \in Scanner : eof[s] \/ (pc[s] \in {"unlock", "open"} /\ ptr[s] = Null) =>
    /\ handed = filled /\ fetched = Len(Dir)
    /\ \A t \in Scanner : pc[t] # "check"

\* What lies before the cursor of an open file has been served by its scanner.
CursorInv ==
  \A s \in Scanner : pc[s] \in {"idle", "read"} /\ reader[s] # Null =>
    /\ curStripe[s] <= Stripes(reader[s])
    /\ \A k \in 0 .. curStripe[s] - 1 : <<reader[s], k>> \in served[s]

\* A scanner has been given the first n stripes of a file, and no more.
Given(s, f, n) == \A k \in Nat : <<f, k>> \in served[s] <=> k < n

\* A file a scanner has read of has been read to its end, or is open and has been
\* read up to the cursor.
OrderInv ==
  \A s \in Scanner : \A f \in Position :
    \/ \A k \in Nat : <<f, k>> \notin served[s]
    \/ Given(s, f, Stripes(f))
    \/ pc[s] \in {"idle", "read"} /\ reader[s] = f /\ Given(s, f, curStripe[s])

\* A file that readdir has returned is being looked at, or is meant for a scanner,
\* or has been read to its end, or was not opened by the one it was meant for.
TakenInv ==
  \A f \in File : f <= HandedOut =>
    \/ f = HandedOut /\ \E t \in Scanner : pc[t] = "check"
    \/ \E t \in Scanner : meant[t] = f
    \/ \E t \in Scanner : \A k \in 0 .. Stripes(f) - 1 : <<f, k>> \in served[t]
    \/ f \in {d[1] : d \in strays}

FullInv == IInv /\ EndInv /\ CursorInv /\ OrderInv /\ TakenInv
-----------------------------------------------------------------------------
\* A file has a number of stripes.
LEMMA StripesType == \A f \in Position : Stripes(f) \in Nat
<1>. TAKE f \in Position
<1>1. Dir[f] \in [name : STRING, regular : BOOLEAN, hidden : BOOLEAN, stripes : Nat]
  <2>1. Dir \in Seq([name : STRING, regular : BOOLEAN, hidden : BOOLEAN, stripes : Nat])
    BY DirAssumption
  <2>. HIDE DirAssumption
  <2>. QED
    BY <2>1, ElementOfSeq DEF Position
<1>. QED
  BY <1>1 DEF Stripes

\* readdir returns NULL only when every entry has been handed out and tested.
LEMMA EndStep ==
  ASSUME IInv, EndInv, [Next]_vars
  PROVE  EndInv'
<1>. USE ConstantFacts DEF IInv, LockInv, TypeOK, NextFileExclusive, Locked, SlotInv, EndInv, Go,
         Location, dirVars, ptrVars, scanVars, Null
<1>1. ASSUME NEW s \in Scanner, Construct(s) PROVE EndInv'
  BY <1>1 DEF Construct
<1>2. ASSUME NEW s \in Scanner, NeedFile(s) PROVE EndInv'
  BY <1>2 DEF NeedFile, Exhausted
<1>3. ASSUME NEW s \in Scanner, HaveStripe(s) PROVE EndInv'
  BY <1>3 DEF HaveStripe, Exhausted
<1>4. ASSUME NEW s \in Scanner, Lock(s) PROVE EndInv'
  BY <1>4 DEF Lock
<1>5. ASSUME NEW s \in Scanner, ReaddirBuffered(s) PROVE EndInv'
  BY <1>5 DEF ReaddirBuffered
<1>6. ASSUME NEW s \in Scanner, ReaddirRefill(s) PROVE EndInv'
  <2>1. fetched < Len(Dir) /\ fetched \in Nat
    BY <1>6 DEF ReaddirRefill
  <2>2. \A t \in Scanner : ~(eof[t] \/ (pc[t] \in {"unlock", "open"} /\ ptr[t] = Null))
    BY <2>1
  <2>3. /\ pc[s] = "readdir" /\ pc' = [pc EXCEPT ![s] = "check"]
        /\ ptr' = [ptr EXCEPT ![s] = 1] /\ eof' = eof
    BY <1>6, FillFacts
  <2>4. \A t \in Scanner : ~(eof'[t] \/ (pc'[t] \in {"unlock", "open"} /\ ptr'[t] = Null))
    BY <2>2, <2>3
  <2>. QED
    BY <2>4
<1>7. ASSUME NEW s \in Scanner, ReaddirEnd(s) PROVE EndInv'
  BY <1>7 DEF ReaddirEnd
<1>8. ASSUME NEW s \in Scanner, Accept(s) PROVE EndInv'
  BY <1>8 DEF Accept
<1>9. ASSUME NEW s \in Scanner, Skip(s) PROVE EndInv'
  BY <1>9 DEF Skip
<1>10. ASSUME NEW s \in Scanner, Unlock(s) PROVE EndInv'
  BY <1>10 DEF Unlock
<1>11. ASSUME NEW s \in Scanner, Open(s) PROVE EndInv'
  BY <1>11 DEF Open
<1>12. ASSUME NEW s \in Scanner, EndOfData(s) PROVE EndInv'
  BY <1>12 DEF EndOfData
<1>13. ASSUME NEW s \in Scanner, ReadStripe(s) PROVE EndInv'
  BY <1>13 DEF ReadStripe
<1>14. ASSUME NEW s \in Scanner, ReadBeyond(s) PROVE EndInv'
  BY <1>14 DEF ReadBeyond
<1>15. ASSUME NEW s \in Scanner, Destroy(s) PROVE EndInv'
  BY <1>15 DEF Destroy
<1>16. ASSUME Reset PROVE EndInv'
  BY <1>16 DEF Reset
<1>17. CASE UNCHANGED vars
  BY <1>17 DEF vars
<1>. QED
  BY <1>1, <1>2, <1>3, <1>4, <1>5, <1>6, <1>7, <1>8, <1>9,
     <1>10, <1>11, <1>12, <1>13, <1>14, <1>15, <1>16, <1>17 DEF Next, Step, NextFile, Ended

\* The cursor moves with the stripes served.
LEMMA CursorStep ==
  ASSUME IInv, CursorInv, [Next]_vars
  PROVE  CursorInv'
<1>. USE ConstantFacts DEF IInv, LockInv, TypeOK, CursorInv, Go, Location, dirVars, ptrVars,
         scanVars, Null, Position
<1>1. ASSUME NEW s \in Scanner, Construct(s) PROVE CursorInv'
  BY <1>1 DEF Construct
<1>2. ASSUME NEW s \in Scanner, NeedFile(s) PROVE CursorInv'
  BY <1>2 DEF NeedFile, Exhausted
<1>3. ASSUME NEW s \in Scanner, HaveStripe(s) PROVE CursorInv'
  BY <1>3 DEF HaveStripe, Exhausted
<1>4. ASSUME NEW s \in Scanner, Lock(s) PROVE CursorInv'
  BY <1>4 DEF Lock
<1>5. ASSUME NEW s \in Scanner, ReaddirBuffered(s) PROVE CursorInv'
  BY <1>5 DEF ReaddirBuffered
<1>6. ASSUME NEW s \in Scanner, ReaddirRefill(s) PROVE CursorInv'
  <2>1. /\ pc[s] = "readdir" /\ pc' = [pc EXCEPT ![s] = "check"]
        /\ UNCHANGED <<reader, curStripe, served>>
    BY <1>6, RefillFacts
  <2>2. \A t \in Scanner : pc'[t] \in {"idle", "read"} => pc'[t] = pc[t]
    BY <2>1
  <2>. QED
    BY <2>1, <2>2
<1>7. ASSUME NEW s \in Scanner, ReaddirEnd(s) PROVE CursorInv'
  BY <1>7 DEF ReaddirEnd
<1>8. ASSUME NEW s \in Scanner, Accept(s) PROVE CursorInv'
  BY <1>8 DEF Accept
<1>9. ASSUME NEW s \in Scanner, Skip(s) PROVE CursorInv'
  BY <1>9 DEF Skip
<1>10. ASSUME NEW s \in Scanner, Unlock(s) PROVE CursorInv'
  BY <1>10 DEF Unlock
<1>11. ASSUME NEW s \in Scanner, Open(s) PROVE CursorInv'
  <2>1. reader'[s] \in Position /\ curStripe'[s] = 0
    BY <1>11 DEF Open, SlotInv
  <2>2. Stripes(reader'[s]) \in Nat
    BY <2>1, StripesType
  <2>. QED
    BY <1>11, <2>1, <2>2 DEF Open
<1>12. ASSUME NEW s \in Scanner, EndOfData(s) PROVE CursorInv'
  BY <1>12 DEF EndOfData
<1>13. ASSUME NEW s \in Scanner, ReadStripe(s) PROVE CursorInv'
  <2>1. /\ reader[s] \in Position /\ curStripe[s] \in Nat /\ curStripe[s] < Stripes(reader[s])
        /\ Stripes(reader[s]) \in Nat
    BY <1>13, StripesType DEF ReadStripe, SlotInv
  <2>2. /\ reader' = reader /\ curStripe' = [curStripe EXCEPT ![s] = @ + 1]
        /\ served' = [served EXCEPT ![s] = @ \cup {<<reader[s], curStripe[s]>>}]
        /\ pc[s] = "read" /\ pc' = [pc EXCEPT ![s] = "idle"]
    BY <1>13 DEF ReadStripe
  <2>3. \A k \in 0 .. curStripe[s] : <<reader[s], k>> \in served'[s]
    <3> TAKE k \in 0 .. curStripe[s]
    <3>1. k \in 0 .. curStripe[s] - 1 \/ k = curStripe[s]
      BY <2>1
    <3>2. served'[s] = served[s] \cup {<<reader[s], curStripe[s]>>}
      BY <2>2
    <3>3. k \in 0 .. curStripe[s] - 1 => <<reader[s], k>> \in served[s]
      BY <2>1, <2>2 DEF CursorInv
    <3> QED BY <3>1, <3>2, <3>3
  <2>4. curStripe'[s] = curStripe[s] + 1 /\ curStripe[s] + 1 - 1 = curStripe[s]
    BY <2>1, <2>2
  <2>5. \A t \in Scanner \ {s} : served'[t] = served[t] /\ curStripe'[t] = curStripe[t] /\ pc'[t] = pc[t]
    BY <2>2
  <2>. QED
    BY <2>1, <2>2, <2>3, <2>4, <2>5 DEF CursorInv
<1>14. ASSUME NEW s \in Scanner, ReadBeyond(s) PROVE CursorInv'
  BY <1>14 DEF ReadBeyond
<1>15. ASSUME NEW s \in Scanner, Destroy(s) PROVE CursorInv'
  BY <1>15 DEF Destroy
<1>16. ASSUME Reset PROVE CursorInv'
  BY <1>16 DEF Reset
<1>17. CASE UNCHANGED vars
  BY <1>17 DEF vars
<1>. QED
  BY <1>1, <1>2, <1>3, <1>4, <1>5, <1>6, <1>7, <1>8, <1>9,
     <1>10, <1>11, <1>12, <1>13, <1>14, <1>15, <1>16, <1>17 DEF Next, Step, NextFile, Ended

\* Steps that serve nothing and leave every open file open.
LEMMA OrderKept ==
  ASSUME OrderInv, served' = served,
         \A t \in Scanner : pc[t] \in {"idle", "read"} /\ reader[t] # Null =>
           pc'[t] \in {"idle", "read"} /\ reader'[t] = reader[t] /\ curStripe'[t] = curStripe[t]
  PROVE  OrderInv'
BY DEF OrderInv, Given, Null, Position

\* A file is left only when it has been read to its end.
LEMMA OrderStep ==
  ASSUME IInv, CursorInv, OrderInv, [Next]_vars
  PROVE  OrderInv'
<1>0. /\ pc \in [Scanner -> Location] /\ reader \in [Scanner -> Position \cup {Null}]
      /\ curStripe \in [Scanner -> Nat] /\ served \in [Scanner -> SUBSET (Position \X Nat)]
      /\ \A s \in Scanner : eof[s] => reader[s] = Null
  BY DEF IInv, LockInv, TypeOK, GivenInv
<1>1. ASSUME NEW s \in Scanner, Construct(s) PROVE OrderInv'
  BY <1>0, <1>1, OrderKept DEF Construct, Go, scanVars
<1>2. ASSUME NEW s \in Scanner, NeedFile(s) PROVE OrderInv'
  <2>1. /\ pc[s] = "idle" /\ pc' = [pc EXCEPT ![s] = "lock"]
        /\ UNCHANGED <<reader, curStripe, served>>
    BY <1>2 DEF NeedFile, Go, scanVars
  <2>2. reader[s] # Null => curStripe[s] = Stripes(reader[s])
    BY <1>2 DEF NeedFile, Exhausted
  <2>3. ASSUME NEW t \in Scanner, NEW f \in Position
        PROVE  \/ \A k \in Nat : <<f, k>> \notin served'[t]
               \/ Given(t, f, Stripes(f))'
               \/ pc'[t] \in {"idle", "read"} /\ reader'[t] = f /\ Given(t, f, curStripe[t])'
    <3>1. CASE t = s
      BY <2>1, <2>2, <3>1 DEF OrderInv, Given, Null, Position
    <3>2. CASE t # s
      BY <1>0, <2>1, <3>2 DEF OrderInv, Given
    <3>. QED
      BY <3>1, <3>2
  <2>. QED
    BY <2>1, <2>3 DEF OrderInv, Given
<1>3. ASSUME NEW s \in Scanner, HaveStripe(s) PROVE OrderInv'
  BY <1>0, <1>3, OrderKept DEF HaveStripe, Go, scanVars
<1>4. ASSUME NEW s \in Scanner, Lock(s) PROVE OrderInv'
  BY <1>0, <1>4, OrderKept DEF Lock, Go, scanVars
<1>5. ASSUME NEW s \in Scanner, ReaddirBuffered(s) PROVE OrderInv'
  BY <1>0, <1>5, OrderKept DEF ReaddirBuffered, Go, scanVars
<1>6. ASSUME NEW s \in Scanner, ReaddirRefill(s) PROVE OrderInv'
  BY <1>0, <1>6, OrderKept DEF ReaddirRefill, Go, scanVars
<1>7. ASSUME NEW s \in Scanner, ReaddirEnd(s) PROVE OrderInv'
  BY <1>0, <1>7, OrderKept DEF ReaddirEnd, Go, scanVars
<1>8. ASSUME NEW s \in Scanner, Accept(s) PROVE OrderInv'
  BY <1>0, <1>8, OrderKept DEF Accept, Go, scanVars
<1>9. ASSUME NEW s \in Scanner, Skip(s) PROVE OrderInv'
  BY <1>0, <1>9, OrderKept DEF Skip, Go, scanVars
<1>10. ASSUME NEW s \in Scanner, Unlock(s) PROVE OrderInv'
  BY <1>0, <1>10, OrderKept DEF Unlock, Go, scanVars
<1>11. ASSUME NEW s \in Scanner, Open(s) PROVE OrderInv'
  BY <1>0, <1>11, OrderKept DEF Open, Go, scanVars
<1>12. ASSUME NEW s \in Scanner, EndOfData(s) PROVE OrderInv'
  BY <1>0, <1>12, OrderKept DEF EndOfData, Go, scanVars
<1>13. ASSUME NEW s \in Scanner, ReadStripe(s) PROVE OrderInv'
  <2>1. /\ pc[s] = "read" /\ pc' = [pc EXCEPT ![s] = "idle"] /\ reader' = reader
        /\ served' = [served EXCEPT ![s] = @ \cup {<<reader[s], curStripe[s]>>}]
        /\ curStripe' = [curStripe EXCEPT ![s] = @ + 1]
        /\ curStripe[s] < Stripes(reader[s])
    BY <1>13 DEF ReadStripe, Go
  <2>2. curStripe[s] \in Nat /\ curStripe'[s] = curStripe[s] + 1
    BY <1>0, <2>1
  <2>3. /\ \A f \in Position : \A k \in Nat : f # reader[s] =>
             (<<f, k>> \in served'[s] <=> <<f, k>> \in served[s])
        /\ \A k \in Nat : <<reader[s], k>> \in served'[s] <=>
                            <<reader[s], k>> \in served[s] \/ k = curStripe[s]
    BY <1>0, <2>1
  <2>4. \A t \in Scanner \ {s} : served'[t] = served[t] /\ curStripe'[t] = curStripe[t] /\ pc'[t] = pc[t]
    BY <1>0, <2>1
  <2>. DEFINE Ord(t, f) == \/ \A k \in Nat : <<f, k>> \notin served'[t]
                           \/ Given(t, f, Stripes(f))'
                           \/ /\ pc'[t] \in {"idle", "read"} /\ reader[t] = f
                              /\ \A k \in Nat : <<f, k>> \in served'[t] <=> k < curStripe'[t]
  <2>5. ASSUME NEW f \in Position, f = reader[s] PROVE Ord(s, f)
    <3>0. pc'[s] = "idle"
      BY <1>0, <2>1
    <3>1. CASE \A k \in Nat : <<f, k>> \notin served[s]
      <4>1. \A k \in 0 .. curStripe[s] - 1 : <<f, k>> \in served[s]
        BY <2>1, <2>5 DEF CursorInv, Null, Position
      <4>2. curStripe[s] = 0
        <5>1. curStripe[s] # 0 => 0 \in 0 .. curStripe[s] - 1
          BY <2>2
        <5>. QED
          BY <3>1, <4>1, <5>1
      <4>. QED
        BY <2>2, <2>3, <2>5, <3>0, <3>1, <4>2
    <3>2. CASE Given(s, f, Stripes(f))
      BY <2>1, <2>2, <2>3, <2>5, <3>2 DEF Given
    <3>3. CASE Given(s, f, curStripe[s])
      <4>1. \A k \in Nat : k < curStripe'[s] <=> k < curStripe[s] \/ k = curStripe[s]
        BY <2>2
      <4>. QED
        BY <2>3, <2>5, <3>0, <3>3, <4>1 DEF Given
    <3>. QED
      BY <3>1, <3>2, <3>3 DEF OrderInv
  <2>6. ASSUME NEW f \in Position, f # reader[s] PROVE Ord(s, f)
    BY <2>3, <2>6 DEF OrderInv, Given
  <2>7. ASSUME NEW t \in Scanner \ {s}, NEW f \in Position PROVE Ord(t, f)
    BY <2>4, <2>7 DEF OrderInv, Given
  <2>. QED
    BY <2>1, <2>5, <2>6, <2>7 DEF OrderInv, Given
<1>14. ASSUME NEW s \in Scanner, ReadBeyond(s) PROVE OrderInv'
  BY <1>0, <1>14, OrderKept DEF ReadBeyond, scanVars
<1>15. ASSUME NEW s \in Scanner, Destroy(s) PROVE OrderInv'
  BY <1>0, <1>15, OrderKept DEF Destroy, Go, scanVars
<1>16. ASSUME Reset PROVE OrderInv'
  BY <1>16 DEF Reset, OrderInv
<1>17. CASE UNCHANGED vars
  BY <1>17, OrderKept DEF vars, scanVars
<1>. QED
  BY <1>1, <1>2, <1>3, <1>4, <1>5, <1>6, <1>7, <1>8, <1>9,
     <1>10, <1>11, <1>12, <1>13, <1>14, <1>15, <1>16, <1>17 DEF Next, Step, NextFile, Ended

\* Steps that hand nothing out, and take nothing from a scanner.
LEMMA TakenKept ==
  ASSUME TakenInv, HandedOut' = HandedOut, meant' = meant, strays \subseteq strays',
         \A t \in Scanner : served[t] \subseteq served'[t],
         \A t \in Scanner : pc[t] = "check" => pc'[t] = "check"
  PROVE  TakenInv'
<1>. SUFFICES ASSUME NEW f \in File, f <= HandedOut
              PROVE  \/ f = HandedOut /\ \E t \in Scanner : pc'[t] = "check"
                     \/ \E t \in Scanner : meant[t] = f
                     \/ \E t \in Scanner : \A k \in 0 .. Stripes(f) - 1 : <<f, k>> \in served'[t]
                     \/ f \in {d[1] : d \in strays'}
  BY DEF TakenInv
<1>1. CASE \E t \in Scanner : \A k \in 0 .. Stripes(f) - 1 : <<f, k>> \in served[t]
  BY <1>1
<1>2. CASE f \in {d[1] : d \in strays}
  BY <1>2
<1>. QED
  BY <1>1, <1>2 DEF TakenInv

\* The readdir that hands out the next entry: it is looked at, and the one before
\* it has been.
LEMMA TakenNext ==
  ASSUME TakenInv, NEW s \in Scanner, HandedOut \in Nat, HandedOut' = HandedOut + 1,
         pc'[s] = "check", \A t \in Scanner : pc[t] # "check",
         UNCHANGED <<meant, served, strays>>
  PROVE  TakenInv'
<1>. SUFFICES ASSUME NEW f \in File, f <= HandedOut + 1
              PROVE  \/ f = HandedOut + 1
                     \/ \E t \in Scanner : meant[t] = f
                     \/ \E t \in Scanner : \A k \in 0 .. Stripes(f) - 1 : <<f, k>> \in served[t]
                     \/ f \in {d[1] : d \in strays}
  BY DEF TakenInv
<1>1. f = HandedOut + 1 \/ f <= HandedOut
  BY ConstantFacts
<1>. QED
  BY <1>1 DEF TakenInv

\* A scanner gives up a file only when it has been read to its end, or when it
\* opened another in its place.
LEMMA TakenStep ==
  ASSUME IInv, CursorInv, TakenInv, [Next]_vars
  PROVE  TakenInv'
<1>0. /\ pc \in [Scanner -> Location] /\ meant \in [Scanner -> File \cup {Null}]
      /\ served \in [Scanner -> SUBSET (Position \X Nat)]
      /\ filled \in Nat /\ handed \in Nat /\ fetched \in Nat
      /\ \A s \in Scanner : pc[s] = "readdir" => \A t \in Scanner : pc[t] # "check"
  BY ConstantFacts DEF IInv, LockInv, TypeOK, NextFileExclusive, Locked
<1>1. ASSUME NEW s \in Scanner, Construct(s) PROVE TakenInv'
  BY <1>0, <1>1, TakenKept DEF Construct, Go, dirVars, ptrVars, HandedOut
<1>2. ASSUME NEW s \in Scanner, NeedFile(s) PROVE TakenInv'
  <2>1. /\ pc[s] = "idle" /\ pc' = [pc EXCEPT ![s] = "lock"]
        /\ meant' = [meant EXCEPT ![s] = Null]
        /\ HandedOut' = HandedOut /\ UNCHANGED <<served, strays>>
    BY <1>2 DEF NeedFile, Go, scanVars, dirVars, HandedOut
  <2>2. meant[s] # Null =>
          \/ \A k \in 0 .. Stripes(meant[s]) - 1 : <<meant[s], k>> \in served[s]
          \/ meant[s] \in {d[1] : d \in strays}
    <3>1. CASE reader[s] = meant[s]
      BY <1>2, <2>1, <3>1 DEF NeedFile, Exhausted, CursorInv
    <3>2. CASE <<meant[s], reader[s]>> \in strays
      BY <3>2
    <3>. QED
      BY <2>1, <3>1, <3>2 DEF IInv, GivenInv
  <2>. SUFFICES ASSUME NEW f \in File, f <= HandedOut
                PROVE  \/ f = HandedOut /\ \E t \in Scanner : pc'[t] = "check"
                       \/ \E t \in Scanner : meant'[t] = f
                       \/ \E t \in Scanner : \A k \in 0 .. Stripes(f) - 1 : <<f, k>> \in served[t]
                       \/ f \in {d[1] : d \in strays}
    BY <2>1 DEF TakenInv
  <2>3. f # Null
    BY ConstantFacts
  <2>4. \A t \in Scanner : t # s => meant'[t] = meant[t] /\ pc'[t] = pc[t]
    BY <1>0, <2>1
  <2>. QED
    BY <2>1, <2>2, <2>3, <2>4 DEF TakenInv
<1>3. ASSUME NEW s \in Scanner, HaveStripe(s) PROVE TakenInv'
  BY <1>0, <1>3, TakenKept DEF HaveStripe, Go, dirVars, ptrVars, scanVars, HandedOut
<1>4. ASSUME NEW s \in Scanner, Lock(s) PROVE TakenInv'
  BY <1>0, <1>4, TakenKept DEF Lock, Go, dirVars, ptrVars, scanVars, HandedOut
<1>5. ASSUME NEW s \in Scanner, ReaddirBuffered(s) PROVE TakenInv'
  <2>1. HandedOut \in Nat /\ HandedOut' = HandedOut + 1
    BY <1>0, <1>5 DEF ReaddirBuffered, HandedOut, IInv, BufferInv
  <2>2. pc[s] = "readdir" /\ pc'[s] = "check" /\ UNCHANGED <<meant, served, strays>>
    BY <1>0, <1>5 DEF ReaddirBuffered, Go, scanVars
  <2>. QED
    BY <1>0, <2>1, <2>2, TakenNext
<1>6. ASSUME NEW s \in Scanner, ReaddirRefill(s) PROVE TakenInv'
  <2>1. HandedOut \in Nat /\ HandedOut' = HandedOut + 1
    BY <1>6, RefillFacts DEF IInv
  <2>2. pc[s] = "readdir" /\ pc'[s] = "check" /\ UNCHANGED <<meant, served, strays>>
    BY <1>0, <1>6, RefillFacts DEF IInv
  <2>. QED
    BY <1>0, <2>1, <2>2, TakenNext
<1>7. ASSUME NEW s \in Scanner, ReaddirEnd(s) PROVE TakenInv'
  BY <1>0, <1>7, TakenKept DEF ReaddirEnd, Go, dirVars, scanVars, HandedOut
<1>8. ASSUME NEW s \in Scanner, Accept(s) PROVE TakenInv'
  <2>1. /\ pc[s] = "check" /\ meant[s] = Null /\ HandedOut' = HandedOut
        /\ meant' = [meant EXCEPT ![s] = HandedOut] /\ UNCHANGED <<served, strays>>
    BY <1>8 DEF Accept, Go, scanVars, dirVars, HandedOut, IInv, LockInv, SlotInv, GivenInv
  <2>2. meant'[s] = HandedOut /\ \A t \in Scanner \ {s} : meant'[t] = meant[t]
    BY <1>0, <2>1
  <2>3. \A f \in File : \A t \in Scanner : meant[t] = f => meant'[t] = f
    BY <2>1, <2>2, ConstantFacts
  <2>. QED
    BY <2>1, <2>2, <2>3 DEF TakenInv
<1>9. ASSUME NEW s \in Scanner, Skip(s) PROVE TakenInv'
  <2>1. /\ pc[s] = "check" /\ HandedOut' = HandedOut
        /\ UNCHANGED <<meant, served, strays>>
    BY <1>9 DEF Skip, Go, scanVars, dirVars, ptrVars, HandedOut
  <2>2. HandedOut \notin File
    BY <1>9, <2>1 DEF Skip, File, IInv, GivenInv
  <2>. QED
    BY <2>1, <2>2 DEF TakenInv
<1>10. ASSUME NEW s \in Scanner, Unlock(s) PROVE TakenInv'
  BY <1>0, <1>10, TakenKept DEF Unlock, Go, dirVars, ptrVars, scanVars, HandedOut
<1>11. ASSUME NEW s \in Scanner, Open(s) PROVE TakenInv'
  BY <1>0, <1>11, TakenKept DEF Open, Go, dirVars, ptrVars, HandedOut
<1>12. ASSUME NEW s \in Scanner, EndOfData(s) PROVE TakenInv'
  BY <1>0, <1>12, TakenKept DEF EndOfData, Go, dirVars, ptrVars, HandedOut
<1>13. ASSUME NEW s \in Scanner, ReadStripe(s) PROVE TakenInv'
  BY <1>0, <1>13, TakenKept DEF ReadStripe, Go, dirVars, ptrVars, HandedOut
<1>14. ASSUME NEW s \in Scanner, ReadBeyond(s) PROVE TakenInv'
  BY <1>0, <1>14, TakenKept DEF ReadBeyond, dirVars, ptrVars, scanVars, HandedOut
<1>15. ASSUME NEW s \in Scanner, Destroy(s) PROVE TakenInv'
  BY <1>0, <1>15, TakenKept DEF Destroy, Go, dirVars, ptrVars, scanVars, HandedOut
<1>16. ASSUME Reset PROVE TakenInv'
  <2>1. HandedOut' = 0
    BY <1>16 DEF Reset, HandedOut
  <2>2. \A f \in File : ~(f <= 0)
    BY ConstantFacts DEF Position
  <2>. QED
    BY <2>1, <2>2 DEF TakenInv
<1>17. CASE UNCHANGED vars
  BY <1>17, TakenKept DEF vars, dirVars, ptrVars, scanVars, HandedOut
<1>. QED
  BY <1>1, <1>2, <1>3, <1>4, <1>5, <1>6, <1>7, <1>8, <1>9,
     <1>10, <1>11, <1>12, <1>13, <1>14, <1>15, <1>16, <1>17 DEF Next, Step, NextFile, Ended

-----------------------------------------------------------------------------
\* The invariant holds in every reachable state.
THEOREM FullInvariance == Spec => []FullInv
<1>1. Init => FullInv
  <2>1. Init => EndInv /\ CursorInv
    BY DEF Init, EndInv, CursorInv
  <2>2. Init => OrderInv
    BY DEF Init, OrderInv
  <2>3. Init => TakenInv
    BY ConstantFacts DEF Init, TakenInv, HandedOut, Position
  <2>. QED
    BY InitIInv, <2>1, <2>2, <2>3 DEF FullInv
<1>2. FullInv /\ [Next]_vars => FullInv'
  BY InvariantStep, EndStep, CursorStep, OrderStep, TakenStep DEF FullInv
<1>. QED
  BY <1>1, <1>2, PTL DEF Spec

\* What a scanner holds is a data file of the table, the one Rep::nextFile chose
\* for it, or an entry a refill has put in its place.
THEOREM DataFilesOnly == Spec => []OnlyDataFiles
BY Disjoint, PTL

\* No interleaving of nextFile loses a file: a batch marked eof means that each
\* file is held, has been served to its last stripe, or had its entry overwritten
\* before the scanner it was meant for had opened it.
THEOREM NothingLost == Spec => []EofMeansTaken
<1>1. FullInv => EofMeansTaken
  <2>. SUFFICES ASSUME FullInv, NEW s \in Scanner, eof[s], NEW f \in File
                PROVE  \/ \E t \in Scanner : Held(t) = f
                       \/ {f} \X (0 .. Stripes(f) - 1) \subseteq AllServed
                       \/ f \in Lost
    BY DEF EofMeansTaken
  <2>1. handed = filled /\ fetched = Len(Dir) /\ \A t \in Scanner : pc[t] # "check"
    BY DEF FullInv, EndInv
  <2>2. f <= HandedOut
    <3>1. filled \in Nat /\ fetched \in Nat
      BY ConstantFacts DEF FullInv, IInv, LockInv, TypeOK
    <3>. QED
      BY <2>1, <3>1, ConstantFacts DEF HandedOut, Position
  <2>3. ASSUME NEW t \in Scanner, meant[t] = f
        PROVE  Held(t) = f \/ f \in Lost
    BY <2>3, HeldFacts DEF FullInv, Lost
  <2>4. CASE \E t \in Scanner : \A k \in 0 .. Stripes(f) - 1 : <<f, k>> \in served[t]
    BY <2>4 DEF AllServed
  <2>5. f \in {d[1] : d \in strays} => f \in Lost
    BY DEF Lost
  <2>. QED
    BY <2>1, <2>2, <2>3, <2>4, <2>5 DEF FullInv, TakenInv
<1>. QED
  BY <1>1, FullInvariance, PTL

\* The numbers of the stripes of a file that a scanner has been given.
LEMMA SetOfStripes ==
  ASSUME TypeOK, NEW s \in Scanner, NEW f \in Position, NEW n \in Nat,
         \A k \in Nat : <<f, k>> \in served[s] <=> k < n
  PROVE  LET ks == {d[2] : d \in {e \in served[s] : e[1] = f}}
         IN ks = 0 .. n - 1 /\ Cardinality(ks) = n
<1>. DEFINE ks == {d[2] : d \in {e \in served[s] : e[1] = f}}
<1>1. served[s] \subseteq Position \X Nat
  BY DEF TypeOK
<1>2. \A k : k \in ks <=> k \in Nat /\ <<f, k>> \in served[s]
  BY <1>1
<1>3. \A k : k \in 0 .. n - 1 <=> k \in Nat /\ k < n
  OBVIOUS
<1>4. ks = 0 .. n - 1
  BY <1>2, <1>3
<1>. HIDE DEF ks
<1>5. Cardinality(0 .. n - 1) = n
  BY FS_Interval
<1>. QED
  BY <1>4, <1>5 DEF ks

\* The stripes of a file come to a scanner from the first one on without a gap
\* (ORCScanner::nextBatch), up to the cursor while the file is open.
THEOREM InOrder == Spec => []ServedInOrder
<1>1. FullInv => ServedInOrder
  <2>. SUFFICES ASSUME FullInv, NEW s \in Scanner, NEW f \in {d[1] : d \in served[s]}
                PROVE  LET ks == {d[2] : d \in {e \in served[s] : e[1] = f}}
                       IN /\ ks = 0 .. Cardinality(ks) - 1
                          /\ \/ Held(s) = f /\ Cardinality(ks) = curStripe[s]
                             \/ Cardinality(ks) = Stripes(f)
    BY DEF ServedInOrder
  <2>. DEFINE ks == {d[2] : d \in {e \in served[s] : e[1] = f}}
  <2>1. TypeOK /\ curStripe[s] \in Nat /\ served[s] \subseteq Position \X Nat
    BY DEF FullInv, IInv, LockInv, TypeOK
  <2>2. PICK d \in served[s] : d[1] = f
    OBVIOUS
  <2>3. f \in Position /\ d[2] \in Nat /\ <<f, d[2]>> \in served[s]
    BY <2>1, <2>2
  <2>4. Stripes(f) \in Nat
    BY <2>3, StripesType
  <2>5. CASE pc[s] \in {"idle", "read"} /\ reader[s] = f /\ Given(s, f, curStripe[s])
    <3>1. \A k \in Nat : <<f, k>> \in served[s] <=> k < curStripe[s]
      BY <2>5 DEF Given
    <3>2. ks = 0 .. curStripe[s] - 1 /\ Cardinality(ks) = curStripe[s]
      BY <2>1, <2>3, <3>1, SetOfStripes
    <3>3. Held(s) = f
      BY <2>5 DEF Held
    <3>. QED
      BY <3>2, <3>3
  <2>6. CASE Given(s, f, Stripes(f))
    <3>1. \A k \in Nat : <<f, k>> \in served[s] <=> k < Stripes(f)
      BY <2>6 DEF Given
    <3>2. ks = 0 .. Stripes(f) - 1 /\ Cardinality(ks) = Stripes(f)
      BY <2>1, <2>3, <2>4, <3>1, SetOfStripes
    <3>. QED
      BY <3>2
  <2>7. \/ \A k \in Nat : <<f, k>> \notin served[s]
        \/ Given(s, f, Stripes(f))
        \/ pc[s] \in {"idle", "read"} /\ reader[s] = f /\ Given(s, f, curStripe[s])
    BY <2>3, Zenon DEF FullInv, OrderInv
  <2>. HIDE DEF ks
  <2>. QED
    BY <2>3, <2>5, <2>6, <2>7 DEF ks
<1>. QED
  BY <1>1, FullInvariance, PTL
-----------------------------------------------------------------------------
(***************************************************************************)
(* The access out of range.                                                *)
(***************************************************************************)
\* A scanner comes to the reading of a stripe with one left, or with a file it
\* has just opened.
RangeInv ==
  /\ \A s \in Scanner : pc[s] \in {"idle", "read"} /\ reader[s] # Null =>
       curStripe[s] <= Stripes(reader[s])
  /\ \A s \in Scanner : pc[s] = "read" =>
       curStripe[s] = 0 \/ curStripe[s] < Stripes(reader[s])
  /\ crashed => \E s \in Scanner : pc[s] = "read" /\ Stripes(reader[s]) = 0

\* The cursor never passes the end of its file.
LEMMA RangeStep ==
  ASSUME LockInv, RangeInv, [Next]_vars
  PROVE  RangeInv'
<1>. USE ConstantFacts DEF LockInv, TypeOK, SlotInv, RangeInv, Go, Location,
         dirVars, ptrVars, scanVars, Null, Position
<1>1. ASSUME NEW s \in Scanner, ~crashed, Construct(s) PROVE RangeInv'
  BY <1>1 DEF Construct
<1>2. ASSUME NEW s \in Scanner, ~crashed, NeedFile(s) PROVE RangeInv'
  BY <1>2 DEF NeedFile, Exhausted
<1>3. ASSUME NEW s \in Scanner, ~crashed, HaveStripe(s) PROVE RangeInv'
  <2>1. reader[s] \in Position /\ curStripe[s] \in Nat /\ Stripes(reader[s]) \in Nat
    BY <1>3, StripesType DEF HaveStripe, Exhausted
  <2>. QED
    BY <1>3, <2>1 DEF HaveStripe, Exhausted
<1>4. ASSUME NEW s \in Scanner, ~crashed, Lock(s) PROVE RangeInv'
  BY <1>4 DEF Lock
<1>5. ASSUME NEW s \in Scanner, ~crashed, ReaddirBuffered(s) PROVE RangeInv'
  BY <1>5 DEF ReaddirBuffered
<1>6. ASSUME NEW s \in Scanner, ~crashed, ReaddirRefill(s) PROVE RangeInv'
  <2>1. /\ pc[s] = "readdir" /\ pc' = [pc EXCEPT ![s] = "check"]
        /\ reader' = reader /\ curStripe' = curStripe /\ crashed' = crashed
    BY <1>6, FillFacts
  <2>2. \A t \in Scanner : pc'[t] \in {"idle", "read"} => pc'[t] = pc[t]
    BY <2>1
  <2>. QED
    BY <1>6, <2>1, <2>2
<1>7. ASSUME NEW s \in Scanner, ~crashed, ReaddirEnd(s) PROVE RangeInv'
  BY <1>7 DEF ReaddirEnd
<1>8. ASSUME NEW s \in Scanner, ~crashed, Accept(s) PROVE RangeInv'
  BY <1>8 DEF Accept
<1>9. ASSUME NEW s \in Scanner, ~crashed, Skip(s) PROVE RangeInv'
  BY <1>9 DEF Skip
<1>10. ASSUME NEW s \in Scanner, ~crashed, Unlock(s) PROVE RangeInv'
  BY <1>10 DEF Unlock
<1>11. ASSUME NEW s \in Scanner, ~crashed, Open(s) PROVE RangeInv'
  <2>1. reader'[s] \in Position /\ curStripe'[s] = 0
    BY <1>11 DEF Open
  <2>2. Stripes(reader'[s]) \in Nat
    BY <2>1, StripesType
  <2>. QED
    BY <1>11, <2>1, <2>2 DEF Open
<1>12. ASSUME NEW s \in Scanner, ~crashed, EndOfData(s) PROVE RangeInv'
  BY <1>12 DEF EndOfData
<1>13. ASSUME NEW s \in Scanner, ~crashed, ReadStripe(s) PROVE RangeInv'
  <2>1. reader[s] \in Position /\ curStripe[s] \in Nat /\ Stripes(reader[s]) \in Nat
    BY <1>13, StripesType DEF ReadStripe
  <2>. QED
    BY <1>13, <2>1 DEF ReadStripe
<1>14. ASSUME NEW s \in Scanner, ~crashed, ReadBeyond(s) PROVE RangeInv'
  <2>1. reader[s] \in Position /\ Stripes(reader[s]) \in Nat /\ pc[s] = "read"
    BY <1>14, StripesType DEF ReadBeyond
  <2>2. Stripes(reader[s]) = 0
    BY <1>14, <2>1 DEF ReadBeyond
  <2>. QED
    BY <1>14, <2>1, <2>2 DEF ReadBeyond
<1>15. ASSUME NEW s \in Scanner, ~crashed, Destroy(s) PROVE RangeInv'
  BY <1>15 DEF Destroy
<1>16. ASSUME Reset PROVE RangeInv'
  BY <1>16 DEF Reset
<1>17. CASE UNCHANGED vars
  BY <1>17 DEF vars
<1>. QED
  BY <1>1, <1>2, <1>3, <1>4, <1>5, <1>6, <1>7, <1>8, <1>9, <1>10, <1>11, <1>12, <1>13, <1>14,
     <1>15, <1>16, <1>17 DEF Next, Step, NextFile, Ended

\* The scan leaves the footer's list of stripes (Reader::getNumofRows) in a file
\* without a stripe, chosen or opened in place of a chosen one, and nowhere else.
THEOREM OutOfRangeOnlyThere == Spec => []CrashOnlyOnEmptyFile
<1>1. Init => RangeInv
  BY DEF Init, RangeInv
<1>2. IInv /\ RangeInv => CrashOnlyOnEmptyFile
  <2>. SUFFICES ASSUME IInv, NEW s \in Scanner, pc[s] = "read"
                PROVE  reader[s] \in File \cup Intruders
    BY DEF RangeInv, CrashOnlyOnEmptyFile
  <2>1. reader[s] # Null /\ meant[s] \in File \cup {Null}
    BY DEF IInv, LockInv, SlotInv, TypeOK
  <2>2. reader[s] = meant[s] \/ <<meant[s], reader[s]>> \in strays
    BY DEF IInv, GivenInv
  <2>3. <<meant[s], reader[s]>> \in strays => reader[s] \in Intruders
    BY StrayFacts, Zenon
  <2>. QED
    BY <2>1, <2>2, <2>3
<1>. QED
  BY <1>1, <1>2, RangeStep, LockInvariance, Invariance, PTL DEF Spec
-----------------------------------------------------------------------------
(***************************************************************************)
(* TableScan implements StripeDispenser, when no entry can be overwritten   *)
(* and data files hold a stripe.                                           *)
(***************************************************************************)
NoEmptyFile == \A f \in File : Stripes(f) > 0

\* The state of the dispenser, field by field.
available == {f \in File : f > HandedOut}
work == [s \in Scanner |-> Taken(s)]
nextStripe == [s \in Scanner |->
                 IF pc[s] \in {"idle", "read"} /\ Taken(s) # Null THEN curStripe[s] ELSE 0]
done == {s \in Scanner : eof[s]}

\* The file taken: the one being looked at, the one chosen, the one open.
TakenAs(s) ==
  IF pc[s] = "check" THEN IF HandedOut \in File THEN HandedOut ELSE Null
  ELSE IF pc[s] \in {"unlock", "open"} THEN meant[s]
  ELSE IF pc[s] \in {"idle", "read"} /\ ~Exhausted(s) THEN reader[s] ELSE Null

\* As long as the dirents are good, they tell what is taken.
LEMMA TakenIs == IInv /\ Safe => \A s \in Scanner : Taken(s) = TakenAs(s)
<1>. SUFFICES ASSUME IInv, Safe, NEW s \in Scanner PROVE Taken(s) = TakenAs(s)
  OBVIOUS
<1>1. CASE pc[s] = "check"
  BY <1>1 DEF IInv, LockInv, SlotInv, GivenInv, Taken, TakenAs
<1>2. CASE pc[s] \in {"unlock", "open"}
  <2>1. meant[s] \in File \cup {Null} /\ (ptr[s] = Null <=> meant[s] = Null)
    BY <1>2 DEF IInv, LockInv, TypeOK, SlotInv
  <2>. QED
    BY <1>2, <2>1, SafeFacts DEF Taken, TakenAs
<1>3. CASE pc[s] \notin {"check", "unlock", "open"}
  BY <1>3 DEF Taken, TakenAs
<1>. QED
  BY <1>1, <1>2, <1>3

\* So they do after a step.
LEMMA NextTaken ==
  ASSUME IInv', Safe
  PROVE  \A s \in Scanner : Taken(s)' = TakenAs(s)'
<1>1. (IInv /\ Safe => \A s \in Scanner : Taken(s) = TakenAs(s))'
  BY TakenIs, PTL
<1>. QED
  BY <1>1 DEF Safe, FitsBuffer, Several

\* A step of one scanner that changes neither its file nor its cursor, as the
\* dispenser sees them, is invisible to it.
LEMMA Invisible ==
  ASSUME IInv, IInv', Safe, NEW s \in Scanner,
         HandedOut' = HandedOut, served' = served, eof' = eof,
         \A t \in Scanner \ {s} : /\ pc'[t] = pc[t] /\ meant'[t] = meant[t]
                                  /\ reader'[t] = reader[t] /\ curStripe'[t] = curStripe[t],
         TakenAs(s)' = TakenAs(s), nextStripe'[s] = nextStripe[s]
  PROVE  UNCHANGED Dispenser!vars
<1>1. \A t \in Scanner : Taken(t)' = Taken(t)
  BY TakenIs, NextTaken DEF TakenAs, Exhausted
<1>2. \A t \in Scanner \ {s} : nextStripe'[t] = nextStripe[t]
  BY <1>1 DEF nextStripe
<1>3. work' = work /\ nextStripe' = nextStripe
  BY <1>1, <1>2 DEF work, nextStripe
<1>4. available' = available
  BY DEF available
<1>5. done' = done
  BY DEF done
<1>. QED
  BY <1>3, <1>4, <1>5 DEF Dispenser!vars, work, nextStripe, available, done

\* What is known of the state before and after a step of the refinement.
Known ==
  /\ pc \in [Scanner -> Location] /\ reader \in [Scanner -> Position \cup {Null}]
  /\ meant \in [Scanner -> File \cup {Null}] /\ HandedOut \in Nat
  /\ curStripe \in [Scanner -> Nat] /\ served \in [Scanner -> SUBSET (Position \X Nat)]
  /\ eof \in [Scanner -> BOOLEAN]
  /\ \A s \in Scanner : eof[s] => reader[s] = Null /\ pc[s] \in {"idle", "gone"}
  /\ Null \notin File /\ File \subseteq Position /\ Position \subseteq Nat

\* All of it follows from the invariant.
LEMMA KnownHolds == FullInv => Known
<1>. SUFFICES ASSUME FullInv PROVE Known
  OBVIOUS
<1>1. HandedOut \in Nat
  BY ConstantFacts DEF FullInv, IInv, LockInv, TypeOK, BufferInv, HandedOut
<1>. QED
  BY <1>1, ConstantFacts DEF FullInv, IInv, LockInv, TypeOK, GivenInv, Known

\* The readdir that returns a data file takes it; one that returns something
\* else is invisible.
LEMMA ReaddirTakes ==
  ASSUME FullInv, IInv', Safe, NEW s \in Scanner, ~eof[s],
         pc[s] = "readdir", pc' = [pc EXCEPT ![s] = "check"],
         HandedOut' = HandedOut + 1,
         \A t \in Scanner \ {s} : TakenAs(t)' = TakenAs(t),
         UNCHANGED <<reader, curStripe, eof, served>>
  PROVE  [Dispenser!Next]_(Dispenser!vars)
<1>0. Known /\ IInv
  BY KnownHolds DEF FullInv
<1>f. PICK f \in Nat : f = HandedOut + 1
  BY <1>0 DEF Known
<1>1. TakenAs(s) = Null /\ TakenAs(s)' = IF f \in File THEN f ELSE Null
  BY <1>0, <1>f DEF Known, TakenAs
<1>2. \A t \in Scanner : Taken(t) = TakenAs(t) /\ Taken(t)' = TakenAs(t)'
  BY <1>0, TakenIs, NextTaken
<1>3. HandedOut' = f
  BY <1>f
<1>4. CASE f \in File
  <2>1. work' = [work EXCEPT ![s] = f] /\ work[s] = Null
    BY <1>1, <1>2, <1>4 DEF work
  <2>2. available' = available \ {f} /\ f \in available
    <3>1. f > HandedOut /\ \A g \in File : g > f <=> g > HandedOut /\ g # f
      BY <1>0, <1>f DEF Known
    <3>. QED
      BY <1>3, <1>4, <3>1 DEF available
  <2>3. nextStripe' = [nextStripe EXCEPT ![s] = 0]
    BY <1>0, <1>2 DEF nextStripe, Known
  <2>4. s \notin done /\ done' = done
    BY DEF done
  <2>5. Dispenser!Take(s, f)
    BY <2>1, <2>2, <2>3, <2>4 DEF Dispenser!Take, work, available, nextStripe, done
  <2>6. Dispenser!Next
    BY <1>4, <2>5 DEF Dispenser!Next
  <2>. QED
    BY <2>6
<1>5. CASE f \notin File
  <2>1. work' = work
    BY <1>1, <1>2, <1>5 DEF work
  <2>2. available' = available
    <3>1. \A g \in File : g > f <=> g > HandedOut
      BY <1>0, <1>5, <1>f DEF Known
    <3>. QED
      BY <1>3, <3>1 DEF available
  <2>3. nextStripe' = nextStripe
    BY <1>0, <1>2, <1>1, <1>5 DEF nextStripe, Known
  <2>4. done' = done
    BY DEF done
  <2>. QED
    BY <2>1, <2>2, <2>3, <2>4 DEF Dispenser!vars, work, available, nextStripe, done
<1>. QED
  BY <1>4, <1>5

\* Reading a stripe serves it.
LEMMA ReadServes ==
  ASSUME FullInv, IInv', Safe, NoEmptyFile, NEW s \in Scanner, ReadStripe(s)
  PROVE  Dispenser!Serve(s)
<1>0. Known /\ IInv
  BY KnownHolds DEF FullInv
<1>1. /\ pc[s] = "read" /\ pc' = [pc EXCEPT ![s] = "idle"] /\ reader' = reader
      /\ meant' = meant /\ HandedOut' = HandedOut /\ curStripe[s] < Stripes(reader[s])
      /\ eof' = [eof EXCEPT ![s] = FALSE]
      /\ served' = [served EXCEPT ![s] = @ \cup {<<reader[s], curStripe[s]>>}]
      /\ curStripe' = [curStripe EXCEPT ![s] = @ + 1]
  BY DEF ReadStripe, Go, dirVars, ptrVars, HandedOut
<1>2. reader[s] \in File /\ reader[s] # Null
  <2>1. reader[s] = meant[s] /\ reader[s] # Null
    BY <1>0, <1>1, SafeFacts DEF IInv, LockInv, SlotInv
  <2>. QED
    BY <1>0, <2>1 DEF Known
<1>3. Stripes(reader[s]) \in Nat /\ curStripe[s] \in Nat
  BY <1>0, <1>2, StripesType DEF Known
<1>4. \A t \in Scanner : Taken(t) = TakenAs(t) /\ Taken(t)' = TakenAs(t)'
  BY <1>0, TakenIs, NextTaken
<1>5. /\ TakenAs(s) = reader[s]
      /\ TakenAs(s)' = IF curStripe[s] + 1 = Stripes(reader[s]) THEN Null ELSE reader[s]
  BY <1>0, <1>1, <1>2, <1>3 DEF TakenAs, Exhausted, Known
<1>6. \A t \in Scanner \ {s} : /\ TakenAs(t)' = TakenAs(t) /\ pc'[t] = pc[t]
                               /\ curStripe'[t] = curStripe[t]
  BY <1>0, <1>1 DEF TakenAs, Exhausted, Known
<1>7. work[s] = reader[s] /\ nextStripe[s] = curStripe[s]
  BY <1>1, <1>2, <1>4, <1>5 DEF work, nextStripe
<1>8. available' = available
  BY <1>1 DEF available
<1>9. done' = done
  BY <1>0, <1>1 DEF done, Known
<1>10. CASE curStripe[s] + 1 = Stripes(reader[s])
  <2>1. work' = [work EXCEPT ![s] = Null]
    BY <1>4, <1>5, <1>6, <1>10 DEF work
  <2>2. nextStripe' = [nextStripe EXCEPT ![s] = 0]
    BY <1>4, <1>5, <1>6, <1>10 DEF nextStripe
  <2>. QED
    BY <1>1, <1>2, <1>7, <1>8, <1>9, <1>10, <2>1, <2>2
       DEF Dispenser!Serve, work, nextStripe, available, done
<1>11. CASE curStripe[s] + 1 # Stripes(reader[s])
  <2>1. work' = work
    BY <1>4, <1>5, <1>6, <1>11 DEF work
  <2>2. pc'[s] = "idle" /\ curStripe'[s] = curStripe[s] + 1
    BY <1>0, <1>1 DEF Known
  <2>3. nextStripe' = [nextStripe EXCEPT ![s] = @ + 1]
    <3>1. Taken(s)' = reader[s] /\ Taken(s) = reader[s]
      BY <1>4, <1>5, <1>11
    <3>2. \A t \in Scanner \ {s} : Taken(t)' = Taken(t)
      BY <1>4, <1>6
    <3>. DEFINE cur(t) == IF pc[t] \in {"idle", "read"} /\ Taken(t) # Null THEN curStripe[t] ELSE 0
    <3>3. cur(s)' = curStripe[s] + 1 /\ cur(s) = curStripe[s]
      BY <1>1, <1>2, <2>2, <3>1
    <3>4. \A t \in Scanner \ {s} : cur(t)' = cur(t)
      BY <1>6, <3>2
    <3>5. nextStripe = [t \in Scanner |-> cur(t)] /\ nextStripe' = [t \in Scanner |-> cur(t)']
      BY DEF nextStripe
    <3>. HIDE DEF cur
    <3>. QED
      BY <3>3, <3>4, <3>5
  <2>. QED
    BY <1>1, <1>2, <1>7, <1>8, <1>9, <1>11, <2>1, <2>3
       DEF Dispenser!Serve, work, nextStripe, available, done
<1>. QED
  BY <1>10, <1>11

\* A batch marked eof ends the work of its scanner, when no file is left.
LEMMA EofFinishes ==
  ASSUME FullInv, IInv', Safe, NEW s \in Scanner, EndOfData(s)
  PROVE  Dispenser!Finish(s)
<1>0. Known /\ IInv
  BY KnownHolds DEF FullInv
<1>1. /\ pc[s] = "open" /\ ptr[s] = Null /\ pc' = [pc EXCEPT ![s] = "idle"]
      /\ reader' = [reader EXCEPT ![s] = Null] /\ eof' = [eof EXCEPT ![s] = TRUE]
      /\ HandedOut' = HandedOut /\ meant' = meant /\ meant[s] = Null
      /\ UNCHANGED <<curStripe, served>>
  BY <1>0 DEF EndOfData, Go, dirVars, ptrVars, HandedOut, IInv, LockInv, SlotInv
<1>2. \A t \in Scanner : Taken(t) = TakenAs(t) /\ Taken(t)' = TakenAs(t)'
  BY <1>0, TakenIs, NextTaken
<1>3. TakenAs(s) = Null /\ TakenAs(s)' = Null
  BY <1>0, <1>1 DEF TakenAs, Exhausted, Known
<1>4. \A t \in Scanner \ {s} : TakenAs(t)' = TakenAs(t) /\ pc'[t] = pc[t]
  BY <1>0, <1>1 DEF TakenAs, Exhausted, Known
<1>5. work' = work /\ nextStripe' = nextStripe /\ work[s] = Null
  BY <1>1, <1>2, <1>3, <1>4 DEF work, nextStripe
<1>6. available = {} /\ available' = available
  <2>1. handed = filled /\ fetched = Len(Dir)
    BY <1>1 DEF FullInv, EndInv
  <2>2. HandedOut = Len(Dir)
    BY <2>1, ConstantFacts DEF FullInv, IInv, LockInv, TypeOK, HandedOut
  <2>3. \A f \in File : ~(f > HandedOut)
    BY <2>2, ConstantFacts DEF Position
  <2>. QED
    BY <1>1, <2>3 DEF available
<1>7. s \notin done /\ done' = done \cup {s}
  BY <1>0, <1>1 DEF done, Known
<1>. QED
  BY <1>1, <1>5, <1>6, <1>7 DEF Dispenser!Finish, work, nextStripe, available, done

\* Rewinding the directory puts all files back.
LEMMA ResetRewinds ==
  ASSUME FullInv, IInv', Reset
  PROVE  Dispenser!Rewind
<1>0. Known /\ IInv
  BY KnownHolds DEF FullInv
<1>1. /\ \A s \in Scanner : pc[s] \in {"new", "gone"} /\ pc'[s] = "new" /\ eof'[s] = FALSE
      /\ HandedOut' = 0 /\ served' = [s \in Scanner |-> {}]
  BY DEF Reset, HandedOut
<1>2. \A t \in Scanner : Taken(t) = Null /\ Taken(t)' = Null
  BY <1>1 DEF Taken
<1>3. work' = work /\ nextStripe' = nextStripe /\ \A s \in Scanner : work[s] = Null
  BY <1>2 DEF work, nextStripe
<1>4. available' = File
  BY <1>0, <1>1, ConstantFacts DEF available, Known, Position
<1>5. done' = {}
  BY <1>1 DEF done
<1>. QED
  BY <1>1, <1>3, <1>4, <1>5 DEF Dispenser!Rewind, work, nextStripe, available, done

\* Every step is one of the dispenser or invisible to it.
LEMMA Simulation ==
  ASSUME FullInv, IInv', Safe, NoEmptyFile, [Next]_vars
  PROVE  [Dispenser!Next]_(Dispenser!vars)
<1>0. Known /\ IInv
  BY KnownHolds DEF FullInv
<1>. USE DEF scanVars, dirVars, ptrVars, HandedOut
<1>00. \A t \in Scanner : Taken(t) = TakenAs(t) /\ Taken(t)' = TakenAs(t)'
  BY <1>0, TakenIs, NextTaken
<1>1. ASSUME NEW s \in Scanner, Construct(s) PROVE UNCHANGED Dispenser!vars
  <2>1. TakenAs(s)' = TakenAs(s)
    BY <1>0, <1>1 DEF Construct, Go, TakenAs, Exhausted, Known
  <2>2. nextStripe'[s] = nextStripe[s]
    BY <1>0, <1>00, <1>1, <2>1 DEF Construct, Go, nextStripe, Known
  <2>3. eof' = eof
    BY <1>0, <1>1 DEF Construct, Go, Known
  <2>. QED
    BY <1>0, <1>1, <2>1, <2>2, <2>3, Invisible DEF Construct, Go, Known
<1>2. ASSUME NEW s \in Scanner, NeedFile(s) PROVE UNCHANGED Dispenser!vars
  <2>1. TakenAs(s)' = TakenAs(s)
    BY <1>0, <1>2 DEF NeedFile, Go, TakenAs, Exhausted, Known
  <2>2. nextStripe'[s] = nextStripe[s]
    <3>1. TakenAs(s) = Null /\ pc'[s] \notin {"idle", "read"}
      BY <1>0, <1>2 DEF NeedFile, Go, TakenAs, Exhausted, Known
    <3>. QED
      BY <1>00, <3>1 DEF nextStripe
  <2>3. eof' = eof
    BY <1>0, <1>2 DEF NeedFile, Go, Exhausted, Known
  <2>. QED
    BY <1>0, <1>2, <2>1, <2>2, <2>3, Invisible DEF NeedFile, Go, Exhausted, Known
<1>3. ASSUME NEW s \in Scanner, HaveStripe(s) PROVE UNCHANGED Dispenser!vars
  <2>1. TakenAs(s)' = TakenAs(s)
    BY <1>0, <1>3 DEF HaveStripe, Go, TakenAs, Exhausted, Known
  <2>2. nextStripe'[s] = nextStripe[s]
    BY <1>0, <1>00, <1>3, <2>1 DEF HaveStripe, Go, Exhausted, nextStripe, Known
  <2>3. eof' = eof
    BY <1>0, <1>3 DEF HaveStripe, Go, Exhausted, Known
  <2>. QED
    BY <1>0, <1>3, <2>1, <2>2, <2>3, Invisible DEF HaveStripe, Go, Exhausted, Known
<1>4. ASSUME NEW s \in Scanner, Lock(s) PROVE UNCHANGED Dispenser!vars
  <2>1. TakenAs(s)' = TakenAs(s)
    BY <1>0, <1>4 DEF Lock, Go, TakenAs, Exhausted, Known
  <2>2. nextStripe'[s] = nextStripe[s]
    BY <1>0, <1>00, <1>4, <2>1 DEF Lock, Go, nextStripe, Known
  <2>3. eof' = eof
    BY <1>0, <1>4 DEF Lock, Go, Known
  <2>. QED
    BY <1>0, <1>4, <2>1, <2>2, <2>3, Invisible DEF Lock, Go, Known
<1>5. ASSUME NEW s \in Scanner, ReaddirEnd(s) PROVE UNCHANGED Dispenser!vars
  <2>1. TakenAs(s)' = TakenAs(s)
    <3>1. pc[s] = "readdir" /\ meant[s] = Null
      BY <1>0, <1>5 DEF ReaddirEnd, Go, IInv, LockInv, SlotInv
    <3>. QED
      BY <1>0, <1>5, <3>1 DEF ReaddirEnd, Go, TakenAs, Known
  <2>2. nextStripe'[s] = nextStripe[s]
    BY <1>0, <1>00, <1>5, <2>1 DEF ReaddirEnd, Go, nextStripe, Known
  <2>3. eof' = eof
    BY <1>0, <1>5 DEF ReaddirEnd, Go, Known
  <2>. QED
    BY <1>0, <1>5, <2>1, <2>2, <2>3, Invisible DEF ReaddirEnd, Go, Known
<1>6. ASSUME NEW s \in Scanner, Accept(s) PROVE UNCHANGED Dispenser!vars
  <2>1. /\ pc[s] = "check" /\ pc' = [pc EXCEPT ![s] = "unlock"]
        /\ meant' = [meant EXCEPT ![s] = HandedOut] /\ HandedOut \in File
    <3>. HIDE DEF HandedOut
    <3>1. /\ pc[s] = "check" /\ pc' = [pc EXCEPT ![s] = "unlock"]
          /\ meant' = [meant EXCEPT ![s] = dirbuf[ptr[s]]] /\ Eligible(Dir[dirbuf[ptr[s]]])
      BY <1>6 DEF Accept, Go
    <3>2. dirbuf[ptr[s]] = HandedOut /\ ptr[s] # Null /\ dirbuf[ptr[s]] # Null
      BY <1>0, <3>1 DEF IInv, LockInv, SlotInv, GivenInv
    <3>3. dirbuf[ptr[s]] \in Position
      BY <1>0, <3>2 DEF IInv, LockInv, TypeOK, Null
    <3>. QED
      BY <3>1, <3>2, <3>3 DEF File
  <2>2. TakenAs(s)' = TakenAs(s)
    BY <1>0, <1>6, <2>1 DEF Accept, TakenAs, Known
  <2>3. nextStripe'[s] = nextStripe[s]
    BY <1>0, <1>00, <2>1, <2>2 DEF nextStripe, Known
  <2>. QED
    BY <1>0, <1>6, <2>2, <2>3, Invisible DEF Accept, Go, Known
<1>7. ASSUME NEW s \in Scanner, Unlock(s) PROVE UNCHANGED Dispenser!vars
  <2>1. TakenAs(s)' = TakenAs(s)
    BY <1>0, <1>7 DEF Unlock, Go, TakenAs, Exhausted, Known
  <2>2. nextStripe'[s] = nextStripe[s]
    BY <1>0, <1>00, <1>7, <2>1 DEF Unlock, Go, nextStripe, Known
  <2>3. eof' = eof
    BY <1>0, <1>7 DEF Unlock, Go, Known
  <2>. QED
    BY <1>0, <1>7, <2>1, <2>2, <2>3, Invisible DEF Unlock, Go, Known
<1>8. ASSUME NEW s \in Scanner, ReadBeyond(s) PROVE UNCHANGED Dispenser!vars
  <2>1. TakenAs(s)' = TakenAs(s)
    BY <1>0, <1>8 DEF ReadBeyond, TakenAs, Exhausted, Known
  <2>2. nextStripe'[s] = nextStripe[s]
    BY <1>0, <1>00, <1>8, <2>1 DEF ReadBeyond, nextStripe, Known
  <2>3. eof' = eof
    BY <1>0, <1>8 DEF ReadBeyond, Known
  <2>. QED
    BY <1>0, <1>8, <2>1, <2>2, <2>3, Invisible DEF ReadBeyond, Known
<1>9. ASSUME NEW s \in Scanner, Destroy(s) PROVE UNCHANGED Dispenser!vars
  <2>1. TakenAs(s)' = TakenAs(s)
    BY <1>0, <1>9 DEF Destroy, Go, TakenAs, Exhausted, Known
  <2>2. nextStripe'[s] = nextStripe[s]
    <3>1. TakenAs(s) = Null /\ pc'[s] \notin {"idle", "read"}
      BY <1>0, <1>9 DEF Destroy, Go, TakenAs, Exhausted, Known
    <3>. QED
      BY <1>00, <3>1 DEF nextStripe
  <2>3. eof' = eof
    BY <1>0, <1>9 DEF Destroy, Go, Known
  <2>. QED
    BY <1>0, <1>9, <2>1, <2>2, <2>3, Invisible DEF Destroy, Go, Known
<1>10. ASSUME NEW s \in Scanner, ReaddirBuffered(s) PROVE [Dispenser!Next]_(Dispenser!vars)
  <2>1. HandedOut' = HandedOut + 1 /\ pc[s] = "readdir"
    BY <1>0, <1>10, ConstantFacts DEF ReaddirBuffered, Go, IInv, LockInv, TypeOK
  <2>2. \A t \in Scanner : pc[t] # "check"
    BY <1>0, <2>1 DEF IInv, LockInv, TypeOK, NextFileExclusive, Locked
  <2>3. \A t \in Scanner \ {s} : TakenAs(t)' = TakenAs(t)
    BY <1>0, <1>10, <2>2 DEF ReaddirBuffered, Go, TakenAs, Exhausted, Known
  <2>. HIDE DEF HandedOut
  <2>. QED
    BY <1>0, <1>10, <2>1, <2>3, ReaddirTakes DEF ReaddirBuffered, Go, Known
<1>11. ASSUME NEW s \in Scanner, ReaddirRefill(s) PROVE [Dispenser!Next]_(Dispenser!vars)
  <2>. HIDE DEF HandedOut
  <2>1. /\ HandedOut' = HandedOut + 1 /\ pc[s] = "readdir" /\ pc' = [pc EXCEPT ![s] = "check"]
        /\ UNCHANGED <<meant, reader, curStripe, eof, served>>
    BY <1>0, <1>11, RefillFacts DEF IInv
  <2>2. \A t \in Scanner : pc[t] # "check"
    BY <1>0, <2>1 DEF IInv, LockInv, TypeOK, NextFileExclusive, Locked
  <2>3. \A t \in Scanner \ {s} : TakenAs(t)' = TakenAs(t)
    BY <1>0, <2>1, <2>2 DEF TakenAs, Exhausted, Known
  <2>4. ~eof[s]
    BY <1>0, <2>1 DEF Known
  <2>. QED
    BY <2>1, <2>3, <2>4, ReaddirTakes
<1>12. ASSUME NEW s \in Scanner, Skip(s) PROVE UNCHANGED Dispenser!vars
  <2>1. pc[s] = "check" /\ HandedOut \notin File
    BY <1>0, <1>12 DEF Skip, Go, IInv, GivenInv, File
  <2>2. TakenAs(s)' = TakenAs(s)
    BY <1>0, <1>12, <2>1 DEF Skip, Go, TakenAs, Known
  <2>3. nextStripe'[s] = nextStripe[s]
    BY <1>0, <1>00, <1>12, <2>2 DEF Skip, Go, nextStripe, Known
  <2>. QED
    BY <1>0, <1>12, <2>2, <2>3, Invisible DEF Skip, Go, Known
<1>13. ASSUME NEW s \in Scanner, Open(s) PROVE UNCHANGED Dispenser!vars
  <2>1. pc[s] = "open" /\ ptr[s] # Null /\ dirbuf[ptr[s]] = meant[s] /\ meant[s] \in File
    <3>1. pc[s] = "open" /\ ptr[s] # Null
      BY <1>13 DEF Open, Go
    <3>2. meant[s] # Null
      BY <1>0, <3>1 DEF IInv, LockInv, SlotInv
    <3>. QED
      BY <1>0, <3>1, <3>2, SafeFacts DEF Known
  <2>2. Stripes(meant[s]) # 0
    BY <2>1 DEF NoEmptyFile
  <2>3. pc'[s] = "read" /\ reader'[s] = meant[s] /\ curStripe'[s] = 0
    BY <1>0, <1>13, <2>1 DEF Open, Go, Known
  <2>4. TakenAs(s)' = meant[s] /\ TakenAs(s) = meant[s]
    BY <1>0, <2>1, <2>2, <2>3 DEF TakenAs, Exhausted, Known
  <2>5. nextStripe'[s] = nextStripe[s]
    BY <1>0, <1>00, <2>1, <2>3, <2>4 DEF nextStripe, Known
  <2>. QED
    BY <1>0, <1>13, <2>4, <2>5, Invisible DEF Open, Go, Known
<1>14. ASSUME NEW s \in Scanner, ReadStripe(s) PROVE Dispenser!Next
  BY <1>14, ReadServes DEF Dispenser!Next
<1>15. ASSUME NEW s \in Scanner, EndOfData(s) PROVE Dispenser!Next
  BY <1>15, EofFinishes DEF Dispenser!Next
<1>16. ASSUME Reset PROVE Dispenser!Next
  BY <1>16, ResetRewinds DEF Dispenser!Next
<1>17. CASE UNCHANGED vars
  <2>1. \A t \in Scanner : Taken(t)' = Taken(t)
    BY <1>17 DEF vars, Taken, Exhausted
  <2>. QED
    BY <1>17, <2>1 DEF vars, Dispenser!vars, HandedOut
<1>. QED
  BY <1>1, <1>2, <1>3, <1>4, <1>5, <1>6, <1>7, <1>8, <1>9, <1>10, <1>11, <1>12, <1>13, <1>14,
     <1>15, <1>16, <1>17 DEF Next, Step, NextFile, Ended

\* Scanners that share a table (Table.h, ORCScanner::nextBatch) serve themselves
\* from a dispenser of stripes: every file is taken once, served in order, and
\* end of data is told when none is left.
THEOREM Refinement == ASSUME Safe, NoEmptyFile PROVE Spec => ImplementsDispenser
<1>1. Init => Dispenser!Init
  <2>. SUFFICES ASSUME Init PROVE Dispenser!Init
    OBVIOUS
  <2>1. \A s \in Scanner : Taken(s) = Null /\ eof[s] = FALSE
    BY DEF Init, Taken
  <2>2. {f \in File : f > HandedOut} = File
    <3>1. HandedOut = 0
      BY DEF Init, HandedOut
    <3>2. \A f \in File : f > 0
      BY ConstantFacts DEF Position
    <3>. QED
      BY <3>1, <3>2
  <2>. QED
    BY <2>1, <2>2 DEF Init, Dispenser!Init
<1>2. FullInv /\ FullInv' /\ [Next]_vars => [Dispenser!Next]_(Dispenser!vars)
  BY Simulation DEF FullInv
<1>. QED
  BY <1>1, <1>2, FullInvariance, PTL DEF Spec, ImplementsDispenser, Dispenser!Spec
=============================================================================
