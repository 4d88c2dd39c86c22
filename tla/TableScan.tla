----------------------------- MODULE TableScan -----------------------------
(***************************************************************************)
(* Scanners that share one Table (include/Table.h) and read it to the end  *)
(* with ORCScanner::nextBatch (src/exec/ORCScanner.cpp).  A table is a     *)
(* directory; Table::nextFile hands its files out one by one under the     *)
(* mutex of the table, but returns the name to open as a pointer into the  *)
(* buffer of the directory stream and dereferences it AFTER the unlock.    *)
(*                                                                         *)
(* One action is one step a thread takes between two points where another  *)
(* thread can be observed.  A file is its position in the directory, and   *)
(* an entry takes one slot of the buffer; one that is not a regular file   *)
(* has no footer and so no stripe.                                         *)
(* Left out: the contents of a stripe (modules of the decoder) and code    *)
(* generation (prepare and the rest of the destructor).                    *)
(***************************************************************************)
EXTENDS Integers, Sequences, FiniteSets

CONSTANTS
  Scanner,    \* scanners (threads) sharing the table
  NoScanner,  \* "nobody holds the mutex"
  Dir,        \* the entries of the directory, in the order readdir finds them
  Only,       \* the file selected by a path "dir__file", or AnyFile
  AnyFile,
  BufSlots,   \* entries that fit the buffer of the directory stream
  MaxResets   \* bound: number of times the table is rewound

Position == 1 .. Len(Dir)
Null == 0

ASSUME DirAssumption ==
  /\ Dir \in Seq([name : STRING, regular : BOOLEAN, hidden : BOOLEAN, stripes : Nat])
  /\ \A i, j \in Position : Dir[i].name = Dir[j].name => i = j
  /\ \A i \in Position : ~Dir[i].regular => Dir[i].stripes = 0
  /\ BufSlots \in Nat \ {0}
  /\ MaxResets \in Nat
  /\ NoScanner \notin Scanner
  /\ IsFiniteSet(Scanner)

VARIABLES
  pc,          \* where each scanner stands
  mtx,         \* Table::mtx: its holder
  registered,  \* Table::registered
  dirbuf,      \* buffer of the directory stream: the entry in each slot
  filled,      \* slots the last fill put there
  handed,      \* slots of that fill already returned by readdir
  fetched,     \* entries read from the directory so far
  ptr,         \* the dirent* each scanner got: a slot of dirbuf, or Null
  reader,      \* ORCScanner::reader: the open file, or Null
  curStripe,   \* ORCScanner::curStripe
  eof,         \* Batch::eof of the batch of each scanner
  served,      \* history: the stripes each scanner has read in this pass
  meant,       \* history: the file nextFile chose for each scanner, or Null
  strays,      \* history: <<meant, opened>> of this pass where they differ
  crashed,     \* the process died in an out-of-range access
  resets       \* number of calls of Table::reset so far

dirVars  == <<dirbuf, filled, handed, fetched>>
ptrVars  == <<ptr, meant>>
scanVars == <<reader, curStripe, eof, served, strays>>
vars == <<pc, mtx, registered, dirVars, ptrVars, scanVars, crashed, resets>>

Location == {"new", "idle", "lock", "readdir", "check", "unlock", "open",
             "read", "gone"}

\* Rep::nextFile returns only these entries.
Eligible(e) == e.regular /\ ~e.hidden /\ Only \in {AnyFile, e.name}

File == {i \in Position : Eligible(Dir[i])}
Stripes(i) == Dir[i].stripes

Init ==
  /\ pc = [s \in Scanner |-> "new"]
  /\ mtx = NoScanner
  /\ registered = 0
  /\ dirbuf = [k \in 1 .. BufSlots |-> Null]
  /\ filled = 0 /\ handed = 0 /\ fetched = 0
  /\ ptr = [s \in Scanner |-> Null]
  /\ reader = [s \in Scanner |-> Null]
  /\ curStripe = [s \in Scanner |-> 0]
  /\ eof = [s \in Scanner |-> FALSE]
  /\ served = [s \in Scanner |-> {}]
  /\ meant = [s \in Scanner |-> Null] /\ strays = {}
  /\ crashed = FALSE
  /\ resets = 0

Go(s, from, to) == pc[s] = from /\ pc' = [pc EXCEPT ![s] = to]

\* (faulty variant of Construct: the scanner is not counted)
Construct_Uncounted(s) ==
  /\ Go(s, "new", "idle")
  /\ mtx = NoScanner
  /\ reader' = [reader EXCEPT ![s] = Null]
  /\ curStripe' = [curStripe EXCEPT ![s] = 0]
  /\ eof' = [eof EXCEPT ![s] = FALSE]
  /\ UNCHANGED <<mtx, registered, dirVars, ptrVars, served, strays, crashed, resets>>

\* The constructor: no reader, and the table counts one scanner more.
Construct(s) ==
  /\ Go(s, "new", "idle")
  /\ mtx = NoScanner
  /\ registered' = registered + 1
  /\ reader' = [reader EXCEPT ![s] = Null]
  /\ curStripe' = [curStripe EXCEPT ![s] = 0]
  /\ eof' = [eof EXCEPT ![s] = FALSE]
  /\ UNCHANGED <<mtx, dirVars, ptrVars, served, strays, crashed, resets>>

\* (faulty variants of Exhausted: the last stripe is forgotten; one too many)
Exhausted_Early(s) == reader[s] # Null => curStripe[s] + 1 = Stripes(reader[s])
Exhausted_Late(s) == reader[s] # Null => curStripe[s] = Stripes(reader[s]) + 1

Exhausted(s) == reader[s] # Null => curStripe[s] = Stripes(reader[s])

\* nextBatch with no reader, or past the last stripe of its file: the reader
\* is deleted and the scanner goes for the next file.
NeedFile(s) ==
  /\ ~eof[s]
  /\ Exhausted(s)
  /\ Go(s, "idle", "lock")
  /\ meant' = [meant EXCEPT ![s] = Null]
  /\ UNCHANGED <<mtx, registered, dirVars, ptr, scanVars, crashed, resets>>

\* nextBatch with stripes left in the current file.
HaveStripe(s) ==
  /\ ~eof[s]
  /\ ~Exhausted(s)
  /\ Go(s, "idle", "read")
  /\ UNCHANGED <<mtx, registered, dirVars, ptrVars, scanVars, crashed, resets>>

\* (faulty variant of Lock: the mutex is not waited for)
Lock_NoWait(s) ==
  /\ Go(s, "lock", "readdir")
  /\ mtx' = s
  /\ UNCHANGED <<registered, dirVars, ptrVars, scanVars, crashed, resets>>

Lock(s) ==
  /\ mtx = NoScanner
  /\ Go(s, "lock", "readdir")
  /\ mtx' = s
  /\ UNCHANGED <<registered, dirVars, ptrVars, scanVars, crashed, resets>>

\* readdir when the buffer still has an entry to return.
ReaddirBuffered(s) ==
  /\ handed < filled
  /\ Go(s, "readdir", "check")
  /\ handed' = handed + 1
  /\ ptr' = [ptr EXCEPT ![s] = handed + 1]
  /\ UNCHANGED <<mtx, registered, dirbuf, filled, fetched, meant, scanVars, crashed, resets>>

Smaller(m, n) == IF m < n THEN m ELSE n

\* readdir when the buffer is used up: the next entries overwrite it in place,
\* and with them whatever the pointers handed out earlier point to.
ReaddirRefill(s) ==
  LET k == Smaller(BufSlots, Len(Dir) - fetched)
  IN /\ handed = filled
     /\ fetched < Len(Dir)
     /\ Go(s, "readdir", "check")
     /\ dirbuf' = [i \in 1 .. BufSlots |-> IF i <= k THEN fetched + i ELSE dirbuf[i]]
     /\ filled' = k
     /\ fetched' = fetched + k
     /\ handed' = 1
     /\ ptr' = [ptr EXCEPT ![s] = 1]
     /\ UNCHANGED <<mtx, registered, meant, scanVars, crashed, resets>>

\* (faulty variant of ReaddirEnd: at the end the directory is rewound)
ReaddirEnd_Rewinds(s) ==
  /\ handed = filled
  /\ fetched = Len(Dir)
  /\ pc[s] = "readdir"
  /\ filled' = 0 /\ handed' = 0 /\ fetched' = 0
  /\ UNCHANGED <<pc, mtx, registered, dirbuf, ptrVars, scanVars, crashed, resets>>

\* readdir at the end of the directory returns NULL, and so does the loop.
ReaddirEnd(s) ==
  /\ handed = filled
  /\ fetched = Len(Dir)
  /\ Go(s, "readdir", "unlock")
  /\ ptr' = [ptr EXCEPT ![s] = Null]
  /\ UNCHANGED <<mtx, registered, dirVars, meant, scanVars, crashed, resets>>

\* (faulty variant of Accept: the entry is not looked at)
Accept_Any(s) ==
  /\ Go(s, "check", "unlock")
  /\ meant' = [meant EXCEPT ![s] = dirbuf[ptr[s]]]
  /\ UNCHANGED <<mtx, registered, dirVars, ptr, scanVars, crashed, resets>>

\* The test in the loop of Rep::nextFile, on what the pointer points to.
Accept(s) ==
  /\ pc[s] = "check"
  /\ Eligible(Dir[dirbuf[ptr[s]]])
  /\ Go(s, "check", "unlock")
  /\ meant' = [meant EXCEPT ![s] = dirbuf[ptr[s]]]
  /\ UNCHANGED <<mtx, registered, dirVars, ptr, scanVars, crashed, resets>>

\* (faulty variant of Skip: no loop, the first other entry ends the search)
Skip_GivesUp(s) ==
  /\ pc[s] = "check"
  /\ ~Eligible(Dir[dirbuf[ptr[s]]])
  /\ Go(s, "check", "unlock")
  /\ ptr' = [ptr EXCEPT ![s] = Null]
  /\ UNCHANGED <<mtx, registered, dirVars, meant, scanVars, crashed, resets>>

Skip(s) ==
  /\ pc[s] = "check"
  /\ ~Eligible(Dir[dirbuf[ptr[s]]])
  /\ Go(s, "check", "readdir")
  /\ UNCHANGED <<mtx, registered, dirVars, ptrVars, scanVars, crashed, resets>>

Unlock(s) ==
  /\ Go(s, "unlock", "open")
  /\ mtx' = NoScanner
  /\ UNCHANGED <<registered, dirVars, ptrVars, scanVars, crashed, resets>>

\* What Open adds to the history.
Strayed(s) == {d \in {<<meant[s], dirbuf[ptr[s]]>>} : d[1] # d[2]}

\* (faulty variant of Open: the cursor of the previous file is kept)
Open_KeepsCursor(s) ==
  /\ ptr[s] # Null
  /\ Go(s, "open", "read")
  /\ reader' = [reader EXCEPT ![s] = dirbuf[ptr[s]]]
  /\ strays' = strays \cup Strayed(s)
  /\ UNCHANGED <<mtx, registered, dirVars, ptrVars, curStripe, eof, served, crashed, resets>>

\* After the unlock: the path is built from *dirent as it is NOW.
Open(s) ==
  /\ ptr[s] # Null
  /\ Go(s, "open", "read")
  /\ reader' = [reader EXCEPT ![s] = dirbuf[ptr[s]]]
  /\ curStripe' = [curStripe EXCEPT ![s] = 0]
  /\ strays' = strays \cup Strayed(s)
  /\ UNCHANGED <<mtx, registered, dirVars, ptrVars, eof, served, crashed, resets>>

\* No file left: nextBatch returns a batch marked eof, and the loop of the
\* caller ends.
EndOfData(s) ==
  /\ pc[s] = "open"
  /\ ptr[s] = Null
  /\ Go(s, "open", "idle")
  /\ reader' = [reader EXCEPT ![s] = Null]
  /\ eof' = [eof EXCEPT ![s] = TRUE]
  /\ UNCHANGED <<mtx, registered, dirVars, ptrVars, curStripe, served, strays, crashed, resets>>

\* (faulty variant of ReadStripe: the cursor does not move)
ReadStripe_Stuck(s) ==
  /\ pc[s] = "read"
  /\ curStripe[s] < Stripes(reader[s])
  /\ Go(s, "read", "idle")
  /\ eof' = [eof EXCEPT ![s] = FALSE]
  /\ served' = [served EXCEPT ![s] = @ \cup {<<reader[s], curStripe[s]>>}]
  /\ UNCHANGED <<mtx, registered, dirVars, ptrVars, reader, curStripe, strays, crashed, resets>>

\* The rest of nextBatch: one stripe is read and handed to the caller.
ReadStripe(s) ==
  /\ pc[s] = "read"
  /\ curStripe[s] < Stripes(reader[s])
  /\ Go(s, "read", "idle")
  /\ eof' = [eof EXCEPT ![s] = FALSE]
  /\ served' = [served EXCEPT ![s] = @ \cup {<<reader[s], curStripe[s]>>}]
  /\ curStripe' = [curStripe EXCEPT ![s] = @ + 1]
  /\ UNCHANGED <<mtx, registered, dirVars, ptrVars, reader, strays, crashed, resets>>

\* A file without stripes: footer->stripes(0) of an empty list.
ReadBeyond(s) ==
  /\ pc[s] = "read"
  /\ curStripe[s] >= Stripes(reader[s])
  /\ crashed' = TRUE
  /\ UNCHANGED <<pc, mtx, registered, dirVars, ptrVars, scanVars, resets>>

\* The destructor: the table counts one scanner less, the reader is closed.
Destroy(s) ==
  /\ eof[s]
  /\ Go(s, "idle", "gone")
  /\ mtx = NoScanner
  /\ registered' = registered - 1
  /\ UNCHANGED <<mtx, dirVars, ptrVars, scanVars, crashed, resets>>

\* (faulty variant of Reset: the stream is rewound, its read position is not)
Reset_KeepsPosition ==
  /\ ~crashed
  /\ resets < MaxResets
  /\ \A s \in Scanner : pc[s] \in {"new", "gone"}
  /\ resets' = resets + 1
  /\ filled' = 0 /\ fetched' = 0
  /\ dirbuf' = [k \in 1 .. BufSlots |-> Null]
  /\ pc' = [s \in Scanner |-> "new"]
  /\ ptr' = [s \in Scanner |-> Null]
  /\ reader' = [s \in Scanner |-> Null]
  /\ eof' = [s \in Scanner |-> FALSE]
  /\ served' = [s \in Scanner |-> {}]
  /\ meant' = [s \in Scanner |-> Null] /\ strays' = {}
  /\ UNCHANGED <<handed, mtx, registered, curStripe, crashed>>

\* Table::reset rewinds the directory.  It takes no lock, so it may only be
\* called between two passes; the next pass builds its scanners anew.
Reset ==
  /\ ~crashed
  /\ resets < MaxResets
  /\ \A s \in Scanner : pc[s] \in {"new", "gone"}
  /\ resets' = resets + 1
  /\ filled' = 0 /\ handed' = 0 /\ fetched' = 0
  /\ dirbuf' = [k \in 1 .. BufSlots |-> Null]
  /\ pc' = [s \in Scanner |-> "new"]
  /\ ptr' = [s \in Scanner |-> Null]
  /\ reader' = [s \in Scanner |-> Null]
  /\ eof' = [s \in Scanner |-> FALSE]
  /\ served' = [s \in Scanner |-> {}]
  /\ meant' = [s \in Scanner |-> Null] /\ strays' = {}
  /\ UNCHANGED <<mtx, registered, curStripe, crashed>>

NextFile(s) ==
  \/ Lock(s) \/ ReaddirBuffered(s) \/ ReaddirRefill(s) \/ ReaddirEnd(s)
  \/ Accept(s) \/ Skip(s) \/ Unlock(s) \/ Open(s) \/ EndOfData(s)

Step(s) ==
  /\ ~crashed
  /\ \/ Construct(s) \/ NeedFile(s) \/ HaveStripe(s) \/ NextFile(s)
     \/ ReadStripe(s) \/ ReadBeyond(s) \/ Destroy(s)

\* The program has ended: every scanner is deleted, or the process died.
Ended ==
  /\ crashed \/ \A s \in Scanner : pc[s] = "gone"
  /\ UNCHANGED vars

Next == (\E s \in Scanner : Step(s)) \/ Reset \/ Ended

Spec == Init /\ [][Next]_vars

\* Every thread is scheduled: a scanner that can take a step takes one.
FairSpec == Spec /\ \A s \in Scanner : WF_vars(Step(s))
-----------------------------------------------------------------------------
(***************************************************************************)
(* Properties                                                              *)
(***************************************************************************)
TypeOK ==
  /\ pc \in [Scanner -> Location]
  /\ mtx \in Scanner \cup {NoScanner}
  /\ registered \in Int
  /\ dirbuf \in [1 .. BufSlots -> Position \cup {Null}]
  /\ filled \in 0 .. BufSlots
  /\ handed \in 0 .. filled
  /\ fetched \in 0 .. Len(Dir)
  /\ ptr \in [Scanner -> 0 .. BufSlots]
  /\ reader \in [Scanner -> Position \cup {Null}]
  /\ curStripe \in [Scanner -> Nat]
  /\ eof \in [Scanner -> BOOLEAN]
  /\ served \in [Scanner -> SUBSET (Position \X Nat)]
  /\ meant \in [Scanner -> File \cup {Null}]
  /\ strays \subseteq File \X Position
  /\ crashed \in BOOLEAN
  /\ resets \in 0 .. MaxResets

Locked == {"readdir", "check", "unlock"}

\* The loop over readdir in Rep::nextFile is a critical section of Table::mtx:
\* the scanner in it holds the mutex, so there is never a second one.
NextFileExclusive ==
  \A s \in Scanner : pc[s] \in Locked <=> mtx = s

\* The file a scanner has been handed by Table::nextFile, as its dirent or its
\* reader names it at this moment.
Held(s) ==
  IF pc[s] \in {"unlock", "open"}
    THEN IF ptr[s] = Null THEN Null ELSE dirbuf[ptr[s]]
    ELSE IF pc[s] \in {"idle", "read"} THEN reader[s] ELSE Null

\* Another entry has taken the place of the one a scanner was given before it
\* opened it: the slot it points to has been filled again, so that entry comes
\* at least a whole buffer later in the directory.
Astray(s) == meant[s] # Null /\ meant[s] + BufSlots <= Held(s)

\* Two scanners hold the same file only if one of them followed its pointer into
\* the buffer of the directory stream after the unlock, when another scanner had
\* made readdir fill it again.  A directory that fits the buffer rules it out.
FilesDisjoint ==
  \A s, t \in Scanner :
    s # t /\ Held(s) # Null /\ Held(s) = Held(t) => Astray(s) \/ Astray(t)

\* What a scanner holds is the data file nextFile chose for it: a subdirectory,
\* a hidden entry, a file of another name or another data file only if that
\* entry took the chosen one's place in the buffer.
OnlyDataFiles ==
  \A s \in Scanner : \/ Held(s) = meant[s] /\ meant[s] \in File \cup {Null}
                     \/ Astray(s)

AllServed == UNION {served[s] : s \in Scanner}
TableStripes == UNION {{f} \X (0 .. Stripes(f) - 1) : f \in File}

\* The entries opened in place of others in this pass, and the files that were
\* given to a scanner and not opened by it.
Intruders == {d[2] : d \in strays}
Lost == {d[1] : d \in strays} \cup {meant[s] : s \in {t \in Scanner : Astray(t)}}

\* nextBatch returns a stripe that some scanner has already been given in this
\* pass only from a file that a scanner opened in place of its own.
NoStripeTwice ==
  [][\A s \in Scanner :
       pc[s] = "read" /\ pc'[s] = "idle" =>
         <<reader[s], curStripe[s]>> \notin AllServed \/ reader[s] \in Intruders]_vars

\* The stripes of a file come to one scanner, from the first one on without a
\* gap, up to the cursor of the reader while the file is open.
ServedInOrder ==
  \A s \in Scanner : \A f \in {d[1] : d \in served[s]} :
    LET ks == {d[2] : d \in {e \in served[s] : e[1] = f}}
    IN /\ ks = 0 .. Cardinality(ks) - 1
       /\ \/ Held(s) = f /\ Cardinality(ks) = curStripe[s]
          \/ Cardinality(ks) = Stripes(f)

\* A batch marked eof means that no file is left over: each one is held by a
\* scanner or has been served to its last stripe, but for those whose entry was
\* overwritten before the scanner that was given it had opened it.
EofMeansTaken ==
  (\E s \in Scanner : eof[s]) =>
    \A f \in File : \/ \E t \in Scanner : Held(t) = f
                    \/ {f} \X (0 .. Stripes(f) - 1) \subseteq AllServed
                    \/ f \in Lost

\* Table::registered is the number of scanners between their constructor and
\* their destructor, so unreg() returns 0 to the last one only.
RegisteredCountsLive ==
  registered = Cardinality({s \in Scanner : pc[s] \notin {"new", "gone"}})

\* Only a data file without a single stripe, or an entry opened in its place that
\* has none, sends getNumofRows out of range.
CrashOnlyOnEmptyFile ==
  crashed => \E s \in Scanner :
               /\ pc[s] = "read" /\ Stripes(reader[s]) = 0
               /\ reader[s] \in File \cup Intruders

\* The one way out of a scan before its end: a file without a stripe.
DiedOnEmptyFile == crashed /\ \E f \in File \cup Intruders : Stripes(f) = 0

\* Every scanner reaches the end of data and is deleted.
EveryScannerEnds ==
  \A s \in Scanner : pc[s] = "idle" ~> (pc[s] = "gone" \/ DiedOnEmptyFile)

\* Whatever the interleaving, a pass with at least one scanner serves the
\* whole table, but for the files whose entry was overwritten before the scanner
\* that was given it had opened it; without one, exactly the table.
WholeTableServed ==
  (registered > 0) ~>
    \/ /\ \A d \in TableStripes : d \in AllServed \/ d[1] \in Lost
       /\ Lost = {} => AllServed = TableStripes
    \/ DiedOnEmptyFile

-----------------------------------------------------------------------------
(***************************************************************************)
(* TableScan implements StripeDispenser.  A file is taken at the readdir   *)
(* that returns it, and used up when its last stripe has been read.        *)
(***************************************************************************)
HandedOut == (fetched - filled) + handed

Taken(s) ==
  IF pc[s] \in {"check", "unlock", "open"}
    THEN IF ptr[s] # Null /\ dirbuf[ptr[s]] \in File THEN dirbuf[ptr[s]] ELSE Null
    ELSE IF pc[s] \in {"idle", "read"} /\ ~Exhausted(s) THEN reader[s] ELSE Null

Dispenser == INSTANCE StripeDispenser WITH
  StripesOf  <- [f \in File |-> Stripes(f)],
  NoFile     <- Null,
  available  <- {f \in File : f > HandedOut},
  work       <- [s \in Scanner |-> Taken(s)],
  nextStripe <- [s \in Scanner |->
                   IF pc[s] \in {"idle", "read"} /\ Taken(s) # Null THEN curStripe[s] ELSE 0],
  done       <- {s \in Scanner : eof[s]}

\* Every step a scanner takes is a step of the dispenser or invisible to it.
ImplementsDispenser == Dispenser!Spec
=============================================================================
