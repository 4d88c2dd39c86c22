-------------------------- MODULE StripeDispenser --------------------------
(***************************************************************************)
(* What a table promises to the scanners that share it: its stripes are    *)
(* served file by file, every file goes to one scanner, that scanner gets  *)
(* the stripes of the file one after the other, and a scanner is told      *)
(* "end of data" only when no file is left.  No lock, no directory stream, *)
(* no file handle: TableScan shows how include/Table.h and                 *)
(* src/exec/ORCScanner.cpp implement this.                                 *)
(***************************************************************************)
EXTENDS Naturals

CONSTANTS
  Scanner,     \* scanners that read the table
  File,        \* data files of the table
  StripesOf,   \* number of stripes of each file
  NoFile       \* "this scanner has no file"

VARIABLES
  available,   \* files nobody has taken in this pass
  work,        \* the file each scanner is serving itself from
  nextStripe,  \* the stripe of that file it gets next
  served,      \* the stripes each scanner has been given in this pass
  done         \* scanners that were told "end of data"

vars == <<available, work, nextStripe, served, done>>

Init ==
  /\ available = File
  /\ work = [s \in Scanner |-> NoFile]
  /\ nextStripe = [s \in Scanner |-> 0]
  /\ served = [s \in Scanner |-> {}]
  /\ done = {}

\* A scanner without a file takes one that nobody has taken.
Take(s, f) ==
  /\ s \notin done
  /\ work[s] = NoFile
  /\ f \in available
  /\ available' = available \ {f}
  /\ work' = [work EXCEPT ![s] = f]
  /\ nextStripe' = [nextStripe EXCEPT ![s] = 0]
  /\ UNCHANGED <<served, done>>

\* It is given the next stripe of its file; the last one uses the file up.
Serve(s) ==
  /\ work[s] # NoFile
  /\ served' = [served EXCEPT ![s] = @ \cup {<<work[s], nextStripe[s]>>}]
  /\ IF nextStripe[s] + 1 = StripesOf[work[s]]
       THEN /\ work' = [work EXCEPT ![s] = NoFile]
            /\ nextStripe' = [nextStripe EXCEPT ![s] = 0]
       ELSE /\ nextStripe' = [nextStripe EXCEPT ![s] = @ + 1]
            /\ UNCHANGED work
  /\ UNCHANGED <<available, done>>

\* End of data: only when every file has been taken.
Finish(s) ==
  /\ s \notin done
  /\ work[s] = NoFile
  /\ available = {}
  /\ done' = done \cup {s}
  /\ UNCHANGED <<available, work, nextStripe, served>>

\* The table is rewound between two passes, when no scanner is at work.
Rewind ==
  /\ \A s \in Scanner : work[s] = NoFile
  /\ available' = File
  /\ served' = [s \in Scanner |-> {}]
  /\ done' = {}
  /\ UNCHANGED <<work, nextStripe>>

Next ==
  \/ \E s \in Scanner :
       \/ \E f \in File : Take(s, f)
       \/ Serve(s)
       \/ Finish(s)
  \/ Rewind

Spec == Init /\ [][Next]_vars
=============================================================================
