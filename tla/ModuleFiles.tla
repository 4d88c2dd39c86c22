---------------------------- MODULE ModuleFiles ----------------------------
(***************************************************************************)
(* The two files of a saved module (src/codegen/llvm-codegen.cpp), shared  *)
(* by the processes that scan a table: one that generates code rewrites    *)
(* both in place, one after the other; one that does not looks for the     *)
(* optimised file and reads either (Table::getCodeGen).  Nothing locks     *)
(* them, and a process may end at any moment.                              *)
(*                                                                         *)
(* A file is a sequence of blocks, one for the decoder of each column; a   *)
(* process makes one module.  parseIRFile takes the length of a file when  *)
(* it opens it and its contents after that, block by block, while another  *)
(* process may truncate and write it.                                      *)
(***************************************************************************)
EXTENDS Naturals, Sequences, FiniteSets

CONSTANTS
  Process,     \* runs of the program on one table
  MaxColumns,  \* bound: columns of a scan
  None         \* no file, no owner

\* A file is a sequence of blocks; what has not been written is None.
ASSUME ModuleFilesAssumption ==
  MaxColumns \in Nat /\ None \notin Process /\ None \notin Seq(Process \X Nat \cup {None})

VARIABLES
  pc,          \* of each process
  codegen,     \* its FLAGS_codegen
  optimized,   \* its FLAGS_use_optimized_module
  size,        \* the number of columns it generates for
  at,          \* the file it is at
  written,     \* blocks it has written to it
  length,      \* the blocks of the file it loads, when it opened it
  got,         \* those it has read so far
  loaded,      \* the blocks of the module it has loaded
  files,       \* the two files
  owner,       \* history: the last process to truncate each file
  overlapped,  \* history: a file was truncated while another process wrote it
  clashed,     \* history: processes that saved while another did
  disturbed,   \* history: processes whose file was changed since they opened it
  failed       \* history: <<process, file>> that could not be opened

flags == <<codegen, optimized>>
reading == <<length, got, loaded>>
history == <<owner, overlapped, clashed, disturbed, failed>>
vars == <<pc, flags, size, at, written, reading, files, history>>

File == {"unopt", "opt"}
Saving == {"open", "write"}

Block(p, k) == <<p, k>>
Module(p) == [k \in 1 .. size[p] |-> Block(p, k)]

Init ==
  /\ pc = [p \in Process |-> "new"]
  /\ codegen \in [Process -> BOOLEAN] /\ optimized \in [Process -> BOOLEAN]
  /\ size = [p \in Process |-> 0]
  /\ at = [p \in Process |-> "unopt"] /\ written = [p \in Process |-> 0]
  /\ length = [p \in Process |-> 0] /\ got = [p \in Process |-> <<>>]
  /\ loaded = [p \in Process |-> {}]
  /\ files = [f \in File |-> None]
  /\ owner = [f \in File |-> None] /\ overlapped = [f \in File |-> FALSE]
  /\ clashed = {} /\ disturbed = {} /\ failed = {}

Go(p, from, to) == pc[p] = from /\ pc' = [pc EXCEPT ![p] = to]

\* getCodeGen of a process that generates, or that finds no optimised file:
\* a new module.  Otherwise the file is read next.
Check(p) ==
  /\ Go(p, "new", IF codegen[p] THEN "scan"
                  ELSE IF files["opt"] # None THEN "load" ELSE "interpret")
  /\ UNCHANGED <<flags, size, at, written, reading, files, history>>

ToLoad(p) == IF optimized[p] THEN "opt" ELSE "unopt"

Blocks(bs) == {bs[k] : k \in DOMAIN bs}
IsWhole(bs) == \E p \in Process : size[p] > 0 /\ bs = Module(p)

\* What is made of the blocks read: of those that are not what one process has
\* written all or nothing.
Parsed(bs) == IF IsWhole(bs) THEN {Blocks(bs)} ELSE {Blocks(bs), {}}

\* parseIRFile opens the file; one that is missing has nothing to read.
BeginLoad(p) ==
  /\ Go(p, "load", "reading")
  /\ LET file == files[ToLoad(p)]
     IN length' = [length EXCEPT ![p] = IF file = None THEN 0 ELSE Len(file)]
  /\ UNCHANGED <<flags, size, at, written, got, loaded, files, history>>

\* A block as it is at this moment; behind the end of the file there are zeros.
BlockNow(file, k) == IF k <= Len(file) THEN file[k] ELSE None

ReadBlock(p) ==
  /\ pc[p] = "reading" /\ Len(got[p]) < length[p]
  /\ got' = [got EXCEPT ![p] = Append(@, BlockNow(files[ToLoad(p)], Len(@) + 1))]
  /\ UNCHANGED <<pc, flags, size, at, written, length, loaded, files, history>>

\* The buffer goes with the call.
Released(p) ==
  /\ length' = [length EXCEPT ![p] = 0] /\ got' = [got EXCEPT ![p] = <<>>]
  /\ disturbed' = disturbed \ {p}

EndLoad(p) ==
  /\ Len(got[p]) = length[p]
  /\ Go(p, "reading", "interpret")
  /\ \E bs \in Parsed(got[p]) : loaded' = [loaded EXCEPT ![p] = bs]
  /\ Released(p)
  /\ UNCHANGED <<flags, size, at, written, files, owner, overlapped, clashed, failed>>

\* The last scanner calls FinalizeModule.
Generate(p) ==
  /\ Go(p, "scan", "open")
  /\ \E n \in 1 .. MaxColumns : size' = [size EXCEPT ![p] = n]
  /\ LET others == {q \in Process : pc[q] \in Saving}
     IN clashed' = IF others = {} THEN clashed ELSE clashed \cup others \cup {p}
  /\ UNCHANGED <<flags, at, written, reading, files, owner, overlapped, disturbed, failed>>

\* Behind the unoptimised file comes the optimised one.
NextFile(p) ==
  /\ pc' = [pc EXCEPT ![p] = IF at[p] = "unopt" THEN "open" ELSE "done"]
  /\ at' = [at EXCEPT ![p] = "opt"]

\* (faulty variant of Truncated: the bytes beyond the new ones stay)
Truncated_Not(file) == IF file = None THEN <<>> ELSE file

\* The processes that are reading a file.
ReadersOf(f) == {q \in Process : pc[q] = "reading" /\ ToLoad(q) = f}

\* fstream::out | fstream::trunc
Truncated(file) == <<>>

Open(p) ==
  /\ pc[p] = "open"
  /\ pc' = [pc EXCEPT ![p] = "write"]
  /\ written' = [written EXCEPT ![p] = 0]
  /\ files' = [files EXCEPT ![at[p]] = Truncated(@)]
  /\ owner' = [owner EXCEPT ![at[p]] = p]
  /\ overlapped' = [overlapped EXCEPT ![at[p]] =
                      \E q \in Process : pc[q] = "write" /\ at[q] = at[p]]
  /\ disturbed' = disturbed \cup ReadersOf(at[p])
  /\ UNCHANGED <<flags, size, at, reading, clashed, failed>>

\* f.fail(): a message, and on to the next.
CannotOpen(p) ==
  /\ pc[p] = "open"
  /\ NextFile(p)
  /\ failed' = failed \cup {<<p, at[p]>>}
  /\ UNCHANGED <<flags, size, written, reading, files, owner, overlapped, clashed, disturbed>>

\* A block goes to the place this process is at; a gap before it is a hole.
Put(file, k, b) ==
  [i \in 1 .. IF Len(file) > k THEN Len(file) ELSE k |->
     IF i = k THEN b ELSE IF i <= Len(file) THEN file[i] ELSE None]

Write(p) ==
  /\ pc[p] = "write" /\ written[p] < size[p]
  /\ written' = [written EXCEPT ![p] = @ + 1]
  /\ files' = [files EXCEPT ![at[p]] = Put(@, written'[p], Block(p, written'[p]))]
  /\ disturbed' = disturbed \cup ReadersOf(at[p])
  /\ UNCHANGED <<pc, flags, size, at, reading, owner, overlapped, clashed, failed>>

Close(p) ==
  /\ pc[p] = "write" /\ written[p] = size[p]
  /\ NextFile(p)
  /\ UNCHANGED <<flags, size, written, reading, files, history>>

\* The process is killed, or fails on something else, a file cut short while it
\* reads it, say: an open file stays as it is.
Crash(p) ==
  /\ pc[p] \in {"scan", "reading", "open", "write"}
  /\ pc' = [pc EXCEPT ![p] = IF @ = "write" THEN "torn" ELSE "dead"]
  /\ Released(p)
  /\ UNCHANGED <<flags, size, at, written, loaded, files, owner, overlapped, clashed, failed>>

Ended ==
  /\ \A p \in Process : pc[p] \in {"interpret", "done", "torn", "dead"}
  /\ UNCHANGED vars

Next ==
  \/ \E p \in Process :
       \/ Check(p) \/ BeginLoad(p) \/ ReadBlock(p) \/ EndLoad(p) \/ Generate(p)
       \/ Open(p) \/ CannotOpen(p) \/ Write(p) \/ Close(p) \/ Crash(p)
  \/ Ended

Spec == Init /\ [][Next]_vars
-----------------------------------------------------------------------------
(***************************************************************************)
(* Properties                                                              *)
(***************************************************************************)
\* The last process to truncate the file did it alone and has closed it.
Settled(f) ==
  /\ ~overlapped[f]
  /\ owner[f] # None => ~(pc[owner[f]] \in {"write", "torn"} /\ at[owner[f]] = f)

\* A process that loads gets the whole module of the last process to save the
\* file, and nothing of any other, unless that one is still writing or has died
\* writing, or two have written at once, or the file was truncated or written
\* while it was being read.  What a crash has left is repaired by the next process
\* to save.
LoadsWhole ==
  [][\A p \in Process : EndLoad(p) /\ Settled(ToLoad(p)) /\ p \notin disturbed =>
       loaded'[p] = IF owner[ToLoad(p)] = None THEN {}
                    ELSE {Block(owner[ToLoad(p)], k) : k \in 1 .. size[owner[ToLoad(p)]]}]_vars

\* The two files hold the same module, whichever of them is asked for, unless
\* one of the processes that wrote them could not open the other file, died on
\* its way to it, or saved while another did.
FilesAgree ==
  LET a == owner["opt"]
      b == owner["unopt"]
  IN (\A f \in File : Settled(f)) /\ files["opt"] # files["unopt"] =>
       \/ {a, b} \cap clashed # {}
       \/ <<a, "unopt">> \in failed \/ <<b, "opt">> \in failed
       \/ b # None /\ pc[b] \in {"open", "write", "torn", "dead"}
=============================================================================
