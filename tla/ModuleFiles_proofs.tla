-------------------------- MODULE ModuleFiles_proofs --------------------------
(***************************************************************************)
(* What a process loads and when the two files are the same, for any       *)
(* number of processes and columns: the theorems LoadsOneModule and        *)
(* FilesStayTogether.                                                      *)
(***************************************************************************)
EXTENDS ModuleFiles, SequenceTheorems, TLAPS

Cell == Process \X Nat \cup {None}

Types ==
  /\ pc \in [Process -> {"new", "scan", "load", "reading", "interpret", "open", "write", "done",
                         "torn", "dead"}]
  /\ size \in [Process -> Nat]
  /\ at \in [Process -> File]
  /\ written \in [Process -> Nat]
  /\ length \in [Process -> Nat]
  /\ got \in [Process -> Seq(Cell)]
  /\ loaded \in [Process -> SUBSET Cell]
  /\ files \in [File -> Seq(Cell) \cup {None}]
  /\ owner \in [File -> Process \cup {None}]
  /\ overlapped \in [File -> BOOLEAN]

\* A process saves a module of at least one block, and has truncated the file
\* it writes.
SaverInv ==
  \A p \in Process :
    /\ pc[p] \in Saving => size[p] > 0
    /\ pc[p] = "write" => owner[at[p]] # None

\* A file is there if some process has truncated it, and that process has come
\* past the choice of its columns.
OwnerInv ==
  \A f \in File :
    /\ owner[f] = None <=> files[f] = None
    /\ owner[f] # None =>
         pc[owner[f]] \in {"open", "write", "done", "torn", "dead"} /\ size[owner[f]] > 0

\* The blocks of p up to the n-th.
Prefix(p, n) == [k \in 1 .. n |-> Block(p, k)]

Unfinished(f) == pc[owner[f]] \in {"write", "torn"} /\ at[owner[f]] = f

\* Unless two processes have written it at once, a file holds what its last
\* writer has written, all of it once it is closed, and no other writes it.
ContentsInv ==
  \A f \in File : owner[f] # None /\ ~overlapped[f] =>
    /\ files[f] = Prefix(owner[f], IF Unfinished(f) THEN written[owner[f]] ELSE size[owner[f]])
    /\ \A q \in Process : pc[q] = "write" /\ at[q] = f => q = owner[f]

Core == Types /\ SaverInv /\ OwnerInv /\ ContentsInv

\* A file that had blocks when it was opened stays there.
OpenedInv ==
  \A p \in Process : pc[p] = "reading" /\ length[p] > 0 => files[ToLoad(p)] # None

\* Unless it was changed since, the file a process reads is as long as when it
\* was opened, and what has been read of it is its beginning.
ReadInv ==
  \A p \in Process :
    LET file == files[ToLoad(p)]
    IN pc[p] = "reading" /\ p \notin disturbed =>
         /\ length[p] = IF file = None THEN 0 ELSE Len(file)
         /\ Len(got[p]) <= length[p]
         /\ \A k \in 1 .. Len(got[p]) : got[p][k] = file[k]

\* Nothing has been read by a process that is not at it.
IdleInv == \A p \in Process : pc[p] # "reading" => got[p] = <<>>

Inv == Core /\ OpenedInv /\ ReadInv /\ IdleInv

-----------------------------------------------------------------------------
\* Files at the position of a process stay sequences of blocks when written.
LEMMA PutType ==
  ASSUME NEW file \in Seq(Cell), NEW k \in Nat \ {0}, NEW b \in Cell
  PROVE  Put(file, k, b) \in Seq(Cell)
<1> DEFINE n == IF Len(file) > k THEN Len(file) ELSE k
<1>1. n \in Nat
  OBVIOUS
<1>2. \A i \in 1 .. n : (IF i = k THEN b ELSE IF i <= Len(file) THEN file[i] ELSE None) \in Cell
  <2> TAKE i \in 1 .. n
  <2>1. CASE i <= Len(file)
    BY <2>1
  <2>2. CASE ~(i <= Len(file))
    BY <2>2 DEF Cell
  <2> QED BY <2>1, <2>2
<1>3. Put(file, k, b) \in [1 .. n -> Cell]
  BY <1>2 DEF Put
<1> QED
  BY <1>1, <1>3

\* The next block behind a prefix makes the next prefix.
LEMMA PutPrefix ==
  ASSUME NEW p \in Process, NEW n \in Nat
  PROVE  Put(Prefix(p, n), n + 1, Block(p, n + 1)) = Prefix(p, n + 1)
<1>1. Prefix(p, n) \in Seq(Cell) /\ Len(Prefix(p, n)) = n
  <2>1. \A k \in 1 .. n : Block(p, k) \in Cell
    BY DEF Block, Cell
  <2>2. Prefix(p, n) \in [1 .. n -> Cell]
    BY <2>1 DEF Prefix
  <2> QED BY <2>2
<1>2. (IF Len(Prefix(p, n)) > n + 1 THEN Len(Prefix(p, n)) ELSE n + 1) = n + 1
  BY <1>1
<1>3. \A i \in 1 .. n + 1 :
        (IF i = n + 1 THEN Block(p, n + 1)
         ELSE IF i <= Len(Prefix(p, n)) THEN Prefix(p, n)[i] ELSE None) = Block(p, i)
  BY <1>1 DEF Prefix
<1> QED
  BY <1>2, <1>3 DEF Put, Prefix

\* A file just truncated holds the empty prefix of any module.
LEMMA EmptyPrefix ==
  ASSUME NEW p \in Process
  PROVE  Prefix(p, 0) = <<>>
<1>1. 1 .. 0 = {}
  OBVIOUS
<1> QED
  BY <1>1 DEF Prefix
-----------------------------------------------------------------------------
\* At first no file is there and no process saves.
LEMMA Initially == Init => Core
<1> SUFFICES ASSUME Init PROVE Core
  OBVIOUS
<1>. USE DEF Init, File
<1>1. Types
  BY DEF Types
<1>2. SaverInv
  BY DEF SaverInv, Saving
<1>3. OwnerInv /\ ContentsInv
  BY DEF OwnerInv, ContentsInv
<1> QED
  BY <1>1, <1>2, <1>3 DEF Core

\* Steps that leave the files and who has truncated them alone.
LEMMA QuietStep ==
  ASSUME Core, OpenedInv, NEW p \in Process,
         Check(p) \/ BeginLoad(p) \/ ReadBlock(p) \/ EndLoad(p) \/ Generate(p) \/ Crash(p)
  PROVE  Core'
<1>. USE DEF Core, Types, SaverInv, OwnerInv, ContentsInv, Saving, flags, reading, history
<1>0. ToLoad(p) \in File
  BY DEF ToLoad, File
<1>1. CASE Check(p)
  <2>1. PICK to \in {"scan", "load", "interpret"} :
          /\ pc[p] = "new" /\ pc' = [pc EXCEPT ![p] = to]
          /\ UNCHANGED <<size, at, written, reading, files, owner, overlapped>>
    BY <1>1 DEF Check, Go
  <2>2. Types' /\ SaverInv'
    BY <2>1
  <2>3. \A f \in File : owner[f] # None => owner[f] # p
    BY <2>1
  <2>4. OwnerInv'
    BY <2>1, <2>3
  <2>5. \A f \in File : owner[f] # None => (Unfinished(f)' <=> Unfinished(f))
    BY <2>1, <2>3 DEF Unfinished
  <2>6. \A q \in Process : pc'[q] = "write" => pc[q] = "write"
    BY <2>1
  <2>7. ContentsInv'
    BY <2>1, <2>5, <2>6
  <2> QED
    BY <2>2, <2>4, <2>7
<1>2. CASE EndLoad(p)
  <2>1. PICK bs \in Parsed(got[p]) : loaded' = [loaded EXCEPT ![p] = bs]
    BY <1>2 DEF EndLoad
  <2>2. bs \in SUBSET Cell
    <3>1. Blocks(got[p]) \subseteq Cell
      BY DEF Blocks
    <3> QED BY <2>1, <3>1 DEF Parsed
  <2>3. /\ pc[p] = "reading" /\ pc' = [pc EXCEPT ![p] = "interpret"]
        /\ length' = [length EXCEPT ![p] = 0] /\ got' = [got EXCEPT ![p] = <<>>]
        /\ UNCHANGED <<size, at, written, files, owner, overlapped>>
    BY <1>2 DEF EndLoad, Go, Released
  <2> HIDE DEF Cell
  <2>4. <<>> \in Seq(Cell)
    OBVIOUS
  <2>5. Types'
    BY <2>1, <2>2, <2>3, <2>4
  <2>6. SaverInv' /\ OwnerInv'
    BY <2>3
  <2>7. ContentsInv'
    BY <2>3 DEF Unfinished
  <2> QED
    BY <2>5, <2>6, <2>7
<1>5. CASE BeginLoad(p)
  <2>1. length' \in [Process -> Nat]
    <3>1. CASE files[ToLoad(p)] = None
      BY <1>5, <3>1 DEF BeginLoad
    <3>2. CASE files[ToLoad(p)] # None
      BY <1>0, <1>5, <3>2 DEF BeginLoad
    <3> QED BY <3>1, <3>2
  <2>2. /\ pc[p] = "load" /\ pc' = [pc EXCEPT ![p] = "reading"]
        /\ UNCHANGED <<size, at, written, got, loaded, files, owner, overlapped>>
    BY <1>5 DEF BeginLoad, Go
  <2>3. Types'
    BY <2>1, <2>2
  <2>4. SaverInv' /\ OwnerInv'
    BY <2>2
  <2>5. ContentsInv'
    BY <2>2 DEF Unfinished
  <2> QED
    BY <2>3, <2>4, <2>5
<1>6. CASE ReadBlock(p)
  <2>1. BlockNow(files[ToLoad(p)], Len(got[p]) + 1) \in Cell
    <3>1. files[ToLoad(p)] \in Seq(Cell)
      BY <1>0, <1>6 DEF ReadBlock, OpenedInv
    <3> QED BY <3>1 DEF BlockNow, Cell
  <2> QED
    BY <1>6, <2>1 DEF ReadBlock, Unfinished
<1>3. CASE Generate(p)
  <2>1. PICK n \in 1 .. MaxColumns : size' = [size EXCEPT ![p] = n]
    BY <1>3 DEF Generate
  <2>2. n \in Nat /\ n > 0
    BY <2>1, ModuleFilesAssumption
  <2>3. \A f \in File : owner[f] # p
    BY <1>3, ModuleFilesAssumption DEF Generate, Go
  <2> QED
    BY <1>3, <2>1, <2>2, <2>3 DEF Generate, Go, Unfinished
<1>4. CASE Crash(p)
  <2>1. PICK to \in {"torn", "dead"} :
          /\ pc[p] \in {"scan", "reading", "open", "write"} /\ (to = "torn" <=> pc[p] = "write")
          /\ pc' = [pc EXCEPT ![p] = to]
          /\ length' = [length EXCEPT ![p] = 0] /\ got' = [got EXCEPT ![p] = <<>>]
          /\ UNCHANGED <<size, at, written, loaded, files, owner, overlapped>>
    BY <1>4 DEF Crash, Released
  <2> HIDE DEF Cell
  <2>2. <<>> \in Seq(Cell)
    OBVIOUS
  <2>3. Types'
    BY <2>1, <2>2
  <2>4. SaverInv' /\ OwnerInv'
    BY <2>1
  <2>5. \A f \in File : owner[f] # None => (Unfinished(f)' <=> Unfinished(f))
    BY <2>1 DEF Unfinished
  <2>6. \A q \in Process : pc'[q] = "write" => pc[q] = "write"
    BY <2>1
  <2>7. ContentsInv'
    BY <2>1, <2>5, <2>6
  <2> QED
    BY <2>3, <2>4, <2>7
<1>. HIDE DEF Core, Types, SaverInv, OwnerInv, ContentsInv
<1> QED
  BY <1>1, <1>2, <1>3, <1>4, <1>5, <1>6

\* Truncating a file makes the process its owner, with nothing written.
LEMMA OpenStep ==
  ASSUME Core, NEW p \in Process, Open(p)
  PROVE  Core'
<1>. USE DEF Core, Types, Saving, flags, reading
<1> DEFINE f == at[p]
<1>1. f \in File
  OBVIOUS
<1>2. files' = [files EXCEPT ![f] = <<>>] /\ <<>> \in Seq(Cell)
  BY DEF Open, Truncated
<1>3. Types'
  BY <1>1, <1>2 DEF Open
<1>4. SaverInv'
  BY <1>1, ModuleFilesAssumption DEF Open, SaverInv
<1>5. OwnerInv'
  <2>1. <<>> # None /\ None \notin Process
    BY <1>2, ModuleFilesAssumption DEF Cell
  <2>2. /\ owner' = [owner EXCEPT ![f] = p] /\ pc' = [pc EXCEPT ![p] = "write"]
        /\ UNCHANGED size /\ size[p] > 0
    BY DEF Open, SaverInv
  <2> QED
    BY <1>1, <1>2, <2>1, <2>2 DEF OwnerInv
<1>6. ContentsInv'
  <2> SUFFICES ASSUME NEW g \in File, owner'[g] # None, ~overlapped'[g]
               PROVE  /\ files'[g] = Prefix(owner[g], IF Unfinished(g) THEN written[owner[g]]
                                                       ELSE size[owner[g]])'
                      /\ \A q \in Process : pc'[q] = "write" /\ at'[q] = g => q = owner'[g]
    BY DEF ContentsInv
  <2>1. CASE g = f
    <3>1. owner'[g] = p /\ Unfinished(g)' /\ written'[p] = 0
      BY <1>1, <2>1 DEF Open, Unfinished
    <3>2. files'[g] = Prefix(p, 0)
      BY <1>1, <1>2, <2>1, EmptyPrefix
    <3>3. Prefix(p, 0)' = Prefix(p, 0)
      BY DEF Prefix, Block
    <3> QED
      BY <1>1, <2>1, <3>1, <3>2, <3>3 DEF Open, Prefix, Block
  <2>2. CASE g # f
    <3>1. files'[g] = files[g] /\ owner'[g] = owner[g] /\ overlapped'[g] = overlapped[g]
      BY <1>1, <2>2 DEF Open
    <3>2. Unfinished(g)' <=> Unfinished(g)
      BY <1>1, <2>2, <3>1 DEF Open, Unfinished
    <3>3. Unfinished(g) => owner[g] # p
      BY <2>2 DEF Open, Unfinished
    <3> QED
      BY <2>2, <3>1, <3>2, <3>3 DEF Open, ContentsInv, Prefix, Block
  <2> QED
    BY <2>1, <2>2
<1> QED
  BY <1>3, <1>4, <1>5, <1>6

\* A block written by the owner makes its prefix one longer; one written by
\* another process means that the file was truncated under it.
LEMMA WriteStep ==
  ASSUME Core, NEW p \in Process, Write(p)
  PROVE  Core'
<1>. USE DEF Core, Types, Saving, flags, reading, history
<1> DEFINE f == at[p]
           k == written[p] + 1
<1>1. f \in File /\ k \in Nat \ {0} /\ Block(p, k) \in Cell
  BY DEF Block, Cell
<1>2. files[f] \in Seq(Cell) /\ owner[f] # None
  BY <1>1 DEF Write, SaverInv, OwnerInv
<1>3. files' = [files EXCEPT ![f] = Put(@, k, Block(p, k))]
  BY DEF Write, Block
<1>4. Put(files[f], k, Block(p, k)) \in Seq(Cell)
  BY <1>1, <1>2, PutType
<1>5. Types'
  BY <1>1, <1>3, <1>4 DEF Write
<1>6. SaverInv'
  BY DEF Write, SaverInv
<1>7. OwnerInv'
  BY <1>1, <1>2, <1>3, <1>4, ModuleFilesAssumption DEF Write, OwnerInv, Cell
<1>8. ContentsInv'
  <2> SUFFICES ASSUME NEW g \in File, owner[g] # None, ~overlapped[g]
               PROVE  /\ files'[g] = Prefix(owner[g], IF Unfinished(g) THEN written[owner[g]]
                                                       ELSE size[owner[g]])'
                      /\ \A q \in Process : pc[q] = "write" /\ at[q] = g => q = owner[g]
    BY DEF ContentsInv, Write
  <2>1. \A q \in Process : pc[q] = "write" /\ at[q] = g => q = owner[g]
    BY DEF ContentsInv
  <2>2. Unfinished(g)' <=> Unfinished(g)
    BY DEF Write, Unfinished
  <2>3. files[g] = Prefix(owner[g], IF Unfinished(g) THEN written[owner[g]] ELSE size[owner[g]])
    BY DEF ContentsInv
  <2>4. CASE g = f
    <3>1. owner[g] = p /\ Unfinished(g)
      BY <2>1, <2>4 DEF Write, Unfinished
    <3>2. files'[g] = Prefix(p, k)
      BY <1>1, <1>3, <2>3, <2>4, <3>1, PutPrefix
    <3>3. written'[p] = k
      BY DEF Write
    <3>4. owner' = owner
      BY DEF Write
    <3> QED
      BY <2>1, <2>2, <3>1, <3>2, <3>3, <3>4 DEF Prefix, Block
  <2>5. CASE g # f
    <3>1. files'[g] = files[g]
      BY <1>1, <1>3, <2>5
    <3>2. Unfinished(g) => owner[g] # p
      BY <2>5 DEF Unfinished
    <3> QED
      BY <2>1, <2>2, <2>3, <3>1, <3>2 DEF Write, Prefix, Block
  <2> QED
    BY <2>4, <2>5
<1> QED
  BY <1>5, <1>6, <1>7, <1>8

\* Closing a file, or failing to open it, and going on to the next.
LEMMA OnwardStep ==
  ASSUME Core, NEW p \in Process, Close(p) \/ CannotOpen(p)
  PROVE  Core'
<1>. USE DEF Core, Types, Saving, flags, reading, history
<1>1. /\ pc' = [pc EXCEPT ![p] = IF at[p] = "unopt" THEN "open" ELSE "done"]
      /\ at' = [at EXCEPT ![p] = "opt"]
      /\ UNCHANGED <<size, written, length, got, loaded, files, owner, overlapped>>
      /\ pc[p] \in {"open", "write"}
  BY DEF Close, CannotOpen, NextFile
<1>2. Types' /\ SaverInv' /\ OwnerInv'
  BY <1>1 DEF File, SaverInv, OwnerInv
<1>3. ContentsInv'
  <2> SUFFICES ASSUME NEW g \in File, owner[g] # None, ~overlapped[g]
               PROVE  /\ files[g] = Prefix(owner[g], IF Unfinished(g) THEN written[owner[g]]
                                                      ELSE size[owner[g]])'
                      /\ \A q \in Process : pc'[q] = "write" /\ at'[q] = g => q = owner[g]
    BY <1>1 DEF ContentsInv
  <2>1. /\ files[g] = Prefix(owner[g], IF Unfinished(g) THEN written[owner[g]] ELSE size[owner[g]])
        /\ \A q \in Process : pc[q] = "write" /\ at[q] = g => q = owner[g]
    BY DEF ContentsInv
  <2>2. Unfinished(g)' => Unfinished(g) /\ owner[g] # p
    BY <1>1 DEF Unfinished
  <2>3. Unfinished(g) /\ owner[g] = p => written[p] = size[p]
    BY <1>1 DEF Unfinished, Close, CannotOpen
  <2>4. Unfinished(g) /\ owner[g] # p => Unfinished(g)'
    BY <1>1 DEF Unfinished
  <2> QED
    BY <1>1, <2>1, <2>2, <2>3, <2>4 DEF Prefix, Block
<1> QED
  BY <1>2, <1>3

\* What a process knows of the file it reads: nobody changes the file but by a
\* step that marks its readers.
LEMMA ReadStep ==
  ASSUME Core, OpenedInv, ReadInv, IdleInv, [Next]_vars
  PROVE  OpenedInv' /\ ReadInv' /\ IdleInv'
<1>. USE DEF Core, Types, OpenedInv, ReadInv, IdleInv, flags, reading, history, ToLoad
<1>0. \A q \in Process : ToLoad(q) \in File
  BY DEF File
<1>1. CASE UNCHANGED vars
  BY <1>1 DEF vars
<1>2. ASSUME NEW p \in Process, Check(p) \/ Generate(p) \/ Close(p) \/ CannotOpen(p)
      PROVE  OpenedInv' /\ ReadInv' /\ IdleInv'
  <2>1. /\ \A q \in Process : (pc'[q] = "reading") = (pc[q] = "reading")
        /\ UNCHANGED <<optimized, length, got, files, disturbed>>
    BY <1>2 DEF Check, Generate, Close, CannotOpen, NextFile, Go
  <2> QED BY <2>1
<1>3. ASSUME NEW p \in Process, EndLoad(p) \/ Crash(p)
      PROVE  OpenedInv' /\ ReadInv' /\ IdleInv'
  <2>1. Released(p) /\ UNCHANGED <<optimized, files>>
    BY <1>3 DEF EndLoad, Crash
  <2>2. got'[p] = <<>> /\ \A q \in Process \ {p} : length'[q] = length[q] /\ got'[q] = got[q]
    BY <2>1 DEF Released
  <2>3. \A q \in Process \ {p} : q \in disturbed' <=> q \in disturbed
    BY <2>1 DEF Released
  <2>4. PICK to \in {"interpret", "torn", "dead"} : pc' = [pc EXCEPT ![p] = to]
    BY <1>3 DEF EndLoad, Crash, Go
  <2>5. pc'[p] # "reading" /\ \A q \in Process \ {p} : pc'[q] = pc[q]
    BY <2>4
  <2>6. UNCHANGED <<optimized, files>>
    BY <2>1
  <2> HIDE DEF Core, Types
  <2>7. OpenedInv'
    BY <2>2, <2>5, <2>6
  <2>8. IdleInv'
    BY <2>2, <2>5
  <2>9. ReadInv'
    BY <2>2, <2>3, <2>5, <2>6
  <2> QED BY <2>7, <2>8, <2>9
<1>4. ASSUME NEW p \in Process, BeginLoad(p)
      PROVE  OpenedInv' /\ ReadInv' /\ IdleInv'
  <2>1. /\ got[p] = <<>> /\ pc' = [pc EXCEPT ![p] = "reading"]
        /\ length' = [length EXCEPT ![p] = IF files[ToLoad(p)] = None THEN 0
                                           ELSE Len(files[ToLoad(p)])]
        /\ UNCHANGED <<optimized, got, files, disturbed>>
    BY <1>4 DEF BeginLoad, Go
  <2>2. length'[p] \in Nat /\ Len(got[p]) = 0
    BY <1>0, <2>1
  <2>3. length'[p] > 0 => files[ToLoad(p)] # None
    BY <2>1
  <2> HIDE DEF ToLoad
  <2>4. ToLoad(p)' = ToLoad(p) /\ \A q \in Process : ToLoad(q)' = ToLoad(q)
    BY <2>1 DEF ToLoad
  <2>5. OpenedInv' /\ IdleInv'
    BY <2>1, <2>3, <2>4
  <2>6. ReadInv'
    BY <2>1, <2>2, <2>4
  <2> QED BY <2>5, <2>6
<1>5. ASSUME NEW p \in Process, ReadBlock(p)
      PROVE  OpenedInv' /\ ReadInv' /\ IdleInv'
  <2> DEFINE file == files[ToLoad(p)]
             n == Len(got[p])
  <2>1. /\ pc[p] = "reading" /\ n < length[p]
        /\ got' = [got EXCEPT ![p] = Append(@, BlockNow(file, n + 1))]
        /\ UNCHANGED <<pc, optimized, length, files, disturbed>>
    BY <1>5 DEF ReadBlock
  <2>2. file \in Seq(Cell)
    BY <1>0, <2>1
  <2>3. n \in Nat /\ length[p] \in Nat /\ got[p] \in Seq(Cell)
    OBVIOUS
  <2>4. got'[p] = Append(got[p], BlockNow(file, n + 1))
    BY <2>1
  <2>5. /\ Len(got'[p]) = n + 1 /\ got'[p][n + 1] = BlockNow(file, n + 1)
        /\ \A k \in 1 .. n : got'[p][k] = got[p][k]
    BY <2>3, <2>4
  <2>6. OpenedInv' /\ IdleInv'
    BY <2>1
  <2>7. ReadInv'
    <3> SUFFICES ASSUME p \notin disturbed
                 PROVE  /\ Len(got'[p]) <= length[p]
                        /\ \A k \in 1 .. Len(got'[p]) : got'[p][k] = file[k]
      BY <2>1
    <3>1. length[p] = Len(file) /\ \A k \in 1 .. n : got[p][k] = file[k]
      BY <2>1, <2>2, ModuleFilesAssumption DEF Cell
    <3>2. BlockNow(file, n + 1) = file[n + 1]
      BY <2>1, <2>3, <3>1 DEF BlockNow
    <3> QED BY <2>1, <2>3, <2>5, <3>1, <3>2
  <2> QED BY <2>6, <2>7
<1>6. ASSUME NEW p \in Process, Open(p) \/ Write(p)
      PROVE  OpenedInv' /\ ReadInv' /\ IdleInv'
  <2>1. /\ \A g \in File \ {at[p]} : files'[g] = files[g]
        /\ disturbed' = disturbed \cup ReadersOf(at[p])
        /\ \A q \in Process : (pc'[q] = "reading") = (pc[q] = "reading")
        /\ UNCHANGED <<optimized, length, got>>
    BY <1>6 DEF Open, Write
  <2>2. files'[at[p]] \in Seq(Cell)
    <3>1. CASE Open(p)
      BY <3>1 DEF Open, Truncated
    <3>2. CASE Write(p)
      <4>1. Core'
        BY <3>2, WriteStep
      <4>2. at[p] \in File /\ files'[at[p]] = Put(files[at[p]], written[p] + 1, Block(p, written[p] + 1))
        BY <3>2 DEF Write, Block
      <4>3. files[at[p]] \in Seq(Cell)
        BY <3>2 DEF Write, SaverInv, OwnerInv
      <4>4. Block(p, written[p] + 1) \in Cell /\ written[p] + 1 \in Nat \ {0}
        BY DEF Block, Cell
      <4> QED BY <4>2, <4>3, <4>4, PutType
    <3> QED BY <1>6, <3>1, <3>2
  <2>3. files'[at[p]] # None
    BY <2>2, ModuleFilesAssumption DEF Cell
  <2>4. OpenedInv' /\ IdleInv'
    BY <1>0, <2>1, <2>3
  <2>5. ASSUME NEW q \in Process, pc[q] = "reading", q \notin disturbed'
        PROVE  files'[ToLoad(q)] = files[ToLoad(q)]
    BY <1>0, <2>1, <2>5 DEF ReadersOf
  <2>6. ReadInv'
    BY <2>1, <2>5
  <2> QED BY <2>4, <2>6
<1> QED
  BY <1>1, <1>2, <1>3, <1>4, <1>5, <1>6 DEF Next, Ended

\* A file that was not truncated under another writer holds what its last
\* writer has written so far, and all of it once it is closed (FinalizeModule);
\* what a process has read of a file nobody has changed since it opened it is the
\* beginning of that file (parseIRFile).
THEOREM FilesHold == Spec => []Inv
<1>1. Init => Inv
  <2>1. Init => Core
    BY Initially
  <2>2. Init => OpenedInv /\ ReadInv /\ IdleInv
    BY DEF Init, OpenedInv, ReadInv, IdleInv
  <2> QED BY <2>1, <2>2 DEF Inv
<1>2. Inv /\ [Next]_vars => Inv'
  <2> SUFFICES ASSUME Core, OpenedInv, [Next]_vars PROVE Core'
    BY ReadStep DEF Inv
  <2>1. CASE UNCHANGED vars
    BY <2>1 DEF vars, history, flags, reading, Core, Types, SaverInv, OwnerInv, ContentsInv,
                Unfinished, Prefix, Block
  <2>2. ASSUME NEW p \in Process,
               Check(p) \/ BeginLoad(p) \/ ReadBlock(p) \/ EndLoad(p) \/ Generate(p) \/ Crash(p)
        PROVE  Core'
    BY <2>2, QuietStep
  <2>3. ASSUME NEW p \in Process, Open(p) PROVE Core'
    BY <2>3, OpenStep
  <2>4. ASSUME NEW p \in Process, Write(p) PROVE Core'
    BY <2>4, WriteStep
  <2>5. ASSUME NEW p \in Process, Close(p) \/ CannotOpen(p) PROVE Core'
    BY <2>5, OnwardStep
  <2> QED
    BY <2>1, <2>2, <2>3, <2>4, <2>5 DEF Next, Ended
<1> QED
  BY <1>1, <1>2, PTL DEF Spec

\* A process that loads a settled file nobody changes meanwhile gets the whole
\* module of its last writer.
LEMMA LoadStep ==
  ASSUME Inv, NEW p \in Process, EndLoad(p), Settled(ToLoad(p)), p \notin disturbed
  PROVE  loaded'[p] = IF owner[ToLoad(p)] = None THEN {}
                      ELSE {Block(owner[ToLoad(p)], k) : k \in 1 .. size[owner[ToLoad(p)]]}
<1>. USE DEF Inv, Core, Types
<1> DEFINE f == ToLoad(p)
           o == owner[f]
<1>1. f \in File
  BY DEF ToLoad, File
<1>2. loaded'[p] \in Parsed(got[p]) /\ Len(got[p]) = length[p] /\ pc[p] = "reading"
  BY DEF EndLoad, Go
<1>3. CASE o = None
  <2>1. files[f] = None
    BY <1>1, <1>3 DEF OwnerInv
  <2>2. Len(got[p]) = 0
    BY <1>2, <2>1 DEF ReadInv
  <2>3. got[p] = <<>>
    BY <2>2
  <2>4. Blocks(got[p]) = {}
    BY <2>3 DEF Blocks
  <2> QED BY <1>2, <1>3, <2>4 DEF Parsed
<1>4. CASE o # None
  <2>1. o \in Process /\ size[o] > 0 /\ files[f] # None
    BY <1>1, <1>4 DEF OwnerInv
  <2>2. files[f] = Module(o) /\ files[f] \in Seq(Cell)
    BY <1>1, <1>4, <2>1 DEF ContentsInv, Settled, Unfinished, Prefix, Module
  <2>3. Len(got[p]) = Len(files[f]) /\ \A k \in 1 .. Len(got[p]) : got[p][k] = files[f][k]
    BY <1>2, <2>1 DEF ReadInv
  <2>4. got[p] = Module(o)
    <3>1. got[p] \in Seq(Cell)
      OBVIOUS
    <3> HIDE DEF Core, Types, Inv, Cell
    <3>2. got[p] = files[f]
      BY <2>2, <2>3, <3>1, SeqEqual
    <3> QED BY <2>2, <3>2
  <2>5. IsWhole(got[p])
    BY <2>1, <2>4 DEF IsWhole
  <2>6. Blocks(got[p]) = {Block(o, k) : k \in 1 .. size[o]}
    BY <2>4 DEF Blocks, Module
  <2>7. loaded'[p] \in {Blocks(got[p])}
    BY <1>2, <2>5 DEF Parsed
  <2> HIDE DEF Inv, Core, Types
  <2> QED
    BY <1>4, <2>6, <2>7
<1> QED
  BY <1>3, <1>4

\* A process that loads gets the whole module of the last process to save the
\* file, and nothing of any other, whatever crashed or failed before, unless
\* that one is still writing or died writing, or two have written at once, or
\* the file was truncated or written between its opening and the last block read
\* of it (FinalizeModule, Table::getCodeGen, LoadModuleFromFile).
THEOREM LoadsOneModule == Spec => LoadsWhole
<1>1. Inv /\ [Next]_vars =>
        [\A p \in Process : EndLoad(p) /\ Settled(ToLoad(p)) /\ p \notin disturbed =>
           loaded'[p] = IF owner[ToLoad(p)] = None THEN {}
                        ELSE {Block(owner[ToLoad(p)], k) : k \in 1 .. size[owner[ToLoad(p)]]}]_vars
  BY LoadStep
<1> QED
  BY <1>1, FilesHold, PTL DEF Spec, LoadsWhole
-----------------------------------------------------------------------------
(***************************************************************************)
(* The two files.                                                          *)
(***************************************************************************)
\* Processes save one after the other, or are known to have clashed.
SavingInv ==
  /\ \A p \in Process : pc[p] \in {"new", "scan"} => at[p] = "unopt"
  /\ \A p, q \in Process : p # q /\ pc[p] \in Saving /\ pc[q] \in Saving => p \in clashed

\* Without a clash a process is the last to have truncated the file it writes,
\* and on its way to the optimised file it still is that of the other.
AloneInv ==
  \A p \in Process :
    /\ pc[p] = "write" => owner[at[p]] = p \/ p \in clashed
    /\ pc[p] = "open" /\ at[p] = "opt" =>
         <<p, "unopt">> \in failed \/ owner["unopt"] = p \/ p \in clashed

\* The two files have different last writers: the one of the optimised file a
\* could not open the other, the one of the other has not come to the optimised
\* file, or there was a clash.
ApartInv ==
  LET a == owner["opt"]
      b == owner["unopt"]
  IN a # b =>
       \/ {a, b} \cap clashed # {}
       \/ <<a, "unopt">> \in failed \/ <<b, "opt">> \in failed
       \/ b # None /\ pc[b] \in {"open", "write", "torn", "dead"}

PairInv == SavingInv /\ AloneInv /\ ApartInv

\* Each step keeps what is known of the last writers of the two files.
LEMMA PairStep ==
  ASSUME Types, OwnerInv, PairInv, [Next]_vars
  PROVE  PairInv'
<1>. USE ModuleFilesAssumption DEF Types, PairInv, SavingInv, AloneInv, ApartInv, Saving, flags, reading, history, File
<1>1. CASE UNCHANGED vars
  BY <1>1 DEF vars
<1>2. ASSUME NEW p \in Process, Check(p) PROVE PairInv'
  <2>1. PICK to \in {"scan", "load", "interpret"} :
          /\ pc[p] = "new" /\ pc' = [pc EXCEPT ![p] = to]
          /\ UNCHANGED <<at, owner, failed, clashed>>
    BY <1>2 DEF Check, Go
  <2>2. owner["unopt"] # p
    BY <2>1 DEF OwnerInv
  <2> QED BY <2>1, <2>2
<1>3. ASSUME NEW p \in Process, BeginLoad(p) \/ ReadBlock(p) \/ EndLoad(p) PROVE PairInv'
  <2>1. /\ pc[p] \in {"load", "reading"} /\ \E to \in {"reading", "interpret"} :
                                              pc' = [pc EXCEPT ![p] = to]
        /\ UNCHANGED <<at, owner, failed, clashed>>
    BY <1>3 DEF BeginLoad, ReadBlock, EndLoad, Go
  <2>2. owner["unopt"] # p
    BY <2>1 DEF OwnerInv
  <2> QED BY <2>1, <2>2
<1>4. ASSUME NEW p \in Process, Generate(p) PROVE PairInv'
  <2>1. owner["unopt"] # p /\ owner["opt"] # p
    BY <1>4 DEF OwnerInv, Generate, Go
  <2>2. /\ clashed \subseteq clashed'
        /\ \A q \in Process : q # p /\ pc[q] \in Saving => q \in clashed' /\ p \in clashed'
    BY <1>4 DEF Generate
  <2>3. /\ pc[p] = "scan" /\ pc' = [pc EXCEPT ![p] = "open"]
        /\ UNCHANGED <<at, owner, failed>>
    BY <1>4 DEF Generate, Go
  <2>4. SavingInv' /\ AloneInv'
    BY <2>2, <2>3
  <2>5. ApartInv'
    BY <2>1, <2>2, <2>3
  <2> QED BY <2>4, <2>5
<1>5. ASSUME NEW p \in Process, Open(p) PROVE PairInv'
  <2>1. /\ pc[p] = "open" /\ pc' = [pc EXCEPT ![p] = "write"]
        /\ owner' = [owner EXCEPT ![at[p]] = p]
        /\ UNCHANGED <<at, failed, clashed>>
    BY <1>5 DEF Open
  <2>2. SavingInv' /\ AloneInv'
    BY <2>1
  <2>3. ApartInv'
    <3>1. CASE at[p] = "unopt"
      BY <2>1, <3>1
    <3>2. CASE at[p] = "opt"
      BY <2>1, <3>2
    <3> QED BY <3>1, <3>2
  <2> QED BY <2>2, <2>3
<1>6. ASSUME NEW p \in Process, CannotOpen(p) PROVE PairInv'
  <2>1. /\ pc[p] = "open"
        /\ pc' = [pc EXCEPT ![p] = IF at[p] = "unopt" THEN "open" ELSE "done"]
        /\ at' = [at EXCEPT ![p] = "opt"] /\ failed' = failed \cup {<<p, at[p]>>}
        /\ UNCHANGED <<owner, clashed>>
    BY <1>6 DEF CannotOpen, NextFile
  <2>2. SavingInv' /\ AloneInv'
    BY <2>1
  <2>3. ApartInv'
    BY <2>1
  <2> QED BY <2>2, <2>3
<1>7. ASSUME NEW p \in Process, Write(p) PROVE PairInv'
  BY <1>7 DEF Write
<1>8. ASSUME NEW p \in Process, Close(p) PROVE PairInv'
  <2>1. /\ pc[p] = "write"
        /\ pc' = [pc EXCEPT ![p] = IF at[p] = "unopt" THEN "open" ELSE "done"]
        /\ at' = [at EXCEPT ![p] = "opt"]
        /\ UNCHANGED <<owner, failed, clashed>>
    BY <1>8 DEF Close, NextFile
  <2>2. SavingInv' /\ AloneInv'
    BY <2>1
  <2>3. ApartInv'
    BY <2>1
  <2> QED BY <2>2, <2>3
<1>9. ASSUME NEW p \in Process, Crash(p) PROVE PairInv'
  BY <1>9 DEF Crash, OwnerInv
<1>10. CASE Ended
  BY <1>10 DEF Ended, vars
<1> QED
  BY <1>1, <1>2, <1>3, <1>4, <1>5, <1>6, <1>7, <1>8, <1>9, <1>10 DEF Next

\* The two files hold the same module, whichever is asked for, unless one of
\* the processes that wrote them could not open the other file, died on its way
\* to it, or saved while another did (FinalizeModule).
THEOREM FilesStayTogether == Spec => []FilesAgree
<1>1. Init => PairInv
  BY DEF Init, PairInv, SavingInv, AloneInv, ApartInv, Saving, File
<1>2. Inv /\ PairInv /\ [Next]_vars => PairInv'
  BY PairStep DEF Inv, Core
<1>3. Inv /\ PairInv => FilesAgree
  <2> SUFFICES ASSUME Inv, PairInv, \A f \in File : Settled(f), files["opt"] # files["unopt"],
                      owner["opt"] = owner["unopt"]
               PROVE  FALSE
    BY DEF FilesAgree, PairInv, ApartInv
  <2>1. CASE owner["opt"] = None
    BY <2>1 DEF Inv, Core, OwnerInv, File
  <2>2. CASE owner["opt"] # None
    <3>1. \A f \in File : files[f] = Prefix(owner[f], size[owner[f]])
      BY <2>2 DEF Inv, Core, ContentsInv, Settled, Unfinished, File
    <3> QED BY <3>1 DEF File
  <2> QED BY <2>1, <2>2
<1> QED
  BY <1>1, <1>2, <1>3, FilesHold, PTL DEF Spec
=============================================================================
