------------------------------ MODULE ScanCodegen ------------------------------
(***************************************************************************)
(* The life of generated code.  Scanners of one table decode with the      *)
(* interpreter and record a profile of every encoded column; their         *)
(* destructors merge the profiles, the last one generates a specialised    *)
(* decoder for each column and saves the module; a later process that runs *)
(* without code generation loads it.  include/Table.h (getCodeGen, reg,    *)
(* unreg), src/exec/ORCScanner.cpp (prepare, nextBatch, the destructor),   *)
(* src/codegen/llvm-codegen.cpp (the module) and genfunc_rle of            *)
(* src/orc-ir/genfunc-ir.cpp.                                              *)
(*                                                                         *)
(* A profile is the set of shapes of the runs met, a shape being a kind of *)
(* run and its width; a generated decoder is the profile it was made from. *)
(* The IR, its optimisation and the bytes of the module are left out, and  *)
(* the two files of a module are one.                                      *)
(***************************************************************************)
EXTENDS Naturals, Sequences, FiniteSets

CONSTANTS
  Scanner,     \* scanners of the table
  Shape,       \* <<kind, width>> of a run
  Stripes,     \* what a column of a stripe may hold: sets of shapes
  Selections,  \* the columns a scan may select: sequences of "int", "date", "plain"
  None,        \* no decoder, no profile, no module
  Deleted,     \* a profile that has been deleted
  MaxBatches,  \* bound: stripes a scanner reads
  MaxSessions  \* bound: runs of the program

\* The shapes met in a column, or None; the same as it is written, with the
\* shapes that totalRunLength counts.
Profile == (SUBSET Shape) \cup {None}
Infos == [shapes : SUBSET Shape, total : SUBSET Shape]

ASSUME CodegenAssumption ==
  /\ IsFiniteSet(Scanner)
  /\ Stripes \subseteq SUBSET Shape
  /\ Selections \subseteq Seq({"int", "date", "plain"})
  /\ MaxSessions \in Nat \ {0}
  /\ \A shapes \in SUBSET Shape : shapes # None
  /\ None \notin Infos /\ Deleted \notin Infos
  /\ \A selected \in Selections : None \notin [DOMAIN selected -> Profile]

VARIABLES
  session, codegen,  \* the process and its FLAGS_codegen
  columns,           \* types of the columns selected
  registered,        \* Table::registered
  gen,               \* Table::gen: the decoder of each column, or None
  finalized,         \* calls of FinalizeModule
  disk,              \* the saved module: [functions, met], or None
  pc, batches,       \* of each scanner
  colinfos,          \* its profile of each column, or None
  global,            \* colinfos_global: a profile, Deleted or None
  buf, at, changed,  \* locals of its destructor
  met,               \* history: shapes met in this process, by column
  late,              \* history: some scanner was made after another began to be destroyed
  garbled,           \* a decoder was used on a run it was not made for
  crashed

scanVars == <<pc, batches, colinfos>>
genVars  == <<buf, at, changed>>
vars == <<session, codegen, columns, registered, gen, finalized, disk, scanVars,
          global, genVars, met, late, garbled, crashed>>

Column == DOMAIN columns
Encoded == {c \in Column : columns[c] # "plain"}
NoColumns == [c \in Column |-> None]

\* hasFunction("next_" + the column)
Missing(g) == {c \in Encoded : g[c] = None}

Each(x) == [s \in Scanner |-> x]

\* A process that has opened its table; code is generated unless its user says
\* otherwise.
Init ==
  /\ session = 1 /\ codegen = TRUE /\ columns \in Selections /\ disk = None
  /\ registered = 0 /\ gen = None /\ finalized = 0 /\ global = NoColumns
  /\ pc = Each("new") /\ batches = Each(0) /\ colinfos = Each(NoColumns)
  /\ buf = Each(<<>>) /\ at = Each(1) /\ changed = Each(FALSE)
  /\ met = [c \in Column |-> {}] /\ late = FALSE /\ garbled = FALSE /\ crashed = FALSE

Go(s, from, to) == pc[s] = from /\ pc' = [pc EXCEPT ![s] = to]

Begun == {"merged", "encode", "generate", "clear", "gone"}

\* Table::reg and unreg, each under the table's lock.
reg == registered + 1
\* (faulty variant of unreg: the count is read and not written)
unreg_Kept == registered
unreg == registered - 1

\* The constructor counts the scanner.
Construct(s) ==
  /\ Go(s, "new", "built")
  /\ registered' = reg
  /\ late' = (late \/ \E t \in Scanner : pc[t] \in Begun)
  /\ UNCHANGED <<session, codegen, columns, gen, finalized, disk, batches, colinfos,
                 global, genVars, met, garbled, crashed>>

\* Table::getCodeGen: the module of the table, loaded or new, made once.
CodeGen ==
  IF gen # None THEN gen
  ELSE IF disk # None /\ ~codegen THEN disk.functions
  ELSE NoColumns

\* prepare: a profile for each encoded column that has no decoder yet.
Prepare(s) ==
  /\ Go(s, "built", "scan")
  /\ gen' = CodeGen
  /\ colinfos' = [colinfos EXCEPT ![s] =
                    [c \in Column |-> IF c \in Missing(gen') THEN {} ELSE None]]
  /\ UNCHANGED <<session, codegen, columns, registered, finalized, disk, batches,
                 global, genVars, met, late, garbled, crashed>>

Kinds(profile) == {x[1] : x \in profile}
Widths(profile, k) == {x[2] : x \in {y \in profile : y[1] = k}}

\* A run of a kind the decoder has no case for: one with several cases returns
\* 0 and leaves the index where it is, so that the loop of nextBatch never ends.
Hangs(f, x) == x[1] \notin Kinds(f) /\ Cardinality(Kinds(f)) > 1

\* A decoder with a single case takes every run for that, and a case with a
\* single width takes every run for one of that width.
Garbles(f, x) ==
  \/ x[1] \notin Kinds(f) /\ Cardinality(Kinds(f)) <= 1
  \/ x[1] \in Kinds(f) /\ Cardinality(Widths(f, x[1])) = 1 /\ x[2] \notin Widths(f, x[1])

Outcome(Bad(_, _), shapes) ==
  \E c \in Encoded \ Missing(gen) : \E x \in shapes[c] : Bad(gen[c], x)

\* nextBatch: a stripe with runs of the given shapes in each encoded column,
\* decoded by the decoder of the column or by the interpreter, which records
\* them when code is to be generated.
NextBatch(s, shapes) ==
  /\ batches[s] < MaxBatches
  /\ Go(s, "scan", IF Outcome(Hangs, shapes) THEN "hung" ELSE "scan")
  /\ batches' = [batches EXCEPT ![s] = @ + 1]
  /\ colinfos' = [colinfos EXCEPT ![s] =
       [c \in Column |-> IF codegen /\ c \in Missing(gen) THEN @[c] \cup shapes[c] ELSE @[c]]]
  /\ met' = [c \in Column |-> IF c \in Encoded THEN met[c] \cup shapes[c] ELSE {}]
  /\ garbled' = (garbled \/ Outcome(Garbles, shapes))
  /\ UNCHANGED <<session, codegen, columns, registered, gen, finalized, disk, global,
                 genVars, late, crashed>>

\* A profile as it is written: the runs met, and those totalRunLength counts.
Counted(profile) == [shapes |-> profile, total |-> profile]

\* EncodingInfo::merge adds the runs and not totalRunLength.
Added(info, profile) == [info EXCEPT !.shapes = @ \cup profile]

\* (faulty variant of Merged: the last profile replaces the others)
Merged_Last(s) ==
  [c \in Column |-> IF c \in Missing(gen) THEN Counted(colinfos[s][c]) ELSE global[c]]

\* colinfos_global after the profiles of a scanner: the first to come are
\* copied, later ones are added.
Merged(s) ==
  [c \in Column |->
     IF c \notin Missing(gen) THEN global[c]
     ELSE IF global = NoColumns THEN Counted(colinfos[s][c])
     ELSE Added(global[c], colinfos[s][c])]

\* The columns for which colinfos_global has no profile to offer.
Lacking == {c \in Missing(gen) : global[c] \in {None, Deleted}}

\* First part of the destructor, under ORCScanner::mtx.
Merge(s) ==
  /\ Go(s, "scan", "merged")
  /\ IF global # NoColumns /\ Lacking # {}
       THEN crashed' = TRUE /\ UNCHANGED global
       ELSE global' = Merged(s) /\ UNCHANGED crashed
  /\ UNCHANGED <<session, codegen, columns, registered, gen, finalized, disk, batches,
                 colinfos, genVars, met, late, garbled>>

\* (faulty variant of LastToLeave: every scanner takes itself for the last)
LastToLeave_Always == TRUE

\* unreg returned 0.
LastToLeave == unreg = 0

\* What is left of a scanner whose destructor has returned.
Forget(s) == colinfos' = [colinfos EXCEPT ![s] = NoColumns]

\* The scanner leaves; the last one cleans up, and generates if it should.
Unreg(s) ==
  /\ pc[s] = "merged"
  /\ registered' = unreg
  /\ Go(s, "merged", IF ~LastToLeave THEN "gone" ELSE IF codegen THEN "encode" ELSE "clear")
  /\ Forget(s)
  /\ UNCHANGED <<session, codegen, columns, gen, finalized, disk, batches, global,
                 genVars, met, late, garbled, crashed>>

Entry(c) == [col |-> c, info |-> global[c]]

\* The columns of a set from the first to the last.
InOrder(cs) ==
  {order \in [1 .. Cardinality(cs) -> cs] : \A i, j \in DOMAIN order : i < j => order[i] < order[j]}

\* The merged profiles are written to a buffer, one after the other, and
\* deleted; colinfos_global keeps the pointers.
Encode(s) ==
  /\ Go(s, "encode", "generate")
  /\ IF Lacking # {}
       THEN crashed' = TRUE /\ UNCHANGED <<global, buf>>
       ELSE /\ \E order \in InOrder(Missing(gen)) :
                 buf' = [buf EXCEPT ![s] = [k \in DOMAIN order |-> Entry(order[k])]]
            /\ global' = [c \in Column |-> IF c \in Missing(gen) THEN Deleted ELSE global[c]]
            /\ UNCHANGED crashed
  /\ at' = [at EXCEPT ![s] = 1]
  /\ changed' = [changed EXCEPT ![s] = FALSE]
  /\ UNCHANGED <<session, codegen, columns, registered, gen, finalized, disk, batches,
                 colinfos, met, late, garbled>>

\* (faulty variant of Turn: the first entry is skipped)
Turn_Next(s) == at[s] + 1

\* The entry that a turn of the loop over ALL columns reads.
Turn(s) == at[s]

\* genfunc_next for what has been read, named after the column read; there is
\* no generator for dates.
Generated(e) ==
  IF columns[e.col] = "int" /\ gen[e.col] = None
    THEN [gen EXCEPT ![e.col] = e.info.shapes] ELSE gen

\* RLEInfo::toString divides the length of each kind of run by the total.
DividesByZero(e) == e.info.shapes # {} /\ e.info.total = {}

\* One turn: an entry is read, and used if the column of the turn still needs
\* a decoder, when it is first printed.
GenerateColumn(s) ==
  /\ pc[s] = "generate" /\ at[s] <= Len(columns) /\ Turn(s) <= Len(buf[s])
  /\ IF at[s] \in Missing(gen)
       THEN /\ gen' = Generated(buf[s][Turn(s)])
            /\ changed' = [changed EXCEPT ![s] = TRUE]
            /\ crashed' = DividesByZero(buf[s][Turn(s)])
       ELSE UNCHANGED <<gen, changed, crashed>>
  /\ at' = [at EXCEPT ![s] = @ + 1]
  /\ UNCHANGED <<session, codegen, columns, registered, finalized, disk, scanVars,
                 global, buf, met, late, garbled>>

\* A turn past the last entry reads bytes nobody wrote: the length of a name
\* that may be anything, or zeros, for which nothing is generated.
ReadPast(s) ==
  /\ pc[s] = "generate" /\ at[s] <= Len(columns) /\ Turn(s) > Len(buf[s])
  /\ crashed' \in BOOLEAN
  /\ changed' = [changed EXCEPT ![s] = @ \/ at[s] \in Missing(gen)]
  /\ at' = [at EXCEPT ![s] = @ + 1]
  /\ UNCHANGED <<session, codegen, columns, registered, gen, finalized, disk, scanVars,
                 global, buf, met, late, garbled>>

\* A decoder made for no kind of run has a first block without an end; what
\* LLVM makes of it is anybody's guess.
Malformed == \E c \in Encoded : gen[c] = {}

\* The module is finalized and saved if the loop came to genfunc_next.
Finalize(s) ==
  /\ at[s] > Len(columns)
  /\ Go(s, "generate", "clear")
  /\ crashed' \in (IF changed[s] /\ Malformed THEN BOOLEAN ELSE {FALSE})
  /\ IF changed[s] /\ ~crashed'
       THEN finalized' = finalized + 1 /\ disk' = [functions |-> gen, met |-> met]
       ELSE UNCHANGED <<finalized, disk>>
  /\ buf' = [buf EXCEPT ![s] = <<>>]
  /\ at' = [at EXCEPT ![s] = 1]
  /\ changed' = [changed EXCEPT ![s] = FALSE]
  /\ UNCHANGED <<session, codegen, columns, registered, gen, batches, colinfos, global,
                 met, late, garbled>>

\* colinfos_global.clear(), without its lock.
Clear(s) ==
  /\ Go(s, "clear", "gone")
  /\ global' = NoColumns
  /\ UNCHANGED <<session, codegen, columns, registered, gen, finalized, disk, batches,
                 colinfos, genVars, met, late, garbled, crashed>>

Destroy(s) ==
  \/ Merge(s) \/ Unreg(s) \/ Encode(s) \/ GenerateColumn(s) \/ ReadPast(s)
  \/ Finalize(s) \/ Clear(s)

Over == crashed \/ \A s \in Scanner : pc[s] \in {"new", "gone", "hung"}

\* The process has ended, or is killed in its endless loop; the next one has
\* the flag its user gives it, and may meet other data.
Restart ==
  /\ Over /\ session < MaxSessions
  /\ session' = session + 1 /\ codegen' \in BOOLEAN
  /\ registered' = 0 /\ gen' = None /\ finalized' = 0 /\ global' = NoColumns
  /\ pc' = Each("new") /\ batches' = Each(0) /\ colinfos' = Each(NoColumns)
  /\ buf' = Each(<<>>) /\ at' = Each(1) /\ changed' = Each(FALSE)
  /\ met' = [c \in Column |-> {}] /\ garbled' = FALSE /\ crashed' = FALSE
  /\ UNCHANGED <<columns, disk, late>>

Ended == Over /\ UNCHANGED vars

Next ==
  \/ ~crashed /\ \E s \in Scanner :
       \/ Construct(s) \/ Prepare(s) \/ Destroy(s)
       \/ \E shapes \in [Encoded -> Stripes] : NextBatch(s, shapes)
  \/ Restart
  \/ Ended

Spec == Init /\ [][Next]_vars
-----------------------------------------------------------------------------
(***************************************************************************)
(* Properties                                                              *)
(***************************************************************************)
TypeOK ==
  /\ session \in 1 .. MaxSessions /\ columns \in Selections
  /\ registered = Cardinality({s \in Scanner : pc[s] \in {"built", "scan", "hung", "merged"}})
  /\ gen = None \/ gen \in [Column -> Profile]
  /\ colinfos \in [Scanner -> [Column -> Profile]]
  /\ \A c \in Column : \/ global[c] \in {None, Deleted}
                        \/ global[c] \in Infos
  /\ \A s \in Scanner : at[s] \in 1 .. Len(columns) + 1

\* What the last scanner writes for a column is everything that any scanner of
\* the table has met there: each merges before it leaves, and only the last to
\* leave generates.  Not so when a scanner is made after one has left.
ProfileComplete ==
  ~late /\ ~crashed =>
    \A s \in Scanner : pc[s] = "generate" =>
      \A k \in DOMAIN buf[s] : buf[s][k].info.shapes = met[buf[s][k].col]

\* The loop that reads the profiles back turns over all columns although only
\* the encoded ones have been written.  A column of numbers is left without a
\* decoder only if a FLOAT or DOUBLE column has been selected before it.
GeneratedUnlessShifted ==
  ~late /\ ~crashed /\ finalized > 0 =>
    \A c \in Column : columns[c] = "int" /\ gen[c] = None =>
      \E p \in 1 .. c-1 : columns[p] = "plain"

\* A decoder is used on a run it was not made for, or spins on it, only if the
\* process that saved it met no run of that shape in that column.
FaultsOnlyOnUnseen ==
  (garbled \/ \E s \in Scanner : pc[s] = "hung") =>
    \/ late
    \/ disk # None /\ \E c \in Encoded : gen[c] # None /\ ~(met[c] \subseteq disk.met[c])

\* The destructors come to their end unless a FLOAT or DOUBLE column makes the
\* loop read past the profiles, or one of the scanners goes without having met
\* a run: its profile may be the first, whose total is the one divided by.
DestroyedSafely ==
  crashed => \/ late \/ Encoded # Column
             \/ \E s \in Scanner : batches[s] = 0 /\ pc[s] \in Begun

\* assert(!is_compiled_), llvm-codegen.cpp:557: a module is finalized once, as
\* long as no scanner is made after another one has left.
FinalizedOnce == ~late => finalized <= 1

\* assert(encoding_count>0), genfunc-ir.cpp:898: a decoder is made from at
\* least one kind of run.
EncodingCounted ==
  \A s \in Scanner :
    pc[s] = "generate" /\ at[s] \in Missing(gen) /\ Turn(s) <= Len(buf[s])
      /\ columns[buf[s][Turn(s)].col] = "int" => buf[s][Turn(s)].info.shapes # {}
=============================================================================
