-------------------------- MODULE ScanCodegen_proofs --------------------------
(***************************************************************************)
(* Proofs about the life of generated code, for any number of scanners,    *)
(* columns, stripes and runs of the program.                               *)
(***************************************************************************)
EXTENDS ScanCodegen, FiniteSetTheorems, SequenceTheorems, TLAPS

Locations == {"new", "built", "scan", "hung", "merged", "encode", "generate", "clear", "gone"}

Entries == [col : Column, info : Infos]

\* A scanner that has not left decodes with the module of the table, and has a
\* profile of every column the module has no decoder for.
PreparedInv ==
  \A s \in Scanner :
    /\ pc[s] \in {"scan", "hung", "merged", "encode", "generate"} => gen # None
    /\ pc[s] \in {"scan", "hung"} => \A c \in Missing(gen) : colinfos[s][c] \in SUBSET Shape
    /\ pc[s] \in {"encode", "generate"} => codegen

Types ==
  /\ session \in 1 .. MaxSessions /\ columns \in Selections
  /\ pc \in [Scanner -> Locations]
  /\ finalized \in Nat
  /\ gen = None \/ gen \in [Column -> Profile]
  /\ colinfos \in [Scanner -> [Column -> Profile]]
  /\ global \in [Column -> {None, Deleted} \cup Infos]
  /\ buf \in [Scanner -> Seq(Entries)]
  /\ at \in [Scanner -> 1 .. Len(columns) + 1]
  /\ met \in [Column -> SUBSET Shape]
  /\ disk = None \/ disk \in [functions : [Column -> Profile], met : [Column -> SUBSET Shape]]

Live == {s \in Scanner : pc[s] \in {"built", "scan", "hung", "merged"}}

CountInv == registered = Cardinality(Live)

\* The last scanner is alone from the moment unreg has told it so, and a module
\* is finalized by the last one only.
LastInv ==
  ~late =>
    /\ \A s \in Scanner : pc[s] \in {"encode", "generate", "clear"} =>
         \A t \in Scanner \ {s} : pc[t] \in {"new", "gone"}
    /\ \/ finalized = 0
       \/ /\ finalized = 1
          /\ \E s \in Scanner : /\ pc[s] \in {"clear", "gone"}
                                /\ \A t \in Scanner \ {s} : pc[t] \in {"new", "gone"}

\* Profiles are still collected.
Collecting ==
  /\ \A s \in Scanner : pc[s] \notin {"generate", "clear"}
  /\ \/ \E s \in Scanner : pc[s] \in {"built", "scan", "hung", "merged", "encode"}
     \/ \A s \in Scanner : pc[s] = "new"

Global(c) == IF global[c] \in Infos THEN global[c].shapes ELSE {}

\* The runs in the profiles of the scanners that have not merged theirs yet.
Unmerged(c) == {x \in Shape : \E s \in Scanner : pc[s] \in {"scan", "hung"} /\ x \in colinfos[s][c]}

\* Every run met is in the merged profile or in that of a scanner that has not
\* merged yet, and nothing is decoded by generated code.
ProfileInv ==
  ~late /\ ~crashed /\ codegen /\ Collecting =>
    /\ gen \in {None, NoColumns}
    /\ \A c \in Encoded :
         met[c] = Global(c) \cup Unmerged(c)
    /\ \/ \A c \in Encoded : global[c] \in Infos
       \/ global = NoColumns /\ \A s \in Scanner : pc[s] \notin {"merged", "encode", "gone"}

\* What has been written is what has been met, and so is what is generated.
WrittenInv ==
  ~late /\ ~crashed =>
    /\ \A s \in Scanner : pc[s] = "generate" =>
         \A k \in DOMAIN buf[s] : buf[s][k].info.shapes = met[buf[s][k].col]
    /\ codegen /\ gen # None => \A c \in Encoded : gen[c] \in {None, met[c]}

\* A saved decoder is made for all that the process that saved it has met; one
\* that does not generate uses what is saved.
SavedInv ==
  /\ ~late /\ disk # None => \A c \in Encoded : disk.functions[c] \in {None, disk.met[c]}
  /\ ~codegen /\ gen # None => gen = IF disk # None THEN disk.functions ELSE NoColumns

\* Only a decoder that was loaded, and a run unknown to it, does harm.
FaultInv ==
  ~late /\ (garbled \/ \E s \in Scanner : pc[s] = "hung") =>
    /\ ~codegen /\ gen # None /\ disk # None
    /\ \E c \in Encoded : gen[c] # None /\ ~(met[c] \subseteq disk.met[c])

Inv == Types /\ PreparedInv /\ CountInv /\ LastInv /\ ProfileInv /\ WrittenInv /\ SavedInv /\ FaultInv
-----------------------------------------------------------------------------
(***************************************************************************)
(* Types.                                                                  *)
(***************************************************************************)
\* What the assumption says of the constants.
ConstantFacts ==
  /\ IsFiniteSet(Scanner) /\ Stripes \subseteq SUBSET Shape
  /\ columns \in Seq({"int", "date", "plain"}) /\ Column = 1 .. Len(columns)
  /\ None \notin SUBSET Shape /\ None \notin Infos /\ Deleted \notin Infos
  /\ None \notin [Column -> Profile] /\ MaxSessions \in Nat \ {0}
  /\ None \in Profile /\ {} \in Profile /\ SUBSET Shape \subseteq Profile
  /\ NoColumns \in [Column -> Profile] /\ NoColumns # None

\* It holds for the columns that were selected.
LEMMA Constants == columns \in Selections => ConstantFacts
<1>. SUFFICES ASSUME columns \in Selections PROVE ConstantFacts
  OBVIOUS
<1>1. None \in Profile /\ {} \in Profile /\ SUBSET Shape \subseteq Profile
  BY DEF Profile
<1>2. NoColumns \in [Column -> Profile]
  BY <1>1 DEF NoColumns
<1>3. None \notin [Column -> Profile]
  BY CodegenAssumption DEF Column
<1>4. /\ IsFiniteSet(Scanner) /\ Stripes \subseteq SUBSET Shape
      /\ columns \in Seq({"int", "date", "plain"}) /\ Column = 1 .. Len(columns)
      /\ None \notin SUBSET Shape /\ None \notin Infos /\ Deleted \notin Infos
      /\ MaxSessions \in Nat \ {0}
  BY CodegenAssumption DEF Column
<1>. QED
  BY <1>1, <1>2, <1>3, <1>4 DEF ConstantFacts

\* The numbers from 1 to n are finitely many.
LEMMA FiniteInterval == ASSUME NEW n \in Nat PROVE IsFiniteSet(1 .. n)
<1>1. n \in Int /\ 1 \in Int
  OBVIOUS
<1>. QED
  BY <1>1, FS_Interval

\* A function on the numbers from 1 to n is a sequence.
LEMMA FunctionIsSequence ==
  ASSUME NEW S, NEW n \in Nat, NEW f \in [1 .. n -> S]
  PROVE  f \in Seq(S)
BY SeqDef

\* The columns of a table do not change.
LEMMA Same ==
  ASSUME [Next]_vars
  PROVE  columns' = columns /\ Column' = Column /\ Encoded' = Encoded /\ Entries' = Entries
         /\ NoColumns' = NoColumns
<1>1. columns' = columns
  BY DEF Next, vars, Construct, Prepare, NextBatch, Destroy, Merge, Unreg, Encode, GenerateColumn,
         ReadPast, Finalize, Clear, Restart, Ended
<1>. QED
  BY <1>1 DEF Column, Encoded, Entries, NoColumns

\* Types are preserved.
LEMMA TypeStep ==
  ASSUME Types, PreparedInv, [Next]_vars
  PROVE  Types'
<1>. USE DEF Types, Go, scanVars, genVars, Locations
<1>0. /\ ConstantFacts /\ columns' = columns /\ Column' = Column /\ Encoded' = Encoded
      /\ Entries' = Entries /\ NoColumns' = NoColumns
  BY Constants, Same DEF Types
<1>. USE <1>0 DEF ConstantFacts
<1>00. disk # None => disk.functions \in [Column -> Profile]
  OBVIOUS
<1>1. ASSUME NEW s \in Scanner, ~crashed, Construct(s) PROVE Types'
  BY <1>1 DEF Construct
<1>2. ASSUME NEW s \in Scanner, ~crashed, Prepare(s) PROVE Types'
  <2>1. CodeGen \in [Column -> Profile]
    BY <1>00 DEF CodeGen
  <2>2. gen' \in [Column -> Profile]
    BY <1>2, <2>1 DEF Prepare
  <2>3. [c \in Column |-> IF c \in Missing(gen') THEN {} ELSE None] \in [Column -> Profile]
    OBVIOUS
  <2>4. colinfos' \in [Scanner -> [Column -> Profile]]
    BY <1>2, <2>3 DEF Prepare
  <2>5. pc' \in [Scanner -> Locations]
    BY <1>2 DEF Prepare
  <2>6. UNCHANGED <<session, columns, finalized, disk, global, buf, at, met>>
    BY <1>2 DEF Prepare
  <2>. QED
    BY <2>2, <2>4, <2>5, <2>6
<1>3. ASSUME NEW s \in Scanner, ~crashed, NEW shapes \in [Encoded -> Stripes], NextBatch(s, shapes) PROVE Types'
  <2>1. shapes \in [Encoded -> SUBSET Shape]
    OBVIOUS
  <2>2. [c \in Column |-> IF codegen /\ c \in Missing(gen) THEN colinfos[s][c] \cup shapes[c]
                          ELSE colinfos[s][c]] \in [Column -> Profile]
    <3>1. \A c \in Missing(gen) : c \in Encoded /\ colinfos[s][c] \in SUBSET Shape
      BY <1>3 DEF NextBatch, PreparedInv, Missing
    <3>2. \A c \in Missing(gen) : colinfos[s][c] \cup shapes[c] \in Profile
      BY <2>1, <3>1
    <3>3. \A c \in Column : colinfos[s][c] \in Profile
      OBVIOUS
    <3>. QED
      BY <3>2, <3>3
  <2>3. colinfos' \in [Scanner -> [Column -> Profile]]
    BY <1>3, <2>2 DEF NextBatch
  <2>4. met' \in [Column -> SUBSET Shape]
    BY <1>3, <2>1 DEF NextBatch
  <2>5. pc' \in [Scanner -> Locations]
    BY <1>3 DEF NextBatch
  <2>6. UNCHANGED <<session, columns, finalized, disk, global, buf, at, gen>>
    BY <1>3 DEF NextBatch
  <2>. QED
    BY <2>3, <2>4, <2>5, <2>6
<1>4. ASSUME NEW s \in Scanner, ~crashed, Merge(s) PROVE Types'
  <2>1. CASE UNCHANGED global
    BY <1>4, <2>1 DEF Merge
  <2>2. CASE global' = Merged(s) /\ ~(global # NoColumns /\ Lacking # {})
    <3>1. \A c \in Missing(gen) : c \in Column /\ colinfos[s][c] \in SUBSET Shape
      BY <1>4 DEF Merge, PreparedInv, Missing, Encoded
    <3>2. \A c \in Missing(gen) : Counted(colinfos[s][c]) \in Infos
      BY <3>1 DEF Counted, Infos
    <3>3. ASSUME global # NoColumns, NEW c \in Missing(gen)
          PROVE  Added(global[c], colinfos[s][c]) \in Infos
      <4>1. global[c] \in Infos
        BY <2>2, <3>1, <3>3 DEF Lacking
      <4>. QED
        BY <3>1, <4>1 DEF Added, Infos
    <3>4. Merged(s) \in [Column -> {None, Deleted} \cup Infos]
      BY <3>2, <3>3 DEF Merged
    <3>. QED
      BY <1>4, <2>2, <3>4 DEF Merge
  <2>. QED
    BY <1>4, <2>1, <2>2 DEF Merge
<1>5. ASSUME NEW s \in Scanner, ~crashed, Unreg(s) PROVE Types'
  <2>1. NoColumns \in [Column -> Profile]
    OBVIOUS
  <2>2. colinfos' \in [Scanner -> [Column -> Profile]]
    BY <1>5, <2>1 DEF Unreg, Forget
  <2>3. pc' \in [Scanner -> Locations]
    BY <1>5 DEF Unreg
  <2>4. UNCHANGED <<session, columns, finalized, disk, global, buf, at, gen, met>>
    BY <1>5 DEF Unreg
  <2>. QED
    BY <2>2, <2>3, <2>4
<1>6. ASSUME NEW s \in Scanner, ~crashed, Encode(s) PROVE Types'
  <2>1. at' \in [Scanner -> 1 .. Len(columns) + 1]
    <3>1. 1 \in 1 .. Len(columns) + 1
      OBVIOUS
    <3>. QED
      BY <1>6, <3>1 DEF Encode
  <2>2. pc' \in [Scanner -> Locations]
    BY <1>6 DEF Encode
  <2>3. UNCHANGED <<session, columns, finalized, disk, gen, met, colinfos>>
    BY <1>6 DEF Encode
  <2>4. CASE UNCHANGED <<global, buf>>
    BY <2>1, <2>2, <2>3, <2>4
  <2>5. CASE Lacking = {}
    <3>1. global' \in [Column -> {None, Deleted} \cup Infos]
      BY <1>6, <2>5 DEF Encode
    <3>2. PICK order \in InOrder(Missing(gen)) :
            buf' = [buf EXCEPT ![s] = [k \in DOMAIN order |-> Entry(order[k])]]
      BY <1>6, <2>5 DEF Encode
    <3>3. DOMAIN order = 1 .. Cardinality(Missing(gen)) /\ \A k \in DOMAIN order : order[k] \in Missing(gen)
      BY <3>2 DEF InOrder
    <3>4. Cardinality(Missing(gen)) \in Nat
      <4>1. IsFiniteSet(1 .. Len(columns)) /\ Missing(gen) \subseteq 1 .. Len(columns)
        <5>1. Len(columns) \in Nat /\ 1 \in Int
          OBVIOUS
        <5>2. PICK n \in Nat : n = Len(columns)
          BY <5>1
        <5>3. IsFiniteSet(1 .. n)
          BY <5>2, FiniteInterval
        <5>. QED
          BY <5>2, <5>3 DEF Missing, Encoded
      <4>2. IsFiniteSet(Missing(gen))
        BY <4>1, FS_Subset
      <4>. QED
        BY <4>2, FS_CardinalityType
    <3>5. \A c \in Missing(gen) : Entry(c) \in Entries
      BY <2>5 DEF Entry, Entries, Lacking, Missing, Encoded
    <3>6. [k \in DOMAIN order |-> Entry(order[k])] \in Seq(Entries)
      <4>1. PICK n \in Nat : n = Cardinality(Missing(gen))
        BY <3>4
      <4>2. DOMAIN order = 1 .. n /\ \A k \in 1 .. n : Entry(order[k]) \in Entries
        BY <3>3, <3>5, <4>1
      <4>3. [k \in 1 .. n |-> Entry(order[k])] \in Seq(Entries)
        <5>1. [k \in 1 .. n |-> Entry(order[k])] \in [1 .. n -> Entries]
          BY <4>2
        <5>. QED
          BY <4>1, <5>1, FunctionIsSequence
      <4>. QED
        BY <4>2, <4>3
    <3>7. buf' \in [Scanner -> Seq(Entries)]
      BY <3>2, <3>6
    <3>. QED
      BY <2>1, <2>2, <2>3, <3>1, <3>7
  <2>. QED
    BY <1>6, <2>4, <2>5 DEF Encode
<1>7. ASSUME NEW s \in Scanner, ~crashed, GenerateColumn(s) PROVE Types'
  <2>1. at[s] \in 1 .. Len(columns) /\ at[s] \in 1 .. Len(buf[s]) /\ gen # None
    BY <1>7 DEF GenerateColumn, Turn, PreparedInv
  <2>2. at' \in [Scanner -> 1 .. Len(columns) + 1]
    <3>1. at[s] + 1 \in 1 .. Len(columns) + 1 /\ at' = [at EXCEPT ![s] = @ + 1]
      BY <1>7, <2>1 DEF GenerateColumn
    <3>. QED
      BY <3>1
  <2>3. buf[s][at[s]] \in Entries
    BY <2>1
  <2>4. Generated(buf[s][at[s]]) \in [Column -> Profile]
    BY <2>1, <2>3 DEF Generated, Entries, Infos, Profile
  <2>5. gen' \in [Column -> Profile]
    BY <1>7, <2>1, <2>4 DEF GenerateColumn, Turn
  <2>6. UNCHANGED <<session, columns, finalized, disk, global, buf, pc, met, colinfos>>
    BY <1>7 DEF GenerateColumn
  <2>. QED
    BY <2>2, <2>5, <2>6
<1>8. ASSUME NEW s \in Scanner, ~crashed, ReadPast(s) PROVE Types'
  <2>1. at' \in [Scanner -> 1 .. Len(columns) + 1]
    <3>1. at[s] + 1 \in 1 .. Len(columns) + 1 /\ at' = [at EXCEPT ![s] = @ + 1]
      BY <1>8 DEF ReadPast
    <3>. QED
      BY <3>1
  <2>2. UNCHANGED <<session, columns, finalized, disk, global, buf, pc, met, colinfos, gen>>
    BY <1>8 DEF ReadPast
  <2>. QED
    BY <2>1, <2>2
<1>9. ASSUME NEW s \in Scanner, ~crashed, Finalize(s) PROVE Types'
  <2>1. at' \in [Scanner -> 1 .. Len(columns) + 1]
    <3>1. 1 \in 1 .. Len(columns) + 1 /\ at' = [at EXCEPT ![s] = 1]
      BY <1>9 DEF Finalize
    <3>. QED
      BY <3>1
  <2>2. buf' \in [Scanner -> Seq(Entries)]
    BY <1>9 DEF Finalize
  <2>3. pc' \in [Scanner -> Locations] /\ gen # None
    BY <1>9 DEF Finalize, PreparedInv
  <2>4. UNCHANGED <<session, columns, global, met, colinfos, gen>>
    BY <1>9 DEF Finalize
  <2>5. /\ finalized' \in Nat
        /\ disk' = None \/ disk' \in [functions : [Column -> Profile], met : [Column -> SUBSET Shape]]
    <3>1. \/ finalized' = finalized + 1 /\ disk' = [functions |-> gen, met |-> met]
          \/ finalized' = finalized /\ disk' = disk
      BY <1>9 DEF Finalize
    <3>. QED
      BY <2>3, <3>1
  <2>. QED
    BY <2>1, <2>2, <2>3, <2>4, <2>5
<1>10. ASSUME NEW s \in Scanner, ~crashed, Clear(s) PROVE Types'
  <2>1. global' \in [Column -> {None, Deleted} \cup Infos]
    BY <1>10 DEF Clear, NoColumns
  <2>2. pc' \in [Scanner -> Locations]
    BY <1>10 DEF Clear
  <2>3. UNCHANGED <<session, columns, finalized, disk, gen, buf, at, met, colinfos>>
    BY <1>10 DEF Clear
  <2>. QED
    BY <2>1, <2>2, <2>3
<1>11. ASSUME Restart PROVE Types'
  <2>1. session' \in 1 .. MaxSessions
    BY <1>11 DEF Restart
  <2>2. /\ pc' \in [Scanner -> Locations] /\ at' \in [Scanner -> 1 .. Len(columns) + 1]
        /\ met' \in [Column -> SUBSET Shape] /\ gen' = None /\ finalized' \in Nat
    BY <1>11 DEF Restart, Each
  <2>3. /\ global' \in [Column -> {None, Deleted} \cup Infos]
        /\ colinfos' \in [Scanner -> [Column -> Profile]]
    <3>1. global' = NoColumns /\ colinfos' = [t \in Scanner |-> NoColumns]
      BY <1>11 DEF Restart, Each
    <3>. QED
      BY <3>1 DEF NoColumns
  <2>4. buf' \in [Scanner -> Seq(Entries)]
    <3>1. <<>> \in Seq(Entries)
      OBVIOUS
    <3>. QED
      BY <1>11, <3>1 DEF Restart, Each
  <2>5. UNCHANGED <<columns, disk>>
    BY <1>11 DEF Restart
  <2>. QED
    BY <2>1, <2>2, <2>3, <2>4, <2>5
<1>12. CASE UNCHANGED vars
  BY <1>12 DEF vars
<1>. QED
  BY <1>1, <1>2, <1>3, <1>4, <1>5, <1>6, <1>7, <1>8, <1>9, <1>10, <1>11, <1>12
     DEF Next, Destroy, Ended

\* What prepare gives a scanner, it keeps until it has merged.
LEMMA PreparedStep ==
  ASSUME Types, PreparedInv, [Next]_vars
  PROVE  PreparedInv'
<1>. USE DEF Types, PreparedInv, Go, scanVars, genVars, Locations
<1>0. /\ ConstantFacts /\ columns' = columns /\ Column' = Column /\ Encoded' = Encoded
      /\ Entries' = Entries /\ NoColumns' = NoColumns
  BY Constants, Same DEF Types
<1>. USE <1>0 DEF ConstantFacts
<1>1. ASSUME NEW s \in Scanner, ~crashed, Construct(s) PROVE PreparedInv'
  <2>1. Missing(gen)' = Missing(gen) /\ UNCHANGED <<gen, colinfos, codegen>>
    BY <1>1 DEF Construct, Missing
  <2>. QED
    BY <1>1, <2>1 DEF Construct
<1>2. ASSUME NEW s \in Scanner, ~crashed, Prepare(s) PROVE PreparedInv'
  <2>1. pc[s] = "built" /\ pc' = [pc EXCEPT ![s] = "scan"] /\ gen' = CodeGen
    BY <1>2 DEF Prepare
  <2>2. colinfos' = [colinfos EXCEPT ![s] = [c \in Column |-> IF c \in Missing(gen') THEN {} ELSE None]]
    BY <1>2 DEF Prepare
  <2>3. gen' # None
    <3>1. disk # None => disk.functions \in [Column -> Profile]
      OBVIOUS
    <3>. QED
      BY <2>1, <3>1 DEF CodeGen
  <2>4. \A c \in Missing(gen') : c \in Column /\ colinfos'[s][c] = {}
    BY <2>2 DEF Missing, Encoded
  <2>5. \A t \in Scanner \ {s} : colinfos'[t] = colinfos[t] /\ pc'[t] = pc[t]
    BY <2>1, <2>2
  <2>6. ASSUME NEW t \in Scanner \ {s}, pc[t] \in {"scan", "hung", "merged", "encode", "generate"}
        PROVE  gen' = gen
    BY <2>1, <2>6 DEF CodeGen
  <2>7. Missing(gen)' = Missing(gen')
    BY DEF Missing
  <2>. QED
    BY <1>2, <2>1, <2>3, <2>4, <2>5, <2>6, <2>7 DEF Prepare
<1>3. ASSUME NEW s \in Scanner, ~crashed, NEW shapes \in [Encoded -> Stripes], NextBatch(s, shapes) PROVE PreparedInv'
  <2>1. Missing(gen)' = Missing(gen) /\ gen' = gen /\ gen # None /\ codegen' = codegen
    BY <1>3 DEF NextBatch, Missing
  <2>2. \A c \in Missing(gen) : c \in Column /\ c \in Encoded /\ colinfos[s][c] \in SUBSET Shape
    BY <1>3 DEF NextBatch, Missing, Encoded
  <2>3. \A c \in Missing(gen) : colinfos'[s][c] \in SUBSET Shape
    BY <1>3, <2>2 DEF NextBatch
  <2>4. \A t \in Scanner \ {s} : colinfos'[t] = colinfos[t] /\ pc'[t] = pc[t]
    BY <1>3 DEF NextBatch
  <2>5. pc'[s] \in {"scan", "hung"}
    BY <1>3 DEF NextBatch
  <2>. QED
    BY <2>1, <2>3, <2>4, <2>5
<1>4. ASSUME NEW s \in Scanner, ~crashed, Merge(s) PROVE PreparedInv'
  <2>1. Missing(gen)' = Missing(gen) /\ UNCHANGED <<gen, colinfos, codegen>>
    BY <1>4 DEF Merge, Missing
  <2>. QED
    BY <1>4, <2>1 DEF Merge
<1>5. ASSUME NEW s \in Scanner, ~crashed, Unreg(s) PROVE PreparedInv'
  <2>1. \A t \in Scanner \ {s} : colinfos'[t] = colinfos[t] /\ pc'[t] = pc[t]
    BY <1>5 DEF Unreg, Forget
  <2>2. pc'[s] \in {"gone", "encode", "clear"} /\ (pc'[s] = "encode" => codegen) /\ gen # None
    BY <1>5 DEF Unreg
  <2>3. Missing(gen)' = Missing(gen) /\ gen' = gen /\ codegen' = codegen
    BY <1>5 DEF Unreg, Missing
  <2>. QED
    BY <2>1, <2>2, <2>3
<1>6. ASSUME NEW s \in Scanner, ~crashed, Encode(s) PROVE PreparedInv'
  <2>1. Missing(gen)' = Missing(gen) /\ UNCHANGED <<gen, colinfos, codegen>>
    BY <1>6 DEF Encode, Missing
  <2>. QED
    BY <1>6, <2>1 DEF Encode
<1>7. ASSUME NEW s \in Scanner, ~crashed, GenerateColumn(s) PROVE PreparedInv'
  <2>1. at[s] \in 1 .. Len(buf[s]) /\ gen # None
    BY <1>7 DEF GenerateColumn, Turn
  <2>2. buf[s][at[s]] \in Entries
    BY <2>1
  <2>3. Generated(buf[s][at[s]]) # None
    <3>1. Generated(buf[s][at[s]]) \in [Column -> Profile]
      BY <2>1, <2>2 DEF Generated, Entries, Infos, Profile
    <3>. QED
      BY <3>1
  <2>4. gen' # None
    BY <1>7, <2>1, <2>3 DEF GenerateColumn, Turn
  <2>5. \A c \in Encoded : gen'[c] = None => gen[c] = None
    <3>. DEFINE e == buf[s][at[s]]
    <3>1. gen' = gen \/ gen' = Generated(e)
      BY <1>7, Zenon DEF GenerateColumn, Turn
    <3>2. e.col \in Column /\ e.info \in Infos /\ e.info.shapes # None
      BY <2>2 DEF Entries, Infos
    <3>3. gen \in [Column -> Profile] /\ Encoded \subseteq Column
      BY <2>1 DEF Encoded
    <3>. HIDE DEF e
    <3>4. gen' = gen \/ gen' = [gen EXCEPT ![e.col] = e.info.shapes]
      BY <3>1, Zenon DEF Generated
    <3>. HIDE DEF Types, PreparedInv, ConstantFacts
    <3>. QED
      BY <3>2, <3>3, <3>4
  <2>6. \A c \in Missing(gen') : c \in Missing(gen)
    BY <2>5 DEF Missing
  <2>7. UNCHANGED <<pc, colinfos, codegen>>
    BY <1>7 DEF GenerateColumn
  <2>8. Missing(gen)' = Missing(gen')
    BY DEF Missing
  <2>. QED
    BY <2>4, <2>6, <2>7, <2>8
<1>8. ASSUME NEW s \in Scanner, ~crashed, ReadPast(s) PROVE PreparedInv'
  <2>1. Missing(gen)' = Missing(gen) /\ UNCHANGED <<gen, colinfos, codegen>>
    BY <1>8 DEF ReadPast, Missing
  <2>. QED
    BY <1>8, <2>1 DEF ReadPast
<1>9. ASSUME NEW s \in Scanner, ~crashed, Finalize(s) PROVE PreparedInv'
  <2>1. Missing(gen)' = Missing(gen) /\ UNCHANGED <<gen, colinfos, codegen>>
    BY <1>9 DEF Finalize, Missing
  <2>. QED
    BY <1>9, <2>1 DEF Finalize
<1>10. ASSUME NEW s \in Scanner, ~crashed, Clear(s) PROVE PreparedInv'
  <2>1. Missing(gen)' = Missing(gen) /\ UNCHANGED <<gen, colinfos, codegen>>
    BY <1>10 DEF Clear, Missing
  <2>. QED
    BY <1>10, <2>1 DEF Clear
<1>11. ASSUME Restart PROVE PreparedInv'
  <2>1. \A t \in Scanner : pc'[t] = "new"
    BY <1>11 DEF Restart, Each
  <2>. QED
    BY <2>1
<1>12. CASE UNCHANGED vars
  <2>1. Missing(gen)' = Missing(gen) /\ UNCHANGED <<gen, colinfos, codegen>>
    BY <1>12 DEF vars, Missing
  <2>. QED
    BY <1>12, <2>1 DEF vars
<1>. QED
  BY <1>1, <1>2, <1>3, <1>4, <1>5, <1>6, <1>7, <1>8, <1>9, <1>10, <1>11, <1>12
     DEF Next, Destroy, Ended
\* Once late, always late.
LEMMA LateStays == [Next]_vars => (late => late')
BY Zenon DEF Next, vars, Construct, Prepare, NextBatch, Destroy, Merge, Unreg, Encode, GenerateColumn,
      ReadPast, Finalize, Clear, Restart, Ended, scanVars, genVars

\* registered counts the scanners that have been made and have not left.
LEMMA CountStep ==
  ASSUME Types, CountInv, [Next]_vars
  PROVE  CountInv'
<1>. USE DEF Types, CountInv, Go, scanVars, genVars, Locations
<1>0. IsFiniteSet(Live)
  BY CodegenAssumption, FS_Subset DEF Live
<1>1. ASSUME NEW s \in Scanner, ~crashed, Construct(s) PROVE CountInv'
  <2>1. Live' = Live \cup {s} /\ s \notin Live /\ registered' = registered + 1
    BY <1>1 DEF Construct, Live, reg
  <2>2. Cardinality(Live \cup {s}) = Cardinality(Live) + 1
    BY <1>0, <2>1, FS_AddElement
  <2>. QED
    BY <2>1, <2>2
<1>2. ASSUME NEW s \in Scanner, ~crashed, Prepare(s) PROVE CountInv'
  <2>1. pc' \in [Scanner -> Locations] /\ Live' = Live /\ registered' = registered
    BY <1>2 DEF Prepare, Live
  <2>. QED
    BY <2>1
<1>3. ASSUME NEW s \in Scanner, ~crashed, NEW shapes \in [Encoded -> Stripes], NextBatch(s, shapes) PROVE CountInv'
  <2>1. pc' \in [Scanner -> Locations] /\ Live' = Live /\ registered' = registered
    BY <1>3 DEF NextBatch, Live
  <2>. QED
    BY <2>1
<1>4. ASSUME NEW s \in Scanner, ~crashed, Merge(s) PROVE CountInv'
  <2>1. pc' \in [Scanner -> Locations] /\ Live' = Live /\ registered' = registered
    BY <1>4 DEF Merge, Live
  <2>. QED
    BY <2>1
<1>5. ASSUME NEW s \in Scanner, ~crashed, Unreg(s) PROVE CountInv'
  <2>1. Live' = Live \ {s} /\ s \in Live /\ registered' = registered - 1
    BY <1>5 DEF Unreg, Live, unreg
  <2>2. Cardinality(Live \ {s}) = Cardinality(Live) - 1
    BY <1>0, <2>1, FS_RemoveElement
  <2>. QED
    BY <2>1, <2>2
<1>6. ASSUME NEW s \in Scanner, ~crashed, Encode(s) PROVE CountInv'
  <2>1. pc' \in [Scanner -> Locations] /\ Live' = Live /\ registered' = registered
    BY <1>6 DEF Encode, Live
  <2>. QED
    BY <2>1
<1>7. ASSUME NEW s \in Scanner, ~crashed, GenerateColumn(s) PROVE CountInv'
  <2>1. pc' \in [Scanner -> Locations] /\ Live' = Live /\ registered' = registered
    BY <1>7 DEF GenerateColumn, Live
  <2>. QED
    BY <2>1
<1>8. ASSUME NEW s \in Scanner, ~crashed, ReadPast(s) PROVE CountInv'
  <2>1. pc' \in [Scanner -> Locations] /\ Live' = Live /\ registered' = registered
    BY <1>8 DEF ReadPast, Live
  <2>. QED
    BY <2>1
<1>9. ASSUME NEW s \in Scanner, ~crashed, Finalize(s) PROVE CountInv'
  <2>1. pc' \in [Scanner -> Locations] /\ Live' = Live /\ registered' = registered
    BY <1>9 DEF Finalize, Live
  <2>. QED
    BY <2>1
<1>10. ASSUME NEW s \in Scanner, ~crashed, Clear(s) PROVE CountInv'
  <2>1. pc' \in [Scanner -> Locations] /\ Live' = Live /\ registered' = registered
    BY <1>10 DEF Clear, Live
  <2>. QED
    BY <2>1
<1>11. ASSUME Restart PROVE CountInv'
  <2>1. Live' = {} /\ registered' = 0
    BY <1>11 DEF Restart, Live, Each
  <2>. QED
    BY <2>1, FS_EmptySet
<1>12. CASE UNCHANGED vars
  <2>1. Live' = Live /\ registered' = registered
    BY <1>12 DEF vars, Live
  <2>. QED
    BY <2>1
<1>. QED
  BY <1>1, <1>2, <1>3, <1>4, <1>5, <1>6, <1>7, <1>8, <1>9, <1>10, <1>11, <1>12
     DEF Next, Destroy, Ended

\* The last to leave stays alone.
LEMMA LastStep ==
  ASSUME Types, CountInv, LastInv, [Next]_vars
  PROVE  LastInv'
<1>. USE DEF Types, LastInv, Go, scanVars, genVars, Locations
<1>1. ASSUME NEW s \in Scanner, ~crashed, Construct(s) PROVE LastInv'
  <2>1. ~late' => ~late /\ \A t \in Scanner : pc[t] \notin Begun
    BY <1>1, Zenon DEF Construct
  <2>2. pc' = [pc EXCEPT ![s] = "built"] /\ finalized' = finalized
    BY <1>1 DEF Construct
  <2>3. ASSUME ~late' PROVE \A t \in Scanner : pc'[t] \notin {"merged", "encode", "generate", "clear", "gone"}
    BY <2>1, <2>2, <2>3 DEF Begun
  <2>4. ~late' => finalized = 0
    BY <2>1 DEF Begun
  <2>. QED
    BY <2>2, <2>3, <2>4
<1>2. ASSUME NEW s \in Scanner, ~crashed, Prepare(s) PROVE LastInv'
  <2>1. finalized' = finalized /\ late' = late
    BY <1>2 DEF Prepare
  <2>2. pc[s] \in {"built", "scan"} /\ pc'[s] \in {"scan", "hung", "merged"} /\ \A t \in Scanner \ {s} : pc'[t] = pc[t]
    BY <1>2 DEF Prepare
  <2>3. ~late => /\ finalized = 0
                 /\ \A t \in Scanner : pc[t] \notin {"encode", "generate", "clear"}
    BY <2>2
  <2>. QED
    BY <2>1, <2>2, <2>3
<1>3. ASSUME NEW s \in Scanner, ~crashed, NEW shapes \in [Encoded -> Stripes], NextBatch(s, shapes) PROVE LastInv'
  <2>1. finalized' = finalized /\ late' = late
    BY <1>3 DEF NextBatch
  <2>2. pc[s] \in {"built", "scan"} /\ pc'[s] \in {"scan", "hung", "merged"} /\ \A t \in Scanner \ {s} : pc'[t] = pc[t]
    BY <1>3 DEF NextBatch
  <2>3. ~late => /\ finalized = 0
                 /\ \A t \in Scanner : pc[t] \notin {"encode", "generate", "clear"}
    BY <2>2
  <2>. QED
    BY <2>1, <2>2, <2>3
<1>4. ASSUME NEW s \in Scanner, ~crashed, Merge(s) PROVE LastInv'
  <2>1. finalized' = finalized /\ late' = late
    BY <1>4 DEF Merge
  <2>2. pc[s] \in {"built", "scan"} /\ pc'[s] \in {"scan", "hung", "merged"} /\ \A t \in Scanner \ {s} : pc'[t] = pc[t]
    BY <1>4 DEF Merge
  <2>3. ~late => /\ finalized = 0
                 /\ \A t \in Scanner : pc[t] \notin {"encode", "generate", "clear"}
    BY <2>2
  <2>. QED
    BY <2>1, <2>2, <2>3
<1>5. ASSUME NEW s \in Scanner, ~crashed, Unreg(s) PROVE LastInv'
  <2>1. finalized' = finalized /\ late' = late /\ registered' = registered - 1
    BY <1>5 DEF Unreg, unreg
  <2>2. pc[s] = "merged" /\ \A t \in Scanner \ {s} : pc'[t] = pc[t]
    BY <1>5 DEF Unreg
  <2>3. ~late => /\ finalized = 0
                 /\ \A t \in Scanner : pc[t] \notin {"encode", "generate", "clear"}
    BY <2>2
  <2>4. CASE registered' # 0
    <3>1. pc'[s] = "gone"
      BY <1>5, <2>4 DEF Unreg, LastToLeave
    <3>. QED
      BY <2>1, <2>2, <2>3, <3>1
  <2>5. CASE registered' = 0
    <3>1. IsFiniteSet(Live) /\ IsFiniteSet(Live')
      BY CodegenAssumption, FS_Subset DEF Live
    <3>2. CountInv'
      BY CountStep
    <3>3. Live' = {}
      BY <2>5, <3>1, <3>2, FS_EmptySet DEF CountInv
    <3>4. pc'[s] \in {"encode", "clear", "gone"} /\ pc' \in [Scanner -> Locations]
      BY <1>5 DEF Unreg
    <3>5. \A t \in Scanner \ {s} : pc[t] \notin {"built", "scan", "hung", "merged"}
      BY <2>2, <3>3 DEF Live
    <3>6. ~late => \A t \in Scanner \ {s} : pc'[t] \in {"new", "gone"}
      BY <2>2, <2>3, <3>5
    <3>. QED
      BY <2>1, <2>2, <2>3, <3>4, <3>6
  <2>. QED
    BY <2>4, <2>5
<1>6. ASSUME NEW s \in Scanner, ~crashed, Encode(s) PROVE LastInv'
  <2>1. pc[s] = "encode" /\ pc' = [pc EXCEPT ![s] = "generate"] /\ finalized' = finalized /\ late' = late
    BY <1>6 DEF Encode
  <2>2. ~late => \A t \in Scanner \ {s} : pc[t] \in {"new", "gone"}
    BY <2>1
  <2>. QED
    BY <2>1, <2>2
<1>7. ASSUME NEW s \in Scanner, ~crashed, GenerateColumn(s) PROVE LastInv'
  BY <1>7 DEF GenerateColumn
<1>8. ASSUME NEW s \in Scanner, ~crashed, ReadPast(s) PROVE LastInv'
  BY <1>8 DEF ReadPast
<1>9. ASSUME NEW s \in Scanner, ~crashed, Finalize(s) PROVE LastInv'
  <2>1. pc[s] = "generate" /\ pc' = [pc EXCEPT ![s] = "clear"] /\ late' = late
    BY <1>9 DEF Finalize
  <2>2. ~late => /\ \A t \in Scanner \ {s} : pc[t] \in {"new", "gone"}
                 /\ finalized = 0
    BY <2>1
  <2>3. finalized' \in {finalized, finalized + 1}
    BY <1>9 DEF Finalize
  <2>. QED
    BY <2>1, <2>2, <2>3
<1>10. ASSUME NEW s \in Scanner, ~crashed, Clear(s) PROVE LastInv'
  <2>1. pc[s] = "clear" /\ pc' = [pc EXCEPT ![s] = "gone"] /\ finalized' = finalized /\ late' = late
    BY <1>10 DEF Clear
  <2>2. ~late => \A t \in Scanner \ {s} : pc[t] \in {"new", "gone"}
    BY <2>1
  <2>. QED
    BY <2>1, <2>2
<1>11. ASSUME Restart PROVE LastInv'
  <2>1. finalized' = 0 /\ \A t \in Scanner : pc'[t] = "new"
    BY <1>11 DEF Restart, Each
  <2>. QED
    BY <2>1
<1>12. CASE UNCHANGED vars
  BY <1>12 DEF vars
<1>. QED
  BY <1>1, <1>2, <1>3, <1>4, <1>5, <1>6, <1>7, <1>8, <1>9, <1>10, <1>11, <1>12
     DEF Next, Destroy, Ended
\* What is added to a profile as it is written.
LEMMA AddedRuns ==
  ASSUME NEW info \in Infos, NEW profile \in SUBSET Shape
  PROVE  Added(info, profile) \in Infos /\ Added(info, profile).shapes = info.shapes \cup profile
BY DEF Added, Infos

\* The columns without a decoder, while there is none at all.
LEMMA AllMissing == gen = NoColumns => Missing(gen) = Encoded
BY DEF Missing, NoColumns, Encoded

\* A run that is met goes to the profile of its scanner, and with it to the merged one.
LEMMA ProfileStep ==
  ASSUME Types, PreparedInv, LastInv, ProfileInv, [Next]_vars
  PROVE  ProfileInv'
<1>. USE DEF Types, PreparedInv, LastInv, ProfileInv, Go, scanVars, genVars, Locations
<1>0. /\ ConstantFacts /\ columns' = columns /\ Column' = Column /\ Encoded' = Encoded
      /\ Entries' = Entries /\ NoColumns' = NoColumns
  BY Constants, Same DEF Types
<1>. USE <1>0 DEF ConstantFacts
<1>1. ASSUME NEW s \in Scanner, ~crashed, Construct(s) PROVE ProfileInv'
  <2>1. ~late' => ~late /\ \A t \in Scanner : pc[t] \notin Begun
    BY <1>1, Zenon DEF Construct
  <2>2. pc[s] = "new" /\ pc' = [pc EXCEPT ![s] = "built"]
    BY <1>1 DEF Construct
  <2>3. ~late' => \A t \in Scanner : pc[t] \in {"new", "built", "scan", "hung"}
    BY <2>1 DEF Begun
  <2>4. ~late' => Collecting
    BY <2>3 DEF Collecting
  <2>5. UNCHANGED <<codegen, gen, global, met, colinfos, crashed>>
    BY <1>1 DEF Construct
  <2>6. \A c \in Encoded : Global(c)' = Global(c)
    BY <2>5 DEF Global
  <2>7. \A c \in Encoded : Unmerged(c)' = Unmerged(c)
    BY <2>2, <2>5 DEF Unmerged
  <2>. QED
    BY <2>1, <2>2, <2>4, <2>5, <2>6, <2>7
<1>2. ASSUME NEW s \in Scanner, ~crashed, Prepare(s) PROVE ProfileInv'
  <2>1. pc[s] = "built" /\ pc' = [pc EXCEPT ![s] = "scan"] /\ gen' = CodeGen
    BY <1>2 DEF Prepare
  <2>2. UNCHANGED <<late, crashed, codegen, global, met>>
    BY <1>2 DEF Prepare
  <2>3. colinfos' = [colinfos EXCEPT ![s] = [c \in Column |-> IF c \in Missing(gen') THEN {} ELSE None]]
    BY <1>2 DEF Prepare
  <2>4. Collecting' => Collecting
    BY <2>1 DEF Collecting
  <2>5. codegen /\ gen \in {None, NoColumns} => gen' = NoColumns
    BY <2>1 DEF CodeGen
  <2>6. gen' = NoColumns => \A c \in Encoded : c \in Column /\ c \in Missing(gen')
    BY DEF Missing, NoColumns, Encoded
  <2>7. \A c \in Encoded : Global(c)' = Global(c)
    BY <2>2 DEF Global
  <2>8. gen' = NoColumns => \A c \in Encoded : colinfos'[s][c] = {}
    BY <2>3, <2>6
  <2>9. \A t \in Scanner \ {s} : pc'[t] = pc[t] /\ colinfos'[t] = colinfos[t]
    BY <2>1, <2>3
  <2>10. gen' = NoColumns => \A c \in Encoded : Unmerged(c)' = Unmerged(c)
    BY <2>1, <2>8, <2>9 DEF Unmerged
  <2>. QED
    BY <2>1, <2>2, <2>4, <2>5, <2>7, <2>10
<1>3. ASSUME NEW s \in Scanner, ~crashed, NEW shapes \in [Encoded -> Stripes], NextBatch(s, shapes) PROVE ProfileInv'
  <2>1. pc[s] = "scan" /\ pc'[s] \in {"scan", "hung"} /\ gen # None
    BY <1>3 DEF NextBatch
  <2>2. UNCHANGED <<late, crashed, codegen, global, gen>>
    BY <1>3 DEF NextBatch
  <2>3. Collecting' => Collecting
    BY <2>1, <1>3 DEF Collecting, NextBatch
  <2>4. \A c \in Encoded : met'[c] = met[c] \cup shapes[c] /\ shapes[c] \in SUBSET Shape
    BY <1>3 DEF NextBatch, Encoded
  <2>5. codegen /\ gen = NoColumns => \A c \in Encoded : colinfos'[s][c] = colinfos[s][c] \cup shapes[c]
    BY <1>3, AllMissing DEF NextBatch, Encoded
  <2>6. \A t \in Scanner \ {s} : pc'[t] = pc[t] /\ colinfos'[t] = colinfos[t]
    BY <1>3 DEF NextBatch
  <2>7. \A c \in Encoded : Global(c)' = Global(c)
    BY <2>2 DEF Global
  <2>8. codegen /\ gen = NoColumns => \A c \in Encoded : Unmerged(c)' = Unmerged(c) \cup shapes[c]
    <3>1. SUFFICES ASSUME codegen, gen = NoColumns, NEW c \in Encoded, NEW x \in Shape
                   PROVE  x \in Unmerged(c)' <=> x \in Unmerged(c) \/ x \in shapes[c]
      BY <2>4 DEF Unmerged
    <3>2. colinfos'[s][c] = colinfos[s][c] \cup shapes[c]
      BY <2>5, <3>1
    <3>. QED
      BY <2>1, <2>6, <3>2 DEF Unmerged
  <2>. QED
    BY <2>1, <2>2, <2>3, <2>4, <2>6, <2>7, <2>8
<1>4. ASSUME NEW s \in Scanner, ~crashed, Merge(s) PROVE ProfileInv'
  <2>1. pc[s] = "scan" /\ pc' = [pc EXCEPT ![s] = "merged"] /\ gen # None
    BY <1>4 DEF Merge
  <2>2. UNCHANGED <<late, codegen, gen, met, colinfos>>
    BY <1>4 DEF Merge
  <2>3. Collecting' => Collecting
    BY <2>1 DEF Collecting
  <2>4. ~crashed' => global' = Merged(s)
    BY <1>4, Zenon DEF Merge
  <2>5. SUFFICES ASSUME ~late, ~crashed', codegen, Collecting
                 PROVE  /\ gen' \in {None, NoColumns}
                        /\ \A c \in Encoded : met'[c] = Global(c)' \cup Unmerged(c)' /\ global'[c] \in Infos
    BY <2>2, <2>3
  <2>8. /\ gen \in {None, NoColumns}
        /\ \A c \in Encoded : met[c] = Global(c) \cup Unmerged(c)
        /\ (\A c \in Encoded : global[c] \in Infos) \/ global = NoColumns
    <3>1. ~late /\ ~crashed /\ codegen /\ Collecting
      BY <2>5, <1>4
    <3>. QED
      BY <3>1
  <2>6. gen = NoColumns /\ Missing(gen) = Encoded
    BY <2>1, <2>8, AllMissing
  <2>7. ASSUME NEW c \in Encoded
        PROVE  met'[c] = Global(c)' \cup Unmerged(c)' /\ global'[c] \in Infos
    <3>1. c \in Column /\ colinfos[s][c] \in SUBSET Shape
      BY <2>1, <2>6 DEF Encoded
    <3>2. met[c] = Global(c) \cup Unmerged(c)
      BY <2>8
    <3>3. Unmerged(c) = Unmerged(c)' \cup colinfos[s][c]
      BY <2>1, <2>2, <3>1 DEF Unmerged
    <3>4. CASE global = NoColumns
      <4>1. Global(c) = {}
        BY <3>1, <3>4 DEF Global, NoColumns
      <4>2. global'[c] = Counted(colinfos[s][c])
        BY <2>4, <2>5, <2>6, <3>1, <3>4 DEF Merged
      <4>3. global'[c] \in Infos /\ global'[c].shapes = colinfos[s][c]
        BY <3>1, <4>2 DEF Counted, Infos
      <4>4. Global(c)' = colinfos[s][c]
        BY <4>3 DEF Global
      <4>. QED
        BY <2>2, <3>2, <3>3, <4>1, <4>3, <4>4
    <3>5. CASE global # NoColumns
      <4>1. global[c] \in Infos
        BY <2>8, <3>5
      <4>2. global'[c] = Added(global[c], colinfos[s][c])
        <5>1. c \in Column /\ c \in Missing(gen)
          BY <2>6, <3>1, Zenon
        <5>2. global' = Merged(s)
          BY <2>4, <2>5, Zenon
        <5>. HIDE DEF Types, ProfileInv, ConstantFacts
        <5>. QED
          BY <3>5, <5>1, <5>2, Zenon DEF Merged
      <4>3. global'[c] \in Infos /\ global'[c].shapes = global[c].shapes \cup colinfos[s][c]
        BY <3>1, <4>1, <4>2, AddedRuns
      <4>4. Global(c)' = Global(c) \cup colinfos[s][c]
        BY <4>1, <4>3 DEF Global
      <4>5. met'[c] = (Global(c) \cup colinfos[s][c]) \cup Unmerged(c)'
        <5>. HIDE DEF Types, ProfileInv, ConstantFacts
        <5>1. ASSUME NEW A, NEW B, NEW C PROVE A \cup (B \cup C) = (A \cup C) \cup B
          BY SMT
        <5>. QED
          BY <2>2, <3>2, <3>3, <5>1, Zenon
      <4>. QED
        BY <4>3, <4>4, <4>5, Zenon
    <3>. QED
      BY <3>4, <3>5
  <2>. QED
    BY <2>2, <2>6, <2>7
<1>5. ASSUME NEW s \in Scanner, ~crashed, Unreg(s) PROVE ProfileInv'
  <2>1. pc[s] = "merged" /\ pc'[s] \in {"gone", "encode", "clear"}
    BY <1>5 DEF Unreg
  <2>2. UNCHANGED <<late, crashed, codegen, gen, global, met>>
    BY <1>5 DEF Unreg
  <2>3. \A t \in Scanner \ {s} : pc'[t] = pc[t] /\ colinfos'[t] = colinfos[t]
    BY <1>5 DEF Unreg, Forget
  <2>4. Collecting' => Collecting
    BY <2>1, <2>3 DEF Collecting
  <2>5. \A c \in Encoded : Global(c)' = Global(c)
    BY <2>2 DEF Global
  <2>6. \A c \in Encoded : Unmerged(c)' = Unmerged(c)
    <3>1. \A t \in Scanner : pc'[t] \in {"scan", "hung"} <=> pc[t] \in {"scan", "hung"}
      BY <2>1, <2>3
    <3>2. \A t \in Scanner : pc[t] \in {"scan", "hung"} => colinfos'[t] = colinfos[t]
      BY <2>1, <2>3
    <3>. HIDE DEF Types, ProfileInv, ConstantFacts, Go, scanVars, genVars, Locations
    <3>3. ASSUME NEW c, NEW x
          PROVE  (\E t \in Scanner : pc'[t] \in {"scan", "hung"} /\ x \in colinfos'[t][c])
                   <=> (\E t \in Scanner : pc[t] \in {"scan", "hung"} /\ x \in colinfos[t][c])
      BY <3>1, <3>2, Zenon
    <3>. QED
      BY <3>3, Zenon DEF Unmerged
  <2>. QED
    BY <2>1, <2>2, <2>4, <2>5, <2>6
<1>6. ASSUME NEW s \in Scanner, ~crashed, Encode(s) PROVE ProfileInv'
  <2>1. pc[s] = "encode" /\ pc' = [pc EXCEPT ![s] = "generate"]
    BY <1>6 DEF Encode
  <2>. QED
    BY <2>1 DEF Collecting
<1>7. ASSUME NEW s \in Scanner, ~crashed, GenerateColumn(s) PROVE ProfileInv'
  <2>1. pc[s] = "generate" /\ pc' = pc
    BY <1>7 DEF GenerateColumn
  <2>. QED
    BY <2>1 DEF Collecting
<1>8. ASSUME NEW s \in Scanner, ~crashed, ReadPast(s) PROVE ProfileInv'
  <2>1. pc[s] = "generate" /\ pc' = pc
    BY <1>8 DEF ReadPast
  <2>. QED
    BY <2>1 DEF Collecting
<1>9. ASSUME NEW s \in Scanner, ~crashed, Finalize(s) PROVE ProfileInv'
  <2>1. pc[s] = "generate" /\ pc' = [pc EXCEPT ![s] = "clear"]
    BY <1>9 DEF Finalize
  <2>. QED
    BY <2>1 DEF Collecting
<1>10. ASSUME NEW s \in Scanner, ~crashed, Clear(s) PROVE ProfileInv'
  <2>1. pc[s] = "clear" /\ pc' = [pc EXCEPT ![s] = "gone"] /\ late' = late
    BY <1>10 DEF Clear
  <2>2. ~late => \A t \in Scanner \ {s} : pc'[t] \in {"new", "gone"}
    BY <2>1
  <2>. QED
    BY <2>1, <2>2 DEF Collecting
<1>11. ASSUME Restart PROVE ProfileInv'
  <2>1. /\ gen' = None /\ global' = NoColumns
        /\ met' = [c \in Column |-> {}] /\ \A t \in Scanner : pc'[t] = "new"
    BY <1>11 DEF Restart, Each
  <2>2. \A c \in Encoded : met'[c] = {} /\ global'[c] = None
    BY <2>1 DEF NoColumns, Encoded
  <2>3. \A c \in Encoded : Global(c)' = {}
    BY <2>2 DEF Global
  <2>4. \A c \in Encoded : Unmerged(c)' = {}
    BY <2>1 DEF Unmerged
  <2>. QED
    BY <2>1, <2>2, <2>3, <2>4
<1>12. CASE UNCHANGED vars
  <2>1. UNCHANGED <<late, crashed, codegen, gen, global, met, pc, colinfos>>
    BY <1>12 DEF vars
  <2>2. \A c \in Encoded : Global(c)' = Global(c) /\ Unmerged(c)' = Unmerged(c)
    BY <2>1 DEF Global, Unmerged
  <2>3. Collecting' = Collecting
    BY <2>1 DEF Collecting
  <2>. QED
    BY <2>1, <2>2, <2>3
<1>. QED
  BY <1>1, <1>2, <1>3, <1>4, <1>5, <1>6, <1>7, <1>8, <1>9, <1>10, <1>11, <1>12
     DEF Next, Destroy, Ended
\* While a scanner decodes or encodes, and none has been made late, profiles are
\* collected; a process that generates code has no decoder yet.
LEMMA CollectingWhile ==
  ASSUME Types, PreparedInv, LastInv, ProfileInv, ~late, ~crashed,
         NEW s \in Scanner, pc[s] \in {"built", "scan", "hung", "merged", "encode"}
  PROVE  /\ Collecting
         /\ codegen => gen \in {None, NoColumns}
<1>1. \A t \in Scanner : pc[t] \notin {"generate", "clear"}
  BY DEF LastInv
<1>2. Collecting
  BY <1>1 DEF Collecting
<1>. QED
  BY <1>2 DEF ProfileInv

\* The last one writes what has been met, and generates from it.
LEMMA WrittenStep ==
  ASSUME Types, PreparedInv, LastInv, ProfileInv, WrittenInv, [Next]_vars
  PROVE  WrittenInv'
<1>. USE DEF Types, WrittenInv, Go, scanVars, genVars, Locations
<1>0. /\ ConstantFacts /\ columns' = columns /\ Column' = Column /\ Encoded' = Encoded
      /\ Entries' = Entries /\ NoColumns' = NoColumns
  BY Constants, Same DEF Types
<1>. USE <1>0 DEF ConstantFacts
<1>1. ASSUME NEW s \in Scanner, ~crashed, Construct(s) PROVE WrittenInv'
  <2>1. ~late' => ~late
    BY LateStays
  <2>2. UNCHANGED <<crashed, codegen, gen, met, buf>> /\ \A t \in Scanner : pc'[t] = "generate" => pc[t] = "generate"
    BY <1>1 DEF Construct
  <2>. QED
    BY <2>1, <2>2
<1>2. ASSUME NEW s \in Scanner, ~crashed, Prepare(s) PROVE WrittenInv'
  <2>1. UNCHANGED <<late, crashed, codegen, met, buf>> /\ \A t \in Scanner : pc'[t] = "generate" => pc[t] = "generate"
    BY <1>2 DEF Prepare
  <2>2. codegen => gen' \in {gen, NoColumns}
    BY <1>2 DEF Prepare, CodeGen
  <2>3. \A c \in Encoded : NoColumns[c] = None
    BY DEF NoColumns, Encoded
  <2>4. codegen => \/ gen' = gen /\ gen # None
                   \/ gen' = NoColumns
    BY <1>2 DEF Prepare, CodeGen
  <2>. QED
    BY <2>1, <2>3, <2>4
<1>3. ASSUME NEW s \in Scanner, ~crashed, NEW shapes \in [Encoded -> Stripes], NextBatch(s, shapes) PROVE WrittenInv'
  <2>1. UNCHANGED <<late, crashed, codegen, gen, buf>> /\ \A t \in Scanner : pc'[t] = "generate" => pc[t] = "generate"
    BY <1>3 DEF NextBatch
  <2>2. pc[s] = "scan"
    BY <1>3 DEF NextBatch
  <2>3. ~late => \A t \in Scanner : pc[t] # "generate"
    BY <2>2 DEF LastInv
  <2>4. ~late /\ codegen => gen \in {None, NoColumns}
    BY <1>3, <2>2, CollectingWhile
  <2>5. \A c \in Encoded : NoColumns[c] = None
    BY DEF NoColumns, Encoded
  <2>. QED
    BY <2>1, <2>3, <2>4, <2>5
<1>4. ASSUME NEW s \in Scanner, ~crashed, Merge(s) PROVE WrittenInv'
  <2>1. UNCHANGED <<late, codegen, gen, met, buf>> /\ \A t \in Scanner : pc'[t] = "generate" => pc[t] = "generate"
    BY <1>4 DEF Merge
  <2>. QED
    BY <1>4, <2>1
<1>5. ASSUME NEW s \in Scanner, ~crashed, Unreg(s) PROVE WrittenInv'
  <2>1. UNCHANGED <<late, crashed, codegen, gen, met, buf>> /\ \A t \in Scanner : pc'[t] = "generate" => pc[t] = "generate"
    BY <1>5 DEF Unreg
  <2>. QED
    BY <2>1
<1>6. ASSUME NEW s \in Scanner, ~crashed, Encode(s) PROVE WrittenInv'
  <2>1. pc[s] = "encode" /\ pc' = [pc EXCEPT ![s] = "generate"] /\ codegen /\ gen # None
    BY <1>6 DEF Encode, PreparedInv
  <2>2. UNCHANGED <<late, codegen, gen, met>>
    BY <1>6 DEF Encode
  <2>3. SUFFICES ASSUME ~late, ~crashed'
                 PROVE  \A t \in Scanner : pc'[t] = "generate" =>
                          \A k \in DOMAIN buf'[t] : buf'[t][k].info.shapes = met'[buf'[t][k].col]
    BY <1>6, <2>2
  <2>4. Lacking = {}
    BY <1>6, <2>3, Zenon DEF Encode
  <2>5. PICK order \in InOrder(Missing(gen)) :
          buf' = [buf EXCEPT ![s] = [k \in DOMAIN order |-> Entry(order[k])]]
    BY <1>6, <2>4 DEF Encode
  <2>6. \A k \in DOMAIN order : order[k] \in Missing(gen)
    BY <2>5 DEF InOrder
  <2>7. \A t \in Scanner \ {s} : pc'[t] \in {"new", "gone"} /\ pc[t] \in {"new", "gone"}
    BY <2>1, <2>3 DEF LastInv
  <2>8. ASSUME NEW c \in Missing(gen) PROVE met[c] = global[c].shapes
    <3>1. c \in Encoded /\ global[c] \in Infos
      BY <2>4 DEF Lacking, Missing, Encoded
    <3>2. Collecting
      BY <1>6, <2>1, <2>3, CollectingWhile
    <3>3. met[c] = Global(c) \cup Unmerged(c)
      BY <1>6, <2>1, <2>3, <3>1, <3>2 DEF ProfileInv
    <3>4. Unmerged(c) = {}
      BY <2>1, <2>7 DEF Unmerged
    <3>. QED
      BY <3>1, <3>3, <3>4 DEF Global
  <2>9. ASSUME NEW k \in DOMAIN buf'[s] PROVE buf'[s][k].info.shapes = met[buf'[s][k].col]
    <3>1. k \in DOMAIN order /\ buf'[s][k] = Entry(order[k])
      BY <2>5
    <3>2. order[k] \in Missing(gen) /\ buf'[s][k].info = global[order[k]] /\ buf'[s][k].col = order[k]
      BY <2>6, <3>1 DEF Entry
    <3>. QED
      BY <2>8, <3>2
  <2>10. ASSUME NEW t \in Scanner, pc'[t] = "generate", NEW k \in DOMAIN buf'[t]
         PROVE  buf'[t][k].info.shapes = met'[buf'[t][k].col]
    <3>1. t = s
      BY <2>7, <2>10
    <3>2. buf'[s][k].info.shapes = met[buf'[s][k].col]
      BY <2>9, <2>10, <3>1
    <3>. QED
      BY <2>2, <3>1, <3>2
  <2>. QED
    BY <2>10
<1>7. ASSUME NEW s \in Scanner, ~crashed, GenerateColumn(s) PROVE WrittenInv'
  <2>1. /\ pc[s] = "generate" /\ at[s] \in 1 .. Len(buf[s])
        /\ UNCHANGED <<late, codegen, pc, met, buf>>
    BY <1>7 DEF GenerateColumn, Turn
  <2>2. buf[s][at[s]] \in Entries
    BY <2>1
  <2>3. gen' \in {gen, Generated(buf[s][at[s]])} /\ gen # None
    BY <1>7, <2>1 DEF GenerateColumn, Turn, PreparedInv
  <2>4. SUFFICES ASSUME ~late, NEW c \in Encoded
                 PROVE  codegen => gen'[c] \in {None, met[c]}
    BY <1>7, <2>1
  <2>5. buf[s][at[s]].info.shapes = met[buf[s][at[s]].col]
    <3>1. at[s] \in DOMAIN buf[s]
      BY <2>1
    <3>. QED
      BY <1>7, <2>1, <2>4, <3>1
  <2>6. codegen => gen[c] \in {None, met[c]}
    BY <1>7, <2>3, <2>4
  <2>7. c \in Column /\ buf[s][at[s]].col \in Column
    BY <2>2 DEF Encoded, Entries
  <2>. QED
    BY <2>3, <2>5, <2>6, <2>7 DEF Generated
<1>8. ASSUME NEW s \in Scanner, ~crashed, ReadPast(s) PROVE WrittenInv'
  <2>1. UNCHANGED <<late, codegen, gen, met, buf, pc>>
    BY <1>8 DEF ReadPast
  <2>. QED
    BY <1>8, <2>1
<1>9. ASSUME NEW s \in Scanner, ~crashed, Finalize(s) PROVE WrittenInv'
  <2>1. UNCHANGED <<late, codegen, gen, met>>
    BY <1>9 DEF Finalize
  <2>2. \A t \in Scanner : pc'[t] = "generate" => pc[t] = "generate" /\ buf'[t] = buf[t]
    BY <1>9 DEF Finalize
  <2>. QED
    BY <1>9, <2>1, <2>2
<1>10. ASSUME NEW s \in Scanner, ~crashed, Clear(s) PROVE WrittenInv'
  <2>1. UNCHANGED <<late, crashed, codegen, gen, met, buf>> /\ \A t \in Scanner : pc'[t] = "generate" => pc[t] = "generate"
    BY <1>10 DEF Clear
  <2>. QED
    BY <2>1
<1>11. ASSUME Restart PROVE WrittenInv'
  <2>1. gen' = None /\ \A t \in Scanner : pc'[t] = "new"
    BY <1>11 DEF Restart, Each
  <2>. QED
    BY <2>1
<1>12. CASE UNCHANGED vars
  <2>1. UNCHANGED <<late, crashed, codegen, gen, met, buf, pc>>
    BY <1>12 DEF vars
  <2>. QED
    BY <2>1
<1>. QED
  BY <1>1, <1>2, <1>3, <1>4, <1>5, <1>6, <1>7, <1>8, <1>9, <1>10, <1>11, <1>12
     DEF Next, Destroy, Ended

\* What is saved was met; what is loaded is what was saved.
LEMMA SavedStep ==
  ASSUME Types, PreparedInv, WrittenInv, SavedInv, [Next]_vars
  PROVE  SavedInv'
<1>. USE DEF Types, SavedInv, Go, scanVars, genVars, Locations
<1>0. /\ ConstantFacts /\ columns' = columns /\ Column' = Column /\ Encoded' = Encoded
      /\ Entries' = Entries /\ NoColumns' = NoColumns
  BY Constants, Same DEF Types
<1>. USE <1>0 DEF ConstantFacts
<1>1. ASSUME NEW s \in Scanner, ~crashed, Construct(s) PROVE SavedInv'
  <2>1. ~late' => ~late
    BY LateStays
  <2>2. UNCHANGED <<codegen, gen, disk>>
    BY <1>1 DEF Construct
  <2>. QED
    BY <2>1, <2>2
<1>2. ASSUME NEW s \in Scanner, ~crashed, Prepare(s) PROVE SavedInv'
  <2>1. UNCHANGED <<late, codegen, disk>> /\ gen' = CodeGen
    BY <1>2 DEF Prepare
  <2>. QED
    BY <2>1 DEF CodeGen
<1>3. ASSUME NEW s \in Scanner, ~crashed, NEW shapes \in [Encoded -> Stripes], NextBatch(s, shapes) PROVE SavedInv'
  <2>1. UNCHANGED <<late, codegen, gen, disk>>
    BY <1>3 DEF NextBatch
  <2>. QED
    BY <2>1
<1>4. ASSUME NEW s \in Scanner, ~crashed, Merge(s) PROVE SavedInv'
  <2>1. UNCHANGED <<late, codegen, gen, disk>>
    BY <1>4 DEF Merge
  <2>. QED
    BY <2>1
<1>5. ASSUME NEW s \in Scanner, ~crashed, Unreg(s) PROVE SavedInv'
  <2>1. UNCHANGED <<late, codegen, gen, disk>>
    BY <1>5 DEF Unreg
  <2>. QED
    BY <2>1
<1>6. ASSUME NEW s \in Scanner, ~crashed, Encode(s) PROVE SavedInv'
  <2>1. UNCHANGED <<late, codegen, gen, disk>>
    BY <1>6 DEF Encode
  <2>. QED
    BY <2>1
<1>7. ASSUME NEW s \in Scanner, ~crashed, GenerateColumn(s) PROVE SavedInv'
  <2>1. UNCHANGED <<late, codegen, disk>> /\ codegen
    BY <1>7 DEF GenerateColumn, PreparedInv
  <2>. QED
    BY <2>1
<1>8. ASSUME NEW s \in Scanner, ~crashed, ReadPast(s) PROVE SavedInv'
  <2>1. UNCHANGED <<late, codegen, gen, disk>>
    BY <1>8 DEF ReadPast
  <2>. QED
    BY <2>1
<1>9. ASSUME NEW s \in Scanner, ~crashed, Finalize(s) PROVE SavedInv'
  <2>1. UNCHANGED <<late, codegen, gen>> /\ codegen /\ gen # None
    BY <1>9 DEF Finalize, PreparedInv
  <2>2. disk' \in {disk, [functions |-> gen, met |-> met]}
    BY <1>9 DEF Finalize
  <2>3. ~late => \A c \in Encoded : gen[c] \in {None, met[c]}
    BY <1>9, <2>1 DEF WrittenInv
  <2>4. codegen' /\ (late' <=> late)
    BY <2>1, Zenon
  <2>5. ASSUME ~late, disk' # None PROVE \A c \in Encoded : disk'.functions[c] \in {None, disk'.met[c]}
    <3>1. CASE disk' = disk
      BY <2>5, <3>1
    <3>2. CASE disk' = [functions |-> gen, met |-> met]
      <4>1. disk'.functions = gen /\ disk'.met = met
        BY <3>2
      <4>. QED
        BY <2>3, <2>5, <4>1
    <3>. QED
      BY <2>2, <3>1, <3>2
  <2>. QED
    BY <2>4, <2>5
<1>10. ASSUME NEW s \in Scanner, ~crashed, Clear(s) PROVE SavedInv'
  <2>1. UNCHANGED <<late, codegen, gen, disk>>
    BY <1>10 DEF Clear
  <2>. QED
    BY <2>1
<1>11. ASSUME Restart PROVE SavedInv'
  <2>1. UNCHANGED <<late, disk>> /\ gen' = None
    BY <1>11 DEF Restart
  <2>. QED
    BY <2>1
<1>12. CASE UNCHANGED vars
  <2>1. UNCHANGED <<late, codegen, gen, disk>>
    BY <1>12 DEF vars
  <2>. QED
    BY <2>1
<1>. QED
  BY <1>1, <1>2, <1>3, <1>4, <1>5, <1>6, <1>7, <1>8, <1>9, <1>10, <1>11, <1>12
     DEF Next, Destroy, Ended

\* A run that hangs or garbles a decoder is none of those it was made for.
LEMMA NoneBad ==
  ASSUME NEW f, NEW x, Hangs(f, x) \/ Garbles(f, x)
  PROVE  x \notin f
<1>. SUFFICES ASSUME x \in f PROVE FALSE
  OBVIOUS
<1>1. x[1] \in Kinds(f)
  BY DEF Kinds
<1>2. x[2] \in Widths(f, x[1])
  BY DEF Widths
<1>. QED
  BY <1>1, <1>2 DEF Hangs, Garbles

\* Harm is done only by a decoder that was loaded, to a run that is new to it.
LEMMA FaultStep ==
  ASSUME Types, PreparedInv, LastInv, ProfileInv, SavedInv, FaultInv, [Next]_vars
  PROVE  FaultInv'
<1>. USE DEF Types, FaultInv, Go, scanVars, genVars, Locations
<1>0. /\ ConstantFacts /\ columns' = columns /\ Column' = Column /\ Encoded' = Encoded
      /\ Entries' = Entries /\ NoColumns' = NoColumns
  BY Constants, Same DEF Types
<1>. USE <1>0 DEF ConstantFacts
<1>1. ASSUME NEW s \in Scanner, ~crashed, Construct(s) PROVE FaultInv'
  <2>1. ~late' => ~late
    BY LateStays
  <2>2. UNCHANGED <<garbled, codegen, gen, disk, met>>
    BY <1>1 DEF Construct
  <2>3. \A t \in Scanner : pc'[t] = "hung" => pc[t] = "hung"
    BY <1>1 DEF Construct
  <2>. QED
    BY <2>1, <2>2, <2>3
<1>2. ASSUME NEW s \in Scanner, ~crashed, Prepare(s) PROVE FaultInv'
  <2>1. UNCHANGED <<late, garbled, codegen, disk, met>> /\ (gen # None => gen' = gen)
    BY <1>2 DEF Prepare, CodeGen
  <2>2. \A t \in Scanner : pc'[t] = "hung" => pc[t] = "hung"
    BY <1>2 DEF Prepare
  <2>. QED
    BY <2>1, <2>2
<1>3. ASSUME NEW s \in Scanner, ~crashed, NEW shapes \in [Encoded -> Stripes], NextBatch(s, shapes) PROVE FaultInv'
  <2>1. UNCHANGED <<late, codegen, gen, disk>> /\ pc[s] = "scan" /\ gen # None
    BY <1>3 DEF NextBatch, PreparedInv
  <2>2. \A c \in Encoded : met'[c] = met[c] \cup shapes[c]
    BY <1>3 DEF NextBatch, Encoded
  <2>3. CASE ~late /\ (garbled \/ \E t \in Scanner : pc[t] = "hung")
    BY <2>1, <2>2, <2>3
  <2>4. CASE ~late /\ ~garbled /\ ~\E t \in Scanner : pc[t] = "hung"
    <3>1. SUFFICES ASSUME garbled' \/ \E t \in Scanner : pc'[t] = "hung"
                   PROVE  /\ ~codegen /\ disk # None
                          /\ \E c \in Encoded : gen[c] # None /\ ~(met'[c] \subseteq disk.met[c])
      BY <2>1
    <3>2. Outcome(Hangs, shapes) \/ Outcome(Garbles, shapes)
      <4>1. /\ garbled' <=> garbled \/ Outcome(Garbles, shapes)
            /\ pc' = [pc EXCEPT ![s] = IF Outcome(Hangs, shapes) THEN "hung" ELSE "scan"]
        BY <1>3, Zenon DEF NextBatch
      <4>2. ASSUME ~Outcome(Hangs, shapes), NEW t \in Scanner, pc'[t] = "hung" PROVE pc[t] = "hung"
        BY <4>1, <4>2
      <4>. QED
        BY <2>4, <3>1, <4>1, <4>2, Zenon
    <3>3. PICK c \in Encoded : gen[c] # None /\ \E x \in shapes[c] : Hangs(gen[c], x) \/ Garbles(gen[c], x)
      BY <3>2 DEF Outcome, Missing
    <3>10. PICK x \in shapes[c] : Hangs(gen[c], x) \/ Garbles(gen[c], x)
      BY <3>3
    <3>4. x \notin gen[c]
      BY <3>10, NoneBad, Zenon
    <3>5. c \in Column /\ NoColumns[c] = None
      BY DEF Encoded, NoColumns
    <3>6. ~codegen
      BY <1>3, <2>1, <2>4, <3>3, <3>5, CollectingWhile
    <3>7. gen = IF disk # None THEN disk.functions ELSE NoColumns
      BY <2>1, <3>6 DEF SavedInv
    <3>8. disk # None /\ gen[c] = disk.functions[c]
      BY <3>3, <3>5, <3>7
    <3>9. gen[c] = disk.met[c]
      BY <2>4, <3>3, <3>8 DEF SavedInv
    <3>. QED
      BY <2>2, <3>3, <3>4, <3>6, <3>8, <3>9
  <2>. QED
    BY <2>1, <2>3, <2>4
<1>4. ASSUME NEW s \in Scanner, ~crashed, Merge(s) PROVE FaultInv'
  <2>1. UNCHANGED <<late, garbled, codegen, gen, disk, met>>
    BY <1>4 DEF Merge
  <2>2. \A t \in Scanner : pc'[t] = "hung" => pc[t] = "hung"
    BY <1>4 DEF Merge
  <2>. QED
    BY <2>1, <2>2
<1>5. ASSUME NEW s \in Scanner, ~crashed, Unreg(s) PROVE FaultInv'
  <2>1. UNCHANGED <<late, garbled, codegen, gen, disk, met>>
    BY <1>5 DEF Unreg
  <2>2. \A t \in Scanner : pc'[t] = "hung" => pc[t] = "hung"
    BY <1>5 DEF Unreg
  <2>. QED
    BY <2>1, <2>2
<1>6. ASSUME NEW s \in Scanner, ~crashed, Encode(s) PROVE FaultInv'
  <2>1. UNCHANGED <<late, garbled, codegen, gen, disk, met>>
    BY <1>6 DEF Encode
  <2>2. \A t \in Scanner : pc'[t] = "hung" => pc[t] = "hung"
    BY <1>6 DEF Encode
  <2>. QED
    BY <2>1, <2>2
<1>7. ASSUME NEW s \in Scanner, ~crashed, GenerateColumn(s) PROVE FaultInv'
  <2>1. UNCHANGED <<late, garbled>> /\ codegen
    BY <1>7 DEF GenerateColumn, PreparedInv
  <2>2. \A t \in Scanner : pc'[t] = "hung" => pc[t] = "hung"
    BY <1>7 DEF GenerateColumn
  <2>. QED
    BY <2>1, <2>2
<1>8. ASSUME NEW s \in Scanner, ~crashed, ReadPast(s) PROVE FaultInv'
  <2>1. UNCHANGED <<late, garbled, codegen, gen, disk, met>>
    BY <1>8 DEF ReadPast
  <2>2. \A t \in Scanner : pc'[t] = "hung" => pc[t] = "hung"
    BY <1>8 DEF ReadPast
  <2>. QED
    BY <2>1, <2>2
<1>9. ASSUME NEW s \in Scanner, ~crashed, Finalize(s) PROVE FaultInv'
  <2>1. UNCHANGED <<late, garbled>> /\ codegen
    BY <1>9 DEF Finalize, PreparedInv
  <2>2. \A t \in Scanner : pc'[t] = "hung" => pc[t] = "hung"
    BY <1>9 DEF Finalize
  <2>. QED
    BY <2>1, <2>2
<1>10. ASSUME NEW s \in Scanner, ~crashed, Clear(s) PROVE FaultInv'
  <2>1. UNCHANGED <<late, garbled, codegen, gen, disk, met>>
    BY <1>10 DEF Clear
  <2>2. \A t \in Scanner : pc'[t] = "hung" => pc[t] = "hung"
    BY <1>10 DEF Clear
  <2>. QED
    BY <2>1, <2>2
<1>11. ASSUME Restart PROVE FaultInv'
  <2>1. ~garbled' /\ \A t \in Scanner : pc'[t] = "new"
    BY <1>11 DEF Restart, Each
  <2>. QED
    BY <2>1
<1>12. CASE UNCHANGED vars
  <2>1. UNCHANGED <<late, garbled, codegen, gen, disk, met>>
    BY <1>12 DEF vars
  <2>2. \A t \in Scanner : pc'[t] = "hung" => pc[t] = "hung"
    BY <1>12 DEF vars
  <2>. QED
    BY <2>1, <2>2
<1>. QED
  BY <1>1, <1>2, <1>3, <1>4, <1>5, <1>6, <1>7, <1>8, <1>9, <1>10, <1>11, <1>12
     DEF Next, Destroy, Ended

\* The invariant holds at first.
LEMMA InvInit == Init => Inv
<1>. SUFFICES ASSUME Init PROVE Inv
  OBVIOUS
<1>. USE DEF Init, Each
<1>0. ConstantFacts
  BY Constants
<1>1. Types
  <2>1. /\ pc \in [Scanner -> Locations] /\ finalized \in Nat /\ session \in 1 .. MaxSessions
        /\ met \in [Column -> SUBSET Shape]
    BY <1>0 DEF Locations, ConstantFacts
  <2>2. buf \in [Scanner -> Seq(Entries)]
    <3>1. <<>> \in Seq(Entries)
      OBVIOUS
    <3>. QED
      BY <3>1
  <2>3. at \in [Scanner -> 1 .. Len(columns) + 1]
    <3>1. 1 \in 1 .. Len(columns) + 1
      BY <1>0 DEF ConstantFacts
    <3>. QED
      BY <3>1
  <2>4. global \in [Column -> {None, Deleted} \cup Infos] /\ colinfos \in [Scanner -> [Column -> Profile]]
    <3>1. NoColumns \in [Column -> {None, Deleted} \cup Infos]
      BY DEF NoColumns
    <3>. QED
      BY <1>0, <3>1 DEF ConstantFacts
  <2>. QED
    BY <2>1, <2>2, <2>3, <2>4 DEF Types
<1>2. PreparedInv /\ LastInv /\ WrittenInv /\ SavedInv /\ FaultInv
  BY DEF PreparedInv, LastInv, WrittenInv, SavedInv, FaultInv
<1>3. CountInv
  <2>1. Live = {}
    BY DEF Live
  <2>. QED
    BY <2>1, FS_EmptySet DEF CountInv
<1>4. ProfileInv
  <2>1. \A c \in Encoded : met[c] = {} /\ global[c] = None
    BY DEF NoColumns, Encoded
  <2>2. \A c \in Encoded : Global(c) = {} /\ Unmerged(c) = {}
    BY <1>0, <2>1 DEF Global, Unmerged, ConstantFacts
  <2>. QED
    BY <2>1, <2>2 DEF ProfileInv
<1>. QED
  BY <1>1, <1>2, <1>3, <1>4 DEF Inv

\* No step breaks the invariant.
LEMMA InvStep == Inv /\ [Next]_vars => Inv'
BY TypeStep, PreparedStep, CountStep, LastStep, ProfileStep, WrittenStep, SavedStep, FaultStep DEF Inv

\* The invariant of the life of generated code.
THEOREM CodegenInvariance == Spec => []Inv
BY InvInit, InvStep, PTL DEF Spec
-----------------------------------------------------------------------------
(***************************************************************************)
(* Theorems.                                                               *)
(***************************************************************************)
\* The counter of the table is the number of scanners that have been made and
\* have not left, and the module, the profiles and the place in the buffer are
\* what the code takes them for.
THEOREM TypesHold == Spec => []TypeOK
<1>1. Inv => TypeOK
  <2>. SUFFICES ASSUME Inv PROVE TypeOK
    OBVIOUS
  <2>1. \A c \in Column : global[c] \in {None, Deleted} \/ global[c] \in Infos
    BY DEF Inv, Types
  <2>2. \A s \in Scanner : at[s] \in 1 .. Len(columns) + 1
    BY DEF Inv, Types
  <2>. QED
    BY <2>1, <2>2 DEF Inv, Types, CountInv, Live, TypeOK
<1>. QED
  BY <1>1, CodegenInvariance, PTL

\* The profiles written by the last scanner hold every run that any scanner of
\* the table has met, however their destructors interleave, as long as none is
\* made after another has begun to leave.
THEOREM NoProfileLost == Spec => []ProfileComplete
<1>1. Inv => ProfileComplete
  BY DEF Inv, WrittenInv, ProfileComplete
<1>. QED
  BY <1>1, CodegenInvariance, PTL

\* Generated code decodes wrongly, or loops for ever, only where it meets a run
\* of a shape that the process which saved it had not met in that column.
THEOREM FaithfulOnSeen == Spec => []FaultsOnlyOnUnseen
<1>1. Inv => FaultsOnlyOnUnseen
  BY DEF Inv, FaultInv, FaultsOnlyOnUnseen
<1>. QED
  BY <1>1, CodegenInvariance, PTL

\* The module of a table is finalized at most once in a process.
THEOREM OneFinalize == Spec => []FinalizedOnce
<1>1. Inv => FinalizedOnce
  BY DEF Inv, LastInv, FinalizedOnce
<1>. QED
  BY <1>1, CodegenInvariance, PTL
-----------------------------------------------------------------------------
(***************************************************************************)
(* The loop that reads the profiles back.                                  *)
(***************************************************************************)
\* No FLOAT or DOUBLE column is among the first c.
BeforePlain(c) == \A p \in 1 .. c : columns[p] # "plain"

\* Up to the first FLOAT or DOUBLE column the entries of the buffer are those of
\* the turns; so the turns up to there have left no column of numbers out, and
\* nothing takes a decoder away again.
ShiftInv ==
  ~late /\ ~crashed =>
    /\ \A s \in Scanner : pc[s] = "generate" =>
         \A c \in Column : BeforePlain(c) =>
           /\ c \in DOMAIN buf[s] /\ buf[s][c].col = c
           /\ c < at[s] /\ columns[c] = "int" => gen[c] # None
    /\ finalized > 0 =>
         /\ gen # None
         /\ \A c \in Column : BeforePlain(c) /\ columns[c] = "int" => gen[c] # None

\* Induction over the numbers, as a fact about sets.
LEMMA SetInduction ==
  ASSUME NEW S, 0 \in S, \A n \in Nat : n \in S => n + 1 \in S
  PROVE  Nat \subseteq S
<1>. SUFFICES ASSUME Nat \ S # {} PROVE FALSE
  OBVIOUS
<1>. DEFINE R == {ss \in Nat \X Nat : ss[1] < ss[2]}
            T == Nat \ S
<1>1. R = OpToRel(<, Nat)
  BY DEF OpToRel
<1>2. IsWellFoundedOn(R, Nat)
  BY <1>1, NatLessThanWellFounded
<1>3. T \subseteq Nat /\ T # {}
  OBVIOUS
<1>4. PICK x \in T : \A y \in T : <<y, x>> \notin R
  <2>. HIDE DEF R, T
  <2>. QED
    BY <1>2, <1>3, WFMin
<1>5. x \in Nat /\ x # 0 /\ x - 1 \in Nat /\ x - 1 < x
  OBVIOUS
<1>6. x - 1 \notin T
  BY <1>4, <1>5
<1>7. (x - 1) + 1 \in S
  BY <1>5, <1>6
<1>. QED
  BY <1>5, <1>7

\* Up to the first FLOAT or DOUBLE column the k-th encoded column is column k.
LEMMA InPlace ==
  ASSUME ConstantFacts, NEW order \in InOrder(Encoded), NEW c \in Column, BeforePlain(c)
  PROVE  c \in DOMAIN order /\ order[c] = c
<1>. DEFINE n == Len(columns)
            N == Cardinality(Encoded)
            S == {k \in Nat : \A m \in 1 .. k : m <= c => m \in 1 .. N /\ order[m] = m}
<1>1. n \in Nat /\ Encoded \subseteq 1 .. n /\ c \in 1 .. n
  BY DEF ConstantFacts, Encoded
<1>2. IsFiniteSet(Encoded) /\ N \in Nat
  <2>1. PICK b \in Nat : b = n
    BY <1>1
  <2>2. IsFiniteSet(1 .. b)
    BY FiniteInterval
  <2>3. IsFiniteSet(Encoded)
    BY <1>1, <2>1, <2>2, FS_Subset
  <2>. QED
    BY <2>3, FS_CardinalityType
<1>3. /\ order \in [1 .. N -> Encoded] /\ DOMAIN order = 1 .. N
      /\ \A i, j \in 1 .. N : i < j => order[i] < order[j]
  BY DEF InOrder
<1>. HIDE DEF N, n
<1>4. \A i \in 1 .. N : order[i] \in Encoded /\ order[i] \in Nat /\ order[i] >= 1
  <2>1. \A i \in 1 .. N : order[i] \in Encoded
    BY <1>3
  <2>2. \A d \in Encoded : d \in Nat /\ d >= 1
    BY <1>1
  <2>. QED
    BY <2>1, <2>2
<1>5. order \in Injection(1 .. N, Encoded)
  <2>1. ASSUME NEW a \in 1 .. N, NEW b \in 1 .. N, order[a] = order[b] PROVE a = b
    <3>1. a \in Nat /\ b \in Nat /\ ~(a < b) /\ ~(b < a)
      BY <1>2, <1>3, <1>4, <2>1
    <3>. QED
      BY <3>1
  <2>. QED
    BY <1>3, <2>1 DEF Injection, IsInjective
<1>6. Cardinality(1 .. N) = Cardinality(Encoded)
  <2>1. 1 \in Int /\ N \in Int
    BY <1>2
  <2>2. Cardinality(1 .. N) = IF 1 > N THEN 0 ELSE N - 1 + 1
    BY <2>1, FS_Interval
  <2>. QED
    BY <1>2, <2>2 DEF N
<1>7. \A d \in Encoded : \E j \in 1 .. N : order[j] = d
  <2>1. order \in Surjection(1 .. N, Encoded)
    BY <1>2, <1>5, <1>6, FS_Injection
  <2>. QED
    BY <2>1 DEF Surjection
<1>8. 0 \in S
  OBVIOUS
<1>9. ASSUME NEW k \in Nat, k \in S PROVE k + 1 \in S
  <2>1. ASSUME k + 1 <= c PROVE k + 1 \in 1 .. N /\ order[k + 1] = k + 1
    <3>1. k + 1 \in Encoded
      BY <1>1, <2>1 DEF Encoded, BeforePlain, ConstantFacts
    <3>2. PICK j \in 1 .. N : order[j] = k + 1
      BY <1>7, <3>1
    <3>3. \A m \in 1 .. k : m \in 1 .. N /\ order[m] = m
      BY <1>1, <1>9, <2>1
    <3>4. j \in Nat /\ j >= k + 1 /\ c \in Nat
      <4>1. j \in 1 .. k => order[j] = j /\ j # k + 1
        BY <3>3
      <4>. QED
        BY <1>1, <1>2, <3>2, <4>1
    <3>5. k + 1 \in 1 .. N
      BY <1>2, <3>4
    <3>6. ASSUME j > k + 1 PROVE FALSE
      <4>1. order[k + 1] < k + 1 /\ order[k + 1] \in Nat /\ order[k + 1] >= 1
        BY <1>3, <1>4, <3>2, <3>5, <3>6
      <4>2. PICK d \in 1 .. k : d = order[k + 1]
        BY <4>1
      <4>3. d \in 1 .. N /\ order[d] = d /\ d < k + 1
        BY <3>3
      <4>4. order[d] < order[k + 1]
        BY <1>3, <3>5, <4>3
      <4>. QED
        BY <4>2, <4>3, <4>4
    <3>7. j = k + 1
      BY <3>4, <3>6
    <3>. QED
      BY <3>2, <3>5, <3>7
  <2>2. \A m \in 1 .. k + 1 : m \in 1 .. k \/ m = k + 1
    OBVIOUS
  <2>3. \A m \in 1 .. k : m <= c => m \in 1 .. N /\ order[m] = m
    BY <1>9
  <2>. QED
    BY <2>1, <2>2, <2>3
<1>. HIDE DEF S
<1>10. c \in S /\ c \in 1 .. c /\ c <= c
  <2>1. c \in Nat /\ c >= 1
    BY <1>1
  <2>2. Nat \subseteq S
    BY <1>8, <1>9, SetInduction
  <2>. QED
    BY <2>1, <2>2
<1>11. c \in 1 .. N /\ order[c] = c
  BY <1>10 DEF S
<1>. QED
  BY <1>3, <1>11

\* A turn of the loop makes decoders and takes none away.
LEMMA DecodersStay ==
  ASSUME Types, PreparedInv, NEW s \in Scanner, GenerateColumn(s)
  PROVE  /\ gen # None /\ gen' # None
         /\ \A c \in Column : gen[c] # None => gen'[c] # None
         /\ \A c \in Column : c = at[s] /\ buf[s][c].col = c /\ columns[c] = "int" => gen'[c] # None
<1>0. ConstantFacts
  BY Constants DEF Types
<1>1. pc[s] = "generate" /\ at[s] \in 1 .. Len(buf[s]) /\ gen # None /\ gen \in [Column -> Profile]
  BY DEF GenerateColumn, Turn, Types, PreparedInv
<1>2. buf[s][at[s]] \in Entries
  BY <1>1 DEF Types
<1>. DEFINE e == buf[s][at[s]]
<1>3. e.col \in Column /\ e.info.shapes \in SUBSET Shape /\ e.info.shapes # None
  BY <1>0, <1>2 DEF Entries, Infos, ConstantFacts
<1>4. gen' = IF at[s] \in Missing(gen) THEN Generated(e) ELSE gen
  BY DEF GenerateColumn, Turn
<1>. HIDE DEF e
<1>5. gen' # None
  <2>1. CASE gen' = gen
    BY <1>1, <2>1
  <2>2. CASE gen' = [gen EXCEPT ![e.col] = e.info.shapes]
    <3>1. gen' \in [Column -> Profile]
      BY <1>0, <1>1, <1>3, <2>2 DEF ConstantFacts
    <3>. QED
      BY <1>0, <3>1 DEF ConstantFacts
  <2>. QED
    BY <1>4, <2>1, <2>2 DEF Generated
<1>6. \A c \in Column : gen[c] # None => gen'[c] # None
  BY <1>1, <1>3, <1>4 DEF Generated
<1>7. ASSUME NEW c \in Column, c = at[s], buf[s][c].col = c, columns[c] = "int"
      PROVE  gen'[c] # None
  <2>1. e.col = c
    BY <1>7 DEF e
  <2>2. CASE gen[c] # None
    BY <1>6, <2>2
  <2>3. CASE gen[c] = None
    <3>1. c \in Missing(gen)
      BY <1>7, <2>3 DEF Missing, Encoded
    <3>2. gen' = [gen EXCEPT ![c] = e.info.shapes]
      BY <1>4, <1>7, <2>1, <2>3, <3>1 DEF Generated
    <3>. QED
      BY <1>1, <1>3, <3>2
  <2>. QED
    BY <2>2, <2>3
<1>. QED
  BY <1>1, <1>5, <1>6, <1>7

\* The entries and the turns stay in step up to the first FLOAT or DOUBLE column.
LEMMA ShiftStep ==
  ASSUME Types, PreparedInv, LastInv, ProfileInv, ShiftInv, [Next]_vars
  PROVE  ShiftInv'
<1>. USE DEF Types, Go, scanVars, genVars, Locations
<1>0. /\ ConstantFacts /\ columns' = columns /\ Column' = Column /\ Encoded' = Encoded
      /\ Entries' = Entries /\ NoColumns' = NoColumns
  BY Constants, Same DEF Types
<1>00. ~late' => ~late
  BY LateStays
<1>000. \A c : BeforePlain(c)' <=> BeforePlain(c)
  BY <1>0 DEF BeforePlain
<1>. USE <1>0
\* A step that leaves alone what the invariant speaks of.
<1>a. ASSUME ~crashed, UNCHANGED <<gen, finalized, buf, at>>,
             \A t \in Scanner : pc'[t] = "generate" => pc[t] = "generate"
      PROVE  ShiftInv'
  BY <1>00, <1>000, <1>a DEF ShiftInv
<1>1. ASSUME NEW s \in Scanner, ~crashed, Construct(s) PROVE ShiftInv'
  <2>1. UNCHANGED <<gen, finalized, buf, at>> /\ \A t \in Scanner : pc'[t] = "generate" => pc[t] = "generate"
    BY <1>1 DEF Construct
  <2>. QED
    BY <1>1, <1>a, <2>1
<1>2. ASSUME NEW s \in Scanner, ~crashed, Prepare(s) PROVE ShiftInv'
  <2>1. /\ UNCHANGED <<finalized, buf, at>> /\ \A t \in Scanner : pc'[t] = "generate" => pc[t] = "generate"
        /\ gen # None => gen' = gen
    BY <1>2 DEF Prepare, CodeGen
  <2>2. CASE gen # None
    BY <1>2, <1>a, <2>1, <2>2
  <2>3. CASE gen = None
    <3>1. \A t \in Scanner : pc'[t] # "generate"
      BY <2>1, <2>3 DEF PreparedInv
    <3>2. ~late' => ~(finalized' > 0)
      BY <1>00, <1>2, <2>1, <2>3 DEF ShiftInv
    <3>. QED
      BY <3>1, <3>2 DEF ShiftInv
  <2>. QED
    BY <2>2, <2>3
<1>3. ASSUME NEW s \in Scanner, ~crashed, NEW shapes \in [Encoded -> Stripes], NextBatch(s, shapes) PROVE ShiftInv'
  <2>1. UNCHANGED <<gen, finalized, buf, at>> /\ \A t \in Scanner : pc'[t] = "generate" => pc[t] = "generate"
    BY <1>3 DEF NextBatch
  <2>. QED
    BY <1>3, <1>a, <2>1
<1>4. ASSUME NEW s \in Scanner, ~crashed, Merge(s) PROVE ShiftInv'
  <2>1. UNCHANGED <<gen, finalized, buf, at>> /\ \A t \in Scanner : pc'[t] = "generate" => pc[t] = "generate"
    BY <1>4 DEF Merge
  <2>. QED
    BY <1>4, <1>a, <2>1
<1>5. ASSUME NEW s \in Scanner, ~crashed, Unreg(s) PROVE ShiftInv'
  <2>1. UNCHANGED <<gen, finalized, buf, at>> /\ \A t \in Scanner : pc'[t] = "generate" => pc[t] = "generate"
    BY <1>5 DEF Unreg
  <2>. QED
    BY <1>5, <1>a, <2>1
<1>6. ASSUME NEW s \in Scanner, ~crashed, Encode(s) PROVE ShiftInv'
  <2>1. /\ pc[s] = "encode" /\ pc' = [pc EXCEPT ![s] = "generate"] /\ at' = [at EXCEPT ![s] = 1]
        /\ UNCHANGED <<gen, finalized, late>>
    BY <1>6 DEF Encode
  <2>2. SUFFICES ASSUME ~late, ~crashed' PROVE ShiftInv'
    BY <1>00 DEF ShiftInv
  <2>3. codegen /\ gen # None /\ finalized = 0 /\ \A t \in Scanner \ {s} : pc'[t] # "generate"
    BY <2>1, <2>2 DEF PreparedInv, LastInv
  <2>4. gen = NoColumns /\ Missing(gen) = Encoded
    BY <1>6, <2>1, <2>2, <2>3, CollectingWhile, AllMissing
  <2>5. PICK order \in InOrder(Encoded) :
          buf' = [buf EXCEPT ![s] = [k \in DOMAIN order |-> Entry(order[k])]]
    BY <1>6, <2>2, <2>4 DEF Encode
  <2>6. ASSUME NEW c \in Column, BeforePlain(c)
        PROVE  c \in DOMAIN buf'[s] /\ buf'[s][c].col = c /\ ~(c < at'[s])
    <3>1. c \in DOMAIN order /\ order[c] = c
      BY <2>5, <2>6, InPlace
    <3>2. buf'[s] = [k \in DOMAIN order |-> Entry(order[k])] /\ at'[s] = 1
      BY <2>1, <2>5
    <3>3. c \in DOMAIN buf'[s] /\ buf'[s][c] = Entry(c)
      BY <3>1, <3>2
    <3>4. ~(c < 1)
      BY DEF ConstantFacts
    <3>. QED
      BY <3>2, <3>3, <3>4 DEF Entry
  <2>7. ~(finalized' > 0)
    BY <2>1, <2>3
  <2>8. \A t \in Scanner : pc'[t] = "generate" => t = s
    BY <2>3
  <2>. QED
    BY <1>000, <2>6, <2>7, <2>8 DEF ShiftInv
<1>7. ASSUME NEW s \in Scanner, ~crashed, GenerateColumn(s) PROVE ShiftInv'
  <2>1. /\ pc[s] = "generate" /\ at' = [at EXCEPT ![s] = @ + 1] /\ at[s] \in Nat
        /\ UNCHANGED <<pc, buf, finalized, late>>
    BY <1>7 DEF GenerateColumn, ConstantFacts
  <2>2. SUFFICES ASSUME ~late PROVE ShiftInv'
    BY <1>00 DEF ShiftInv
  <2>3. \A t \in Scanner \ {s} : pc'[t] # "generate"
    BY <2>1, <2>2 DEF LastInv
  <2>4. ~(finalized' > 0)
    <3>1. finalized = 0
      BY <2>1, <2>2 DEF LastInv
    <3>. QED
      BY <2>1, <3>1
  <2>5. ASSUME NEW c \in Column, BeforePlain(c)
        PROVE  /\ c \in DOMAIN buf'[s] /\ buf'[s][c].col = c
               /\ c < at'[s] /\ columns[c] = "int" => gen'[c] # None
    <3>1. /\ c \in DOMAIN buf[s] /\ buf[s][c].col = c
          /\ c < at[s] /\ columns[c] = "int" => gen[c] # None
      BY <1>7, <2>1, <2>2, <2>5 DEF ShiftInv
    <3>2. c < at'[s] => c < at[s] \/ c = at[s]
      BY <2>1 DEF ConstantFacts
    <3>3. columns[c] = "int" /\ c < at'[s] => gen'[c] # None
      BY <1>7, <3>1, <3>2, DecodersStay
    <3>. QED
      BY <2>1, <3>1, <3>3
  <2>6. \A t \in Scanner : pc'[t] = "generate" => t = s
    BY <2>3
  <2>. QED
    BY <1>000, <2>4, <2>5, <2>6 DEF ShiftInv
<1>8. ASSUME NEW s \in Scanner, ~crashed, ReadPast(s) PROVE ShiftInv'
  <2>1. /\ pc[s] = "generate" /\ at' = [at EXCEPT ![s] = @ + 1] /\ at[s] \in Nat
        /\ UNCHANGED <<pc, buf, finalized, late, gen>> /\ at[s] > Len(buf[s])
    BY <1>8 DEF ReadPast, Turn, ConstantFacts
  <2>2. SUFFICES ASSUME ~late PROVE ShiftInv'
    BY <1>00 DEF ShiftInv
  <2>3. \A t \in Scanner \ {s} : pc'[t] # "generate"
    BY <2>1, <2>2 DEF LastInv
  <2>4. ~(finalized' > 0)
    <3>1. finalized = 0
      BY <2>1, <2>2 DEF LastInv
    <3>. QED
      BY <2>1, <3>1
  <2>5. ASSUME NEW c \in Column, BeforePlain(c)
        PROVE  /\ c \in DOMAIN buf'[s] /\ buf'[s][c].col = c
               /\ c < at'[s] /\ columns[c] = "int" => gen'[c] # None
    <3>1. /\ c \in DOMAIN buf[s] /\ buf[s][c].col = c
          /\ c < at[s] /\ columns[c] = "int" => gen[c] # None
      BY <1>8, <2>1, <2>2, <2>5 DEF ShiftInv
    <3>2. c < at[s]
      <4>1. buf[s] \in Seq(Entries)
        OBVIOUS
      <4>2. c \in 1 .. Len(buf[s]) /\ Len(buf[s]) \in Nat
        BY <3>1, <4>1
      <4>. QED
        BY <2>1, <4>2
    <3>. QED
      BY <2>1, <3>1, <3>2
  <2>6. \A t \in Scanner : pc'[t] = "generate" => t = s
    BY <2>3
  <2>. QED
    BY <1>000, <2>4, <2>5, <2>6 DEF ShiftInv
<1>9. ASSUME NEW s \in Scanner, ~crashed, Finalize(s) PROVE ShiftInv'
  <2>1. /\ pc[s] = "generate" /\ pc' = [pc EXCEPT ![s] = "clear"] /\ at[s] > Len(columns)
        /\ UNCHANGED <<late, gen>>
    BY <1>9 DEF Finalize
  <2>2. SUFFICES ASSUME ~late PROVE ShiftInv'
    BY <1>00 DEF ShiftInv
  <2>3. \A t \in Scanner : pc'[t] # "generate"
    BY <2>1, <2>2 DEF LastInv
  <2>4. gen # None
    BY <2>1 DEF PreparedInv
  <2>5. ASSUME NEW c \in Column, BeforePlain(c), columns[c] = "int" PROVE gen[c] # None
    <3>1. at[s] \in Nat /\ Len(columns) \in Nat /\ c \in 1 .. Len(columns)
      BY DEF ConstantFacts
    <3>2. c < at[s]
      BY <2>1, <3>1
    <3>. QED
      BY <1>9, <2>1, <2>2, <2>5, <3>2 DEF ShiftInv
  <2>. QED
    BY <1>000, <2>1, <2>3, <2>4, <2>5 DEF ShiftInv
<1>10. ASSUME NEW s \in Scanner, ~crashed, Clear(s) PROVE ShiftInv'
  <2>1. UNCHANGED <<gen, finalized, buf, at>> /\ \A t \in Scanner : pc'[t] = "generate" => pc[t] = "generate"
    BY <1>10 DEF Clear
  <2>. QED
    BY <1>10, <1>a, <2>1
<1>11. ASSUME Restart PROVE ShiftInv'
  <2>1. finalized' = 0 /\ \A t \in Scanner : pc'[t] = "new"
    BY <1>11 DEF Restart, Each
  <2>. QED
    BY <2>1 DEF ShiftInv
<1>12. CASE UNCHANGED vars
  <2>1. UNCHANGED <<gen, finalized, buf, at, pc, crashed, late>>
    BY <1>12 DEF vars
  <2>. QED
    BY <1>000, <2>1 DEF ShiftInv
<1>. QED
  BY <1>1, <1>2, <1>3, <1>4, <1>5, <1>6, <1>7, <1>8, <1>9, <1>10, <1>11, <1>12
     DEF Next, Destroy, Ended

\* The entries and the turns are in step at first, and stay so.
LEMMA ShiftInvariance == Spec => []ShiftInv
<1>1. Init => ShiftInv
  BY DEF Init, Each, ShiftInv
<1>2. Inv /\ ShiftInv /\ [Next]_vars => ShiftInv'
  BY ShiftStep DEF Inv
<1>. QED
  BY <1>1, <1>2, CodegenInvariance, PTL DEF Spec

\* Every column of numbers gets its decoder, unless a FLOAT or DOUBLE column has
\* been selected before it: the turns of the loop over all columns and the
\* profiles written for the encoded ones go together until then.
THEOREM DecodersMade == Spec => []GeneratedUnlessShifted
<1>1. Inv /\ ShiftInv => GeneratedUnlessShifted
  <2>. SUFFICES ASSUME Inv, ShiftInv, ~late, ~crashed, finalized > 0,
                       NEW c \in Column, columns[c] = "int", gen[c] = None
                PROVE  \E p \in 1 .. c-1 : columns[p] = "plain"
    BY DEF GeneratedUnlessShifted
  <2>1. ~BeforePlain(c)
    BY DEF ShiftInv
  <2>2. PICK p \in 1 .. c : columns[p] = "plain"
    BY <2>1 DEF BeforePlain
  <2>3. c \in Nat /\ p # c
    BY <2>2, Constants DEF Inv, Types, ConstantFacts
  <2>. QED
    BY <2>2, <2>3
<1>. QED
  BY <1>1, CodegenInvariance, ShiftInvariance, PTL
-----------------------------------------------------------------------------
(***************************************************************************)
(* The end of the destructors.                                             *)
(***************************************************************************)
\* Some scanner has gone, or is going, without having read a stripe.
Idle == \E s \in Scanner : batches[s] = 0 /\ pc[s] \in Begun

\* A profile with runs, which the total counts.
HasRuns(info) == info.shapes # {} /\ info.total # {}

\* As every scanner that has read a stripe has a run to show for each column, so
\* have the merged profiles, what is written of them and what is made of that.
RunsInv ==
  /\ batches \in [Scanner -> Nat]
  /\ \A s \in Scanner : pc[s] \in {"new", "built"} => batches[s] = 0
  /\ gen = None => global = NoColumns
  /\ ~codegen /\ gen # None => \/ global = NoColumns
                               \/ \A c \in Missing(gen) : global[c] \in Infos
  /\ codegen =>
       /\ \A s \in Scanner : pc[s] = "scan" /\ batches[s] # 0 =>
            \A c \in Missing(gen) : colinfos[s][c] # {}
       /\ ~Idle /\ gen # None =>
            /\ \A c \in Missing(gen) : global[c] \in Infos => HasRuns(global[c])
            /\ \A s \in Scanner : pc[s] = "generate" =>
                 \A k \in DOMAIN buf[s] : HasRuns(buf[s][k].info)
            /\ \A c \in Encoded : gen[c] # {}

\* The buffer is that of the loop that reads it.
BufferInv == \A s \in Scanner : pc[s] # "generate" => buf[s] = <<>>

\* Nothing is left in it when the loop has ended.
LEMMA BufferStep ==
  ASSUME Types, BufferInv, [Next]_vars
  PROVE  BufferInv'
<1>. USE DEF Types, BufferInv, Go, scanVars, genVars, Locations
<1>1. ASSUME NEW s \in Scanner, Encode(s) PROVE BufferInv'
  <2>1. pc' = [pc EXCEPT ![s] = "generate"]
    BY <1>1 DEF Encode
  <2>2. \A t \in Scanner \ {s} : buf'[t] = buf[t]
    <3>1. CASE UNCHANGED buf
      BY <3>1
    <3>2. CASE Lacking = {}
      BY <1>1, <3>2 DEF Encode
    <3>. QED
      BY <1>1, <3>1, <3>2 DEF Encode
  <2>. QED
    BY <2>1, <2>2
<1>2. ASSUME NEW s \in Scanner, Finalize(s) PROVE BufferInv'
  BY <1>2 DEF Finalize
<1>3. ASSUME Restart PROVE BufferInv'
  BY <1>3 DEF Restart, Each
<1>4. ASSUME UNCHANGED buf, \A t \in Scanner : pc[t] = "generate" => pc'[t] = "generate"
      PROVE  BufferInv'
  BY <1>4
<1>5. ASSUME NEW s \in Scanner, Construct(s) \/ Prepare(s) PROVE BufferInv'
  BY <1>4, <1>5 DEF Construct, Prepare
<1>6. ASSUME NEW s \in Scanner, NEW shapes \in [Encoded -> Stripes], NextBatch(s, shapes) PROVE BufferInv'
  BY <1>4, <1>6 DEF NextBatch
<1>7. ASSUME NEW s \in Scanner, Merge(s) \/ Unreg(s) \/ Clear(s) PROVE BufferInv'
  BY <1>4, <1>7 DEF Merge, Unreg, Clear
<1>8. ASSUME NEW s \in Scanner, GenerateColumn(s) \/ ReadPast(s) PROVE BufferInv'
  BY <1>4, <1>8 DEF GenerateColumn, ReadPast
<1>9. CASE UNCHANGED vars
  BY <1>4, <1>9 DEF vars
<1>. QED
  BY <1>1, <1>2, <1>3, <1>5, <1>6, <1>7, <1>8, <1>9 DEF Next, Destroy, Ended

\* A profile of some runs has runs as it is written, and keeps them.
LEMMA CountedRuns ==
  ASSUME NEW profile \in SUBSET Shape, profile # {}
  PROVE  /\ HasRuns(Counted(profile))
         /\ \A info \in Infos : HasRuns(info) => HasRuns(Added(info, profile))
<1>1. HasRuns(Counted(profile))
  BY DEF HasRuns, Counted
<1>2. ASSUME NEW info \in Infos, HasRuns(info) PROVE HasRuns(Added(info, profile))
  <2>1. Added(info, profile).shapes = info.shapes \cup profile /\ Added(info, profile).total = info.total
    BY DEF Added, Infos
  <2>. QED
    BY <1>2, <2>1 DEF HasRuns
<1>. QED
  BY <1>1, <1>2

\* The profiles of the columns keep their runs.
LEMMA RunsStep ==
  ASSUME {} \notin Stripes, Types, PreparedInv, BufferInv, RunsInv, [Next]_vars
  PROVE  RunsInv'
<1>. USE DEF Types, Go, scanVars, genVars, Locations
<1>0. /\ ConstantFacts /\ columns' = columns /\ Column' = Column /\ Encoded' = Encoded
      /\ Entries' = Entries /\ NoColumns' = NoColumns
  BY Constants, Same DEF Types
<1>. USE <1>0
<1>00. Missing(gen)' = Missing(gen')
  BY DEF Missing
<1>b. ASSUME \A t \in Scanner : pc[t] \in Begun => pc'[t] \in Begun /\ batches'[t] = batches[t]
      PROVE  Idle => Idle'
  BY <1>b, Zenon DEF Idle
\* A step that leaves alone what the invariant speaks of, or clears the profiles.
<1>a. ASSUME UNCHANGED <<codegen, gen, batches>>, global' \in {global, NoColumns},
             \A t \in Scanner : /\ pc'[t] = "generate" => pc[t] = "generate" /\ buf'[t] = buf[t]
                                /\ pc'[t] = "scan" => pc[t] = "scan" /\ colinfos'[t] = colinfos[t]
                                /\ pc'[t] \in {"new", "built"} => pc[t] \in {"new", "built"}
                                /\ pc[t] \in Begun => pc'[t] \in Begun
      PROVE  RunsInv'
  <2>1. Idle => Idle'
    BY <1>a, <1>b
  <2>2. Missing(gen)' = Missing(gen)
    BY <1>a, <1>00
  <2>3. /\ batches' \in [Scanner -> Nat]
        /\ \A t \in Scanner : pc'[t] \in {"new", "built"} => batches'[t] = 0
    BY <1>a DEF RunsInv
  <2>4. /\ gen' = None => global' = NoColumns
        /\ ~codegen' /\ gen' # None => \/ global' = NoColumns
                                       \/ \A c \in Missing(gen) : global'[c] \in Infos
    BY <1>a DEF RunsInv
  <2>5. codegen' => \A t \in Scanner : pc'[t] = "scan" /\ batches'[t] # 0 =>
                      \A c \in Missing(gen) : colinfos'[t][c] # {}
    BY <1>a DEF RunsInv
  <2>6. ASSUME codegen, ~Idle, gen # None
        PROVE  /\ \A c \in Missing(gen) : global'[c] \in Infos => HasRuns(global'[c])
               /\ \A t \in Scanner : pc'[t] = "generate" =>
                    \A k \in DOMAIN buf'[t] : HasRuns(buf'[t][k].info)
               /\ \A c \in Encoded : gen'[c] # {}
    <3>1. \A c \in Missing(gen) : NoColumns[c] \notin Infos
      BY DEF Missing, Encoded, NoColumns, ConstantFacts
    <3>2. \A c \in Missing(gen) : global'[c] \in Infos => HasRuns(global'[c])
      BY <1>a, <2>6, <3>1 DEF RunsInv
    <3>3. ASSUME NEW t \in Scanner, pc'[t] = "generate", NEW k \in DOMAIN buf'[t]
          PROVE  HasRuns(buf'[t][k].info)
      BY <1>a, <2>6, <3>3 DEF RunsInv
    <3>4. \A c \in Encoded : gen'[c] # {}
      BY <1>a, <2>6 DEF RunsInv
    <3>. QED
      BY <3>2, <3>3, <3>4
  <2>7. codegen' = codegen /\ gen' = gen
    BY <1>a
  <2>. HIDE DEF Types, ConstantFacts
  <2>. QED
    BY <2>1, <2>2, <2>3, <2>4, <2>5, <2>6, <2>7, Zenon DEF RunsInv, HasRuns
<1>1. ASSUME NEW s \in Scanner, ~crashed, Construct(s) PROVE RunsInv'
  <2>1. /\ UNCHANGED <<codegen, gen, batches, global, buf, colinfos>>
        /\ pc[s] = "new" /\ pc' = [pc EXCEPT ![s] = "built"]
    BY <1>1 DEF Construct
  <2>2. \A t \in Scanner : t # s => pc'[t] = pc[t]
    BY <2>1
  <2>. QED
    BY <1>a, <2>1, <2>2 DEF Begun
<1>2. ASSUME NEW s \in Scanner, ~crashed, Prepare(s) PROVE RunsInv'
  <2>1. /\ UNCHANGED <<codegen, batches, global, buf>> /\ gen' = CodeGen
        /\ pc[s] = "built" /\ pc' = [pc EXCEPT ![s] = "scan"]
        /\ colinfos' = [colinfos EXCEPT ![s] = [c \in Column |-> IF c \in Missing(gen') THEN {} ELSE None]]
    BY <1>2 DEF Prepare
  <2>2. gen # None => gen' = gen
    BY <2>1 DEF CodeGen
  <2>3. \A t \in Scanner : t # s => pc'[t] = pc[t] /\ colinfos'[t] = colinfos[t]
    BY <2>1
  <2>4. Idle => Idle'
    BY <1>b, <2>1, <2>3 DEF Begun
  <2>5. batches[s] = 0
    BY <2>1 DEF RunsInv
  <2>6. /\ batches' \in [Scanner -> Nat]
        /\ \A t \in Scanner : pc'[t] \in {"new", "built"} => batches'[t] = 0
    BY <2>1, <2>3 DEF RunsInv
  <2>7. CASE gen # None
    <3>1. Missing(gen)' = Missing(gen) /\ gen' = gen
      BY <1>00, <2>2, <2>7
    <3>2. codegen => \A t \in Scanner : pc'[t] = "scan" /\ batches'[t] # 0 =>
                       \A c \in Missing(gen) : colinfos'[t][c] # {}
      BY <2>1, <2>3, <2>5 DEF RunsInv
    <3>3. \A t \in Scanner : pc'[t] = "generate" => pc[t] = "generate" /\ buf'[t] = buf[t]
      BY <2>1, <2>3
    <3>4. ASSUME codegen, ~Idle, NEW t \in Scanner, pc'[t] = "generate", NEW k \in DOMAIN buf'[t]
          PROVE  HasRuns(buf'[t][k].info)
      BY <2>7, <3>3, <3>4 DEF RunsInv
    <3>5. global' = global /\ codegen' = codegen
      BY <2>1
    <3>. QED
      BY <2>4, <2>6, <2>7, <3>1, <3>2, <3>4, <3>5, Zenon DEF RunsInv, HasRuns
  <2>8. CASE gen = None
    <3>1. global' = NoColumns
      BY <2>1, <2>8 DEF RunsInv
    <3>2. \A t \in Scanner : pc'[t] = "scan" => t = s
      BY <2>3, <2>8 DEF PreparedInv
    <3>3. \A t \in Scanner : pc'[t] # "generate"
      BY <2>1, <2>3, <2>8 DEF PreparedInv
    <3>4. codegen => \A c \in Encoded : gen'[c] # {}
      <4>1. \A c \in Encoded : NoColumns[c] = None
        BY DEF NoColumns, Encoded
      <4>2. codegen => gen' = NoColumns
        BY <2>1, <2>8 DEF CodeGen
      <4>3. None # {}
        <5>1. {} \in SUBSET Shape
          OBVIOUS
        <5>. QED
          BY <5>1 DEF ConstantFacts
      <4>. QED
        BY <4>1, <4>2, <4>3
    <3>5. \A c \in Encoded : NoColumns[c] \notin Infos
      BY DEF NoColumns, Encoded, ConstantFacts
    <3>6. \A c \in Missing(gen)' : global'[c] \notin Infos
      BY <1>00, <3>1, <3>5 DEF Missing
    <3>7. batches'[s] = 0
      BY <2>1, <2>5
    <3>. QED
      BY <2>1, <2>6, <3>1, <3>2, <3>3, <3>4, <3>6, <3>7, Zenon DEF RunsInv, HasRuns
  <2>. QED
    BY <2>7, <2>8
<1>3. ASSUME NEW s \in Scanner, ~crashed, NEW shapes \in [Encoded -> Stripes], NextBatch(s, shapes) PROVE RunsInv'
  <2>1. /\ UNCHANGED <<codegen, gen, global, buf>> /\ gen # None
        /\ pc[s] = "scan" /\ pc'[s] \in {"scan", "hung"} /\ batches' = [batches EXCEPT ![s] = @ + 1]
        /\ \A t \in Scanner : t # s => pc'[t] = pc[t] /\ colinfos'[t] = colinfos[t]
    BY <1>3 DEF NextBatch, PreparedInv
  <2>2. Missing(gen)' = Missing(gen)
    BY <1>00, <2>1
  <2>3. \A t \in Scanner : t # s => batches'[t] = batches[t]
    BY <2>1 DEF RunsInv
  <2>4. Idle => Idle'
    BY <1>b, <2>1, <2>3 DEF Begun
  <2>5. /\ batches' \in [Scanner -> Nat]
        /\ \A t \in Scanner : pc'[t] \in {"new", "built"} => batches'[t] = 0
    BY <2>1, <2>3 DEF RunsInv
  <2>6. codegen => \A c \in Missing(gen) : colinfos'[s][c] # {}
    <3>1. ASSUME codegen, NEW c \in Missing(gen) PROVE colinfos'[s][c] # {}
      <4>1. c \in Column /\ c \in Encoded
        BY DEF Missing, Encoded
      <4>2. colinfos'[s][c] = colinfos[s][c] \cup shapes[c]
        BY <1>3, <3>1, <4>1 DEF NextBatch
      <4>3. shapes[c] # {}
        <5>1. shapes[c] \in Stripes
          BY <4>1
        <5>. QED
          BY <5>1
      <4>. QED
        BY <4>2, <4>3
    <3>. QED
      BY <3>1
  <2>7. codegen => \A t \in Scanner : pc'[t] = "scan" /\ batches'[t] # 0 =>
                     \A c \in Missing(gen) : colinfos'[t][c] # {}
    <3>1. ASSUME codegen, NEW t \in Scanner, t # s, pc'[t] = "scan", batches'[t] # 0
          PROVE  \A c \in Missing(gen) : colinfos'[t][c] # {}
      <4>1. pc[t] = "scan" /\ batches[t] # 0 /\ colinfos'[t] = colinfos[t]
        BY <2>1, <2>3, <3>1
      <4>. QED
        BY <3>1, <4>1 DEF RunsInv
    <3>. QED
      BY <2>6, <3>1
  <2>8. \A t \in Scanner : pc'[t] = "generate" => pc[t] = "generate" /\ buf'[t] = buf[t]
    BY <2>1
  <2>9. ASSUME codegen, ~Idle, NEW t \in Scanner, pc'[t] = "generate", NEW k \in DOMAIN buf'[t]
        PROVE  HasRuns(buf'[t][k].info)
    BY <2>1, <2>8, <2>9 DEF RunsInv
  <2>10. global' = global /\ codegen' = codegen /\ gen' = gen
    BY <2>1
  <2>. QED
    BY <2>2, <2>4, <2>5, <2>7, <2>9, <2>10, Zenon DEF RunsInv, HasRuns
<1>4. ASSUME NEW s \in Scanner, ~crashed, Merge(s) PROVE RunsInv'
  <2>1. /\ UNCHANGED <<codegen, gen, batches, colinfos, buf>> /\ gen # None
        /\ pc[s] = "scan" /\ pc' = [pc EXCEPT ![s] = "merged"]
    BY <1>4 DEF Merge, PreparedInv
  <2>2. \A t \in Scanner : t # s => pc'[t] = pc[t]
    BY <2>1
  <2>3. \A t \in Scanner : pc[t] \in Begun => pc'[t] \in Begun
    BY <2>1, <2>2 DEF Begun
  <2>4. CASE global' = global
    BY <1>a, <2>1, <2>2, <2>3, <2>4
  <2>5. CASE global' = Merged(s) /\ ~(global # NoColumns /\ Lacking # {})
    <3>1. Missing(gen)' = Missing(gen)
      BY <1>00, <2>1
    <3>2. Idle => Idle'
      BY <1>b, <2>1, <2>3
    <3>3. batches[s] = 0 => Idle'
      BY <2>1 DEF Idle, Begun
    <3>4. ASSUME NEW c \in Missing(gen)
          PROVE  /\ global'[c] \in Infos
                 /\ codegen /\ ~Idle' => HasRuns(global'[c])
      <4>1. c \in Column /\ colinfos[s][c] \in SUBSET Shape
        BY <2>1 DEF PreparedInv, Missing, Encoded
      <4>2. codegen /\ ~Idle' => colinfos[s][c] # {}
        BY <2>1, <3>3, <3>4 DEF RunsInv
      <4>3. CASE global = NoColumns
        <5>1. global'[c] = Counted(colinfos[s][c])
          BY <2>5, <3>4, <4>1, <4>3 DEF Merged
        <5>2. Counted(colinfos[s][c]) \in Infos
          BY <4>1 DEF Counted, Infos
        <5>. QED
          BY <4>1, <4>2, <5>1, <5>2, CountedRuns
      <4>4. CASE global # NoColumns
        <5>1. global[c] \in Infos
          BY <2>5, <3>4, <4>1, <4>4 DEF Lacking
        <5>2. global'[c] = Added(global[c], colinfos[s][c])
          BY <2>5, <3>4, <4>1, <4>4, Zenon DEF Merged
        <5>3. global'[c] \in Infos
          BY <4>1, <5>1, <5>2, AddedRuns
        <5>4. codegen /\ ~Idle' => HasRuns(global[c])
          BY <2>1, <3>2, <3>4, <5>1 DEF RunsInv
        <5>5. codegen /\ ~Idle' => HasRuns(Added(global[c], colinfos[s][c]))
          BY <4>1, <4>2, <5>1, <5>4, CountedRuns
        <5>. QED
          BY <5>2, <5>3, <5>5
      <4>. QED
        BY <4>3, <4>4
    <3>5. /\ batches' \in [Scanner -> Nat]
          /\ \A t \in Scanner : pc'[t] \in {"new", "built"} => batches'[t] = 0
      BY <2>1, <2>2 DEF RunsInv
    <3>6. \A t \in Scanner : pc'[t] = "scan" => pc[t] = "scan" /\ t # s
      BY <2>1, <2>2
    <3>7. codegen => \A t \in Scanner : pc'[t] = "scan" /\ batches'[t] # 0 =>
                       \A c \in Missing(gen) : colinfos'[t][c] # {}
      BY <2>1, <3>6 DEF RunsInv
    <3>8. ASSUME codegen, ~Idle, NEW t \in Scanner, pc'[t] = "generate", NEW k \in DOMAIN buf'[t]
          PROVE  HasRuns(buf'[t][k].info)
      <4>1. pc[t] = "generate" /\ buf'[t] = buf[t]
        BY <2>1, <2>2, <3>8
      <4>. QED
        BY <2>1, <3>8, <4>1 DEF RunsInv
    <3>9. codegen' = codegen /\ gen' = gen /\ gen # None
      BY <2>1
    <3>. QED
      BY <3>1, <3>2, <3>4, <3>5, <3>7, <3>8, <3>9, Zenon DEF RunsInv, HasRuns
  <2>. QED
    BY <1>4, <2>4, <2>5 DEF Merge
<1>5. ASSUME NEW s \in Scanner, ~crashed, Unreg(s) PROVE RunsInv'
  <2>1. /\ UNCHANGED <<codegen, gen, batches, global, buf>>
        /\ pc[s] = "merged" /\ pc'[s] \in {"gone", "encode", "clear"}
        /\ \A t \in Scanner : t # s => pc'[t] = pc[t] /\ colinfos'[t] = colinfos[t]
    BY <1>5 DEF Unreg, Forget
  <2>. QED
    BY <1>a, <2>1 DEF Begun
<1>6. ASSUME NEW s \in Scanner, ~crashed, Encode(s) PROVE RunsInv'
  <2>1. /\ UNCHANGED <<codegen, gen, batches, colinfos>> /\ gen # None /\ codegen
        /\ pc[s] = "encode" /\ pc' = [pc EXCEPT ![s] = "generate"]
    BY <1>6 DEF Encode, PreparedInv
  <2>2. \A t \in Scanner : t # s => pc'[t] = pc[t]
    BY <2>1
  <2>3. \A t \in Scanner : pc[t] \in Begun => pc'[t] \in Begun
    BY <2>1, <2>2 DEF Begun
  <2>4. Missing(gen)' = Missing(gen)
    BY <1>00, <2>1
  <2>5. Idle => Idle'
    BY <1>b, <2>1, <2>3
  <2>6. /\ batches' \in [Scanner -> Nat]
        /\ \A t \in Scanner : pc'[t] \in {"new", "built"} => batches'[t] = 0
    BY <2>1, <2>2 DEF RunsInv
  <2>7. \A t \in Scanner : pc'[t] = "scan" /\ batches'[t] # 0 =>
          \A c \in Missing(gen) : colinfos'[t][c] # {}
    BY <2>1, <2>2 DEF RunsInv
  <2>8. \A t \in Scanner : t # s => buf'[t] = buf[t]
    <3>1. CASE UNCHANGED buf
      BY <3>1
    <3>2. CASE Lacking = {}
      BY <1>6, <3>2 DEF Encode
    <3>. QED
      BY <1>6, <3>1, <3>2 DEF Encode
  <2>9. ASSUME ~Idle, NEW k \in DOMAIN buf'[s] PROVE HasRuns(buf'[s][k].info)
    <3>1. CASE UNCHANGED buf
      <4>1. buf'[s] = <<>>
        BY <2>1, <3>1 DEF BufferInv
      <4>. QED
        BY <2>9, <4>1
    <3>2. CASE Lacking = {}
      <4>1. PICK order \in InOrder(Missing(gen)) :
              buf' = [buf EXCEPT ![s] = [j \in DOMAIN order |-> Entry(order[j])]]
        BY <1>6, <3>2 DEF Encode
      <4>2. \A j \in DOMAIN order : order[j] \in Missing(gen)
        BY <4>1 DEF InOrder
      <4>3. k \in DOMAIN order /\ buf'[s][k] = Entry(order[k])
        BY <2>9, <4>1
      <4>4. order[k] \in Missing(gen) /\ buf'[s][k].info = global[order[k]]
        BY <4>2, <4>3 DEF Entry
      <4>5. global[order[k]] \in Infos
        BY <3>2, <4>4 DEF Lacking, Missing, Encoded
      <4>6. HasRuns(global[order[k]])
        BY <2>1, <2>9, <4>4, <4>5 DEF RunsInv
      <4>. QED
        BY <4>4, <4>6
    <3>. QED
      BY <1>6, <3>1, <3>2 DEF Encode
  <2>10. ASSUME ~Idle, NEW c \in Missing(gen), global'[c] \in Infos PROVE HasRuns(global'[c])
    <3>1. CASE UNCHANGED global
      BY <2>1, <2>10, <3>1 DEF RunsInv
    <3>2. CASE Lacking = {}
      <4>1. c \in Column /\ global' = [d \in Column |-> IF d \in Missing(gen) THEN Deleted ELSE global[d]]
        BY <1>6, <3>2 DEF Encode, Missing, Encoded
      <4>. QED
        BY <2>10, <4>1 DEF ConstantFacts
    <3>. QED
      BY <1>6, <3>1, <3>2 DEF Encode
  <2>11. ASSUME ~Idle, NEW t \in Scanner, pc'[t] = "generate", NEW k \in DOMAIN buf'[t]
         PROVE  HasRuns(buf'[t][k].info)
    <3>1. CASE t = s
      BY <2>9, <2>11, <3>1
    <3>2. CASE t # s
      <4>1. pc[t] = "generate" /\ buf'[t] = buf[t]
        BY <2>2, <2>8, <2>11, <3>2
      <4>. QED
        BY <2>1, <2>11, <4>1 DEF RunsInv
    <3>. QED
      BY <3>1, <3>2
  <2>12. codegen' /\ codegen /\ gen' = gen
    BY <2>1
  <2>. HIDE DEF Types, ConstantFacts
  <2>. QED
    BY <2>1, <2>4, <2>5, <2>6, <2>7, <2>10, <2>11, <2>12, Zenon DEF RunsInv, HasRuns
<1>7. ASSUME NEW s \in Scanner, ~crashed, GenerateColumn(s) PROVE RunsInv'
  <2>1. /\ UNCHANGED <<codegen, batches, colinfos, pc, global, buf>> /\ codegen
        /\ pc[s] = "generate" /\ at[s] \in 1 .. Len(buf[s]) /\ gen # None /\ gen \in [Column -> Profile]
    BY <1>7 DEF GenerateColumn, Turn, PreparedInv
  <2>2. gen' # None /\ \A c \in Column : gen[c] # None => gen'[c] # None
    BY <1>7, DecodersStay
  <2>3. \A c \in Missing(gen)' : c \in Missing(gen)
    BY <1>00, <2>2 DEF Missing, Encoded
  <2>4. Idle => Idle'
    BY <1>b, <2>1
  <2>5. buf[s][at[s]] \in Entries
    BY <2>1
  <2>6. ASSUME ~Idle, NEW c \in Encoded PROVE gen'[c] # {}
    <3>1. gen[c] # {} /\ c \in Column
      BY <2>1, <2>6 DEF RunsInv, Encoded
    <3>2. HasRuns(buf[s][at[s]].info)
      <4>1. at[s] \in DOMAIN buf[s]
        BY <2>1
      <4>. QED
        BY <2>1, <2>6, <4>1 DEF RunsInv
    <3>3. gen' \in {gen, Generated(buf[s][at[s]])}
      BY <1>7 DEF GenerateColumn, Turn
    <3>. QED
      BY <2>1, <2>5, <3>1, <3>2, <3>3 DEF Generated, HasRuns, Entries
  <2>7. /\ batches' \in [Scanner -> Nat]
        /\ \A t \in Scanner : pc'[t] \in {"new", "built"} => batches'[t] = 0
    BY <2>1 DEF RunsInv
  <2>8. \A t \in Scanner : pc'[t] = "scan" /\ batches'[t] # 0 =>
          \A c \in Missing(gen)' : colinfos'[t][c] # {}
    BY <2>1, <2>3 DEF RunsInv
  <2>9. ~Idle => \A c \in Missing(gen)' : global'[c] \in Infos => HasRuns(global'[c])
    BY <2>1, <2>3 DEF RunsInv
  <2>10. ASSUME ~Idle, NEW t \in Scanner, pc'[t] = "generate", NEW k \in DOMAIN buf'[t]
         PROVE  HasRuns(buf'[t][k].info)
    BY <2>1, <2>10 DEF RunsInv
  <2>11. codegen' /\ codegen
    BY <2>1
  <2>. QED
    BY <2>2, <2>4, <2>6, <2>7, <2>8, <2>9, <2>10, <2>11, Zenon DEF RunsInv, HasRuns
<1>8. ASSUME NEW s \in Scanner, ~crashed, ReadPast(s) PROVE RunsInv'
  <2>1. UNCHANGED <<codegen, gen, batches, global, buf, colinfos, pc>>
    BY <1>8 DEF ReadPast
  <2>. QED
    BY <1>a, <2>1
<1>9. ASSUME NEW s \in Scanner, ~crashed, Finalize(s) PROVE RunsInv'
  <2>1. /\ UNCHANGED <<codegen, gen, batches, global, colinfos>>
        /\ pc[s] = "generate" /\ pc'[s] = "clear"
        /\ \A t \in Scanner : t # s => pc'[t] = pc[t] /\ buf'[t] = buf[t]
    BY <1>9 DEF Finalize
  <2>. QED
    BY <1>a, <2>1 DEF Begun
<1>10. ASSUME NEW s \in Scanner, ~crashed, Clear(s) PROVE RunsInv'
  <2>1. /\ UNCHANGED <<codegen, gen, batches, colinfos, buf>> /\ global' = NoColumns
        /\ pc[s] = "clear" /\ pc'[s] = "gone"
        /\ \A t \in Scanner : t # s => pc'[t] = pc[t]
    BY <1>10 DEF Clear
  <2>. QED
    BY <1>a, <2>1 DEF Begun
<1>11. ASSUME Restart PROVE RunsInv'
  <2>1. /\ batches' \in [Scanner -> Nat] /\ \A t \in Scanner : batches'[t] = 0 /\ pc'[t] = "new"
        /\ gen' = None /\ global' = NoColumns'
    BY <1>11 DEF Restart, Each
  <2>. QED
    BY <2>1, Zenon DEF RunsInv
<1>12. CASE UNCHANGED vars
  <2>1. UNCHANGED <<codegen, gen, batches, global, buf, colinfos, pc>>
    BY <1>12 DEF vars
  <2>. QED
    BY <1>a, <2>1
<1>. QED
  BY <1>1, <1>2, <1>3, <1>4, <1>5, <1>6, <1>7, <1>8, <1>9, <1>10, <1>11, <1>12
     DEF Next, Destroy, Ended

\* No destructor breaks down but for one of the reasons named.
SafeInv == crashed => late \/ Encoded # Column \/ Idle

\* A scanner that has left stays so in this run of the program.
LEMMA IdleStays ==
  ASSUME Types, RunsInv, [Next]_vars, Idle
  PROVE  Idle' \/ ~crashed'
<1>. USE DEF Types, Go, scanVars, genVars, Locations
<1>1. ASSUME \A t \in Scanner : pc[t] \in Begun => pc'[t] \in Begun /\ batches'[t] = batches[t]
      PROVE  Idle'
  BY <1>1, Zenon DEF Idle
<1>2. ASSUME NEW s \in Scanner, Construct(s) \/ Prepare(s) PROVE Idle'
  BY <1>1, <1>2 DEF Construct, Prepare, Begun
<1>3. ASSUME NEW s \in Scanner, NEW shapes \in [Encoded -> Stripes], NextBatch(s, shapes) PROVE Idle'
  <2>1. /\ pc[s] = "scan" /\ batches' = [batches EXCEPT ![s] = @ + 1]
        /\ \A t \in Scanner : t # s => pc'[t] = pc[t]
    BY <1>3 DEF NextBatch
  <2>2. \A t \in Scanner : t # s => batches'[t] = batches[t]
    BY <2>1 DEF RunsInv
  <2>. QED
    BY <1>1, <2>1, <2>2 DEF Begun
<1>4. ASSUME NEW s \in Scanner, Merge(s) \/ Unreg(s) \/ Encode(s) PROVE Idle'
  BY <1>1, <1>4 DEF Merge, Unreg, Encode, Begun
<1>5. ASSUME NEW s \in Scanner, Finalize(s) \/ Clear(s) PROVE Idle'
  BY <1>1, <1>5 DEF Finalize, Clear, Begun
<1>6. ASSUME NEW s \in Scanner, GenerateColumn(s) \/ ReadPast(s) PROVE Idle'
  BY <1>1, <1>6 DEF GenerateColumn, ReadPast
<1>7. ASSUME Restart PROVE ~crashed'
  BY <1>7 DEF Restart
<1>8. CASE UNCHANGED vars
  BY <1>1, <1>8 DEF vars
<1>. QED
  BY <1>2, <1>3, <1>4, <1>5, <1>6, <1>7, <1>8 DEF Next, Destroy, Ended

\* While a scanner merges or encodes, no profile is wanting.
LEMMA NothingLacking ==
  ASSUME Types, PreparedInv, LastInv, ProfileInv, RunsInv, ~late, ~crashed,
         NEW s \in Scanner, pc[s] \in {"scan", "encode"}
  PROVE  /\ pc[s] = "scan" => global = NoColumns \/ Lacking = {}
         /\ pc[s] = "encode" => Lacking = {}
<1>0. ConstantFacts /\ gen # None
  BY Constants DEF Types, PreparedInv
<1>1. Collecting
  BY CollectingWhile
<1>2. \A c \in Missing(gen) : c \in Encoded
  BY DEF Missing
<1>3. ASSUME \A c \in Missing(gen) : global[c] \in Infos PROVE Lacking = {}
  BY <1>0, <1>3 DEF Lacking, ConstantFacts
<1>4. CASE codegen
  <2>1. \/ \A c \in Encoded : global[c] \in Infos
        \/ global = NoColumns /\ pc[s] # "encode"
    BY <1>1, <1>4 DEF ProfileInv
  <2>. QED
    BY <1>2, <1>3, <2>1
<1>5. CASE ~codegen
  <2>1. pc[s] # "encode"
    BY <1>5 DEF PreparedInv
  <2>2. global = NoColumns \/ \A c \in Missing(gen) : global[c] \in Infos
    BY <1>0, <1>5 DEF RunsInv
  <2>. QED
    BY <1>3, <2>1, <2>2
<1>. QED
  BY <1>4, <1>5

\* If all columns are encoded and no scanner is made late or idle, the profiles
\* are there to be merged and written, each turn finds its entry, and every
\* entry has runs to be printed and generated for.
LEMMA SafeStep ==
  ASSUME Inv, BufferInv, RunsInv, ShiftInv, SafeInv, [Next]_vars
  PROVE  SafeInv'
<1>. USE DEF Inv, Types, Go, scanVars, genVars, Locations
<1>0. /\ ConstantFacts /\ columns' = columns /\ Column' = Column /\ Encoded' = Encoded
  BY Constants, Same DEF Types
<1>00. (late => late') /\ (Idle => Idle' \/ ~crashed')
  BY LateStays, IdleStays
<1>. SUFFICES ASSUME ~late, Encoded = Column, ~Idle, crashed' PROVE FALSE
  BY <1>0, <1>00 DEF SafeInv
<1>000. ~crashed
  BY DEF SafeInv
<1>1. ASSUME NEW s \in Scanner, Construct(s) \/ Prepare(s) PROVE FALSE
  BY <1>000, <1>1 DEF Construct, Prepare
<1>2. ASSUME NEW s \in Scanner, NEW shapes \in [Encoded -> Stripes], NextBatch(s, shapes) PROVE FALSE
  BY <1>000, <1>2 DEF NextBatch
<1>3. ASSUME NEW s \in Scanner, Merge(s) PROVE FALSE
  <2>1. pc[s] = "scan"
    BY <1>3 DEF Merge
  <2>2. global = NoColumns \/ Lacking = {}
    BY <1>000, <2>1, NothingLacking
  <2>. QED
    BY <1>000, <1>3, <2>2 DEF Merge
<1>4. ASSUME NEW s \in Scanner, Encode(s) PROVE FALSE
  <2>1. pc[s] = "encode"
    BY <1>4 DEF Encode
  <2>2. Lacking = {}
    BY <1>000, <2>1, NothingLacking
  <2>. QED
    BY <1>000, <1>4, <2>2 DEF Encode
<1>5. ASSUME NEW s \in Scanner, GenerateColumn(s) PROVE FALSE
  <2>1. codegen /\ gen # None /\ pc[s] = "generate" /\ at[s] \in 1 .. Len(buf[s])
    BY <1>5 DEF GenerateColumn, Turn, PreparedInv
  <2>2. at[s] \in DOMAIN buf[s]
    BY <2>1
  <2>3. HasRuns(buf[s][at[s]].info)
    BY <2>1, <2>2 DEF RunsInv
  <2>. QED
    BY <1>000, <1>5, <2>3 DEF GenerateColumn, Turn, DividesByZero, HasRuns
<1>6. ASSUME NEW s \in Scanner, ReadPast(s) PROVE FALSE
  <2>1. pc[s] = "generate" /\ at[s] \in Column /\ at[s] > Len(buf[s])
    BY <1>0, <1>6 DEF ReadPast, Turn, ConstantFacts
  <2>2. BeforePlain(at[s])
    <3>1. \A p \in 1 .. at[s] : p \in Column
      BY <1>0, <2>1 DEF ConstantFacts
    <3>2. \A p \in Column : columns[p] # "plain"
      BY DEF Encoded
    <3>. QED
      BY <3>1, <3>2 DEF BeforePlain
  <2>3. at[s] \in DOMAIN buf[s]
    BY <1>000, <2>1, <2>2 DEF ShiftInv
  <2>4. buf[s] \in Seq(Entries)
    OBVIOUS
  <2>5. at[s] \in 1 .. Len(buf[s]) /\ Len(buf[s]) \in Nat
    BY <2>3, <2>4
  <2>. QED
    BY <2>1, <2>5
<1>7. ASSUME NEW s \in Scanner, Finalize(s) PROVE FALSE
  <2>1. codegen /\ gen # None
    BY <1>7 DEF Finalize, PreparedInv
  <2>2. Malformed
    BY <1>7 DEF Finalize
  <2>. QED
    BY <2>1, <2>2 DEF RunsInv, Malformed
<1>8. ASSUME NEW s \in Scanner, Unreg(s) \/ Clear(s) PROVE FALSE
  BY <1>000, <1>8 DEF Unreg, Clear
<1>9. ASSUME Restart PROVE FALSE
  BY <1>9 DEF Restart
<1>10. CASE UNCHANGED vars
  BY <1>000, <1>10 DEF vars
<1>. QED
  BY <1>1, <1>2, <1>3, <1>4, <1>5, <1>6, <1>7, <1>8, <1>9, <1>10 DEF Next, Destroy, Ended

\* The destructors come to their end, however they interleave, if a column of a
\* stripe has at least one run: unless a scanner is made after one has begun to
\* leave, a FLOAT or DOUBLE column is selected, or a scanner leaves that has read
\* no stripe.
THEOREM DestructorsEnd ==
  ASSUME {} \notin Stripes
  PROVE  Spec => []DestroyedSafely
<1>1. Init => BufferInv /\ RunsInv /\ SafeInv
  BY DEF Init, Each, BufferInv, RunsInv, SafeInv
<1>2. Inv /\ BufferInv /\ RunsInv /\ ShiftInv /\ SafeInv /\ [Next]_vars
        => BufferInv' /\ RunsInv' /\ SafeInv'
  BY BufferStep, RunsStep, SafeStep DEF Inv
<1>3. SafeInv => DestroyedSafely
  BY DEF SafeInv, DestroyedSafely, Idle
<1>. QED
  BY <1>1, <1>2, <1>3, CodegenInvariance, ShiftInvariance, PTL DEF Spec
=============================================================================
