# Specifications of tengdb

TLA+ models, TLC configurations and TLAPS proofs of the scan path of tengdb
("myorc"), a reader of ORC files that generates decoders at run time.

Contents: [the system](#1-the-system), [the modules](#2-the-modules),
[the runs](#3-the-runs), [the proofs](#4-the-proofs),
[what the checks have shown](#5-results-and-findings),
[what is not modelled](#6-not-modelled), [the plan](#7-plan).

## 1. The system

A query is one scan. `SQLCodegen.cpp` turns `SELECT columns FROM table` into a
`ScanNode`, which owns a `Table` and an `ORCScanner`; `TestSql.cpp` calls
`nextBatch()` until a batch is marked `eof` and deletes the node. The destructor
of the scanner is where code is generated and saved; the next run of the program
may load it.

| part | state | operations | what is hard | what makes it correct |
| --- | --- | --- | --- | --- |
| `Table`, `Rep` (include/Table.h) | mutex, directory stream, `registered`, `gen` | `nextFile`, `reset`, `reg`, `unreg`, `getCodeGen` | the dirent is dereferenced after the unlock; the search for a file is a loop | every data file to one scanner, none lost, nothing else served |
| `ORCScanner` (exec/ORCScanner.cpp) | `reader`, `curStripe`, `colinfos`, the static `colinfos_global` | constructor, `prepare`, `nextBatch`, destructor | cursor that outlives a file; profiles merged under one lock and the last scanner found under another | stripes in order and once; one scanner generates, from everything met |
| `Batch`, `DataBuffer` (ORCColumnInfo.h, MemoryPool) | capacity, size, cells | `resize`, `reserve`, `data` | memory is reused from stripe to stripe and never cleaned | a vector; no garbage becomes contents; room for all rows |
| `Reader` (orcreader/ORCReader.cpp) | the footer | `readdata`, `getNumofRows`, `getStripeSize` | a missing stream leaves the buffer and the size of the column before | the bytes of the column asked for |
| `RLE2` (orc/RLE2.cpp) | `index`, `offset`, profile | `next` and one function per kind of run, `readLongs` | widths, signs, byte boundaries, patches | the numbers written, the position right behind each run |
| `EncodingInfo`, `RLEInfo`, `ColumnInfo` (ORCColumnInfo.h) | counts by width and length | record, `merge`, `sortData`, `getFixedBitSize`, `encodeTo`, `decodeFrom`, `toString` | arrays written without their lengths; written for some columns and read back for all | nothing met is missing from the profile |
| `LlvmCodeGen` (codegen/llvm-codegen.cpp) | a module, `is_compiled_`, two files | add functions, `FinalizeModule`, `LoadFromFile` | outlives the process; two files rewritten in place by processes that share no lock | finalized once; a module is loaded whole |
| generated decoders (orc-ir/genfunc-ir.cpp, util-ir.cpp) | none | `genfunc_next`, one function per kind | specialised on what was met | equal to `RLE2` on what was met |
| `HashTable` (include/HashTable.h) | slots | `get`, `put` | probing that wraps round; negative keys; a full table | a map |

Scanners of one table are meant to run in threads: `Table` has a mutex for its
directory and its counter, `ORCScanner` one for the profiles, and
`FLAGS_threads_number` is parsed. The one driver in the repository builds one
scanner. The models take any number of scanners; the runs have several, of which
one may do all the work before another is made.
Processes share nothing but the directory of data and the two files of a module.

The program is built with `-DNDEBUG`: assertions do nothing, so a failed one is
not a crash in the models. Where the code reads memory nobody wrote, or goes on
after an error, the model chooses among the outcomes.

## 2. The modules

Names are those of the code where TLA+ allows it. Definitions called `X_Word`
before an `X` and marked "faulty variant" are no part of any specification: they
are the plausible mistakes each property is tested against (see "mutants" in
PROJECT.json).

**TableScan** is the concurrent core: `Table::nextFile` and the part of
`ORCScanner` that moves through files and stripes. One action is one step
between two points where another thread can look: taking the mutex, each
`readdir`, the test of an entry, the unlock, and only then the opening of the
file. The directory stream has a buffer of `BufSlots` entries that a refill
overwrites in place, as the C library's has; `ptr` of a scanner is a slot of
that buffer, as a `dirent*` is, and what it points to may change under it.
`meant` and `strays` are history: the file chosen for a scanner, and the pairs of
a file chosen and an entry opened in its place.
`Dir` is the directory: entries with a name, whether regular or hidden, and the
number of stripes. `Reset` is `Table::reset`; nothing in the code calls it while
a scanner reads, and it happens only then.

**StripeDispenser** is what a shared table promises: a set of files, each taken
by one worker, stripes served in order, end of data only when nothing is left to
take. `ImplementsDispenser` maps TableScan to it: a file is taken at the
`readdir` that returns it and is let go when its last stripe has been read.

**DataBuffer** has the operations of `DataBuffer<unsigned char>` as operators on
records (size, capacity, cells; fresh cells hold `Junk`). **BufferUse** makes a
state machine of them, **Vector** is the abstract one: contents and nothing else.

**StripeRead** composes `Reader::readdata`, `Batch::resize` and the loop over
columns of `nextBatch` with DataBuffer: a file is a sequence of stripes with
their streams, a byte is named for the stripe, column and row it belongs to, and
a column of the batch shows such bytes, zeros or garbage. What a decoder makes of
its bytes is Rle2's concern; here a decoder writes one value per number it finds. A
read of a stream may deliver fewer bytes than asked for, or none, which
`FileInputStream::read` prints and forgets (the read of a stripe's footer is not
among them: what is parsed from half a footer is protobuf's).

**RleFormat** is the run-length encoding version 2 of the ORC format, the bytes
a writer produces, written as functions on bits and bytes. It is external to the
code, and the decoders are compared with it. `Legal` is what a writer keeps to:
lengths and widths its headers can name, numbers of at most 8 bytes. `Fits` is what
it keeps to as well if it is given numbers of the decoded type. **Rle2** is `RLE2<I,UI>`: `next`
dispatches on the two highest bits, and `nextShortRepeats`, `nextDirect`,
`nextPatched` and `nextDelta` decode a run each, in the width of the instance
(`% 2^W`), with the profile (`updateEncodingInfo`) they keep. **ReadLongs** takes
the bit loop of `readLongs` apart, one byte at a time.

**EncodingInfo** has the operations on a profile as operators: the arrays of
counts are bags, `sortData` is the insertion it does (with the list it begins
from, filled with copies of one index), `getFixedBitSize` reads the second place
of the sorted list, `merge` leaves `totalRunLength` alone, and `encodeTo` and
`decodeFrom` write and read a sequence of numbers in which only a -1 ends an
array of pairs.

**GenRle** extends Rle2 with the rest of the way: `Interpret` decodes the stream
of a scanner and profiles it, `MergeProfile` is its destructor, `AnotherScanner`
begins the next one, and `Generate` writes the merged profile, reads it back and
fixes what `genfunc_rle` specialises on: which kinds have a case, and whether a
kind has one width. The four generated functions then decode the stream that was
profiled or that of a later scan: `genfunc_nextRepeat`, `genfunc_nextDirect`,
`genfunc_nextPatched`, `genfunc_nextDelta` with the loops of `util-ir.cpp` (whole bytes
for a fixed width of at least 8, bits otherwise). A shift by the width of the
type or more is poison in LLVM: the run is a fault and not a number. `fault`
says what a decoder ran into. `Printable` is the division in `toString` between
reading back and generating: a profile that does not pass it ends the process.

**ScanCodegen** is the life of generated code across scanners and processes. A
run is a shape (its kind and width); a profile is the set of shapes met, with the
part of it that `totalRunLength` counts; a decoder is the profile it was made
from. GenRle justifies both: a decoder is equal to the interpreter on the shapes
met. The destructor's steps are separate actions where another scanner can come
between: merge (under `ORCScanner::mtx`), `unreg` (under `Table::mtx`), writing
the profiles, one turn of the loop that reads them back, finalizing, and clearing
`colinfos_global` with no lock held. `Restart` is the next process: it finds the
saved module, may be run with or without code generation, and meets other data.
`met`, `late` and `garbled` are history.

**ModuleFiles** takes apart what is one step in ScanCodegen: the unoptimised and
the optimised file of a module, opened, truncated, written block by block and
closed one after the other by any number of processes, with `Crash` at any point
and `CannotOpen` where `f.fail()` is; and the loading, which looks for one file
and reads the one the flag names: its length is taken when it is opened
(`BeginLoad`), then block after block is read as it is at that moment
(`ReadBlock`), with any writing of another process in between, and only then is
what was read parsed (`EndLoad`). A file is a sequence of blocks named for the
process that wrote them, so that a mixture is seen. `owner`, `overlapped`,
`clashed`, `disturbed` (the processes whose file was changed since they opened
it) and `failed` are history.

**HashTable** has one step for each slot that `get` or `put` looks at, with the
remainder of C for the home of a negative key. **KeyMap** is the map it promises.

## 3. The runs

| run | instance | shows |
| --- | --- | --- |
| threads | 3 scanners, 6 entries (3 data files with stripes, an ORC file without one, a subdirectory, a hidden file), buffer of 2 | for every interleaving of the scanners with the refills: who can come to hold whose file or what is none, and that nothing else goes wrong; the one out-of-range access is the first stripe of a file without stripes |
| refill | 2 scanners, fair, 4 entries, buffer of 2, one rewind | what is lost or read twice is what a refill has overwritten or put in its place |
| live | 3 scanners, fair, 4 entries, one rewind | every scanner ends, the whole table is served, every step is one of StripeDispenser |
| genrle | 8 and 16 bit instances, signed and not, with and without profiling; up to two runs of each kind; two scanners; decoders on the profiled stream and on three others | interpreter, profile and generated decoder against the writer and against each other |
| rle_widedelta | one delta run, 16 bits | finding 1 |
| readlongs | 11 widths from 1 to 16, up to 3 fields | the loop ends, in step, with each field, without a byte too many |
| buffer | up to 4 cells, every mix of operations | a DataBuffer is a Vector |
| stripes | 3 columns, 2 or 3 stripes with all, some or no values, streams missing, one read (`MaxShort`) that falls short | what a column shows is its own, its own leftovers, or borrowed in a stripe without its stream or with a short read |
| codegen | 2 scanners, 2 processes, 4 shapes, 5 selections of columns | profiles complete, one generation, and when the generated code does fail |
| codegen_counted | the same with one column | finding 2 |
| hashtable | 3 slots, keys -3, -1, 0, 1, 3, 4, two values (one of them the -1 that also means "none") | a map, and which calls do not return |
| modulefiles | 3 processes, modules of 1 or 2 columns | a whole module is loaded, the two files agree, but for what is named |

**Bounds.** A race over the directory needs two scanners and a file each; the
third scanner makes one of them arrive at the end, and a directory and a hidden
file stand between. In threads the buffer has two slots, so that two dirents can be
out when the next two entries overwrite them, and then those again: a chosen file
becomes a subdirectory, a hidden file, another data file or a file without a
stripe. All of it is reached: without their exceptions FilesDisjoint,
OnlyDataFiles, EofMeansTaken, NoStripeTwice and WholeTableServed are violated in
threads or refill, within a few dozen steps. A
buffer of the size of the directory is that of live, where every step is one of
StripeDispenser; refill has no file without a stripe, on which a scan would end
before anything is lost. A second run in a stream shows whether the first one
left `index` where it should; a third would meet the same state. Two scanners
(`MaxScanners`) make a first profile that is copied and a second that is added.
The runs of genrle are those of small lists of values, bases, widths and patches
that satisfy `Legal` and `Fits` in the width and the sign of the instance.
A generated decoder is not followed once it has lost its step or faulted: what
it reads then is arbitrary. Widths in readlongs include those that divide 8,
those that do not, 8 itself and more than 8. `MaxSize` 4 has growth past the
capacity, shrinking, and growth within it. Stripes larger and smaller than the
one before are needed to reuse memory, three are enough for both. In codegen two
scanners give first, last and only; three kinds of runs and two widths are
needed for a decoder with one case, one with a single width and one with several
to meet a run each was not made for. Three slots and four keys with a home fill
the table with a key left over. A shorter module after a longer one needs
`MaxColumns` 2; two processes that save and one that loads are three. Modules of
two blocks are read in two steps, so that a reader can get a block of the old file
and one of the new, and the file is cut under it (without `p \notin disturbed`
LoadsWhole is violated in ten steps).
`MaxResets`, `MaxBatches` and `MaxSessions` bound counters.

**Fairness.** `TableScan!FairSpec` has weak fairness of each scanner's steps:
the operating system schedules each thread, and the mutex is held only for a
search of finitely many entries. Nothing else is assumed: not that a lock is
granted in order. `ReadLongs!FairSpec` and the specification of HashTable let a
sequential loop go on (weak fairness of a turn or the end of the call; a new
call need not come).

**Deadlock** is checked in every run; the specifications of programs that end
have an action `Ended` that stutters where the code has nothing left to do.

## 4. The proofs

Checked by TLAPS for every value of the constants that satisfies the named
assumptions. `DirAssumption`, `ReadLongsAssumption`, `BufferAssumption`,
`StripeAssumption`, `HashTableAssumption`, `ModuleFilesAssumption`,
`CodegenAssumption` and `Rle2Assumption` give the types of the constants and say that the marks
(`None`, `Deleted`, `Junk`) are no values; a width is one of the four the
templates are instantiated with (the runs have 8 and 16, the proofs all).
`WriterAssumption` (StripeRead) is what `nextBatch` relies on of a writer: a column
has at most a value for every row, its stream is not empty if it has values and
holds all their bytes if it is not encoded. `WriterAssumption` of Rle2 and
`ScannersAssumption` say that streams are legal. TLC evaluates each of them in the runs.

Sums of lengths, positions in a list and bits of a stream are recursive functions
(no `RECURSIVE` operator), and what is shown of them for every argument is shown
of the set of arguments for which it fails: `SetInduction` says, from the
well-foundedness of the natural numbers, that such a set is empty.

**TableScan_proofs.** For every directory, size of its buffer and number of
scanners: `TypeCorrect`, `MutualExclusion`, `CountedExactly`, `Disjoint`,
`AtMostOnce`, `DataFilesOnly`, `NothingLost`, `InOrder` and `OutOfRangeOnlyThere`.
A refill between the unlock and the opening puts another entry where a scanner's
dirent points, and the properties say what that does and that nothing else does
it: two scanners open one file, a scanner opens what is no data file, a file is lost,
or is read twice, only if an entry was overwritten (`Astray`) or opened in place of
another (`strays`). The first invariant (`LockInv`) adds to mutex and types that slots pointed
to hold entries (`SlotInv`). `IInv` says what the buffer holds: a fill brings the entries
behind those of the fill before, and only the last one leaves slots as they were
(`BufferInv`), so that what replaces an entry comes at least a buffer later; that
what a scanner holds is the file chosen for it or, if there are several scanners,
such a later entry (`GivenInv`); that no file is chosen for two (`MeantInv`); and
that what has been served lies before the cursor of whoever has the file open and
is not waiting to be handed out, but for files opened in place of others
(`ServedInv`). None of these follows from the
properties: a file that is given up is not held any more, and only the order of
`readdir` keeps it from coming back.

The second half goes on with what is needed in the other direction, that nothing is
left out: the directory is used up for all once a scanner has been told so
(`EndInv`), what lies before a cursor has been served (`CursorInv`), a file somebody
has read of is open or read to its end (`OrderInv`), and so is every file that has
been handed out, unless the scanner it was given to did not open it (`TakenInv`).

`NeverAstray` tells when the exceptions do not arise (`Safe`): the directory fits
the buffer (`FitsBuffer`), or there is at most one scanner, as in TestSql. Then every scanner holds and opens
just the file chosen for it. glibc's buffer holds at least 32 KiB of entries, some
hundreds of files. Only `Refinement`, that TableScan implements StripeDispenser step
by step, assumes `Safe`, since a dispenser takes each file once; it also assumes
`NoEmptyFile`: a file without a stripe ends the program in the middle of a scan,
which no dispenser does.

**ReadLongs_proofs.** For every width, number of fields and stream long enough:
`Accounted` (the bits fetched are those of the fields done, the current one and
the rest of the open byte), from which `NoOverread` and `InStep` follow by
arithmetic on bytes. `FieldsRight` is about the numbers: the loop shifts whole
bytes and rests of bytes into `result`, and cuts it to the width of the type each
time. `ValueInv` says that `result` is at each turn the number that the bits taken
so far of the current field write, modulo `Modulus`, so that it does not matter
when it is cut (`CutOnce`, `ShiftOnce`), nor into which pieces the bytes divide a
field (`Gathered`). `TypesKept` comes with it: the partial
value is a remainder (`WithinModulus`), and each number delivered one of the signed
type of that width (`ValueType`).

**StripeRead_proofs.** `RoomForRows`: the decoders store through a bare pointer,
and every column has room for the rows of the stripe, in whatever order large
and small stripes come, whichever streams they lack and whichever reads fall
short. `Batch::resize` decides
by the rows of the last stripe and not by the memory there is, so the invariant
is that no step takes memory from a column; the multiplication by `RowBytes` is
in two lemmas of its own.

`Shows`, `Leftovers` and `Borrowed` say where the bytes come from that a column
shows. A stream is read at an offset that is the sum of the lengths before it, so
a byte read belongs to a stream only if no two streams overlap (`StartStep`,
`StartsApart`). `ReadInv` (`Consistent`) adds to the types that a buffer holds at
most what it was given (`Buffers`), that between the two halves of an encoded
column the buffer of data is that column's stream unless the read fell short
(`Loaded`), and that the size left by the last read is zero until a column has
had a stream (`NothingRead`): the last is why a first column without one can show
nothing foreign. `CellsTraced` (`Traced`) goes back in time, for each cell of a column, shown or not:
it is zero, or of a stream of the column, or the column has borrowed it (`Borrows`),
which only an encoded column does, in a stripe that has the stream of a column before
it and not its own, or after a read that fell short. What it shows then
is bytes of no stream, or a stream of that stripe or of one before (`DecodedFrom`):
a borrowed cell is excused by a borrowing in its own stripe or later, not by one
before it was written; it stays to the end of the scan if nothing overwrites it,
since memory is never cleaned. That no cell is what malloc has left follows
(`Borrowed`), as each step that gives a column memory zeroes it.

The last section of the module is about BufferUse, the buffer alone: `BufferTypes`,
`ContentsClean` and `BufferRefinement` (a DataBuffer implements Vector), from the
invariant that the contents hold no junk and the cells are as many as the capacity.

**ScanCodegen_proofs.** For any number of scanners, columns, batches and
processes: `TypesHold` (with it, that `registered` counts the scanners),
`NoProfileLost`, `FaithfulOnSeen` and `OneFinalize`. The argument goes along the
life of a profile. Until somebody generates (`Collecting`), every run met in a
column is in the merged profile or in that of a scanner that has not merged yet,
and nothing is decoded by generated code (`ProfileInv`). The scanner to which
`unreg` returned 0 is alone from then on, since the counter is exact (`CountInv`)
and nobody is made late (`LastInv`): so what it writes is what was met, and a
decoder is made from exactly that (`WrittenInv`); so is a saved one (`SavedInv`).
A run unknown to a decoder is then one that the process which saved it had not
met (`FaultInv`). All but the counting holds only while no scanner is made after
another has begun to leave; `late` says that one was.

`DecodersMade` and `DestructorsEnd` follow the buffer the profiles are written to.
They are written for the columns that have one and read back for all, so entry k
is that of column k up to the first FLOAT or DOUBLE column and not after
(`InPlace`, by induction on numbers); `ShiftInv` says so for each turn of the loop
that reads, and that the columns before it have been given decoders of their own
profiles. `toString` divides by the number of runs that were counted, and `merge`
adds nothing to it: `RunsInv` says that, unless a scanner is leaving that has read
no stripe (`Idle`), what is merged, written and read back has runs in each column,
some of them counted; `BufferInv` that nothing but the loop leaves something in
the buffer. `DestructorsEnd` assumes that a stripe has a run in each column
(`{} \notin Stripes`, which holds in the run as well): a column of nulls only
leaves a scanner with a profile as empty as that of one that has read nothing, and
the property names only the latter.

**GenRle_proofs.** `InterpreterKeepsStep`: for the four widths a decoder can have
and whatever legal streams its scanners read one after the other, the interpreter
stands after each run at the first byte of the next and has filled the batch up
to its first number. The proof is about the bytes: what the headers, the numbers
in groups of seven bits and the packed fields of each kind of run are, and how
long (`RepeatBytes`, `DirectBytes`, `DeltaBytes`, `PatchedBytes`); that a decoder
in front of such bytes finds the same kind, length and widths in them (`Placed`,
`RepeatStep`, `DirectStep`, `DeltaStep`, `PatchedStep`); and where the bytes of a
run lie in the stream (`Flattened`, `StreamFacts`). The invariant (`GenInv`) adds
to the property that the stream is one a writer writes (`StreamInv`). `Legal` is
needed as it stands: a delta run with fields of one bit has the same header as one
without fields, and the decoder then does lose its step.

`ProfileIsExact`: in every stream, and for each scanner anew, the profile of a kind
has the number of the runs decoded of it, how often each width came and how many
numbers came in runs of each length. What a step records is in the same lemmas as
where it ends (`Noted`, in `TurnPasses`); `TellsMore` says what one more run does to
the counts, for a bag weighted by the length of a run as for one that counts widths
(`CountsMore`); and `DecodedSoFar`, that the runs in front of the index are the first
ones, each counted once. The invariant adds that a profile has just its four fields
(`Shaped`).

`ProfilesSurvive`: what a decoder is specialised on is the sum of the profiles of all
scanners, count by count, with the signedness of the column and, for each kind, its one
width if and only if there is one. Three arguments meet. `MergeInv` says that the global
profile is the sum of those merged (`SumsUpMore`), each of which counts runs of widths
the arrays have a place for and is empty if it counts none (`Gathered`, which follows
from `ProfileIsExact`): a kind without runs is written as three numbers and must lose
nothing by it. `ReadBack` and `AllRead`: in a buffer that holds what `encodeTo` writes,
`decodeFrom` finds the same profile and ends where it ended. No index is -1, and only
the indices are compared with -1, so each array ends where it did. `FixedWidth`: the
list of `sortData` begins as copies of one index and each index moves past smaller
counts only, so that the two largest counts come to stand in its first two places
(`OneWidth`, `TwoWidths`), which is all `getFixedBitSize` looks at.

`GeneratedKeepsStep` and `FaultsAreUnfamiliar` rest on the other three. The fields a
header holds are read alike by the interpreter and the generated functions
(`RepeatHead`, `DirectHead`, `DeltaHead`, `PatchedHead`). What differs is the number
of bytes taken for packed values: `PackedFamiliar` says that for a width that was
met it is the number written, except for one common width above 8 that fills no
whole bytes, and never more than that, whatever the number of values. So a call
ends in front of the next run or short of it, and never reads beyond the stream
(`After`, one lemma for each function). `DecoderInv` speaks of the run the decoder
stands behind (`Behind`), which is found by the numbers decoded: the offset is
right even after the index has gone astray, and runs are never empty
(`OffsetsGrow`), so `Done` is what it seems (`DoneBehind`). That a missing case
means a kind nobody met needs the converse of what `ProfilesSurvive` needs: a
profile that counts runs has widths (`CasesMet`).

**GenRleValues_proofs** goes on to the numbers, under the one hypothesis `StreamsFit`:
the streams are of numbers of the decoded type (`Fits`). It is no assumption of
GenRle, since the theorems above hold without it; in the instance of genrle
`WriterFits` is evaluated by TLC. Besides what a column of that type implies (the
values and the base of a patched run are in its range, fields hold what is packed
in them), `Fits` says that the patches lie in the run one behind the other, the last
with a bit, without which the bytes of the writer would not mean its numbers, and
that they are narrower than the type. The numbers imply the latter too, but where a
width is rounded up: patches of 31 bits, of a column of 32 bits with raw values of one,
are written in 32 (section 6).

- `InterpreterIsRight`: after each run the batch holds the numbers written, in
  exactly the runs that are not `TooWide`, so that the property also says that the
  others do come out wrong; and a patch is written outside of the run only for an
  entry that is too wide. No entry is at 64 bits, where the cast to `uint64_t`
  (RLE2.cpp:544) makes the shift an unsigned one (`PatchGap`).
- `GeneratedIsRight`: the same of a generated decoder and every run of a width met
  before that it does not cut short (`CutShort`), whatever profiles it was made from.
  At 64 bits the signed shift of genfunc-ir.cpp:851 would go wrong where the
  interpreter does not, but it is not reached: an entry with its top bit set takes 64
  bits, and for these the table of widths has no place, so that the call is
  undefined before.
- `UndefinedIsPoison`: on such runs a generated decoder shifts by the width of its
  type or more, or looks a width up behind the end of its table
  (`InClosestFixedBits`), only where `Poisonous` says.

They are conjuncts of one inductive invariant, `DecodesInv`: the invariants of
GenRle_proofs, `FitInv` (the runs in the stream fit), `BatchInv` (the batch is as
long as the numbers decoded), and the three properties. A step in one of the two
decoders is in three layers. *Bits*: what was packed, cut into bytes or into groups
of seven bits is read back, digit by digit, and modulo the width of the type
(`FieldRead`, `LongRead`, `VarintRead`; for the generated loops over whole bytes and
bits, `FoldedRead` and `GeneratedLongs`). Each rests on one fact of
arithmetic (`Horner`: taking digits one after the other gives the number they
write) and on powers of two that are multiplied and divided (`PowersMultiply`,
`DividedTwice`, `RemainderTwice`). *Runs*: from those fields each kind has its
numbers (`RepeatYields`, `DirectYields`, `DeltaYields`, `PatchedYields`), and a
run that is too wide has not (`DeltaWrong`, `PatchedWrong`). A step of a delta run
may be cut only if it fits, since the two signs of `unZigZag` lie half a modulus
apart (`HalfApart`); a patched run needs that `|` is `+` where the bits do not meet
(`BitOrSum`), that the entries applied so far and no others are in the values
(`OnePut`, `PutAllRight`), and that both ways of taking the gap of an entry give
the place the writer meant while its top bit is clear, and below 64 bits a place
outside of the run or a wrong number once it is set (`InterpreterPlaces`,
`GeneratorPlaces`, `OutsideWide`). *Batch*: what lies in front of the offset stays
(`Emitted`, `SegmentKept`), and the new part is that of the new run (`SegmentNew`).
The two decoders share the second layer: `PatchedMade` and its like say that the
fields a generated function takes are those the interpreter takes.

**ModuleFiles_proofs.** `FilesHold`: unless two processes have written it at
once, a file holds the blocks its last writer has written, all of them once it is
closed, whatever was in it before. `LoadsOneModule` needs two more parts: a file
that is settled has been opened and is whole (`OpenedInv`), and what a process has
read of a file nobody has changed since is a beginning of it, of the length it had
(`ReadInv`, kept by `ReadStep`). `FilesStayTogether`
needs `PairInv` too: two savings that do not overlap leave both files to one
process, so files that differ come from a clash, a failure to open or a death on
the way.

**HashTable_proofs.** `IsMap`: for every size, the table implements KeyMap. The
invariant says that a key is in one slot at most (`Unique`), that no free slot
lies between the home of an entry and the entry, going round the end of the table
(`Reachable`), and that the search under way has passed other keys only
(`Passed`). Without `Reachable` a key could be stored twice.

**Only model-checked**: liveness (`EveryScannerEnds`, `WholeTableServed`,
`LoopEnds`, `CallsReturn`), which the prover does not reach. Every other property of
a passing run is a theorem.

## 5. Results and findings

What some properties say no more than they can:

- *EofMeansTaken, WholeTableServed, EveryScannerEnds*: the process dies on a file
  without a stripe (`getNumofRows` is asked before the number of stripes is), and
  nowhere else.
- *FilesDisjoint, OnlyDataFiles, NoStripeTwice, EofMeansTaken, WholeTableServed*:
  with several scanners and a directory larger than the buffer of its stream, a
  file can be read by two scanners, and another one by none, and a hidden entry or
  a subdirectory be opened, because Table.h:188 looks at the dirent after the unlock.
  The runs reach each of these, and the properties
  name them. They are no finding: nothing in the repository states that
  scanners share a table safely, and its driver builds one, for which
  `NeverAstray` shows that none of it happens.
- *InterpreterDecodes* names the runs whose first step does not fit the decoded
  type, or a patch entry of which reaches the sign bit of a type of less than 64
  bits; the hazards name the lines.
- *GeneratedStaysInStep, GeneratedDecodes*: on the runs a decoder was made for, it
  does what the interpreter does, with one exception (`CutShort`). If all runs of
  a kind had one width of more than 8 bits that is no multiple of 8, the generated
  loop takes too few bytes for a value, and decodes even the stream it was made
  from wrongly (util-ir.cpp:322).
- *UndefinedOnlyWhere*: on runs it was made for, shifts by the width of the type
  or more happen only for the base of a patched run that is out of the range of the
  magnitudes of the type, and in 8 bits for fields of 8 bits or more; and the table
  of widths is left only in 64 bits, for patches whose gap and bits take 64 bits together. The aligned stores that are asked for narrow elements do no harm
  on the processors the program is built for, and are left out.
- *FaultsOnlyOnUnfamiliar, FaultsOnlyOnUnseen, GeneratedUnlessShifted,
  DestroyedSafely* tell exactly when generated code goes wrong: it meets a run
  that was not met in that column when it was made (a decoder with several cases
  then spins in `nextBatch`, one with a single case takes the run for another, and
  one with a single width may read on behind the stream); a FLOAT or DOUBLE column
  selected before a column of numbers shifts the profiles read back; a scanner
  that met no run merges first, and `toString` divides by its `totalRunLength`, to
  which `merge` adds nothing; a scanner is made after another one has begun to be
  destroyed (`late`). `genfunc_next` has nothing for DATE, so that such a column
  stays with the interpreter.
- *LoadsWhole, FilesAgree* allow two savings that overlap, a process that dies
  while it writes, and one that cannot open a file: each leaves files that are
  mixed, torn, or not of one module, until the next process saves. LoadsWhole
  also allows a file that is truncated or written between its opening and its last
  block: parseIRFile then gets a part of a module or a mixture of two, though
  the file was settled when it began and may be so again when it ends.
- *CallsReturn*: a call does not return in a full table without the key; a
  negative key whose remainder is not zero is looked for in front of the table.

Two runs show a disagreement with what the code says of itself:

1. *rle_widedelta*, src/src/orc/RLE2.cpp:585. The first step of a delta run is
   read into the decoded type, although the comment two lines above has the delta
   stored as a vint, that may be negative though no number is; a step that does not
   fit is cut before its sign is undone.
2. *codegen_counted*, src/src/orc-ir/genfunc-ir.cpp:898. A scanner deleted before
   it decoded a run (an empty table) makes the last destructor generate from an
   empty profile, which the assertion excludes.

## 6. Not modelled

- Generated code of the repository: the flex and bison parser and the protobuf
  classes, some 25000 of its 35000 lines. They keep no state of the program, and
  the share of the lines that the models can stand for is bounded by the rest.
- The IR builder, the linking and the optimisation of a module, and the types and
  intrinsics of llvm-codegen.cpp: they are calls of LLVM. What the generated
  functions compute is in GenRle; the path for fields of 24 bits (a shuffle of
  AVX2 on a type of 32 bits), the variants behind `FLAGS_vectorization` and the
  experiments under llvm-vec are left out.
- 32 and 64 bit instances of the decoders are out of TLC's integers; the same
  templates are checked at 8 and 16 bits, and what is proved of the interpreter is
  proved of all four. In a type of 32 bits or less, three things are shifted
  by the width of `int` or more, which C++ leaves undefined and the models cut: the
  bytes from the fifth on of a number no column of the type holds, or of a step of a
  delta run of 2^34 or more; the mask of the sign of a base of 5 bytes (in a column of
  32 bits, -2^31, or lengths of 2^31 and more; RLE2.cpp:524); and the mask of patches of 32 bits (RLE2.cpp:542),
  which `Fits` keeps out of the theorems. For these runs of a column of 32 bits
  InterpreterDecodes says what the interpreter would do in a machine that cuts.
- Characters of strings: the decoder of a VARCHAR is that of its LENGTH stream and
  no code reads the characters; floating-point columns are copied, not decoded.
- Unreadable files and malformed streams or footers: after one the code prints a
  message and goes on, and nothing can be said of the results. Of short reads, only
  what they do to the buffers of other columns and stripes (StripeRead).
- `Rep::reset` called while scanners read: nothing calls it so. In the buffer of a
  directory stream each entry takes one slot of equal size, and a refill replaces
  all of them in one step: the bytes of a name that is read while it is overwritten
  are not modelled. A directory opened in place of a file is taken for an ORC file
  without a stripe; one entry overwritten by a shorter or longer one could also read as
  something else.
- Scanners of one process that select different columns, or read different tables
  (`colinfos_global` is shared by all), and scans that follow one another in a
  process: of the last, ScanCodegen says only that they are `late`.
- The buffer of 100000 bytes the profiles are written to (ORCScanner.cpp:214),
  which six columns overflow if their runs are of as many widths and lengths as a
  profile can count (some 18 KB each), and the address of a local variable
  that `AddFunctionToJit` is given (genfunc-ir.cpp:985) and `FinalizeModule` writes
  through.
- The SQL statement is translated into one scan without a condition
  (SQLCodegen.cpp); `AggregateNode` and the executor for it have no code.
- `ObjectPool` is a list of things to delete; `ScanNode` deletes its scanner and
  its table and keeps nothing else.

## 7. Plan

Done, most important first: StripeDispenser, TableScan, DataBuffer, StripeRead,
RleFormat, Rle2, ReadLongs, ScanCodegen; EncodingInfo and GenRle (profiles with
counts, generated decoders); ModuleFiles; KeyMap and HashTable; the proofs of
section 4.

What would come next: an abstract specification of the life of a module that
ScanCodegen and ModuleFiles both implement; strings; and the 32 bit decoders in
a model that counts in bytes.

Runs stay few: a new module takes the place of a run whose question it answers
better, or joins one.
