------------------------------- MODULE GenRle -------------------------------
(***************************************************************************)
(* A generated decoder of integers, from the profile to the numbers: the   *)
(* interpreter (module Rle2) profiles the streams of several scanners,     *)
(* their profiles are merged, written, read back and specialised on        *)
(* (src/exec/ORCScanner.cpp, include/ORCColumnInfo.h), and the decoder     *)
(* they make (src/orc-ir/genfunc-ir.cpp, src/orc-ir/util-ir.cpp) reads the *)
(* stream again, or that of a later scan.                                  *)
(*                                                                         *)
(* A shift of an LLVM integer by its width or more is poison: the run it   *)
(* happens in is a fault, not a number.  The path for fields of 24 bits is *)
(* left out: the generated functions are those for 8 and 16 bits, while    *)
(* the interpreter is that of every width.                                 *)
(***************************************************************************)
EXTENDS Rle2, EncodingInfo

CONSTANTS
  MaxScanners,  \* bound: scanners whose profiles are merged
  More(_, _),   \* streams of the scanners after the first
  Later(_, _)   \* streams of scans with the generated decoder

ASSUME ScannersAssumption ==
  \A d \in Instances : \A runs \in More(d.w, d.signed) \cup Later(d.w, d.signed) :
    LegalStream(runs, d.signed)

\* Every stream is one of numbers of the decoded type.
StreamsFit ==
  \A d \in Instances :
    \A runs \in Streams(d.w, d.signed) \cup More(d.w, d.signed) \cup Later(d.w, d.signed) :
      \A k \in DOMAIN runs : Fits(runs[k], d.w, d.signed)

None == <<>>  \* nothing merged, no decoder yet

VARIABLES
  phase,    \* "scan", "merged" or "generated"
  global,   \* the RLEInfo in colinfos_global
  merged,   \* history: the RLEInfo of each scanner merged
  decoder,  \* what genfunc_rle has specialised on
  fault     \* "no", or what the generated decoder ran into

genVars == <<phase, global, merged, decoder, fault>>
allVars == <<vars, genVars>>

GenInit ==
  /\ Init
  /\ phase = "scan" /\ global = None /\ merged = <<>> /\ decoder = None /\ fault = "no"

Interpret ==
  /\ phase = "scan"
  /\ nextShortRepeats \/ nextDirect \/ nextPatched \/ nextDelta
  /\ UNCHANGED genVars

\* The destructor of a scanner: its profile is copied, or added to the others.
MergeProfile ==
  /\ phase = "scan" /\ Codegen /\ ~wild /\ index >= Len(data)
  /\ global' = IF global = None THEN info ELSE [k \in Kind |-> merge(global[k], info[k])]
  /\ merged' = Append(merged, info)
  /\ phase' = "merged"
  /\ UNCHANGED <<vars, decoder, fault>>

\* Decoding begins on another stream.
Open(runs) ==
  LET written == [k \in DOMAIN runs |-> Written(runs[k])]
  IN /\ stream' = written
     /\ data' = FlattenSeq([k \in DOMAIN runs |-> written[k].bytes])
     /\ index' = 0 /\ offset' = 0 /\ result' = <<>> /\ wild' = FALSE

AnotherScanner ==
  /\ phase = "merged" /\ Len(merged) < MaxScanners
  /\ \E runs \in More(W, IsSigned) : Open(runs)
  /\ info' = [k \in Kind |-> NoInfo]
  /\ phase' = "scan"
  /\ UNCHANGED <<type, global, merged, decoder, fault>>

\* (faulty variant of genfunc_rle: the delta case is forgotten)
genfunc_rle_NoDelta(read) ==
  [cases |-> {k \in Kind \ {"delta"} : read[k].info.num > 0},
   fixed |-> [k \in Kind |-> getFixedBitSize(read[k].info)],
   signed |-> [k \in Kind |-> read[k].issigned],
   profile |-> [k \in Kind |-> read[k].info]]

\* A decoder has a case for each kind of run that was met, specialised on the
\* width of its runs if they have but one.
genfunc_rle(read) ==
  [cases |-> {k \in Kind : read[k].info.num > 0},
   fixed |-> [k \in Kind |-> getFixedBitSize(read[k].info)],
   signed |-> [k \in Kind |-> read[k].issigned],
   profile |-> [k \in Kind |-> read[k].info]]

\* The profile is printed before it is used, each kind with its share of the
\* total length, which dies of a division by 0 if only the first scanner, whose
\* share is left, met no run.
Printable == (\E k \in Kind : global[k].num > 0) => \E k \in Kind : global[k].totalRunLength > 0

\* The last scanner generates; the same data is scanned again, or other data.
Generate ==
  /\ phase = "merged" /\ Printable
  /\ decoder' = genfunc_rle(decodeAll(encodeAll(global, IsSigned)))
  /\ phase' = "generated"
  /\ \E runs \in {[k \in DOMAIN stream |-> stream[k].run]} \cup Later(W, IsSigned) : Open(runs)
  /\ UNCHANGED <<type, info, global, merged, fault>>
-----------------------------------------------------------------------------
(***************************************************************************)
(* The generated decoder.                                                  *)
(***************************************************************************)
Code == [repeat |-> 0, direct |-> 1, patched |-> 2, delta |-> 3]

\* The index is where a run begins.  A decoder that has lost its step is not
\* followed further: it takes any byte for a header.
AtRun == \E k \in 0 .. Len(stream) : index = EndIndex(k) /\ offset = EndOffset(k)

Decoding == phase = "generated" /\ fault = "no" /\ ~wild /\ AtRun /\ index < Len(data)

Enter(kind) == Decoding /\ kind \in decoder.cases /\ Encoding = Code[kind]

\* A case with one common width of at least 8 bits takes that number of whole
\* bytes for each value, whatever the width of the run is.
Folded(kind) == decoder.fixed[kind] >= 8

FoldedBytes(kind) == decoder.fixed[kind] \div 8

\* (faulty variant of PackedLength: a last byte used in part is not skipped)
PackedLength_Floor(kind, n, width) ==
  IF Folded(kind) THEN n * FoldedBytes(kind) ELSE (n * width) \div 8

PackedLength(kind, n, width) ==
  IF Folded(kind) THEN n * FoldedBytes(kind) ELSE CeilDiv(n * width, 8)

\* (faulty variant of genfunc_readLongs: the sign is that of the file)
genfunc_readLongs_Signed(kind, at, n, width, signed) ==
  IF Folded(kind)
    THEN [i \in 1 .. n |->
            LET u == readLongBE(at + (i-1) * FoldedBytes(kind), FoldedBytes(kind))
            IN IF IsSigned THEN unZigZag(u) ELSE ToSigned(u, W)]
    ELSE readLongs(at, n, width, signed)

genfunc_readLongs(kind, at, n, width, signed) ==
  IF Folded(kind)
    THEN [i \in 1 .. n |->
            LET u == readLongBE(at + (i-1) * FoldedBytes(kind), FoldedBytes(kind))
            IN IF signed THEN unZigZag(u) ELSE ToSigned(u, W)]
    ELSE readLongs(at, n, width, signed)

\* In 8 bits there is no room to shift by a byte: the bit loop fails on a field
\* that covers a whole byte, the other on a value of two bytes.
WholeByte(width, i) == CeilDiv(i * width, 8) * 8 + 8 <= (i + 1) * width
BitLoopPoison(n, width) == W = 8 /\ \E i \in 0 .. n-1 : WholeByte(width, i)
PackedPoison(kind, n, width) ==
  IF Folded(kind) THEN W = 8 /\ n > 0 /\ FoldedBytes(kind) > 1 ELSE BitLoopPoison(n, width)

\* (faulty variant of LongBEPoison: n is decremented after the shift)
LongBEPoison_After(n) == 8 * n >= W

LongBEPoison(n) == 8 * (n - 1) >= W

VLongPoison(at) == 7 * (VarintLength(at) - 1) >= W

\* The run ends in front of byte next, having stored its values, unless it
\* reads beyond the stream or shifts too far.
Return(values, n, next, poison, outside) ==
  /\ IF next > Len(data) \/ poison
       THEN /\ fault' = IF next > Len(data) THEN "overread" ELSE "undefined"
            /\ UNCHANGED <<index, offset, result, wild>>
       ELSE Emit(values, n) /\ index' = next /\ wild' = outside /\ UNCHANGED fault
  /\ UNCHANGED <<type, stream, data, info, phase, global, merged, decoder>>

genfunc_nextRepeat ==
  LET width == decoder.fixed["repeat"]
      bytesize == IF width # -1 THEN width ELSE ((Byte(0) \div 8) % 8) + 1
      n == (Byte(0) % 8) + MinRepeat
      u == readLongBE(index + 1, bytesize)
      value == IF decoder.signed["repeat"] THEN unZigZag(u) ELSE ToSigned(u, W)
  IN /\ Enter("repeat")
     /\ Return([i \in 1 .. n |-> value], n, index + 1 + bytesize, LongBEPoison(bytesize), FALSE)

genfunc_nextDirect ==
  LET width == decodeBitWidth(WidthField)
      n == RunLength
  IN /\ Enter("direct")
     /\ Return(genfunc_readLongs("direct", index + 2, n, width, decoder.signed["direct"]), n,
               index + 2 + PackedLength("direct", n, width),
               PackedPoison("direct", n, width), FALSE)

\* A gap is the entry shifted with its sign and then widened without it.
genGap(entry, pw) == ToUnsigned(entry \div 2^pw, W)

\* The table of the width of an entry has 64 places: a patch whose gap and bits
\* take 64 bits together is looked up behind its end.
InClosestFixedBits(k) == k \in 0 .. 63

genfunc_nextPatched ==
  LET width == decodeBitWidth(WidthField)
      n == RunLength
      bytesize == Byte(2) \div 32 + 1
      pw == decodeBitWidth(Byte(2) % 32)
      pgw == Byte(3) \div 32 + 1
      pl == Byte(3) % 32
      cfb == getClosestFixedBits(pw + pgw)
      base == PatchedBase(bytesize)
      rawsAt == index + 4 + bytesize
      patchesAt == rawsAt + PackedLength("patched", n, width)
      raws == genfunc_readLongs("patched", rawsAt, n, width, FALSE)
      entries == readLongs(patchesAt, pl, cfb, FALSE)
      pos[i \in 0 .. pl] == IF i = 0 THEN 1 ELSE pos[i-1] + genGap(entries[i], pw)
      outside == \E i \in 1 .. pl : pos[i] > n
      based == [i \in 1 .. n |-> ToSigned(base + raws[i], W)]
      patched[i \in 0 .. pl] ==
        IF i = 0 THEN based ELSE ApplyPatch(patched[i-1], pos[i], base, entries[i] % 2^pw, width)
      poison == \/ 8 * bytesize > W \/ pw >= W \/ width >= W
                \/ PackedPoison("patched", n, width) \/ BitLoopPoison(pl, cfb)
                \/ ~InClosestFixedBits(pw + pgw)
  IN /\ Enter("patched")
     /\ Return(IF outside THEN based ELSE patched[pl], n, patchesAt + CeilDiv(pl * cfb, 8),
               poison, outside)

genfunc_nextDelta ==
  LET width == IF WidthField = 0 THEN 0 ELSE decodeBitWidth(WidthField)
      n == RunLength
      first == readVulong(index + 2)
      stepAt == index + 2 + VarintLength(index + 2)
      firstValue == IF decoder.signed["delta"] THEN unZigZag(first) ELSE ToSigned(first, W)
      deltaBase == unZigZag(readVulong(stepAt))
      restAt == stepAt + VarintLength(stepAt)
      rest == genfunc_readLongs("delta", restAt, n - 2, width, FALSE)
      step(i) == IF width = 0 \/ i = 2 THEN deltaBase
                 ELSE IF deltaBase < 0 THEN -rest[i-2] ELSE rest[i-2]
      v[i \in 1 .. n] == IF i = 1 THEN firstValue ELSE ToSigned(v[i-1] + step(i), W)
  IN /\ Enter("delta")
     /\ Return([i \in 1 .. n |-> v[i]], n,
               restAt + (IF width = 0 THEN 0 ELSE PackedLength("delta", n - 2, width)),
               \/ VLongPoison(index + 2) \/ VLongPoison(stepAt)
               \/ width # 0 /\ PackedPoison("delta", n - 2, width), FALSE)

\* A run there is no case for.  A decoder with one case does not look at the
\* kind; one with several returns 0 for ever; one made from nothing falls off
\* its first block.
NoCase ==
  /\ Decoding /\ \A k \in decoder.cases : Encoding # Code[k]
  /\ fault' = CASE decoder.cases = {} -> "undefined"
                [] Cardinality(decoder.cases) = 1 -> "foreign"
                [] Cardinality(decoder.cases) > 1 -> "stuck"
  /\ UNCHANGED <<vars, phase, global, merged, decoder>>

\* No codegen, memory lost, the division by 0, or the end of the last stream.
GenEnded ==
  /\ \/ phase = "scan" /\ wild
     \/ phase = "scan" /\ ~Codegen /\ index >= Len(data)
     \/ phase = "merged" /\ ~Printable
     \/ phase = "generated" /\ ~Decoding
  /\ UNCHANGED allVars

GenNext ==
  \/ Interpret \/ MergeProfile \/ AnotherScanner \/ Generate
  \/ genfunc_nextRepeat \/ genfunc_nextDirect \/ genfunc_nextPatched \/ genfunc_nextDelta
  \/ NoCase \/ GenEnded

GenSpec == GenInit /\ [][GenNext]_allVars
-----------------------------------------------------------------------------
(***************************************************************************)
(* Properties                                                              *)
(***************************************************************************)
Interpreted == phase # "generated"

\* While the interpreter decodes, its index stands behind the run read last.
InterpreterInStep == Interpreted => StaysInStep

\* It then has the numbers written, and only runs too wide for the type spoil
\* one or make it write outside of its batch.
InterpreterDecodes == Interpreted => DecodesWritten

\* Its profile counts the runs read, by kind, width and length.
InterpreterProfiles == Interpreted => ProfileMatches

\* The widths met in runs of a kind, by any scanner.
WidthsMet(kind) == UNION {BagToSet(merged[s][kind].bitsize) : s \in DOMAIN merged}

\* Runs the decoder was generated for: of a width met before.
Familiar(r) == RunWidth(r) \in WidthsMet(r.kind)

PackedValues(r) ==
  CASE r.kind = "repeat" -> 0
    [] r.kind = "direct" -> Len(r.values)
    [] r.kind = "delta" -> IF r.width = 0 THEN 0 ELSE Len(r.rest)
    [] r.kind = "patched" -> Len(r.raws)

\* All runs of the kind met before had one width, of at least 8 bits that do
\* not fill whole bytes: the decoder takes too few bytes for each value.
CutShort(r) ==
  /\ PackedValues(r) > 0
  /\ \E w \in WidthsMet(r.kind) : WidthsMet(r.kind) = {w} /\ w > 8 /\ w % 8 # 0

Done == {k \in DOMAIN stream : EndOffset(k) <= offset}
NextRun == stream[Cardinality(Done) + 1].run

\* On every run it was generated for, the decoder ends exactly in front of the
\* next run, and does so if and only if the profile does not make it take too
\* few bytes for a value.
GeneratedStaysInStep ==
  phase = "generated" /\ ~wild /\ Done # {} =>
    LET k == Cardinality(Done)
    IN Familiar(stream[k].run) => (index = EndIndex(k) <=> ~CutShort(stream[k].run))

\* It then has the numbers that were written, but for those the interpreter
\* gets wrong too: the specialisation changes nothing else.  A patch is written
\* outside of its run only if its entry is too wide.
GeneratedDecodes ==
  phase = "generated" =>
    \A k \in Done :
      LET r == stream[k].run
          vs == stream[k].values
      IN Familiar(r) /\ ~CutShort(r) =>
           IF wild /\ k = Cardinality(Done) THEN TooWide(r)
           ELSE Segment(k) = [i \in DOMAIN vs |-> ToSigned(vs[i], W)] <=> ~TooWide(r)

\* What a generated decoder shifts too far, of the runs a writer makes of numbers
\* of W bits: the base of a patched one, or in 8 bits a field of more than 7.  And
\* what it has no width for: a patch of 64 bits.
Poisonous(r) ==
  \/ r.kind = "patched" /\ r.base \notin -(2^(W-1)) + 1 .. 2^(W-1) - 1
  \/ r.kind = "patched" /\ r.pw + r.pgw > 63
  \/ W = 8 /\ r.kind = "patched" /\ r.pw + r.pgw >= 8
  \/ W = 8 /\ r.kind \in {"direct", "delta"} /\ r.width >= 8

\* On familiar runs poison comes only from those.
UndefinedOnlyWhere == fault = "undefined" /\ Familiar(NextRun) => Poisonous(NextRun)

\* A decoder meets a run it has no case for, or reads on behind the end of a
\* stream, only on a run that no scanner has met the like of.
FaultsOnlyOnUnfamiliar ==
  /\ fault \in {"stuck", "foreign"} => WidthsMet(NextRun.kind) = {}
  /\ fault = "stuck" => Cardinality({k \in Kind : WidthsMet(k) # {}}) > 1
  /\ fault = "overread" => ~Familiar(NextRun)

Total(counts) == SumTo(counts, Len(counts))

\* A bag holds what some bags hold together.
Together(bag, bags) ==
  /\ BagToSet(bag) = UNION {BagToSet(bags[s]) : s \in DOMAIN bags}
  /\ \A i \in BagToSet(bag) : bag[i] = Total([s \in DOMAIN bags |-> Count(bags[s], i)])

\* What the decoder is specialised on is what all the scanners met together:
\* merging, writing and reading back lose nothing but the total length, of
\* which only the share of the first scanner is left.
ProfileSurvives ==
  decoder # None => \A k \in Kind :
    LET met == decoder.profile[k]
    IN /\ met.num = Total([s \in DOMAIN merged |-> merged[s][k].num])
       /\ Together(met.bitsize, [s \in DOMAIN merged |-> merged[s][k].bitsize])
       /\ Together(met.runLength, [s \in DOMAIN merged |-> merged[s][k].runLength])
       /\ met.totalRunLength = merged[1][k].totalRunLength
       /\ decoder.signed[k] = IsSigned
       /\ WidthsMet(k) # {} =>
            IF Cardinality(WidthsMet(k)) = 1
              THEN decoder.fixed[k] \in WidthsMet(k) ELSE decoder.fixed[k] = -1
=============================================================================
