-------------------------------- MODULE Rle2 --------------------------------
(***************************************************************************)
(* RLE2<I,UI>::next (src/orc/RLE2.cpp): the interpreted decoder of a       *)
(* column of integers.  It reads the runs of a stream one after the other  *)
(* into the batch and, when code generation is on, records in the          *)
(* EncodingInfo of each kind of run what the generator specialises on.     *)
(*                                                                         *)
(* One action is one turn of the loop of next(), by the kind of the run.   *)
(* I has W bits: 8 for BYTE, 16 for SHORT and DATE, 32 for INT and for the *)
(* lengths of strings, 64 for LONG.  TLC can carry out the arithmetic of   *)
(* the first two.  The bit loop of readLongs is module ReadLongs; the AVX2 *)
(* variants (FLAGS_vectorization) are left out.                            *)
(***************************************************************************)
EXTENDS RleFormat, Bags

CONSTANTS
  Instances,     \* the decoders: [w, signed, codegen]; w is the width of I, signed
                 \* is FALSE for the lengths of strings, codegen is FLAGS_codegen
  Streams(_, _)  \* the streams a decoder of a width and signedness is given:
                 \* sequences of runs of RleFormat

ASSUME Rle2Assumption ==
  Instances \subseteq [w : {8, 16, 32, 64}, signed : BOOLEAN, codegen : BOOLEAN]

ASSUME WriterAssumption ==
  \A d \in Instances : \A runs \in Streams(d.w, d.signed) : LegalStream(runs, d.signed)

VARIABLES
  type,    \* the instance that decodes
  stream,  \* the runs, each with the numbers the writer was given for it
  data,    \* the bytes it wrote
  index,   \* bytes consumed
  offset,  \* numbers decoded
  result,  \* the numbers in the batch
  info,    \* RLEInfo: an EncodingInfo for each kind of run
  wild     \* a patch was applied outside of its run

vars == <<type, stream, data, index, offset, result, info, wild>>

W == type.w
IsSigned == type.signed
Codegen == type.codegen

Kind == {"repeat", "direct", "patched", "delta"}
MinRepeat == 3

NoInfo == [bitsize |-> EmptyBag, runLength |-> EmptyBag, num |-> 0, totalRunLength |-> 0]

Written(r) == [run |-> r, values |-> RunValues(r), bytes |-> RunBytes(r, IsSigned)]

Init ==
  /\ type \in Instances
  /\ \E runs \in Streams(W, IsSigned) : stream = [k \in DOMAIN runs |-> Written(runs[k])]
  /\ data = FlattenSeq([k \in DOMAIN stream |-> stream[k].bytes])
  /\ index = 0
  /\ offset = 0
  /\ result = <<>>
  /\ info = [k \in Kind |-> NoInfo]
  /\ wild = FALSE

\* Byte k of the run (from 0), and the fields of its header.
Byte(k) == data[index + k + 1]
Encoding == Byte(0) \div 64
WidthField == (Byte(0) \div 2) % 32
RunLength == 256 * (Byte(0) % 2) + Byte(1) + 1

\* A number of n bytes, most significant first, in W bits.
readLongBE(at, n) ==
  LET v[k \in 0 .. n] == IF k = 0 THEN 0 ELSE (256 * v[k-1] + data[at + k]) % 2^W
  IN v[n]

\* A number in groups of 7 bits, least significant first, in W bits.
VarintLength(at) == CHOOSE n \in 1 .. 10 :
  data[at + n] < 128 /\ \A k \in 1 .. n-1 : data[at + k] >= 128

readVulong(at) ==
  LET v[k \in 0 .. VarintLength(at)] ==
        IF k = 0 THEN 0 ELSE (v[k-1] + (data[at + k] % 128) * 2^(7 * (k-1))) % 2^W
  IN v[VarintLength(at)]

readLongs(at, n, width, signed) ==
  [i \in 1 .. n |->
     LET u == Field(data, at, width, i - 1, W)
     IN IF signed THEN unZigZag(u) ELSE ToSigned(u, W)]

\* (faulty variant of updateEncodingInfo: runs are counted, not their values)
updateEncodingInfo_Runs(kind, bsize, n) ==
  info' = IF ~Codegen THEN info ELSE
    [info EXCEPT ![kind] = [bitsize |-> @.bitsize (+) SetToBag({bsize}),
                            runLength |-> @.runLength (+) SetToBag({n}),
                            num |-> @.num + 1,
                            totalRunLength |-> @.totalRunLength + n]]

updateEncodingInfo(kind, bsize, n) ==
  info' = IF ~Codegen THEN info ELSE
    [info EXCEPT ![kind] = [bitsize |-> @.bitsize (+) SetToBag({bsize}),
                            runLength |-> @.runLength (+) [len \in {n} |-> n],
                            num |-> @.num + 1,
                            totalRunLength |-> @.totalRunLength + n]]

\* values go to the batch at the offset, which moves by the length of the run.
Emit(values, n) ==
  /\ result' = SubSeq(result, 1, offset) \o values
  /\ offset' = offset + n

Running(kind) == ~wild /\ index < Len(data) /\ Encoding = kind

\* (faulty variant of nextShortRepeats: the zigzag is not undone)
nextShortRepeats_Raw ==
  LET byteSize == ((Byte(0) \div 8) % 8) + 1
      n == (Byte(0) % 8) + MinRepeat
      u == readLongBE(index + 1, byteSize)
  IN /\ Running(0)
     /\ Emit([i \in 1 .. n |-> u], n)
     /\ index' = index + 1 + byteSize
     /\ updateEncodingInfo("repeat", byteSize, n)
     /\ UNCHANGED <<type, stream, data, wild>>

nextShortRepeats ==
  LET byteSize == ((Byte(0) \div 8) % 8) + 1
      n == (Byte(0) % 8) + MinRepeat
      u == readLongBE(index + 1, byteSize)
      value == IF IsSigned THEN unZigZag(u) ELSE ToSigned(u, W)
  IN /\ Running(0)
     /\ Emit([i \in 1 .. n |-> value], n)
     /\ index' = index + 1 + byteSize
     /\ updateEncodingInfo("repeat", byteSize, n)
     /\ UNCHANGED <<type, stream, data, wild>>

\* (faulty variant of nextDirect: a last byte used in part is not skipped)
nextDirect_Floor ==
  LET width == decodeBitWidth(WidthField)
      n == RunLength
  IN /\ Running(1)
     /\ Emit(readLongs(index + 2, n, width, IsSigned), n)
     /\ index' = index + 2 + (n * width) \div 8
     /\ updateEncodingInfo("direct", width, n)
     /\ UNCHANGED <<type, stream, data, wild>>

nextDirect ==
  LET width == decodeBitWidth(WidthField)
      n == RunLength
  IN /\ Running(1)
     /\ Emit(readLongs(index + 2, n, width, IsSigned), n)
     /\ index' = index + 2 + CeilDiv(n * width, 8)
     /\ updateEncodingInfo("direct", width, n)
     /\ UNCHANGED <<type, stream, data, wild>>

\* The base of a patched run: sign and magnitude, in byteSize bytes.  When the
\* bytes are wider than W the mask of the sign is 0.
PatchedBase(byteSize) ==
  LET u == readLongBE(index + 4, byteSize)
      mask == 2^(8 * byteSize - 1)
  IN IF 8 * byteSize <= W /\ u >= mask THEN mask - u ELSE ToSigned(u, W)

\* The operator | of C, on W bits.
BitOr(a, b) ==
  LET or[k \in 0 .. W] ==
        IF k = 0 THEN 0
        ELSE or[k-1] + 2^(k-1) * Max({(a \div 2^(k-1)) % 2, (b \div 2^(k-1)) % 2})
  IN or[W]

\* One patch, put at position pos of the values decoded so far.
ApplyPatch(values, pos, base, bits, width) ==
  LET low == ToUnsigned(values[pos] - base, W)
      patched == BitOr(low, ToUnsigned(bits * 2^width, W))
  IN [values EXCEPT ![pos] = ToSigned(base + patched, W)]

\* The gap of an entry, shifted as an unsigned number of 64 bits.
PatchGap(entry, pw) == (IF W = 64 THEN ToUnsigned(entry, W) ELSE entry) \div 2^pw

\* A patched run: the raw values, the base added to each, then the patches,
\* each at a gap from the one before.  An entry is kept in the signed type I.  If
\* I has less than 64 bits, one with its top bit set is widened with its sign to
\* a gap far outside of the run, whose write is undefined behaviour.
nextPatched ==
  LET width == decodeBitWidth(WidthField)
      n == RunLength
      byteSize == Byte(2) \div 32 + 1
      pw == decodeBitWidth(Byte(2) % 32)
      pgw == Byte(3) \div 32 + 1
      pl == Byte(3) % 32
      cfb == getClosestFixedBits(pw + pgw)
      base == PatchedBase(byteSize)
      rawsAt == index + 4 + byteSize
      patchesAt == rawsAt + CeilDiv(n * width, 8)
      raws == readLongs(rawsAt, n, width, FALSE)
      unpackedPatch == readLongs(patchesAt, pl, cfb, FALSE)
      pos[i \in 0 .. pl] == IF i = 0 THEN 1 ELSE pos[i-1] + PatchGap(unpackedPatch[i], pw)
      outside == \E i \in 1 .. pl : (W # 64 /\ unpackedPatch[i] < 0) \/ pos[i] > n
      based == [i \in 1 .. n |-> ToSigned(base + raws[i], W)]
      patched[i \in 0 .. pl] ==
        IF i = 0 THEN based
        ELSE ApplyPatch(patched[i-1], pos[i], base, unpackedPatch[i] % 2^pw, width)
  IN /\ Running(2)
     /\ wild' = outside
     /\ Emit(IF outside THEN based ELSE patched[pl], n)
     /\ index' = patchesAt + CeilDiv(pl * cfb, 8)
     /\ updateEncodingInfo("patched", width, n)
     /\ UNCHANGED <<type, stream, data>>

\* A delta run: the first value, the first step, and the sizes of the others,
\* which all go the way of the first.
nextDelta ==
  LET width == IF WidthField = 0 THEN 0 ELSE decodeBitWidth(WidthField)
      n == RunLength
      first == readVulong(index + 2)
      stepAt == index + 2 + VarintLength(index + 2)
      firstValue == IF IsSigned THEN unZigZag(first) ELSE ToSigned(first, W)
      deltaBase == unZigZag(readVulong(stepAt))
      restAt == stepAt + VarintLength(stepAt)
      rest == readLongs(restAt, n - 2, width, FALSE)
      step(i) == IF width = 0 \/ i = 2 THEN deltaBase
                 ELSE IF deltaBase < 0 THEN -rest[i-2] ELSE rest[i-2]
      v[i \in 1 .. n] == IF i = 1 THEN firstValue ELSE ToSigned(v[i-1] + step(i), W)
  IN /\ Running(3)
     /\ Emit([i \in 1 .. n |-> v[i]], n)
     /\ index' = restAt + CeilDiv((n - 2) * width, 8)
     /\ updateEncodingInfo("delta", width, n)
     /\ UNCHANGED <<type, stream, data, wild>>

\* The stream is used up, or the process has lost its memory.
Ended ==
  /\ wild \/ index >= Len(data)
  /\ UNCHANGED vars

Next == nextShortRepeats \/ nextDirect \/ nextPatched \/ nextDelta \/ Ended

Spec == Init /\ [][Next]_vars
-----------------------------------------------------------------------------
(***************************************************************************)
(* Properties                                                              *)
(***************************************************************************)
\* The numbers of a signed type.
Type(w) == -(2^(w-1)) .. 2^(w-1) - 1

\* Where run k ends in the stream and in the batch.
EndIndex(k) == SumTo([i \in DOMAIN stream |-> Len(stream[i].bytes)], k)
EndOffset(k) == SumTo([i \in DOMAIN stream |-> Len(stream[i].values)], k)

\* The runs decoded so far.
Decoded == {k \in DOMAIN stream : EndIndex(k) <= index}

Segment(k) == SubSeq(result, EndOffset(k-1) + 1, EndOffset(k))

\* What the arithmetic of I cannot carry: the first step of a delta run that
\* does not fit in W bits, and a patch entry that reaches the sign bit of a type
\* of less than 64 bits.
TooWide(r) ==
  CASE r.kind = "delta" -> r.step \notin Type(W)
    [] r.kind = "patched" -> W # 64 /\ \E i \in DOMAIN r.patches : Entry(r, i) >= 2^(W-1)
    [] OTHER -> FALSE

\* After each run the decoder stands exactly at the first byte of the next run
\* and has filled the batch up to the first number of the next run, whatever
\* the kinds, widths and lengths of the runs before.
StaysInStep ==
  \E k \in 0 .. Len(stream) : index = EndIndex(k) /\ offset = EndOffset(k)

\* The batch holds the numbers that were written, in every run but those that
\* are too wide for the decoded type, and each of those comes out wrong.  No
\* patch is written outside of its run unless an entry is too wide.
DecodesWritten ==
  IF wild THEN \E k \in Decoded : TooWide(stream[k].run)
  ELSE \A k \in Decoded :
    LET vs == stream[k].values
    IN Segment(k) = [i \in DOMAIN vs |-> ToSigned(vs[i], W)]
         <=> ~TooWide(stream[k].run)

RunWidth(r) ==
  IF r.kind = "repeat"
    THEN BytesFor(IF IsSigned THEN ZigZag(r.value) ELSE r.value) ELSE r.width

\* What a profile tells of some runs: their number, how many numbers they hold,
\* how often each width came, and how many numbers came in runs of each length.
Tells(profile, runs, width, length) ==
  /\ profile.num = Cardinality(runs)
  /\ profile.totalRunLength
       = SumTo([k \in DOMAIN length |-> IF k \in runs THEN length[k] ELSE 0], Len(length))
  /\ BagToSet(profile.bitsize) = {width[k] : k \in runs}
  /\ \A k \in runs :
       profile.bitsize[width[k]] = Cardinality({j \in runs : width[j] = width[k]})
  /\ BagToSet(profile.runLength) = {length[k] : k \in runs}
  /\ \A k \in runs :
       profile.runLength[length[k]]
         = length[k] * Cardinality({j \in runs : length[j] = length[k]})

\* The runs of a kind that are recorded: none without code generation.
Recorded(kind) == IF Codegen THEN {k \in Decoded : stream[k].run.kind = kind} ELSE {}

\* The profile the generator specialises on tells of the runs decoded, kind by
\* kind.
ProfileMatches ==
  \A kind \in Kind :
    Tells(info[kind], Recorded(kind),
          [k \in DOMAIN stream |-> RunWidth(stream[k].run)],
          [k \in DOMAIN stream |-> Len(stream[k].values)])

\* "read the fixed delta value stored as vint (deltas can be negative even if
\* all number are positive)", RLE2.cpp:583: the second number of a delta run
\* is the stored delta away from the first.
DeltaBaseAsStored ==
  \A k \in Decoded : stream[k].run.kind = "delta" =>
    ToSigned(Segment(k)[2] - Segment(k)[1], W) = ToSigned(stream[k].run.step, W)
=============================================================================
