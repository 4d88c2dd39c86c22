------------------------------ MODULE RleFormat ------------------------------
(***************************************************************************)
(* Version 2 of the integer run-length encoding of ORC files: the tables   *)
(* and bit fields the reader uses (include/util.h, src/orc/RLE2.cpp), and  *)
(* what the writer of the file, which is no part of this repository, puts  *)
(* into the bytes of a run.                                                *)
(*                                                                         *)
(* A byte is a member of 0..255 and the bytes of a stream are a sequence.  *)
(* A C integer of w bits is kept either as 0 .. 2^w - 1 or as its signed   *)
(* value; every operation that may overflow reduces its result.            *)
(***************************************************************************)
EXTENDS Integers, Sequences, SequencesExt

ToUnsigned(v, w) == v % 2^w
ToSigned(v, w) == ((v + 2^(w-1)) % 2^w) - 2^(w-1)

CeilDiv(a, b) == (a + b - 1) \div b

\* Zigzag puts the sign into bit 0.  unZigZag takes w bits back to w bits.
ZigZag(v) == IF v >= 0 THEN 2 * v ELSE -2 * v - 1
unZigZag(u) == IF u % 2 = 0 THEN u \div 2 ELSE -(u \div 2) - 1

\* The widths a header can name in 5 bits, and the width that holds n bits.
decodeBitWidth(n) ==
  IF n <= 23 THEN n + 1 ELSE <<26, 28, 30, 32, 40, 48, 56, 64>>[n - 23]

BitWidths == {decodeBitWidth(c) : c \in 0 .. 31}

getClosestFixedBits(n) ==
  IF n = 0 THEN 1
  ELSE LET holding == {w \in BitWidths : w >= n}
       IN IF holding = {} THEN 64 ELSE Min(holding)

BitAt(bytes, k) == (bytes[k \div 8 + 1] \div 2^(7 - (k % 8))) % 2

\* Field number i (from 0) of a packed array of fields of the given width that
\* starts at byte at (from 0): most significant bit first, modulo 2^w.
Field(bytes, at, width, i, w) ==
  LET bit(k) == BitAt(bytes, 8 * at + i * width + k)
      f[k \in 0 .. width] == IF k = 0 THEN 0 ELSE (2 * f[k-1] + bit(k-1)) % 2^w
  IN f[width]
-----------------------------------------------------------------------------
(***************************************************************************)
(* The writer.                                                             *)
(***************************************************************************)
Packed(vs, width) ==
  LET bit(n) == IF n < Len(vs) * width
                  THEN (vs[n \div width + 1] \div 2^(width - 1 - (n % width))) % 2
                  ELSE 0
      byte(j) == 128 * bit(8*j) + 64 * bit(8*j + 1) + 32 * bit(8*j + 2) + 16 * bit(8*j + 3)
                   + 8 * bit(8*j + 4) + 4 * bit(8*j + 5) + 2 * bit(8*j + 6) + bit(8*j + 7)
  IN [j \in 1 .. CeilDiv(Len(vs) * width, 8) |-> byte(j - 1)]

BigEndian(v, n) == [j \in 1 .. n |-> (v \div 2^(8 * (n - j))) % 256]

\* The digits a number needs, of so many bits each.
Digits(v, bits, max) ==
  CHOOSE n \in 1 .. max : v < 2^(bits * n) /\ \A m \in 1 .. n-1 : v >= 2^(bits * m)

BytesFor(v) == Digits(v, 8, 8)

\* Groups of 7 bits, least significant first, all but the last with bit 7 set.
Varint(v) ==
  LET n == Digits(v, 7, 10)
  IN [j \in 1 .. n |-> ((v \div 2^(7 * (j-1))) % 128) + (IF j < n THEN 128 ELSE 0)]

WidthCode(width) == CHOOSE c \in 0 .. 31 : decodeBitWidth(c) = width

\* The two bytes most runs begin with: kind, width code, length less one.
Header(kind, code, n) ==
  <<64 * kind + 2 * code + (n - 1) \div 256, (n - 1) % 256>>

\* The four kinds of runs.  delta: width 0 means that every step is the first
\* one.  patched: raw values above base, and the bits above width of some of
\* them, each at a gap from the one before.
ShortRepeat(value, n) == [kind |-> "repeat", value |-> value, n |-> n]
Direct(values, width) == [kind |-> "direct", values |-> values, width |-> width]
Delta(first, step, width, rest) ==
  [kind |-> "delta", first |-> first, step |-> step, width |-> width, rest |-> rest]
Patched(base, raws, width, patches, pw, pgw) ==
  [kind |-> "patched", base |-> base, raws |-> raws, width |-> width,
   patches |-> patches, pw |-> pw, pgw |-> pgw]

\* A patch entry packs its gap above its bits.
Entry(r, i) == r.patches[i].gap * 2^r.pw + r.patches[i].bits

SumTo(len, k) ==
  LET sum[n \in 0 .. Len(len)] == IF n = 0 THEN 0 ELSE sum[n-1] + len[n]
  IN sum[k]

PatchAt(r, i) == 1 + SumTo([k \in DOMAIN r.patches |-> r.patches[k].gap], i)

PatchedValue(r, i) ==
  r.base + r.raws[i] +
    SumTo([k \in DOMAIN r.patches |->
             IF PatchAt(r, k) = i THEN r.patches[k].bits * 2^r.width ELSE 0], Len(r.patches))

\* The numbers the writer was given.
RunValues(r) ==
  CASE r.kind = "repeat" -> [i \in 1 .. r.n |-> r.value]
    [] r.kind = "direct" -> r.values
    [] r.kind = "delta" ->
         LET sign == IF r.step < 0 THEN -1 ELSE 1
             v[i \in 1 .. Len(r.rest) + 2] ==
               IF i = 1 THEN r.first
               ELSE v[i-1] + (IF i = 2 THEN r.step ELSE sign * r.rest[i-2])
         IN [i \in 1 .. Len(r.rest) + 2 |-> v[i]]
    [] r.kind = "patched" -> [i \in 1 .. Len(r.raws) |-> PatchedValue(r, i)]

\* The number a field holds for a value, and the size of a base.
Coded(v, signed) == IF signed THEN ZigZag(v) ELSE v
Size(v) == IF v < 0 THEN -v ELSE v

\* The bytes of a base, whose top bit is the sign.
BaseBytes(v) == CHOOSE n \in 1 .. 8 :
  Size(v) < 2^(8*n - 1) /\ \A m \in 1 .. n-1 : Size(v) >= 2^(8*m - 1)

\* The bytes it wrote for them.
RunBytes(r, signed) ==
  CASE r.kind = "repeat" ->
         LET v == Coded(r.value, signed)
         IN <<8 * (BytesFor(v) - 1) + r.n - 3>> \o BigEndian(v, BytesFor(v))
    [] r.kind = "direct" ->
         Header(1, WidthCode(r.width), Len(r.values))
           \o Packed([i \in DOMAIN r.values |-> Coded(r.values[i], signed)], r.width)
    [] r.kind = "delta" ->
         Header(3, IF r.width = 0 THEN 0 ELSE WidthCode(r.width), Len(r.rest) + 2)
           \o Varint(Coded(r.first, signed)) \o Varint(ZigZag(r.step))
           \o (IF r.width = 0 THEN <<>> ELSE Packed(r.rest, r.width))
    [] r.kind = "patched" ->
         LET bw == BaseBytes(r.base)
             sign == IF r.base < 0 THEN 2^(8*bw - 1) ELSE 0
             entries == [i \in DOMAIN r.patches |-> Entry(r, i)]
         IN Header(2, WidthCode(r.width), Len(r.raws))
              \o <<32 * (bw - 1) + WidthCode(r.pw),
                   32 * (r.pgw - 1) + Len(r.patches)>>
              \o BigEndian(Size(r.base) + sign, bw)
              \o Packed(r.raws, r.width)
              \o Packed(entries, getClosestFixedBits(r.pw + r.pgw))

\* What a writer keeps to: lengths and widths that the header can name, numbers
\* of at most 8 bytes.  A delta run with fields of one bit would be taken for one
\* without fields.
Legal(r, signed) ==
  /\ r.kind \in {"repeat", "direct", "delta", "patched"}
  /\ r.kind = "repeat" =>
       /\ r.n \in 3 .. 10
       /\ \E n \in 1 .. 8 : Coded(r.value, signed) \in 0 .. 2^(8*n) - 1
  /\ r.kind = "direct" =>
       /\ r.width \in BitWidths
       /\ r.values \in Seq(Int) /\ Len(r.values) \in 1 .. 512
  /\ r.kind = "delta" =>
       /\ r.width \in BitWidths \cup {0} /\ r.width # 1
       /\ r.rest \in Seq(Nat) /\ Len(r.rest) \in 0 .. 510
       /\ \E n \in 1 .. 10 : Coded(r.first, signed) \in 0 .. 2^(7*n) - 1
       /\ r.step \in Int /\ \E n \in 1 .. 10 : ZigZag(r.step) < 2^(7*n)
  /\ r.kind = "patched" =>
       /\ r.width \in BitWidths /\ r.raws \in Seq(Nat) /\ Len(r.raws) \in 1 .. 512
       /\ r.base \in Int /\ \E n \in 1 .. 8 : Size(r.base) < 2^(8*n - 1)
       /\ r.pw \in BitWidths /\ r.pgw \in 1 .. 8 /\ r.pw + r.pgw <= 64
       /\ r.patches \in Seq([gap : Nat, bits : Nat]) /\ Len(r.patches) \in 1 .. 31

\* What it keeps to as well if it is given numbers of w bits: fields that hold what
\* is packed in them, a base among the numbers, and patches that put bits above
\* values that lie in the run one after the other (a last one without bits would do nothing).
Fits(r, w, signed) ==
  LET vs == RunValues(r)
      range == IF signed THEN -(2^(w-1)) .. 2^(w-1) - 1 ELSE 0 .. 2^w - 1
  IN /\ \A i \in DOMAIN vs : vs[i] \in range
     /\ r.kind = "direct" => \A i \in DOMAIN vs : Coded(vs[i], signed) < 2^r.width
     /\ r.kind = "delta" => \A i \in DOMAIN r.rest :
          IF r.width = 0 THEN r.rest[i] = Size(r.step) ELSE r.rest[i] < 2^r.width
     /\ r.kind = "patched" =>
          /\ r.base \in range /\ r.pw < w
          /\ \A i \in DOMAIN r.raws : r.raws[i] < 2^r.width
          /\ \A i \in DOMAIN r.patches :
               /\ r.patches[i].gap < 2^r.pgw /\ r.patches[i].bits < 2^r.pw
               /\ i > 1 => r.patches[i].gap > 0
          /\ r.patches[Len(r.patches)].bits > 0
          /\ PatchAt(r, Len(r.patches)) <= Len(r.raws)

LegalStream(runs, signed) ==
  runs \in Seq(Range(runs)) /\ \A k \in DOMAIN runs : Legal(runs[k], signed)
=============================================================================
