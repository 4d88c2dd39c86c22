------------------------------ MODULE ReadLongs ------------------------------
(***************************************************************************)
(* The bit loop of RLE2::readLongs (src/orc/RLE2.cpp): it takes len fields *)
(* of fb bits out of a byte stream, fetching a byte whenever the bits of   *)
(* the current one are used up.  One action is one step of the loops.      *)
(***************************************************************************)
EXTENDS Integers, Sequences

CONSTANTS
  W,       \* width of the unsigned type the fields are assembled in
  Inputs,  \* calls to make: data, from (index on entry), fb, len, issigned
  Nothing  \* "no byte fetched": curByte is not initialized

CeilDiv(a, b) == (a + b - 1) \div b

\* 2^W, the number of values of that type: powers up to 2^32 are what the provers
\* can compute.
Modulus == 2^(W \div 2) * 2^(W \div 2)

Call == [data : Seq(0 .. 255), from : Nat, fb : 1 .. 64, len : Nat, issigned : BOOLEAN]

\* RLE2 is instantiated for the four integer types.  The caller has checked
\* nothing, but the stream holds the fields it asks for.
ASSUME ReadLongsAssumption ==
  /\ W \in {8, 16, 32, 64}
  /\ Inputs \subseteq Call
  /\ \A c \in Inputs : 8 * c.from + c.len * c.fb <= 8 * Len(c.data)

VARIABLES
  call,            \* the arguments
  pc,              \* "value": at the head of the for loop; "bits": in it
  index,           \* bytes fetched from the stream
  i,               \* fields done
  bitsLeft,        \* bits of curByte not used yet
  curByte,
  bitsLeftToRead,  \* bits the current field still lacks
  rawresult,       \* its bits so far
  result

vars == <<call, pc, index, i, bitsLeft, curByte, bitsLeftToRead, rawresult, result>>

Init ==
  /\ call \in Inputs
  /\ pc = "value"
  /\ index = call.from
  /\ i = 0
  /\ bitsLeft = 0
  /\ curByte = Nothing
  /\ bitsLeftToRead = 0
  /\ rawresult = 0
  /\ result = <<>>

Fetch ==
  /\ curByte' = call.data[index + 1]
  /\ index' = index + 1
  /\ bitsLeft' = 8

\* (faulty variant of StartField: every field starts on a byte of its own)
StartField_Aligned ==
  /\ pc = "value" /\ i < call.len
  /\ rawresult' = 0
  /\ bitsLeftToRead' = call.fb
  /\ Fetch
  /\ pc' = "bits"
  /\ UNCHANGED <<call, i, result>>

\* (faulty variant of StartField: one field too many)
StartField_OneMore ==
  /\ pc = "value" /\ i <= call.len
  /\ rawresult' = 0
  /\ bitsLeftToRead' = call.fb
  /\ IF bitsLeft = 0 THEN Fetch ELSE UNCHANGED <<curByte, index, bitsLeft>>
  /\ pc' = "bits"
  /\ UNCHANGED <<call, i, result>>

\* The head of the for loop: a byte is fetched only if none is open.
StartField ==
  /\ pc = "value" /\ i < call.len
  /\ rawresult' = 0
  /\ bitsLeftToRead' = call.fb
  /\ IF bitsLeft = 0 THEN Fetch ELSE UNCHANGED <<curByte, index, bitsLeft>>
  /\ pc' = "bits"
  /\ UNCHANGED <<call, i, result>>

\* (faulty variant of TakeByte: the last bits of a byte are fetched past)
TakeByte_AtEnd ==
  /\ pc = "bits" /\ bitsLeftToRead >= bitsLeft
  /\ rawresult' = (rawresult * 2^bitsLeft + (curByte % 2^bitsLeft)) % Modulus
  /\ bitsLeftToRead' = bitsLeftToRead - bitsLeft
  /\ Fetch
  /\ UNCHANGED <<call, pc, i, result>>

\* (faulty variant of TakeByte: what was taken is not counted, nor the byte left)
TakeByte_Uncounted ==
  /\ pc = "bits" /\ bitsLeftToRead > bitsLeft
  /\ rawresult' = (rawresult * 2^bitsLeft + (curByte % 2^bitsLeft)) % Modulus
  /\ UNCHANGED <<call, pc, index, i, bitsLeft, curByte, bitsLeftToRead, result>>

\* The while loop: the rest of the byte belongs to the field, which goes on.
TakeByte ==
  /\ pc = "bits" /\ bitsLeftToRead > bitsLeft
  /\ rawresult' = (rawresult * 2^bitsLeft + (curByte % 2^bitsLeft)) % Modulus
  /\ bitsLeftToRead' = bitsLeftToRead - bitsLeft
  /\ Fetch
  /\ UNCHANGED <<call, pc, i, result>>

\* The numbers of the result type.
Numbers == -(Modulus \div 2) .. Modulus \div 2 - 1

\* The value of W bits as the result type holds it.
Value(u) ==
  IF call.issigned
    THEN IF u % 2 = 0 THEN u \div 2 ELSE -(u \div 2) - 1
    ELSE IF u < Modulus \div 2 THEN u ELSE u - Modulus

\* (faulty variant of TakeRest: the bits are taken from the low end)
TakeRest_LowBits ==
  /\ pc = "bits" /\ bitsLeftToRead <= bitsLeft
  /\ bitsLeft' = bitsLeft - bitsLeftToRead
  /\ rawresult' = (rawresult * 2^bitsLeftToRead + (curByte % 2^bitsLeftToRead)) % Modulus
  /\ result' = Append(result, Value(rawresult'))
  /\ i' = i + 1
  /\ pc' = "value"
  /\ UNCHANGED <<call, index, curByte, bitsLeftToRead>>

\* The field ends in this byte: its last bits are the highest of those left.
TakeRest ==
  /\ pc = "bits" /\ bitsLeftToRead <= bitsLeft
  /\ bitsLeft' = bitsLeft - bitsLeftToRead
  /\ rawresult' = (rawresult * 2^bitsLeftToRead
                     + ((curByte \div 2^(bitsLeft')) % 2^bitsLeftToRead)) % Modulus
  /\ result' = Append(result, Value(rawresult'))
  /\ i' = i + 1
  /\ pc' = "value"
  /\ UNCHANGED <<call, index, curByte, bitsLeftToRead>>

Ended ==
  /\ pc = "value" /\ i = call.len
  /\ UNCHANGED vars

Loop == StartField \/ TakeByte \/ TakeRest

Next == Loop \/ Ended

Spec == Init /\ [][Next]_vars

FairSpec == Spec /\ WF_vars(Loop)
-----------------------------------------------------------------------------
(***************************************************************************)
(* Properties                                                              *)
(***************************************************************************)
TypeOK ==
  /\ call \in Inputs
  /\ pc \in {"value", "bits"}
  /\ index \in Nat
  /\ i \in 0 .. call.len
  /\ bitsLeft \in 0 .. 8
  /\ curByte \in (0 .. 255) \cup {Nothing}
  /\ bitsLeftToRead \in 0 .. 64
  /\ rawresult \in 0 .. Modulus - 1
  /\ result \in Seq(Numbers)

\* The bits fetched are those of the fields done, those the current field has
\* so far, and those left in the open byte.
BitsAccounted ==
  8 * (index - call.from) =
    i * call.fb + (IF pc = "bits" THEN call.fb - bitsLeftToRead ELSE 0) + bitsLeft

\* The bytes the fields of the call occupy.
PackedBytes == CeilDiv(call.len * call.fb, 8)

\* No byte is fetched that holds no bit of the fields, so the stream is never
\* read past its end.
FetchesOnlyItsBytes == index <= call.from + PackedBytes

\* When the loop ends, index stands right behind the fields: the next run or
\* the patch list of this one is decoded from there.
EndsInStep == i = call.len => index = call.from + PackedBytes

\* Field k, bit by bit from the place the format gives it.
BitAt(n) == (call.data[n \div 8 + 1] \div 2^(7 - (n % 8))) % 2

FieldStart(k) == 8 * call.from + (k - 1) * call.fb

\* The number that the first b bits of field k make, for every b.
FirstBits(k) ==
  LET f[b \in 0 .. call.fb] ==
        IF b = 0 THEN 0 ELSE (2 * f[b-1] + BitAt(FieldStart(k) + b - 1)) % Modulus
  IN f

FieldBits(k) == FirstBits(k)[call.fb]

\* Every number is the field of its place, no matter how the fields before it
\* and the bytes divide it.
FieldsDecoded == \A k \in 1 .. Len(result) : result[k] = Value(FieldBits(k))

\* The loop ends: each turn of the inner loop takes at least one bit.
LoopEnds == <>(i = call.len)
=============================================================================
