--------------------------- MODULE ReadLongs_proofs ---------------------------
(***************************************************************************)
(* The bits and bytes readLongs consumes and the numbers it makes of them, *)
(* for every width of the fields, every number of fields, every stream and *)
(* each of the four integer types.                                         *)
(***************************************************************************)
EXTENDS ReadLongs, WellFoundedInduction, TLAPS

IndexType ==
  /\ call \in Inputs
  /\ pc \in {"value", "bits"}
  /\ index \in Nat
  /\ i \in 0 .. call.len
  /\ bitsLeft \in 0 .. 8
  /\ bitsLeftToRead \in 0 .. 64

\* Between two fields at least one bit of the open byte is used; inside a
\* field there is an open byte and something left to read.
LoopInv ==
  /\ pc = "value" => bitsLeft < 8
  /\ pc = "bits" => /\ i < call.len
                    /\ bitsLeft > 0
                    /\ bitsLeftToRead \in 1 .. call.fb

IInv == IndexType /\ LoopInv /\ BitsAccounted

\* The arguments of a call have the types of the C++ signature.
LEMMA CallType ==
  ASSUME NEW c \in Inputs
  PROVE  c.from \in Nat /\ c.fb \in 1 .. 64 /\ c.len \in Nat
  BY ReadLongsAssumption DEF Call

\* The bits of n fields and one more.
LEMMA OneMoreField ==
  ASSUME NEW n \in Nat, NEW b \in Nat
  PROVE  (n + 1) * b = n * b + b /\ n * b \in Nat /\ 0 * b = 0
  BY SMT

\* A field that is not the last ends within the bits of all fields.
LEMMA FieldsBelow ==
  ASSUME NEW n \in Nat, NEW len \in Nat, NEW b \in Nat, n < len
  PROVE  n * b + b <= len * b
<1>1. len = (n + 1) + (len - (n + 1)) /\ len - (n + 1) \in Nat
  OBVIOUS
<1>2. PICK d \in Nat : len = (n + 1) + d
  BY <1>1
<1>3. len * b = (n + 1) * b + d * b /\ d * b >= 0
  BY <1>2
<1>4. QED
  BY <1>3, OneMoreField

\* The invariant holds where readLongs sets up its locals.
LEMMA InitIInv == Init => IInv
<1>1. SUFFICES ASSUME Init PROVE IInv
  OBVIOUS
<1>2. call.from \in Nat /\ call.fb \in 1 .. 64 /\ call.len \in Nat
  BY <1>1, CallType DEF Init
<1>3. IndexType /\ LoopInv
  BY <1>1, <1>2 DEF Init, IndexType, LoopInv
<1>4. BitsAccounted
  <2>1. call.fb \in Nat /\ 0 \in Nat
    BY <1>2
  <2>2. 0 * call.fb = 0
    BY <2>1, OneMoreField
  <2>3. index - call.from = 0 /\ i * call.fb = 0 /\ bitsLeft = 0 /\ pc # "bits"
    BY <1>1, <1>2, <2>2 DEF Init
  <2>4. QED
    BY <2>3 DEF BitsAccounted
<1>5. QED
  BY <1>3, <1>4 DEF IInv

\* Each turn of the two loops of readLongs keeps the invariant.
LEMMA StepIInv == IInv /\ [Next]_vars => IInv'
<1>1. SUFFICES ASSUME IInv, [Next]_vars PROVE IInv'
  OBVIOUS
<1>2. call.from \in Nat /\ call.fb \in 1 .. 64 /\ call.len \in Nat
  BY <1>1, CallType DEF IInv, IndexType
<1>a. /\ i \in Nat /\ index \in Nat /\ bitsLeft \in 0 .. 8 /\ bitsLeftToRead \in 0 .. 64
      /\ i * call.fb \in Nat /\ (i + 1) * call.fb = i * call.fb + call.fb
  <2>1. i \in Nat /\ index \in Nat /\ bitsLeft \in 0 .. 8 /\ bitsLeftToRead \in 0 .. 64
    BY <1>1, <1>2 DEF IInv, IndexType
  <2>2. call.fb \in Nat
    BY <1>2
  <2>3. QED
    BY <2>1, <2>2, OneMoreField
<1>3. CASE StartField
  <2>1. /\ pc = "value" /\ pc' = "bits" /\ i < call.len /\ i' = i /\ call' = call
        /\ bitsLeftToRead' = call.fb
        /\ \/ bitsLeft = 0 /\ index' = index + 1 /\ bitsLeft' = 8
           \/ bitsLeft # 0 /\ index' = index /\ bitsLeft' = bitsLeft
    BY <1>3 DEF StartField, Fetch
  <2>2. IndexType' /\ LoopInv'
    BY <1>1, <1>2, <1>a, <2>1 DEF IInv, IndexType, LoopInv
  <2>3. 8 * (index - call.from) = i * call.fb + 0 + bitsLeft
    BY <1>1, <2>1 DEF IInv, BitsAccounted
  <2>4. 8 * (index' - call.from) = i * call.fb + (call.fb - call.fb) + bitsLeft'
    BY <1>2, <1>a, <2>1, <2>3
  <2>5. QED
    BY <2>1, <2>2, <2>4 DEF IInv, BitsAccounted
<1>4. CASE TakeByte
  <2>1. /\ pc = "bits" /\ pc' = pc /\ i' = i /\ call' = call
        /\ bitsLeftToRead > bitsLeft /\ bitsLeftToRead' = bitsLeftToRead - bitsLeft
        /\ index' = index + 1 /\ bitsLeft' = 8
    BY <1>4 DEF TakeByte, Fetch
  <2>2. IndexType' /\ LoopInv'
    BY <1>1, <1>2, <1>a, <2>1 DEF IInv, IndexType, LoopInv
  <2>3. 8 * (index - call.from) = i * call.fb + (call.fb - bitsLeftToRead) + bitsLeft
    BY <1>1, <2>1 DEF IInv, BitsAccounted
  <2>a. index \in Nat /\ bitsLeft \in Nat /\ bitsLeftToRead \in Nat /\ i * call.fb \in Nat
    BY <1>a
  <2>b. ASSUME NEW p \in Nat,
               8 * (index - call.from) = p + (call.fb - bitsLeftToRead) + bitsLeft
        PROVE  8 * ((index + 1) - call.from)
                 = p + (call.fb - (bitsLeftToRead - bitsLeft)) + 8
    BY <1>2, <2>a, <2>b
  <2>4. 8 * ((index + 1) - call.from)
          = i * call.fb + (call.fb - (bitsLeftToRead - bitsLeft)) + 8
    BY <2>a, <2>b, <2>3
  <2>5. QED
    BY <2>1, <2>2, <2>4 DEF IInv, BitsAccounted
<1>5. CASE TakeRest
  <2>1. pc = "bits" /\ pc' = "value" /\ i' = i + 1 /\ call' = call /\ index' = index
        /\ bitsLeft' = bitsLeft - bitsLeftToRead /\ bitsLeftToRead' = bitsLeftToRead
        /\ bitsLeftToRead <= bitsLeft
    BY <1>5 DEF TakeRest
  <2>3. IndexType' /\ LoopInv'
    BY <1>1, <1>2, <1>a, <2>1 DEF IInv, IndexType, LoopInv
  <2>4. BitsAccounted'
    <3>1. 8 * (index - call.from) =
            i * call.fb + (call.fb - bitsLeftToRead) + bitsLeft
      BY <1>1, <2>1 DEF IInv, BitsAccounted
    <3>2. 8 * (index - call.from) = (i + 1) * call.fb + 0 + (bitsLeft - bitsLeftToRead)
      BY <1>2, <1>a, <3>1
    <3>3. QED
      BY <2>1, <3>2 DEF BitsAccounted
  <2>5. QED
    BY <2>3, <2>4 DEF IInv
<1>6. CASE Ended \/ UNCHANGED vars
  BY <1>1, <1>6 DEF Ended, vars, IInv, IndexType, LoopInv, BitsAccounted
<1>7. QED
  BY <1>1, <1>3, <1>4, <1>5, <1>6 DEF Next, Loop

\* The invariant holds throughout a call of readLongs, for every width, number
\* of fields and stream.
THEOREM Invariance == Spec => []IInv
<1>1. QED
  BY InitIInv, StepIInv, PTL DEF Spec

\* Every bit fetched is accounted for: readLongs loses none and uses none
\* twice, across all fields and bytes (the loops of RLE2.cpp:376-401).
THEOREM Accounted == Spec => []BitsAccounted
<1>1. IInv => BitsAccounted
  BY DEF IInv
<1>2. QED
  BY <1>1, Invariance, PTL

\* The bits used and left never exceed those of the fields by a whole byte.
LEMMA WithinFields ==
  ASSUME IInv
  PROVE  /\ 8 * (index - call.from) <= call.len * call.fb + 7
         /\ i = call.len => 8 * (index - call.from) >= call.len * call.fb
         /\ call.len * call.fb \in Nat
<1>1. call.from \in Nat /\ call.fb \in 1 .. 64 /\ call.len \in Nat
  BY CallType DEF IInv, IndexType
<1>2. i \in Nat /\ i * call.fb \in Nat /\ call.len * call.fb \in Nat
  <2>1. i \in Nat /\ call.fb \in Nat
    BY <1>1 DEF IInv, IndexType
  <2>2. QED
    BY <1>1, <2>1, OneMoreField
<1>3. CASE pc = "value"
  <2>1. 8 * (index - call.from) = i * call.fb + 0 + bitsLeft
    BY <1>3 DEF IInv, BitsAccounted
  <2>2. i * call.fb <= call.len * call.fb
    <3>1. CASE i = call.len
      BY <1>2, <3>1
    <3>2. CASE i < call.len
      BY <1>1, <1>2, <3>2, FieldsBelow
    <3>3. QED
      BY <1>1, <3>1, <3>2 DEF IInv, IndexType
  <2>3. QED
    BY <1>1, <1>2, <1>3, <2>1, <2>2 DEF IInv, IndexType, LoopInv
<1>4. CASE pc = "bits"
  <2>1. 8 * (index - call.from) = i * call.fb + (call.fb - bitsLeftToRead) + bitsLeft
    BY <1>4 DEF IInv, BitsAccounted
  <2>2. i < call.len
    BY <1>4 DEF IInv, LoopInv
  <2>3. i * call.fb + call.fb <= call.len * call.fb
    BY <1>1, <1>2, <2>2, FieldsBelow
  <2>4. bitsLeft \in 0 .. 8 /\ bitsLeftToRead \in 1 .. call.fb
    BY <1>4 DEF IInv, IndexType, LoopInv
  <2>5. ASSUME NEW p \in Nat, NEW all \in Nat, p + call.fb <= all
        PROVE  p + (call.fb - bitsLeftToRead) + bitsLeft <= all + 7
    BY <1>1, <2>4, <2>5
  <2>6. QED
    BY <1>1, <1>2, <2>1, <2>2, <2>3, <2>5
<1>5. QED
  BY <1>3, <1>4 DEF IInv, IndexType

\* So index stays within the bytes of the fields, and they within the stream.
LEMMA WithinStream ==
  ASSUME IInv
  PROVE  FetchesOnlyItsBytes /\ index <= Len(call.data)
<1>1. call.from \in Nat /\ index \in Nat /\ call \in Inputs
  BY CallType DEF IInv, IndexType
<1>2. Len(call.data) \in Nat
  BY <1>1, ReadLongsAssumption DEF Call
<1>3. 8 * call.from + call.len * call.fb <= 8 * Len(call.data)
  BY <1>1, ReadLongsAssumption
<1>. DEFINE m == call.len * call.fb
            l == Len(call.data)
<1>4. m \in Nat /\ 8 * (index - call.from) <= m + 7 /\ 8 * call.from + m <= 8 * l
  BY <1>3, WithinFields
<1>5. PackedBytes = (m + 8 - 1) \div 8
  BY DEF PackedBytes, CeilDiv
<1>. HIDE DEF m, l
<1>6. ASSUME NEW f \in Nat, NEW x \in Nat, NEW n \in Nat, NEW k \in Nat,
             8 * (x - f) <= n + 7, 8 * f + n <= 8 * k
      PROVE  x <= f + (n + 8 - 1) \div 8 /\ x <= k
  BY <1>6
<1>7. index <= call.from + (m + 8 - 1) \div 8 /\ index <= l
  BY <1>1, <1>2, <1>4, <1>6 DEF l
<1>. QED
  BY <1>5, <1>7 DEF FetchesOnlyItsBytes, l

\* readLongs fetches no byte beyond those its fields occupy, so it never reads
\* past a stream that holds the fields.
THEOREM NoOverread == Spec => [](FetchesOnlyItsBytes /\ index <= Len(call.data))
<1>1. QED
  BY WithinStream, Invariance, PTL

\* When readLongs returns, index is the first byte behind its fields: nextDirect,
\* nextPatched and nextDelta go on from there.
THEOREM InStep == Spec => []EndsInStep
<1>1. ASSUME IInv PROVE EndsInStep
  <2>1. call.from \in Nat /\ index \in Nat
    BY <1>1, CallType DEF IInv, IndexType
  <2>2. ASSUME NEW n \in Int, NEW m \in Nat, 8 * n <= m + 7, 8 * n >= m
        PROVE  n = (m + 8 - 1) \div 8
    BY <2>2
  <2>3. QED
    BY <1>1, <2>1, <2>2, WithinFields DEF EndsInStep, PackedBytes, CeilDiv
<1>2. QED
  BY <1>1, Invariance, PTL
-----------------------------------------------------------------------------
(***************************************************************************)
(* Arithmetic of shifts and masks.                                         *)
(***************************************************************************)
\* Induction over the numbers, as a fact about sets.
LEMMA SetInduction ==
  ASSUME NEW S, 0 \in S, \A n \in Nat : n \in S => n + 1 \in S
  PROVE  Nat \subseteq S
<1>. SUFFICES ASSUME Nat \ S # {} PROVE FALSE
  OBVIOUS
<1>. DEFINE R == {ss \in Nat \X Nat : ss[1] < ss[2]}
            T == Nat \ S
<1>1. R = OpToRel(<, Nat)
  BY DEF OpToRel
<1>2. IsWellFoundedOn(R, Nat)
  BY <1>1, NatLessThanWellFounded
<1>3. T \subseteq Nat /\ T # {}
  OBVIOUS
<1>4. PICK x \in T : \A y \in T : <<y, x>> \notin R
  <2>. HIDE DEF R, T
  <2>. QED
    BY <1>2, <1>3, WFMin
<1>5. x \in Nat /\ x # 0 /\ x - 1 \in Nat /\ x - 1 < x
  OBVIOUS
<1>6. x - 1 \notin T
  BY <1>4, <1>5
<1>7. (x - 1) + 1 \in S
  BY <1>5, <1>6
<1>. QED
  BY <1>5, <1>7

\* A quotient and a remainder that fit are the quotient and the remainder.
LEMMA Remainder ==
  ASSUME NEW m \in Nat, NEW q \in Nat, NEW r \in Nat, r < m
  PROVE  (m * q + r) % m = r
OBVIOUS

\* Powers of two of up to a byte.
LEMMA Powers ==
  ASSUME NEW j \in 0 .. 7
  PROVE  /\ 2^j \in {1, 2, 4, 8, 16, 32, 64, 128}
         /\ 2^(j + 1) = 2 * 2^j
<1>1. 2^0 = 1 /\ 2^1 = 2 /\ 2^2 = 4 /\ 2^3 = 8
  OBVIOUS
<1>2. 2^4 = 16 /\ 2^5 = 32 /\ 2^6 = 64 /\ 2^7 = 128 /\ 2^8 = 256
  OBVIOUS
<1>3. CASE j = 0
  <2>1. j + 1 = 1
    BY <1>3
  <2>. QED
    BY <1>1, <1>2, <1>3, <2>1
<1>4. CASE j = 1
  <2>1. j + 1 = 2
    BY <1>4
  <2>. QED
    BY <1>1, <1>2, <1>4, <2>1
<1>5. CASE j = 2
  <2>1. j + 1 = 3
    BY <1>5
  <2>. QED
    BY <1>1, <1>2, <1>5, <2>1
<1>6. CASE j = 3
  <2>1. j + 1 = 4
    BY <1>6
  <2>. QED
    BY <1>1, <1>2, <1>6, <2>1
<1>7. CASE j = 4
  <2>1. j + 1 = 5
    BY <1>7
  <2>. QED
    BY <1>1, <1>2, <1>7, <2>1
<1>8. CASE j = 5
  <2>1. j + 1 = 6
    BY <1>8
  <2>. QED
    BY <1>1, <1>2, <1>8, <2>1
<1>9. CASE j = 6
  <2>1. j + 1 = 7
    BY <1>9
  <2>. QED
    BY <1>1, <1>2, <1>9, <2>1
<1>10. CASE j = 7
  <2>1. j + 1 = 8
    BY <1>10
  <2>. QED
    BY <1>1, <1>2, <1>10, <2>1
<1>. QED
  BY <1>3, <1>4, <1>5, <1>6, <1>7, <1>8, <1>9, <1>10

\* Every number has a quotient and a remainder.
LEMMA Division ==
  ASSUME NEW m \in Nat \ {0}, NEW a \in Nat
  PROVE  \E q \in Nat : a = m * q + (a % m) /\ a % m \in Nat /\ a % m < m
<1>. DEFINE S == {x \in Nat : \E q \in Nat, r \in Nat : r < m /\ x = m * q + r}
<1>1. 0 \in S
  <2>1. 0 < m /\ 0 = m * 0 + 0
    OBVIOUS
  <2>. QED
    BY <2>1
<1>2. ASSUME NEW x \in S PROVE x + 1 \in S
  <2>1. PICK q \in Nat, r \in Nat : r < m /\ x = m * q + r
    OBVIOUS
  <2>2. CASE r + 1 < m
    <3>1. x + 1 = m * q + (r + 1) /\ r + 1 \in Nat
      BY <2>1
    <3>. QED
      BY <2>2, <3>1
  <2>3. CASE r + 1 = m
    <3>1. m * (q + 1) = m * q + m /\ q + 1 \in Nat
      OBVIOUS
    <3>2. x + 1 = m * (q + 1) + 0 /\ 0 < m /\ 0 \in Nat
      BY <2>1, <2>3, <3>1
    <3>3. \E k \in Nat, l \in Nat : l < m /\ x + 1 = m * k + l
      BY <3>1, <3>2, Zenon
    <3>4. x + 1 \in Nat
      OBVIOUS
    <3>. QED
      BY <3>3, <3>4, Zenon
  <2>. QED
    BY <2>1, <2>2, <2>3
<1>3. a \in S
  <2>. HIDE DEF S
  <2>. QED
    BY <1>1, <1>2, SetInduction
<1>4. PICK q \in Nat, r \in Nat : r < m /\ a = m * q + r
  BY <1>3
<1>. QED
  BY <1>4, Remainder

\* One more bit is taken into a number of few bits.
LEMMA OneMoreBit ==
  ASSUME NEW m \in Nat \ {0}, NEW d \in Nat
  PROVE  d % (2 * m) = 2 * ((d \div 2) % m) + (d % 2)
<1>. DEFINE e == d \div 2
            g == e % m
            r == d % 2
<1>1. d = 2 * e + r /\ e \in Nat /\ r \in 0 .. 1
  OBVIOUS
<1>. HIDE DEF e, r
<1>2. PICK f \in Nat : e = m * f + g /\ g \in Nat /\ g < m
  BY <1>1, Division
<1>. HIDE DEF g
<1>3. d = (2 * m) * f + (2 * g + r)
  BY <1>1, <1>2
<1>4. 2 * m \in Nat /\ 2 * g + r \in Nat /\ 2 * g + r < 2 * m
  BY <1>1, <1>2
<1>5. d % (2 * m) = 2 * g + r
  BY <1>2, <1>3, <1>4, Remainder
<1>. QED
  BY <1>5 DEF e, g, r

\* Halves of a byte's shifts.
LEMMA ShiftOnce ==
  ASSUME NEW c \in 0 .. 255, NEW j \in 0 .. 7
  PROVE  /\ c \div 2^(j + 1) = (c \div 2^j) \div 2
         /\ c \div 2^j \in Nat
<1>. DEFINE p == 2^j
<1>9. p \in {1, 2, 4, 8, 16, 32, 64, 128} /\ 2^(j + 1) = 2 * p
  BY Powers
<1>. SUFFICES c \div (2 * p) = (c \div p) \div 2 /\ c \div p \in Nat
  BY <1>9, Zenon
<1>. HIDE DEF p
<1>1. CASE p = 1
  BY <1>1
<1>2. CASE p = 2
  BY <1>2
<1>3. CASE p = 4
  BY <1>3
<1>4. CASE p = 8
  BY <1>4
<1>5. CASE p = 16
  BY <1>5
<1>6. CASE p = 32
  BY <1>6
<1>7. CASE p = 64
  BY <1>7
<1>8. CASE p = 128
  BY <1>8
<1>. QED
  BY <1>1, <1>2, <1>3, <1>4, <1>5, <1>6, <1>7, <1>8, <1>9

\* The values of half as many bits.
LEMMA HalfTheBits == 2^(W \div 2) \in {16, 256, 65536, 4294967296}
<1>. DEFINE half == 2^(W \div 2)
<1>1. half \in {16, 256, 65536, 4294967296}
  <2>1. CASE W = 8
    <3>1. W \div 2 = 4 /\ 2^4 = 16
      BY <2>1
    <3>2. \A n : n = 4 => 2^n = 16
      BY <3>1, SMT
    <3>. QED
      BY <3>1, <3>2, SMT
  <2>2. CASE W = 16
    <3>1. W \div 2 = 8 /\ 2^8 = 256
      BY <2>2
    <3>2. \A n : n = 8 => 2^n = 256
      BY <3>1, SMT
    <3>. QED
      BY <3>1, <3>2, SMT
  <2>3. CASE W = 32
    <3>1. W \div 2 = 16 /\ 2^16 = 65536
      BY <2>3
    <3>2. \A n : n = 16 => 2^n = 65536
      BY <3>1, SMT
    <3>. QED
      BY <3>1, <3>2, SMT
  <2>4. CASE W = 64
    <3>1. W \div 2 = 32 /\ 2^32 = 4294967296
      BY <2>4
    <3>2. \A n : n = 32 => 2^n = 4294967296
      BY <3>1, SMT
    <3>. QED
      BY <3>1, <3>2, SMT
  <2>. QED
    BY <2>1, <2>2, <2>3, <2>4, ReadLongsAssumption
<1>. QED
  BY <1>1

\* The type has values.
LEMMA ModulusType == Modulus \in Nat \ {0}
<1>. DEFINE half == 2^(W \div 2)
<1>1. half \in {16, 256, 65536, 4294967296}
  BY HalfTheBits
<1>2. Modulus = half * half
  BY DEF Modulus
<1>. HIDE DEF half
<1>. QED
  BY <1>1, <1>2

\* Half of them are negative in a signed type.
LEMMA ModulusHalf == Modulus \div 2 \in Nat \ {0} /\ Modulus = 2 * (Modulus \div 2)
<1>. DEFINE half == 2^(W \div 2)
<1>1. half \in {16, 256, 65536, 4294967296}
  BY HalfTheBits
<1>2. Modulus = half * half
  BY DEF Modulus
<1>. HIDE DEF half
<1>3. Modulus \in {256, 65536, 4294967296, 18446744073709551616}
  BY <1>1, <1>2
<1>. QED
  BY <1>3

\* A number cut to the type may take one bit more as if it had not been cut.
LEMMA CutOnce ==
  /\ 0 % Modulus = 0
  /\ \A a \in Nat : a % Modulus \in Nat /\ (a % Modulus) % Modulus = a % Modulus
  /\ \A a \in Nat, b \in Nat :
        (2 * (a % Modulus) + b) % Modulus = (2 * a + b) % Modulus
<1>1. 0 % Modulus = 0
  <2>1. Modulus * 0 + 0 = 0
    BY ModulusType
  <2>. QED
    BY <2>1, ModulusType, Remainder
<1>2. ASSUME NEW a \in Nat
      PROVE  a % Modulus \in Nat /\ (a % Modulus) % Modulus = a % Modulus
  <2>1. a % Modulus \in Nat /\ a % Modulus < Modulus
    BY ModulusType, Division
  <2>2. Modulus * 0 + (a % Modulus) = a % Modulus
    BY <2>1, ModulusType
  <2>. QED
    BY <2>1, <2>2, ModulusType, Remainder
<1>3. ASSUME NEW a \in Nat, NEW b \in Nat
      PROVE  (2 * (a % Modulus) + b) % Modulus = (2 * a + b) % Modulus
  <2>. DEFINE r == a % Modulus
              y == 2 * r + b
              t == y % Modulus
  <2>1. PICK q \in Nat : a = Modulus * q + r /\ r \in Nat
    BY ModulusType, Division
  <2>. HIDE DEF r
  <2>2. y \in Nat
    BY <2>1
  <2>3. PICK s \in Nat : y = Modulus * s + t /\ t \in Nat /\ t < Modulus
    <3>. HIDE DEF y
    <3>. QED
      BY <2>2, ModulusType, Division
  <2>. HIDE DEF t
  <2>4. PICK u \in Nat : 2 * a + b = Modulus * u + t
    <3>1. 2 * a + b = Modulus * (2 * q + s) + t /\ 2 * q + s \in Nat
      BY <2>1, <2>3, ModulusType DEF y
    <3>. QED
      BY <3>1, Zenon
  <2>5. (2 * a + b) % Modulus = t
    BY <2>3, <2>4, ModulusType, Remainder
  <2>. QED
    BY <2>5 DEF t, r
<1>. QED
  BY <1>1, <1>2, <1>3

\* The bits of a field make a number step by step.
LEMMA PrefixExists ==
  ASSUME NEW n \in Nat, NEW bit
  PROVE  \E g : g = [b \in 0 .. n |-> IF b = 0 THEN 0 ELSE (2 * g[b-1] + bit[b-1]) % Modulus]
<1>. DEFINE step(g, b) == IF b = 0 THEN 0 ELSE (2 * g[b-1] + bit[b-1]) % Modulus
            S == {m \in Nat : \E g : g = [b \in 0 .. m |-> step(g, b)]}
<1>1. 0 \in S
  <2>. DEFINE g == [b \in 0 .. 0 |-> 0]
  <2>1. g = [b \in 0 .. 0 |-> step(g, b)]
    OBVIOUS
  <2>. QED
    BY <2>1
<1>2. ASSUME NEW m \in Nat, m \in S PROVE m + 1 \in S
  <2>1. PICK g : g = [b \in 0 .. m |-> step(g, b)]
    BY <1>2
  <2>0. \A b \in 0 .. m : g[b] = step(g, b)
    <3>. DEFINE k == [b \in 0 .. m |-> step(g, b)]
    <3>1. \A b \in 0 .. m : k[b] = step(g, b)
      OBVIOUS
    <3>2. g = k
      BY <2>1
    <3>. HIDE DEF k
    <3>. QED
      BY <3>1, <3>2, Zenon
  <2>. DEFINE h == [b \in 0 .. m + 1 |-> IF b <= m THEN g[b] ELSE step(g, b)]
  <2>2. ASSUME NEW b \in 0 .. m + 1 PROVE h[b] = step(h, b)
    <3>1. CASE b = 0
      <4>1. g[b] = 0 /\ b <= m
        BY <2>0, <3>1
      <4>. QED
        BY <3>1, <4>1
    <3>2. CASE b # 0
      <4>1. b - 1 \in 0 .. m /\ b - 1 \in 0 .. m + 1
        BY <3>2
      <4>2. h[b-1] = g[b-1]
        BY <4>1
      <4>3. b <= m => g[b] = step(g, b)
        BY <2>0
      <4>4. h[b] = step(g, b)
        BY <4>3
      <4>. QED
        BY <3>2, <4>2, <4>4
    <3>. QED
      BY <3>1, <3>2
  <2>3. h = [b \in 0 .. m + 1 |-> step(h, b)]
    BY <2>2
  <2>. HIDE DEF h
  <2>4. \E k : k = [b \in 0 .. m + 1 |-> step(k, b)]
    BY <2>3, Zenon
  <2>5. m + 1 \in Nat
    OBVIOUS
  <2>. QED
    BY <2>4, <2>5, Zenon
<1>. HIDE DEF S
<1>3. n \in S
  BY <1>1, <1>2, SetInduction
<1>. QED
  BY <1>3 DEF S

\* ... and FirstBits is that number.
LEMMA FirstBitsStep ==
  ASSUME call \in Inputs, NEW k \in Nat \ {0}
  PROVE  /\ FirstBits(k)[0] = 0
         /\ \A b \in 0 .. call.fb - 1 :
              FirstBits(k)[b + 1] = (2 * FirstBits(k)[b] + BitAt(FieldStart(k) + b)) % Modulus
<1>. DEFINE bit == [b \in Nat |-> BitAt(FieldStart(k) + b)]
            step(g, b) == IF b = 0 THEN 0 ELSE (2 * g[b-1] + bit[b-1]) % Modulus
            F == FirstBits(k)
<1>1. call.fb \in Nat /\ FieldStart(k) \in Nat
  <2>1. call.from \in Nat /\ call.fb \in 1 .. 64 /\ k - 1 \in Nat
    BY ReadLongsAssumption DEF Call
  <2>2. (k - 1) * call.fb \in Nat
    BY <2>1
  <2>. QED
    BY <2>1, <2>2 DEF FieldStart
<1>2. PICK h : h = [b \in 0 .. call.fb |-> step(h, b)]
  <2>. HIDE DEF bit
  <2>. QED
    BY <1>1, PrefixExists
<1>3. \A g : [b \in 0 .. call.fb |-> step(g, b)]
              = [b \in 0 .. call.fb |->
                   IF b = 0 THEN 0 ELSE (2 * g[b-1] + BitAt(FieldStart(k) + b - 1)) % Modulus]
  <2>1. ASSUME NEW b \in 0 .. call.fb, b # 0 PROVE bit[b-1] = BitAt(FieldStart(k) + b - 1)
    <3>1. b - 1 \in Nat /\ FieldStart(k) + (b - 1) = FieldStart(k) + b - 1
      BY <1>1, <2>1
    <3>2. bit[b-1] = BitAt(FieldStart(k) + (b - 1))
      BY <3>1
    <3>. QED
      BY <3>1, <3>2
  <2>. HIDE DEF bit
  <2>. QED
    BY <2>1
<1>4. F = [b \in 0 .. call.fb |-> step(F, b)]
  <2>. DEFINE Q(g) == g = [b \in 0 .. call.fb |->
                   IF b = 0 THEN 0 ELSE (2 * g[b-1] + BitAt(FieldStart(k) + b - 1)) % Modulus]
  <2>1. F = CHOOSE g : Q(g)
    BY DEF FirstBits
  <2>2. Q(h)
    BY <1>2, <1>3
  <2>3. Q(F)
    <3>. HIDE DEF Q, F
    <3>. QED
      BY <2>1, <2>2
  <2>. HIDE DEF step, F
  <2>. QED
    BY <1>3, <2>3
<1>5. \A b \in 0 .. call.fb : F[b] = step(F, b)
  <2>. DEFINE G == [b \in 0 .. call.fb |-> step(F, b)]
  <2>1. \A b \in 0 .. call.fb : G[b] = step(F, b)
    OBVIOUS
  <2>2. F = G
    BY <1>4
  <2>. HIDE DEF F, G
  <2>. QED
    BY <2>1, <2>2, Zenon
<1>6. F[0] = 0
  <2>. HIDE DEF F
  <2>1. 0 \in 0 .. call.fb
    BY <1>1
  <2>. QED
    BY <1>5, <2>1
<1>7. ASSUME NEW b \in 0 .. call.fb - 1
      PROVE  F[b + 1] = (2 * F[b] + BitAt(FieldStart(k) + b)) % Modulus
  <2>1. b + 1 \in 0 .. call.fb /\ b + 1 # 0 /\ (b + 1) - 1 = b /\ b \in Nat
    BY <1>1
  <2>2. F[b + 1] = (2 * F[b] + bit[b]) % Modulus
    <3>. HIDE DEF F, bit
    <3>. QED
      BY <1>5, <2>1
  <2>3. bit[b] = BitAt(FieldStart(k) + b)
    BY <2>1
  <2>. QED
    BY <2>2, <2>3
<1>. QED
  BY <1>6, <1>7

\* The bits of an open byte, from the highest of those left.
LEMMA BitOfByte ==
  ASSUME NEW x \in Nat \ {0}, NEW left \in 1 .. 8
  PROVE  BitAt(8 * x - left) = (call.data[x] \div 2^(left - 1)) % 2
<1>1. (8 * x - left) \div 8 = x - 1 /\ (8 * x - left) % 8 = 8 - left
  OBVIOUS
<1>2. ((8 * x - left) \div 8) + 1 = x /\ 7 - ((8 * x - left) % 8) = left - 1
  BY <1>1
<1>. QED
  BY <1>2 DEF BitAt

\* The stream's element x is a byte.
IsByte(x) == call.data[x] \in 0 .. 255

\* What the stream is made of.
LEMMA CallBytes ==
  ASSUME call \in Inputs
  PROVE  /\ call.fb \in Nat
         /\ \A x \in 1 .. Len(call.data) : call.data[x] \in 0 .. 255
         /\ \A x \in 1 .. Len(call.data) : IsByte(x)
<1>1. call.data \in Seq(0 .. 255)
  BY ReadLongsAssumption DEF Call
<1>2. call.fb \in 1 .. 64
  BY ReadLongsAssumption DEF Call
<1>3. ASSUME NEW T, NEW s \in Seq(T), NEW z \in 1 .. Len(s) PROVE s[z] \in T
  BY <1>3
<1>4. call.fb \in Nat
  BY <1>2
<1>5. \A x \in 1 .. Len(call.data) : call.data[x] \in 0 .. 255
  BY <1>1, <1>3
<1>. QED
  BY <1>4, <1>5 DEF IsByte

\* With the first n bits of field k, and t more of byte x of the stream, of which
\* left bits are left, its first n + t bits are made.
Gathers(k, n, x, left, t) ==
  /\ FirstBits(k)[n + t] =
       (FirstBits(k)[n] * 2^t + ((call.data[x] \div 2^(left - t)) % 2^t)) % Modulus
  /\ FirstBits(k)[n + t] \in Nat
  /\ FirstBits(k)[n + t] % Modulus = FirstBits(k)[n + t]

\* As many bits as are wanted of an open byte go to the field at once.
LEMMA Gathered ==
  ASSUME call \in Inputs, NEW k \in Nat \ {0}, NEW n \in Nat,
         NEW x \in 1 .. Len(call.data), NEW left \in 1 .. 8, NEW t \in 0 .. left,
         n + t <= call.fb, FieldStart(k) + n = 8 * x - left, FieldStart(k) \in Nat,
         FirstBits(k)[n] \in Nat, FirstBits(k)[n] % Modulus = FirstBits(k)[n]
  PROVE  Gathers(k, n, x, left, t)
<1>. DEFINE F == FirstBits(k)
            c == call.data[x]
            A(j) == F[n] * 2^j + ((c \div 2^(left - j)) % 2^j)
            S == {j \in Nat : j <= t => F[n + j] = A(j) % Modulus /\ A(j) \in Nat}
<1>. HIDE DEF F, c
<1>0. c \in 0 .. 255 /\ call.fb \in Nat /\ F[n] \in Nat /\ F[n] % Modulus = F[n]
  <2>1. c \in 0 .. 255 /\ call.fb \in Nat
    BY CallBytes DEF c
  <2>2. F[n] \in Nat /\ F[n] % Modulus = F[n]
    BY DEF F
  <2>. QED
    BY <2>1, <2>2
<1>1. 0 \in S
  <2>1. 2^0 = 1 /\ left - 0 \in 1 .. 8 /\ n + 0 = n
    OBVIOUS
  <2>2. c \div 2^left \in Nat
    <3>1. left - 1 \in 0 .. 7 /\ (left - 1) + 1 = left
      OBVIOUS
    <3>2. c \div 2^left = (c \div 2^(left - 1)) \div 2 /\ c \div 2^(left - 1) \in Nat
      BY <1>0, <3>1, ShiftOnce
    <3>. QED
      BY <3>2
  <2>3. A(0) = F[n]
    <3>1. left - 0 = left
      OBVIOUS
    <3>2. ASSUME NEW x1 \in Nat PROVE x1 % 1 = 0
      OBVIOUS
    <3>3. (c \div 2^left) % 1 = 0
      BY <2>2, <3>2, Zenon
    <3>4. F[n] * 1 = F[n] /\ F[n] + 0 = F[n]
      BY <1>0
    <3>. QED
      BY <2>1, <3>1, <3>3, <3>4
  <2>. HIDE DEF A
  <2>. QED
    BY <1>0, <2>1, <2>3
<1>2. ASSUME NEW j \in Nat, j \in S PROVE j + 1 \in S
  <2>. SUFFICES ASSUME j + 1 <= t PROVE F[n + (j + 1)] = A(j + 1) % Modulus /\ A(j + 1) \in Nat
    OBVIOUS
  <2>. DEFINE d == c \div 2^(left - 1 - j)
              p == 2^j
  <2>1. j \in 0 .. 7 /\ left - 1 - j \in 0 .. 7 /\ (left - 1 - j) + 1 = left - j /\ left - (j + 1) = left - 1 - j
    OBVIOUS
  <2>2. p \in {1, 2, 4, 8, 16, 32, 64, 128} /\ 2^(j + 1) = 2 * p
    BY <2>1, Powers
  <2>3. c \div 2^(left - j) = d \div 2 /\ d \in Nat
    BY <1>0, <2>1, ShiftOnce
  <2>4. F[n + j] = A(j) % Modulus /\ A(j) \in Nat
    BY <1>2
  <2>5. F[n + (j + 1)] = (2 * F[n + j] + (d % 2)) % Modulus
    <3>1. n + j \in 0 .. call.fb - 1 /\ (n + j) + 1 = n + (j + 1)
      BY <1>0, <2>1
    <3>2. F[(n + j) + 1] = (2 * F[n + j] + BitAt(FieldStart(k) + (n + j))) % Modulus
      BY <3>1, FirstBitsStep DEF F
    <3>3. FieldStart(k) + (n + j) = 8 * x - (left - j) /\ left - j \in 1 .. 8 /\ x \in Nat \ {0}
          /\ (left - j) - 1 = left - 1 - j
      BY <2>1
    <3>4. BitAt(FieldStart(k) + (n + j)) = d % 2
      BY <3>3, BitOfByte DEF c
    <3>. QED
      BY <3>1, <3>2, <3>4
  <2>6. A(j) = F[n] * p + ((d \div 2) % p)
    BY <2>3
  <2>7. A(j + 1) = F[n] * (2 * p) + (d % (2 * p))
    BY <2>1, <2>2
  <2>. HIDE DEF d, p, A
  <2>8. d % (2 * p) = 2 * ((d \div 2) % p) + (d % 2)
    <3>1. p \in Nat \ {0}
      BY <2>2
    <3>. QED
      BY <2>3, <3>1, OneMoreBit
  <2>a. d % 2 \in Nat
    BY <2>3
  <2>9. (d \div 2) % p \in Nat
    BY <2>2, <2>3
  <2>10. A(j + 1) = 2 * A(j) + (d % 2)
    <3>1. ASSUME NEW f \in Nat, NEW pp \in Nat, NEW y \in Nat, NEW b \in Nat
          PROVE  f * (2 * pp) + (2 * y + b) = 2 * (f * pp + y) + b
      OBVIOUS
    <3>2. PICK f \in Nat : f = F[n]
      BY <1>0
    <3>3. PICK y \in Nat : y = (d \div 2) % p
      BY <2>9
    <3>4. PICK b \in Nat : b = d % 2
      BY <2>a
    <3>5. p \in Nat
      BY <2>2
    <3>6. A(j) = f * p + y /\ A(j + 1) = f * (2 * p) + (2 * y + b)
      BY <2>6, <2>7, <2>8, <3>2, <3>3, <3>4
    <3>. QED
      BY <3>1, <3>4, <3>5, <3>6
  <2>11. F[n + (j + 1)] = (2 * A(j) + (d % 2)) % Modulus
    <3>1. PICK a \in Nat : a = A(j)
      BY <2>4
    <3>2. PICK b \in Nat : b = d % 2
      BY <2>a
    <3>3. F[n + (j + 1)] = (2 * (a % Modulus) + b) % Modulus
      BY <2>4, <2>5, <3>1, <3>2
    <3>. QED
      BY <3>1, <3>2, <3>3, CutOnce
  <2>. QED
    <3>1. ASSUME NEW a \in Nat, NEW b \in Nat PROVE 2 * a + b \in Nat
      <4>. HIDE DEF S
      <4>. QED
        OBVIOUS
    <3>2. 2 * A(j) + (d % 2) \in Nat
      BY <2>4, <2>a, <3>1
    <3>. QED
      BY <2>10, <2>11, <3>2
<1>. HIDE DEF S
<1>3. t \in S
  <2>1. Nat \subseteq S
    BY <1>1, <1>2, SetInduction
  <2>. QED
    BY <2>1
<1>4. F[n + t] = A(t) % Modulus /\ A(t) \in Nat
  BY <1>3 DEF S
<1>5. F[n + t] \in Nat /\ F[n + t] % Modulus = F[n + t]
  <2>. HIDE DEF A
  <2>. QED
    BY <1>4, CutOnce
<1>. QED
  BY <1>4, <1>5 DEF F, c, Gathers

-----------------------------------------------------------------------------
(***************************************************************************)
(* The numbers.                                                            *)
(***************************************************************************)
\* The values of W bits are numbers of the result type.
LEMMA ValueType == \A u \in 0 .. Modulus - 1 : Value(u) \in Numbers
<1>. DEFINE h == Modulus \div 2
<1>1. h \in Nat \ {0} /\ Modulus = 2 * h
  BY ModulusHalf
<1>2. ASSUME NEW u \in 0 .. Modulus - 1 PROVE Value(u) \in -h .. h - 1
  <2>. HIDE DEF h
  <2>1. u \in Nat /\ u <= 2 * h - 1
    BY <1>1
  <2>2. u % 2 = 0 => u \div 2 \in -h .. h - 1
    BY <1>1, <2>1
  <2>3. -(u \div 2) - 1 \in -h .. h - 1
    BY <1>1, <2>1
  <2>4. u < h => u \in -h .. h - 1
    BY <1>1, <2>1
  <2>5. ~(u < h) => u - 2 * h \in -h .. h - 1
    BY <1>1, <2>1
  <2>6. Value(u) = IF call.issigned THEN (IF u % 2 = 0 THEN u \div 2 ELSE -(u \div 2) - 1)
                   ELSE (IF u < h THEN u ELSE u - 2 * h)
    BY <1>1 DEF Value, h
  <2>. QED
    BY <2>2, <2>3, <2>4, <2>5, <2>6
<1>. QED
  BY <1>2 DEF Numbers

\* A number that is its own remainder is one of W bits.
LEMMA WithinModulus ==
  ASSUME NEW x \in Nat, x % Modulus = x
  PROVE  x \in 0 .. Modulus - 1
<1>1. Modulus \in Nat \ {0}
  BY ModulusType
<1>. QED
  BY <1>1, Division

\* While a byte is open, curByte is the one index stands behind; the field being
\* read is so far the number its first bits make; the fields before it are done.
ValueInv ==
  /\ curByte \in (0 .. 255) \cup {Nothing}
  /\ pc = "bits" \/ bitsLeft > 0 => index > 0 /\ curByte = call.data[index]
  /\ rawresult \in Nat /\ rawresult % Modulus = rawresult
  /\ pc = "bits" => \A k : k = i + 1 => rawresult = FirstBits(k)[call.fb - bitsLeftToRead]
  /\ result \in Seq(Numbers) /\ Len(result) = i
  /\ \A k \in 1 .. i : result[k] = Value(FieldBits(k))

\* What the fields are does not change while they are read.
LEMMA SameFields ==
  ASSUME call' = call
  PROVE  /\ \A k : FirstBits(k)' = FirstBits(k)
         /\ \A k : Value(FieldBits(k))' = Value(FieldBits(k))
<1>1. \A n : BitAt(n)' = BitAt(n)
  BY DEF BitAt
<1>2. \A k : FieldStart(k)' = FieldStart(k)
  BY DEF FieldStart
<1>3. \A k : FirstBits(k)' = FirstBits(k)
  BY DEF FirstBits, FieldStart, BitAt
<1>4. \A k : FieldBits(k)' = FieldBits(k)
  BY <1>3 DEF FieldBits
<1>5. \A u : Value(u)' = Value(u)
  BY DEF Value
<1>6. \A k : Value(FieldBits(k))' = Value(FieldBits(k))
  BY <1>4 DEF Value
<1>. QED
  BY <1>3, <1>6

\* The same place counted from the start of the stream.
LEMMA SamePlace ==
  ASSUME NEW f \in Nat, NEW p \in Nat, NEW x \in Nat, NEW n \in Nat, NEW left \in Nat,
         8 * (x - f) = p + n + left
  PROVE  8 * f + p \in Nat /\ (8 * f + p) + n = 8 * x - left
OBVIOUS

\* Where the next bit of the stream is, in the open byte and in the field.
LEMMA Position ==
  ASSUME IInv, pc = "bits"
  PROVE  /\ FieldStart(i + 1) \in Nat /\ i + 1 \in Nat \ {0}
         /\ call.fb - bitsLeftToRead \in Nat /\ bitsLeft \in 1 .. 8
         /\ FieldStart(i + 1) + (call.fb - bitsLeftToRead) = 8 * index - bitsLeft
<1>1. call.from \in Nat /\ call.fb \in 1 .. 64 /\ i \in Nat /\ index \in Nat
  BY CallType DEF IInv, IndexType
<1>2. bitsLeft \in 1 .. 8 /\ bitsLeftToRead \in 1 .. call.fb
  BY DEF IInv, IndexType, LoopInv
<1>3. i * call.fb \in Nat
  <2>1. call.fb \in Nat
    BY <1>1
  <2>. QED
    BY <1>1, <2>1, OneMoreField
<1>4. FieldStart(i + 1) = 8 * call.from + i * call.fb
  <2>1. (i + 1) - 1 = i
    BY <1>1
  <2>. QED
    BY <2>1 DEF FieldStart
<1>5. 8 * (index - call.from) = i * call.fb + (call.fb - bitsLeftToRead) + bitsLeft
  BY DEF IInv, BitsAccounted
<1>7. i + 1 \in Nat \ {0} /\ call.fb - bitsLeftToRead \in Nat /\ bitsLeft \in Nat
  BY <1>1, <1>2
<1>8. /\ 8 * call.from + i * call.fb \in Nat
      /\ (8 * call.from + i * call.fb) + (call.fb - bitsLeftToRead) = 8 * index - bitsLeft
  <2>. DEFINE p == i * call.fb
              n == call.fb - bitsLeftToRead
  <2>1. p \in Nat /\ n \in Nat /\ 8 * (index - call.from) = p + n + bitsLeft
    BY <1>3, <1>5, <1>7
  <2>. HIDE DEF p, n
  <2>2. 8 * call.from + p \in Nat /\ (8 * call.from + p) + n = 8 * index - bitsLeft
    BY <1>1, <1>7, <2>1, SamePlace
  <2>. QED
    BY <2>2 DEF p, n
<1>. QED
  BY <1>2, <1>4, <1>7, <1>8

\* The bits taken of the open byte are the next ones of the field.
LEMMA Taken ==
  ASSUME IInv, ValueInv, pc = "bits", NEW t \in 0 .. bitsLeft, t <= bitsLeftToRead
  PROVE  LET v == (rawresult * 2^t + ((curByte \div 2^(bitsLeft - t)) % 2^t)) % Modulus
         IN  /\ v = FirstBits(i + 1)[(call.fb - bitsLeftToRead) + t]
             /\ v \in Nat /\ v % Modulus = v
<1>. DEFINE n == call.fb - bitsLeftToRead
<1>1. call \in Inputs /\ index \in 1 .. Len(call.data)
  BY WithinStream DEF IInv, IndexType, ValueInv
<1>2. /\ FieldStart(i + 1) \in Nat /\ i + 1 \in Nat \ {0} /\ n \in Nat /\ bitsLeft \in 1 .. 8
      /\ FieldStart(i + 1) + n = 8 * index - bitsLeft
  BY Position
<1>3. n + t <= call.fb
  BY CallBytes, <1>1 DEF IInv, IndexType
<1>4. /\ FirstBits(i + 1)[n] = rawresult /\ rawresult \in Nat /\ rawresult % Modulus = rawresult
      /\ curByte = call.data[index]
  BY DEF ValueInv
<1>. HIDE DEF n
<1>5. /\ FirstBits(i + 1)[n + t] =
           (FirstBits(i + 1)[n] * 2^t + ((call.data[index] \div 2^(bitsLeft - t)) % 2^t)) % Modulus
      /\ FirstBits(i + 1)[n + t] \in Nat
      /\ FirstBits(i + 1)[n + t] % Modulus = FirstBits(i + 1)[n + t]
  <2>. DEFINE k == i + 1
  <2>1. /\ call \in Inputs /\ k \in Nat \ {0} /\ n \in Nat /\ index \in 1 .. Len(call.data)
        /\ bitsLeft \in 1 .. 8 /\ t \in 0 .. bitsLeft /\ n + t <= call.fb
        /\ FieldStart(k) + n = 8 * index - bitsLeft /\ FieldStart(k) \in Nat
        /\ FirstBits(k)[n] \in Nat /\ FirstBits(k)[n] % Modulus = FirstBits(k)[n]
    BY <1>1, <1>2, <1>3, <1>4
  <2>. HIDE DEF k
  <2>2. Gathers(k, n, index, bitsLeft, t)
    BY <2>1, Gathered
  <2>. QED
    BY <2>2 DEF k, Gathers
<1>. QED
  BY <1>4, <1>5 DEF n

\* Another number at the end.
LEMMA OneMore ==
  ASSUME NEW T, NEW s \in Seq(T), NEW x \in T
  PROVE  /\ Append(s, x) \in Seq(T) /\ Len(Append(s, x)) = Len(s) + 1
         /\ \A k \in 1 .. Len(s) : Append(s, x)[k] = s[k]
         /\ Append(s, x)[Len(s) + 1] = x
OBVIOUS

\* Each turn of the loops keeps the numbers right.
LEMMA StepValue ==
  ASSUME IInv, ValueInv, [Next]_vars
  PROVE  ValueInv'
<1>1. index' <= Len(call'.data)
  <2>1. IInv'
    BY StepIInv
  <2>2. (IInv => index <= Len(call.data))'
    BY WithinStream, PTL
  <2>. QED
    BY <2>1, <2>2
<1>2. /\ call \in Inputs /\ call.fb \in 1 .. 64 /\ index \in Nat /\ i \in Nat
      /\ bitsLeft \in 0 .. 8 /\ bitsLeftToRead \in 0 .. 64
  BY CallType DEF IInv, IndexType
<1>3. CASE StartField
  <2>1. /\ call' = call /\ i' = i /\ result' = result /\ pc' = "bits"
        /\ rawresult' = 0 /\ bitsLeftToRead' = call.fb
    BY <1>3 DEF StartField
  <2>2. curByte' \in (0 .. 255) \cup {Nothing} /\ index' > 0 /\ curByte' = call.data[index']
    <3>1. CASE bitsLeft = 0
      <4>1. index' = index + 1 /\ curByte' = call.data[index + 1]
        BY <1>3, <3>1 DEF StartField, Fetch
      <4>2. index' <= Len(call'.data)
        BY <1>1
      <4>. QED
        <5>1. index + 1 \in 1 .. Len(call.data)
          BY <1>2, <2>1, <4>1, <4>2
        <5>2. call.data[index + 1] \in 0 .. 255
          <6>1. IsByte(index + 1)
            BY <1>2, <5>1, CallBytes, Zenon
          <6>. QED
            BY <6>1 DEF IsByte
        <5>3. index' > 0
          BY <1>2, <4>1
        <5>. QED
          BY <4>1, <5>2, <5>3, Zenon
    <3>2. CASE bitsLeft # 0
      <4>1. index' = index /\ curByte' = curByte
        BY <1>3, <3>2 DEF StartField
      <4>. QED
        BY <1>2, <3>2, <4>1 DEF ValueInv
    <3>. QED
      BY <3>1, <3>2
  <2>3. rawresult' \in Nat /\ rawresult' % Modulus = rawresult'
    BY <2>1, CutOnce
  <2>4. \A k : k = i' + 1 => rawresult' = FirstBits(k)'[call'.fb - bitsLeftToRead']
    <3>1. FirstBits(i + 1)[0] = 0
      BY <1>2, FirstBitsStep
    <3>2. call'.fb - bitsLeftToRead' = 0
      BY <1>2, <2>1
    <3>3. \A k : FirstBits(k)' = FirstBits(k)
      BY <2>1, SameFields
    <3>. QED
      BY <2>1, <3>1, <3>2, <3>3
  <2>5. /\ result' \in Seq(Numbers) /\ Len(result') = i'
        /\ \A k \in 1 .. i' : result'[k] = Value(FieldBits(k))'
    BY <2>1, SameFields DEF ValueInv
  <2>6. curByte' = call'.data[index']
    BY <2>1, <2>2
  <2>. QED
    BY <2>1, <2>2, <2>3, <2>4, <2>5, <2>6 DEF ValueInv
<1>4. CASE TakeByte
  <2>1. /\ call' = call /\ i' = i /\ result' = result /\ pc = "bits" /\ pc' = pc
        /\ bitsLeftToRead > bitsLeft /\ bitsLeftToRead' = bitsLeftToRead - bitsLeft
        /\ index' = index + 1 /\ curByte' = call.data[index + 1]
    BY <1>4 DEF TakeByte, Fetch
  <2>2. curByte' \in (0 .. 255) \cup {Nothing} /\ index' > 0 /\ curByte' = call.data[index']
    <3>1. index' <= Len(call'.data)
      BY <1>1
    <3>. QED
      <4>1. index + 1 \in 1 .. Len(call.data)
        BY <1>2, <2>1, <3>1
      <4>2. call.data[index + 1] \in 0 .. 255
        <5>1. IsByte(index + 1)
          BY <1>2, <4>1, CallBytes, Zenon
        <5>. QED
          BY <5>1 DEF IsByte
      <4>3. index' > 0
        BY <1>2, <2>1
      <4>. QED
        BY <2>1, <4>2, <4>3, Zenon
  <2>3. /\ rawresult' = FirstBits(i + 1)[(call.fb - bitsLeftToRead) + bitsLeft]
        /\ rawresult' \in Nat /\ rawresult' % Modulus = rawresult'
    <3>1. bitsLeft \in 0 .. bitsLeft /\ bitsLeft <= bitsLeftToRead /\ bitsLeft - bitsLeft = 0
      BY <1>2, <2>1
    <3>2. curByte \div 2^0 = curByte
      <4>1. 2^0 = 1
        OBVIOUS
      <4>2. curByte \in 0 .. 255
        <5>1. index \in 1 .. Len(call.data) /\ curByte = call.data[index]
          BY <1>2, <2>1, WithinStream DEF ValueInv
        <5>. QED
          <6>1. IsByte(index)
            BY <1>2, <5>1, CallBytes, Zenon
          <6>. QED
            BY <5>1, <6>1 DEF IsByte
      <4>. QED
        BY <4>1, <4>2
    <3>3. rawresult' = (rawresult * 2^bitsLeft
                          + ((curByte \div 2^(bitsLeft - bitsLeft)) % 2^bitsLeft)) % Modulus
      BY <1>4, <3>1, <3>2 DEF TakeByte
    <3>. QED
      BY <2>1, <3>1, <3>3, Taken
  <2>4. call'.fb - bitsLeftToRead' = (call.fb - bitsLeftToRead) + bitsLeft
    <3>1. ASSUME NEW f \in 1 .. 64, NEW x \in 0 .. 64, NEW y \in 0 .. 8
          PROVE  f - (x - y) = (f - x) + y
      BY <3>1
    <3>2. call'.fb - bitsLeftToRead' = call.fb - (bitsLeftToRead - bitsLeft)
      BY <2>1
    <3>. QED
      BY <1>2, <3>1, <3>2
  <2>5. /\ result' \in Seq(Numbers) /\ Len(result') = i'
        /\ \A k \in 1 .. i' : result'[k] = Value(FieldBits(k))'
    BY <2>1, SameFields DEF ValueInv
  <2>. QED
    BY <2>1, <2>2, <2>3, <2>4, <2>5, SameFields DEF ValueInv
<1>5. CASE TakeRest
  <2>1. /\ call' = call /\ i' = i + 1 /\ pc = "bits" /\ pc' = "value"
        /\ bitsLeftToRead <= bitsLeft /\ bitsLeft' = bitsLeft - bitsLeftToRead
        /\ index' = index /\ curByte' = curByte
        /\ result' = Append(result, Value(rawresult'))
    BY <1>5 DEF TakeRest
  <2>2. /\ rawresult' = FieldBits(i + 1) /\ rawresult' \in Nat
        /\ rawresult' % Modulus = rawresult'
    <3>1. /\ bitsLeftToRead \in 0 .. bitsLeft /\ bitsLeftToRead <= bitsLeftToRead
          /\ (call.fb - bitsLeftToRead) + bitsLeftToRead = call.fb
      <4>1. ASSUME NEW a \in 0 .. 64, NEW b \in 0 .. 8, NEW f \in 1 .. 64, a <= b
            PROVE  a \in 0 .. b /\ a <= a /\ (f - a) + a = f
        BY <4>1
      <4>. QED
        BY <1>2, <2>1, <4>1
    <3>2. rawresult' = (rawresult * 2^bitsLeftToRead
                 + ((curByte \div 2^(bitsLeft - bitsLeftToRead)) % 2^bitsLeftToRead)) % Modulus
      BY <1>5, <2>1 DEF TakeRest
    <3>3. /\ rawresult' = FirstBits(i + 1)[(call.fb - bitsLeftToRead) + bitsLeftToRead]
          /\ rawresult' \in Nat /\ rawresult' % Modulus = rawresult'
      BY <2>1, <3>1, <3>2, Taken
    <3>. QED
      BY <3>1, <3>3 DEF FieldBits
  <2>3. Value(rawresult') = Value(FieldBits(i + 1)) /\ Value(rawresult') \in Numbers
    <3>1. rawresult' \in 0 .. Modulus - 1
      BY <2>2, WithinModulus
    <3>. QED
      BY <2>2, <3>1, ValueType
  <2>4. /\ result' \in Seq(Numbers) /\ Len(result') = i'
        /\ \A k \in 1 .. i : result'[k] = result[k]
        /\ result'[i + 1] = Value(FieldBits(i + 1))
    BY <2>1, <2>3, OneMore DEF ValueInv
  <2>5. \A k \in 1 .. i' : result'[k] = Value(FieldBits(k))
    <3>1. \A k \in 1 .. i : result'[k] = Value(FieldBits(k))
      BY <2>4 DEF ValueInv
    <3>2. \A k \in 1 .. i' : k \in 1 .. i \/ k = i + 1
      BY <1>2, <2>1
    <3>. QED
      BY <2>4, <3>1, <3>2
  <2>6. /\ result' \in Seq(Numbers) /\ \A k \in 1 .. i' : result'[k] = Value(FieldBits(k))'
    BY <2>1, <2>4, <2>5, SameFields
  <2>7. curByte' \in (0 .. 255) \cup {Nothing} /\ index' > 0 /\ curByte' = call'.data[index']
    BY <2>1 DEF ValueInv
  <2>. QED
    BY <2>1, <2>2, <2>4, <2>6, <2>7 DEF ValueInv
<1>6. CASE Ended \/ UNCHANGED vars
  <2>1. UNCHANGED vars
    BY <1>6 DEF Ended
  <2>. QED
    BY <2>1, SameFields DEF vars, ValueInv
<1>. QED
  BY <1>3, <1>4, <1>5, <1>6 DEF Next, Loop

\* Before the first field there is no byte and no number.
LEMMA InitValue == Init => ValueInv
<1>1. SUFFICES ASSUME Init PROVE ValueInv
  OBVIOUS
<1>2. <<>> \in Seq(Numbers) /\ Len(<<>>) = 0
  OBVIOUS
<1>3. 0 % Modulus = 0
  BY CutOnce
<1>. QED
  BY <1>1, <1>2, <1>3 DEF Init, ValueInv

\* The loops keep to their types (locals of RLE2.cpp:203-402): the bits of a
\* field never make more than the unsigned type holds, and every number stored
\* is one of the result type.
THEOREM TypesKept == Spec => []TypeOK
<1>1. IInv /\ ValueInv => TypeOK
  <2>1. ValueInv => rawresult \in 0 .. Modulus - 1
    BY WithinModulus DEF ValueInv
  <2>. QED
    BY <2>1 DEF IInv, IndexType, ValueInv, TypeOK
<1>2. IInv /\ ValueInv /\ [Next]_vars => ValueInv'
  BY StepValue
<1>. QED
  BY <1>1, <1>2, InitValue, Invariance, PTL DEF Spec

\* readLongs returns the numbers that were packed, for every width and number of
\* fields and all four types: however the bytes divide the fields, number k is
\* made of the bits the format gives it, and of no others.
THEOREM FieldsRight == Spec => []FieldsDecoded
<1>1. IInv /\ ValueInv => FieldsDecoded
  BY DEF ValueInv, FieldsDecoded
<1>2. IInv /\ ValueInv /\ [Next]_vars => ValueInv'
  BY StepValue
<1>. QED
  BY <1>1, <1>2, InitValue, Invariance, PTL DEF Spec
=============================================================================
