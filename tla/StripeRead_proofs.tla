--------------------------- MODULE StripeRead_proofs ---------------------------
(***************************************************************************)
(* The columns of a batch have room for the rows of every stripe and show  *)
(* the data that is theirs, whatever the stripes and their streams.  The   *)
(* buffers they are made of implement Vector (the last part).              *)
(***************************************************************************)
EXTENDS StripeRead, BufferUse, WellFoundedInduction, TLAPS

\* A set of numbers has a least one.
LEMMA Least ==
  ASSUME NEW S, S \subseteq Nat, S # {}
  PROVE  Min(S) \in S
<1>. DEFINE R == {ss \in Nat \X Nat : ss[1] < ss[2]}
<1>1. R = OpToRel(<, Nat)
  BY DEF OpToRel
<1>2. IsWellFoundedOn(R, Nat)
  BY <1>1, NatLessThanWellFounded
<1>3. \E x \in S : \A y \in S : <<y, x>> \notin R
  <2>. HIDE DEF R
  <2>. QED
    BY <1>2, WFMin
<1>4. \E x \in S : \A y \in S : x =< y
  <2>1. PICK x \in S : \A y \in S : <<y, x>> \notin R
    BY <1>3
  <2>2. ASSUME NEW y \in S PROVE x =< y
    <3>1. x \in Nat /\ y \in Nat /\ ~(y < x)
      BY <2>1, <2>2
    <3>. QED
      BY <3>1
  <2>. QED
    BY <2>2
<1>. QED
  BY <1>4 DEF Min

\* The stripes and their streams are what a footer says, and a column of the
\* batch has a number of bytes.
Types ==
  /\ stripes \in Tables /\ curStripe \in 0 .. Len(stripes)
  /\ rownumber \in Nat /\ col \in Nat \ {0}
  /\ pc \in {"idle", "read", "decode"}
  /\ pc # "idle" => col \in Column /\ curStripe \in 1 .. Len(stripes)
  /\ DOMAIN data = Column
  /\ \A c \in Column : data[c].capacity \in Nat

\* Every column has room for the rows of the stripe, or of the stripe before
\* the next one resizes it.
Roomy == \A c \in Column : data[c].capacity >= rownumber * RowBytes

Inv == Types /\ Roomy

\* resize gives what is asked for and takes nothing away.
LEMMA ResizeCapacity ==
  ASSUME NEW b, b.capacity \in Nat, NEW n \in Nat
  PROVE  /\ Resize(b, n).capacity \in Nat
         /\ Resize(b, n).capacity >= n /\ Resize(b, n).capacity >= b.capacity
<1>1. Resize(b, n).capacity = Reserve(b, n).capacity
  BY DEF Resize, Buffer
<1>2. Reserve(b, n).capacity = IF n > b.capacity THEN n ELSE b.capacity
  BY DEF Reserve, Buffer
<1>. QED
  BY <1>1, <1>2

\* What is stored through data() leaves the memory as large as it was.
LEMMA FillCapacity ==
  ASSUME NEW b, NEW n, NEW f
  PROVE  Fill(b, n, f).capacity = b.capacity
BY DEF Fill, Buffer

\* The streams of a stripe and its rows.
LEMMA StripeTypes ==
  ASSUME stripes \in Tables, NEW s \in 1 .. Len(stripes)
  PROVE  /\ stripes[s].rows \in Nat /\ Len(stripes[s].streams) \in Nat
         /\ DOMAIN stripes[s].streams = 1 .. Len(stripes[s].streams)
         /\ DOMAIN stripes[s].streams \subseteq Nat
         /\ \A i \in DOMAIN stripes[s].streams :
              /\ stripes[s].streams[i].length \in Nat
              /\ stripes[s].streams[i].count \in Nat
<1>. DEFINE Streamed == [column : Nat, kind : STRING, length : Nat, count : Nat]
            Striped == [rows : Nat, streams : Seq(Streamed)]
<1>1. stripes \in Seq(Striped)
  BY StripeAssumption
<1>2. stripes[s] \in Striped
  <2>. HIDE DEF Striped
  <2>. QED
    BY <1>1
<1>3. stripes[s].rows \in Nat /\ stripes[s].streams \in Seq(Streamed)
  <2>. HIDE DEF Streamed
  <2>. QED
    BY <1>2
<1>4. \A i \in DOMAIN stripes[s].streams : i \in Nat /\ stripes[s].streams[i] \in Streamed
  <2>. HIDE DEF Streamed
  <2>. QED
    BY <1>3
<1>5. /\ Len(stripes[s].streams) \in Nat
      /\ DOMAIN stripes[s].streams = 1 .. Len(stripes[s].streams)
  <2>. HIDE DEF Streamed
  <2>. QED
    BY <1>3
<1>. QED
  BY <1>3, <1>4, <1>5

\* readdata makes room for the stream it reads and takes none away, however many
\* bytes it is given.
LEMMA ReadCapacity ==
  ASSUME Types, pc = "read", NEW b, b.capacity \in Nat, NEW m
  PROVE  Read(b, m).capacity \in Nat /\ Read(b, m).capacity >= b.capacity
<1>1. CASE Matching(curStripe, col) = {}
  BY <1>1 DEF Read
<1>2. CASE Matching(curStripe, col) # {}
  <2>. DEFINE i == Min(Matching(curStripe, col))
  <2>1. curStripe \in 1 .. Len(stripes) /\ stripes \in Tables
    BY DEF Types
  <2>2. Matching(curStripe, col) \subseteq DOMAIN stripes[curStripe].streams
    BY DEF Matching
  <2>3. Matching(curStripe, col) \subseteq Nat
    BY <2>1, <2>2, StripeTypes
  <2>4. i \in Matching(curStripe, col)
    BY <1>2, <2>3, Least
  <2>5. Length \in Nat
    BY <2>1, <2>2, <2>4, StripeTypes DEF Streams, Length
  <2>6. Read(b, m) = Fill(Room(b, Length), m, [k \in 0 .. m-1 |-> FileByte(Offset(i) + k)])
    BY <1>2 DEF Read
  <2>7. Room(b, Length).capacity \in Nat /\ Room(b, Length).capacity >= b.capacity
    BY <2>5, ResizeCapacity DEF Room
  <2>. QED
    BY <2>6, <2>7, FillCapacity
<1>. QED
  BY <1>1, <1>2

\* The bytes of some rows are a number.
LEMMA Bytes == ASSUME NEW a \in Nat, NEW r \in Nat PROVE a * r \in Nat
OBVIOUS

\* More rows take more bytes.
LEMMA MoreBytes ==
  ASSUME NEW a \in Nat, NEW b \in Nat, NEW r \in Nat, a <= b
  PROVE  a * r <= b * r
OBVIOUS

\* The next stripe finds the columns resized if it has more rows than the last.
LEMMA NextStripeInv == ASSUME Inv, NextStripe PROVE Inv'
<1>1. curStripe' = curStripe + 1 /\ curStripe' \in 1 .. Len(stripes)
  BY DEF Inv, Types, NextStripe
<1>2. UNCHANGED stripes /\ rownumber' = stripes[curStripe'].rows /\ col' = 1 /\ pc' = "read"
  BY DEF NextStripe
<1>3. rownumber' \in Nat
  BY <1>1, <1>2, StripeTypes DEF Inv, Types
<1>4. 1 \in Column
  BY StripeAssumption DEF Column
<1>5. RowBytes \in Nat /\ rownumber \in Nat /\ rownumber' * RowBytes \in Nat
  <2>1. RowBytes \in Nat /\ rownumber \in Nat
    BY StripeAssumption DEF Inv, Types
  <2>. QED
    BY <1>3, <2>1, Bytes
<1>6. /\ DOMAIN data' = Column
      /\ \A c \in Column : data'[c].capacity \in Nat /\ data'[c].capacity >= rownumber' * RowBytes
  <2>1. data' = BatchResize(rownumber')
    BY <1>2 DEF NextStripe
  <2>2. CASE rownumber' > rownumber
    <3>1. data' = [c \in Column |-> Resize(data[c], rownumber' * RowBytes)]
      BY <2>1, <2>2 DEF BatchResize
    <3>2. ASSUME NEW c \in Column
          PROVE  data'[c].capacity \in Nat /\ data'[c].capacity >= rownumber' * RowBytes
      BY <1>5, <3>1, ResizeCapacity DEF Inv, Types
    <3>. QED
      BY <3>1, <3>2
  <2>3. CASE rownumber' <= rownumber
    <3>1. data' = data
      BY <1>3, <1>5, <2>1, <2>3 DEF BatchResize
    <3>2. rownumber' * RowBytes <= rownumber * RowBytes
      BY <1>3, <1>5, <2>3, MoreBytes
    <3>3. rownumber * RowBytes \in Nat
      BY <1>5, Bytes
    <3>. QED
      BY <1>5, <3>1, <3>2, <3>3 DEF Inv, Types, Roomy
  <2>. QED
    BY <1>3, <1>5, <2>2, <2>3
<1>. QED
  BY <1>1, <1>2, <1>3, <1>4, <1>6 DEF Inv, Types, Roomy, Column

\* Nothing else takes memory from a column.
LEMMA StepInv == ASSUME Inv, [Next]_vars PROVE Inv'
<1>1. CASE NextStripe
  BY <1>1, NextStripeInv
<1>2. ASSUME pc \in {"read", "decode"}, Advance, UNCHANGED <<stripes, curStripe, rownumber>>,
             DOMAIN data' = Column,
             \A c \in Column : data'[c].capacity \in Nat /\ data'[c].capacity >= data[c].capacity
      PROVE  Inv'
  <2>1. col \in 1 .. Len(columns) /\ Len(columns) \in Nat
    BY <1>2, StripeAssumption DEF Inv, Types, Column
  <2>2. /\ col' \in Nat \ {0} /\ pc' \in {"idle", "read", "decode"}
        /\ pc' # "idle" => col' \in Column /\ curStripe' \in 1 .. Len(stripes)
    BY <1>2, <2>1, StripeAssumption DEF Advance, Inv, Types, Column
  <2>3. Types'
    BY <1>2, <2>2 DEF Inv, Types, Column
  <2>4. Roomy'
    <3>1. RowBytes \in Nat /\ rownumber \in Nat /\ rownumber' = rownumber
      BY <1>2, StripeAssumption DEF Inv, Types
    <3>2. rownumber * RowBytes \in Nat
      BY <3>1, Bytes
    <3>. QED
      BY <1>2, <3>1, <3>2 DEF Inv, Types, Roomy, Column
  <2>. QED
    BY <2>3, <2>4 DEF Inv
<1>3. CASE ReadPlain
  <2>0. PICK m \in Delivered : data' = [data EXCEPT ![col] = Read(data[col], m)]
    BY <1>3 DEF ReadPlain
  <2>1. pc = "read" /\ col \in Column
    BY <1>3 DEF ReadPlain, Inv, Types
  <2>2. Read(data[col], m).capacity \in Nat /\ Read(data[col], m).capacity >= data[col].capacity
    BY <2>1, ReadCapacity DEF Inv, Types
  <2>3. \A c \in Column : data'[c].capacity \in Nat /\ data'[c].capacity >= data[c].capacity
    BY <2>0, <2>1, <2>2 DEF Inv, Types
  <2>. QED
    BY <1>2, <1>3, <2>0, <2>1, <2>3 DEF ReadPlain, Inv, Types
<1>4. CASE ReadEncoded
  <2>1. UNCHANGED <<stripes, curStripe, col, data, rownumber>> /\ pc = "read" /\ pc' = "decode"
    BY <1>4 DEF ReadEncoded
  <2>. QED
    BY <2>1 DEF Inv, Types, Roomy, Column
<1>5. CASE DecodeColumn
  <2>1. pc = "decode" /\ data' = Decode(col) /\ col \in Column
    BY <1>5 DEF DecodeColumn, Inv, Types
  <2>2. data' = data \/ \E n, f : data' = [data EXCEPT ![col] = Fill(data[col], n, f)]
    BY <2>1, Zenon DEF Decode
  <2>3. /\ DOMAIN data' = Column
        /\ \A c \in Column : data'[c].capacity \in Nat /\ data'[c].capacity >= data[c].capacity
    <3>1. CASE data' = data
      BY <3>1 DEF Inv, Types
    <3>2. CASE \E n, f : data' = [data EXCEPT ![col] = Fill(data[col], n, f)]
      <4>1. PICK n, f : data' = [data EXCEPT ![col] = Fill(data[col], n, f)]
        BY <3>2
      <4>2. Fill(data[col], n, f).capacity = data[col].capacity
        BY FillCapacity
      <4>. QED
        BY <2>1, <4>1, <4>2 DEF Inv, Types
    <3>. QED
      BY <2>2, <3>1, <3>2
  <2>. QED
    BY <1>2, <1>5, <2>1, <2>3 DEF DecodeColumn
<1>6. CASE UNCHANGED vars
  BY <1>6 DEF vars, Inv, Types, Roomy, Column
<1>. QED
  BY <1>1, <1>3, <1>4, <1>5, <1>6 DEF Next, Ended

\* A new batch has room for its rows, of which there are none yet.
LEMMA InitInv == Init => Inv
<1>. SUFFICES ASSUME Init PROVE Inv
  OBVIOUS
<1>1. stripes \in Tables /\ Len(stripes) \in Nat
  BY StripeAssumption DEF Init
<1>2. RowBytes * BatchRows \in Nat
  BY StripeAssumption, Bytes
<1>3. DOMAIN data = Column /\ \A c \in Column : data[c].capacity = RowBytes * BatchRows
  BY DEF Init, New, Buffer
<1>4. rownumber * RowBytes = 0 /\ rownumber = 0
  BY StripeAssumption DEF Init
<1>5. Types
  BY <1>1, <1>2, <1>3 DEF Init, Types
<1>6. Roomy
  BY <1>2, <1>3, <1>4 DEF Roomy
<1>. QED
  BY <1>5, <1>6 DEF Inv

\* The decoders store through a bare pointer; whatever the order of large and
\* small stripes, whichever streams they lack and whichever reads fall short, the
\* columns of the batch have room for all the rows of the stripe.
THEOREM RoomForRows == Spec => []BatchHoldsRows
<1>1. Inv /\ [Next]_vars => Inv'
  BY StepInv
<1>2. Inv => BatchHoldsRows
  BY DEF Inv, Roomy, BatchHoldsRows
<1>. QED
  BY InitInv, <1>1, <1>2, PTL DEF Spec
-----------------------------------------------------------------------------
(***************************************************************************)
(* Where the streams of a stripe are.                                      *)
(***************************************************************************)
\* Induction over the numbers, as a fact about sets.
LEMMA SetInduction ==
  ASSUME NEW S, 0 \in S, \A n \in Nat : n \in S => n + 1 \in S
  PROVE  Nat \subseteq S
<1>. SUFFICES ASSUME Nat \ S # {} PROVE FALSE
  OBVIOUS
<1>. DEFINE R == {ss \in Nat \X Nat : ss[1] < ss[2]}
            T == Nat \ S
<1>1. R = OpToRel(<, Nat)
  BY DEF OpToRel
<1>2. IsWellFoundedOn(R, Nat)
  BY <1>1, NatLessThanWellFounded
<1>3. T \subseteq Nat /\ T # {}
  OBVIOUS
<1>4. PICK x \in T : \A y \in T : <<y, x>> \notin R
  <2>. HIDE DEF R, T
  <2>. QED
    BY <1>2, <1>3, WFMin
<1>5. x \in Nat /\ x # 0 /\ x - 1 \in Nat /\ x - 1 < x
  OBVIOUS
<1>6. x - 1 \notin T
  BY <1>4, <1>5
<1>7. (x - 1) + 1 \in S
  BY <1>5, <1>6
<1>. QED
  BY <1>5, <1>7

\* Lengths add up one by one.
LEMMA SumsExist ==
  ASSUME NEW n \in Nat, NEW len
  PROVE  \E g : g = [b \in 0 .. n |-> IF b = 0 THEN 0 ELSE g[b-1] + len[b]]
<1>. DEFINE step(g, b) == IF b = 0 THEN 0 ELSE g[b-1] + len[b]
            S == {m \in Nat : \E g : g = [b \in 0 .. m |-> step(g, b)]}
<1>1. 0 \in S
  <2>. DEFINE g == [b \in 0 .. 0 |-> 0]
  <2>1. g = [b \in 0 .. 0 |-> step(g, b)]
    OBVIOUS
  <2>. QED
    BY <2>1
<1>2. ASSUME NEW m \in Nat, m \in S PROVE m + 1 \in S
  <2>1. PICK g : g = [b \in 0 .. m |-> step(g, b)]
    BY <1>2
  <2>0. \A b \in 0 .. m : g[b] = step(g, b)
    <3>. DEFINE k == [b \in 0 .. m |-> step(g, b)]
    <3>1. \A b \in 0 .. m : k[b] = step(g, b)
      OBVIOUS
    <3>2. g = k
      BY <2>1
    <3>. HIDE DEF k
    <3>. QED
      BY <3>1, <3>2, Zenon
  <2>. DEFINE h == [b \in 0 .. m + 1 |-> IF b <= m THEN g[b] ELSE step(g, b)]
  <2>2. ASSUME NEW b \in 0 .. m + 1 PROVE h[b] = step(h, b)
    <3>1. CASE b = 0
      <4>1. g[b] = 0 /\ b <= m
        BY <2>0, <3>1
      <4>. QED
        BY <3>1, <4>1
    <3>2. CASE b # 0
      <4>1. b - 1 \in 0 .. m /\ b - 1 \in 0 .. m + 1
        BY <3>2
      <4>2. h[b-1] = g[b-1]
        BY <4>1
      <4>3. b <= m => g[b] = step(g, b)
        BY <2>0
      <4>4. h[b] = step(g, b)
        BY <4>3
      <4>. QED
        BY <3>2, <4>2, <4>4
    <3>. QED
      BY <3>1, <3>2
  <2>3. h = [b \in 0 .. m + 1 |-> step(h, b)]
    BY <2>2
  <2>. HIDE DEF h
  <2>4. \E k : k = [b \in 0 .. m + 1 |-> step(k, b)]
    BY <2>3, Zenon
  <2>5. m + 1 \in Nat
    OBVIOUS
  <2>. QED
    BY <2>4, <2>5, Zenon
<1>. HIDE DEF S
<1>3. n \in S
  BY <1>1, <1>2, SetInduction
<1>. QED
  BY <1>3 DEF S

\* The streams lie one behind the other.
LEMMA StartStep ==
  ASSUME stripes \in Tables, NEW s \in 1 .. Len(stripes),
         NEW i \in DOMAIN stripes[s].streams
  PROVE  /\ Start(s, 1) = 0
         /\ Start(s, i + 1) = Start(s, i) + stripes[s].streams[i].length
<1>. DEFINE n == Len(stripes[s].streams)
            len == [j \in 1 .. n |-> stripes[s].streams[j].length]
            F == CHOOSE g : g = [j \in 0 .. n |-> IF j = 0 THEN 0
                                                 ELSE g[j-1] + stripes[s].streams[j].length]
            step(g, j) == IF j = 0 THEN 0 ELSE g[j-1] + len[j]
<1>1. n \in Nat /\ i \in 1 .. n
  BY StripeTypes
<1>2. \A j : Start(s, j) = F[j-1]
  BY DEF Start
<1>3. PICK h : h = [j \in 0 .. n |-> step(h, j)]
  <2>. HIDE DEF len, n
  <2>. QED
    BY <1>1, SumsExist
<1>4. \A g : [j \in 0 .. n |-> step(g, j)]
              = [j \in 0 .. n |-> IF j = 0 THEN 0 ELSE g[j-1] + stripes[s].streams[j].length]
  <2>1. ASSUME NEW j \in 0 .. n, j # 0 PROVE len[j] = stripes[s].streams[j].length
    BY <1>1, <2>1
  <2>. HIDE DEF len, n
  <2>. QED
    BY <2>1
<1>5. F = [j \in 0 .. n |-> step(F, j)]
  <2>. DEFINE Q(g) == g = [j \in 0 .. n |-> IF j = 0 THEN 0
                                           ELSE g[j-1] + stripes[s].streams[j].length]
  <2>1. F = CHOOSE g : Q(g)
    OBVIOUS
  <2>2. Q(h)
    BY <1>3, <1>4
  <2>3. Q(F)
    <3>. HIDE DEF Q, F
    <3>. QED
      BY <2>1, <2>2
  <2>. HIDE DEF step, F, n
  <2>. QED
    BY <1>4, <2>3
<1>6. \A j \in 0 .. n : F[j] = step(F, j)
  <2>. DEFINE G == [j \in 0 .. n |-> step(F, j)]
  <2>1. \A j \in 0 .. n : G[j] = step(F, j)
    OBVIOUS
  <2>2. F = G
    BY <1>5
  <2>. HIDE DEF F, G
  <2>. QED
    BY <2>1, <2>2, Zenon
<1>. HIDE DEF F
<1>7. F[0] = 0
  <2>1. 0 \in 0 .. n
    BY <1>1
  <2>. QED
    BY <1>6, <2>1
<1>8. F[i] = F[i-1] + stripes[s].streams[i].length
  <2>1. i \in 0 .. n /\ i # 0 /\ i \in 1 .. n
    BY <1>1
  <2>2. len[i] = stripes[s].streams[i].length
    BY <2>1
  <2>. HIDE DEF len, n
  <2>. QED
    BY <1>6, <2>1, <2>2
<1>9. 1 - 1 = 0 /\ (i + 1) - 1 = i
  BY <1>1
<1>. QED
  BY <1>2, <1>7, <1>8, <1>9

\* ... each at a place of its own.
LEMMA StartType ==
  ASSUME stripes \in Tables, NEW s \in 1 .. Len(stripes)
  PROVE  \A i \in DOMAIN stripes[s].streams : Start(s, i) \in Nat
<1>. DEFINE D == DOMAIN stripes[s].streams
            S == {d \in Nat : d + 1 \in D => Start(s, d + 1) \in Nat}
<1>1. D = 1 .. Len(stripes[s].streams) /\ Len(stripes[s].streams) \in Nat
  BY StripeTypes
<1>2. \A i \in D : /\ Start(s, 1) = 0 /\ stripes[s].streams[i].length \in Nat
                   /\ Start(s, i + 1) = Start(s, i) + stripes[s].streams[i].length
  BY StripeTypes, StartStep
<1>. HIDE DEF D
<1>3. 0 \in S
  BY <1>2
<1>4. ASSUME NEW d \in Nat, d \in S PROVE d + 1 \in S
  <2>1. ASSUME (d + 1) + 1 \in D PROVE Start(s, (d + 1) + 1) \in Nat
    <3>1. d + 1 \in D
      BY <1>1, <2>1
    <3>2. Start(s, d + 1) \in Nat
      BY <1>4, <3>1
    <3>3. PICK x \in D : x = d + 1
      BY <3>1
    <3>4. stripes[s].streams[x].length \in Nat
      BY <1>2, Zenon
    <3>5. Start(s, x + 1) = Start(s, x) + stripes[s].streams[x].length
      BY <1>2, Zenon
    <3>. HIDE DEF S
    <3>. QED
      BY <3>2, <3>3, <3>4, <3>5
  <2>. QED
    BY <2>1
<1>. HIDE DEF S
<1>5. Nat \subseteq S
  BY <1>3, <1>4, SetInduction
<1>6. ASSUME NEW i \in D PROVE Start(s, i) \in Nat
  <2>1. i - 1 \in Nat /\ (i - 1) + 1 = i
    BY <1>1
  <2>2. i - 1 \in S
    BY <1>5, <2>1
  <2>. QED
    BY <2>1, <2>2 DEF S
<1>. QED
  BY <1>6 DEF D

\* A stream begins behind the end of every stream before it.
LEMMA StartsApart ==
  ASSUME stripes \in Tables, NEW s \in 1 .. Len(stripes),
         NEW i \in DOMAIN stripes[s].streams, NEW j \in DOMAIN stripes[s].streams, i < j
  PROVE  Start(s, i) + stripes[s].streams[i].length <= Start(s, j)
<1>. DEFINE D == DOMAIN stripes[s].streams
            len(x) == stripes[s].streams[x].length
            S == {d \in Nat : (i + 1) + d \in D => Start(s, i) + len(i) <= Start(s, (i + 1) + d)}
<1>1. D = 1 .. Len(stripes[s].streams) /\ Len(stripes[s].streams) \in Nat /\ i \in D /\ j \in D
  BY StripeTypes
<1>2. \A x \in D : /\ Start(s, x) \in Nat /\ len(x) \in Nat
                   /\ Start(s, x + 1) = Start(s, x) + len(x)
  BY StripeTypes, StartStep, StartType
<1>. HIDE DEF D, len
<1>a. Start(s, i) \in Nat /\ len(i) \in Nat /\ Start(s, i + 1) = Start(s, i) + len(i)
  BY <1>1, <1>2, Zenon
<1>b. \A x \in D : x \in Nat
  BY <1>1
<1>0. i \in Nat /\ j \in Nat /\ Start(s, i) \in Nat /\ len(i) \in Nat
  BY <1>1, <1>a, <1>b, Zenon
<1>3. 0 \in S
  <2>1. (i + 1) + 0 = i + 1
    BY <1>0
  <2>. DEFINE before == Start(s, i) + len(i)
  <2>2. Start(s, i + 1) = before
    BY <1>a, Zenon
  <2>3. before \in Nat
    BY <1>a
  <2>. HIDE DEF before
  <2>4. before <= Start(s, (i + 1) + 0)
    BY <2>1, <2>2, <2>3
  <2>. QED
    BY <2>4, Zenon DEF before
<1>4. ASSUME NEW d \in Nat, d \in S PROVE d + 1 \in S
  <2>1. ASSUME (i + 1) + (d + 1) \in D PROVE Start(s, i) + len(i) <= Start(s, (i + 1) + (d + 1))
    <3>1. (i + 1) + d \in D /\ (i + 1) + (d + 1) = ((i + 1) + d) + 1
      BY <1>0, <1>1, <2>1
    <3>2. PICK x \in D : x = (i + 1) + d
      BY <3>1
    <3>3. Start(s, i) + len(i) <= Start(s, x)
      BY <1>4, <3>2
    <3>4. Start(s, x + 1) = Start(s, x) + len(x) /\ Start(s, x) \in Nat /\ len(x) \in Nat
      BY <1>2
    <3>5. Start(s, i) + len(i) \in Nat
      BY <1>0
    <3>6. Start(s, i) + len(i) <= Start(s, x + 1)
      BY <3>3, <3>4, <3>5
    <3>. QED
      BY <3>1, <3>2, <3>6
  <2>. QED
    BY <2>1
<1>. HIDE DEF S
<1>5. Nat \subseteq S
  BY <1>3, <1>4, SetInduction
<1>6. j - (i + 1) \in Nat /\ (i + 1) + (j - (i + 1)) = j
  BY <1>0
<1>7. j - (i + 1) \in S
  BY <1>5, <1>6
<1>. QED
  BY <1>1, <1>6, <1>7 DEF S, len

\* So a byte that readdata asks for belongs to the stream it has found.
LEMMA ByteOfStream ==
  ASSUME stripes \in Tables, curStripe \in 1 .. Len(stripes),
         NEW i \in DOMAIN Streams, NEW k \in 0 .. Streams[i].length - 1
  PROVE  FileByte(Offset(i) + k) = Cell(curStripe, i, k)
<1>. DEFINE D == DOMAIN stripes[curStripe].streams
            at(x) == Start(curStripe, x)
            len(x) == stripes[curStripe].streams[x].length
            p == at(i) + k
            holds(x) == at(x) <= p /\ p < at(x) + len(x)
<1>1. \A x \in D : at(x) \in Nat /\ len(x) \in Nat /\ x \in Nat
  BY StripeTypes, StartType
<1>2. \A x, y \in D : x < y => at(x) + len(x) <= at(y)
  BY StartsApart
<1>3. i \in D /\ k \in 0 .. len(i) - 1
  BY DEF Streams
<1>. HIDE DEF D, at, len
<1>4. p \in Nat /\ holds(i) /\ p - at(i) = k
  BY <1>1, <1>3
<1>5. ASSUME NEW x \in D, holds(x) PROVE x = i
  <2>1. CASE x < i
    <3>1. at(x) + len(x) <= at(i)
      BY <1>2, <1>3, <2>1
    <3>. QED
      BY <1>1, <1>3, <1>5, <3>1
  <2>2. CASE i < x
    <3>1. at(i) + len(i) <= at(x)
      BY <1>2, <1>3, <2>2
    <3>. QED
      BY <1>1, <1>3, <1>5, <3>1
  <2>. QED
    BY <1>1, <1>3, <2>1, <2>2
<1>6. (CHOOSE x \in D : holds(x)) = i
  <2>. HIDE DEF holds
  <2>. QED
    BY <1>3, <1>4, <1>5
<1>. QED
  BY <1>4, <1>6 DEF FileByte, Offset, Streams, D, at, len

-----------------------------------------------------------------------------
(***************************************************************************)
(* What the steps do to the cells of a buffer.                             *)
(***************************************************************************)
\* The contents of a buffer lie within its memory.
Sound(b) ==
  /\ b.capacity \in Nat /\ b.size \in Nat /\ b.size <= b.capacity
  /\ DOMAIN b.cells = 0 .. b.capacity - 1

\* A new buffer is zero.
LEMMA NewCells ==
  ASSUME NEW n \in Nat
  PROVE  /\ Sound(New(n)) /\ New(n).capacity = n
         /\ \A k \in 0 .. n - 1 : New(n).cells[k] = Zero
BY DEF New, Buffer, Sound

\* Resized, it holds in every cell what it held there, or zero.
LEMMA ResizeCells ==
  ASSUME NEW b, Sound(b), NEW n \in Nat
  PROVE  /\ Sound(Resize(b, n))
         /\ Resize(b, n).capacity >= n /\ Resize(b, n).capacity >= b.capacity
         /\ \A k \in 0 .. Resize(b, n).capacity - 1 :
              \/ Resize(b, n).cells[k] = Zero
              \/ k \in 0 .. b.capacity - 1 /\ Resize(b, n).cells[k] = b.cells[k]
<1>. DEFINE r == Reserve(b, n)
            z == Resize(b, n)
<1>1. b.capacity \in Nat /\ b.size \in Nat /\ b.size <= b.capacity
  BY DEF Sound
<1>2. r.capacity = IF n > b.capacity THEN n ELSE b.capacity
  BY DEF Reserve, Buffer
<1>3. z.size = n /\ z.capacity = r.capacity
      /\ z.cells = [k \in 0 .. r.capacity - 1 |->
                      IF b.size <= k /\ k < n THEN Zero ELSE r.cells[k]]
  BY DEF Resize, Buffer
<1>4. r.cells = IF n > b.capacity
                  THEN [k \in 0 .. n-1 |-> IF k < b.size THEN b.cells[k] ELSE Junk]
                  ELSE b.cells
  BY DEF Reserve, Buffer
<1>. HIDE DEF r, z
<1>5. Sound(z) /\ z.capacity >= n /\ z.capacity >= b.capacity
  BY <1>1, <1>2, <1>3 DEF Sound
<1>6. ASSUME NEW k \in 0 .. z.capacity - 1
      PROVE  z.cells[k] = Zero \/ (k \in 0 .. b.capacity - 1 /\ z.cells[k] = b.cells[k])
  <2>1. k \in Nat /\ k < r.capacity
        /\ z.cells[k] = IF b.size <= k /\ k < n THEN Zero ELSE r.cells[k]
    BY <1>1, <1>2, <1>3
  <2>2. CASE b.size <= k /\ k < n
    BY <2>1, <2>2
  <2>3. CASE ~(b.size <= k /\ k < n)
    <3>1. k \in 0 .. b.capacity - 1
      BY <1>1, <1>2, <2>1, <2>3
    <3>2. r.cells[k] = b.cells[k]
      BY <1>1, <1>2, <1>4, <2>1, <2>3
    <3>. QED
      BY <2>1, <2>3, <3>1, <3>2
  <2>. QED
    BY <2>2, <2>3
<1>. QED
  BY <1>5, <1>6 DEF z

\* What is stored through data() replaces the first cells and no other.
LEMMA FillCells ==
  ASSUME NEW b, Sound(b), NEW n \in Nat, NEW f
  PROVE  /\ Sound(Fill(b, n, f)) /\ Fill(b, n, f).capacity = b.capacity
         /\ \A k \in 0 .. b.capacity - 1 :
              Fill(b, n, f).cells[k] = IF k < n THEN f[k] ELSE b.cells[k]
BY DEF Fill, Buffer, Sound

\* The stream found is one of the stripe, of the column and kind asked for.
LEMMA StreamFound ==
  ASSUME stripes \in Tables, NEW s \in 1 .. Len(stripes), NEW c, Has(s, c)
  PROVE  /\ Stream(s, c) \in DOMAIN stripes[s].streams
         /\ stripes[s].streams[Stream(s, c)].column = c
         /\ stripes[s].streams[Stream(s, c)].kind = columns[c].kind
         /\ stripes[s].streams[Stream(s, c)].length \in Nat
         /\ Values(s, c) \in Nat
<1>1. Matching(s, c) \subseteq DOMAIN stripes[s].streams
  BY DEF Matching
<1>2. Matching(s, c) \subseteq Nat /\ Matching(s, c) # {}
  BY <1>1, StripeTypes DEF Has
<1>3. Stream(s, c) \in Matching(s, c)
  BY <1>2, Least DEF Stream
<1>. QED
  BY <1>1, <1>3, StripeTypes DEF Matching, Values

\* readdata of a stream: the bytes delivered are those of the stream, behind them
\* is what the buffer held, or zero where it has grown.
LEMMA ReadCells ==
  ASSUME Types, pc = "read", Has(curStripe, col), NEW b, Sound(b), NEW m \in Delivered
  PROVE  LET i == Stream(curStripe, col)
             r == Read(b, m)
         IN  /\ Length = stripes[curStripe].streams[i].length /\ Length \in Nat
             /\ m \in Nat /\ m <= Length /\ SizeRead = Length
             /\ Sound(r) /\ r.capacity >= b.capacity /\ r.capacity >= Length
             /\ \A k \in 0 .. m - 1 : r.cells[k] = Cell(curStripe, i, k)
             /\ \A k \in 0 .. r.capacity - 1 :
                  \/ r.cells[k] = Zero
                  \/ k < m /\ r.cells[k] = Cell(curStripe, i, k)
                  \/ k \in 0 .. b.capacity - 1 /\ r.cells[k] = b.cells[k]
<1>. DEFINE i == Stream(curStripe, col)
            r == Read(b, m)
            q == Room(b, Length)
            f == [k \in 0 .. m-1 |-> FileByte(Offset(i) + k)]
<1>1. curStripe \in 1 .. Len(stripes) /\ stripes \in Tables
  BY DEF Types
<1>2. Length = stripes[curStripe].streams[i].length
  BY DEF Length, Streams, Stream
<1>3. Length \in Nat /\ i \in DOMAIN Streams /\ Length = Streams[i].length
  BY <1>1, <1>2, StreamFound DEF Streams
<1>4. SizeRead = Length /\ r = Fill(q, m, f)
  BY DEF Has, SizeRead, Read, Stream
<1>5. m \in Nat /\ m <= Length
  <2>1. m = Length \/ (m \in {0, Length - 1} /\ 0 <= m)
    BY DEF Delivered, Has
  <2>. QED
    BY <1>3, <2>1
<1>6. /\ Sound(q) /\ q.capacity >= Length /\ q.capacity >= b.capacity
      /\ \A k \in 0 .. q.capacity - 1 :
           q.cells[k] = Zero \/ (k \in 0 .. b.capacity - 1 /\ q.cells[k] = b.cells[k])
  <2>0. b.capacity \in Nat
    BY DEF Sound
  <2>1. CASE b.capacity < Length
    <3>1. q = Resize(b, Length)
      BY <2>1 DEF Room
    <3>. HIDE DEF q
    <3>. QED
      BY <1>3, <3>1, ResizeCells
  <2>2. CASE ~(b.capacity < Length)
    <3>1. q = b
      BY <2>2 DEF Room
    <3>. HIDE DEF q
    <3>. QED
      BY <1>3, <2>0, <2>2, <3>1
  <2>. QED
    BY <2>1, <2>2
<1>. HIDE DEF q
<1>7. ASSUME NEW k \in 0 .. m - 1 PROVE f[k] = Cell(curStripe, i, k)
  <2>1. k \in 0 .. Streams[i].length - 1
    BY <1>3, <1>5
  <2>2. FileByte(Offset(i) + k) = Cell(curStripe, i, k)
    <3>. HIDE DEF i
    <3>. QED
      BY <1>1, <1>3, <2>1, ByteOfStream
  <2>. QED
    BY <2>2
<1>. HIDE DEF f
<1>8. /\ Sound(r) /\ r.capacity = q.capacity
      /\ \A k \in 0 .. q.capacity - 1 : r.cells[k] = IF k < m THEN f[k] ELSE q.cells[k]
  <2>. HIDE DEF r
  <2>. QED
    BY <1>4, <1>5, <1>6, FillCells
<1>. HIDE DEF r
<1>0. q.capacity \in Nat
  BY <1>6 DEF Sound
<1>9. ASSUME NEW k \in 0 .. m - 1 PROVE r.cells[k] = Cell(curStripe, i, k)
  <2>1. k \in 0 .. q.capacity - 1 /\ k < m
    BY <1>0, <1>3, <1>5, <1>6
  <2>. QED
    BY <1>7, <1>8, <2>1
<1>10. ASSUME NEW k \in 0 .. r.capacity - 1
       PROVE  \/ r.cells[k] = Zero
              \/ k < m /\ r.cells[k] = Cell(curStripe, i, k)
              \/ k \in 0 .. b.capacity - 1 /\ r.cells[k] = b.cells[k]
  <2>1. CASE k < m
    <3>1. k \in 0 .. m - 1
      BY <1>0, <1>5, <1>8, <2>1
    <3>. QED
      BY <1>9, <2>1, <3>1
  <2>2. CASE ~(k < m)
    BY <1>6, <1>8, <2>2
  <2>. QED
    BY <2>1, <2>2
<1>. QED
  BY <1>2, <1>3, <1>4, <1>5, <1>6, <1>8, <1>9, <1>10 DEF i, r

-----------------------------------------------------------------------------
(***************************************************************************)
(* Whose data a column shows.                                              *)
(***************************************************************************)
\* The buffers are sound, and the batch is sized for the stripe being read.
Buffers ==
  /\ Sound(databuf) /\ datasize \in Nat
  /\ \A c \in Column : Sound(data[c])
  /\ pc # "idle" => rownumber = stripes[curStripe].rows
  /\ pc = "decode" => columns[col].rle

\* Between the two halves of an encoded column, databuf and datasize are its own
\* stream, if the stripe has one and all of it was read.
Loaded ==
  pc = "decode" /\ Has(curStripe, col) /\ <<curStripe, col>> \notin short =>
    /\ datasize = stripes[curStripe].streams[Stream(curStripe, col)].length
    /\ datasize <= databuf.capacity
    /\ \A k \in 0 .. datasize - 1 :
         databuf.cells[k] = Cell(curStripe, Stream(curStripe, col), k)

\* datasize is empty until the first column that has a stream.
NothingRead ==
  pc # "idle" /\ (\A e \in Column : e < col \/ (pc = "decode" /\ e = col) => ~Has(curStripe, e))
    => datasize = 0

ReadInv == Inv /\ Buffers /\ Loaded /\ NothingRead

\* What the footers say of a stream.
LEMMA SameStripes ==
  ASSUME stripes' = stripes
  PROVE  /\ \A s, c : Has(s, c)' = Has(s, c) /\ Stream(s, c)' = Stream(s, c)
                      /\ Values(s, c)' = Values(s, c)
<1>1. \A s, c : Matching(s, c)' = Matching(s, c)
  BY DEF Matching
<1>. QED
  BY <1>1 DEF Has, Stream, Values

\* The columns have a place and a width.
LEMMA ColumnTypes ==
  /\ Column = 1 .. Len(columns) /\ Len(columns) \in Nat \ {0}
  /\ \A c \in Column : /\ columns[c].width \in Nat /\ columns[c].width <= RowBytes
                       /\ columns[c].rle \in BOOLEAN
<1>. DEFINE T == [rle : BOOLEAN, kind : STRING, width : Nat]
<1>1. columns \in Seq(T) /\ columns # <<>>
  BY StripeAssumption
<1>2. Column = 1 .. Len(columns) /\ Len(columns) \in Nat \ {0}
      /\ \A c \in Column : columns[c] \in T
  <2>. HIDE DEF T
  <2>. QED
    BY <1>1 DEF Column
<1>3. \A c \in Column : columns[c].width <= RowBytes
  BY WriterAssumption DEF Column
<1>. QED
  BY <1>2, <1>3

\* The values of a column are no more than the rows, and the bytes of a column
\* that is not encoded are all there.
LEMMA ValuesFit ==
  ASSUME stripes \in Tables, NEW s \in 1 .. Len(stripes), NEW c \in Column, Has(s, c)
  PROVE  LET st == stripes[s].streams[Stream(s, c)]
             n == Values(s, c) * columns[c].width
         IN  /\ n \in Nat /\ n <= stripes[s].rows * RowBytes
             /\ st.length = 0 => n = 0
             /\ ~columns[c].rle => n <= st.length
<1>. DEFINE st == stripes[s].streams[Stream(s, c)]
            w == columns[c].width
            r == stripes[s].rows
<1>1. /\ Stream(s, c) \in DOMAIN stripes[s].streams /\ st.column = c /\ st.kind = columns[c].kind
      /\ st.length \in Nat /\ st.count \in Nat /\ Values(s, c) = st.count
  BY StreamFound DEF Values
<1>2. s \in DOMAIN stripes
  BY StripeAssumption
<1>3. /\ st.count <= r /\ (st.count > 0 => st.length > 0)
      /\ ~columns[c].rle => st.count * w <= st.length
  BY <1>1, <1>2, WriterAssumption DEF Column
<1>4. w \in Nat /\ w <= RowBytes /\ RowBytes \in Nat /\ r \in Nat
  BY ColumnTypes, StripeTypes, StripeAssumption
<1>. HIDE DEF st, w, r
<1>5. PICK k \in Nat : k = st.count
  BY <1>1
<1>6. k * w \in Nat /\ k * w <= r * RowBytes /\ (k = 0 => k * w = 0)
  <2>1. k * w \in Nat /\ k * RowBytes \in Nat /\ r * RowBytes \in Nat
    BY <1>4, Bytes
  <2>2. k * w <= k * RowBytes
    BY <1>4, <1>5
  <2>3. k * RowBytes <= r * RowBytes
    BY <1>3, <1>4, <1>5, MoreBytes
  <2>4. k = 0 => k * w = 0
    BY <1>4
  <2>. QED
    BY <2>1, <2>2, <2>3, <2>4
<1>7. st.length = 0 => k = 0
  BY <1>1, <1>3, <1>5
<1>. QED
  BY <1>1, <1>3, <1>5, <1>6, <1>7 DEF st, w, r

\* Decoding stores into the column and nowhere else.
LEMMA DecodeStores ==
  ASSUME ReadInv, pc = "decode"
  PROVE  \/ Decode(col) = data
         \/ datasize # 0 /\ \E n \in Nat : \E f : Decode(col) = [data EXCEPT ![col] = Fill(data[col], n, f)]
<1>1. CASE datasize = 0
  BY <1>1 DEF Decode
<1>2. CASE datasize # 0 /\ Sources = {}
  <2>1. data[col].capacity \in Nat
    BY DEF ReadInv, Inv, Types
  <2>. QED
    BY <1>2, <2>1, Zenon DEF Decode
<1>3. CASE datasize # 0 /\ Sources # {}
  <2>1. PICK si : si = CHOOSE x \in Sources : TRUE
    OBVIOUS
  <2>2. si \in Sources
    BY <1>3, <2>1
  <2>3. PICK s \in 1 .. curStripe : si \in {s} \X DOMAIN stripes[s].streams
    BY <2>2 DEF Sources
  <2>4. si[1] = s /\ si[2] \in DOMAIN stripes[s].streams
    BY <2>3
  <2>5. stripes \in Tables /\ s \in 1 .. Len(stripes) /\ col \in Column
    BY <2>3 DEF ReadInv, Inv, Types
  <2>. DEFINE n == stripes[si[1]].streams[si[2]].count * columns[col].width
  <2>6. n \in Nat
    BY <2>4, <2>5, StripeTypes, ColumnTypes, Bytes
  <2>7. Decode(col) = [data EXCEPT ![col] = Fill(data[col], n, [k \in 0 .. n-1 |-> Cell(si[1], si[2], k)])]
    BY <1>3, <2>1 DEF Decode
  <2>. HIDE DEF n
  <2>. QED
    BY <1>3, <2>6, <2>7, Zenon
<1>. QED
  BY <1>1, <1>2, <1>3

\* A column whose stream was read whole is decoded from that stream.
LEMMA DecodeOwn ==
  ASSUME ReadInv, pc = "decode", Has(curStripe, col), <<curStripe, col>> \notin short
  PROVE  LET i == Stream(curStripe, col)
             n == Values(curStripe, col) * columns[col].width
         IN  /\ n \in Nat
             /\ \/ n = 0 /\ Decode(col) = data
                \/ Decode(col) = [data EXCEPT ![col] =
                     Fill(data[col], n, [k \in 0 .. n-1 |-> Cell(curStripe, i, k)])]
<1>. DEFINE i == Stream(curStripe, col)
            n == Values(curStripe, col) * columns[col].width
<1>1. /\ stripes \in Tables /\ curStripe \in 1 .. Len(stripes) /\ col \in Column
  BY DEF ReadInv, Inv, Types
<1>2. /\ datasize = stripes[curStripe].streams[i].length /\ datasize <= databuf.capacity
      /\ \A k \in 0 .. datasize - 1 : databuf.cells[k] = Cell(curStripe, i, k)
      /\ datasize \in Nat
  BY DEF ReadInv, Loaded, Buffers
<1>3. n \in Nat /\ (datasize = 0 => n = 0)
  BY <1>1, <1>2, ValuesFit
<1>4. i \in DOMAIN stripes[curStripe].streams
  BY <1>1, StreamFound
<1>. HIDE DEF i
<1>5. ASSUME datasize # 0 PROVE Sources = {<<curStripe, i>>}
  <2>1. <<curStripe, i>> \in Sources
    <3>1. <<curStripe, i>> \in {curStripe} \X DOMAIN stripes[curStripe].streams
      BY <1>4
    <3>2. curStripe \in 1 .. curStripe
      BY <1>1
    <3>. QED
      BY <1>2, <3>1, <3>2 DEF Sources
  <2>2. ASSUME NEW si \in Sources PROVE si = <<curStripe, i>>
    <3>1. PICK s \in 1 .. curStripe : si \in {s} \X DOMAIN stripes[s].streams
      BY DEF Sources
    <3>2. 0 \in 0 .. datasize - 1
      BY <1>2, <1>5
    <3>3. databuf.cells[0] = Cell(si[1], si[2], 0) /\ databuf.cells[0] = Cell(curStripe, i, 0)
      BY <1>2, <3>2 DEF Sources
    <3>4. si[1] = curStripe /\ si[2] = i
      BY <3>3 DEF Cell
    <3>. QED
      BY <3>1, <3>4
  <2>. QED
    BY <2>1, <2>2
<1>6. ASSUME datasize = 0 PROVE n = 0 /\ Decode(col) = data
  BY <1>3, <1>6 DEF Decode
<1>7. ASSUME datasize # 0
      PROVE  Decode(col) = [data EXCEPT ![col] =
                Fill(data[col], n, [k \in 0 .. n-1 |-> Cell(curStripe, i, k)])]
  <2>1. PICK si : si = CHOOSE x \in Sources : TRUE
    OBVIOUS
  <2>2. si = <<curStripe, i>>
    BY <1>5, <1>7, <2>1
  <2>3. n = stripes[si[1]].streams[si[2]].count * columns[col].width
    BY <2>2 DEF Values, i
  <2>. HIDE DEF n
  <2>4. Decode(col) = [data EXCEPT ![col] =
            Fill(data[col], n, [k \in 0 .. n-1 |-> Cell(si[1], si[2], k)])]
    BY <1>5, <1>7, <2>1, <2>3 DEF Decode
  <2>5. si[1] = curStripe /\ si[2] = i
    BY <2>2
  <2>. QED
    BY <2>4, <2>5
<1>8. \/ n = 0 /\ Decode(col) = data
      \/ Decode(col) = [data EXCEPT ![col] =
           Fill(data[col], n, [k \in 0 .. n-1 |-> Cell(curStripe, i, k)])]
  BY <1>2, <1>6, <1>7
<1>. QED
  BY <1>3, <1>8 DEF i

\* As long as the stripe stays the same, so do its streams.
LEMMA SameStripe ==
  ASSUME stripes' = stripes, curStripe' = curStripe
  PROVE  /\ \A c : Has(curStripe, c)' = Has(curStripe, c)
         /\ \A c : Stream(curStripe, c)' = Stream(curStripe, c)
         /\ \A c : Values(curStripe, c)' = Values(curStripe, c)
         /\ (stripes[curStripe].rows)' = stripes[curStripe].rows
<1>1. \A c : Matching(curStripe, c)' = Matching(curStripe, c)
  BY DEF Matching
<1>2. \A c : Stream(curStripe, c)' = Stream(curStripe, c)
  BY <1>1 DEF Stream
<1>3. \A c : Has(curStripe, c)' = Has(curStripe, c)
  BY <1>1 DEF Has
<1>4. \A c : Values(curStripe, c)' = Values(curStripe, c)
  BY <1>2 DEF Values
<1>. QED
  BY <1>2, <1>3, <1>4

\* A read of the stream of the column, or of nothing if the stripe has none.
LEMMA ReadTwoWays ==
  ASSUME Types, pc = "read", NEW b, Sound(b), NEW m \in Delivered, datasize \in Nat
  PROVE  /\ Sound(Read(b, m)) /\ SizeRead \in Nat
         /\ ~Has(curStripe, col) => Read(b, m) = b /\ SizeRead = datasize /\ Shortened(m) = short
         /\ Has(curStripe, col) => \/ m = Length
                                   \/ <<curStripe, col>> \in Shortened(m)
         /\ short \subseteq Shortened(m)
<1>1. CASE Has(curStripe, col)
  <2>1. Sound(Read(b, m)) /\ SizeRead \in Nat /\ m \in Nat /\ m <= Length /\ Length \in Nat
    BY <1>1, ReadCells
  <2>2. m < Length => <<curStripe, col>> \in Shortened(m)
    BY <1>1 DEF Shortened, Has
  <2>3. short \subseteq Shortened(m)
    BY DEF Shortened
  <2>. QED
    BY <1>1, <2>1, <2>2, <2>3
<1>2. CASE ~Has(curStripe, col)
  BY <1>2 DEF Has, Read, SizeRead, Shortened
<1>. QED
  BY <1>1, <1>2

\* Each step of nextBatch keeps what is known of the bytes read.
LEMMA StepReadInv == ASSUME ReadInv, [Next]_vars PROVE ReadInv'
<1>1. Inv'
  BY StepInv DEF ReadInv
<1>2. CASE NextStripe
  <2>1. /\ stripes' = stripes /\ databuf' = databuf /\ pc' = "read" /\ datasize' = 0
        /\ rownumber' = stripes[curStripe'].rows /\ data' = BatchResize(rownumber')
    BY <1>2 DEF NextStripe
  <2>2. ASSUME NEW c \in Column PROVE Sound(data'[c])
    <3>1. Sound(data[c])
      BY DEF ReadInv, Buffers
    <3>2. CASE rownumber' > rownumber
      <4>1. data'[c] = Resize(data[c], rownumber' * RowBytes)
        BY <2>1, <3>2 DEF BatchResize
      <4>2. rownumber' * RowBytes \in Nat
        BY <1>1, StripeAssumption, Bytes DEF Inv, Types
      <4>. QED
        BY <3>1, <4>1, <4>2, ResizeCells
    <3>3. CASE ~(rownumber' > rownumber)
      BY <2>1, <3>1, <3>3 DEF BatchResize
    <3>. QED
      BY <3>2, <3>3
  <2>3. Buffers'
    BY <2>1, <2>2 DEF ReadInv, Buffers, Sound, Column
  <2>4. Loaded' /\ NothingRead'
    BY <2>1 DEF Loaded, NothingRead
  <2>. QED
    BY <1>1, <2>3, <2>4 DEF ReadInv
<1>3. CASE ReadPlain
  <2>1. /\ stripes' = stripes /\ curStripe' = curStripe /\ databuf' = databuf
        /\ rownumber' = rownumber /\ datasize' = SizeRead /\ pc = "read" /\ col \in Column
        /\ col' = col + 1 /\ pc' \in {"idle", "read"}
    BY <1>3 DEF ReadPlain, Advance, ReadInv, Inv, Types
  <2>2. PICK m \in Delivered : data' = [data EXCEPT ![col] = Read(data[col], m)]
    BY <1>3 DEF ReadPlain
  <2>3. /\ Sound(Read(data[col], m)) /\ SizeRead \in Nat
        /\ ~Has(curStripe, col) => SizeRead = datasize
    BY <2>1, ReadTwoWays DEF ReadInv, Inv, Buffers
  <2>4. \A c \in Column : Sound(data'[c])
    BY <2>1, <2>2, <2>3 DEF ReadInv, Inv, Types, Buffers
  <2>5. Buffers'
    <3>1. (stripes[curStripe].rows)' = stripes[curStripe].rows
      BY <2>1, SameStripe
    <3>2. Sound(databuf)' /\ (\A c \in Column : Sound(data[c])')
      BY <2>1, <2>4 DEF ReadInv, Buffers, Sound
    <3>3. rownumber' = (stripes[curStripe].rows)'
      BY <2>1, <3>1 DEF ReadInv, Buffers
    <3>. QED
      BY <2>1, <2>3, <3>2, <3>3 DEF Buffers, Column
  <2>6. NothingRead'
    <3>1. ASSUME \A e \in Column : e < col' => ~Has(curStripe, e) PROVE datasize' = 0
      <4>1. col < col' /\ \A e \in Column : e < col => e < col'
        BY <2>1, ColumnTypes
      <4>2. ~Has(curStripe, col) /\ \A e \in Column : e < col => ~Has(curStripe, e)
        BY <2>1, <3>1, <4>1
      <4>. QED
        BY <2>1, <2>3, <4>2 DEF ReadInv, NothingRead
    <3>2. \A e : Has(curStripe, e)' = Has(curStripe, e)
      BY <2>1, SameStripe
    <3>. QED
      BY <2>1, <3>1, <3>2 DEF NothingRead, Column
  <2>7. Loaded'
    BY <2>1 DEF Loaded
  <2>. QED
    BY <1>1, <2>5, <2>6, <2>7 DEF ReadInv
<1>4. CASE ReadEncoded
  <2>1. /\ stripes' = stripes /\ curStripe' = curStripe /\ data' = data /\ col' = col
        /\ rownumber' = rownumber /\ datasize' = SizeRead /\ pc = "read" /\ col \in Column
        /\ pc' = "decode" /\ columns[col].rle
    BY <1>4 DEF ReadEncoded, ReadInv, Inv, Types
  <2>2. PICK m \in Delivered : databuf' = Read(databuf, m) /\ short' = Shortened(m)
    BY <1>4 DEF ReadEncoded
  <2>3. /\ Sound(Read(databuf, m)) /\ SizeRead \in Nat
        /\ ~Has(curStripe, col) => SizeRead = datasize
        /\ Has(curStripe, col) => m = Length \/ <<curStripe, col>> \in short'
    BY <2>1, <2>2, ReadTwoWays DEF ReadInv, Inv, Buffers
  <2>4. Buffers'
    <3>1. (stripes[curStripe].rows)' = stripes[curStripe].rows
      BY <2>1, SameStripe
    <3>2. Sound(databuf)' /\ (\A c \in Column : Sound(data[c])')
      BY <2>1, <2>2, <2>3 DEF ReadInv, Buffers, Sound
    <3>3. rownumber' = (stripes[curStripe].rows)'
      BY <2>1, <3>1 DEF ReadInv, Buffers
    <3>. QED
      BY <2>1, <2>3, <3>2, <3>3 DEF Buffers, Column
  <2>5. Loaded'
    <3>1. ASSUME Has(curStripe, col), <<curStripe, col>> \notin short'
          PROVE  /\ datasize' = stripes[curStripe].streams[Stream(curStripe, col)].length
                 /\ datasize' <= databuf'.capacity
                 /\ \A k \in 0 .. datasize' - 1 :
                      databuf'.cells[k] = Cell(curStripe, Stream(curStripe, col), k)
      <4>1. m = Length
        BY <2>3, <3>1
      <4>2. Sound(databuf)
        BY DEF ReadInv, Buffers
      <4>3. Types
        BY DEF ReadInv, Inv
      <4>4. /\ Length = stripes[curStripe].streams[Stream(curStripe, col)].length
            /\ SizeRead = Length /\ Read(databuf, m).capacity >= Length /\ Length \in Nat
            /\ \A k \in 0 .. m - 1 :
                 Read(databuf, m).cells[k] = Cell(curStripe, Stream(curStripe, col), k)
        BY <2>1, <3>1, <4>2, <4>3, ReadCells
      <4>5. Read(databuf, m).capacity \in Nat
        BY <2>3 DEF Sound
      <4>. QED
        BY <2>1, <2>2, <4>1, <4>4, <4>5
    <3>2. /\ \A c : Has(curStripe, c)' = Has(curStripe, c)
          /\ \A c : Stream(curStripe, c)' = Stream(curStripe, c)
      BY <2>1, SameStripe
    <3>3. Has(curStripe, col)' = Has(curStripe, col)
          /\ Stream(curStripe, col)' = Stream(curStripe, col)
      BY <2>1 DEF Has, Stream, Matching
    <3>. QED
      BY <2>1, <3>1, <3>3 DEF Loaded, Cell
  <2>6. NothingRead'
    <3>1. ASSUME \A e \in Column : e < col \/ e = col => ~Has(curStripe, e) PROVE datasize' = 0
      <4>1. ~Has(curStripe, col) /\ \A e \in Column : e < col => ~Has(curStripe, e)
        BY <2>1, <3>1
      <4>. QED
        BY <2>1, <2>3, <4>1 DEF ReadInv, NothingRead
    <3>2. \A e : Has(curStripe, e)' = Has(curStripe, e)
      BY <2>1, SameStripe
    <3>. QED
      BY <2>1, <3>1, <3>2 DEF NothingRead, Column
  <2>. QED
    BY <1>1, <2>4, <2>5, <2>6 DEF ReadInv
<1>5. CASE DecodeColumn
  <2>1. /\ stripes' = stripes /\ curStripe' = curStripe /\ databuf' = databuf
        /\ rownumber' = rownumber /\ datasize' = datasize /\ pc = "decode" /\ col \in Column
        /\ col' = col + 1 /\ pc' \in {"idle", "read"} /\ data' = Decode(col)
    BY <1>5 DEF DecodeColumn, Advance, ReadInv, Inv, Types
  <2>2. \A c \in Column : Sound(data'[c])
    <3>1. \A c \in Column : Sound(data[c])
      BY DEF ReadInv, Buffers
    <3>2. CASE data' = data
      BY <3>1, <3>2
    <3>3. CASE \E n \in Nat : \E f : data' = [data EXCEPT ![col] = Fill(data[col], n, f)]
      <4>1. PICK n \in Nat : \E f : data' = [data EXCEPT ![col] = Fill(data[col], n, f)]
        BY <3>3
      <4>2. PICK f : data' = [data EXCEPT ![col] = Fill(data[col], n, f)]
        BY <4>1
      <4>3. Sound(Fill(data[col], n, f))
        BY <2>1, <3>1, FillCells
      <4>. QED
        BY <2>1, <3>1, <4>2, <4>3 DEF ReadInv, Inv, Types
    <3>. QED
      BY <2>1, <3>2, <3>3, DecodeStores
  <2>3. Buffers'
    <3>1. (stripes[curStripe].rows)' = stripes[curStripe].rows
      BY <2>1, SameStripe
    <3>2. Sound(databuf)' /\ (\A c \in Column : Sound(data[c])')
      BY <2>1, <2>2 DEF ReadInv, Buffers, Sound
    <3>3. rownumber' = (stripes[curStripe].rows)'
      BY <2>1, <3>1 DEF ReadInv, Buffers
    <3>4. datasize' \in Nat
      BY <2>1 DEF ReadInv, Buffers
    <3>. QED
      BY <2>1, <3>2, <3>3, <3>4 DEF Buffers, Column
  <2>4. NothingRead'
    <3>1. ASSUME \A e \in Column : e < col' => ~Has(curStripe, e) PROVE datasize' = 0
      <4>1. \A e \in Column : e < col \/ e = col => e < col'
        BY <2>1, ColumnTypes
      <4>. QED
        BY <2>1, <3>1, <4>1 DEF ReadInv, NothingRead
    <3>2. \A e : Has(curStripe, e)' = Has(curStripe, e)
      BY <2>1, SameStripe
    <3>. QED
      BY <2>1, <3>1, <3>2 DEF NothingRead, Column
  <2>5. Loaded'
    BY <2>1 DEF Loaded
  <2>. QED
    BY <1>1, <2>3, <2>4, <2>5 DEF ReadInv
<1>6. CASE UNCHANGED vars
  <2>1. /\ stripes' = stripes /\ curStripe' = curStripe /\ databuf' = databuf /\ data' = data
        /\ rownumber' = rownumber /\ datasize' = datasize /\ pc' = pc /\ col' = col /\ short' = short
    BY <1>6 DEF vars
  <2>2. \A c : Has(curStripe, c)' = Has(curStripe, c)
    BY <2>1, SameStripe
  <2>3. Has(curStripe, col)' = Has(curStripe, col)
        /\ Stream(curStripe, col)' = Stream(curStripe, col)
    BY <2>1 DEF Has, Stream, Matching
  <2>4. Buffers'
    BY <2>1 DEF ReadInv, Buffers, Sound, Column
  <2>5. Loaded'
    BY <2>1, <2>3 DEF ReadInv, Loaded, Cell
  <2>6. NothingRead'
    BY <2>1, <2>2 DEF ReadInv, NothingRead, Column
  <2>. QED
    BY <1>1, <2>4, <2>5, <2>6 DEF ReadInv
<1>. QED
  BY <1>2, <1>3, <1>4, <1>5, <1>6 DEF Next, Ended

\* Nothing is read yet.
LEMMA InitReadInv == Init => ReadInv
<1>. SUFFICES ASSUME Init PROVE ReadInv
  OBVIOUS
<1>1. Sound(databuf) /\ datasize \in Nat /\ \A c \in Column : Sound(data[c])
  <2>1. DatabufBytes \in Nat /\ RowBytes * BatchRows \in Nat
    BY StripeAssumption, Bytes
  <2>. QED
    BY <2>1, NewCells DEF Init
<1>. QED
  BY <1>1, InitInv DEF Init, ReadInv, Buffers, Loaded, NothingRead

\* A cell of the column decoded stays, or comes from bytes of no stream, or from
\* the stream that databuf has a copy of.
LEMMA DecodedFrom ==
  ASSUME ReadInv, pc = "decode", NEW k \in 0 .. Decode(col)[col].capacity - 1
  PROVE  \/ k \in 0 .. data[col].capacity - 1 /\ Decode(col)[col].cells[k] = data[col].cells[k]
         \/ Decode(col)[col].cells[k] = Garbage
         \/ \E s \in 1 .. curStripe : \E i \in DOMAIN stripes[s].streams :
              Decode(col)[col].cells[k] = Cell(s, i, k)
<1>1. /\ col \in Column /\ DOMAIN data = Column /\ Sound(data[col])
      /\ data[col].capacity \in Nat
  BY DEF ReadInv, Inv, Types, Buffers
<1>2. ASSUME NEW n \in Nat, NEW f, Decode(col) = [data EXCEPT ![col] = Fill(data[col], n, f)]
      PROVE  /\ k \in 0 .. data[col].capacity - 1
             /\ Decode(col)[col].cells[k] = IF k < n THEN f[k] ELSE data[col].cells[k]
  <2>1. Decode(col)[col] = Fill(data[col], n, f)
    BY <1>1, <1>2
  <2>. QED
    BY <1>1, <2>1, FillCells
<1>3. CASE datasize = 0
  BY <1>1, <1>3 DEF Decode
<1>4. CASE datasize # 0 /\ Sources = {}
  <2>. DEFINE n == data[col].capacity
              f == [j \in 0 .. n - 1 |-> Garbage]
  <2>1. Decode(col) = [data EXCEPT ![col] = Fill(data[col], n, f)]
    BY <1>4, Zenon DEF Decode
  <2>2. k \in 0 .. n - 1 => f[k] = Garbage
    OBVIOUS
  <2>. HIDE DEF f
  <2>. QED
    BY <1>1, <1>2, <2>1, <2>2
<1>5. CASE datasize # 0 /\ Sources # {}
  <2>1. PICK si : si = CHOOSE x \in Sources : TRUE
    OBVIOUS
  <2>2. si \in Sources
    BY <1>5, <2>1
  <2>3. PICK s \in 1 .. curStripe : si \in {s} \X DOMAIN stripes[s].streams
    BY <2>2 DEF Sources
  <2>4. si[1] = s /\ si[2] \in DOMAIN stripes[s].streams
    BY <2>3
  <2>5. stripes \in Tables /\ s \in 1 .. Len(stripes)
    BY <2>3 DEF ReadInv, Inv, Types
  <2>. DEFINE n == stripes[si[1]].streams[si[2]].count * columns[col].width
              f == [j \in 0 .. n-1 |-> Cell(si[1], si[2], j)]
  <2>6. n \in Nat
    BY <1>1, <2>4, <2>5, StripeTypes, ColumnTypes, Bytes
  <2>7. Decode(col) = [data EXCEPT ![col] = Fill(data[col], n, f)]
    BY <1>5, <2>1 DEF Decode
  <2>8. \A j \in 0 .. n-1 : f[j] = Cell(s, si[2], j)
    BY <2>4
  <2>. HIDE DEF n, f
  <2>9. /\ k \in 0 .. data[col].capacity - 1
        /\ Decode(col)[col].cells[k] = IF k < n THEN f[k] ELSE data[col].cells[k]
    BY <1>2, <2>6, <2>7
  <2>10. k \in Nat
    BY <2>9, <1>1
  <2>. QED
    BY <2>4, <2>6, <2>8, <2>9, <2>10
<1>. QED
  BY <1>3, <1>4, <1>5

\* Where a cell of a column can come from in one step.
LEMMA Origin ==
  ASSUME ReadInv, [Next]_vars, NEW c \in Column, NEW k \in 0 .. data'[c].capacity - 1
  PROVE  \/ data'[c].cells[k] = Zero
         \/ k \in 0 .. data[c].capacity - 1 /\ data'[c].cells[k] = data[c].cells[k]
         \/ /\ c = col /\ pc # "idle" /\ curStripe' = curStripe
            /\ \/ /\ Has(curStripe, c)
                  /\ data'[c].cells[k] = Cell(curStripe, Stream(curStripe, c), k)
               \/ /\ columns[c].rle
                  /\ \/ <<curStripe, c>> \in short'
                     \/ ~Has(curStripe, c) /\ \E e \in Column : e < c /\ Has(curStripe, e)
                  /\ \/ data'[c].cells[k] = Garbage
                     \/ \E s \in 1 .. curStripe : \E i \in DOMAIN stripes[s].streams :
                          data'[c].cells[k] = Cell(s, i, k)
<1>. DEFINE Kept == k \in 0 .. data[c].capacity - 1 /\ data'[c].cells[k] = data[c].cells[k]
<1>1. Sound(data[c]) /\ Types /\ data[c].capacity \in Nat
  BY DEF ReadInv, Inv, Buffers, Sound
<1>2. ASSUME data'[c] = data[c] PROVE Kept
  BY <1>2
<1>3. CASE NextStripe
  <2>1. CASE stripes[curStripe'].rows > rownumber
    <3>1. data'[c] = Resize(data[c], stripes[curStripe'].rows * RowBytes)
      BY <1>3, <2>1 DEF NextStripe, BatchResize
    <3>2. stripes[curStripe'].rows * RowBytes \in Nat
      <4>1. Inv'
        BY StepInv DEF ReadInv
      <4>2. stripes[curStripe'].rows \in Nat /\ RowBytes \in Nat
        BY <1>3, <4>1, StripeAssumption DEF NextStripe, Inv, Types
      <4>. QED
        BY <4>2, Bytes
    <3>3. PICK n \in Nat : data'[c] = Resize(data[c], n)
      BY <3>1, <3>2
    <3>4. \A j \in 0 .. Resize(data[c], n).capacity - 1 :
            \/ Resize(data[c], n).cells[j] = Zero
            \/ j \in 0 .. data[c].capacity - 1 /\ Resize(data[c], n).cells[j] = data[c].cells[j]
      BY <1>1, ResizeCells
    <3>. QED
      BY <3>3, <3>4
  <2>2. CASE ~(stripes[curStripe'].rows > rownumber)
    BY <1>2, <1>3, <2>2 DEF NextStripe, BatchResize
  <2>. QED
    BY <2>1, <2>2
<1>4. CASE ReadPlain
  <2>1. pc = "read" /\ col \in Column /\ curStripe' = curStripe /\ DOMAIN data = Column
    BY <1>1, <1>4 DEF ReadPlain, Types
  <2>2. PICK m \in Delivered : data' = [data EXCEPT ![col] = Read(data[col], m)]
    BY <1>4 DEF ReadPlain
  <2>3. CASE c # col
    BY <1>2, <2>1, <2>2, <2>3
  <2>4. CASE c = col /\ Has(curStripe, c)
    <3>1. data'[c] = Read(data[c], m)
      BY <2>1, <2>2, <2>4
    <3>. QED
      BY <1>1, <2>1, <2>4, <3>1, ReadCells
  <2>5. CASE c = col /\ ~Has(curStripe, c)
    <3>1. data'[c] = data[c]
      BY <2>1, <2>2, <2>5 DEF Has, Read
    <3>. QED
      BY <1>2, <3>1
  <2>. QED
    BY <2>3, <2>4, <2>5
<1>5. CASE DecodeColumn
  <2>1. /\ pc = "decode" /\ col \in Column /\ curStripe' = curStripe /\ DOMAIN data = Column
        /\ short' = short /\ data' = Decode(col)
    BY <1>1, <1>5 DEF DecodeColumn, Types
  <2>2. CASE c # col
    <3>1. data'[c] = data[c]
      <4>1. data' = data \/ \E n, f : data' = [data EXCEPT ![col] = Fill(data[col], n, f)]
        BY <2>1, DecodeStores
      <4>. QED
        BY <2>1, <2>2, <4>1
    <3>. QED
      BY <1>2, <3>1
  <2>3. CASE c = col /\ Has(curStripe, c) /\ <<curStripe, c>> \notin short
    <3>. DEFINE n == Values(curStripe, col) * columns[col].width
                f == [j \in 0 .. n-1 |-> Cell(curStripe, Stream(curStripe, col), j)]
    <3>1. n \in Nat /\ (data' = data \/ data' = [data EXCEPT ![col] = Fill(data[col], n, f)])
      BY <2>1, <2>3, DecodeOwn
    <3>2. CASE data' = data
      BY <1>2, <3>2
    <3>3. CASE data' = [data EXCEPT ![col] = Fill(data[col], n, f)]
      <4>1. data'[c] = Fill(data[c], n, f)
        BY <2>1, <2>3, <3>3
      <4>2. k \in Nat /\ (k < n => f[k] = Cell(curStripe, Stream(curStripe, c), k))
        BY <2>3, <3>1
      <4>. HIDE DEF n, f
      <4>3. data'[c].capacity = data[c].capacity
            /\ data'[c].cells[k] = IF k < n THEN f[k] ELSE data[c].cells[k]
        BY <1>1, <3>1, <4>1, FillCells
      <4>. QED
        BY <2>1, <2>3, <4>2, <4>3
    <3>. QED
      BY <3>1, <3>2, <3>3
  <2>4. ASSUME c = col
        PROVE  /\ columns[c].rle
               /\ \/ Kept \/ data'[c].cells[k] = Garbage
                  \/ \E s \in 1 .. curStripe : \E i \in DOMAIN stripes[s].streams :
                       data'[c].cells[k] = Cell(s, i, k)
    <3>1. columns[c].rle
      BY <2>1, <2>4 DEF ReadInv, Buffers
    <3>2. k \in 0 .. Decode(col)[col].capacity - 1
      BY <2>1, <2>4
    <3>. QED
      BY <2>1, <2>4, <3>1, <3>2, DecodedFrom
  <2>5. CASE c = col /\ Has(curStripe, c) /\ <<curStripe, c>> \in short
    BY <2>1, <2>5, <2>4
  <2>6. CASE c = col /\ ~Has(curStripe, c)
    <3>1. CASE \E e \in Column : e < c /\ Has(curStripe, e)
      BY <2>1, <2>6, <2>4, <3>1
    <3>2. CASE \A e \in Column : e < c => ~Has(curStripe, e)
      <4>1. datasize = 0
        BY <2>1, <2>6, <3>2 DEF ReadInv, NothingRead
      <4>2. data' = data
        BY <2>1, <4>1 DEF Decode
      <4>. QED
        BY <1>2, <4>2
    <3>. QED
      BY <3>1, <3>2
  <2>. QED
    BY <2>2, <2>3, <2>5, <2>6
<1>6. CASE ReadEncoded \/ Ended \/ UNCHANGED vars
  BY <1>2, <1>6 DEF ReadEncoded, Ended, vars
<1>. QED
  BY <1>3, <1>4, <1>5, <1>6 DEF Next

\* Not only the columns that are done with, and not only their rows.
CellsTraced == \A c \in Column : \A k \in 0 .. data[c].capacity - 1 : Traceable(c, k)

\* What has been borrowed stays borrowed.
LEMMA StaysBorrowed ==
  ASSUME ReadInv, [Next]_vars
  PROVE  /\ stripes' = stripes /\ curStripe \in Nat /\ curStripe' \in Nat
         /\ curStripe <= curStripe' /\ short \subseteq short'
         /\ \A s, c : Borrows(s, c) => Borrows(s, c)'
<1>1. stripes' = stripes /\ curStripe \in Nat /\ (curStripe' = curStripe \/ curStripe' = curStripe + 1)
  BY DEF ReadInv, Inv, Types, Next, NextStripe, ReadPlain, ReadEncoded, DecodeColumn, Ended, vars
<1>2. short \subseteq short'
  <2>1. \A m : short \subseteq Shortened(m)
    BY DEF Shortened
  <2>2. short' = short \/ \E m : short' = Shortened(m)
    BY DEF Next, NextStripe, ReadPlain, ReadEncoded, DecodeColumn, Ended, vars
  <2>. QED
    BY <2>1, <2>2
<1>3. \A s, c : Has(s, c)' = Has(s, c)
  BY <1>1, SameStripes
<1>. QED
  BY <1>1, <1>2, <1>3 DEF Borrows

\* A cell that stays as it is stays traceable.
LEMMA StaysTraceable ==
  ASSUME ReadInv, [Next]_vars, NEW c, NEW k, Traceable(c, k),
         data'[c].cells[k] = data[c].cells[k]
  PROVE  Traceable(c, k)'
<1>1. /\ stripes' = stripes /\ curStripe \in Nat /\ curStripe' \in Nat
      /\ curStripe <= curStripe'
      /\ \A s, d : Borrows(s, d) => Borrows(s, d)'
  BY StaysBorrowed
<1>2. \A s, d : Has(s, d)' = Has(s, d) /\ Stream(s, d)' = Stream(s, d)
  BY <1>1, SameStripes
<1>3. \A s \in 1 .. curStripe : s \in 1 .. curStripe' /\ s .. curStripe \subseteq s .. curStripe'
  BY <1>1
<1>4. CASE data[c].cells[k] = Zero
  BY <1>4 DEF Traceable
<1>5. CASE data[c].cells[k] = Garbage /\ \E t \in 1 .. curStripe : Borrows(t, c)
  BY <1>1, <1>3, <1>5 DEF Traceable
<1>6. CASE \E s \in 1 .. curStripe : \E i \in DOMAIN stripes[s].streams :
             /\ data[c].cells[k] = Cell(s, i, k)
             /\ \/ Has(s, c) /\ i = Stream(s, c)
                \/ \E t \in s .. curStripe : Borrows(t, c)
  <2>1. PICK s \in 1 .. curStripe : \E i \in DOMAIN stripes[s].streams :
             /\ data[c].cells[k] = Cell(s, i, k)
             /\ \/ Has(s, c) /\ i = Stream(s, c)
                \/ \E t \in s .. curStripe : Borrows(t, c)
    BY <1>6
  <2>2. PICK i \in DOMAIN stripes[s].streams :
             /\ data[c].cells[k] = Cell(s, i, k)
             /\ \/ Has(s, c) /\ i = Stream(s, c)
                \/ \E t \in s .. curStripe : Borrows(t, c)
    BY <2>1
  <2>3. s \in 1 .. curStripe' /\ i \in DOMAIN stripes'[s].streams /\ data'[c].cells[k] = Cell(s, i, k)
    BY <1>1, <1>3, <2>2
  <2>4. \/ Has(s, c)' /\ i = Stream(s, c)'
        \/ \E t \in s .. curStripe' : Borrows(t, c)'
    BY <1>1, <1>2, <1>3, <2>2
  <2>. QED
    BY <2>3, <2>4 DEF Traceable, Cell
<1>. QED
  BY <1>4, <1>5, <1>6 DEF Traceable

\* The cells stay traced.
LEMMA StepTraced == ASSUME ReadInv, CellsTraced, [Next]_vars PROVE CellsTraced'
<1>1. /\ stripes' = stripes /\ curStripe \in Nat /\ curStripe' \in Nat
      /\ curStripe <= curStripe' /\ short \subseteq short'
      /\ \A s, c : Borrows(s, c) => Borrows(s, c)'
  BY StaysBorrowed
<1>2. \A s, c : Has(s, c)' = Has(s, c) /\ Stream(s, c)' = Stream(s, c)
  BY <1>1, SameStripes
<1>3. ASSUME NEW c \in Column, NEW k \in 0 .. data'[c].capacity - 1
      PROVE  Traceable(c, k)'
  <2>1. CASE k \in 0 .. data[c].capacity - 1 /\ data'[c].cells[k] = data[c].cells[k]
    BY <2>1, StaysTraceable DEF CellsTraced
  <2>2. CASE data'[c].cells[k] = Zero
    BY <2>2 DEF Traceable
  <2>3. CASE c = col /\ pc # "idle" /\ curStripe' = curStripe
    <3>1. curStripe \in 1 .. curStripe /\ stripes \in Tables /\ curStripe \in 1 .. Len(stripes)
      BY <2>3 DEF ReadInv, Inv, Types
    <3>2. CASE Has(curStripe, c) /\ data'[c].cells[k] = Cell(curStripe, Stream(curStripe, c), k)
      <4>1. Stream(curStripe, c) \in DOMAIN stripes[curStripe].streams
        BY <3>1, <3>2, StreamFound
      <4>2. \E s \in 1 .. curStripe' : \E i \in DOMAIN stripes'[s].streams :
              data'[c].cells[k] = Cell(s, i, k) /\ Has(s, c)' /\ i = Stream(s, c)'
        BY <1>1, <1>2, <2>3, <3>1, <3>2, <4>1
      <4>. QED
        BY <4>2, Zenon DEF Traceable, Cell
    <3>3. ASSUME columns[c].rle,
                 \/ <<curStripe, c>> \in short'
                 \/ ~Has(curStripe, c) /\ \E e \in Column : e < c /\ Has(curStripe, e),
                 \/ data'[c].cells[k] = Garbage
                 \/ \E s \in 1 .. curStripe : \E i \in DOMAIN stripes[s].streams :
                      data'[c].cells[k] = Cell(s, i, k)
          PROVE  Traceable(c, k)'
      <4>1. (\E e \in Column : e < c /\ Has(curStripe, e)) => \E e \in 1 .. c-1 : Has(curStripe, e)
        BY ColumnTypes
      <4>2. Borrows(curStripe, c)'
        BY <1>2, <2>3, <3>3, <4>1 DEF Borrows
      <4>3. \A s \in 1 .. curStripe : curStripe \in s .. curStripe
        BY <1>1
      <4>4. CASE data'[c].cells[k] = Garbage
        <5>1. \E t \in 1 .. curStripe' : Borrows(t, c)'
          BY <2>3, <3>1, <4>2
        <5>. QED
          BY <4>4, <5>1 DEF Traceable
      <4>5. CASE \E s \in 1 .. curStripe : \E i \in DOMAIN stripes[s].streams :
                   data'[c].cells[k] = Cell(s, i, k)
        <5>1. \E s \in 1 .. curStripe' : \E i \in DOMAIN stripes'[s].streams :
                data'[c].cells[k] = Cell(s, i, k) /\ \E t \in s .. curStripe' : Borrows(t, c)'
          BY <1>1, <2>3, <4>2, <4>3, <4>5
        <5>. QED
          BY <5>1 DEF Traceable, Cell
      <4>. QED
        BY <3>3, <4>4, <4>5
    <3>. QED
      BY <2>1, <2>2, <2>3, <3>2, <3>3, Origin
  <2>. QED
    BY <2>1, <2>2, <2>3, Origin
<1>. QED
  BY <1>3 DEF CellsTraced, Column

\* A new batch is zero.
LEMMA InitTraced == Init => CellsTraced
<1>. SUFFICES ASSUME Init, NEW c \in Column, NEW k \in 0 .. data[c].capacity - 1
              PROVE  data[c].cells[k] = Zero
  BY DEF CellsTraced, Traceable
<1>1. RowBytes * BatchRows \in Nat
  BY StripeAssumption, Bytes
<1>2. data[c] = New(RowBytes * BatchRows)
  BY DEF Init
<1>. QED
  BY <1>1, <1>2, NewCells

\* The values of a column that is done stay what they are, and those of a column
\* that becomes done are what they should be.
LEMMA StepShows == ASSUME ReadInv, ShowsItsValues, [Next]_vars PROVE ShowsItsValues'
<1>1. /\ stripes' = stripes /\ short \subseteq short' /\ stripes \in Tables
  BY StaysBorrowed DEF ReadInv, Inv, Types
<1>2. CASE NextStripe
  <2>1. Done' = {}
    BY <1>2, ColumnTypes DEF NextStripe, Done, Column
  <2>. QED
    BY <2>1 DEF ShowsItsValues
<1>3. ASSUME curStripe' = curStripe,
             \A c \in Done' : c \in Done /\ data'[c] = data[c]
      PROVE  ShowsItsValues'
  <2>1. \A c : /\ Has(curStripe, c)' = Has(curStripe, c)
               /\ Stream(curStripe, c)' = Stream(curStripe, c)
               /\ Values(curStripe, c)' = Values(curStripe, c)
    BY <1>1, <1>3, SameStripe
  <2>. QED
    BY <1>1, <1>3, <2>1 DEF ShowsItsValues, Cell
<1>4. ASSUME pc # "idle", curStripe' = curStripe, col' = col + 1,
             \A c \in Column : c # col => data'[c] = data[c],
             Has(curStripe, col) /\ <<curStripe, col>> \notin short' =>
               \A k \in 0 .. Values(curStripe, col) * columns[col].width - 1 :
                 data'[col].cells[k] = Cell(curStripe, Stream(curStripe, col), k)
      PROVE  ShowsItsValues'
  <2>1. \A c : /\ Has(curStripe, c)' = Has(curStripe, c)
               /\ Stream(curStripe, c)' = Stream(curStripe, c)
               /\ Values(curStripe, c)' = Values(curStripe, c)
    BY <1>1, <1>4, SameStripe
  <2>2. \A c \in Done' : c \in Column /\ (c = col \/ (c \in Done /\ c # col))
    <3>1. col \in Nat /\ Column \subseteq Nat /\ Column' = Column
      BY ColumnTypes DEF ReadInv, Inv, Types, Column
    <3>. QED
      BY <1>4, <3>1 DEF Done
  <2>3. ASSUME NEW c \in Done', Has(curStripe, c), <<curStripe, c>> \notin short'
        PROVE  \A k \in 0 .. Values(curStripe, c) * columns[c].width - 1 :
                 data'[c].cells[k] = Cell(curStripe, Stream(curStripe, c), k)
    <3>1. CASE c = col
      BY <1>4, <2>3, <3>1
    <3>2. CASE c \in Done /\ c # col
      <4>1. data'[c] = data[c]
        BY <1>4, <2>2, <3>2
      <4>. QED
        BY <1>1, <2>3, <3>2, <4>1 DEF ShowsItsValues
    <3>. QED
      BY <2>2, <3>1, <3>2
  <2>. QED
    BY <1>4, <2>1, <2>3 DEF ShowsItsValues, Cell
<1>a. ASSUME pc # "idle"
      PROVE  /\ col \in Column /\ curStripe \in 1 .. Len(stripes) /\ DOMAIN data = Column
             /\ data[col].capacity \in Nat /\ Sound(data[col]) /\ datasize \in Nat
             /\ stripes[curStripe].rows * RowBytes <= data[col].capacity
  BY <1>a DEF ReadInv, Inv, Types, Roomy, Buffers
<1>5. CASE ReadPlain
  <2>1. /\ pc = "read" /\ curStripe' = curStripe /\ col' = col + 1 /\ ~columns[col].rle
    BY <1>5 DEF ReadPlain, Advance
  <2>2. PICK m \in Delivered : data' = [data EXCEPT ![col] = Read(data[col], m)]
                               /\ short' = Shortened(m)
    BY <1>5 DEF ReadPlain
  <2>3. ASSUME Has(curStripe, col), <<curStripe, col>> \notin short'
        PROVE  \A k \in 0 .. Values(curStripe, col) * columns[col].width - 1 :
                 data'[col].cells[k] = Cell(curStripe, Stream(curStripe, col), k)
    <3>1. data'[col] = Read(data[col], m)
      BY <1>a, <2>1, <2>2
    <3>0. Types /\ Sound(data[col]) /\ datasize \in Nat
      BY <1>a, <2>1 DEF ReadInv, Inv
    <3>2. m = Length
      BY <2>1, <2>2, <2>3, <3>0, ReadTwoWays
    <3>3. /\ Length = stripes[curStripe].streams[Stream(curStripe, col)].length /\ Length \in Nat
          /\ \A k \in 0 .. m - 1 :
               Read(data[col], m).cells[k] = Cell(curStripe, Stream(curStripe, col), k)
      BY <2>1, <2>3, <3>0, ReadCells
    <3>4. /\ Values(curStripe, col) * columns[col].width \in Nat
          /\ Values(curStripe, col) * columns[col].width <= Length
      BY <1>1, <1>a, <2>1, <2>3, <3>3, ValuesFit
    <3>5. PICK n \in Nat : n = Values(curStripe, col) * columns[col].width
      BY <3>4
    <3>6. \A k \in 0 .. n - 1 : k \in 0 .. m - 1
      BY <3>2, <3>3, <3>4, <3>5
    <3>. QED
      BY <3>1, <3>3, <3>5, <3>6
  <2>4. \A c \in Column : c # col => data'[c] = data[c]
    BY <1>a, <2>1, <2>2
  <2>. QED
    BY <1>4, <2>1, <2>3, <2>4
<1>6. CASE DecodeColumn
  <2>1. /\ pc = "decode" /\ curStripe' = curStripe /\ col' = col + 1 /\ short' = short
        /\ data' = Decode(col)
    BY <1>6 DEF DecodeColumn, Advance
  <2>2. ASSUME Has(curStripe, col), <<curStripe, col>> \notin short
        PROVE  \A k \in 0 .. Values(curStripe, col) * columns[col].width - 1 :
                 data'[col].cells[k] = Cell(curStripe, Stream(curStripe, col), k)
    <3>. DEFINE i == Stream(curStripe, col)
                n == Values(curStripe, col) * columns[col].width
                f == [k \in 0 .. n-1 |-> Cell(curStripe, i, k)]
    <3>1. /\ n \in Nat
          /\ (n = 0 /\ data' = data) \/ data' = [data EXCEPT ![col] = Fill(data[col], n, f)]
      BY <2>1, <2>2, DecodeOwn
    <3>2. n <= data[col].capacity
      <4>1. n <= stripes[curStripe].rows * RowBytes
        BY <1>1, <1>a, <2>1, <2>2, ValuesFit
      <4>2. stripes[curStripe].rows * RowBytes \in Nat
        BY <1>1, <1>a, <2>1, StripeTypes, StripeAssumption, Bytes
      <4>3. ASSUME NEW x \in Nat, NEW y \in Nat, NEW z \in Nat, x <= y, y <= z PROVE x <= z
        BY <4>3
      <4>. HIDE DEF n
      <4>. QED
        BY <1>a, <2>1, <3>1, <4>1, <4>2, <4>3
    <3>3. ASSUME NEW k \in 0 .. n - 1 PROVE data'[col].cells[k] = Cell(curStripe, i, k)
      <4>1. f[k] = Cell(curStripe, i, k)
        OBVIOUS
      <4>2. n # 0 /\ k < n /\ k \in 0 .. data[col].capacity - 1
        <5>. HIDE DEF n
        <5>. QED
          BY <1>a, <2>1, <3>1, <3>2
      <4>. HIDE DEF n, f
      <4>3. data'[col] = Fill(data[col], n, f)
        BY <1>a, <2>1, <3>1, <4>2
      <4>4. Sound(data[col])
        BY <1>a, <2>1
      <4>. QED
        BY <3>1, <4>1, <4>2, <4>3, <4>4, FillCells
    <3>. QED
      BY <3>3
  <2>3. \A c \in Column : c # col => data'[c] = data[c]
    <3>1. data' = data \/ \E n, f : data' = [data EXCEPT ![col] = Fill(data[col], n, f)]
      BY <2>1, DecodeStores
    <3>. QED
      BY <1>a, <2>1, <3>1
  <2>. QED
    BY <1>4, <2>1, <2>2, <2>3
<1>7. CASE ReadEncoded \/ Ended \/ UNCHANGED vars
  BY <1>3, <1>7 DEF ReadEncoded, Ended, vars, Done, Column
<1>. QED
  BY <1>2, <1>5, <1>6, <1>7 DEF Next

\* The bytes of the rows are within a column.
LEMMA RowsWithin ==
  ASSUME ReadInv, NEW c \in Column
  PROVE  /\ \A k \in 0 .. rownumber * RowBytes - 1 : k \in 0 .. data[c].capacity - 1
         /\ \A k \in 0 .. rownumber * columns[c].width - 1 : k \in 0 .. data[c].capacity - 1
<1>. DEFINE w == columns[c].width
<1>1. /\ w \in Nat /\ w <= RowBytes /\ RowBytes \in Nat /\ rownumber \in Nat
      /\ data[c].capacity \in Nat /\ data[c].capacity >= rownumber * RowBytes
  BY ColumnTypes, StripeAssumption DEF ReadInv, Inv, Types, Roomy
<1>. HIDE DEF w
<1>2. rownumber * RowBytes \in Nat /\ rownumber * w \in Nat
  BY <1>1, Bytes
<1>3. rownumber * w <= rownumber * RowBytes
  BY <1>1
<1>4. ASSUME NEW x \in Nat, NEW y \in Nat, x <= y
      PROVE  \A k \in 0 .. x - 1 : k \in 0 .. y - 1
  BY <1>4
<1>5. PICK a \in Nat, b \in Nat : a = rownumber * RowBytes /\ b = rownumber * w
  BY <1>2
<1>6. a <= data[c].capacity /\ b <= data[c].capacity
  BY <1>1, <1>3, <1>5
<1>. QED
  BY <1>1, <1>4, <1>5, <1>6 DEF w

\* nextBatch and what it has read stay consistent.
THEOREM Consistent == Spec => []ReadInv
<1>1. ReadInv /\ [Next]_vars => ReadInv'
  BY StepReadInv
<1>. QED
  BY InitReadInv, <1>1, PTL DEF Spec

\* Every column that nextBatch is done with shows the values of its own stream in
\* this stripe, whatever the columns before it have left in databuf and datasize
\* and whichever reads fell short, for all columns, stripes and orders of streams.
THEOREM Shows == Spec => []ShowsItsValues
<1>1. Init => ShowsItsValues
  <2>1. Init => Done = {}
    BY ColumnTypes DEF Init, Done
  <2>. QED
    BY <2>1 DEF ShowsItsValues
<1>2. ReadInv /\ ShowsItsValues /\ [Next]_vars => ShowsItsValues'
  BY StepShows
<1>. QED
  BY <1>1, <1>2, Consistent, PTL DEF Spec

\* Every cell of every column can be traced, whether it is shown or not.
THEOREM Traced == Spec => []CellsTraced
<1>1. ReadInv /\ CellsTraced /\ [Next]_vars => CellsTraced'
  BY StepTraced
<1>. QED
  BY InitTraced, <1>1, Consistent, PTL DEF Spec

\* Where the stripe has no value for a row, the column shows zero or what one of
\* its own streams has put there.
THEOREM Leftovers == Spec => []LeftoversAreItsOwn
<1>1. ReadInv /\ CellsTraced => LeftoversAreItsOwn
  <2>. SUFFICES ASSUME ReadInv, CellsTraced,
                       NEW c \in Done, columns[c].rle => AllHave(c) /\ ~EverShort(c),
                       NEW k \in 0 .. rownumber * columns[c].width - 1
                PROVE  \/ data[c].cells[k] = Zero
                       \/ \E s \in 1 .. curStripe :
                            Has(s, c) /\ data[c].cells[k] = Cell(s, Stream(s, c), k)
    BY Zenon DEF LeftoversAreItsOwn
  <2>1. c \in Column /\ k \in 0 .. data[c].capacity - 1
    BY RowsWithin DEF Done
  <2>2. \A t \in 1 .. curStripe : ~Borrows(t, c)
    BY DEF Borrows, AllHave, EverShort
  <2>3. \A s \in 1 .. curStripe : s .. curStripe \subseteq 1 .. curStripe
    BY DEF ReadInv, Inv, Types
  <2>4. Traceable(c, k)
    BY <2>1 DEF CellsTraced
  <2>. QED
    BY <2>2, <2>3, <2>4 DEF Traceable
<1>. QED
  BY <1>1, Consistent, Traced, PTL

\* What a column shows that is not its own it has borrowed, in a stripe that lacks
\* its stream and has that of an earlier column or from which too little was read;
\* and what malloc has left in memory is never shown.
THEOREM Borrowed == Spec => []BorrowsOnlyFromEarlier
<1>1. ReadInv /\ CellsTraced => BorrowsOnlyFromEarlier
  BY RowsWithin DEF BorrowsOnlyFromEarlier, CellsTraced, Done
<1>. QED
  BY <1>1, Consistent, Traced, PTL

-----------------------------------------------------------------------------
(***************************************************************************)
(* DataBuffer implements Vector, for every bound and every set of values.  *)
(***************************************************************************)
\* The shape of a buffer in use; BufTypeOK and NoJunk without the bound.
Shape(b) ==
  /\ b = Buffer(b.size, b.capacity, b.cells)
  /\ b.size \in Nat /\ b.capacity \in Nat /\ b.size <= b.capacity
  /\ b.cells \in [0 .. b.capacity - 1 -> Value \cup {Junk}]

Clean(b) == \A k \in 0 .. b.size - 1 : b.cells[k] \in Value

BufInv ==
  /\ Shape(buf)
  /\ buf.capacity <= MaxSize
  /\ Clean(buf)

\* The fields of a buffer.
LEMMA BufferFields ==
  ASSUME NEW n, NEW m, NEW f
  PROVE  /\ Buffer(n, m, f).size = n
         /\ Buffer(n, m, f).capacity = m
         /\ Buffer(n, m, f).cells = f
  BY DEF Buffer

\* reserve keeps the contents, whether or not the memory moves.
LEMMA ReserveFacts ==
  ASSUME NEW b, Shape(b), NEW n \in Nat
  PROVE  /\ Shape(Reserve(b, n))
         /\ Reserve(b, n).size = b.size
         /\ Reserve(b, n).capacity = IF n > b.capacity THEN n ELSE b.capacity
         /\ \A k \in 0 .. b.size - 1 : Reserve(b, n).cells[k] = b.cells[k]
<1>1. CASE n > b.capacity
  <2>. DEFINE moved == [k \in 0 .. n-1 |-> IF k < b.size THEN b.cells[k] ELSE Junk]
  <2>1. Reserve(b, n) = Buffer(b.size, n, moved)
    BY <1>1 DEF Reserve
  <2>2. \A k \in 0 .. n-1 : k < b.size => b.cells[k] \in Value \cup {Junk}
    BY <1>1 DEF Shape
  <2>3. \A k \in 0 .. n-1 : (IF k < b.size THEN b.cells[k] ELSE Junk) \in Value \cup {Junk}
    BY <2>2, Zenon
  <2>4. moved \in [0 .. n-1 -> Value \cup {Junk}]
    BY <2>3, Zenon
  <2>5. b.size \in Nat /\ b.capacity \in Nat /\ b.size <= b.capacity
    BY DEF Shape
  <2>6. \A k \in 0 .. b.size - 1 : k \in 0 .. n-1 /\ k < b.size
    BY <1>1, <2>5
  <2>7. \A k \in 0 .. b.size - 1 : moved[k] = b.cells[k]
    BY <2>6, Zenon
  <2>8. b.size <= n
    BY <1>1, <2>5
  <2>. HIDE DEF moved
  <2>9. /\ Reserve(b, n).size = b.size /\ Reserve(b, n).capacity = n
        /\ Reserve(b, n).cells = moved
    BY <2>1 DEF Buffer
  <2>10. Reserve(b, n) = Buffer(Reserve(b, n).size, Reserve(b, n).capacity, Reserve(b, n).cells)
    BY <2>1, <2>9, Zenon
  <2>. QED
    BY <1>1, <2>4, <2>5, <2>7, <2>8, <2>9, <2>10, Zenon DEF Shape
<1>2. CASE ~(n > b.capacity)
  <2>1. Reserve(b, n) = b
    BY <1>2 DEF Reserve
  <2>2. QED
    BY <1>2, <2>1
<1>3. QED
  BY <1>1, <1>2

\* resize keeps the contents up to the new size and fills the rest with zeros.
LEMMA ResizeFacts ==
  ASSUME NEW b, Shape(b), Clean(b), NEW n \in Nat
  PROVE  /\ Shape(Resize(b, n)) /\ Clean(Resize(b, n))
         /\ Resize(b, n).size = n
         /\ Resize(b, n).capacity = IF n > b.capacity THEN n ELSE b.capacity
         /\ \A k \in 0 .. n-1 :
              Resize(b, n).cells[k] = IF k < b.size THEN b.cells[k] ELSE Zero
<1> DEFINE r == Reserve(b, n)
           c == [k \in 0 .. r.capacity - 1 |->
                   IF b.size <= k /\ k < n THEN Zero ELSE r.cells[k]]
<1>1. /\ Shape(r) /\ r.size = b.size
      /\ r.capacity = IF n > b.capacity THEN n ELSE b.capacity
      /\ \A k \in 0 .. b.size - 1 : r.cells[k] = b.cells[k]
  BY ReserveFacts
<1>2. Resize(b, n) = Buffer(n, r.capacity, c)
  BY DEF Resize
<1>3. n <= r.capacity /\ r.capacity \in Nat /\ b.size \in Nat
  BY <1>1 DEF Shape
<1>4. c \in [0 .. r.capacity - 1 -> Value \cup {Junk}]
  BY <1>1, BufferAssumption DEF Shape
<1>5. \A k \in 0 .. n-1 : c[k] = IF k < b.size THEN b.cells[k] ELSE Zero
  BY <1>1, <1>3
<1>6. \A k \in 0 .. n-1 : c[k] \in Value
  <2> HIDE DEF r, c
  <2>1. \A k \in 0 .. n-1 : k < b.size => k \in 0 .. b.size - 1
    BY <1>3
  <2>2. QED
    BY <1>5, <2>1, BufferAssumption DEF Clean
<1>7. QED
  <2> HIDE DEF r, c
  <2>1. /\ Resize(b, n).size = n /\ Resize(b, n).capacity = r.capacity
        /\ Resize(b, n).cells = c
    BY <1>2, BufferFields
  <2>2. Shape(Resize(b, n))
    BY <1>2, <1>3, <1>4, <2>1 DEF Shape
  <2>3. QED
    BY <1>1, <1>5, <1>6, <2>1, <2>2 DEF Clean

\* A new buffer has its shape, fits the bound and holds zeros.
LEMMA BufferStarts == BufInit => BufInv
<1>1. SUFFICES ASSUME NEW n \in 0 .. MaxSize, buf = New(n) PROVE BufInv
  BY DEF BufInit
<1>2. n \in Nat /\ n <= MaxSize
  BY BufferAssumption
<1>3. buf = Buffer(n, n, [k \in 0 .. n-1 |-> Zero])
  BY <1>1 DEF New
<1>4. buf.size = n /\ buf.capacity = n /\ buf.cells = [k \in 0 .. n-1 |-> Zero]
  BY <1>3, BufferFields
<1>5. Shape(buf)
  BY <1>2, <1>3, <1>4, BufferAssumption DEF Shape
<1>6. QED
  BY <1>2, <1>4, <1>5, BufferAssumption DEF BufInv, Clean

\* Storing through data().
LEMMA StoreFacts ==
  ASSUME Shape(buf), Clean(buf), NEW k \in Nat, NEW v \in Value, store(k, v)
  PROVE  /\ Shape(buf') /\ Clean(buf')
         /\ buf'.size = buf.size /\ buf'.capacity = buf.capacity
         /\ buf'.cells = [buf.cells EXCEPT ![k] = v]
<1>1. buf' = Buffer(buf.size, buf.capacity, [buf.cells EXCEPT ![k] = v])
  BY DEF store
<1>2. /\ buf'.size = buf.size /\ buf'.capacity = buf.capacity
      /\ buf'.cells = [buf.cells EXCEPT ![k] = v]
  BY <1>1, BufferFields
<1>3. k \in 0 .. buf.capacity - 1
  BY DEF store, Shape
<1>4. [buf.cells EXCEPT ![k] = v] \in [0 .. buf.capacity - 1 -> Value \cup {Junk}]
  BY <1>3 DEF Shape
<1>5. Shape(buf')
  BY <1>1, <1>2, <1>4 DEF Shape
<1>6. Clean(buf')
  BY <1>2 DEF Clean, Shape
<1>7. QED
  BY <1>2, <1>5, <1>6

\* resize, reserve and stores keep shape, bound and clean contents.
LEMMA StepKeepsBufInv == BufInv /\ [BufNext]_buf => BufInv'
<1>1. SUFFICES ASSUME BufInv, [BufNext]_buf PROVE BufInv'
  OBVIOUS
<1>2. Shape(buf) /\ Clean(buf) /\ buf.capacity <= MaxSize /\ MaxSize \in Nat
  BY <1>1, BufferAssumption DEF BufInv
<1>3. ASSUME NEW n \in 0 .. MaxSize, resize(n) PROVE BufInv'
  <2>1. n \in Nat /\ n <= MaxSize /\ buf' = Resize(buf, n)
    BY <1>2, <1>3 DEF resize
  <2>2. /\ Shape(Resize(buf, n)) /\ Clean(Resize(buf, n))
        /\ Resize(buf, n).capacity <= MaxSize
    BY <1>2, <2>1, ResizeFacts DEF Shape
  <2>3. QED
    BY <2>1, <2>2 DEF BufInv
<1>4. ASSUME NEW n \in 0 .. MaxSize, reserve(n) PROVE BufInv'
  <2>1. n \in Nat /\ n <= MaxSize /\ buf' = Reserve(buf, n)
    BY <1>2, <1>4 DEF reserve
  <2>2. /\ Shape(buf') /\ buf'.size = buf.size /\ buf'.capacity <= MaxSize
        /\ \A k \in 0 .. buf.size - 1 : buf'.cells[k] = buf.cells[k]
    BY <1>2, <2>1, ReserveFacts
  <2>3. \A k \in 0 .. buf'.size - 1 : buf'.cells[k] \in Value
    BY <1>2, <2>2 DEF Clean
  <2>4. QED
    BY <2>2, <2>3 DEF BufInv, Clean
<1>5. ASSUME NEW k \in 0 .. MaxSize, NEW v \in Value, store(k, v) PROVE BufInv'
  <2>1. k \in Nat
    BY <1>2
  <2>2. /\ Shape(buf') /\ Clean(buf') /\ buf'.capacity = buf.capacity
    BY <1>2, <1>5, <2>1, StoreFacts
  <2>3. QED
    BY <1>2, <2>2 DEF BufInv
<1>6. QED
  BY <1>1, <1>3, <1>4, <1>5 DEF BufNext, BufInv, Shape, Clean

\* The inductive invariant: the shape of the buffer and contents without junk.
THEOREM BufferInvariance == BufSpec => []BufInv
<1>1. QED
  BY BufferStarts, StepKeepsBufInv, PTL DEF BufSpec

\* The shape of a DataBuffer (MemoryPool.h), within the bound.
THEOREM BufferTypes == BufSpec => []BufTypeOK
<1>1. BufInv => BufTypeOK
  <2>. SUFFICES ASSUME BufInv PROVE BufTypeOK
    OBVIOUS
  <2>1. /\ buf = Buffer(buf.size, buf.capacity, buf.cells)
        /\ buf.size \in 0 .. MaxSize /\ buf.capacity \in 0 .. MaxSize /\ buf.size <= buf.capacity
        /\ buf.cells \in [0 .. buf.capacity - 1 -> Value \cup {Junk}]
    BY BufferAssumption DEF BufInv, Shape
  <2>2. buf.cells \in UNION {[0 .. n-1 -> Value \cup {Junk}] : n \in 0 .. MaxSize}
    BY <2>1
  <2>. QED
    BY <2>1, <2>2 DEF BufTypeOK, Buffer
<1>. QED
  BY <1>1, BufferInvariance, PTL

\* What malloc leaves in memory never becomes contents of a DataBuffer
\* (MemoryPool.cpp:86-99, 193-207).
THEOREM ContentsClean == BufSpec => []NoJunk
<1>1. BufInv => NoJunk
  BY DEF BufInv, Clean, NoJunk
<1>2. QED
  BY <1>1, BufferInvariance, PTL

\* Growing, shrinking and moving a DataBuffer is invisible but for the contents:
\* every behaviour is one of Vector.
THEOREM BufferRefinement == BufSpec => ImplementsVector
<1>1. BufInit => V!Init
  <2>1. SUFFICES ASSUME NEW n \in 0 .. MaxSize, buf = New(n), BufInv PROVE V!Init
    BY BufferStarts DEF BufInit
  <2>2. Shape(buf) /\ Clean(buf)
    BY <2>1 DEF BufInv
  <2>3. buf.size = n /\ \A k \in 0 .. n-1 : buf.cells[k] = Zero
    BY <2>1, BufferFields DEF New
  <2>4. QED
    BY <2>1, <2>3 DEF V!Init, Contents
<1>2. BufInv /\ [BufNext]_buf => [V!Next]_Contents
  <2>1. SUFFICES ASSUME BufInv, [BufNext]_buf PROVE [V!Next]_Contents
    OBVIOUS
  <2>2. Shape(buf) /\ Clean(buf) /\ MaxSize \in Nat
    BY <2>1, BufferAssumption DEF BufInv
  <2>3. ASSUME NEW n \in 0 .. MaxSize, resize(n) PROVE V!Resize(n)
    <3>1. /\ buf'.size = n /\ n \in Nat
          /\ \A k \in 0 .. n-1 : buf'.cells[k] = IF k < buf.size THEN buf.cells[k] ELSE Zero
      <4>1. n \in Nat /\ buf' = Resize(buf, n)
        BY <2>2, <2>3 DEF resize
      <4>2. /\ Resize(buf, n).size = n
            /\ \A k \in 0 .. n-1 :
                 Resize(buf, n).cells[k] = IF k < buf.size THEN buf.cells[k] ELSE Zero
        BY <2>2, <4>1, ResizeFacts
      <4>3. QED
        BY <4>1, <4>2
    <3>2. \A k \in 0 .. n-1 : k \in DOMAIN Contents <=> k < buf.size
      BY <2>2 DEF Contents, Shape
    <3>3. Contents' = [k \in 0 .. n-1 |-> buf'.cells[k]]
      BY <3>1 DEF Contents
    <3>4. \A k \in 0 .. n-1 :
            buf'.cells[k] = IF k \in DOMAIN Contents THEN Contents[k] ELSE Zero
      BY <2>2, <3>1, <3>2 DEF Contents, Shape
    <3>5. QED
      BY <3>3, <3>4 DEF V!Resize
  <2>4. ASSUME NEW n \in 0 .. MaxSize, reserve(n) PROVE UNCHANGED Contents
    <3>1. n \in Nat /\ buf' = Reserve(buf, n)
      BY <2>2, <2>4 DEF reserve
    <3>2. /\ buf'.size = buf.size
          /\ \A k \in 0 .. buf.size - 1 : buf'.cells[k] = buf.cells[k]
      BY <2>2, <3>1, ReserveFacts
    <3>3. QED
      BY <3>2 DEF Contents
  <2>5. ASSUME NEW k \in 0 .. MaxSize, NEW v \in Value, store(k, v)
        PROVE  V!Store(k, v) \/ UNCHANGED Contents
    <3>1. /\ buf'.size = buf.size /\ buf'.cells = [buf.cells EXCEPT ![k] = v]
          /\ k \in 0 .. buf.capacity - 1
          /\ buf.cells \in [0 .. buf.capacity - 1 -> Value \cup {Junk}]
          /\ buf.size \in Nat /\ buf.capacity \in Nat /\ buf.size <= buf.capacity
      <4>1. k \in Nat /\ k < buf.capacity
        BY <2>2, <2>5 DEF store
      <4>2. QED
        BY <2>2, <2>5, <4>1, StoreFacts DEF Shape
    <3>2. \A j \in 0 .. buf.size - 1 :
            buf'.cells[j] = IF j = k THEN v ELSE buf.cells[j]
      BY <3>1
    <3>3. CASE k < buf.size
      <4>1. k \in DOMAIN Contents
        BY <3>1, <3>3 DEF Contents
      <4>2. Contents' = [Contents EXCEPT ![k] = v]
        BY <3>1, <3>2, <3>3 DEF Contents
      <4>3. QED
        BY <4>1, <4>2 DEF V!Store
    <3>4. CASE ~(k < buf.size)
      BY <3>1, <3>2, <3>4 DEF Contents
    <3>5. QED
      BY <3>3, <3>4
  <2>6. CASE UNCHANGED buf
    BY <2>6 DEF Contents
  <2>7. QED
    BY <2>1, <2>3, <2>4, <2>5, <2>6 DEF BufNext, V!Next
<1>3. QED
  BY <1>1, <1>2, BufferInvariance, PTL DEF BufSpec, ImplementsVector, V!Spec
=============================================================================
