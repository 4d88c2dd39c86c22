------------------------------ MODULE StripeRead ------------------------------
(***************************************************************************)
(* How one scanner fills its batch: ORCScanner::nextBatch from the point   *)
(* where a file is open (src/exec/ORCScanner.cpp:64-184), with             *)
(* Reader::readdata (src/orcreader/ORCReader.cpp:100-125), Batch           *)
(* (include/ORCColumnInfo.h:442-534) and DataBuffer.                       *)
(*                                                                         *)
(* The batch, databuf and the local datasize are reused from column to     *)
(* column and from stripe to stripe, so the question is whose data a       *)
(* column shows.  A cell therefore holds where its data came from: Cell(s, *)
(* i, k) is cell k of stream i of stripe s, as bytes in databuf and in a   *)
(* column that is not run-length encoded, as decoded values in one that    *)
(* is.  What decoding computes is the subject of Rle2.                     *)
(***************************************************************************)
EXTENDS DataBuffer, Sequences, FiniteSetsExt

CONSTANTS
  columns,      \* sequence of [rle, kind, width]: the columns scanned
  Tables,       \* sequences of stripes, each [rows, streams]; a stream is a
                \* [column, kind, length, count]
  RowBytes,     \* bytes the batch keeps for a row (8)
  BatchRows,    \* rows a new batch has room for (1000000)
  DatabufBytes, \* bytes databuf starts with (100)
  MaxShort,     \* bound: reads that deliver less than they were asked for
  Garbage       \* what decoding makes of bytes that are no stream

ASSUME StripeAssumption ==
  /\ RowBytes \in Nat /\ BatchRows \in Nat /\ DatabufBytes \in Nat /\ MaxShort \in Nat
  /\ columns \in Seq([rle : BOOLEAN, kind : STRING, width : Nat]) /\ columns # <<>>
  /\ Tables \subseteq Seq([rows : Nat,
                          streams : Seq([column : Nat, kind : STRING, length : Nat, count : Nat])])

\* What an ORC writer sees to and nextBatch relies on: a column has at most a
\* value for every row of the stripe, its stream is not empty if it has values, and
\* holds all their bytes if it is not encoded.  Eight bytes a row are enough for
\* every type, and bytes that are no stream do not decode to one.
ASSUME WriterAssumption ==
  /\ \A c \in DOMAIN columns : columns[c].width <= RowBytes
  /\ \A t \in Tables : \A s \in DOMAIN t : \A i \in DOMAIN t[s].streams :
       LET st == t[s].streams[i]
       IN \A c \in DOMAIN columns : st.column = c /\ st.kind = columns[c].kind =>
            /\ st.count <= t[s].rows
            /\ st.count > 0 => st.length > 0
            /\ ~columns[c].rle => st.count * columns[c].width <= st.length
  /\ Garbage \notin Nat \X Nat \X Nat

VARIABLES
  stripes,    \* the stripes of the files served to this scanner, in order
  curStripe,  \* the stripe being read; 0 before the first
  pc,         \* "idle", "read" or "decode"
  col,        \* the column the loop of nextBatch has come to
  datasize, databuf,
  data, rownumber, \* of the batch
  short       \* history: <<stripe, column>> of which not all bytes were read

vars == <<stripes, curStripe, pc, col, datasize, databuf, data, rownumber, short>>

Column == DOMAIN columns
Cell(s, i, k) == <<s, i, k>>

Init ==
  /\ stripes \in Tables
  /\ curStripe = 0 /\ pc = "idle" /\ col = 1 /\ datasize = 0
  /\ databuf = New(DatabufBytes)
  /\ data = [c \in Column |-> New(RowBytes * BatchRows)]
  /\ rownumber = 0 /\ short = {}
-----------------------------------------------------------------------------
(***************************************************************************)
(* Reader::readdata.  The streams of a stripe lie one after the other.     *)
(***************************************************************************)
Streams == stripes[curStripe].streams

Start(s, i) ==
  LET offset[n \in 0 .. Len(stripes[s].streams)] ==
        IF n = 0 THEN 0 ELSE offset[n-1] + stripes[s].streams[n].length
  IN offset[i-1]

\* What the file has at byte p of the current stripe.
FileByte(p) ==
  LET i == CHOOSE j \in DOMAIN Streams :
             Start(curStripe, j) <= p /\ p < Start(curStripe, j) + Streams[j].length
  IN Cell(curStripe, i, p - Start(curStripe, i))

Matching(s, c) ==
  {i \in DOMAIN stripes[s].streams :
     /\ stripes[s].streams[i].column = c
     /\ stripes[s].streams[i].kind = columns[c].kind}

\* (faulty variant: the streams before the wanted one are not skipped)
Offset_Start(i) == 0

\* Where readdata reads the stream it has found.
Offset(i) == Start(curStripe, i)

Room(buf, n) == IF buf.capacity < n THEN Resize(buf, n) ELSE buf

\* The length of the first matching stream.
Length == Streams[Min(Matching(curStripe, col))].length

\* The bytes pread delivers: all, or fewer (the file was cut, the disk failed),
\* which FileInputStream::read prints and forgets.
Delivered ==
  IF Matching(curStripe, col) = {} THEN {0}
  ELSE {Length} \cup {m \in {0, Length - 1} : 0 <= m /\ Cardinality(short) < MaxShort}

\* The buffer and datasize after the read of the first matching stream, m bytes
\* of which were delivered; without one, both are as they were.
Read(buf, m) ==
  IF Matching(curStripe, col) = {} THEN buf
  ELSE LET i == Min(Matching(curStripe, col))
       IN Fill(Room(buf, Length), m, [k \in 0 .. m-1 |-> FileByte(Offset(i) + k)])

SizeRead == IF Matching(curStripe, col) = {} THEN datasize ELSE Length

Shortened(m) ==
  IF Matching(curStripe, col) # {} /\ m < Length THEN short \cup {<<curStripe, col>>} ELSE short
-----------------------------------------------------------------------------
(***************************************************************************)
(* nextBatch                                                               *)
(***************************************************************************)
\* (faulty variant of BatchResize: rows are counted, not their bytes)
BatchResize_Rows(rows) ==
  IF rows > rownumber THEN [c \in Column |-> Resize(data[c], rows)] ELSE data

\* Batch::resize: only a stripe with more rows than the last one resizes.
BatchResize(rows) ==
  IF rows > rownumber THEN [c \in Column |-> Resize(data[c], rows * RowBytes)] ELSE data

\* (faulty variant of NextStripe: datasize is kept from the last stripe)
NextStripe_KeepsSize ==
  /\ pc = "idle" /\ curStripe < Len(stripes)
  /\ curStripe' = curStripe + 1
  /\ data' = BatchResize(stripes[curStripe'].rows)
  /\ rownumber' = stripes[curStripe'].rows
  /\ col' = 1 /\ pc' = "read"
  /\ UNCHANGED <<stripes, databuf, datasize, short>>

NextStripe ==
  /\ pc = "idle" /\ curStripe < Len(stripes)
  /\ curStripe' = curStripe + 1
  /\ data' = BatchResize(stripes[curStripe'].rows)
  /\ rownumber' = stripes[curStripe'].rows
  /\ datasize' = 0 /\ col' = 1 /\ pc' = "read"
  /\ UNCHANGED <<stripes, databuf, short>>

\* The loop goes on to the next column; after the last one nextBatch returns.
Advance ==
  /\ col' = col + 1
  /\ pc' = IF col = Len(columns) THEN "idle" ELSE "read"

\* A column that is not run-length encoded is read straight into the batch.
ReadPlain ==
  /\ pc = "read" /\ ~columns[col].rle
  /\ \E m \in Delivered : data' = [data EXCEPT ![col] = Read(@, m)] /\ short' = Shortened(m)
  /\ datasize' = SizeRead
  /\ Advance
  /\ UNCHANGED <<stripes, curStripe, databuf, rownumber>>

\* The bytes of any other column go to databuf first ...
ReadEncoded ==
  /\ pc = "read" /\ columns[col].rle
  /\ \E m \in Delivered : databuf' = Read(databuf, m) /\ short' = Shortened(m)
  /\ datasize' = SizeRead
  /\ pc' = "decode"
  /\ UNCHANGED <<stripes, curStripe, col, data, rownumber>>

\* The streams that the first datasize bytes of databuf are a copy of.
Sources ==
  {si \in UNION {{s} \X DOMAIN stripes[s].streams : s \in 1 .. curStripe} :
     /\ datasize = stripes[si[1]].streams[si[2]].length
     /\ datasize <= databuf.capacity
     /\ \A k \in 0 .. datasize - 1 : databuf.cells[k] = Cell(si[1], si[2], k)}

\* ... and are decoded from there into the batch.
Decode(c) ==
  IF datasize = 0 THEN data
  ELSE IF Sources = {}
    THEN [data EXCEPT ![c] = Fill(@, @.capacity, [k \in 0 .. @.capacity - 1 |-> Garbage])]
    ELSE LET si == CHOOSE si \in Sources : TRUE
             n == stripes[si[1]].streams[si[2]].count * columns[c].width
         IN [data EXCEPT ![c] = Fill(@, n, [k \in 0 .. n-1 |-> Cell(si[1], si[2], k)])]

DecodeColumn ==
  /\ pc = "decode"
  /\ data' = Decode(col)
  /\ Advance
  /\ UNCHANGED <<stripes, curStripe, datasize, databuf, rownumber, short>>

Ended == pc = "idle" /\ curStripe = Len(stripes) /\ UNCHANGED vars

Next == NextStripe \/ ReadPlain \/ ReadEncoded \/ DecodeColumn \/ Ended

Spec == Init /\ [][Next]_vars
-----------------------------------------------------------------------------
(***************************************************************************)
(* Properties                                                              *)
(***************************************************************************)
TypeOK ==
  /\ stripes \in Tables
  /\ curStripe \in 0 .. Len(stripes) /\ col \in 1 .. Len(columns) + 1
  /\ pc \in {"idle", "read", "decode"}
  /\ datasize \in Nat /\ rownumber \in Nat
  /\ \A b \in {databuf} \cup {data[c] : c \in Column} :
       b.size <= b.capacity /\ DOMAIN b.cells = 0 .. b.capacity - 1

\* The columns done with in the current stripe.
Done == {c \in Column : c < col}

\* Streams of a column in a stripe, and values it has there.
Has(s, c) == Matching(s, c) # {}
Stream(s, c) == Min(Matching(s, c))
Values(s, c) == stripes[s].streams[Stream(s, c)].count

\* Every stripe up to the current one has a stream for the column.
AllHave(c) == \A s \in 1 .. curStripe : Has(s, c)

\* Some read of the column fell short.
EverShort(c) == \E s \in 1 .. curStripe : <<s, c>> \in short

\* nextBatch decodes through a bare pointer into the batch, which Batch::resize
\* has sized from the difference between two stripes' row counts: whatever the
\* order of large and small stripes, every column has room for all its rows.
BatchHoldsRows ==
  curStripe > 0 => \A c \in Column : data[c].capacity >= rownumber * RowBytes

\* From the moment a column is done until the next stripe is asked for, its
\* first rows are the values of its own stream in this stripe, whatever the
\* other columns put into databuf and datasize: a read that falls short spoils
\* neither the columns after it nor the next stripe.
ShowsItsValues ==
  \A c \in Done : Has(curStripe, c) /\ <<curStripe, c>> \notin short =>
    \A k \in 0 .. Values(curStripe, c) * columns[c].width - 1 :
      data[c].cells[k] = Cell(curStripe, Stream(curStripe, c), k)

\* A row that the stripe has no value for (the stripe has nulls, of which
\* nextBatch takes no notice) shows zero or an older value of the same column;
\* never memory nobody wrote, never another column.  An encoded column does so as
\* long as no stripe has lacked its stream and no read of it has fallen short; one
\* that is not encoded always does, in the rows too that a read has not delivered.
LeftoversAreItsOwn ==
  \A c \in Done : (columns[c].rle => AllHave(c) /\ ~EverShort(c)) =>
    \A k \in 0 .. rownumber * columns[c].width - 1 :
      \/ data[c].cells[k] = Zero
      \/ \E s \in 1 .. curStripe : Has(s, c) /\ data[c].cells[k] = Cell(s, Stream(s, c), k)

\* In stripe s an encoded column is decoded from what databuf and datasize were
\* left with: the stripe lacks its stream but has that of an earlier column (each
\* call of nextBatch starts from an empty datasize), or the read fell short.
Borrows(s, c) ==
  /\ columns[c].rle
  /\ \/ ~Has(s, c) /\ \E e \in 1 .. c-1 : Has(s, e)
     \/ <<s, c>> \in short

\* Where cell k of a column has come from: nobody has written it since it was
\* zeroed, or a stream of the column has, or else the column has borrowed bytes: of
\* no stream, or of some stream of that stripe or of one before.
Traceable(c, k) ==
  LET cell == data[c].cells[k]
  IN \/ cell = Zero
     \/ cell = Garbage /\ \E t \in 1 .. curStripe : Borrows(t, c)
     \/ \E s \in 1 .. curStripe : \E i \in DOMAIN stripes[s].streams :
          /\ cell = Cell(s, i, k)
          /\ \/ Has(s, c) /\ i = Stream(s, c)
             \/ \E t \in s .. curStripe : Borrows(t, c)

\* A column shows what is not its own only after it has borrowed it, in a stripe no
\* older than what it shows, and never what malloc has left in memory.
BorrowsOnlyFromEarlier ==
  \A c \in Done, k \in 0 .. rownumber * RowBytes - 1 : Traceable(c, k)
=============================================================================
