------------------------------- MODULE BufferUse -------------------------------
(***************************************************************************)
(* One DataBuffer and everything its owner can do with it: resize, reserve *)
(* and store into any cell of its memory through data(), which the readers *)
(* also do beyond size.  It implements Vector.                             *)
(***************************************************************************)
EXTENDS DataBuffer

CONSTANTS
  Value,   \* what can be stored
  MaxSize  \* bound: sizes asked for

ASSUME BufferAssumption ==
  /\ MaxSize \in Nat
  /\ Zero \in Value

VARIABLE buf

BufInit == \E n \in 0 .. MaxSize : buf = New(n)

resize(n) == buf' = Resize(buf, n)

reserve(n) == buf' = Reserve(buf, n)

store(k, v) ==
  /\ k < buf.capacity
  /\ buf' = Buffer(buf.size, buf.capacity, [buf.cells EXCEPT ![k] = v])

BufNext ==
  \/ \E n \in 0 .. MaxSize : resize(n) \/ reserve(n)
  \/ \E k \in 0 .. MaxSize, v \in Value : store(k, v)

BufSpec == BufInit /\ [][BufNext]_buf
-----------------------------------------------------------------------------
(***************************************************************************)
(* Properties                                                              *)
(***************************************************************************)
BufTypeOK ==
  /\ buf \in [size : 0 .. MaxSize, capacity : 0 .. MaxSize,
             cells : UNION {[0 .. n-1 -> Value \cup {Junk}] : n \in 0 .. MaxSize}]
  /\ buf.size <= buf.capacity
  /\ DOMAIN buf.cells = 0 .. buf.capacity - 1

\* A cell that counts as contents has been stored to or zeroed: what malloc
\* left in memory never becomes contents, however reserve and resize mix.
NoJunk == \A k \in 0 .. buf.size - 1 : buf.cells[k] \in Value

Contents == [k \in 0 .. buf.size - 1 |-> buf.cells[k]]

V == INSTANCE Vector WITH contents <- Contents

\* The buffer is a vector: no interleaving of resize, reserve and stores past
\* the size shows in the contents.
ImplementsVector == V!Spec
=============================================================================
