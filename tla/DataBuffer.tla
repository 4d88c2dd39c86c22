------------------------------ MODULE DataBuffer ------------------------------
(***************************************************************************)
(* tengdb::DataBuffer (include/MemoryPool.h, src/common/MemoryPool.cpp),   *)
(* the growable array behind every column of a batch and behind the bytes  *)
(* read from a file.  A buffer is a record; cells are numbered from 0 and  *)
(* there are capacity of them, of which the first size count as contents.  *)
(***************************************************************************)
EXTENDS Naturals

CONSTANTS
  Zero,  \* what resize puts into new cells
  Junk   \* what malloc leaves in memory

Buffer(n, m, f) == [size |-> n, capacity |-> m, cells |-> f]

\* The constructor: a first resize of no memory at all.
New(n) == Buffer(n, n, [k \in 0 .. n-1 |-> Zero])

\* (faulty variant of Reserve: memory is obtained but the contents not copied)
Reserve_NoCopy(b, n) ==
  IF n > b.capacity THEN Buffer(b.size, n, [k \in 0 .. n-1 |-> Junk]) ELSE b

\* Memory for n cells.  It never shrinks; when it grows, the contents move.
Reserve(b, n) ==
  IF n > b.capacity
    THEN Buffer(b.size, n, [k \in 0 .. n-1 |-> IF k < b.size THEN b.cells[k] ELSE Junk])
    ELSE b

\* (faulty variant of Resize: cells that were in use before keep what they held)
Resize_NoFill(b, n) == Buffer(n, Reserve(b, n).capacity, Reserve(b, n).cells)

\* (faulty variant of Resize: no memory is reserved)
Resize_Unreserved(b, n) == Buffer(n, b.capacity, b.cells)

\* n cells of contents; the new ones are zero.
Resize(b, n) ==
  LET r == Reserve(b, n)
  IN Buffer(n, r.capacity,
            [k \in 0 .. r.capacity - 1 |->
               IF b.size <= k /\ k < n THEN Zero ELSE r.cells[k]])

\* The first n cells are overwritten through data().
Fill(b, n, f) ==
  Buffer(b.size, b.capacity, [k \in DOMAIN b.cells |-> IF k < n THEN f[k] ELSE b.cells[k]])
=============================================================================
