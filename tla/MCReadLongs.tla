---------------------------- MODULE MCReadLongs ----------------------------
(* Calls of readLongs on bytes that differ in every bit position.           *)
EXTENDS ReadLongs

Bytes(k) == [n \in 1 .. 12 |-> (37 * n * k + 101 * k) % 256]

SomeCalls ==
  {[data |-> Bytes(k), from |-> f, fb |-> b, len |-> n, issigned |-> s] :
     k \in {1, 6}, f \in {0, 1}, b \in {1, 2, 3, 5, 7, 8, 9, 12, 16, 17, 24}, n \in 0 .. 3,
     s \in BOOLEAN}
  \cup {[data |-> Bytes(6), from |-> 0, fb |-> b, len |-> 10, issigned |-> TRUE] :
          b \in 1 .. 9}
=============================================================================
