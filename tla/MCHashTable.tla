---------------------------- MODULE MCHashTable ----------------------------
(* Three slots and four keys that share two homes, so that the table fills   *)
(* with a key left over; of the negative keys one has a home and one has not.*)
EXTENDS HashTable

SmallKeys == {-3, -1, 0, 1, 3, 4}
SmallValues == {-1, 7}
=============================================================================
