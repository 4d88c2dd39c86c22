---------------------------- MODULE MCTableScan ----------------------------
(* Directories on which TLC explores TableScan. *)
EXTENDS TableScan, TLC

\* Two data files among a subdirectory and a hidden file.
MixedDir ==
  << [name |-> "sub",  regular |-> FALSE, hidden |-> FALSE, stripes |-> 0],
     [name |-> "a",    regular |-> TRUE,  hidden |-> FALSE, stripes |-> 2],
     [name |-> ".tmp", regular |-> TRUE,  hidden |-> TRUE,  stripes |-> 1],
     [name |-> "b",    regular |-> TRUE,  hidden |-> FALSE, stripes |-> 1] >>

\* Two data files, and in the slots of a buffer of two entries that come to lie
\* where theirs were a subdirectory, a hidden file, a third data file and an ORC
\* file that holds no stripe.
ThreadsDir ==
  << [name |-> "c",    regular |-> TRUE,  hidden |-> FALSE, stripes |-> 2],
     [name |-> "a",    regular |-> TRUE,  hidden |-> FALSE, stripes |-> 2],
     [name |-> "sub",  regular |-> FALSE, hidden |-> FALSE, stripes |-> 0],
     [name |-> ".tmp", regular |-> TRUE,  hidden |-> TRUE,  stripes |-> 1],
     [name |-> "b",    regular |-> TRUE,  hidden |-> FALSE, stripes |-> 1],
     [name |-> "none", regular |-> TRUE,  hidden |-> FALSE, stripes |-> 0] >>

\* Data files and a hidden one: a pass over them comes to its end even if entries
\* are overwritten.
RefillDir ==
  << [name |-> "c",    regular |-> TRUE,  hidden |-> FALSE, stripes |-> 2],
     [name |-> "a",    regular |-> TRUE,  hidden |-> FALSE, stripes |-> 1],
     [name |-> ".tmp", regular |-> TRUE,  hidden |-> TRUE,  stripes |-> 1],
     [name |-> "b",    regular |-> TRUE,  hidden |-> FALSE, stripes |-> 2] >>

ScannerSymmetry == Permutations(Scanner)
=============================================================================
