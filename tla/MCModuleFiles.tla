--------------------------- MODULE MCModuleFiles ---------------------------
(* Three processes, each of which may generate or load, with modules of one   *)
(* or two columns, so that a shorter module can follow a longer one.          *)
EXTENDS ModuleFiles, TLC

\* A process that generates never asks for the other flag: one value is enough.
MCInit == Init /\ \A p \in Process : codegen[p] => optimized[p]
MCSpec == MCInit /\ [][Next]_vars

ProcessSymmetry == Permutations(Process)
=============================================================================
