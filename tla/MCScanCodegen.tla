---------------------------- MODULE MCScanCodegen ----------------------------
(* Two scanners; runs of three kinds, one of them in two widths, so that a    *)
(* decoder of a single kind, of a single width and of two kinds can all meet *)
(* a run they were not made for.                                             *)
EXTENDS ScanCodegen, TLC

Shapes == {<<"repeat", 1>>, <<"repeat", 2>>, <<"direct", 8>>, <<"delta", 0>>}
OneShape == {{x} : x \in Shapes}

\* Numbers alone, with a date between them, and with a FLOAT or DOUBLE column
\* before and after.
Selected ==
  {<<"int">>, <<"int", "plain">>, <<"plain", "int">>, <<"date", "int">>, <<"date">>}

SomeScans == {<<"int">>}

ScannerSymmetry == Permutations(Scanner)
=============================================================================
