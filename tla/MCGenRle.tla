------------------------------ MODULE MCGenRle ------------------------------
(* The streams of MCRle2 for GenRle and one without a run, a few streams of a *)
(* second scanner that give a kind a second width, and later scans with kinds *)
(* and widths that may be new to the decoder.                                 *)
EXTENDS GenRle, MCRle2

\* What the first scanner reads; of a table without rows, nothing.
FirstStreams(w, signed) == {<<>>} \cup SmallStreams(w, signed)

\* What a second scanner met: a width, and a kind, that others may lack.
SecondStreams(w, signed) ==
  {<<Direct(<<1, 0, 1>>, 3)>>, <<Direct(<<1, 5, 3, 9>>, 10), ShortRepeat(3, 4)>>}

\* What is read later: every kind, in widths that may be new, and a patch that
\* is too wide for the type.
LaterStreams(w, signed) ==
  {<<ShortRepeat(2^(w-2) - 1, 3), Direct(<<5, 2>>, w)>>,
   <<Delta(1, 2, 4, <<1, 2, 3>>), ShortRepeat(1, 5)>>,
   <<Patched(0, [i \in 1 .. 12 |-> i % 4], 2, <<Patch(4, 1)>>, w - 3, 3)>>}

ASSUME WriterFits == StreamsFit

\* The decoders of BYTE, of SHORT (those of DATE too, which the interpreter
\* decodes alike and nothing is generated for), and of the lengths of short
\* strings with code generation and without.
GeneratedDecoders ==
  Decoders \cup {[w |-> 16, signed |-> FALSE, codegen |-> TRUE]}
=============================================================================
