------------------------------- MODULE MCRle2 -------------------------------
(* Small streams of one or two runs for Rle2, around the boundaries of the  *)
(* decoded type.                                                            *)
EXTENDS Rle2

Edge(w) == {-(2^(w-1)), -1, 0, 1, 2^(w-1) - 1}

Repeats(w) == {ShortRepeat(v, n) : v \in Edge(w) \cup {63, -65}, n \in {3, 10}}

\* Nine values of 3 bits and three of 5 end inside a byte.
Directs(w) ==
  {Direct(vs, 1) : vs \in {<<0>>, <<0, -1, -1>>}}
    \cup {Direct(<<-4, 3, 0, -1, 2, 1, -3, -2, 3>>, 3), Direct(<<-16, 15, 7>>, 5)}
    \cup {Direct([i \in 1 .. 300 |-> -(i % 2)], 1)}
    \cup {Direct(<<a, b>>, w) : a, b \in Edge(w)}

Deltas(w) ==
  {Delta(f, d, 0, [i \in 1 .. n |-> IF d < 0 THEN -d ELSE d]) :
     f \in Edge(w), d \in {-3, 0, 1, 2^(w-2)}, n \in {1, 4}}
    \cup {Delta(f, d, x[1], x[2]) :
            f \in Edge(w) \cup {100, -100},
            d \in {-(2^w) + 1, -(2^(w-1)) - 1, -(2^(w-1)), -1, 0, 1,
                   2^(w-1) - 1, 2^(w-1), 2^w - 1},
            x \in {<<2, <<0, 3>> >>, <<4, <<1, 15, 2>> >>, <<w, <<2^(w-1)>> >>}}

Patch(gap, bits) == [gap |-> gap, bits |-> bits]

\* Entries far below the sign bit of I, just below it, on it, and beyond it.
PatchLists(w) ==
  {<< <<Patch(0, 1)>>, 1, 1>>,
   << <<Patch(2, 3), Patch(1, 1)>>, 2, 2>>,
   << <<Patch(1, 5), Patch(3, 0), Patch(3, 2)>>, 4, 2>>,
   << <<Patch(7, 3), Patch(4, 6)>>, 4, 3>>,
   << <<Patch(3, 1), Patch(3, 2)>>, w - 3, 3>>,
   << <<Patch(4, 1)>>, w - 3, 3>>,
   << <<Patch(1, 1), Patch(8, 1)>>, w - 3, 4>>,
   << <<Patch(2, 1), Patch(4, 3)>>, w - 2, 3>>}

LongRaws == [i \in 1 .. 140 |-> i % 4]

PatchedRuns(w) ==
  {Patched(base, [i \in 1 .. 12 |-> i % 4], 2, p[1], p[2], p[3]) :
     base \in {-(2^(w-1)), -100, 0, 5}, p \in PatchLists(w)}
    \cup {Patched(0, LongRaws, 2, <<Patch(gap, 1)>>, 8, 8) : gap \in {127, 128}}

Runs(w, signed) == {r \in Repeats(w) \cup Directs(w) \cup Deltas(w) \cup PatchedRuns(w) : Fits(r, w, signed)}

OneRun(w, signed) == {<<r>> : r \in Runs(w, signed)}

\* Pairs of runs: one of each shape followed by any run.
Leaders ==
  {ShortRepeat(-1, 3), Direct(<<-16, 15, 7>>, 5), Delta(0, 1, 4, <<1, 15, 2>>),
   Patched(0, [i \in 1 .. 12 |-> i % 4], 2, <<Patch(2, 3), Patch(1, 1)>>, 2, 2)}

TwoRuns(w, signed) == {<<q, r>> : q \in Leaders \cap Runs(w, signed), r \in Runs(w, signed)}

SmallStreams(w, signed) == OneRun(w, signed) \cup TwoRuns(w, signed)

\* The decoders of BYTE, of SHORT and DATE, and of the lengths of short strings,
\* the last without code generation.
Decoders ==
  {[w |-> 8,  signed |-> TRUE,  codegen |-> TRUE],
   [w |-> 16, signed |-> TRUE,  codegen |-> TRUE],
   [w |-> 16, signed |-> FALSE, codegen |-> FALSE]}

Shorts == {[w |-> 16, signed |-> TRUE, codegen |-> TRUE]}
=============================================================================
