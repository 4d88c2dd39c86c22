----------------------------- MODULE MCStripeRead -----------------------------
(* Three columns, the middle one a FLOAT or DOUBLE read without decoding and  *)
(* the last one a VARCHAR, of which only the LENGTH stream is read; two bytes *)
(* to a row.                                                                  *)
EXTENDS StripeRead

ThreeColumns == <<
  [rle |-> TRUE,  kind |-> "DATA",   width |-> 1],
  [rle |-> FALSE, kind |-> "DATA",   width |-> 2],
  [rle |-> TRUE,  kind |-> "LENGTH", width |-> 1]>>

St(c, kind, length, count) == [column |-> c, kind |-> kind, length |-> length, count |-> count]

\* A stripe of r rows, in which the columns of nulls have one value less and the
\* columns of missing have no stream; n is the length of the encoded streams.
Stripe(r, n, nulls, missing) ==
  LET count(c) == IF c \in nulls THEN r - 1 ELSE r
      all == <<St(1, "ROW_INDEX", 1, 0),
               St(1, "PRESENT", 1, 0),
               St(1, "DATA", n, count(1)),
               St(3, "DATA", 2, 2),
               St(3, "LENGTH", n, count(3)),
               St(2, "DATA", 2 * count(2), count(2))>>
  IN [rows |-> r,
      streams |-> SelectSeq(all, LAMBDA st : st.column \notin missing \/ st.kind = "ROW_INDEX")]

Stripes(lacking) ==
  {Stripe(r, n, nulls, missing) :
     r \in 1 .. 3, n \in {1, 3}, nulls \in {{}, {2}, {1, 3}}, missing \in lacking}

\* Three stripes that all have their streams, or two that may lack some.
SmallTables ==
  LET F == Stripes({{}})
      H == Stripes({{}, {1}, {3}, {1, 2}})
  IN (F \X F \X F) \cup (H \X H)
=============================================================================
