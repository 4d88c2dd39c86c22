---------------------------- MODULE EncodingInfo ----------------------------
(***************************************************************************)
(* The operations on profiles of include/ORCColumnInfo.h: EncodingInfo and *)
(* RLEInfo.  A profile of one kind of run is a record of two bags (how     *)
(* often a width came, how many numbers came in runs of a length), the     *)
(* number of runs and totalRunLength; an RLEInfo is a profile of each kind.*)
(* The arrays of the code are the bags: an absent element is a zero.       *)
(***************************************************************************)
EXTENDS Integers, Sequences, FiniteSets, Bags, SequencesExt

Entries == 65  \* the length of bitsize

Widths == 0 .. Entries - 1

Count(bag, i) == IF i \in DOMAIN bag THEN bag[i] ELSE 0

\* sortData begins with a list full of the first index of the least count.
LeastAt(bag) == CHOOSE i \in Widths :
  /\ \A j \in Widths : Count(bag, j) >= Count(bag, i)
  /\ \A j \in 0 .. i-1 : Count(bag, j) > Count(bag, i)

\* Index i takes the last place of the list and moves up past smaller counts.
Insert(list, i, bag) ==
  LET n == Len(list)
      p == CHOOSE p \in 0 .. n-1 :
             /\ p = 0 \/ Count(bag, list[p]) >= Count(bag, i)
             /\ \A q \in p+1 .. n-1 : Count(bag, list[q]) < Count(bag, i)
  IN SubSeq(list, 1, p) \o <<i>> \o SubSeq(list, p + 1, n - 1)

sortData(bag) ==
  LET list[k \in 0 .. Entries] ==
        IF k = 0 THEN [j \in 1 .. Entries |-> LeastAt(bag)]
        ELSE Insert(list[k-1], k - 1, bag)
  IN list[Entries]

\* The width all runs have, or -1.
getFixedBitSize(info) ==
  LET top == sortData(info.bitsize)
  IN IF Count(info.bitsize, top[2]) = 0 THEN top[1] ELSE -1

\* (faulty variant of merge: the lengths are not added)
merge_Widths(a, b) ==
  [a EXCEPT !.num = @ + b.num, !.bitsize = @ (+) b.bitsize]

\* EncodingInfo::merge leaves totalRunLength alone.
merge(a, b) ==
  [a EXCEPT !.num = @ + b.num, !.bitsize = @ (+) b.bitsize, !.runLength = @ (+) b.runLength]

\* The nonzero counts of an array with their indices, and a -1.
Pairs(bag) ==
  LET n == Cardinality(DOMAIN bag)
      at(k) == CHOOSE i \in DOMAIN bag : Cardinality({j \in DOMAIN bag : j < i}) = k
  IN [m \in 1 .. 2*n + 1 |->
        IF m = 2*n + 1 THEN -1
        ELSE IF m % 2 = 1 THEN at(m \div 2) ELSE bag[at(m \div 2 - 1)]]

encodeTo(info, issigned) ==
  <<IF issigned THEN 1 ELSE 0, info.num, info.totalRunLength>>
    \o (IF info.num = 0 THEN <<>> ELSE Pairs(info.bitsize) \o Pairs(info.runLength))

\* The number of pairs in front of the -1, which is looked for among the
\* indices only.
PairsAt(buf, at) == CHOOSE n \in 0 .. Len(buf) :
  buf[at + 2*n] = -1 /\ \A m \in 0 .. n-1 : buf[at + 2*m] # -1

ReadPairs(buf, at) ==
  LET pair(i) == CHOOSE m \in 0 .. PairsAt(buf, at) - 1 : buf[at + 2*m] = i
  IN [i \in {buf[at + 2*m] : m \in 0 .. PairsAt(buf, at) - 1} |-> buf[at + 2*pair(i) + 1]]

\* What is read at a place of the buffer, and the place behind it.
decodeFrom(buf, at) ==
  LET widthsAt == at + 3
      lengthsAt == widthsAt + 2 * PairsAt(buf, widthsAt) + 1
      empty == [bitsize |-> EmptyBag, runLength |-> EmptyBag, num |-> 0,
                totalRunLength |-> buf[at + 2]]
  IN IF buf[at + 1] = 0
       THEN [info |-> empty, issigned |-> buf[at] = 1, next |-> at + 3]
       ELSE [info |-> [bitsize |-> ReadPairs(buf, widthsAt),
                       runLength |-> ReadPairs(buf, lengthsAt),
                       num |-> buf[at + 1], totalRunLength |-> buf[at + 2]],
             issigned |-> buf[at] = 1,
             next |-> lengthsAt + 2 * PairsAt(buf, lengthsAt) + 1]

\* RLEInfo: the kinds one after the other, in this order.
Order == <<"direct", "repeat", "patched", "delta">>

encodeAll(rle, issigned) == FlattenSeq([i \in 1 .. 4 |-> encodeTo(rle[Order[i]], issigned)])

\* (faulty variant of decodeAll: the order in which merge takes the kinds)
decodeAll_Merged(buf) ==
  LET read[i \in 1 .. 4] == decodeFrom(buf, IF i = 1 THEN 1 ELSE read[i-1].next)
      place == [direct |-> 1, repeat |-> 2, delta |-> 3, patched |-> 4]
  IN [k \in DOMAIN place |-> read[place[k]]]

decodeAll(buf) ==
  LET read[i \in 1 .. 4] == decodeFrom(buf, IF i = 1 THEN 1 ELSE read[i-1].next)
      place == [direct |-> 1, repeat |-> 2, patched |-> 3, delta |-> 4]
  IN [k \in DOMAIN place |-> read[place[k]]]
=============================================================================
