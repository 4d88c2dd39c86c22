---------------------------- MODULE GenRle_proofs ----------------------------
(***************************************************************************)
(* The interpreter stays in step with every stream that a writer writes.   *)
(***************************************************************************)
EXTENDS GenRle, FiniteSetTheorems, SequenceTheorems, WellFoundedInduction, TLAPS

(***************************************************************************)
(* Sums and sequences.                                                     *)
(***************************************************************************)
\* Induction over the numbers, as a fact about sets.
LEMMA SetInduction ==
  ASSUME NEW S, 0 \in S, \A n \in Nat : n \in S => n + 1 \in S
  PROVE  Nat \subseteq S
<1>. SUFFICES ASSUME Nat \ S # {} PROVE FALSE
  OBVIOUS
<1>. DEFINE R == {ss \in Nat \X Nat : ss[1] < ss[2]}
            T == Nat \ S
<1>1. R = OpToRel(<, Nat)
  BY DEF OpToRel
<1>2. IsWellFoundedOn(R, Nat)
  BY <1>1, NatLessThanWellFounded
<1>3. T \subseteq Nat /\ T # {}
  OBVIOUS
<1>4. PICK x \in T : \A y \in T : <<y, x>> \notin R
  <2>. HIDE DEF R, T
  <2>. QED
    BY <1>2, <1>3, WFMin
<1>5. x \in Nat /\ x # 0 /\ x - 1 \in Nat /\ x - 1 < x
  OBVIOUS
<1>6. x - 1 \notin T
  BY <1>4, <1>5
<1>7. (x - 1) + 1 \in S
  BY <1>5, <1>6
<1>. QED
  BY <1>5, <1>7

\* A function defined by recursion on the numbers exists.
Follows(g, m, T, a, F) ==
  g \in [0 .. m -> T] /\ g[0] = a /\ \A k \in 1 .. m : g[k] = F[k][g[k-1]]

LEMMA RecursionExists ==
  ASSUME NEW n \in Nat, NEW T, NEW a \in T, NEW F,
         \A k \in 1 .. n : \A x \in T : F[k][x] \in T
  PROVE  \E g : Follows(g, n, T, a, F)
<1>. DEFINE Is(g, m) == g \in [0 .. m -> T] /\ g[0] = a
                        /\ \A k \in 1 .. m : g[k] = F[k][g[k-1]]
            S == {m \in Nat : m <= n => \E g : Is(g, m)}
<1>1. 0 \in S
  <2>1. Is([k \in 0 .. 0 |-> a], 0)
    OBVIOUS
  <2>. QED
    BY <2>1
<1>2. ASSUME NEW m \in Nat, m \in S PROVE m + 1 \in S
  <2>. SUFFICES ASSUME m + 1 <= n PROVE \E g : Is(g, m + 1)
    OBVIOUS
  <2>1. PICK g : Is(g, m)
    BY <1>2
  <2>. DEFINE h == [k \in 0 .. m + 1 |-> IF k = m + 1 THEN F[m + 1][g[m]] ELSE g[k]]
  <2>2. g[m] \in T /\ m + 1 \in 1 .. n
    BY <2>1
  <2>3. F[m + 1][g[m]] \in T
    BY <2>2
  <2>4. h \in [0 .. m + 1 -> T] /\ h[0] = a /\ h[m + 1] = F[m + 1][g[m]]
        /\ \A k \in 0 .. m : h[k] = g[k]
    BY <2>1, <2>3
  <2>. HIDE DEF h
  <2>5. ASSUME NEW k \in 1 .. m + 1 PROVE h[k] = F[k][h[k-1]]
    <3>1. CASE k = m + 1
      BY <2>4, <3>1
    <3>2. CASE k # m + 1
      <4>1. k \in 1 .. m /\ k \in 0 .. m /\ k - 1 \in 0 .. m
        BY <3>2
      <4>2. g[k] = F[k][g[k-1]]
        BY <2>1, <4>1
      <4>. QED
        BY <2>4, <4>1, <4>2
    <3>. QED
      BY <3>1, <3>2
  <2>6. Is(h, m + 1)
    BY <2>4, <2>5
  <2>. QED
    BY <2>6
<1>. HIDE DEF S
<1>3. n \in S
  BY <1>1, <1>2, SetInduction
<1>. QED
  BY <1>3 DEF S, Follows

\* Lengths add up one by one.
LEMMA SumsExist ==
  ASSUME NEW n \in Nat, NEW len
  PROVE  \E g : g = [b \in 0 .. n |-> IF b = 0 THEN 0 ELSE g[b-1] + len[b]]
<1>. DEFINE step(g, b) == IF b = 0 THEN 0 ELSE g[b-1] + len[b]
            S == {m \in Nat : \E g : g = [b \in 0 .. m |-> step(g, b)]}
<1>1. 0 \in S
  <2>. DEFINE g == [b \in 0 .. 0 |-> 0]
  <2>1. g = [b \in 0 .. 0 |-> step(g, b)]
    OBVIOUS
  <2>. QED
    BY <2>1
<1>2. ASSUME NEW m \in Nat, m \in S PROVE m + 1 \in S
  <2>1. PICK g : g = [b \in 0 .. m |-> step(g, b)]
    BY <1>2
  <2>0. \A b \in 0 .. m : g[b] = step(g, b)
    <3>. DEFINE k == [b \in 0 .. m |-> step(g, b)]
    <3>1. \A b \in 0 .. m : k[b] = step(g, b)
      OBVIOUS
    <3>2. g = k
      BY <2>1
    <3>. HIDE DEF k
    <3>. QED
      BY <3>1, <3>2, Zenon
  <2>. DEFINE h == [b \in 0 .. m + 1 |-> IF b <= m THEN g[b] ELSE step(g, b)]
  <2>2. ASSUME NEW b \in 0 .. m + 1 PROVE h[b] = step(h, b)
    <3>1. CASE b = 0
      <4>1. g[b] = 0 /\ b <= m
        BY <2>0, <3>1
      <4>. QED
        BY <3>1, <4>1
    <3>2. CASE b # 0
      <4>1. b - 1 \in 0 .. m /\ b - 1 \in 0 .. m + 1
        BY <3>2
      <4>2. h[b-1] = g[b-1]
        BY <4>1
      <4>3. b <= m => g[b] = step(g, b)
        BY <2>0
      <4>4. h[b] = step(g, b)
        BY <4>3
      <4>. QED
        BY <3>2, <4>2, <4>4
    <3>. QED
      BY <3>1, <3>2
  <2>3. h = [b \in 0 .. m + 1 |-> step(h, b)]
    BY <2>2
  <2>. HIDE DEF h
  <2>4. \E k : k = [b \in 0 .. m + 1 |-> step(k, b)]
    BY <2>3, Zenon
  <2>5. m + 1 \in Nat
    OBVIOUS
  <2>. QED
    BY <2>4, <2>5, Zenon
<1>. HIDE DEF S
<1>3. n \in S
  BY <1>1, <1>2, SetInduction
<1>. QED
  BY <1>3 DEF S

LEMMA SumStep ==
  ASSUME NEW len \in Seq(Nat)
  PROVE  /\ SumTo(len, 0) = 0
         /\ \A k \in 1 .. Len(len) : SumTo(len, k) = SumTo(len, k-1) + len[k]
<1>. DEFINE n == Len(len)
            F == CHOOSE g : g = [j \in 0 .. n |-> IF j = 0 THEN 0 ELSE g[j-1] + len[j]]
            step(g, j) == IF j = 0 THEN 0 ELSE g[j-1] + len[j]
            Q(g) == g = [j \in 0 .. n |-> step(g, j)]
<1>1. n \in Nat
  OBVIOUS
<1>2. \A k : SumTo(len, k) = F[k]
  BY DEF SumTo
<1>3. \E h : Q(h)
  <2>. HIDE DEF n
  <2>. QED
    BY <1>1, SumsExist
<1>4. F = CHOOSE g : Q(g)
  OBVIOUS
<1>5. Q(F)
  <2>. HIDE DEF Q, F
  <2>. QED
    BY <1>3, <1>4
<1>6. \A j \in 0 .. n : F[j] = step(F, j)
  <2>. DEFINE G == [j \in 0 .. n |-> step(F, j)]
  <2>1. \A j \in 0 .. n : G[j] = step(F, j)
    OBVIOUS
  <2>2. F = G
    BY <1>5
  <2>. HIDE DEF F, G
  <2>. QED
    BY <2>1, <2>2, Zenon
<1>. HIDE DEF F
<1>7. F[0] = 0
  BY <1>1, <1>6
<1>8. ASSUME NEW k \in 1 .. n PROVE F[k] = F[k-1] + len[k]
  BY <1>6
<1>. QED
  BY <1>2, <1>7, <1>8

\* A sum is a number, and no sum is less than an earlier one.
LEMMA SumType ==
  ASSUME NEW len \in Seq(Nat)
  PROVE  \A k \in 0 .. Len(len) : SumTo(len, k) \in Nat
<1>. DEFINE S == {d \in Nat : d \in 0 .. Len(len) => SumTo(len, d) \in Nat}
<1>1. 0 \in S
  BY SumStep
<1>2. ASSUME NEW d \in Nat, d \in S PROVE d + 1 \in S
  <2>1. ASSUME d + 1 \in 0 .. Len(len) PROVE SumTo(len, d + 1) \in Nat
    <3>1. d + 1 \in 1 .. Len(len) /\ (d + 1) - 1 = d /\ len[d + 1] \in Nat
      BY <2>1
    <3>2. SumTo(len, d) \in Nat
      BY <1>2, <3>1
    <3>. QED
      BY <3>1, <3>2, SumStep
  <2>. QED
    BY <2>1
<1>. HIDE DEF S
<1>3. Nat \subseteq S
  BY <1>1, <1>2, SetInduction
<1>. QED
  BY <1>3 DEF S

LEMMA SumsGrow ==
  ASSUME NEW len \in Seq(Nat), NEW i \in 0 .. Len(len), NEW k \in i .. Len(len)
  PROVE  SumTo(len, i) <= SumTo(len, k)
<1>. DEFINE S == {d \in Nat : i + d \in 0 .. Len(len) => SumTo(len, i) <= SumTo(len, i + d)}
<1>0. i \in Nat /\ k \in Nat /\ Len(len) \in Nat
  OBVIOUS
<1>1. 0 \in S
  BY <1>0, SumType
<1>2. ASSUME NEW d \in Nat, d \in S PROVE d + 1 \in S
  <2>1. ASSUME i + (d + 1) \in 0 .. Len(len) PROVE SumTo(len, i) <= SumTo(len, i + (d + 1))
    <3>1. PICK x \in 1 .. Len(len) : x = i + (d + 1) /\ x - 1 = i + d /\ i + d \in 0 .. Len(len)
      BY <1>0, <2>1
    <3>2. SumTo(len, i) <= SumTo(len, x - 1)
      BY <1>2, <3>1
    <3>3. SumTo(len, i) \in Nat /\ SumTo(len, x - 1) \in Nat /\ len[x] \in Nat
      BY <3>1, SumType
    <3>4. SumTo(len, x) = SumTo(len, x - 1) + len[x]
      BY SumStep
    <3>. QED
      BY <3>1, <3>2, <3>3, <3>4
  <2>. QED
    BY <2>1
<1>. HIDE DEF S
<1>3. Nat \subseteq S
  BY <1>1, <1>2, SetInduction
<1>4. k - i \in Nat /\ i + (k - i) = k
  BY <1>0
<1>. QED
  BY <1>3, <1>4 DEF S
-----------------------------------------------------------------------------
(***************************************************************************)
(* The bytes of a stream.                                                  *)
(***************************************************************************)
LEMMA Cat ==
  ASSUME NEW D, NEW s \in Seq(D), NEW t \in Seq(D)
  PROVE  /\ s \o t \in Seq(D) /\ Len(s \o t) = Len(s) + Len(t)
         /\ \A i \in 1 .. Len(s) : (s \o t)[i] = s[i]
         /\ \A i \in 1 .. Len(t) : (s \o t)[Len(s) + i] = t[i]
OBVIOUS

\* The parts of a flattened sequence exist: what FlattenSeq defines.
LEMMA PartsExist ==
  ASSUME NEW n \in Nat \ {0}, NEW seqs
  PROVE  \E g : g = [i \in 1 .. n |-> IF i = 1 THEN seqs[i] ELSE g[i-1] \o seqs[i]]
<1>. DEFINE step(g, b) == IF b = 1 THEN seqs[b] ELSE g[b-1] \o seqs[b]
            S == {m \in Nat : \E g : g = [b \in 1 .. m + 1 |-> step(g, b)]}
<1>1. 0 \in S
  <2>. DEFINE g == [b \in 1 .. 0 + 1 |-> seqs[b]]
  <2>1. g = [b \in 1 .. 0 + 1 |-> step(g, b)]
    OBVIOUS
  <2>. QED
    BY <2>1
<1>2. ASSUME NEW m \in Nat, m \in S PROVE m + 1 \in S
  <2>1. PICK g : g = [b \in 1 .. m + 1 |-> step(g, b)]
    BY <1>2
  <2>0. \A b \in 1 .. m + 1 : g[b] = step(g, b)
    <3>. DEFINE k == [b \in 1 .. m + 1 |-> step(g, b)]
    <3>1. \A b \in 1 .. m + 1 : k[b] = step(g, b)
      OBVIOUS
    <3>2. g = k
      BY <2>1
    <3>. HIDE DEF k
    <3>. QED
      BY <3>1, <3>2, Zenon
  <2>. DEFINE h == [b \in 1 .. (m + 1) + 1 |-> IF b <= m + 1 THEN g[b] ELSE step(g, b)]
  <2>2. ASSUME NEW b \in 1 .. (m + 1) + 1 PROVE h[b] = step(h, b)
    <3>1. CASE b = 1
      <4>1. g[b] = seqs[b] /\ b <= m + 1
        BY <2>0, <3>1
      <4>. QED
        BY <3>1, <4>1
    <3>2. CASE b # 1
      <4>1. b - 1 \in 1 .. m + 1 /\ b - 1 \in 1 .. (m + 1) + 1
        BY <3>2
      <4>2. h[b-1] = g[b-1]
        BY <4>1
      <4>3. b <= m + 1 => g[b] = step(g, b)
        BY <2>0
      <4>4. h[b] = step(g, b)
        BY <4>3
      <4>. QED
        BY <3>2, <4>2, <4>4
    <3>. QED
      BY <3>1, <3>2
  <2>3. h = [b \in 1 .. (m + 1) + 1 |-> step(h, b)]
    BY <2>2
  <2>. HIDE DEF h
  <2>4. \E k : k = [b \in 1 .. (m + 1) + 1 |-> step(k, b)]
    BY <2>3, Zenon
  <2>5. m + 1 \in Nat
    OBVIOUS
  <2>. QED
    BY <2>4, <2>5, Zenon
<1>. HIDE DEF S
<1>3. n - 1 \in S /\ (n - 1) + 1 = n
  <2>1. n - 1 \in Nat /\ (n - 1) + 1 = n
    OBVIOUS
  <2>2. Nat \subseteq S
    BY <1>1, <1>2, SetInduction
  <2>. QED
    BY <2>1, <2>2
<1>. QED
  BY <1>3 DEF S

Lengths(seqs) == [i \in DOMAIN seqs |-> Len(seqs[i])]

LEMMA LengthsType ==
  ASSUME NEW D, NEW seqs \in Seq(Seq(D))
  PROVE  /\ Lengths(seqs) \in Seq(Nat) /\ Len(Lengths(seqs)) = Len(seqs)
         /\ \A i \in 1 .. Len(seqs) : Lengths(seqs)[i] = Len(seqs[i])
<1>. DEFINE n == Len(seqs)
<1>1. n \in Nat /\ DOMAIN seqs = 1 .. n /\ \A i \in 1 .. n : Len(seqs[i]) \in Nat
  OBVIOUS
<1>2. Lengths(seqs) = [i \in 1 .. n |-> Len(seqs[i])]
  BY <1>1 DEF Lengths
<1>. HIDE DEF n
<1>3. Lengths(seqs) \in Seq(Nat) /\ Len(Lengths(seqs)) = n
  BY <1>1, <1>2
<1>4. \A i \in 1 .. n : Lengths(seqs)[i] = Len(seqs[i])
  BY <1>2
<1>. QED
  BY <1>3, <1>4 DEF n

\* The sequences lie one behind the other in their concatenation.
LEMMA Flattened ==
  ASSUME NEW D, NEW seqs \in Seq(Seq(D)),
         NEW flat, flat = FlattenSeq(seqs), NEW end, end = SumTo(Lengths(seqs), Len(seqs))
  PROVE  /\ flat \in Seq(D) /\ Len(flat) = end
         /\ \A k \in 1 .. Len(seqs) : \A j \in 1 .. Len(seqs[k]) :
              flat[SumTo(Lengths(seqs), k-1) + j] = seqs[k][j]
<1>. DEFINE n == Len(seqs)
            F == CHOOSE g : g = [i \in 1 .. n |-> IF i = 1 THEN seqs[i] ELSE g[i-1] \o seqs[i]]
            step(g, i) == IF i = 1 THEN seqs[i] ELSE g[i-1] \o seqs[i]
            Q(g) == g = [i \in 1 .. n |-> step(g, i)]
            At(k) == SumTo(Lengths(seqs), k)
            Right(m) == /\ F[m] \in Seq(D) /\ Len(F[m]) = At(m)
                        /\ \A k \in 1 .. m : \A j \in 1 .. Len(seqs[k]) :
                             F[m][At(k-1) + j] = seqs[k][j]
            S == {m \in Nat : m + 1 \in 1 .. n => Right(m + 1)}
<1>1. n \in Nat /\ \A k \in 1 .. n : seqs[k] \in Seq(D) /\ Len(seqs[k]) \in Nat
  OBVIOUS
<1>2. At(0) = 0 /\ \A k \in 1 .. n : At(k) = At(k-1) + Len(seqs[k]) /\ At(k-1) \in Nat
  <2>1. Lengths(seqs) \in Seq(Nat) /\ Len(Lengths(seqs)) = n
        /\ \A i \in 1 .. n : Lengths(seqs)[i] = Len(seqs[i])
    BY LengthsType
  <2>2. At(0) = 0 /\ \A k \in 1 .. n : At(k) = At(k-1) + Len(seqs[k])
    BY <2>1, SumStep
  <2>3. ASSUME NEW k \in 1 .. n PROVE At(k-1) \in Nat
    <3>1. k - 1 \in 0 .. n
      BY <1>1
    <3>. QED
      BY <2>1, <3>1, SumType
  <2>. QED
    BY <2>2, <2>3
<1>3. CASE n = 0
  <2>1. flat = seqs
    BY <1>3 DEF FlattenSeq
  <2>2. seqs = <<>>
    BY <1>3
  <2>3. flat \in Seq(D) /\ Len(flat) = 0
    BY <2>1, <2>2
  <2>4. end = 0
    BY <1>2, <1>3
  <2>. QED
    BY <1>3, <2>3, <2>4
<1>4. CASE n # 0
  <2>1. flat = F[n]
    BY <1>4 DEF FlattenSeq
  <2>2. Q(F)
    <3>1. \E h : Q(h)
      <4>1. n \in Nat \ {0}
        BY <1>1, <1>4
      <4>. HIDE DEF n
      <4>2. \E h : h = [i \in 1 .. n |-> IF i = 1 THEN seqs[i] ELSE h[i-1] \o seqs[i]]
        BY <4>1, PartsExist, Zenon
      <4>. QED
        BY <4>2, Zenon
    <3>2. F = CHOOSE g : Q(g)
      OBVIOUS
    <3>. HIDE DEF Q, F
    <3>. QED
      BY <3>1, <3>2
  <2>3. \A j \in 1 .. n : F[j] = step(F, j)
    <3>. DEFINE G == [j \in 1 .. n |-> step(F, j)]
    <3>1. \A j \in 1 .. n : G[j] = step(F, j)
      OBVIOUS
    <3>2. F = G
      BY <2>2
    <3>. HIDE DEF F, G
    <3>. QED
      BY <3>1, <3>2, Zenon
  <2>. HIDE DEF F
  <2>4. 0 \in S
    <3>1. F[1] = seqs[1] /\ 1 \in 1 .. n /\ 0 + 1 = 1 /\ 1 - 1 = 0
      BY <1>1, <1>4, <2>3
    <3>2. At(1) = Len(seqs[1]) /\ At(0) = 0
      BY <1>1, <1>2, <3>1
    <3>3. Right(1)
      <4>. HIDE DEF At
      <4>. QED
        BY <1>1, <3>1, <3>2
    <3>. HIDE DEF Right
    <3>. QED
      BY <3>1, <3>3
  <2>5. ASSUME NEW m \in Nat, m \in S PROVE m + 1 \in S
    <3>1. SUFFICES ASSUME (m + 1) + 1 \in 1 .. n PROVE Right((m + 1) + 1)
      OBVIOUS
    <3>2. PICK p \in 1 .. n, q \in 1 .. n : p = m + 1 /\ q = (m + 1) + 1 /\ q - 1 = p /\ q # 1
      BY <3>1
    <3>3. Right(p)
      BY <2>5, <3>2
    <3>4. F[q] = F[p] \o seqs[q]
      BY <2>3, <3>2
    <3>5. F[p] \in Seq(D) /\ Len(F[p]) = At(p)
      BY <3>3
    <3>6. /\ F[q] \in Seq(D) /\ Len(F[q]) = At(p) + Len(seqs[q])
          /\ \A i \in 1 .. At(p) : F[q][i] = F[p][i]
          /\ \A i \in 1 .. Len(seqs[q]) : F[q][At(p) + i] = seqs[q][i]
      <4>1. seqs[q] \in Seq(D)
        BY <1>1
      <4>. HIDE DEF At
      <4>2. PICK s \in Seq(D), t \in Seq(D) : s = F[p] /\ t = seqs[q]
        BY <3>5, <4>1, Zenon
      <4>3. F[q] = s \o t
        BY <3>4, <4>2, Zenon
      <4>4. s \o t \in Seq(D) /\ Len(s \o t) = Len(s) + Len(t)
            /\ (\A i \in 1 .. Len(s) : (s \o t)[i] = s[i])
            /\ \A i \in 1 .. Len(t) : (s \o t)[Len(s) + i] = t[i]
        BY Cat
      <4>. QED
        BY <3>5, <4>2, <4>3, <4>4
    <3>7. Len(F[q]) = At(q)
      BY <1>2, <3>2, <3>6
    <3>8. ASSUME NEW k \in 1 .. q, NEW j \in 1 .. Len(seqs[k])
          PROVE  F[q][At(k-1) + j] = seqs[k][j]
      <4>1. CASE k = q
        BY <3>2, <3>6, <4>1
      <4>2. CASE k # q
        <5>1. k \in 1 .. p /\ k \in 1 .. n
          BY <3>2, <4>2
        <5>2. F[p][At(k-1) + j] = seqs[k][j]
          BY <3>3, <5>1
        <5>3. At(k) <= At(p) /\ At(k) = At(k-1) + Len(seqs[k]) /\ At(k-1) \in Nat
          <6>1. Lengths(seqs) \in Seq(Nat) /\ Len(Lengths(seqs)) = n
            BY LengthsType
          <6>2. k \in 0 .. n /\ p \in k .. n
            BY <5>1
          <6>. QED
            BY <1>2, <5>1, <6>1, <6>2, SumsGrow
        <5>4. At(k-1) + j \in 1 .. At(p)
          <6>1. Len(seqs[k]) \in Nat /\ At(p) \in Nat
            <7>1. Len(F[p]) \in Nat
              BY <3>5
            <7>. QED
              BY <1>1, <3>5, <5>1, <7>1
          <6>. HIDE DEF At
          <6>2. PICK a \in Nat, l \in Nat, z \in Nat :
                  a = At(k-1) /\ l = Len(seqs[k]) /\ z = At(p)
            BY <5>3, <6>1, Zenon
          <6>3. a + l <= z /\ j \in 1 .. l
            BY <5>3, <6>2, Zenon
          <6>4. a + j \in 1 .. z
            BY <6>3
          <6>. QED
            BY <6>2, <6>4, Zenon
        <5>. QED
          BY <3>6, <5>2, <5>4
      <4>. QED
        BY <4>1, <4>2
    <3>9. Right(q)
      BY <3>6, <3>7, <3>8
    <3>. HIDE DEF Right
    <3>. QED
      BY <3>2, <3>9
  <2>6. Right(n)
    <3>. HIDE DEF S
    <3>1. Nat \subseteq S
      BY <2>4, <2>5, SetInduction
    <3>2. n - 1 \in Nat /\ (n - 1) + 1 = n /\ n \in 1 .. n
      BY <1>1, <1>4
    <3>3. n - 1 \in S
      BY <3>1, <3>2
    <3>4. (n - 1) + 1 \in 1 .. n => Right((n - 1) + 1)
      BY <3>3 DEF S
    <3>. HIDE DEF Right
    <3>. QED
      BY <3>2, <3>4
  <2>. QED
    BY <2>1, <2>6
<1>. QED
  BY <1>1, <1>3, <1>4

\* Where the parts of a flattened sequence lie.
LEMMA PartsOf ==
  ASSUME NEW D, NEW parts \in Seq(Seq(D))
  PROVE  /\ Len(FlattenSeq(parts)) = SumTo(Lengths(parts), Len(parts)) /\ SumTo(Lengths(parts), 0) = 0
         /\ \A k \in 0 .. Len(parts) : SumTo(Lengths(parts), k) \in Nat
         /\ \A k \in 1 .. Len(parts) :
              /\ SumTo(Lengths(parts), k) = SumTo(Lengths(parts), k-1) + Len(parts[k])
              /\ SumTo(Lengths(parts), k) <= SumTo(Lengths(parts), Len(parts))
              /\ \A j \in 1 .. Len(parts[k]) :
                   FlattenSeq(parts)[SumTo(Lengths(parts), k-1) + j] = parts[k][j]
<1>. DEFINE flat == FlattenSeq(parts)
<1>1. flat = FlattenSeq(parts)
  OBVIOUS
<1>. HIDE DEF flat
<1>2. /\ Lengths(parts) \in Seq(Nat) /\ Len(Lengths(parts)) = Len(parts)
      /\ \A k \in 1 .. Len(parts) : Lengths(parts)[k] = Len(parts[k])
  BY LengthsType
<1>3. /\ Len(flat) = SumTo(Lengths(parts), Len(parts))
      /\ \A k \in 1 .. Len(parts) : \A j \in 1 .. Len(parts[k]) :
           flat[SumTo(Lengths(parts), k-1) + j] = parts[k][j]
  BY <1>1, Flattened
<1>4. /\ SumTo(Lengths(parts), 0) = 0
      /\ \A k \in 1 .. Len(parts) :
           SumTo(Lengths(parts), k) = SumTo(Lengths(parts), k-1) + Len(parts[k])
      /\ \A k \in 0 .. Len(parts) : SumTo(Lengths(parts), k) \in Nat
  BY <1>2, SumStep, SumType
<1>5. \A k \in 1 .. Len(parts) : SumTo(Lengths(parts), k) <= SumTo(Lengths(parts), Len(parts))
  <2>1. \A k \in 1 .. Len(parts) : k \in 0 .. Len(parts) /\ Len(parts) \in k .. Len(parts)
    OBVIOUS
  <2>. QED
    BY <1>2, <2>1, SumsGrow
<1>. QED
  BY <1>1, <1>3, <1>4, <1>5, Zenon

-----------------------------------------------------------------------------
(***************************************************************************)
(* The bytes of a run.                                                     *)
(***************************************************************************)
IsSeq(s) == s \in Seq(Range(s))

LEMMA FunctionIsSeq ==
  ASSUME NEW n \in Nat, NEW s, s = [i \in 1 .. n |-> s[i]]
  PROVE  IsSeq(s) /\ Len(s) = n
<1>1. DOMAIN s = 1 .. n /\ \A i \in 1 .. n : s[i] \in Range(s)
  BY DEF Range
<1>2. s \in [1 .. n -> Range(s)]
  BY <1>1
<1>3. s \in Seq(Range(s)) /\ Len(s) = n
  <2>. DEFINE D == Range(s)
  <2>. HIDE DEF D
  <2>1. s \in [1 .. n -> D]
    BY <1>2 DEF D
  <2>2. s \in Seq(D) /\ Len(s) = n
    BY <2>1
  <2>. QED
    BY <2>2 DEF D
<1>. QED
  BY <1>3 DEF IsSeq

LEMMA WiderSeq ==
  ASSUME NEW s, IsSeq(s), NEW D, Range(s) \subseteq D
  PROVE  s \in Seq(D)
BY DEF IsSeq

LEMMA CatAny ==
  ASSUME NEW s, NEW t, IsSeq(s), IsSeq(t)
  PROVE  /\ IsSeq(s \o t) /\ Len(s) \in Nat /\ Len(t) \in Nat /\ Len(s \o t) = Len(s) + Len(t)
         /\ \A i \in 1 .. Len(s) : (s \o t)[i] = s[i]
         /\ \A i \in 1 .. Len(t) : (s \o t)[Len(s) + i] = t[i]
<1>. DEFINE D == Range(s) \cup Range(t)
<1>1. s \in Seq(D) /\ t \in Seq(D)
  BY WiderSeq
<1>. HIDE DEF D
<1>2. s \o t \in Seq(D) /\ Len(s \o t) = Len(s) + Len(t)
  BY <1>1, Cat
<1>3. /\ \A i \in 1 .. Len(s) : (s \o t)[i] = s[i]
      /\ \A i \in 1 .. Len(t) : (s \o t)[Len(s) + i] = t[i]
  BY <1>1, Cat
<1>4. IsSeq(s \o t)
  <2>. DEFINE u == s \o t
           n == Len(u)
  <2>1. u \in Seq(D)
    BY <1>2
  <2>. HIDE DEF u
  <2>2. n \in Nat /\ u = [i \in 1 .. n |-> u[i]]
    BY <2>1
  <2>. HIDE DEF n
  <2>3. IsSeq(u)
    BY <2>2, FunctionIsSeq
  <2>. QED
    BY <2>3 DEF u
<1>. QED
  BY <1>1, <1>2, <1>3, <1>4

LEMMA PackedBytes ==
  ASSUME NEW vs, NEW width, CeilDiv(Len(vs) * width, 8) \in Nat
  PROVE  IsSeq(Packed(vs, width)) /\ Len(Packed(vs, width)) = CeilDiv(Len(vs) * width, 8)
<1>. DEFINE n == CeilDiv(Len(vs) * width, 8)
<1>1. Packed(vs, width) = [j \in 1 .. n |-> Packed(vs, width)[j]]
  BY DEF Packed
<1>. HIDE DEF n
<1>. QED
  BY <1>1, FunctionIsSeq DEF n

LEMMA BigEndianBytes ==
  ASSUME NEW v, NEW n \in Nat
  PROVE  IsSeq(BigEndian(v, n)) /\ Len(BigEndian(v, n)) = n
<1>1. BigEndian(v, n) = [j \in 1 .. n |-> BigEndian(v, n)[j]]
  BY DEF BigEndian
<1>. QED
  BY <1>1, FunctionIsSeq

\* The least number of digits exists.
LEMMA DigitsInRange ==
  ASSUME NEW v \in Nat, NEW bits \in Nat, NEW max \in Nat, \E n \in 1 .. max : v < 2^(bits * n),
         \A m \in 1 .. max : 2^(bits * m) \in Int
  PROVE  /\ Digits(v, bits, max) \in 1 .. max /\ v < 2^(bits * Digits(v, bits, max))
         /\ \A m \in 1 .. Digits(v, bits, max) - 1 : v >= 2^(bits * m)
<1>. DEFINE T == {n \in 1 .. max : v < 2^(bits * n)}
            R == {ss \in Nat \X Nat : ss[1] < ss[2]}
<1>1. R = OpToRel(<, Nat)
  BY DEF OpToRel
<1>2. IsWellFoundedOn(R, Nat)
  BY <1>1, NatLessThanWellFounded
<1>3. T \subseteq Nat /\ T # {}
  <2>1. PICK n \in 1 .. max : v < 2^(bits * n)
    OBVIOUS
  <2>2. n \in T /\ T \subseteq 1 .. max
    BY <2>1
  <2>. HIDE DEF T
  <2>. QED
    BY <2>2
<1>4. PICK x \in T : \A y \in T : <<y, x>> \notin R
  <2>. HIDE DEF R, T
  <2>. QED
    BY <1>2, <1>3, WFMin
<1>5. \A m \in 1 .. x - 1 : v >= 2^(bits * m)
  <2>. SUFFICES ASSUME NEW m \in 1 .. x - 1, ~(v >= 2^(bits * m)) PROVE FALSE
    OBVIOUS
  <2>1. m \in Nat /\ m < x /\ m \in 1 .. max /\ 2^(bits * m) \in Int
    OBVIOUS
  <2>2. m \in T
    BY <2>1
  <2>3. <<m, x>> \in R
    BY <2>1
  <2>. HIDE DEF R, T
  <2>. QED
    BY <1>4, <2>2, <2>3, Zenon
<1>6. x \in 1 .. max /\ v < 2^(bits * x)
  OBVIOUS
<1>. QED
  BY <1>5, <1>6 DEF Digits

LEMMA VarintBytes ==
  ASSUME NEW v \in Nat, \E n \in 1 .. 10 : v < 2^(7*n)
  PROVE  \E n \in 1 .. 10 :
           /\ IsSeq(Varint(v)) /\ Len(Varint(v)) = n /\ \A j \in 1 .. n : Varint(v)[j] \in Nat
           /\ Varint(v)[n] < 128 /\ \A j \in 1 .. n-1 : Varint(v)[j] >= 128
<1>. DEFINE n == Digits(v, 7, 10)
<1>1. n \in 1 .. 10
  <2>1. \A m \in 1 .. 10 : 2^(7*m) \in Int
    OBVIOUS
  <2>. QED
    BY <2>1, DigitsInRange
<1>2. Varint(v) = [j \in 1 .. n |-> ((v \div 2^(7 * (j-1))) % 128) + (IF j < n THEN 128 ELSE 0)]
  BY DEF Varint
<1>. HIDE DEF n
<1>3. \A j \in 1 .. n : (v \div 2^(7 * (j-1))) % 128 \in 0 .. 127
  <2>1. ASSUME NEW j \in 1 .. n PROVE 2^(7 * (j-1)) \in Int
    BY <1>1
  <2>. QED
    BY <2>1
<1>4. \A j \in 1 .. n : Varint(v)[j] = ((v \div 2^(7 * (j-1))) % 128) + (IF j < n THEN 128 ELSE 0)
  BY <1>2
<1>5. Varint(v) = [j \in 1 .. n |-> Varint(v)[j]]
  BY <1>2
<1>6. IsSeq(Varint(v)) /\ Len(Varint(v)) = n
  BY <1>1, <1>5, FunctionIsSeq
<1>7. Varint(v)[n] < 128
  BY <1>1, <1>3, <1>4
<1>8. ASSUME NEW j \in 1 .. n-1 PROVE Varint(v)[j] >= 128
  BY <1>1, <1>3, <1>4
<1>9. \A j \in 1 .. n : Varint(v)[j] \in Nat
  BY <1>1, <1>3, <1>4
<1>. QED
  BY <1>1, <1>6, <1>7, <1>8, <1>9

LEMMA BaseInRange ==
  ASSUME NEW v \in Int, \E n \in 1 .. 8 : Size(v) < 2^(8*n - 1)
  PROVE  /\ BaseBytes(v) \in 1 .. 8 /\ Size(v) < 2^(8 * BaseBytes(v) - 1)
         /\ \A m \in 1 .. BaseBytes(v) - 1 : Size(v) >= 2^(8*m - 1)
<1>. DEFINE T == {n \in 1 .. 8 : Size(v) < 2^(8*n - 1)}
            R == {ss \in Nat \X Nat : ss[1] < ss[2]}
<1>1. R = OpToRel(<, Nat)
  BY DEF OpToRel
<1>2. IsWellFoundedOn(R, Nat)
  BY <1>1, NatLessThanWellFounded
<1>3. T \subseteq Nat /\ T # {}
  <2>1. PICK n \in 1 .. 8 : Size(v) < 2^(8*n - 1)
    OBVIOUS
  <2>2. n \in T
    BY <2>1
  <2>3. T \subseteq 1 .. 8
    OBVIOUS
  <2>. HIDE DEF T
  <2>. QED
    BY <2>2, <2>3
<1>4. PICK x \in T : \A y \in T : <<y, x>> \notin R
  <2>. HIDE DEF R, T
  <2>. QED
    BY <1>2, <1>3, WFMin
<1>5. \A m \in 1 .. x - 1 : Size(v) >= 2^(8*m - 1)
  <2>. SUFFICES ASSUME NEW m \in 1 .. x - 1, ~(Size(v) >= 2^(8*m - 1)) PROVE FALSE
    OBVIOUS
  <2>1. m \in Nat /\ m < x /\ m \in 1 .. 8 /\ 2^(8*m - 1) \in Int /\ Size(v) \in Nat
    BY DEF Size
  <2>2. m \in T
    BY <2>1
  <2>3. <<m, x>> \in R
    BY <2>1
  <2>. HIDE DEF R, T
  <2>. QED
    BY <1>4, <2>2, <2>3, Zenon
<1>6. x \in 1 .. 8 /\ Size(v) < 2^(8*x - 1)
  OBVIOUS
<1>. QED
  BY <1>5, <1>6 DEF BaseBytes

\* A width and its code.
LEMMA WidthTypes ==
  ASSUME NEW width \in BitWidths
  PROVE  /\ width \in 1 .. 64
         /\ WidthCode(width) \in 0 .. 31 /\ decodeBitWidth(WidthCode(width)) = width
         /\ width # 1 => WidthCode(width) # 0
<1>1. \E c \in 0 .. 31 : decodeBitWidth(c) = width
  BY DEF BitWidths
<1>2. WidthCode(width) \in 0 .. 31 /\ decodeBitWidth(WidthCode(width)) = width
  BY <1>1 DEF WidthCode
<1>3. decodeBitWidth(0) = 1
  BY DEF decodeBitWidth
<1>4. \A c \in 0 .. 31 : decodeBitWidth(c) \in 1 .. 64
  <2>. SUFFICES ASSUME NEW c \in 0 .. 31, ~(c <= 23) PROVE decodeBitWidth(c) \in 1 .. 64
    BY DEF decodeBitWidth
  <2>1. c - 23 \in 1 .. 8
    OBVIOUS
  <2>2. \A k \in 1 .. 8 : <<26, 28, 30, 32, 40, 48, 56, 64>>[k] \in 1 .. 64
    OBVIOUS
  <2>. QED
    BY <2>1, <2>2 DEF decodeBitWidth
<1>. QED
  BY <1>1, <1>2, <1>3, <1>4

\* The two bytes of a header, and what they are taken for.
IsHeader(h, kind, code, n) ==
  /\ IsSeq(h) /\ Len(h) = 2 /\ h[1] \div 64 = kind
  /\ (h[1] \div 2) % 32 = code /\ 256 * (h[1] % 2) + h[2] + 1 = n

LEMMA HeaderFields ==
  ASSUME NEW kind \in 0 .. 3, NEW code \in 0 .. 31, NEW n \in 1 .. 512
  PROVE  IsHeader(Header(kind, code, n), kind, code, n)
<1>. SUFFICES ASSUME NEW h, h = Header(kind, code, n) PROVE IsHeader(h, kind, code, n)
  OBVIOUS
<1>. DEFINE q == (n - 1) \div 256
<1>1. h = <<64 * kind + 2 * code + q, (n - 1) % 256>>
  BY DEF Header
<1>2. q \in 0 .. 1 /\ n - 1 = 256 * q + ((n - 1) % 256) /\ (n - 1) % 256 \in 0 .. 255
  OBVIOUS
<1>. HIDE DEF q
<1>3. h[1] = 64 * kind + 2 * code + q /\ h[2] = (n - 1) % 256
  BY <1>1
<1>4. h = [i \in 1 .. 2 |-> h[i]]
  BY <1>1
<1>5. IsSeq(h) /\ Len(h) = 2
  BY <1>4, FunctionIsSeq
<1>6. h[1] \div 64 = kind
  BY <1>2, <1>3
<1>7. h[1] \div 2 = 32 * kind + code /\ h[1] % 2 = q
  BY <1>2, <1>3
<1>8. (32 * kind + code) % 32 = code
  OBVIOUS
<1>9. 256 * (h[1] % 2) + h[2] + 1 = n
  BY <1>2, <1>3, <1>7
<1>. QED
  BY <1>5, <1>6, <1>7, <1>8, <1>9 DEF IsHeader

LEMMA CeilType ==
  ASSUME NEW a \in Nat
  PROVE  CeilDiv(a, 8) \in Nat
BY DEF CeilDiv

LEMMA Product == ASSUME NEW x \in Nat, NEW y \in Nat PROVE x * y \in Nat
OBVIOUS

LEMMA RepeatBytes ==
  ASSUME NEW r, NEW signed, Legal(r, signed), r.kind = "repeat"
  PROVE  LET b == RunBytes(r, signed)
         IN /\ IsSeq(b) /\ b[1] \div 64 = 0
            /\ Len(b) = 1 + (((b[1] \div 8) % 8) + 1)
            /\ ((b[1] \div 8) % 8) + 1 = BytesFor(Coded(r.value, signed))
            /\ (b[1] % 8) + 3 = Len(RunValues(r))
<1>. DEFINE v == Coded(r.value, signed)
            n == BytesFor(v)
            t == BigEndian(v, n)
            h == <<8 * (n - 1) + r.n - 3>>
            b == RunBytes(r, signed)
<1>1. r.n \in 3 .. 10 /\ \E k \in 1 .. 8 : v \in 0 .. 2^(8*k) - 1
  BY DEF Legal
<1>2. v \in Nat /\ \E k \in 1 .. 8 : v < 2^(8*k)
  <2>. HIDE DEF v
  <2>1. PICK k \in 1 .. 8 : v \in 0 .. 2^(8*k) - 1
    BY <1>1
  <2>2. PICK p \in Int : p = 2^(8*k)
    OBVIOUS
  <2>3. v \in Nat /\ v < p
    BY <2>1, <2>2
  <2>4. v < 2^(8*k)
    BY <2>2, <2>3
  <2>. QED
    BY <2>3, <2>4, Zenon
<1>. HIDE DEF v
<1>3. n \in 1 .. 8
  <2>1. \A m \in 1 .. 8 : 2^(8*m) \in Int
    OBVIOUS
  <2>2. Digits(v, 8, 8) \in 1 .. 8
    <3>1. 256 \in Nat /\ 8 \in Nat
      OBVIOUS
    <3>. QED
      BY <1>2, <2>1, <3>1, DigitsInRange, Zenon
  <2>. QED
    BY <2>2 DEF BytesFor
<1>4. b = h \o t
  BY DEF RunBytes, v
<1>5. IsSeq(t) /\ Len(t) = n
  <2>. HIDE DEF n
  <2>. QED
    BY <1>3, BigEndianBytes
<1>6. Len(RunValues(r)) = r.n
  <2>1. RunValues(r) = [i \in 1 .. r.n |-> r.value]
    BY DEF RunValues
  <2>2. r.n \in Nat
    BY <1>1
  <2>. QED
    BY <2>1, <2>2
<1>. HIDE DEF n, t
<1>7. IsSeq(h) /\ Len(h) = 1 /\ h[1] = 8 * (n - 1) + r.n - 3
  <2>1. h = [i \in 1 .. 1 |-> h[i]]
    OBVIOUS
  <2>. QED
    BY <2>1, FunctionIsSeq
<1>. HIDE DEF h, b
<1>8. IsSeq(b) /\ Len(b) = 1 + n /\ b[1] = h[1]
  <2>1. /\ IsSeq(h \o t) /\ Len(h \o t) = Len(h) + Len(t)
        /\ \A i \in 1 .. Len(h) : (h \o t)[i] = h[i]
    BY <1>5, <1>7, CatAny, Zenon
  <2>. QED
    BY <1>4, <1>5, <1>7, <2>1
<1>9. PICK x \in 0 .. 7, y \in 0 .. 7 : n = x + 1 /\ r.n = y + 3 /\ b[1] = 8 * x + y
  <2>. DEFINE x == n - 1
              y == r.n - 3
  <2>1. x \in 0 .. 7 /\ y \in 0 .. 7 /\ n = x + 1 /\ r.n = y + 3 /\ b[1] = 8 * x + y
    BY <1>1, <1>3, <1>7, <1>8
  <2>. HIDE DEF x, y
  <2>. QED
    BY <2>1
<1>10. (8 * x + y) \div 64 = 0 /\ (8 * x + y) \div 8 = x /\ (8 * x + y) % 8 = y /\ x % 8 = x
  OBVIOUS
<1>11. b[1] \div 64 = 0 /\ b[1] \div 8 = x /\ b[1] % 8 = y
  BY <1>9, <1>10
<1>. QED
  BY <1>6, <1>8, <1>9, <1>10, <1>11 DEF b, n, v

LEMMA DirectBytes ==
  ASSUME NEW r, NEW signed, Legal(r, signed), r.kind = "direct"
  PROVE  LET b == RunBytes(r, signed)
         IN /\ IsSeq(b) /\ b[1] \div 64 = 1
            /\ decodeBitWidth((b[1] \div 2) % 32) = r.width
            /\ 256 * (b[1] % 2) + b[2] + 1 = Len(RunValues(r))
            /\ Len(b) = 2 + CeilDiv(Len(RunValues(r)) * r.width, 8)
<1>. DEFINE n == Len(r.values)
            code == WidthCode(r.width)
            h == Header(1, code, n)
            vs == [i \in DOMAIN r.values |-> Coded(r.values[i], signed)]
            t == Packed(vs, r.width)
            b == RunBytes(r, signed)
<1>1. r.width \in BitWidths /\ r.values \in Seq(Int) /\ n \in 1 .. 512
  BY DEF Legal
<1>2. r.width \in Nat /\ code \in 0 .. 31 /\ decodeBitWidth(code) = r.width
  <2>1. r.width \in 1 .. 64 /\ code \in 0 .. 31 /\ decodeBitWidth(code) = r.width
    BY <1>1, WidthTypes, Zenon
  <2>. QED
    BY <2>1
<1>3. Len(vs) = n
  <2>. HIDE DEF vs, n
  <2>1. n \in Nat /\ DOMAIN r.values = 1 .. n
    <3>1. \A s \in Seq(Int) : Len(s) \in Nat /\ DOMAIN s = 1 .. Len(s)
      OBVIOUS
    <3>. QED
      BY <1>1, <3>1, Zenon DEF n
  <2>2. vs = [i \in 1 .. n |-> Coded(r.values[i], signed)]
    BY <2>1 DEF vs
  <2>. QED
    BY <2>1, <2>2
<1>4. b = h \o t
  BY DEF RunBytes
<1>5. RunValues(r) = r.values
  BY DEF RunValues
<1>. HIDE DEF n, vs, code
<1>6. IsSeq(h) /\ Len(h) = 2 /\ h[1] \div 64 = 1
      /\ (h[1] \div 2) % 32 = code /\ 256 * (h[1] % 2) + h[2] + 1 = n
  <2>1. 1 \in 0 .. 3
    OBVIOUS
  <2>. HIDE DEF h
  <2>2. h = Header(1, code, n)
    BY DEF h
  <2>3. IsHeader(h, 1, code, n)
    BY <1>1, <1>2, <2>1, <2>2, HeaderFields
  <2>. QED
    BY <2>3 DEF IsHeader
<1>. HIDE DEF h, b
<1>7. IsSeq(t) /\ Len(t) = CeilDiv(n * r.width, 8)
  <2>1. n * r.width \in Nat
    <3>1. n \in Nat
      BY <1>1
    <3>. QED
      BY <1>2, <3>1, Product, Zenon
  <2>2. CeilDiv(Len(vs) * r.width, 8) \in Nat
    BY <1>3, <2>1, CeilType
  <2>. QED
    BY <1>3, <2>2, PackedBytes
<1>. HIDE DEF t
<1>8. IsSeq(b) /\ Len(b) = 2 + Len(t) /\ b[1] = h[1] /\ b[2] = h[2]
  <2>1. /\ IsSeq(h \o t) /\ Len(h \o t) = Len(h) + Len(t)
        /\ \A i \in 1 .. Len(h) : (h \o t)[i] = h[i]
    <3>1. IsSeq(h) /\ IsSeq(t)
      BY <1>6, <1>7
    <3>. QED
      BY <3>1, CatAny, Zenon
  <2>. QED
    BY <1>4, <1>6, <1>7, <2>1
<1>. QED
  BY <1>2, <1>5, <1>6, <1>7, <1>8 DEF b, n

Joined(u, s, t) ==
  /\ IsSeq(u) /\ Len(s) \in Nat /\ Len(t) \in Nat /\ Len(u) = Len(s) + Len(t)
  /\ \A i \in 1 .. Len(s) : u[i] = s[i]
  /\ \A i \in 1 .. Len(t) : u[Len(s) + i] = t[i]

LEMMA Joins == ASSUME NEW s, NEW t, IsSeq(s), IsSeq(t) PROVE Joined(s \o t, s, t)
BY CatAny DEF Joined

\* A number in groups of seven bits begins behind place at of b and has n bytes.
VarintIn(b, at, n) ==
  /\ \A j \in 1 .. n : b[at + j] \in Nat
  /\ b[at + n] < 128 /\ \A j \in 1 .. n-1 : b[at + j] >= 128

LEMMA DeltaBytes ==
  ASSUME NEW r, NEW signed, Legal(r, signed), r.kind = "delta"
  PROVE  \E p \in 1 .. 10, q \in 1 .. 10 :
           LET b == RunBytes(r, signed)
           IN /\ IsSeq(b) /\ b[1] \div 64 = 3
              /\ r.width = IF (b[1] \div 2) % 32 = 0 THEN 0
                           ELSE decodeBitWidth((b[1] \div 2) % 32)
              /\ 256 * (b[1] % 2) + b[2] + 1 = Len(RunValues(r))
              /\ VarintIn(b, 2, p) /\ VarintIn(b, 2 + p, q)
              /\ Len(b) = 2 + p + q + CeilDiv((Len(RunValues(r)) - 2) * r.width, 8)
<1>. DEFINE n == Len(r.rest) + 2
            code == IF r.width = 0 THEN 0 ELSE WidthCode(r.width)
            h == Header(3, code, n)
            v == Varint(Coded(r.first, signed))
            w == Varint(ZigZag(r.step))
            t == IF r.width = 0 THEN <<>> ELSE Packed(r.rest, r.width)
            b == RunBytes(r, signed)
<1>1. /\ r.width \in BitWidths \cup {0} /\ r.width # 1
      /\ r.rest \in Seq(Nat) /\ n \in 1 .. 512 /\ Len(r.rest) \in Nat
  <2>1. r.width \in BitWidths \cup {0} /\ r.width # 1
    BY DEF Legal
  <2>2. r.rest \in Seq(Nat) /\ Len(r.rest) \in 0 .. 510
    BY DEF Legal
  <2>3. PICK m \in 0 .. 510 : m = Len(r.rest)
    BY <2>2
  <2>4. n = m + 2
    BY <2>3, Zenon
  <2>5. m + 2 \in 1 .. 512 /\ m \in Nat
    OBVIOUS
  <2>. HIDE DEF n
  <2>. QED
    BY <2>1, <2>2, <2>3, <2>4, <2>5
<1>2. /\ r.width \in Nat /\ code \in 0 .. 31
      /\ r.width = IF code = 0 THEN 0 ELSE decodeBitWidth(code)
  <2>1. CASE r.width = 0
    BY <2>1
  <2>2. CASE r.width # 0
    <3>1. r.width \in BitWidths
      BY <1>1, <2>2
    <3>2. /\ r.width \in 1 .. 64 /\ WidthCode(r.width) \in 0 .. 31
          /\ decodeBitWidth(WidthCode(r.width)) = r.width /\ WidthCode(r.width) # 0
      BY <1>1, <3>1, WidthTypes, Zenon
    <3>3. code = WidthCode(r.width)
      BY <2>2
    <3>. HIDE DEF code
    <3>. QED
      BY <3>2, <3>3
  <2>. QED
    BY <2>1, <2>2
<1>3. b = ((h \o v) \o w) \o t
  BY DEF RunBytes
<1>4. Len(RunValues(r)) = n
  <2>1. Len(r.rest) + 2 \in Nat
    BY <1>1
  <2>. QED
    BY <2>1 DEF RunValues
<1>. HIDE DEF n, code
<1>5. IsHeader(h, 3, code, n)
  <2>1. 3 \in 0 .. 3
    OBVIOUS
  <2>. QED
    BY <1>1, <1>2, <2>1, HeaderFields
<1>6. PICK p \in 1 .. 10 : IsSeq(v) /\ Len(v) = p /\ VarintIn(v, 0, p)
  <2>. DEFINE x == Coded(r.first, signed)
  <2>1. \E k \in 1 .. 10 : x \in 0 .. 2^(7*k) - 1
    BY DEF Legal
  <2>. HIDE DEF x
  <2>2. x \in Nat /\ \E k \in 1 .. 10 : x < 2^(7*k)
    <3>1. PICK k \in 1 .. 10 : x \in 0 .. 2^(7*k) - 1
      BY <2>1
    <3>2. PICK y \in Int : y = 2^(7*k)
      OBVIOUS
    <3>3. x \in Nat /\ x < y
      BY <3>1, <3>2
    <3>4. x < 2^(7*k)
      BY <3>2, <3>3
    <3>. QED
      BY <3>3, <3>4, Zenon
  <2>3. PICK k \in 1 .. 10 : /\ IsSeq(Varint(x)) /\ Len(Varint(x)) = k
                             /\ \A j \in 1 .. k : Varint(x)[j] \in Nat
                             /\ Varint(x)[k] < 128 /\ \A j \in 1 .. k-1 : Varint(x)[j] >= 128
    BY <2>2, VarintBytes, Zenon
  <2>4. VarintIn(Varint(x), 0, k)
    BY <2>3 DEF VarintIn
  <2>. QED
    BY <2>3, <2>4 DEF x
<1>7. PICK q \in 1 .. 10 : IsSeq(w) /\ Len(w) = q /\ VarintIn(w, 0, q)
  <2>. DEFINE x == ZigZag(r.step)
  <2>1. x \in Nat /\ \E k \in 1 .. 10 : x < 2^(7*k)
    <3>1. r.step \in Int
      BY DEF Legal
    <3>2. \E k \in 1 .. 10 : x < 2^(7*k)
      BY DEF Legal
    <3>3. x \in Nat
      BY <3>1 DEF ZigZag
    <3>. QED
      BY <3>2, <3>3, Zenon
  <2>. HIDE DEF x
  <2>3. PICK k \in 1 .. 10 : /\ IsSeq(Varint(x)) /\ Len(Varint(x)) = k
                             /\ \A j \in 1 .. k : Varint(x)[j] \in Nat
                             /\ Varint(x)[k] < 128 /\ \A j \in 1 .. k-1 : Varint(x)[j] >= 128
    BY <2>1, VarintBytes, Zenon
  <2>4. VarintIn(Varint(x), 0, k)
    BY <2>3 DEF VarintIn
  <2>. QED
    BY <2>3, <2>4 DEF x
<1>8. IsSeq(t) /\ Len(t) = CeilDiv((n - 2) * r.width, 8)
  <2>0. PICK m \in Nat : m = Len(r.rest) /\ n - 2 = m
    BY <1>1 DEF n
  <2>1. CASE r.width = 0
    <3>1. t = <<>>
      BY <2>1
    <3>2. m * 0 = 0 /\ CeilDiv(0, 8) = 0
      BY DEF CeilDiv
    <3>3. <<>> = [i \in 1 .. 0 |-> <<>>[i]]
      OBVIOUS
    <3>4. IsSeq(<<>>) /\ Len(<<>>) = 0
      BY <3>3, FunctionIsSeq
    <3>. HIDE DEF t
    <3>. QED
      BY <2>0, <2>1, <3>1, <3>2, <3>4
  <2>2. CASE r.width # 0
    <3>1. t = Packed(r.rest, r.width)
      BY <2>2
    <3>. HIDE DEF t
    <3>2. m * r.width \in Nat
      BY <1>2, <2>0, Product, Zenon
    <3>3. CeilDiv(Len(r.rest) * r.width, 8) \in Nat
      BY <2>0, <3>2, CeilType
    <3>. QED
      BY <2>0, <3>1, <3>3, PackedBytes
  <2>. QED
    BY <2>1, <2>2
<1>. DEFINE s1 == h \o v
            s2 == s1 \o w
<1>9. b = s2 \o t
  BY <1>3
<1>. HIDE DEF h, v, w, t, b
<1>10. Joined(s1, h, v)
  BY <1>5, <1>6, Joins DEF IsHeader
<1>. HIDE DEF s1
<1>11. IsSeq(s1) /\ Joined(s2, s1, w)
  BY <1>7, <1>10, Joins DEF Joined
<1>. HIDE DEF s2
<1>12. IsSeq(b) /\ Joined(b, s2, t)
  <2>0. IsSeq(s2)
    BY <1>11 DEF Joined
  <2>1. Joined(s2 \o t, s2, t)
    BY <1>8, <2>0, Joins
  <2>. QED
    BY <1>9, <2>1 DEF Joined
<1>13. Len(h) = 2 /\ Len(s1) = 2 + p /\ Len(s2) = 2 + p + q /\ Len(b) = 2 + p + q + Len(t)
  BY <1>5, <1>6, <1>7, <1>10, <1>11, <1>12 DEF IsHeader, Joined
<1>14. b[1] = h[1] /\ b[2] = h[2]
  BY <1>10, <1>11, <1>12, <1>13 DEF Joined
<1>15. VarintIn(b, 2, p)
  <2>1. ASSUME NEW j \in 1 .. p PROVE b[2 + j] = v[j]
    <3>1. 2 + j \in 1 .. 2 + p /\ 2 + j \in 1 .. 2 + p + q
      OBVIOUS
    <3>2. s1[2 + j] = v[j]
      BY <1>6, <1>10, <1>13 DEF Joined
    <3>. QED
      BY <1>11, <1>12, <1>13, <3>1, <3>2 DEF Joined
  <2>2. /\ p \in 1 .. p /\ \A j \in 1 .. p-1 : j \in 1 .. p
        /\ \A j \in 1 .. p : 0 + j = j
    OBVIOUS
  <2>. QED
    BY <1>6, <2>1, <2>2 DEF VarintIn
<1>16. VarintIn(b, 2 + p, q)
  <2>1. ASSUME NEW j \in 1 .. q PROVE b[(2 + p) + j] = w[j]
    <3>1. (2 + p) + j \in 1 .. 2 + p + q
      OBVIOUS
    <3>2. s2[(2 + p) + j] = w[j]
      BY <1>7, <1>11, <1>13 DEF Joined
    <3>. QED
      BY <1>12, <1>13, <3>1, <3>2 DEF Joined
  <2>2. /\ q \in 1 .. q /\ \A j \in 1 .. q-1 : j \in 1 .. q
        /\ \A j \in 1 .. q : 0 + j = j
    OBVIOUS
  <2>. QED
    BY <1>7, <2>1, <2>2 DEF VarintIn
<1>17. /\ b[1] \div 64 = 3 /\ (b[1] \div 2) % 32 = code /\ 256 * (b[1] % 2) + b[2] + 1 = n
  BY <1>5, <1>14 DEF IsHeader
<1>18. /\ r.width = IF (b[1] \div 2) % 32 = 0 THEN 0 ELSE decodeBitWidth((b[1] \div 2) % 32)
       /\ 256 * (b[1] % 2) + b[2] + 1 = Len(RunValues(r))
       /\ Len(b) = 2 + p + q + CeilDiv((Len(RunValues(r)) - 2) * r.width, 8)
  BY <1>2, <1>4, <1>8, <1>13, <1>17
<1>. QED
  BY <1>12, <1>15, <1>16, <1>17, <1>18 DEF b

LEMMA ClosestType ==
  ASSUME NEW n \in 1 .. 64
  PROVE  getClosestFixedBits(n) \in Nat
<1>. DEFINE T == {w \in BitWidths : w >= n}
            R == {ss \in Nat \X Nat : ss[1] < ss[2]}
<1>1. R = OpToRel(<, Nat)
  BY DEF OpToRel
<1>2. IsWellFoundedOn(R, Nat)
  BY <1>1, NatLessThanWellFounded
<1>3. T \subseteq Nat
  <2>1. ASSUME NEW w \in BitWidths PROVE w \in Nat
    <3>1. w \in 1 .. 64
      BY WidthTypes
    <3>. QED
      BY <3>1
  <2>. QED
    BY <2>1
<1>4. T # {}
  <2>1. decodeBitWidth(31) = 64 /\ 31 \in 0 .. 31
    BY DEF decodeBitWidth
  <2>2. 64 \in BitWidths
    BY <2>1 DEF BitWidths
  <2>3. 64 \in T
    BY <2>2
  <2>. HIDE DEF T
  <2>. QED
    BY <2>3
<1>. HIDE DEF T
<1>5. PICK x \in T : \A y \in T : <<y, x>> \notin R
  <2>. HIDE DEF R
  <2>. QED
    BY <1>2, <1>3, <1>4, WFMin
<1>6. \A y \in T : x <= y
  <2>. SUFFICES ASSUME NEW y \in T, ~(x <= y) PROVE FALSE
    OBVIOUS
  <2>1. x \in Nat /\ y \in Nat /\ y < x
    BY <1>3
  <2>2. <<y, x>> \in R
    BY <2>1
  <2>. HIDE DEF R
  <2>. QED
    BY <1>5, <2>2, Zenon
<1>7. Min(T) \in T
  BY <1>6 DEF Min
<1>8. getClosestFixedBits(n) = Min(T)
  <2>1. n # 0 /\ T = {w \in BitWidths : w >= n}
    BY DEF T
  <2>. QED
    BY <1>4, <2>1 DEF getClosestFixedBits
<1>. QED
  BY <1>3, <1>7, <1>8

\* The third and fourth byte of a patched run.
IsPatchHeader(b, bw, code, pgw, pl) ==
  /\ b[3] \div 32 + 1 = bw /\ b[3] % 32 = code
  /\ b[4] \div 32 + 1 = pgw /\ b[4] % 32 = pl

LEMMA TwoFields ==
  ASSUME NEW x \in 1 .. 8, NEW y \in 0 .. 31
  PROVE  (32 * (x - 1) + y) \div 32 + 1 = x /\ (32 * (x - 1) + y) % 32 = y
<1>1. PICK z \in 0 .. 7 : z = x - 1 /\ x = z + 1
  OBVIOUS
<1>2. (32 * z + y) \div 32 = z /\ (32 * z + y) % 32 = y
  OBVIOUS
<1>. QED
  BY <1>1, <1>2

\* The parts of a patched run have sizes.
LEMMA PatchedParts ==
  ASSUME NEW r, NEW signed, Legal(r, signed), r.kind = "patched"
  PROVE  /\ BaseBytes(r.base) \in 1 .. 8 /\ r.width \in Nat /\ Len(r.raws) \in Nat
         /\ Len(r.patches) \in 0 .. 31
         /\ getClosestFixedBits(r.pw + r.pgw) \in Nat
         /\ CeilDiv(Len(r.raws) * r.width, 8) \in Nat
         /\ CeilDiv(Len(r.patches) * getClosestFixedBits(r.pw + r.pgw), 8) \in Nat
<1>. DEFINE cfb == getClosestFixedBits(r.pw + r.pgw)
<1>1. BaseBytes(r.base) \in 1 .. 8
  <2>1. r.base \in Int /\ \E k \in 1 .. 8 : Size(r.base) < 2^(8*k - 1)
    BY DEF Legal
  <2>. QED
    BY <2>1, BaseInRange, Zenon
<1>2. r.width \in Nat /\ r.pw \in 1 .. 64
  <2>1. r.width \in BitWidths /\ r.pw \in BitWidths
    BY DEF Legal
  <2>2. r.width \in 1 .. 64 /\ r.pw \in 1 .. 64
    BY <2>1, WidthTypes, Zenon
  <2>. QED
    BY <2>2
<1>3. Len(r.raws) \in 1 .. 512
  BY DEF Legal
<1>4. Len(r.patches) \in 0 .. 31
  <2>1. PICK m \in 1 .. 31 : m = Len(r.patches)
    BY DEF Legal
  <2>2. m \in 0 .. 31
    OBVIOUS
  <2>. QED
    BY <2>1, <2>2, Zenon
<1>5. cfb \in Nat
  <2>1. r.pgw \in 1 .. 8 /\ r.pw + r.pgw <= 64
    BY DEF Legal
  <2>2. r.pw + r.pgw \in 1 .. 64
    BY <1>2, <2>1
  <2>. QED
    BY <2>2, ClosestType, Zenon
<1>. HIDE DEF cfb
<1>6. Len(r.raws) \in Nat /\ Len(r.patches) \in Nat
  <2>1. PICK m \in 1 .. 512 : m = Len(r.raws)
    BY <1>3
  <2>2. PICK p \in 0 .. 31 : p = Len(r.patches)
    BY <1>4
  <2>3. m \in Nat /\ p \in Nat
    OBVIOUS
  <2>. QED
    BY <2>1, <2>2, <2>3, Zenon
<1>7. CeilDiv(Len(r.raws) * r.width, 8) \in Nat
  BY <1>2, <1>6, Product, CeilType, Zenon
<1>8. CeilDiv(Len(r.patches) * cfb, 8) \in Nat
  BY <1>5, <1>6, Product, CeilType, Zenon
<1>. QED
  BY <1>1, <1>2, <1>4, <1>5, <1>6, <1>7, <1>8, Zenon DEF cfb

LEMMA PatchedBytes ==
  ASSUME NEW r, NEW signed, Legal(r, signed), r.kind = "patched"
  PROVE  LET b == RunBytes(r, signed)
             cfb == getClosestFixedBits(r.pw + r.pgw)
         IN /\ IsSeq(b) /\ b[1] \div 64 = 2
            /\ decodeBitWidth((b[1] \div 2) % 32) = r.width
            /\ 256 * (b[1] % 2) + b[2] + 1 = Len(RunValues(r))
            /\ IsPatchHeader(b, BaseBytes(r.base), WidthCode(r.pw), r.pgw, Len(r.patches))
            /\ decodeBitWidth(WidthCode(r.pw)) = r.pw
            /\ Len(b) = 4 + BaseBytes(r.base) + CeilDiv(Len(RunValues(r)) * r.width, 8)
                          + CeilDiv(Len(r.patches) * cfb, 8)
<1>. DEFINE n == Len(r.raws)
            code == WidthCode(r.width)
            pcode == WidthCode(r.pw)
            bw == BaseBytes(r.base)
            pl == Len(r.patches)
            cfb == getClosestFixedBits(r.pw + r.pgw)
            h == Header(2, code, n)
            m == <<32 * (bw - 1) + pcode, 32 * (r.pgw - 1) + pl>>
            sign == IF r.base < 0 THEN 2^(8*bw - 1) ELSE 0
            e == BigEndian(Size(r.base) + sign, bw)
            t == Packed(r.raws, r.width)
            entries == [i \in DOMAIN r.patches |-> Entry(r, i)]
            p == Packed(entries, cfb)
            b == RunBytes(r, signed)
<1>1. r.width \in BitWidths /\ r.pw \in BitWidths /\ r.pgw \in 1 .. 8 /\ r.pw + r.pgw <= 64
  BY DEF Legal
<1>2. /\ r.width \in Nat /\ code \in 0 .. 31 /\ decodeBitWidth(code) = r.width
      /\ r.pw \in 1 .. 64 /\ pcode \in 0 .. 31 /\ decodeBitWidth(pcode) = r.pw
  <2>1. r.width \in 1 .. 64 /\ code \in 0 .. 31 /\ decodeBitWidth(code) = r.width
    BY <1>1, WidthTypes, Zenon
  <2>2. r.pw \in 1 .. 64 /\ pcode \in 0 .. 31 /\ decodeBitWidth(pcode) = r.pw
    BY <1>1, WidthTypes, Zenon
  <2>. HIDE DEF code, pcode
  <2>. QED
    BY <2>1, <2>2
<1>3. n \in 1 .. 512
  BY DEF Legal
<1>4. bw \in 1 .. 8 /\ pl \in 0 .. 31 /\ cfb \in Nat
  <2>1. /\ BaseBytes(r.base) \in 1 .. 8 /\ Len(r.patches) \in 0 .. 31
        /\ getClosestFixedBits(r.pw + r.pgw) \in Nat
    BY PatchedParts, Zenon
  <2>. QED
    BY <2>1
<1>7. b = (((h \o m) \o e) \o t) \o p
  BY DEF RunBytes
<1>8. Len(RunValues(r)) = n
  <2>1. RunValues(r) = [i \in 1 .. n |-> PatchedValue(r, i)]
    BY DEF RunValues
  <2>. HIDE DEF n
  <2>. QED
    BY <1>3, <2>1
<1>9. Len(entries) = pl
  <2>. HIDE DEF entries, pl
  <2>1. r.patches \in Seq([gap : Nat, bits : Nat])
    BY DEF Legal
  <2>3. pl \in Nat /\ DOMAIN r.patches = 1 .. pl
    BY <2>1 DEF pl
  <2>2. entries = [i \in 1 .. pl |-> Entry(r, i)]
    BY <2>3 DEF entries
  <2>. QED
    BY <2>2, <2>3
<1>. HIDE DEF n, code, pcode, bw, pl, cfb, entries
<1>10. IsHeader(h, 2, code, n)
  <2>1. 2 \in 0 .. 3
    OBVIOUS
  <2>. QED
    BY <1>2, <1>3, <2>1, HeaderFields
<1>11. IsSeq(m) /\ Len(m) = 2 /\ m[1] = 32 * (bw - 1) + pcode /\ m[2] = 32 * (r.pgw - 1) + pl
  <2>1. m = [i \in 1 .. 2 |-> m[i]]
    OBVIOUS
  <2>. QED
    BY <2>1, FunctionIsSeq
<1>12. IsSeq(e) /\ Len(e) = bw
  BY <1>4, BigEndianBytes
<1>13. IsSeq(t) /\ Len(t) = CeilDiv(n * r.width, 8)
  <2>1. n \in Nat
    BY <1>3
  <2>2. n * r.width \in Nat
    BY <1>2, <2>1, Product, Zenon
  <2>3. CeilDiv(Len(r.raws) * r.width, 8) \in Nat
    BY <2>2, CeilType DEF n
  <2>. QED
    BY <2>3, PackedBytes DEF n
<1>14. IsSeq(p) /\ Len(p) = CeilDiv(pl * cfb, 8)
  <2>1. pl \in Nat
    BY <1>4
  <2>2. pl * cfb \in Nat
    BY <1>4, <2>1, Product, Zenon
  <2>3. CeilDiv(Len(entries) * cfb, 8) \in Nat
    BY <1>9, <2>2, CeilType
  <2>. QED
    BY <1>9, <2>3, PackedBytes
<1>. DEFINE s1 == h \o m
            s2 == s1 \o e
            s3 == s2 \o t
<1>15. b = s3 \o p
  BY <1>7
<1>. HIDE DEF h, m, e, t, p, b
<1>16. IsSeq(s1) /\ Joined(s1, h, m)
  <2>1. IsSeq(h)
    BY <1>10 DEF IsHeader
  <2>2. Joined(s1, h, m)
    BY <1>11, <2>1, Joins
  <2>. HIDE DEF s1
  <2>. QED
    BY <2>2 DEF Joined
<1>. HIDE DEF s1
<1>17. IsSeq(s2) /\ Joined(s2, s1, e)
  <2>1. Joined(s2, s1, e)
    BY <1>12, <1>16, Joins
  <2>. HIDE DEF s2
  <2>. QED
    BY <2>1 DEF Joined
<1>. HIDE DEF s2
<1>18. IsSeq(s3) /\ Joined(s3, s2, t)
  <2>1. Joined(s3, s2, t)
    BY <1>13, <1>17, Joins
  <2>. HIDE DEF s3
  <2>. QED
    BY <2>1 DEF Joined
<1>. HIDE DEF s3
<1>19. IsSeq(b) /\ Joined(b, s3, p)
  <2>1. Joined(s3 \o p, s3, p)
    BY <1>14, <1>18, Joins
  <2>. QED
    BY <1>15, <2>1 DEF Joined
<1>20. /\ Len(h) = 2 /\ Len(s1) = 4 /\ Len(s2) = 4 + bw /\ Len(s3) = 4 + bw + Len(t)
       /\ Len(b) = 4 + bw + Len(t) + Len(p) /\ Len(t) \in Nat
  BY <1>10, <1>11, <1>12, <1>16, <1>17, <1>18, <1>19 DEF IsHeader, Joined
<1>21. b[1] = h[1] /\ b[2] = h[2] /\ b[3] = m[1] /\ b[4] = m[2]
  <2>1. s1[1] = h[1] /\ s1[2] = h[2] /\ s1[3] = m[1] /\ s1[4] = m[2]
    <3>1. 2 + 1 = 3 /\ 2 + 2 = 4 /\ 1 \in 1 .. 2 /\ 2 \in 1 .. 2
      OBVIOUS
    <3>. QED
      BY <1>11, <1>16, <1>20, <3>1 DEF Joined
  <2>2. ASSUME NEW i \in 1 .. 4 PROVE b[i] = s1[i]
    <3>1. i \in 1 .. Len(s1) /\ i \in 1 .. Len(s2) /\ i \in 1 .. Len(s3)
      BY <1>4, <1>20
    <3>. QED
      BY <1>17, <1>18, <1>19, <3>1 DEF Joined
  <2>. QED
    BY <2>1, <2>2
<1>22. IsPatchHeader(b, bw, pcode, r.pgw, pl)
  <2>1. (32 * (bw - 1) + pcode) \div 32 + 1 = bw /\ (32 * (bw - 1) + pcode) % 32 = pcode
    BY <1>2, <1>4, TwoFields
  <2>2. (32 * (r.pgw - 1) + pl) \div 32 + 1 = r.pgw /\ (32 * (r.pgw - 1) + pl) % 32 = pl
    BY <1>1, <1>4, TwoFields
  <2>. QED
    BY <1>11, <1>21, <2>1, <2>2 DEF IsPatchHeader
<1>23. /\ b[1] \div 64 = 2 /\ (b[1] \div 2) % 32 = code /\ 256 * (b[1] % 2) + b[2] + 1 = n
  BY <1>10, <1>21 DEF IsHeader
<1>. QED
  BY <1>2, <1>8, <1>13, <1>14, <1>19, <1>20, <1>22, <1>23 DEF b, bw, pcode, pl, cfb

-----------------------------------------------------------------------------
(***************************************************************************)
(* One turn of next().                                                     *)
(***************************************************************************)
\* The run at index, and how far a turn has to go.
Bytes(r) == RunBytes(r, IsSigned)

Placed(r) ==
  /\ Legal(r, IsSigned) /\ index \in Nat
  /\ \A j \in 1 .. Len(Bytes(r)) : data[index + j] = Bytes(r)[j]

Passes(r) ==
  index' = index + Len(Bytes(r)) /\ offset' = offset + Len(RunValues(r))

LEMMA WidthIsNat == \A w \in 1 .. 64 : w \in Nat
OBVIOUS

\* What it adds to the profile.
Noted(r) == updateEncodingInfo(r.kind, RunWidth(r), Len(RunValues(r)))

LEMMA SeqLength == ASSUME NEW s, IsSeq(s) PROVE Len(s) \in Nat
BY DEF IsSeq

LEMMA DeltaValues ==
  ASSUME NEW r, r.kind = "delta"
  PROVE  \E v : RunValues(r) = [i \in 1 .. Len(r.rest) + 2 |-> v[i]]
<1>. DEFINE sign == IF r.step < 0 THEN -1 ELSE 1
            v == CHOOSE v : v = [i \in 1 .. Len(r.rest) + 2 |->
                   IF i = 1 THEN r.first
                   ELSE v[i-1] + (IF i = 2 THEN r.step ELSE sign * r.rest[i-2])]
<1>1. RunValues(r) = [i \in 1 .. Len(r.rest) + 2 |-> v[i]]
  BY DEF RunValues
<1>. HIDE DEF v
<1>. QED
  BY <1>1

LEMMA RepeatedBytes ==
  ASSUME NEW r, NEW signed, Legal(r, signed), r.kind = "repeat"
  PROVE  BytesFor(Coded(r.value, signed)) \in 1 .. 8
<1>1. PICK x \in 1 .. 8 : Coded(r.value, signed) \in 0 .. 2^(8*x) - 1
  BY DEF Legal
<1>. DEFINE v == Coded(r.value, signed)
<1>2. PICK y \in Int : y = 2^(8*x)
  OBVIOUS
<1>3. v \in 0 .. 2^(8*x) - 1
  BY <1>1
<1>. HIDE DEF v
<1>4. v \in Nat /\ v < y
  BY <1>2, <1>3
<1>5. v < 2^(8*x)
  BY <1>2, <1>4
<1>6. \A m \in 1 .. 8 : 2^(8*m) \in Int
  OBVIOUS
<1>7. Digits(v, 8, 8) \in 1 .. 8
  <2>1. 256 \in Nat /\ 8 \in Nat
    OBVIOUS
  <2>. QED
    BY <1>4, <1>5, <1>6, <2>1, DigitsInRange, Zenon
<1>. QED
  BY <1>7 DEF BytesFor, v

\* A run has at least one number and one byte.
LEMMA RunFacts ==
  ASSUME NEW r, NEW signed, Legal(r, signed)
  PROVE  /\ IsSeq(RunBytes(r, signed)) /\ Len(RunBytes(r, signed)) \in Nat
         /\ Len(RunBytes(r, signed)) > 0
         /\ Len(RunValues(r)) \in Nat /\ Len(RunValues(r)) > 0
<1>0. /\ r.kind \in {"repeat", "direct", "delta", "patched"}
  BY DEF Legal
<1>1. CASE r.kind = "repeat"
  <2>1. r.n \in 3 .. 10 /\ RunValues(r) = [i \in 1 .. r.n |-> r.value]
    BY <1>1 DEF Legal, RunValues
  <2>2. PICK n \in 3 .. 10 : n = r.n
    BY <2>1
  <2>3. Len(RunValues(r)) = n
    BY <2>1, <2>2
  <2>4. IsSeq(RunBytes(r, signed)) /\ Len(RunBytes(r, signed)) = 1 + (((RunBytes(r, signed)[1] \div 8) % 8) + 1)
        /\ ((RunBytes(r, signed)[1] \div 8) % 8) + 1 = BytesFor(Coded(r.value, signed))
    BY <1>1, RepeatBytes, Zenon
  <2>5. Len(RunBytes(r, signed)) \in Nat
    BY <2>4, SeqLength
  <2>6. BytesFor(Coded(r.value, signed)) \in Nat
    <3>1. BytesFor(Coded(r.value, signed)) \in 1 .. 8
      BY <1>1, RepeatedBytes
    <3>. QED
      BY <3>1
  <2>7. PICK x \in Nat : x = BytesFor(Coded(r.value, signed))
    BY <2>6
  <2>8. Len(RunBytes(r, signed)) = 1 + x
    BY <2>4, <2>7, Zenon
  <2>. QED
    BY <2>2, <2>3, <2>4, <2>5, <2>7, <2>8
<1>2. CASE r.kind = "direct"
  <2>1. r.width \in BitWidths /\ Len(r.values) \in 1 .. 512 /\ RunValues(r) = r.values
    BY <1>2 DEF Legal, RunValues
  <2>2. Len(RunValues(r)) \in Nat /\ Len(RunValues(r)) > 0
    <3>1. PICK n \in 1 .. 512 : n = Len(r.values)
      BY <2>1
    <3>2. Len(RunValues(r)) = Len(r.values)
      BY <2>1, Zenon
    <3>3. Len(RunValues(r)) = n
      BY <3>1, <3>2, Zenon
    <3>4. n \in Nat /\ n > 0
      OBVIOUS
    <3>. QED
      BY <3>3, <3>4, Zenon
  <2>3. r.width \in 1 .. 64
    BY <2>1, WidthTypes, Zenon
  <2>4. CeilDiv(Len(RunValues(r)) * r.width, 8) \in Nat
    <3>1. Len(RunValues(r)) \in Nat /\ r.width \in Nat
      BY <2>2, <2>3, WidthIsNat, Zenon
    <3>. QED
      BY <3>1, Product, CeilType, Zenon
  <2>5. /\ IsSeq(RunBytes(r, signed))
        /\ Len(RunBytes(r, signed)) = 2 + CeilDiv(Len(RunValues(r)) * r.width, 8)
    BY <1>2, DirectBytes, Zenon
  <2>. QED
    BY <2>2, <2>4, <2>5
<1>3. CASE r.kind = "delta"
  <2>1. PICK n \in 0 .. 510 : n = Len(r.rest)
    BY <1>3 DEF Legal
  <2>2. PICK m \in 2 .. 512 : m = Len(r.rest) + 2
    <3>1. n + 2 \in 2 .. 512
      OBVIOUS
    <3>. QED
      BY <2>1, <3>1, Zenon
  <2>3. Len(RunValues(r)) = m
    BY <1>3, <2>2 DEF RunValues
  <2>4. r.width \in BitWidths \cup {0}
    BY <1>3 DEF Legal
  <2>5. r.width \in Nat
    <3>1. r.width \in BitWidths => r.width \in 1 .. 64
      BY WidthTypes, Zenon
    <3>. QED
      BY <2>4, <3>1
  <2>6. PICK x \in Nat : x = CeilDiv((Len(RunValues(r)) - 2) * r.width, 8)
    <3>1. PICK k \in Nat : k = Len(RunValues(r)) - 2
      BY <2>3
    <3>2. CeilDiv(k * r.width, 8) \in Nat
      BY <2>5, Product, CeilType, Zenon
    <3>. QED
      BY <3>1, <3>2, Zenon
  <2>7. PICK p \in 1 .. 10, q \in 1 .. 10 :
          IsSeq(RunBytes(r, signed)) /\ Len(RunBytes(r, signed)) = 2 + p + q + x
    BY <1>3, <2>6, DeltaBytes, ZenonT(30)
  <2>. QED
    BY <2>3, <2>7
<1>4. CASE r.kind = "patched"
  <2>1. Len(r.raws) \in 1 .. 512 /\ RunValues(r) = [i \in 1 .. Len(r.raws) |-> PatchedValue(r, i)]
    BY <1>4 DEF Legal, RunValues
  <2>2. PICK n \in 1 .. 512 : n = Len(r.raws)
    BY <2>1
  <2>3. Len(RunValues(r)) = n
    <3>1. RunValues(r) = [i \in 1 .. n |-> PatchedValue(r, i)]
      BY <2>1, <2>2, Zenon
    <3>. QED
      BY <3>1
  <2>4. IsSeq(RunBytes(r, signed)) /\ RunBytes(r, signed)[1] \div 64 = 2
    BY <1>4, PatchedBytes, Zenon
  <2>5. Len(RunBytes(r, signed)) > 0
    <3>1. /\ Len(RunBytes(r, signed)) = 4 + BaseBytes(r.base) + CeilDiv(Len(RunValues(r)) * r.width, 8)
                          + CeilDiv(Len(r.patches) * getClosestFixedBits(r.pw + r.pgw), 8)
      BY <1>4, PatchedBytes, Zenon
    <3>2. Len(RunValues(r)) = Len(r.raws)
      BY <2>2, <2>3
    <3>3. /\ BaseBytes(r.base) \in 1 .. 8 /\ CeilDiv(Len(r.raws) * r.width, 8) \in Nat
          /\ CeilDiv(Len(r.patches) * getClosestFixedBits(r.pw + r.pgw), 8) \in Nat
      BY <1>4, PatchedParts, ZenonT(30)
    <3>4. CeilDiv(Len(RunValues(r)) * r.width, 8) \in Nat
      BY <3>2, <3>3, Zenon
    <3>5. PICK p \in 1 .. 8, x \in Nat, y \in Nat : Len(RunBytes(r, signed)) = 4 + p + x + y
      BY <3>1, <3>3, <3>4, Zenon
    <3>. QED
      BY <3>5
  <2>. QED
    BY <2>3, <2>4, <2>5, SeqLength
<1>. QED
  BY <1>0, <1>1, <1>2, <1>3, <1>4

LEMMA ByteOfRun ==
  ASSUME NEW r, Placed(r), NEW k \in Nat, k < Len(Bytes(r)), Len(Bytes(r)) \in Nat
  PROVE  Byte(k) = Bytes(r)[k + 1]
<1>1. k + 1 \in 1 .. Len(Bytes(r)) /\ index + (k + 1) = index + k + 1
  BY DEF Placed
<1>. QED
  BY <1>1 DEF Placed, Byte

\* The fields a decoder finds in front of it.
LEMMA RepeatHead ==
  ASSUME NEW r, Placed(r), r.kind = "repeat"
  PROVE  /\ Encoding = 0
         /\ ((Byte(0) \div 8) % 8) + 1 = RunWidth(r)
         /\ (Byte(0) % 8) + MinRepeat = Len(RunValues(r))
         /\ Len(Bytes(r)) = 1 + RunWidth(r) /\ RunWidth(r) \in 1 .. 8
<1>. DEFINE b == Bytes(r)
<1>1. /\ IsSeq(b) /\ b[1] \div 64 = 0
      /\ Len(b) = 1 + (((b[1] \div 8) % 8) + 1)
      /\ ((b[1] \div 8) % 8) + 1 = BytesFor(Coded(r.value, IsSigned))
      /\ (b[1] % 8) + 3 = Len(RunValues(r))
  BY RepeatBytes DEF Placed, Bytes
<1>2. Len(b) \in Nat /\ 0 < Len(b)
  BY RunFacts DEF Placed, Bytes
<1>3. Byte(0) = b[1]
  BY <1>2, ByteOfRun
<1>. HIDE DEF b
<1>4. Encoding = 0
  BY <1>1, <1>3 DEF Encoding
<1>5. RunWidth(r) = BytesFor(Coded(r.value, IsSigned))
  BY Zenon DEF RunWidth, Coded
<1>6. RunWidth(r) \in 1 .. 8
  BY <1>5, RepeatedBytes DEF Placed
<1>7. (Byte(0) % 8) + MinRepeat = Len(RunValues(r))
  BY <1>1, <1>3 DEF MinRepeat
<1>. QED
  BY <1>1, <1>3, <1>4, <1>5, <1>6, <1>7, Zenon DEF b

LEMMA RepeatStep ==
  ASSUME NEW r, Placed(r), r.kind = "repeat", nextShortRepeats
  PROVE  Passes(r) /\ Noted(r)
<1>1. /\ index' = index + 1 + (((Byte(0) \div 8) % 8) + 1)
      /\ offset' = offset + ((Byte(0) % 8) + MinRepeat)
      /\ updateEncodingInfo("repeat", ((Byte(0) \div 8) % 8) + 1, (Byte(0) % 8) + MinRepeat)
  BY Zenon DEF nextShortRepeats, Emit
<1>2. /\ index' = index + 1 + RunWidth(r) /\ offset' = offset + Len(RunValues(r))
      /\ updateEncodingInfo("repeat", RunWidth(r), Len(RunValues(r)))
  BY <1>1, RepeatHead, Zenon
<1>3. index' = index + Len(Bytes(r))
  <2>1. PICK w \in 1 .. 8 : w = RunWidth(r)
    BY RepeatHead
  <2>2. index' = index + 1 + w /\ Len(Bytes(r)) = 1 + w
    BY <1>2, <2>1, RepeatHead, Zenon
  <2>3. index \in Nat
    BY DEF Placed
  <2>. QED
    BY <2>2, <2>3
<1>. QED
  BY <1>2, <1>3, Zenon DEF Passes, Noted

LEMMA TwoBytes ==
  ASSUME NEW r, Placed(r), NEW n, 2 <= n, n \in Nat, Len(Bytes(r)) = n
  PROVE  Byte(0) = Bytes(r)[1] /\ Byte(1) = Bytes(r)[2]
<1>1. 0 \in Nat /\ 1 \in Nat /\ 0 < n /\ 1 < n /\ 0 + 1 = 1 /\ 1 + 1 = 2
  OBVIOUS
<1>. QED
  BY <1>1, ByteOfRun

LEMMA DirectHead ==
  ASSUME NEW r, Placed(r), r.kind = "direct"
  PROVE  /\ Encoding = 1
         /\ decodeBitWidth(WidthField) = r.width /\ r.width \in 1 .. 64
         /\ RunLength = Len(RunValues(r)) /\ RunLength \in Nat
         /\ Len(Bytes(r)) = 2 + CeilDiv(RunLength * r.width, 8)
         /\ CeilDiv(RunLength * r.width, 8) \in Nat
<1>. DEFINE b == Bytes(r)
            c == CeilDiv(Len(RunValues(r)) * r.width, 8)
<1>1. /\ IsSeq(b) /\ b[1] \div 64 = 1
      /\ decodeBitWidth((b[1] \div 2) % 32) = r.width
      /\ 256 * (b[1] % 2) + b[2] + 1 = Len(RunValues(r))
      /\ Len(b) = 2 + c
  BY DirectBytes DEF Placed, Bytes
<1>2. Len(b) \in Nat /\ c \in Nat
  <2>1. Len(b) \in Nat
    <3>. HIDE DEF b
    <3>. QED
      BY <1>1 DEF IsSeq
  <2>2. c \in Nat
    <3>0. Len(RunValues(r)) \in Nat
      BY RunFacts, Zenon DEF Placed
    <3>1. r.width \in BitWidths
      BY DEF Placed, Legal
    <3>3. r.width \in 1 .. 64
      BY <3>1, WidthTypes, Zenon
    <3>2. Len(RunValues(r)) \in Nat /\ r.width \in Nat
      BY <3>0, <3>3, WidthIsNat, Zenon
    <3>. QED
      BY <3>2, Product, CeilType
  <2>. QED
    BY <2>1, <2>2
<1>. HIDE DEF b, c
<1>3. Byte(0) = b[1] /\ Byte(1) = b[2]
  <2>1. 2 <= Len(b)
    BY <1>1, <1>2
  <2>. QED
    BY <1>2, <2>1, TwoBytes DEF b
<1>4. Encoding = 1 /\ WidthField = (b[1] \div 2) % 32 /\ RunLength = Len(RunValues(r))
  BY <1>1, <1>3 DEF Encoding, WidthField, RunLength
<1>5. r.width \in 1 .. 64
  <2>1. r.width \in BitWidths
    BY DEF Placed, Legal
  <2>. QED
    BY <2>1, WidthTypes, Zenon
<1>6. Len(RunValues(r)) \in Nat
  BY RunFacts, Zenon DEF Placed
<1>. QED
  BY <1>1, <1>2, <1>4, <1>5, <1>6, Zenon DEF b, c

LEMMA DirectStep ==
  ASSUME NEW r, Placed(r), r.kind = "direct", nextDirect
  PROVE  Passes(r) /\ Noted(r)
<1>. DEFINE c == CeilDiv(RunLength * r.width, 8)
<1>1. /\ index' = index + 2 + CeilDiv(RunLength * decodeBitWidth(WidthField), 8)
      /\ offset' = offset + RunLength
      /\ updateEncodingInfo("direct", decodeBitWidth(WidthField), RunLength)
  BY Zenon DEF nextDirect, Emit
<1>2. /\ index' = index + 2 + c /\ offset' = offset + Len(RunValues(r))
      /\ updateEncodingInfo("direct", r.width, Len(RunValues(r)))
  BY <1>1, DirectHead, Zenon
<1>3. index' = index + Len(Bytes(r))
  <2>1. Len(Bytes(r)) = 2 + c /\ c \in Nat
    BY DirectHead, Zenon
  <2>2. index \in Nat
    BY DEF Placed
  <2>. HIDE DEF c
  <2>. QED
    BY <1>2, <2>1, <2>2
<1>4. RunWidth(r) = r.width
  BY DEF RunWidth
<1>. QED
  BY <1>2, <1>3, <1>4, Zenon DEF Passes, Noted

\* The decoder finds the end of a number in groups of seven bits.
LEMMA VarintFound ==
  ASSUME NEW at, NEW p \in 1 .. 10, VarintIn(data, at, p)
  PROVE  VarintLength(at) = p
<1>. DEFINE Q(n) == data[at + n] < 128 /\ \A k \in 1 .. n-1 : data[at + k] >= 128
<1>1. \A j \in 1 .. p : data[at + j] \in Nat
  BY DEF VarintIn
<1>2. Q(p)
  BY DEF VarintIn
<1>3. ASSUME NEW n \in 1 .. 10, Q(n) PROVE n = p
  <2>1. CASE n < p
    <3>1. n \in 1 .. p-1 /\ n \in 1 .. p
      BY <2>1
    <3>2. PICK x \in Nat : x = data[at + n]
      BY <1>1, <3>1
    <3>3. x < 128 /\ x >= 128
      BY <1>2, <1>3, <3>1, <3>2
    <3>. QED
      BY <3>3
  <2>2. CASE p < n
    <3>1. p \in 1 .. n-1 /\ p \in 1 .. p
      BY <2>2
    <3>2. PICK x \in Nat : x = data[at + p]
      BY <1>1, <3>1
    <3>3. x < 128 /\ x >= 128
      BY <1>2, <1>3, <3>1, <3>2
    <3>. QED
      BY <3>3
  <2>. QED
    BY <2>1, <2>2
<1>4. VarintLength(at) = CHOOSE n \in 1 .. 10 : Q(n)
  BY DEF VarintLength
<1>. HIDE DEF Q
<1>5. \E n \in 1 .. 10 : Q(n)
  BY <1>2
<1>6. (CHOOSE n \in 1 .. 10 : Q(n)) \in 1 .. 10 /\ Q(CHOOSE n \in 1 .. 10 : Q(n))
  BY <1>5
<1>. QED
  BY <1>3, <1>4, <1>6

LEMMA VarintPlaced ==
  ASSUME NEW r, Placed(r), NEW at \in Nat, NEW p \in 1 .. 10, VarintIn(Bytes(r), at, p),
         NEW n \in Nat, Len(Bytes(r)) = n, at + p <= n
  PROVE  VarintLength(index + at) = p
<1>1. index \in Nat
  BY DEF Placed
<1>2. ASSUME NEW j \in 1 .. p PROVE data[(index + at) + j] = Bytes(r)[at + j]
  <2>1. at + j \in 1 .. n /\ (index + at) + j = index + (at + j)
    BY <1>1
  <2>. QED
    BY <2>1 DEF Placed
<1>3. p \in 1 .. p /\ \A j \in 1 .. p-1 : j \in 1 .. p
  OBVIOUS
<1>4. VarintIn(data, index + at, p)
  BY <1>2, <1>3 DEF VarintIn
<1>. QED
  BY <1>4, VarintFound

LEMMA DeltaHead ==
  ASSUME NEW r, Placed(r), r.kind = "delta"
  PROVE  /\ Encoding = 3
         /\ (IF WidthField = 0 THEN 0 ELSE decodeBitWidth(WidthField)) = r.width
         /\ r.width \in 0 .. 64
         /\ RunLength = Len(RunValues(r)) /\ RunLength - 2 = Len(r.rest) /\ Len(r.rest) \in Nat
         /\ CeilDiv((RunLength - 2) * r.width, 8) \in Nat
         /\ \E p, q \in 1 .. 10 :
              /\ VarintLength(index + 2) = p /\ VarintLength(index + 2 + p) = q
              /\ Len(Bytes(r)) = 2 + p + q + CeilDiv((RunLength - 2) * r.width, 8)
<1>. DEFINE b == Bytes(r)
            n == Len(RunValues(r))
            c == CeilDiv((n - 2) * r.width, 8)
            code == (b[1] \div 2) % 32
<1>1. PICK p \in 1 .. 10, q \in 1 .. 10 :
        /\ IsSeq(b) /\ b[1] \div 64 = 3
        /\ r.width = IF code = 0 THEN 0 ELSE decodeBitWidth(code)
        /\ 256 * (b[1] % 2) + b[2] + 1 = n
        /\ VarintIn(b, 2, p) /\ VarintIn(b, 2 + p, q)
        /\ Len(b) = 2 + p + q + c
  BY DeltaBytes, Zenon DEF Placed, Bytes
<1>2. Len(b) \in Nat /\ n \in Nat
  BY RunFacts, Zenon DEF Placed, Bytes
<1>3. c \in Nat
  <2>1. r.width \in BitWidths \cup {0}
    BY DEF Placed, Legal
  <2>2. r.width \in Nat
    <3>1. r.width \in BitWidths => r.width \in Nat
      BY WidthTypes, WidthIsNat, Zenon
    <3>2. r.width \in BitWidths \/ r.width = 0
      BY <2>1, Zenon
    <3>3. 0 \in Nat
      OBVIOUS
    <3>. QED
      BY <3>1, <3>2, <3>3, Zenon
  <2>3. PICK m \in 0 .. 510 : m = Len(r.rest)
    BY DEF Placed, Legal
  <2>4. Len(RunValues(r)) = m + 2
    <3>1. m + 2 \in Nat
      OBVIOUS
    <3>2. PICK v : RunValues(r) = [i \in 1 .. Len(r.rest) + 2 |-> v[i]]
      BY DeltaValues
    <3>3. \A k \in Nat : Len([i \in 1 .. k |-> v[i]]) = k
      OBVIOUS
    <3>. QED
      BY <2>3, <3>1, <3>2, <3>3, Zenon
  <2>5. n - 2 = m
    BY <2>4
  <2>6. CeilDiv(m * r.width, 8) \in Nat
    <3>1. m \in Nat
      OBVIOUS
    <3>. QED
      BY <2>2, <3>1, Product, CeilType, Zenon
  <2>. QED
    BY <2>5, <2>6
<1>. HIDE DEF b, n, c
<1>4. Byte(0) = b[1] /\ Byte(1) = b[2]
  <2>1. 2 <= Len(b)
    BY <1>1, <1>2, <1>3
  <2>. QED
    BY <1>2, <2>1, TwoBytes DEF b
<1>5. Encoding = 3 /\ WidthField = code /\ RunLength = n
  BY <1>1, <1>4 DEF Encoding, WidthField, RunLength
<1>6. index \in Nat
  BY DEF Placed
<1>7. VarintLength(index + 2) = p
  <2>1. 2 + p <= Len(b) /\ 2 \in Nat
    BY <1>1, <1>2, <1>3
  <2>. QED
    BY <1>1, <1>2, <2>1, VarintPlaced DEF b
<1>8. VarintLength(index + 2 + p) = q
  <2>1. (2 + p) + q <= Len(b) /\ 2 + p \in Nat /\ index + (2 + p) = index + 2 + p
    BY <1>1, <1>2, <1>3, <1>6
  <2>2. VarintLength(index + (2 + p)) = q
    BY <1>1, <1>2, <2>1, VarintPlaced DEF b
  <2>. QED
    BY <2>1, <2>2
<1>9. (IF WidthField = 0 THEN 0 ELSE decodeBitWidth(WidthField)) = r.width
  BY <1>1, <1>5, Zenon
<1>10. r.width \in 0 .. 64
  <2>1. r.width \in BitWidths \/ r.width = 0
    BY DEF Placed, Legal
  <2>2. r.width \in BitWidths => r.width \in 1 .. 64
    BY WidthTypes, Zenon
  <2>. QED
    BY <2>1, <2>2
<1>11. RunLength - 2 = Len(r.rest) /\ Len(r.rest) \in Nat
  <2>1. PICK m \in 0 .. 510 : m = Len(r.rest)
    BY DEF Placed, Legal
  <2>2. n = m + 2
    <3>1. m + 2 \in Nat
      OBVIOUS
    <3>2. PICK v : RunValues(r) = [i \in 1 .. Len(r.rest) + 2 |-> v[i]]
      BY DeltaValues
    <3>3. \A k \in Nat : Len([i \in 1 .. k |-> v[i]]) = k
      OBVIOUS
    <3>. QED
      BY <2>1, <3>1, <3>2, <3>3, Zenon DEF n
  <2>3. n - 2 = m
    BY <2>2
  <2>4. m \in Nat
    OBVIOUS
  <2>. QED
    BY <1>5, <2>1, <2>3, <2>4, Zenon
<1>12. Len(b) = 2 + p + q + CeilDiv((RunLength - 2) * r.width, 8)
  BY <1>1, <1>5, Zenon DEF c
<1>13. CeilDiv((RunLength - 2) * r.width, 8) \in Nat
  BY <1>3, <1>5, Zenon DEF c
<1>14. \E x, y \in 1 .. 10 :
        /\ VarintLength(index + 2) = x /\ VarintLength(index + 2 + x) = y
        /\ Len(Bytes(r)) = 2 + x + y + CeilDiv((RunLength - 2) * r.width, 8)
  BY <1>7, <1>8, <1>12, Zenon DEF b
<1>. QED
  BY <1>5, <1>9, <1>10, <1>11, <1>13, <1>14, Zenon DEF n

LEMMA DeltaStep ==
  ASSUME NEW r, Placed(r), r.kind = "delta", nextDelta
  PROVE  Passes(r) /\ Noted(r)
<1>. DEFINE c == CeilDiv((RunLength - 2) * r.width, 8)
            width == IF WidthField = 0 THEN 0 ELSE decodeBitWidth(WidthField)
<1>0. PICK p, q \in 1 .. 10 :
        /\ VarintLength(index + 2) = p /\ VarintLength(index + 2 + p) = q
        /\ Len(Bytes(r)) = 2 + p + q + c
  BY DeltaHead, Zenon
<1>1. /\ index' = index + 2 + VarintLength(index + 2)
                    + VarintLength(index + 2 + VarintLength(index + 2))
                    + CeilDiv((RunLength - 2) * width, 8)
      /\ offset' = offset + RunLength
      /\ updateEncodingInfo("delta", width, RunLength)
  BY Zenon DEF nextDelta, Emit
<1>. HIDE DEF width
<1>2. width = r.width /\ RunLength = Len(RunValues(r)) /\ c \in Nat
  BY DeltaHead, Zenon DEF width
<1>3. /\ index' = index + 2 + p + q + c /\ offset' = offset + Len(RunValues(r))
      /\ updateEncodingInfo("delta", r.width, Len(RunValues(r)))
  BY <1>0, <1>1, <1>2, Zenon
<1>4. index' = index + Len(Bytes(r))
  <2>1. index \in Nat
    BY DEF Placed
  <2>. HIDE DEF c
  <2>. QED
    BY <1>0, <1>2, <1>3, <2>1
<1>5. RunWidth(r) = r.width
  BY DEF RunWidth
<1>. QED
  BY <1>3, <1>4, <1>5, Zenon DEF Passes, Noted

\* The length of the patches.
PatchBytes(r) == CeilDiv(Len(r.patches) * getClosestFixedBits(r.pw + r.pgw), 8)

LEMMA PatchedHead ==
  ASSUME NEW r, Placed(r), r.kind = "patched"
  PROVE  /\ Encoding = 2
         /\ decodeBitWidth(WidthField) = r.width /\ r.width \in 1 .. 64
         /\ RunLength = Len(RunValues(r)) /\ RunLength = Len(r.raws) /\ RunLength \in Nat
         /\ Byte(2) \div 32 + 1 = BaseBytes(r.base) /\ BaseBytes(r.base) \in 1 .. 8
         /\ decodeBitWidth(Byte(2) % 32) = r.pw /\ Byte(3) \div 32 + 1 = r.pgw
         /\ Byte(3) % 32 = Len(r.patches)
         /\ CeilDiv(RunLength * r.width, 8) \in Nat /\ PatchBytes(r) \in Nat
         /\ Len(Bytes(r)) = 4 + BaseBytes(r.base) + CeilDiv(RunLength * r.width, 8) + PatchBytes(r)
<1>. DEFINE b == Bytes(r)
            n == Len(RunValues(r))
            bw == BaseBytes(r.base)
            pl == Len(r.patches)
            cfb == getClosestFixedBits(r.pw + r.pgw)
            c == CeilDiv(n * r.width, 8)
            d == CeilDiv(pl * cfb, 8)
<1>1. /\ IsSeq(b) /\ b[1] \div 64 = 2
      /\ decodeBitWidth((b[1] \div 2) % 32) = r.width
      /\ 256 * (b[1] % 2) + b[2] + 1 = n
      /\ IsPatchHeader(b, bw, WidthCode(r.pw), r.pgw, pl)
      /\ decodeBitWidth(WidthCode(r.pw)) = r.pw
      /\ Len(b) = 4 + bw + c + d
  BY PatchedBytes, Zenon DEF Placed, Bytes
<1>2. Len(b) \in Nat /\ n \in Nat
  BY RunFacts, Zenon DEF Placed, Bytes
<1>3. bw \in 1 .. 8 /\ c \in Nat /\ d \in Nat
  <2>1. bw \in 1 .. 8 /\ CeilDiv(Len(r.raws) * r.width, 8) \in Nat /\ d \in Nat
    BY PatchedParts, Zenon DEF Placed
  <2>2. n = Len(r.raws)
    <3>1. PICK m \in 1 .. 512 : m = Len(r.raws)
      BY DEF Placed, Legal
    <3>2. RunValues(r) = [i \in 1 .. m |-> PatchedValue(r, i)]
      BY <3>1, Zenon DEF RunValues
    <3>. HIDE DEF b, bw, pl, cfb, c, d
    <3>3. Len([i \in 1 .. m |-> PatchedValue(r, i)]) = m
      OBVIOUS
    <3>. QED
      BY <3>1, <3>2, <3>3, Zenon
  <2>. QED
    BY <2>1, <2>2, Zenon
<1>. HIDE DEF b, n, bw, pl, cfb, c, d
<1>4. Byte(0) = b[1] /\ Byte(1) = b[2] /\ Byte(2) = b[3] /\ Byte(3) = b[4]
  <2>1. 2 <= Len(b) /\ 2 < Len(b) /\ 3 < Len(b) /\ 2 \in Nat /\ 3 \in Nat
        /\ 2 + 1 = 3 /\ 3 + 1 = 4
    BY <1>1, <1>2, <1>3
  <2>2. Byte(0) = b[1] /\ Byte(1) = b[2]
    BY <1>2, <2>1, TwoBytes DEF b
  <2>3. Byte(2) = b[2 + 1] /\ Byte(3) = b[3 + 1]
    BY <1>2, <2>1, ByteOfRun DEF b
  <2>. QED
    BY <2>1, <2>2, <2>3
<1>5. Encoding = 2 /\ decodeBitWidth(WidthField) = r.width /\ RunLength = n
  BY <1>1, <1>4 DEF Encoding, WidthField, RunLength
<1>6. /\ Byte(2) \div 32 + 1 = bw /\ decodeBitWidth(Byte(2) % 32) = r.pw
      /\ Byte(3) \div 32 + 1 = r.pgw /\ Byte(3) % 32 = pl
  BY <1>1, <1>4, Zenon DEF IsPatchHeader
<1>7. r.width \in 1 .. 64
  <2>1. r.width \in BitWidths
    BY DEF Placed, Legal
  <2>. QED
    BY <2>1, WidthTypes, Zenon
<1>8. n = Len(r.raws)
  <2>1. PICK m \in 1 .. 512 : m = Len(r.raws)
    BY DEF Placed, Legal
  <2>2. RunValues(r) = [i \in 1 .. m |-> PatchedValue(r, i)]
    BY <2>1, Zenon DEF RunValues
  <2>3. Len([i \in 1 .. m |-> PatchedValue(r, i)]) = m
    OBVIOUS
  <2>. QED
    BY <2>1, <2>2, <2>3, Zenon DEF n
<1>9. PatchBytes(r) = d
  BY Zenon DEF PatchBytes, d, pl, cfb
<1>10. CeilDiv(RunLength * r.width, 8) = c
  BY <1>5, Zenon DEF c
<1>. QED
  BY <1>1, <1>2, <1>3, <1>5, <1>6, <1>7, <1>8, <1>9, <1>10, Zenon DEF b, n, bw, pl

LEMMA PatchedStep ==
  ASSUME NEW r, Placed(r), r.kind = "patched", nextPatched
  PROVE  Passes(r) /\ Noted(r)
<1>. DEFINE c == CeilDiv(RunLength * r.width, 8)
            d == PatchBytes(r)
            bw == BaseBytes(r.base)
<1>1. /\ index' = index + 4 + (Byte(2) \div 32 + 1)
                    + CeilDiv(RunLength * decodeBitWidth(WidthField), 8)
                    + CeilDiv((Byte(3) % 32) * getClosestFixedBits(
                         decodeBitWidth(Byte(2) % 32) + (Byte(3) \div 32 + 1)), 8)
      /\ offset' = offset + RunLength
      /\ updateEncodingInfo("patched", decodeBitWidth(WidthField), RunLength)
  BY Zenon DEF nextPatched, Emit
<1>2. /\ index' = index + 4 + bw + c + d /\ offset' = offset + Len(RunValues(r))
      /\ updateEncodingInfo("patched", r.width, Len(RunValues(r)))
  BY <1>1, PatchedHead, Zenon DEF PatchBytes
<1>3. index' = index + Len(Bytes(r))
  <2>1. Len(Bytes(r)) = 4 + bw + c + d /\ bw \in 1 .. 8 /\ c \in Nat /\ d \in Nat
    BY PatchedHead, Zenon
  <2>2. index \in Nat
    BY DEF Placed
  <2>. HIDE DEF bw, c, d
  <2>. QED
    BY <1>2, <2>1, <2>2
<1>4. RunWidth(r) = r.width
  BY DEF RunWidth
<1>. QED
  BY <1>2, <1>3, <1>4, Zenon DEF Passes, Noted

\* A turn passes the run in front of it.
LEMMA TurnPasses ==
  ASSUME NEW r, Placed(r), nextShortRepeats \/ nextDirect \/ nextPatched \/ nextDelta
  PROVE  Passes(r) /\ Noted(r)
<1>0. r.kind \in {"repeat", "direct", "delta", "patched"}
  BY DEF Placed, Legal
<1>1. /\ nextShortRepeats => Encoding = 0
      /\ nextDirect => Encoding = 1
      /\ nextPatched => Encoding = 2
      /\ nextDelta => Encoding = 3
  BY Zenon DEF nextShortRepeats, nextDirect, nextPatched, nextDelta, Running
<1>2. CASE r.kind = "repeat"
  <2>1. Encoding = 0
    BY <1>2, RepeatHead, Zenon
  <2>. QED
    BY <1>1, <1>2, <2>1, RepeatStep
<1>3. CASE r.kind = "direct"
  <2>1. Encoding = 1
    BY <1>3, DirectHead, Zenon
  <2>. QED
    BY <1>1, <1>3, <2>1, DirectStep
<1>4. CASE r.kind = "delta"
  <2>1. Encoding = 3
    BY <1>4, DeltaHead, Zenon
  <2>. QED
    BY <1>1, <1>4, <2>1, DeltaStep
<1>5. CASE r.kind = "patched"
  <2>1. Encoding = 2
    BY <1>5, PatchedHead, Zenon
  <2>. QED
    BY <1>1, <1>5, <2>1, PatchedStep
<1>. QED
  BY <1>0, <1>2, <1>3, <1>4, <1>5
-----------------------------------------------------------------------------
(***************************************************************************)
(* The stream, and the place in it.                                        *)
(***************************************************************************)
\* What is decoded was written by a writer.
StreamInv ==
  /\ type \in Instances
  /\ IsSeq(stream)
  /\ \A k \in DOMAIN stream :
       Legal(stream[k].run, IsSigned) /\ stream[k] = Written(stream[k].run)
  /\ data = FlattenSeq([k \in DOMAIN stream |-> stream[k].bytes])

\* Where the runs lie in the data.
LEMMA StreamFacts ==
  ASSUME StreamInv
  PROVE  /\ Len(stream) \in Nat /\ DOMAIN stream = 1 .. Len(stream)
         /\ EndIndex(0) = 0 /\ EndOffset(0) = 0
         /\ Len(data) = EndIndex(Len(stream))
         /\ \A k \in 0 .. Len(stream) : EndIndex(k) \in Nat /\ EndOffset(k) \in Nat
         /\ \A k \in 1 .. Len(stream) :
              /\ EndIndex(k) = EndIndex(k-1) + Len(stream[k].bytes)
              /\ EndOffset(k) = EndOffset(k-1) + Len(stream[k].values)
              /\ \A j \in 1 .. Len(stream[k].bytes) :
                   data[EndIndex(k-1) + j] = stream[k].bytes[j]
<1>. DEFINE n == Len(stream)
            bytes == [k \in DOMAIN stream |-> stream[k].bytes]
            D == UNION {Range(stream[k].bytes) : k \in DOMAIN stream}
            values == [i \in DOMAIN stream |-> Len(stream[i].values)]
<1>1. n \in Nat /\ DOMAIN stream = 1 .. n
  BY DEF StreamInv, IsSeq
<1>2. ASSUME NEW k \in 1 .. n
      PROVE  IsSeq(stream[k].bytes) /\ Len(stream[k].values) \in Nat
  <2>1. Legal(stream[k].run, IsSigned) /\ stream[k] = Written(stream[k].run)
    BY <1>1, <1>2 DEF StreamInv
  <2>2. stream[k].bytes = RunBytes(stream[k].run, IsSigned)
        /\ stream[k].values = RunValues(stream[k].run)
    <3>1. /\ Written(stream[k].run).bytes = RunBytes(stream[k].run, IsSigned)
          /\ Written(stream[k].run).values = RunValues(stream[k].run)
      BY DEF Written
    <3>. QED
      BY <2>1, <3>1, Zenon
  <2>. QED
    BY <2>1, <2>2, RunFacts, Zenon
<1>3. ASSUME NEW k \in 1 .. n PROVE stream[k].bytes \in Seq(D)
  <2>1. Range(stream[k].bytes) \subseteq D
    BY <1>1, <1>3
  <2>. HIDE DEF D
  <2>. QED
    BY <1>2, <2>1, WiderSeq
<1>. HIDE DEF D, n
<1>4. bytes \in Seq(Seq(D)) /\ Len(bytes) = n
      /\ \A k \in 1 .. n : bytes[k] = stream[k].bytes
  <2>1. bytes = [k \in 1 .. n |-> stream[k].bytes]
    BY <1>1
  <2>. HIDE DEF bytes
  <2>2. \A k \in 1 .. n : bytes[k] = stream[k].bytes
    BY <2>1, Zenon
  <2>. QED
    BY <1>1, <1>3, <2>1, <2>2
<1>5. data = FlattenSeq(bytes)
  BY DEF StreamInv
<1>6. \A k : EndIndex(k) = SumTo(Lengths(bytes), k)
  <2>1. Lengths(bytes) = [i \in DOMAIN stream |-> Len(stream[i].bytes)]
    <3>1. DOMAIN bytes = DOMAIN stream
      OBVIOUS
    <3>2. \A i \in DOMAIN stream : bytes[i] = stream[i].bytes
      OBVIOUS
    <3>. HIDE DEF bytes
    <3>. QED
      BY <3>1, <3>2 DEF Lengths
  <2>. QED
    BY <2>1, Zenon DEF EndIndex
<1>7. \A k : EndOffset(k) = SumTo(values, k)
  BY Zenon DEF EndOffset
<1>8. values \in Seq(Nat) /\ Len(values) = n /\ \A k \in 1 .. n : values[k] = Len(stream[k].values)
  <2>1. values = [k \in 1 .. n |-> Len(stream[k].values)]
    BY <1>1
  <2>. HIDE DEF values
  <2>2. \A k \in 1 .. n : values[k] = Len(stream[k].values)
    BY <2>1, Zenon
  <2>. QED
    BY <1>1, <1>2, <2>1, <2>2
<1>. HIDE DEF bytes, values
<1>9. /\ Lengths(bytes) \in Seq(Nat) /\ Len(Lengths(bytes)) = n
      /\ \A k \in 1 .. n : Lengths(bytes)[k] = Len(stream[k].bytes)
  BY <1>4, LengthsType
<1>10. /\ EndIndex(0) = 0 /\ EndOffset(0) = 0
       /\ \A k \in 1 .. n : /\ EndIndex(k) = EndIndex(k-1) + Len(stream[k].bytes)
                            /\ EndOffset(k) = EndOffset(k-1) + Len(stream[k].values)
  BY <1>6, <1>7, <1>8, <1>9, SumStep
<1>11. \A k \in 0 .. n : EndIndex(k) \in Nat /\ EndOffset(k) \in Nat
  BY <1>6, <1>7, <1>8, <1>9, SumType
<1>12. /\ Len(data) = EndIndex(n)
       /\ \A k \in 1 .. n : \A j \in 1 .. Len(stream[k].bytes) :
            data[EndIndex(k-1) + j] = stream[k].bytes[j]
  <2>1. /\ Len(data) = SumTo(Lengths(bytes), Len(bytes))
        /\ \A k \in 1 .. Len(bytes) : \A j \in 1 .. Len(bytes[k]) :
              data[SumTo(Lengths(bytes), k-1) + j] = bytes[k][j]
    <3>1. /\ Len(FlattenSeq(bytes)) = SumTo(Lengths(bytes), Len(bytes))
          /\ \A k \in 1 .. Len(bytes) : \A j \in 1 .. Len(bytes[k]) :
               FlattenSeq(bytes)[SumTo(Lengths(bytes), k-1) + j] = bytes[k][j]
      BY <1>4, PartsOf
    <3>. QED
      BY <1>5, <3>1, Zenon
  <2>. QED
    BY <1>4, <1>6, <2>1
<1>. QED
  BY <1>1, <1>10, <1>11, <1>12 DEF n

\* In front of the end lies a run.
LEMMA RunAhead ==
  ASSUME StreamInv, NEW k \in 0 .. Len(stream), index = EndIndex(k), index < Len(data)
  PROVE  k + 1 \in 1 .. Len(stream) /\ Placed(stream[k + 1].run)
<1>1. Len(stream) \in Nat /\ index \in Nat
  BY StreamFacts
<1>2. k # Len(stream)
  <2>1. k = Len(stream) => index = Len(data)
    BY StreamFacts
  <2>. QED
    BY <1>1, <2>1
<1>3. PICK m \in 1 .. Len(stream) : m = k + 1 /\ m - 1 = k
  BY <1>1, <1>2
<1>4. Legal(stream[m].run, IsSigned) /\ stream[m] = Written(stream[m].run)
  BY StreamFacts DEF StreamInv
<1>5. stream[m].bytes = Bytes(stream[m].run)
  <2>1. Written(stream[m].run).bytes = RunBytes(stream[m].run, IsSigned)
    BY DEF Written
  <2>. QED
    BY <1>4, <2>1, Zenon DEF Bytes
<1>6. \A j \in 1 .. Len(stream[m].bytes) : data[index + j] = stream[m].bytes[j]
  BY <1>3, StreamFacts
<1>7. Placed(stream[m].run)
  BY <1>1, <1>4, <1>5, <1>6, Zenon DEF Placed
<1>. QED
  BY <1>3, <1>7

\* A turn takes one run, from where it begins to where it ends.
LEMMA TurnTaken ==
  ASSUME StreamInv, StaysInStep, index < Len(data),
         nextShortRepeats \/ nextDirect \/ nextPatched \/ nextDelta
  PROVE  \E m \in 1 .. Len(stream) :
           /\ index = EndIndex(m-1) /\ index' = EndIndex(m) /\ offset' = EndOffset(m)
           /\ m - 1 \in 0 .. Len(stream) /\ Noted(stream[m].run)
           /\ stream[m].values = RunValues(stream[m].run)
<1>1. PICK k \in 0 .. Len(stream) : index = EndIndex(k) /\ offset = EndOffset(k)
  BY DEF StaysInStep
<1>2. k + 1 \in 1 .. Len(stream) /\ Placed(stream[k + 1].run)
  BY <1>1, RunAhead
<1>3. PICK m \in 1 .. Len(stream) : m = k + 1 /\ m - 1 = k
  BY <1>2
<1>4. Passes(stream[m].run) /\ Noted(stream[m].run)
  BY <1>2, <1>3, TurnPasses, Zenon
<1>5. /\ stream[m].bytes = Bytes(stream[m].run)
      /\ stream[m].values = RunValues(stream[m].run)
  <2>1. stream[m] = Written(stream[m].run)
    BY <1>3, StreamFacts DEF StreamInv
  <2>2. /\ Written(stream[m].run).bytes = RunBytes(stream[m].run, IsSigned)
        /\ Written(stream[m].run).values = RunValues(stream[m].run)
    BY DEF Written
  <2>. QED
    BY <2>1, <2>2, Zenon DEF Bytes
<1>6. index' = EndIndex(m) /\ offset' = EndOffset(m)
  <2>1. /\ EndIndex(m) = EndIndex(m-1) + Len(stream[m].bytes)
        /\ EndOffset(m) = EndOffset(m-1) + Len(stream[m].values)
    BY <1>3, StreamFacts
  <2>2. /\ index' = index + Len(stream[m].bytes)
        /\ offset' = offset + Len(stream[m].values)
    BY <1>4, <1>5, Zenon DEF Passes
  <2>. QED
    BY <1>1, <1>3, <2>1, <2>2, Zenon
<1>. QED
  BY <1>1, <1>3, <1>4, <1>5, <1>6, Zenon

\* So it ends in front of a run, or at the end.
LEMMA TurnStays ==
  ASSUME StreamInv, StaysInStep, UNCHANGED stream, index < Len(data),
         nextShortRepeats \/ nextDirect \/ nextPatched \/ nextDelta
  PROVE  StaysInStep'
<1>1. PICK m \in 1 .. Len(stream) : index' = EndIndex(m) /\ offset' = EndOffset(m)
  BY TurnTaken, Zenon
<1>2. EndIndex(m)' = EndIndex(m) /\ EndOffset(m)' = EndOffset(m)
  BY Zenon DEF EndIndex, EndOffset
<1>3. m \in 0 .. Len(stream')
  BY StreamFacts
<1>4. \E j \in 0 .. Len(stream') : index' = EndIndex(j)' /\ offset' = EndOffset(j)'
  BY <1>1, <1>2, <1>3, Zenon
<1>. QED
  BY <1>4 DEF StaysInStep

\* A stream just opened.
LEMMA Opened ==
  ASSUME NEW runs, LegalStream(runs, IsSigned), type \in Instances, UNCHANGED type,
         stream' = [k \in DOMAIN runs |-> Written(runs[k])],
         data' = FlattenSeq([k \in DOMAIN stream' |-> stream'[k].bytes])
  PROVE  StreamInv'
<1>1. runs \in Seq(Range(runs)) /\ \A k \in DOMAIN runs : Legal(runs[k], IsSigned)
  BY DEF LegalStream
<1>2. PICK n \in Nat : DOMAIN runs = 1 .. n
  BY <1>1
<1>3. IsSeq(stream')
  <2>1. stream' = [k \in 1 .. n |-> stream'[k]]
    BY <1>2
  <2>. QED
    BY <2>1, FunctionIsSeq
<1>4. ASSUME NEW k \in DOMAIN stream'
      PROVE  Legal(stream'[k].run, IsSigned) /\ stream'[k] = Written(stream'[k].run)
  <2>1. k \in DOMAIN runs /\ stream'[k] = Written(runs[k])
    BY <1>4
  <2>2. Written(runs[k]).run = runs[k]
    BY DEF Written
  <2>3. stream'[k].run = runs[k]
    BY <2>1, <2>2, Zenon
  <2>. QED
    BY <1>1, <2>1, <2>3, Zenon
<1>5. IsSigned' = IsSigned
  BY DEF IsSigned
<1>6. \A x : Written(x)' = Written(x)
  BY <1>5, Zenon DEF Written
<1>. QED
  BY <1>3, <1>4, <1>5, <1>6 DEF StreamInv

LEMMA StreamStays ==
  ASSUME StreamInv, UNCHANGED <<type, stream, data>>
  PROVE  StreamInv'
BY Zenon DEF StreamInv, Written, IsSigned

-----------------------------------------------------------------------------
(***************************************************************************)
(* The interpreter.                                                        *)
(***************************************************************************)
\* In step from the start, and in front of the first run of every stream.
GenInv == StreamInv /\ InterpreterInStep

LEMMA AtTheStart ==
  ASSUME StreamInv, index = 0, offset = 0
  PROVE  StaysInStep
<1>1. EndIndex(0) = 0 /\ EndOffset(0) = 0 /\ 0 \in 0 .. Len(stream)
  BY StreamFacts
<1>. QED
  BY <1>1, Zenon DEF StaysInStep

LEMMA InterpreterStarts == GenInit => GenInv
<1>. SUFFICES ASSUME GenInit PROVE GenInv
  OBVIOUS
<1>1. type \in Instances /\ index = 0 /\ offset = 0
  BY DEF GenInit, Init
<1>2. PICK runs \in Streams(W, IsSigned) : stream = [k \in DOMAIN runs |-> Written(runs[k])]
  BY DEF GenInit, Init
<1>3. LegalStream(runs, IsSigned)
  BY <1>1, <1>2, WriterAssumption, Zenon DEF W, IsSigned
<1>4. StreamInv
  <2>1. runs \in Seq(Range(runs)) /\ \A k \in DOMAIN runs : Legal(runs[k], IsSigned)
    BY <1>3 DEF LegalStream
  <2>2. PICK n \in Nat : DOMAIN runs = 1 .. n
    BY <2>1
  <2>3. IsSeq(stream)
    <3>1. stream = [k \in 1 .. n |-> stream[k]]
      BY <1>2, <2>2
    <3>. QED
      BY <3>1, FunctionIsSeq
  <2>4. ASSUME NEW k \in DOMAIN stream
        PROVE  Legal(stream[k].run, IsSigned) /\ stream[k] = Written(stream[k].run)
    <3>1. k \in DOMAIN runs /\ stream[k] = Written(runs[k])
      BY <1>2, <2>4
    <3>2. Written(runs[k]).run = runs[k]
      BY DEF Written
    <3>3. stream[k].run = runs[k]
      BY <3>1, <3>2, Zenon
    <3>. QED
      BY <2>1, <3>1, <3>3, Zenon
  <2>5. data = FlattenSeq([k \in DOMAIN stream |-> stream[k].bytes])
    BY DEF GenInit, Init
  <2>. QED
    BY <1>1, <2>3, <2>4, <2>5 DEF StreamInv
<1>. QED
  BY <1>1, <1>4, AtTheStart DEF GenInv, InterpreterInStep

LEMMA StepOfInterpreter ==
  ASSUME GenInv, Interpret
  PROVE  GenInv'
<1>1. /\ UNCHANGED <<type, stream, data>> /\ UNCHANGED genVars /\ index < Len(data)
      /\ phase = "scan"
      /\ nextShortRepeats \/ nextDirect \/ nextPatched \/ nextDelta
  BY Zenon DEF Interpret, nextShortRepeats, nextDirect, nextPatched, nextDelta, Running
<1>2. StreamInv'
  BY <1>1, StreamStays DEF GenInv
<1>3. StaysInStep'
  <2>1. StaysInStep
    BY <1>1 DEF GenInv, InterpreterInStep, Interpreted
  <2>. QED
    BY <1>1, <2>1, TurnStays DEF GenInv
<1>. QED
  BY <1>2, <1>3 DEF GenInv, InterpreterInStep

LEMMA OpenStep ==
  ASSUME GenInv, UNCHANGED type, NEW runs, LegalStream(runs, IsSigned), Open(runs)
  PROVE  GenInv'
<1>1. /\ stream' = [k \in DOMAIN runs |-> Written(runs[k])] /\ index' = 0 /\ offset' = 0
      /\ data' = FlattenSeq([k \in DOMAIN runs |-> stream'[k].bytes])
  BY Zenon DEF Open
<1>2. DOMAIN stream' = DOMAIN runs
  BY <1>1
<1>3. data' = FlattenSeq([k \in DOMAIN stream' |-> stream'[k].bytes])
  BY <1>1, <1>2, Zenon
<1>4. type \in Instances
  BY DEF GenInv, StreamInv
<1>5. StreamInv'
  BY <1>1, <1>3, <1>4, Opened
<1>6. StaysInStep'
  <2>1. (StreamInv /\ index = 0 /\ offset = 0 => StaysInStep)'
    BY AtTheStart, PTL
  <2>. QED
    BY <1>1, <1>5, <2>1
<1>. QED
  BY <1>5, <1>6 DEF GenInv, InterpreterInStep

LEMMA StepOfScanner ==
  ASSUME GenInv, AnotherScanner
  PROVE  GenInv'
<1>1. PICK runs \in More(W, IsSigned) : Open(runs) /\ UNCHANGED type
  BY Zenon DEF AnotherScanner
<1>2. type \in Instances
  BY DEF GenInv, StreamInv
<1>3. LegalStream(runs, IsSigned)
  BY <1>1, <1>2, ScannersAssumption DEF W, IsSigned
<1>. QED
  BY <1>1, <1>3, OpenStep

LEMMA StepOfGenerate ==
  ASSUME GenInv, Generate
  PROVE  GenInv'
<1>1. PICK runs \in {[k \in DOMAIN stream |-> stream[k].run]} \cup Later(W, IsSigned) :
        Open(runs) /\ UNCHANGED type
  BY Zenon DEF Generate
<1>2. type \in Instances
  BY DEF GenInv, StreamInv
<1>3. CASE runs \in Later(W, IsSigned)
  <2>1. LegalStream(runs, IsSigned)
    BY <1>2, <1>3, ScannersAssumption DEF W, IsSigned
  <2>. QED
    BY <1>1, <2>1, OpenStep
<1>4. CASE runs = [k \in DOMAIN stream |-> stream[k].run]
  <2>1. PICK n \in Nat : DOMAIN stream = 1 .. n
    BY StreamFacts DEF GenInv
  <2>2. runs = [k \in 1 .. n |-> runs[k]]
    BY <1>4, <2>1
  <2>3. runs \in Seq(Range(runs)) /\ DOMAIN runs = DOMAIN stream
    BY <1>4, <2>2, FunctionIsSeq DEF IsSeq
  <2>4. ASSUME NEW k \in DOMAIN runs PROVE Legal(runs[k], IsSigned)
    <3>1. k \in DOMAIN stream /\ runs[k] = stream[k].run
      BY <1>4, <2>4
    <3>. QED
      BY <3>1, Zenon DEF GenInv, StreamInv
  <2>5. LegalStream(runs, IsSigned)
    BY <2>3, <2>4, Zenon DEF LegalStream
  <2>. QED
    BY <1>1, <2>5, OpenStep
<1>. QED
  BY <1>1, <1>3, <1>4

LEMMA StepOfDecoder ==
  ASSUME GenInv,
         \/ genfunc_nextRepeat \/ genfunc_nextDirect \/ genfunc_nextPatched
         \/ genfunc_nextDelta \/ NoCase
  PROVE  GenInv'
<1>1. phase = "generated"
  BY Zenon DEF genfunc_nextRepeat, genfunc_nextDirect, genfunc_nextPatched, genfunc_nextDelta,
     NoCase, Enter, Decoding
<1>2. UNCHANGED <<type, stream, data, phase>>
  <2>1. NoCase => UNCHANGED <<type, stream, data, phase>>
    BY DEF NoCase, vars
  <2>2. genfunc_nextRepeat \/ genfunc_nextDirect \/ genfunc_nextPatched \/ genfunc_nextDelta
          => UNCHANGED <<type, stream, data, phase>>
    BY Zenon DEF genfunc_nextRepeat, genfunc_nextDirect, genfunc_nextPatched,
       genfunc_nextDelta, Return
  <2>. QED
    BY <2>1, <2>2, Zenon
<1>3. StreamInv'
  BY <1>2, StreamStays DEF GenInv
<1>. QED
  BY <1>1, <1>2, <1>3 DEF GenInv, InterpreterInStep, Interpreted

LEMMA StepOfRest ==
  ASSUME GenInv, MergeProfile \/ GenEnded \/ UNCHANGED allVars
  PROVE  GenInv'
<1>1. UNCHANGED vars /\ (phase' # "generated" => phase # "generated")
  BY DEF MergeProfile, GenEnded, allVars, genVars
<1>2. UNCHANGED <<type, stream, data, index, offset>>
  BY <1>1 DEF vars
<1>3. StreamInv'
  BY <1>2, StreamStays DEF GenInv
<1>4. StaysInStep => StaysInStep'
  BY <1>2 DEF StaysInStep, EndIndex, EndOffset
<1>. QED
  BY <1>1, <1>3, <1>4 DEF GenInv, InterpreterInStep, Interpreted

LEMMA StepKeepsGenInv == GenInv /\ [GenNext]_allVars => GenInv'
<1>. SUFFICES ASSUME GenInv, [GenNext]_allVars PROVE GenInv'
  OBVIOUS
<1>1. CASE Interpret
  BY <1>1, StepOfInterpreter
<1>2. CASE AnotherScanner
  BY <1>2, StepOfScanner
<1>3. CASE Generate
  BY <1>3, StepOfGenerate
<1>4. CASE genfunc_nextRepeat \/ genfunc_nextDirect \/ genfunc_nextPatched
             \/ genfunc_nextDelta \/ NoCase
  BY <1>4, StepOfDecoder
<1>5. CASE MergeProfile \/ GenEnded \/ UNCHANGED allVars
  BY <1>5, StepOfRest
<1>. QED
  BY <1>1, <1>2, <1>3, <1>4, <1>5, Zenon DEF GenNext

\* Whatever streams writers write, and in whatever order the scanners read
\* them, the interpreter stands behind the run it has read last (the loop of
\* RLE2::next, RLE2.cpp): no kind, width or length of a run makes it lose its
\* step.
THEOREM InterpreterKeepsStep == GenSpec => []InterpreterInStep
<1>1. GenInv => InterpreterInStep
  BY DEF GenInv
<1>. QED
  BY <1>1, InterpreterStarts, StepKeepsGenInv, PTL DEF GenSpec

-----------------------------------------------------------------------------
(***************************************************************************)
(* The profile.                                                            *)
(***************************************************************************)
\* A bag that holds, for each key, a weight for each of the runs with that key.
Counts(bag, runs, key, weight) ==
  /\ DOMAIN bag = {key[k] : k \in runs}
  /\ \A k \in runs :
       bag[key[k]] = weight[k] * Cardinality({j \in runs : key[j] = key[k]})

LEMMA OneMore ==
  ASSUME NEW w \in Nat, NEW c \in Nat
  PROVE  w * c + w = w * (c + 1) /\ w * 0 = 0 /\ w * c \in Nat
OBVIOUS

LEMMA CountsMore ==
  ASSUME NEW n \in Nat, NEW key, NEW weight \in [1 .. n -> Nat],
         \A j \in 1 .. n : \A k \in 1 .. n : key[j] = key[k] => weight[j] = weight[k],
         NEW runs \in SUBSET (1 .. n), NEW bag, Counts(bag, runs, key, weight),
         NEW m \in 1 .. n, m \notin runs,
         NEW more, more = bag (+) [x \in {key[m]} |-> weight[m]]
  PROVE  Counts(more, runs \cup {m}, key, weight)
<1>. DEFINE Same(R, x) == {j \in R : key[j] = x}
            all == runs \cup {m}
            c == Cardinality(Same(runs, key[m]))
            w == weight[m]
<1>1. \A x : IsFiniteSet(Same(runs, x)) /\ Cardinality(Same(runs, x)) \in Nat
  <2>1. IsFiniteSet(1 .. n)
    BY FS_Interval
  <2>2. ASSUME NEW x PROVE IsFiniteSet(Same(runs, x))
    <3>1. Same(runs, x) \subseteq 1 .. n
      OBVIOUS
    <3>. HIDE DEF Same
    <3>. QED
      BY <2>1, <3>1, FS_Subset
  <2>. HIDE DEF Same
  <2>. QED
    BY <2>2, FS_CardinalityType
<1>2. /\ DOMAIN bag = {key[k] : k \in runs}
      /\ \A k \in runs : bag[key[k]] = weight[k] * Cardinality(Same(runs, key[k]))
  BY DEF Counts
<1>3. /\ DOMAIN more = DOMAIN bag \cup {key[m]}
      /\ \A x \in DOMAIN more :
           more[x] = (IF x \in DOMAIN bag THEN bag[x] ELSE 0) + (IF x = key[m] THEN w ELSE 0)
  <2>. DEFINE one == [x \in {key[m]} |-> weight[m]]
  <2>1. /\ DOMAIN one = {key[m]} /\ \A x : x \in DOMAIN one <=> x = key[m]
        /\ \A x : x = key[m] => one[x] = w
    OBVIOUS
  <2>2. more = [e \in DOMAIN bag \cup DOMAIN one |->
                  (IF e \in DOMAIN bag THEN bag[e] ELSE 0)
                + (IF e \in DOMAIN one THEN one[e] ELSE 0)]
    BY Zenon DEF (+)
  <2>. HIDE DEF one, w
  <2>3. DOMAIN more = DOMAIN bag \cup {key[m]}
    BY <2>1, <2>2
  <2>4. ASSUME NEW x \in DOMAIN more
        PROVE  more[x] = (IF x \in DOMAIN bag THEN bag[x] ELSE 0)
                       + (IF x = key[m] THEN w ELSE 0)
    BY <2>1, <2>2
  <2>. QED
    BY <2>3, <2>4
<1>4. DOMAIN more = {key[k] : k \in all}
  <2>1. {key[k] : k \in runs} \cup {key[m]} = {key[k] : k \in all}
    OBVIOUS
  <2>. QED
    BY <1>2, <1>3, <2>1, Zenon
<1>5. ASSUME NEW k \in all, key[k] = key[m]
      PROVE  more[key[k]] = weight[k] * Cardinality(Same(all, key[k]))
  <2>1. Same(all, key[k]) = Same(runs, key[m]) \cup {m} /\ m \notin Same(runs, key[m])
    BY <1>5
  <2>2. Cardinality(Same(all, key[k])) = c + 1
    <3>. HIDE DEF Same
    <3>. QED
      BY <1>1, <2>1, FS_AddElement
  <2>3. weight[k] = w /\ w \in Nat
    BY <1>5
  <2>4. more[key[m]] = (IF key[m] \in DOMAIN bag THEN bag[key[m]] ELSE 0) + w
    BY <1>3
  <2>5. (IF key[m] \in DOMAIN bag THEN bag[key[m]] ELSE 0) = w * c
    <3>1. CASE key[m] \in DOMAIN bag
      <4>1. PICK j \in runs : key[j] = key[m]
        BY <1>2, <3>1
      <4>2. bag[key[j]] = weight[j] * Cardinality(Same(runs, key[j]))
        BY <1>2
      <4>3. weight[j] = w
        BY <4>1
      <4>. HIDE DEF Same
      <4>. QED
        BY <3>1, <4>1, <4>2, <4>3
    <3>2. CASE key[m] \notin DOMAIN bag
      <4>1. Same(runs, key[m]) = {}
        BY <1>2, <3>2
      <4>2. c = 0
        BY <4>1, FS_EmptySet
      <4>. HIDE DEF c
      <4>. QED
        BY <2>3, <3>2, <4>2, OneMore
    <3>. QED
      BY <3>1, <3>2
  <2>6. w * c + w = w * (c + 1)
    <3>1. c \in Nat
      BY <1>1
    <3>. HIDE DEF c, w
    <3>. QED
      BY <2>3, <3>1, OneMore
  <2>. HIDE DEF c, w, Same
  <2>7. more[key[m]] = w * c + w
    BY <2>4, <2>5, Zenon
  <2>. QED
    BY <1>5, <2>2, <2>3, <2>6, <2>7, Zenon
<1>6. ASSUME NEW k \in all, key[k] # key[m]
      PROVE  more[key[k]] = weight[k] * Cardinality(Same(all, key[k]))
  <2>1. k \in runs /\ Same(all, key[k]) = Same(runs, key[k])
    BY <1>6
  <2>2. key[k] \in DOMAIN bag /\ key[k] \in DOMAIN more
    BY <1>2, <1>3, <2>1
  <2>3. bag[key[k]] = weight[k] * Cardinality(Same(runs, key[k]))
    BY <1>2, <2>1
  <2>4. more[key[k]] = bag[key[k]] + 0
    BY <1>3, <1>6, <2>2
  <2>5. weight[k] \in Nat /\ Cardinality(Same(runs, key[k])) \in Nat
    BY <1>1, <2>1
  <2>. HIDE DEF Same
  <2>6. bag[key[k]] \in Nat
    BY <2>3, <2>5, OneMore
  <2>7. more[key[k]] = bag[key[k]]
    BY <2>4, <2>6
  <2>. QED
    BY <2>1, <2>3, <2>7
<1>. QED
  BY <1>4, <1>5, <1>6 DEF Counts

\* A number put in the place of a zero counts in the sum.
LEMMA SumWith ==
  ASSUME NEW f \in Seq(Nat), NEW g \in Seq(Nat), Len(f) = Len(g), NEW m \in 1 .. Len(f),
         \A k \in 1 .. Len(f) : k # m => f[k] = g[k], g[m] = 0
  PROVE  SumTo(f, Len(f)) = SumTo(g, Len(g)) + f[m]
<1>. DEFINE n == Len(f)
            x(d) == IF d >= m THEN f[m] ELSE 0
            S == {d \in Nat : d \in 0 .. n => SumTo(f, d) = SumTo(g, d) + x(d)}
<1>0. n \in Nat /\ m \in Nat /\ m > 0 /\ \A d \in 0 .. n : SumTo(g, d) \in Nat
  BY SumType
<1>1. 0 \in S
  <2>1. SumTo(f, 0) = 0 /\ SumTo(g, 0) = 0
    BY SumStep
  <2>. QED
    BY <1>0, <2>1
<1>2. ASSUME NEW d \in Nat, d \in S PROVE d + 1 \in S
  <2>1. ASSUME d + 1 \in 0 .. n PROVE SumTo(f, d + 1) = SumTo(g, d + 1) + x(d + 1)
    <3>1. PICK k \in 1 .. n : k = d + 1 /\ k - 1 = d /\ d \in 0 .. n
      BY <2>1
    <3>2. SumTo(f, k) = SumTo(f, d) + f[k] /\ SumTo(g, k) = SumTo(g, d) + g[k]
      <4>. HIDE DEF S, x
      <4>1. SumTo(f, k) = SumTo(f, k-1) + f[k] /\ SumTo(g, k) = SumTo(g, k-1) + g[k]
        BY SumStep, Zenon
      <4>. QED
        BY <3>1, <4>1, Zenon
    <3>3. SumTo(f, d) = SumTo(g, d) + x(d)
      BY <1>2, <3>1
    <3>4. SumTo(g, d) \in Nat /\ f[k] \in Nat /\ g[k] \in Nat /\ f[m] \in Nat
      <4>2. f[k] \in Nat /\ g[k] \in Nat /\ f[m] \in Nat
        BY ElementOfSeq, Zenon
      <4>. HIDE DEF S, x
      <4>3. SumTo(g, d) \in Nat
        BY <1>0, <3>1, Zenon
      <4>. QED
        BY <4>2, <4>3, Zenon
    <3>5. CASE k = m
      <4>1. x(k) = f[k] /\ x(d) = 0 /\ g[k] = 0
        <5>. HIDE DEF S
        <5>1. k >= m /\ ~(d >= m)
          BY <1>0, <3>1, <3>5
        <5>. QED
          BY <3>5, <5>1, Zenon
      <4>2. PICK a \in Nat, b \in Nat : a = SumTo(g, d) /\ b = f[k]
        BY <3>4, Zenon
      <4>. HIDE DEF x
      <4>3. SumTo(f, k) = (a + 0) + b /\ SumTo(g, k) = a + 0
        BY <3>2, <3>3, <4>1, <4>2, Zenon
      <4>4. SumTo(f, k) = SumTo(g, k) + x(k)
        BY <4>1, <4>2, <4>3, Zenon
      <4>. QED
        BY <3>1, <4>4, Zenon
    <3>6. CASE k # m
      <4>1. f[k] = g[k]
        BY <3>6
      <4>2. x(k) = x(d)
        BY <3>1, <3>6
      <4>3. x(d) \in Nat
        BY <3>4
      <4>. HIDE DEF x
      <4>. QED
        BY <3>1, <3>2, <3>3, <3>4, <4>1, <4>2, <4>3
    <3>. QED
      BY <3>5, <3>6
  <2>. QED
    BY <2>1
<1>. HIDE DEF S, x
<1>3. n \in S
  BY <1>0, <1>1, <1>2, SetInduction
<1>4. x(n) = f[m]
  BY <1>0 DEF x
<1>. QED
  BY <1>0, <1>3, <1>4 DEF S

\* One more run in a profile.
Adds(q, p, w, n) ==
  /\ q.num = p.num + 1 /\ q.totalRunLength = p.totalRunLength + n
  /\ q.bitsize = p.bitsize (+) SetToBag({w})
  /\ q.runLength = p.runLength (+) [len \in {n} |-> n]

LEMMA TellsMore ==
  ASSUME NEW length \in Seq(Nat), NEW width, NEW runs \in SUBSET (1 .. Len(length)),
         NEW p, Tells(p, runs, width, length), NEW m \in 1 .. Len(length), m \notin runs,
         NEW q, Adds(q, p, width[m], length[m])
  PROVE  Tells(q, runs \cup {m}, width, length)
<1>. DEFINE n == Len(length)
            all == runs \cup {m}
            one == [k \in 1 .. n |-> 1]
            part(R) == [k \in DOMAIN length |-> IF k \in R THEN length[k] ELSE 0]
<1>0. n \in Nat /\ DOMAIN length = 1 .. n /\ length \in [1 .. n -> Nat] /\ one \in [1 .. n -> Nat]
      /\ \A k \in 1 .. n : one[k] = 1
  OBVIOUS
<1>1. q.num = Cardinality(all)
  <2>1. IsFiniteSet(runs)
    <3>1. IsFiniteSet(1 .. n)
      BY <1>0, FS_Interval
    <3>. QED
      BY <3>1, FS_Subset
  <2>2. p.num = Cardinality(runs) /\ q.num = p.num + 1
    BY Zenon DEF Tells, Adds
  <2>3. Cardinality(all) = Cardinality(runs) + 1
    BY <2>1, FS_AddElement
  <2>. QED
    BY <2>2, <2>3, Zenon
<1>2. q.totalRunLength = SumTo(part(all), n)
  <2>1. p.totalRunLength = SumTo(part(runs), n)
    BY Zenon DEF Tells
  <2>2. \A R : /\ part(R) \in Seq(Nat) /\ Len(part(R)) = n
               /\ \A k \in 1 .. n : part(R)[k] = IF k \in R THEN length[k] ELSE 0
    <3>. SUFFICES ASSUME NEW R
                  PROVE  /\ part(R) \in Seq(Nat) /\ Len(part(R)) = n
                         /\ \A k \in 1 .. n : part(R)[k] = IF k \in R THEN length[k] ELSE 0
      OBVIOUS
    <3>1. part(R) = [k \in 1 .. n |-> IF k \in R THEN length[k] ELSE 0]
      BY <1>0
    <3>2. \A k \in 1 .. n : (IF k \in R THEN length[k] ELSE 0) \in Nat
      BY <1>0
    <3>. HIDE DEF part, n
    <3>. QED
      BY <1>0, <3>1, <3>2
  <2>3. /\ \A k \in 1 .. n : k # m => part(all)[k] = part(runs)[k]
        /\ part(runs)[m] = 0 /\ part(all)[m] = length[m] /\ m \in 1 .. n
    BY <2>2
  <2>. HIDE DEF part, n
  <2>4. SumTo(part(all), Len(part(all))) = SumTo(part(runs), Len(part(runs))) + part(all)[m]
    <3>. DEFINE f == part(all)
                g == part(runs)
    <3>1. f \in Seq(Nat) /\ g \in Seq(Nat) /\ Len(f) = n /\ Len(g) = n
      BY <2>2, Zenon
    <3>2. (\A k \in 1 .. n : k # m => f[k] = g[k]) /\ g[m] = 0 /\ m \in 1 .. n
      BY <2>3, Zenon
    <3>. HIDE DEF f, g
    <3>3. SumTo(f, Len(f)) = SumTo(g, Len(g)) + f[m]
      BY <3>1, <3>2, SumWith
    <3>. QED
      BY <3>3, Zenon DEF f, g
  <2>. QED
    BY <2>1, <2>2, <2>3, <2>4 DEF Adds
<1>3. /\ BagToSet(q.bitsize) = {width[k] : k \in all}
      /\ \A k \in all : q.bitsize[width[k]] = Cardinality({j \in all : width[j] = width[k]})
  <2>0. \A R \in SUBSET (1 .. n) : \A x : Cardinality({j \in R : width[j] = x}) \in Nat
    <3>. SUFFICES ASSUME NEW R \in SUBSET (1 .. n), NEW x
                  PROVE  Cardinality({j \in R : width[j] = x}) \in Nat
      OBVIOUS
    <3>. DEFINE T == {j \in R : width[j] = x}
    <3>0. T \subseteq 1 .. n
      OBVIOUS
    <3>. HIDE DEF T
    <3>1. IsFiniteSet(1 .. n)
      BY <1>0, FS_Interval
    <3>2. Cardinality(T) \in Nat
      BY <3>0, <3>1, FS_Subset, FS_CardinalityType
    <3>. QED
      BY <3>2 DEF T
  <2>1. Counts(p.bitsize, runs, width, one)
    <3>1. /\ DOMAIN p.bitsize = {width[k] : k \in runs}
          /\ \A k \in runs :
               p.bitsize[width[k]] = Cardinality({j \in runs : width[j] = width[k]})
      BY DEF Tells, BagToSet
    <3>2. ASSUME NEW k \in runs
          PROVE  p.bitsize[width[k]]
                   = one[k] * Cardinality({j \in runs : width[j] = width[k]})
      <4>1. PICK c \in Nat : c = Cardinality({j \in runs : width[j] = width[k]})
        BY <2>0
      <4>2. one[k] = 1 /\ 1 * c = c
        BY <1>0
      <4>3. p.bitsize[width[k]] = c
        BY <3>1, <4>1
      <4>. HIDE DEF one
      <4>. QED
        BY <4>1, <4>2, <4>3, Zenon
    <3>. HIDE DEF one
    <3>. QED
      BY <3>1, <3>2, Zenon DEF Counts
  <2>2. q.bitsize = p.bitsize (+) [x \in {width[m]} |-> one[m]]
    <3>1. SetToBag({width[m]}) = [x \in {width[m]} |-> one[m]]
      BY <1>0 DEF SetToBag
    <3>. HIDE DEF one
    <3>. QED
      BY <3>1, Zenon DEF Adds
  <2>3. \A j \in 1 .. n : \A k \in 1 .. n : width[j] = width[k] => one[j] = one[k]
    BY <1>0
  <2>4. Counts(q.bitsize, all, width, one)
    <3>. HIDE DEF one, n
    <3>. QED
      BY <1>0, <2>1, <2>2, <2>3, CountsMore DEF n
  <2>5. ASSUME NEW k \in all
        PROVE  q.bitsize[width[k]] = Cardinality({j \in all : width[j] = width[k]})
    <3>0. all \in SUBSET (1 .. n) /\ k \in 1 .. n
      OBVIOUS
    <3>1. PICK c \in Nat : c = Cardinality({j \in all : width[j] = width[k]})
      BY <2>0, <3>0, Zenon
    <3>2. q.bitsize[width[k]] = one[k] * c
      BY <2>4, <3>1, Zenon DEF Counts
    <3>3. one[k] * c = c
      BY <1>0, <3>0
    <3>. QED
      BY <3>1, <3>2, <3>3, Zenon
  <2>. QED
    BY <2>4, <2>5 DEF Counts, BagToSet
<1>4. /\ BagToSet(q.runLength) = {length[k] : k \in all}
      /\ \A k \in all : q.runLength[length[k]]
                          = length[k] * Cardinality({j \in all : length[j] = length[k]})
  <2>1. Counts(p.runLength, runs, length, length)
    BY Zenon DEF Tells, BagToSet, Counts
  <2>2. q.runLength = p.runLength (+) [x \in {length[m]} |-> length[m]]
    BY Zenon DEF Adds
  <2>3. \A j \in 1 .. n : \A k \in 1 .. n : length[j] = length[k] => length[j] = length[k]
    OBVIOUS
  <2>4. Counts(q.runLength, all, length, length)
    BY <1>0, <2>1, <2>2, <2>3, CountsMore
  <2>. QED
    BY <2>4, Zenon DEF Counts, BagToSet
<1>. HIDE DEF all, n
<1>. QED
  BY <1>1, <1>2, <1>3, <1>4, Zenon DEF Tells, n, all

\* The runs passed are those in front of the index.
LEMMA EndsGrow ==
  ASSUME StreamInv, NEW i \in 0 .. Len(stream), NEW k \in 0 .. Len(stream)
  PROVE  EndIndex(i) <= EndIndex(k) <=> i <= k
<1>. DEFINE n == Len(stream)
            bytes == [j \in DOMAIN stream |-> Len(stream[j].bytes)]
<1>0. n \in Nat /\ DOMAIN stream = 1 .. n
  BY StreamFacts
<1>1. ASSUME NEW j \in 1 .. n PROVE Len(stream[j].bytes) \in Nat /\ Len(stream[j].bytes) > 0
  <2>1. Legal(stream[j].run, IsSigned) /\ stream[j] = Written(stream[j].run)
    BY <1>0, <1>1 DEF StreamInv
  <2>2. stream[j].bytes = RunBytes(stream[j].run, IsSigned)
    <3>1. Written(stream[j].run).bytes = RunBytes(stream[j].run, IsSigned)
      BY DEF Written
    <3>. QED
      BY <2>1, <3>1, Zenon
  <2>. QED
    BY <2>1, <2>2, RunFacts, Zenon
<1>2. bytes \in Seq(Nat) /\ Len(bytes) = n
  <2>1. bytes = [j \in 1 .. n |-> Len(stream[j].bytes)]
    BY <1>0
  <2>. HIDE DEF bytes, n
  <2>. QED
    BY <1>0, <1>1, <2>1
<1>3. \A j : EndIndex(j) = SumTo(bytes, j)
  BY Zenon DEF EndIndex
<1>. HIDE DEF bytes
<1>4. \A a \in 0 .. n : \A b \in a .. n : EndIndex(a) <= EndIndex(b)
  BY <1>2, <1>3, SumsGrow
<1>5. \A a \in 0 .. n : EndIndex(a) \in Nat
  BY StreamFacts
<1>6. ASSUME i <= k PROVE EndIndex(i) <= EndIndex(k)
  BY <1>0, <1>4, <1>6
<1>7. ASSUME ~(i <= k) PROVE ~(EndIndex(i) <= EndIndex(k))
  <2>1. PICK m \in 1 .. n : m = k + 1 /\ m - 1 = k /\ i \in m .. n /\ m \in 0 .. n
    BY <1>0, <1>7
  <2>2. EndIndex(m) = EndIndex(m-1) + Len(stream[m].bytes)
    BY StreamFacts
  <2>3. EndIndex(m) <= EndIndex(i)
    BY <1>4, <2>1
  <2>4. PICK x \in Nat : x = Len(stream[m].bytes) /\ x > 0
    BY <1>1
  <2>. QED
    BY <1>5, <2>1, <2>2, <2>3, <2>4
<1>. QED
  BY <1>6, <1>7

LEMMA DecodedSoFar ==
  ASSUME StreamInv, NEW k \in 0 .. Len(stream), index = EndIndex(k)
  PROVE  Decoded = 1 .. k
<1>1. Len(stream) \in Nat /\ DOMAIN stream = 1 .. Len(stream)
  BY StreamFacts
<1>2. \A i \in 1 .. Len(stream) : EndIndex(i) <= index <=> i <= k
  BY EndsGrow
<1>. QED
  BY <1>1, <1>2 DEF Decoded

\* A function.
IsFcn(f) == f = [x \in DOMAIN f |-> f[x]]

\* The profile has the entries it is declared with.
Shaped ==
  /\ info = [k \in Kind |-> [bitsize |-> info[k].bitsize, runLength |-> info[k].runLength,
                             num |-> info[k].num, totalRunLength |-> info[k].totalRunLength]]
  /\ \A k \in Kind : IsFcn(info[k].bitsize) /\ IsFcn(info[k].runLength)

LEMMA BagSum == \A a, b : IsFcn(a (+) b)
<1>1. \A D, F : IsFcn([x \in D |-> F[x]])
  BY DEF IsFcn
<1>. SUFFICES ASSUME NEW a, NEW b PROVE IsFcn(a (+) b)
  OBVIOUS
<1>. DEFINE c == a (+) b
            v(e) == (IF e \in DOMAIN a THEN a[e] ELSE 0) + (IF e \in DOMAIN b THEN b[e] ELSE 0)
<1>2. c = [e \in (DOMAIN a) \cup (DOMAIN b) |-> v(e)]
  BY Zenon DEF (+)
<1>. HIDE DEF c, v
<1>3. c = [e \in DOMAIN c |-> c[e]]
  BY <1>2
<1>. QED
  BY <1>3, Zenon DEF IsFcn, c

LEMMA InfoStep ==
  ASSUME Shaped, Codegen, NEW kind \in Kind, NEW w, NEW n, updateEncodingInfo(kind, w, n)
  PROVE  /\ Shaped' /\ Adds(info'[kind], info[kind], w, n)
         /\ \A k \in Kind \ {kind} : info'[k] = info[k]
<1>. DEFINE p == info[kind]
            q == [bitsize |-> p.bitsize (+) SetToBag({w}),
                  runLength |-> p.runLength (+) [len \in {n} |-> n],
                  num |-> p.num + 1, totalRunLength |-> p.totalRunLength + n]
<1>1. info' = [info EXCEPT ![kind] = q]
  BY DEF updateEncodingInfo
<1>2. DOMAIN info = Kind /\ p = [bitsize |-> p.bitsize, runLength |-> p.runLength,
                                 num |-> p.num, totalRunLength |-> p.totalRunLength]
  BY DEF Shaped
<1>4. info'[kind] = q /\ \A k \in Kind \ {kind} : info'[k] = info[k]
  <2>. HIDE DEF q
  <2>. QED
    BY <1>1, <1>2
<1>5. DOMAIN info' = Kind /\ info' = [k \in Kind |-> info'[k]]
  <2>. HIDE DEF q
  <2>. QED
    BY <1>1, <1>2
<1>6. Adds(info'[kind], p, w, n)
  BY <1>4 DEF Adds
<1>8. \A k \in Kind : IsFcn(info'[k].bitsize) /\ IsFcn(info'[k].runLength)
  <2>. SUFFICES ASSUME NEW k \in Kind PROVE IsFcn(info'[k].bitsize) /\ IsFcn(info'[k].runLength)
    OBVIOUS
  <2>1. CASE k = kind
    BY <1>6, <2>1, BagSum, Zenon DEF Adds
  <2>2. CASE k # kind
    BY <1>4, <2>2, Zenon DEF Shaped
  <2>. QED
    BY <2>1, <2>2
<1>7. ASSUME NEW k \in Kind
      PROVE  info'[k] = [bitsize |-> info'[k].bitsize, runLength |-> info'[k].runLength,
                         num |-> info'[k].num, totalRunLength |-> info'[k].totalRunLength]
  <2>1. CASE k = kind
    BY <1>4, <2>1
  <2>2. CASE k # kind
    BY <1>4, <2>2 DEF Shaped
  <2>. QED
    BY <2>1, <2>2
<1>. QED
  BY <1>4, <1>5, <1>6, <1>7, <1>8 DEF Shaped

\* The lengths and the widths of the runs of the stream.
WidthsOf == [k \in DOMAIN stream |-> RunWidth(stream[k].run)]
LengthsOf == [k \in DOMAIN stream |-> Len(stream[k].values)]

LEMMA LengthsOfRuns ==
  ASSUME StreamInv
  PROVE  LengthsOf \in Seq(Nat) /\ Len(LengthsOf) = Len(stream)
<1>. DEFINE n == Len(stream)
<1>1. n \in Nat /\ DOMAIN stream = 1 .. n
  BY StreamFacts
<1>2. ASSUME NEW k \in 1 .. n PROVE Len(stream[k].values) \in Nat
  <2>1. Legal(stream[k].run, IsSigned) /\ stream[k] = Written(stream[k].run)
    BY <1>1 DEF StreamInv
  <2>2. stream[k].values = RunValues(stream[k].run)
    <3>1. Written(stream[k].run).values = RunValues(stream[k].run)
      BY DEF Written
    <3>. QED
      BY <2>1, <3>1, Zenon
  <2>. QED
    BY <2>1, <2>2, RunFacts, Zenon
<1>3. LengthsOf = [k \in 1 .. n |-> Len(stream[k].values)]
  BY <1>1 DEF LengthsOf
<1>. HIDE DEF n
<1>4. LengthsOf \in [1 .. n -> Nat]
  BY <1>2, <1>3
<1>. QED
  BY <1>1, <1>4 DEF n

\* A sum of zeros.
LEMMA NothingAdded ==
  ASSUME NEW zeros \in Seq(Nat), \A k \in DOMAIN zeros : zeros[k] = 0
  PROVE  SumTo(zeros, Len(zeros)) = 0
<1>. DEFINE n == Len(zeros)
            S == {k \in Nat : k <= n => SumTo(zeros, k) = 0}
<1>1. n \in Nat /\ \A k \in 1 .. n : zeros[k] = 0
  OBVIOUS
<1>2. SumTo(zeros, 0) = 0 /\ \A k \in 1 .. n : SumTo(zeros, k) = SumTo(zeros, k-1) + zeros[k]
  BY SumStep
<1>. HIDE DEF n
<1>3. 0 \in S
  BY <1>1, <1>2
<1>4. ASSUME NEW k \in Nat, k \in S PROVE k + 1 \in S
  <2>. SUFFICES ASSUME k + 1 <= n PROVE SumTo(zeros, k + 1) = 0
    OBVIOUS
  <2>1. k + 1 \in 1 .. n /\ (k + 1) - 1 = k /\ k <= n
    BY <1>1
  <2>2. SumTo(zeros, k + 1) = SumTo(zeros, k) + zeros[k + 1]
    BY <1>2, <2>1
  <2>. QED
    BY <1>1, <1>4, <2>1, <2>2
<1>5. n \in S
  <2>. HIDE DEF S
  <2>. QED
    BY <1>1, <1>3, <1>4, SetInduction
<1>6. SumTo(zeros, n) = 0
  BY <1>1, <1>5
<1>. QED
  BY <1>6 DEF n

LEMMA TellsNothing ==
  ASSUME NEW length \in Seq(Nat), NEW width
  PROVE  Tells(NoInfo, {}, width, length)
<1>. DEFINE zeros == [k \in DOMAIN length |-> IF k \in {} THEN length[k] ELSE 0]
<1>1. zeros \in Seq(Nat) /\ Len(zeros) = Len(length) /\ \A k \in DOMAIN zeros : zeros[k] = 0
  OBVIOUS
<1>2. SumTo(zeros, Len(length)) = 0
  <2>. HIDE DEF zeros
  <2>. QED
    BY <1>1, NothingAdded
<1>3. Cardinality({}) = 0
  BY FS_EmptySet
<1>4. BagToSet(EmptyBag) = {}
  BY DEF BagToSet, EmptyBag, SetToBag
<1>5. /\ NoInfo.num = 0 /\ NoInfo.totalRunLength = 0
      /\ NoInfo.bitsize = EmptyBag /\ NoInfo.runLength = EmptyBag
  BY DEF NoInfo
<1>6. /\ {width[k] : k \in {}} = {} /\ {length[k] : k \in {}} = {}
  OBVIOUS
<1>. QED
  BY <1>2, <1>3, <1>4, <1>5, <1>6 DEF Tells

LEMMA DecodedNow ==
  StreamInv => \A k \in 0 .. Len(stream) : index = EndIndex(k) => Decoded = 1 .. k
BY DecodedSoFar

\* What a turn adds to the runs decoded.
LEMMA OneDecoded ==
  ASSUME StreamInv, UNCHANGED <<type, stream, data>>, NEW m \in 1 .. Len(stream),
         m - 1 \in 0 .. Len(stream), index = EndIndex(m-1), index' = EndIndex(m)
  PROVE  Decoded' = Decoded \cup {m} /\ m \notin Decoded /\ Decoded \subseteq DOMAIN stream
<1>1. PICK n \in Nat : n = Len(stream) /\ DOMAIN stream = 1 .. n
  BY StreamFacts
<1>2. Decoded = 1 .. m - 1
  BY DecodedSoFar
<1>3. Decoded' = 1 .. m
  <2>1. (StreamInv => \A k \in 0 .. Len(stream) : index = EndIndex(k) => Decoded = 1 .. k)'
    BY DecodedNow, PTL
  <2>2. EndIndex(m)' = EndIndex(m)
    BY Zenon DEF EndIndex
  <2>3. m \in 0 .. Len(stream') /\ StreamInv'
    BY <1>1, StreamStays
  <2>. QED
    BY <2>1, <2>2, <2>3, Zenon
<1>. QED
  BY <1>1, <1>2, <1>3

\* A turn records the run it takes.
LEMMA ProfileGrows ==
  ASSUME StreamInv, StaysInStep, Shaped, ProfileMatches, index < Len(data),
         UNCHANGED <<type, stream, data>>,
         nextShortRepeats \/ nextDirect \/ nextPatched \/ nextDelta
  PROVE  Shaped' /\ ProfileMatches'
<1>. DEFINE Told(kind) == Tells(info[kind], Recorded(kind), WidthsOf, LengthsOf)
<1>1. PICK m \in 1 .. Len(stream) :
        /\ index = EndIndex(m-1) /\ index' = EndIndex(m)
        /\ m - 1 \in 0 .. Len(stream) /\ Noted(stream[m].run)
        /\ stream[m].values = RunValues(stream[m].run)
  BY TurnTaken, Zenon
<1>2. Decoded' = Decoded \cup {m} /\ m \notin Decoded /\ Decoded \subseteq DOMAIN stream
  BY <1>1, OneDecoded
<1>3. WidthsOf' = WidthsOf /\ LengthsOf' = LengthsOf /\ Codegen' = Codegen
  BY DEF WidthsOf, LengthsOf, RunWidth, IsSigned, Codegen
<1>4. \A kind \in Kind : Told(kind)
  BY Zenon DEF ProfileMatches, WidthsOf, LengthsOf
<1>5. m \in DOMAIN stream /\ m \in 1 .. Len(LengthsOf) /\ DOMAIN stream = 1 .. Len(LengthsOf)
      /\ LengthsOf \in Seq(Nat)
  BY StreamFacts, LengthsOfRuns
<1>6. WidthsOf[m] = RunWidth(stream[m].run) /\ LengthsOf[m] = Len(RunValues(stream[m].run))
  BY <1>1, <1>5, Zenon DEF WidthsOf, LengthsOf
<1>7. CASE ~Codegen
  <2>1. info' = info
    BY <1>1, <1>7, Zenon DEF Noted, updateEncodingInfo
  <2>2. \A kind : Recorded(kind)' = Recorded(kind)
    BY <1>3, <1>7, Zenon DEF Recorded
  <2>3. \A kind \in Kind : Told(kind)'
    BY <1>3, <1>4, <2>1, <2>2, Zenon
  <2>. QED
    BY <2>1, <2>3, Zenon DEF ProfileMatches, WidthsOf, LengthsOf, Shaped
<1>8. CASE Codegen
  <2>. DEFINE own == stream[m].run.kind
  <2>1. own \in Kind
    <3>1. Legal(stream[m].run, IsSigned)
      BY <1>5, Zenon DEF StreamInv
    <3>. QED
      BY <3>1 DEF Legal, Kind
  <2>. HIDE DEF own
  <2>2. /\ Shaped' /\ Adds(info'[own], info[own], WidthsOf[m], LengthsOf[m])
        /\ \A kind \in Kind \ {own} : info'[kind] = info[kind]
    <3>1. updateEncodingInfo(own, WidthsOf[m], LengthsOf[m])
      BY <1>1, <1>6, Zenon DEF Noted, own
    <3>. QED
      BY <1>8, <2>1, <3>1, InfoStep
  <2>3. /\ \A kind : Recorded(kind) = {k \in Decoded : stream[k].run.kind = kind}
        /\ \A kind : Recorded(kind)' = {k \in Decoded' : stream[k].run.kind = kind}
    BY <1>3, <1>8, Zenon DEF Recorded
  <2>4. ASSUME NEW kind \in Kind, kind = own PROVE Told(kind)'
    <3>1. Recorded(kind)' = Recorded(kind) \cup {m} /\ m \notin Recorded(kind)
          /\ Recorded(kind) \subseteq 1 .. Len(LengthsOf)
      BY <1>2, <1>5, <2>3, <2>4 DEF own
    <3>2. Tells(info[kind], Recorded(kind), WidthsOf, LengthsOf)
      BY <1>4
    <3>3. Tells(info'[kind], Recorded(kind) \cup {m}, WidthsOf, LengthsOf)
      BY <1>5, <2>2, <2>4, <3>1, <3>2, TellsMore
    <3>. QED
      BY <1>3, <3>1, <3>3, Zenon
  <2>5. ASSUME NEW kind \in Kind, kind # own PROVE Told(kind)'
    <3>1. Recorded(kind)' = Recorded(kind)
      BY <1>2, <2>3, <2>5 DEF own
    <3>2. Tells(info[kind], Recorded(kind), WidthsOf, LengthsOf)
      BY <1>4
    <3>. QED
      BY <1>3, <2>2, <2>5, <3>1, <3>2, Zenon
  <2>6. \A kind \in Kind : Told(kind)'
    BY <2>4, <2>5, Zenon
  <2>. QED
    BY <2>2, <2>6, Zenon DEF ProfileMatches, WidthsOf, LengthsOf
<1>. QED
  BY <1>7, <1>8

\* Nothing is recorded in front of the first run.
LEMMA BlankProfile ==
  ASSUME StreamInv, index = 0, info = [k \in Kind |-> NoInfo]
  PROVE  Shaped /\ ProfileMatches
<1>1. Decoded = {}
  <2>1. EndIndex(0) = 0 /\ 0 \in 0 .. Len(stream)
    BY StreamFacts
  <2>2. Decoded = 1 .. 0
    BY <2>1, DecodedSoFar
  <2>. QED
    BY <2>2
<1>2. \A kind : Recorded(kind) = {}
  BY <1>1, Zenon DEF Recorded
<1>3. \A kind \in Kind : Tells(info[kind], Recorded(kind), WidthsOf, LengthsOf)
  <2>1. \A kind \in Kind : info[kind] = NoInfo
    OBVIOUS
  <2>2. Tells(NoInfo, {}, WidthsOf, LengthsOf)
    BY LengthsOfRuns, TellsNothing
  <2>. QED
    BY <1>2, <2>1, <2>2, Zenon
<1>4. Shaped
  <2>1. NoInfo = [bitsize |-> NoInfo.bitsize, runLength |-> NoInfo.runLength,
                  num |-> NoInfo.num, totalRunLength |-> NoInfo.totalRunLength]
    BY DEF NoInfo
  <2>2. info = [k \in Kind |-> [bitsize |-> info[k].bitsize, runLength |-> info[k].runLength,
                                num |-> info[k].num, totalRunLength |-> info[k].totalRunLength]]
    BY <2>1
  <2>3. NoInfo.bitsize = EmptyBag /\ NoInfo.runLength = EmptyBag
    BY DEF NoInfo
  <2>4. IsFcn(EmptyBag)
    BY DEF IsFcn, EmptyBag, SetToBag
  <2>5. \A k \in Kind : info[k] = NoInfo
    OBVIOUS
  <2>. QED
    BY <2>2, <2>3, <2>4, <2>5, Zenon DEF Shaped
<1>. QED
  BY <1>3, <1>4, Zenon DEF ProfileMatches, WidthsOf, LengthsOf

\* The profile is exact as long as the interpreter decodes.
ProfileInv == GenInv /\ Shaped /\ InterpreterProfiles

LEMMA ProfileStarts == GenInit => ProfileInv
<1>. SUFFICES ASSUME GenInit PROVE ProfileInv
  OBVIOUS
<1>1. GenInv
  BY InterpreterStarts
<1>2. index = 0 /\ info = [k \in Kind |-> NoInfo]
  BY DEF GenInit, Init
<1>. QED
  BY <1>1, <1>2, BlankProfile DEF ProfileInv, GenInv, InterpreterProfiles

LEMMA ProfileOfInterpreter ==
  ASSUME ProfileInv, Interpret
  PROVE  Shaped' /\ InterpreterProfiles'
<1>1. /\ UNCHANGED <<type, stream, data>> /\ index < Len(data) /\ phase = "scan"
      /\ nextShortRepeats \/ nextDirect \/ nextPatched \/ nextDelta
  BY Zenon DEF Interpret, nextShortRepeats, nextDirect, nextPatched, nextDelta, Running
<1>2. StreamInv /\ StaysInStep /\ Shaped /\ ProfileMatches
  BY <1>1 DEF ProfileInv, GenInv, InterpreterInStep, InterpreterProfiles, Interpreted
<1>3. Shaped' /\ ProfileMatches'
  BY <1>1, <1>2, ProfileGrows
<1>. QED
  BY <1>3 DEF InterpreterProfiles

LEMMA ProfileOfScanner ==
  ASSUME ProfileInv, AnotherScanner
  PROVE  Shaped' /\ InterpreterProfiles'
<1>1. index' = 0 /\ info' = [k \in Kind |-> NoInfo]
  BY Zenon DEF AnotherScanner, Open
<1>2. StreamInv'
  BY StepOfScanner DEF ProfileInv, GenInv
<1>3. (StreamInv /\ index = 0 /\ info = [k \in Kind |-> NoInfo] => Shaped /\ ProfileMatches)'
  BY BlankProfile, PTL
<1>. QED
  BY <1>1, <1>2, <1>3 DEF InterpreterProfiles

LEMMA ProfileOfRest ==
  ASSUME ProfileInv,
         \/ Generate \/ genfunc_nextRepeat \/ genfunc_nextDirect \/ genfunc_nextPatched
         \/ genfunc_nextDelta \/ NoCase \/ MergeProfile \/ GenEnded \/ UNCHANGED allVars
  PROVE  Shaped' /\ InterpreterProfiles'
<1>1. /\ UNCHANGED info
      /\ \/ phase' = "generated"
         \/ UNCHANGED <<type, stream, index>> /\ (phase' # "generated" => phase # "generated")
  <2>1. CASE Generate
    BY <2>1, Zenon DEF Generate
  <2>2. CASE genfunc_nextRepeat \/ genfunc_nextDirect \/ genfunc_nextPatched
               \/ genfunc_nextDelta
    BY <2>2, Zenon DEF genfunc_nextRepeat, genfunc_nextDirect, genfunc_nextPatched,
       genfunc_nextDelta, Return, Enter, Decoding
  <2>3. CASE NoCase \/ MergeProfile \/ GenEnded \/ UNCHANGED allVars
    BY <2>3 DEF NoCase, MergeProfile, GenEnded, allVars, genVars, vars
  <2>. QED
    BY <2>1, <2>2, <2>3
<1>2. Shaped'
  BY <1>1 DEF ProfileInv, Shaped
<1>3. CASE phase' = "generated"
  BY <1>2, <1>3 DEF InterpreterProfiles, Interpreted
<1>4. CASE UNCHANGED <<type, stream, index>> /\ (phase' # "generated" => phase # "generated")
  <2>1. ProfileMatches => ProfileMatches'
    BY <1>1, <1>4, Zenon DEF ProfileMatches, Recorded, Decoded, EndIndex, Codegen, RunWidth,
       IsSigned
  <2>. QED
    BY <1>2, <1>4, <2>1 DEF ProfileInv, InterpreterProfiles, Interpreted
<1>. QED
  BY <1>1, <1>3, <1>4

LEMMA StepKeepsProfileInv == ProfileInv /\ [GenNext]_allVars => ProfileInv'
<1>. SUFFICES ASSUME ProfileInv, [GenNext]_allVars PROVE ProfileInv'
  OBVIOUS
<1>1. GenInv'
  BY StepKeepsGenInv DEF ProfileInv
<1>2. Shaped' /\ InterpreterProfiles'
  <2>1. CASE Interpret
    BY <2>1, ProfileOfInterpreter
  <2>2. CASE AnotherScanner
    BY <2>2, ProfileOfScanner
  <2>3. CASE \/ Generate \/ genfunc_nextRepeat \/ genfunc_nextDirect \/ genfunc_nextPatched
             \/ genfunc_nextDelta \/ NoCase \/ MergeProfile \/ GenEnded \/ UNCHANGED allVars
    BY <2>3, ProfileOfRest
  <2>. QED
    BY <2>1, <2>2, <2>3, Zenon DEF GenNext
<1>. QED
  BY <1>1, <1>2 DEF ProfileInv

\* What the generator specialises on is what was decoded: after every run, and
\* over the streams of all the scanners, the EncodingInfo of each kind has the
\* number of its runs, how often each width came and how many numbers came in
\* runs of each length (updateEncodingInfo, called by each turn of RLE2::next).
THEOREM ProfileIsExact == GenSpec => []InterpreterProfiles
<1>1. ProfileInv => InterpreterProfiles
  BY DEF ProfileInv
<1>. QED
  BY <1>1, StepKeepsProfileInv, ProfileStarts, PTL DEF GenSpec

-----------------------------------------------------------------------------
(***************************************************************************)
(* The width all runs have.                                                *)
(***************************************************************************)
Counted(bag) == \A i \in Widths : Count(bag, i) \in Nat

List == [1 .. Entries -> Widths]

Sorted(list, bag) ==
  \A a \in 1 .. Entries : \A b \in a .. Entries : Count(bag, list[a]) >= Count(bag, list[b])

\* Where an index is put.
Place(list, i, bag, p) ==
  /\ p = 0 \/ Count(bag, list[p]) >= Count(bag, i)
  /\ \A q \in p+1 .. Entries-1 : Count(bag, list[q]) < Count(bag, i)

\* The list it is put in.
Put(list, i, p) ==
  [k \in 1 .. Entries |-> IF k <= p THEN list[k] ELSE IF k = p + 1 THEN i ELSE list[k-1]]

LEMMA SizeIsNat == Entries \in Nat /\ Entries > 1
BY DEF Entries

LEMMA PlaceExists ==
  ASSUME NEW bag, Counted(bag), NEW list \in List, NEW i \in Widths
  PROVE  \E p \in 0 .. Entries - 1 : Place(list, i, bag, p)
<1>. DEFINE n == Entries
            Found(m) == \E p \in 0 .. m :
                          /\ p = 0 \/ Count(bag, list[p]) >= Count(bag, i)
                          /\ \A q \in p+1 .. m : Count(bag, list[q]) < Count(bag, i)
            S == {m \in Nat : m <= n - 1 => Found(m)}
<1>0. n \in Nat /\ n > 1
  BY SizeIsNat
<1>a. \A k \in 1 .. n : Count(bag, list[k]) \in Nat
  BY DEF Counted, List
<1>b. Count(bag, i) \in Nat
  BY DEF Counted
<1>. HIDE DEF n
<1>1. 0 \in S
  OBVIOUS
<1>2. ASSUME NEW m \in Nat, m \in S PROVE m + 1 \in S
  <2>. SUFFICES ASSUME m + 1 <= n - 1 PROVE Found(m + 1)
    OBVIOUS
  <2>1. CASE Count(bag, list[m + 1]) >= Count(bag, i)
    <3>1. m + 1 \in 0 .. m + 1 /\ \A q \in (m+1)+1 .. m+1 : FALSE
      OBVIOUS
    <3>. QED
      BY <2>1, <3>1
  <2>2. CASE ~(Count(bag, list[m + 1]) >= Count(bag, i))
    <3>1. PICK p \in 0 .. m :
            /\ p = 0 \/ Count(bag, list[p]) >= Count(bag, i)
            /\ \A q \in p+1 .. m : Count(bag, list[q]) < Count(bag, i)
      BY <1>0, <1>2
    <3>2. Count(bag, list[m + 1]) < Count(bag, i)
      <4>1. m + 1 \in 1 .. n
        BY <1>0
      <4>. QED
        BY <1>a, <1>b, <2>2, <4>1
    <3>3. \A q \in p+1 .. m+1 : q \in p+1 .. m \/ q = m + 1
      OBVIOUS
    <3>4. p \in 0 .. m + 1
      OBVIOUS
    <3>. QED
      BY <3>1, <3>2, <3>3, <3>4, Zenon
  <2>. QED
    BY <2>1, <2>2
<1>3. n - 1 \in S /\ n - 1 \in Nat
  <2>. HIDE DEF S
  <2>1. n - 1 \in Nat
    BY <1>0
  <2>. QED
    BY <1>1, <1>2, <2>1, SetInduction
<1>4. Found(n - 1)
  BY <1>3
<1>. QED
  BY <1>4, Zenon DEF Place, n

LEMMA Inserted ==
  ASSUME NEW bag, Counted(bag), NEW list \in List, NEW i \in Widths
  PROVE  \E p \in 0 .. Entries - 1 :
           Place(list, i, bag, p) /\ Insert(list, i, bag) = Put(list, i, p)
<1>. DEFINE n == Entries
            p == CHOOSE p \in 0 .. n - 1 : Place(list, i, bag, p)
<1>0. n \in Nat /\ n > 1
  BY SizeIsNat
<1>1. p \in 0 .. n - 1 /\ Place(list, i, bag, p)
  BY PlaceExists, Zenon
<1>2. list \in Seq(Widths) /\ Len(list) = n
  BY <1>0 DEF List
<1>3. Insert(list, i, bag)
        = SubSeq(list, 1, p) \o <<i>> \o SubSeq(list, p + 1, n - 1)
  BY <1>2, Zenon DEF Insert, Place
<1>. HIDE DEF p, n
<1>4. SubSeq(list, 1, p) \in Seq(Widths) /\ Len(SubSeq(list, 1, p)) = p
      /\ \A k \in 1 .. p : SubSeq(list, 1, p)[k] = list[k]
  BY <1>0, <1>1, <1>2
<1>5. /\ SubSeq(list, p + 1, n - 1) \in Seq(Widths) /\ Len(SubSeq(list, p + 1, n - 1)) = n - 1 - p
      /\ \A k \in 1 .. n - 1 - p : SubSeq(list, p + 1, n - 1)[k] = list[p + k]
  BY <1>0, <1>1, <1>2
<1>. DEFINE x == SubSeq(list, 1, p)
            y == SubSeq(list, p + 1, n - 1)
            u == x \o <<i>>
            v == u \o y
<1>. HIDE DEF x, y
<1>6. u \in Seq(Widths) /\ Len(u) = p + 1 /\ u[p + 1] = i /\ \A k \in 1 .. p : u[k] = list[k]
  BY <1>1, <1>4 DEF x
<1>. HIDE DEF u
<1>7. /\ v \in Seq(Widths) /\ Len(v) = n
      /\ \A k \in 1 .. p + 1 : v[k] = u[k]
      /\ \A k \in 1 .. n - 1 - p : v[p + 1 + k] = y[k]
  BY <1>0, <1>1, <1>5, <1>6 DEF y
<1>. HIDE DEF v
<1>8. ASSUME NEW k \in 1 .. n
      PROVE  v[k] = IF k <= p THEN list[k] ELSE IF k = p + 1 THEN i ELSE list[k-1]
  <2>1. CASE k <= p
    BY <1>1, <1>6, <1>7, <2>1
  <2>2. CASE k = p + 1
    BY <1>1, <1>6, <1>7, <2>2
  <2>3. CASE k > p + 1
    <3>1. PICK j \in 1 .. n - 1 - p : k = p + 1 + j /\ k - 1 = p + j
      <4>1. k - (p + 1) \in 1 .. n - 1 - p
        BY <1>0, <1>1, <2>3
      <4>. QED
        BY <1>0, <1>1, <4>1
    <3>2. v[k] = y[j] /\ y[j] = list[p + j]
      BY <1>5, <1>7, <3>1 DEF y
    <3>. QED
      BY <1>1, <2>3, <3>1, <3>2
  <2>. QED
    BY <1>1, <2>1, <2>2, <2>3
<1>9. v = Put(list, i, p)
  <2>1. v = [k \in 1 .. n |-> v[k]]
    BY <1>0, <1>7
  <2>. QED
    BY <1>8, <2>1, Zenon DEF Put, n
<1>. QED
  BY <1>1, <1>3, <1>9, Zenon DEF n, u, v, x, y

LEMMA LeastExists ==
  ASSUME NEW S \in SUBSET Nat, S # {}
  PROVE  \E x \in S : \A y \in S : x <= y
<1>. DEFINE R == {ss \in Nat \X Nat : ss[1] < ss[2]}
<1>1. R = OpToRel(<, Nat)
  BY DEF OpToRel
<1>2. IsWellFoundedOn(R, Nat)
  BY <1>1, NatLessThanWellFounded
<1>3. PICK x \in S : \A y \in S : <<y, x>> \notin R
  <2>. HIDE DEF R
  <2>. QED
    BY <1>2, WFMin
<1>4. ASSUME NEW y \in S PROVE x <= y
  <2>1. <<y, x>> \notin R
    BY <1>3
  <2>. QED
    BY <2>1
<1>. QED
  BY <1>4

LEMMA LeastIndex ==
  ASSUME NEW bag, Counted(bag)
  PROVE  LeastAt(bag) \in Widths /\ \A j \in Widths : Count(bag, j) >= Count(bag, LeastAt(bag))
<1>. DEFINE S == {Count(bag, i) : i \in Widths}
<1>0. Widths \subseteq Nat /\ 0 \in Widths
  BY SizeIsNat DEF Widths
<1>1. PICK c \in S : \A y \in S : c <= y
  <2>1. S \in SUBSET Nat /\ S # {}
    BY <1>0 DEF Counted
  <2>. HIDE DEF S
  <2>. QED
    BY <2>1, LeastExists
<1>. DEFINE T == {i \in Widths : Count(bag, i) = c}
<1>2. PICK i \in T : \A y \in T : i <= y
  <2>1. T \in SUBSET Nat /\ T # {}
    BY <1>0, <1>1
  <2>. HIDE DEF T
  <2>. QED
    BY <2>1, LeastExists
<1>3. c \in Nat /\ \A j \in Widths : c <= Count(bag, j)
  BY <1>1 DEF Counted
<1>4. \A j \in Widths : Count(bag, j) >= Count(bag, i)
  BY <1>2, <1>3 DEF Counted
<1>5. \A j \in 0 .. i-1 : Count(bag, j) > Count(bag, i)
  <2>. SUFFICES ASSUME NEW j \in 0 .. i-1 PROVE Count(bag, j) > Count(bag, i)
    OBVIOUS
  <2>1. i \in Widths /\ i \in Nat
    BY <1>0, <1>2
  <2>2. j \in Widths /\ j < i
    BY <2>1, SizeIsNat DEF Widths
  <2>3. Count(bag, j) # c /\ Count(bag, i) = c
    <3>1. j \notin T
      <4>. HIDE DEF T
      <4>1. j \in Nat
        BY <1>0, <2>2
      <4>. QED
        BY <1>2, <2>1, <2>2, <4>1
    <3>. QED
      BY <1>2, <2>2, <3>1
  <2>. QED
    BY <1>3, <2>2, <2>3 DEF Counted
<1>6. \E k \in Widths : /\ \A j \in Widths : Count(bag, j) >= Count(bag, k)
                        /\ \A j \in 0 .. k-1 : Count(bag, j) > Count(bag, k)
  <2>. HIDE DEF T
  <2>. QED
    BY <1>2, <1>4, <1>5 DEF T
<1>. QED
  BY <1>6, Zenon DEF LeastAt

\* The list as the indices are put in one by one.
Lists(g, bag) ==
  /\ g[0] = [j \in 1 .. Entries |-> LeastAt(bag)]
  /\ \A k \in 0 .. Entries : g[k] \in List
  /\ \A k \in 1 .. Entries : g[k] = Insert(g[k-1], k - 1, bag)

LEMMA SortSteps ==
  ASSUME NEW bag, Counted(bag)
  PROVE  \E g : Lists(g, bag) /\ sortData(bag) = g[Entries]
<1>. DEFINE n == Entries
            a == [j \in 1 .. n |-> LeastAt(bag)]
            F == [k \in 1 .. n |-> [x \in List |-> Insert(x, k - 1, bag)]]
            step(h, k) == IF k = 0 THEN a ELSE Insert(h[k-1], k - 1, bag)
            list == CHOOSE h : h = [k \in 0 .. n |-> step(h, k)]
<1>0. n \in Nat /\ n > 1
  BY SizeIsNat
<1>1. a \in List
  BY LeastIndex DEF List
<1>2. \A k \in 1 .. n : \A x \in List : F[k][x] \in List
  <2>1. ASSUME NEW x \in List, NEW i \in Widths PROVE Insert(x, i, bag) \in List
    <3>1. PICK p \in 0 .. n - 1 : Insert(x, i, bag) = Put(x, i, p)
      BY Inserted
    <3>. HIDE DEF n
    <3>2. ASSUME NEW k \in 1 .. n
          PROVE (IF k <= p THEN x[k] ELSE IF k = p + 1 THEN i ELSE x[k-1]) \in Widths
      <4>1. k > p + 1 => k - 1 \in 1 .. n
        BY <1>0
      <4>2. \A j \in 1 .. n : x[j] \in Widths
        BY DEF List, n
      <4>. QED
        BY <4>1, <4>2
    <3>3. Put(x, i, p) \in List
      BY <3>2 DEF Put, List, n
    <3>. QED
      BY <3>1, <3>3
  <2>2. \A k \in 1 .. n : k - 1 \in Widths
    BY <1>0 DEF Widths
  <2>. QED
    BY <2>1, <2>2
<1>. HIDE DEF a, F, n
<1>3. PICK g \in [0 .. n -> List] : g[0] = a /\ \A k \in 1 .. n : g[k] = F[k][g[k-1]]
  <2>1. \E g : Follows(g, n, List, a, F)
    BY <1>0, <1>1, <1>2, RecursionExists, Zenon
  <2>. QED
    BY <2>1, Zenon DEF Follows
<1>4. \A k \in 1 .. n : g[k] = Insert(g[k-1], k - 1, bag)
  <2>. SUFFICES ASSUME NEW k \in 1 .. n PROVE g[k] = Insert(g[k-1], k - 1, bag)
    OBVIOUS
  <2>1. g[k-1] \in List
    BY <1>0, <1>3
  <2>2. F[k][g[k-1]] = Insert(g[k-1], k - 1, bag)
    BY <2>1 DEF F
  <2>. QED
    BY <1>3, <2>2
<1>5. g = [k \in 0 .. n |-> step(g, k)]
  <2>1. g = [k \in 0 .. n |-> g[k]]
    BY <1>3
  <2>2. \A k \in 0 .. n : g[k] = step(g, k)
    <3>1. \A k \in 0 .. n : k = 0 \/ k \in 1 .. n
      BY <1>0
    <3>. QED
      BY <1>3, <1>4, <3>1
  <2>. HIDE DEF step
  <2>. QED
    BY <2>1, <2>2, Zenon
<1>6. list = [k \in 0 .. n |-> step(list, k)]
  BY <1>5, Zenon
<1>7. sortData(bag) = list[n]
  BY Zenon DEF sortData, a, n
<1>. HIDE DEF list
<1>8. list[0] = a /\ \A k \in 1 .. n : list[k] = Insert(list[k-1], k - 1, bag)
  <2>. DEFINE f == [k \in 0 .. n |-> step(list, k)]
  <2>1. f[0] = a /\ \A k \in 1 .. n : f[k] = Insert(list[k-1], k - 1, bag)
    BY <1>0
  <2>2. f = list
    BY <1>6
  <2>. HIDE DEF f
  <2>. QED
    BY <2>1, <2>2, Zenon
<1>9. \A k \in 0 .. n : list[k] \in List
  <2>. DEFINE S == {k \in Nat : k <= n => list[k] = g[k]}
  <2>1. 0 \in S
    BY <1>3, <1>8
  <2>2. ASSUME NEW k \in Nat, k \in S PROVE k + 1 \in S
    <3>. SUFFICES ASSUME k + 1 <= n PROVE list[k + 1] = g[k + 1]
      OBVIOUS
    <3>1. k + 1 \in 1 .. n /\ (k + 1) - 1 = k /\ k <= n
      BY <1>0
    <3>2. list[k + 1] = Insert(list[k], k, bag) /\ g[k + 1] = Insert(g[k], k, bag)
      BY <1>4, <1>8, <3>1
    <3>. QED
      BY <2>2, <3>1, <3>2
  <2>. HIDE DEF S
  <2>3. Nat \subseteq S
    BY <2>1, <2>2, SetInduction
  <2>4. \A k \in 0 .. n : list[k] = g[k]
    BY <2>3 DEF S
  <2>. QED
    BY <1>3, <2>4
<1>. QED
  BY <1>7, <1>8, <1>9, Zenon DEF Lists, a, n

\* A width of which there is one run comes first if there is no other.
LEMMA OneWidth ==
  ASSUME NEW bag, Counted(bag), NEW w \in Widths, \A i \in Widths : Count(bag, i) > 0 <=> i = w
  PROVE  sortData(bag)[1] = w /\ Count(bag, sortData(bag)[2]) = 0
<1>. DEFINE n == Entries
            c(i) == Count(bag, i)
            Zeros(list, m) == \A k \in m .. n : c(list[k]) = 0
<1>0. n \in Nat /\ n > 1 /\ Widths = 0 .. n - 1
  BY SizeIsNat DEF Widths
<1>1. \A i \in Widths : c(i) \in Nat /\ (i # w => c(i) = 0) /\ (i = w => c(i) > 0)
  BY DEF Counted
<1>2. PICK g : Lists(g, bag) /\ sortData(bag) = g[n]
  BY SortSteps
<1>. HIDE DEF n
<1>. DEFINE Good(k) == IF k <= w THEN Zeros(g[k], 1) ELSE g[k][1] = w /\ Zeros(g[k], 2)
            S == {k \in Nat : k <= n => Good(k)}
<1>3. 0 \in S
  <2>1. LeastAt(bag) \in Widths /\ \A j \in Widths : c(j) >= c(LeastAt(bag))
    BY LeastIndex
  <2>2. c(LeastAt(bag)) = 0
    <3>1. PICK j \in Widths : j # w
      <4>1. 0 \in Widths /\ 1 \in Widths
        BY <1>0
      <4>. QED
        BY <4>1
    <3>2. c(j) = 0 /\ c(j) >= c(LeastAt(bag)) /\ c(LeastAt(bag)) \in Nat
      BY <1>1, <2>1, <3>1
    <3>. HIDE DEF c
    <3>. QED
      BY <3>2
  <2>3. \A k \in 1 .. n : g[0][k] = LeastAt(bag)
    BY <1>2 DEF Lists, n
  <2>4. Zeros(g[0], 1)
    BY <2>2, <2>3
  <2>. QED
    BY <1>0, <2>4
<1>4. ASSUME NEW k \in Nat, k \in S PROVE k + 1 \in S
  <2>. SUFFICES ASSUME k + 1 <= n PROVE Good(k + 1)
    OBVIOUS
  <2>0. k \in Widths /\ k + 1 \in 1 .. n /\ (k + 1) - 1 = k /\ k \in 0 .. n /\ Good(k)
    BY <1>0, <1>4
  <2>1. g[k] \in List /\ g[k + 1] = Insert(g[k], k, bag)
    BY <1>2, <2>0 DEF Lists, n
  <2>2. PICK p \in 0 .. n - 1 : Place(g[k], k, bag, p) /\ g[k + 1] = Put(g[k], k, p)
    BY <2>0, <2>1, Inserted DEF n
  <2>3. \A j \in 1 .. n : g[k + 1][j] = IF j <= p THEN g[k][j]
                                        ELSE IF j = p + 1 THEN k ELSE g[k][j-1]
    BY <2>2 DEF Put, n
  <2>4. /\ p = 0 \/ c(g[k][p]) >= c(k)
        /\ \A q \in p+1 .. n-1 : c(g[k][q]) < c(k)
    BY <2>2 DEF Place, n
  <2>5. \A j \in 1 .. n : c(g[k][j]) \in Nat
    BY <1>1, <2>1 DEF List, n
  <2>. HIDE DEF c
  <2>6. CASE k = w
    <3>1. c(k) \in Nat /\ c(k) > 0 /\ Zeros(g[k], 1)
      BY <1>1, <2>0, <2>6
    <3>2. p = 0
      <4>1. p # 0 => c(g[k][p]) = 0
        BY <1>0, <3>1
      <4>. QED
        BY <2>4, <3>1, <4>1
    <3>3. g[k + 1][1] = k /\ \A j \in 2 .. n : g[k + 1][j] = g[k][j-1]
      BY <1>0, <2>3, <3>2
    <3>4. Zeros(g[k + 1], 2)
      <4>1. \A j \in 2 .. n : j - 1 \in 1 .. n
        BY <1>0
      <4>. QED
        BY <3>1, <3>3, <4>1
    <3>. QED
      BY <2>6, <3>3, <3>4
  <2>7. CASE k # w
    <3>1. c(k) = 0
      BY <1>1, <2>0, <2>7
    <3>2. p = n - 1
      <4>1. ASSUME p # n - 1 PROVE FALSE
        <5>1. p + 1 \in p+1 .. n-1 /\ p + 1 \in 1 .. n
          BY <1>0, <4>1
        <5>2. c(g[k][p+1]) < 0 /\ c(g[k][p+1]) \in Nat
          BY <2>4, <2>5, <3>1, <5>1
        <5>. QED
          BY <5>2
      <4>. QED
        BY <4>1
    <3>3. g[k + 1][n] = k /\ \A j \in 1 .. n - 1 : g[k + 1][j] = g[k][j]
      BY <1>0, <2>3, <3>2
    <3>4. \A m \in 1 .. n : Zeros(g[k], m) => Zeros(g[k + 1], m)
      <4>. SUFFICES ASSUME NEW m \in 1 .. n, Zeros(g[k], m), NEW j \in m .. n
                    PROVE  c(g[k + 1][j]) = 0
        OBVIOUS
      <4>1. CASE j = n
        BY <3>1, <3>3, <4>1
      <4>2. CASE j # n
        <5>1. j \in 1 .. n - 1
          BY <1>0, <4>2
        <5>. QED
          BY <3>3, <5>1
      <4>. QED
        BY <4>1, <4>2
    <3>5. 1 \in 1 .. n /\ 2 \in 1 .. n /\ 1 \in 1 .. n - 1 /\ w \in Nat
      BY <1>0
    <3>6. CASE k <= w
      <4>1. k + 1 <= w
        BY <2>7, <3>5, <3>6
      <4>2. Zeros(g[k + 1], 1)
        BY <2>0, <3>4, <3>5, <3>6
      <4>. QED
        BY <4>1, <4>2
    <3>7. CASE ~(k <= w)
      <4>1. ~(k + 1 <= w)
        BY <3>5, <3>7
      <4>2. g[k + 1][1] = w /\ Zeros(g[k + 1], 2)
        <5>. HIDE DEF Zeros
        <5>. QED
          BY <2>0, <3>3, <3>4, <3>5, <3>7
      <4>. QED
        BY <4>1, <4>2
    <3>. QED
      BY <3>6, <3>7
  <2>. QED
    BY <2>6, <2>7
<1>5. Good(n)
  <2>1. n \in S
    <3>. HIDE DEF S
    <3>. QED
      BY <1>0, <1>3, <1>4, SetInduction
  <2>. QED
    BY <1>0, <2>1
<1>. QED
  BY <1>0, <1>2, <1>5

\* An index that comes to a sorted list leaves it sorted.
LEMMA PutSorted ==
  ASSUME NEW bag, Counted(bag), NEW list \in List, NEW i \in Widths, Sorted(list, bag),
         NEW p \in 0 .. Entries - 1, Place(list, i, bag, p)
  PROVE  Sorted(Put(list, i, p), bag)
<1>. DEFINE n == Entries
            c(x) == Count(bag, x)
            new == Put(list, i, p)
<1>0. n \in Nat /\ n > 1
  BY SizeIsNat
<1>1. /\ \A k \in 1 .. n : c(list[k]) \in Nat
      /\ c(i) \in Nat
  BY DEF Counted, List
<1>2. /\ p = 0 \/ c(list[p]) >= c(i)
      /\ \A q \in p+1 .. n-1 : c(list[q]) < c(i)
  BY DEF Place
<1>3. \A a \in 1 .. n : \A b \in a .. n : c(list[a]) >= c(list[b])
  BY DEF Sorted
<1>4. \A k \in 1 .. n : new[k] = IF k <= p THEN list[k] ELSE IF k = p + 1 THEN i ELSE list[k-1]
  BY DEF Put
<1>. HIDE DEF n, c, new
<1>5. ASSUME NEW a \in 1 .. n, NEW b \in a .. n PROVE c(new[a]) >= c(new[b])
  <2>1. CASE b <= p
    <3>1. new[a] = list[a] /\ new[b] = list[b]
      BY <1>0, <1>4, <2>1
    <3>. QED
      BY <1>3, <3>1
  <2>2. CASE a <= p /\ b = p + 1
    <3>1. new[a] = list[a] /\ new[b] = i
      BY <1>0, <1>4, <2>2
    <3>2. c(list[a]) >= c(list[p]) /\ c(list[p]) >= c(i) /\ p \in 1 .. n
      BY <1>0, <1>2, <1>3, <2>2
    <3>. QED
      BY <1>1, <3>1, <3>2
  <2>3. CASE a <= p /\ b > p + 1
    <3>1. new[a] = list[a] /\ new[b] = list[b-1] /\ b - 1 \in a .. n
      BY <1>0, <1>4, <2>3
    <3>. QED
      BY <1>3, <3>1
  <2>4. CASE a = p + 1 /\ b = p + 1
    BY <1>0, <1>1, <1>4, <2>4
  <2>5. CASE a = p + 1 /\ b > p + 1
    <3>1. new[a] = i /\ new[b] = list[b-1] /\ b - 1 \in p+1 .. n-1 /\ b - 1 \in 1 .. n
      BY <1>0, <1>4, <2>5
    <3>. QED
      BY <1>1, <1>2, <3>1
  <2>6. CASE a > p + 1
    <3>1. new[a] = list[a-1] /\ new[b] = list[b-1] /\ a - 1 \in 1 .. n /\ b - 1 \in a - 1 .. n
      BY <1>0, <1>4, <2>6
    <3>. QED
      BY <1>3, <3>1
  <2>. QED
    BY <1>0, <2>1, <2>2, <2>3, <2>4, <2>5, <2>6
<1>. QED
  BY <1>5, Zenon DEF Sorted, n, c, new

\* If there are runs of two widths, the second of the list has runs too.
LEMMA TwoWidths ==
  ASSUME NEW bag, Counted(bag), NEW v \in Widths, NEW w \in Widths, v < w,
         Count(bag, v) > 0, Count(bag, w) > 0
  PROVE  Count(bag, sortData(bag)[2]) # 0
<1>. DEFINE n == Entries
            c(i) == Count(bag, i)
<1>0. n \in Nat /\ n > 1 /\ Widths = 0 .. n - 1
  BY SizeIsNat DEF Widths
<1>1. \A i \in Widths : c(i) \in Nat
  BY DEF Counted
<1>2. PICK g : Lists(g, bag) /\ sortData(bag) = g[n]
  BY SortSteps
<1>. HIDE DEF n
<1>. DEFINE Good(k) == /\ Sorted(g[k], bag)
                       /\ k > v => c(g[k][1]) > 0
                       /\ k > w => c(g[k][2]) > 0
            S == {k \in Nat : k <= n => Good(k)}
<1>3. 0 \in S
  <2>1. LeastAt(bag) \in Widths
    BY LeastIndex
  <2>2. \A k \in 1 .. n : g[0][k] = LeastAt(bag)
    BY <1>2 DEF Lists, n
  <2>3. \A a \in 1 .. n : \A b \in a .. n : c(g[0][a]) >= c(g[0][b])
    <3>1. c(LeastAt(bag)) \in Nat /\ \A b : \A a \in 1 .. n : b \in a .. n => b \in 1 .. n
      BY <1>0, <1>1, <2>1
    <3>. HIDE DEF c
    <3>. QED
      BY <2>2, <3>1
  <2>4. Sorted(g[0], bag)
    BY <2>3 DEF Sorted, n
  <2>. QED
    BY <1>0, <2>4
<1>4. ASSUME NEW k \in Nat, k \in S PROVE k + 1 \in S
  <2>. SUFFICES ASSUME k + 1 <= n PROVE Good(k + 1)
    OBVIOUS
  <2>0. k \in Widths /\ k + 1 \in 1 .. n /\ (k + 1) - 1 = k /\ k \in 0 .. n /\ Good(k)
    BY <1>0, <1>4
  <2>1. g[k] \in List /\ g[k + 1] = Insert(g[k], k, bag)
    BY <1>2, <2>0 DEF Lists, n
  <2>2. PICK p \in 0 .. n - 1 : Place(g[k], k, bag, p) /\ g[k + 1] = Put(g[k], k, p)
    BY <2>0, <2>1, Inserted DEF n
  <2>3. Sorted(g[k + 1], bag)
    BY <2>0, <2>1, <2>2, PutSorted DEF n
  <2>4. /\ p = 0 \/ c(g[k][p]) >= c(k)
        /\ \A q \in p+1 .. n-1 : c(g[k][q]) < c(k)
    BY <2>2 DEF Place, n
  <2>5. \A j \in 1 .. n : c(g[k][j]) \in Nat
    BY <1>1, <2>1 DEF List, n
  <2>6. /\ g[k + 1][1] = IF p = 0 THEN k ELSE g[k][1]
        /\ g[k + 1][2] = IF p = 0 THEN g[k][1] ELSE IF p = 1 THEN k ELSE g[k][2]
    <3>1. \A j \in 1 .. n : g[k + 1][j] = IF j <= p THEN g[k][j]
                                          ELSE IF j = p + 1 THEN k ELSE g[k][j-1]
      BY <2>2 DEF Put, n
    <3>2. 1 \in 1 .. n /\ 2 \in 1 .. n
      BY <1>0
    <3>. QED
      BY <3>1, <3>2
  <2>7. \A a \in 1 .. n : \A b \in a .. n : c(g[k][a]) >= c(g[k][b])
    BY <2>0 DEF Sorted, n
  <2>. HIDE DEF c
  <2>8. PICK x \in Nat, y \in Nat, z \in Nat :
          x = c(g[k][1]) /\ y = c(g[k][2]) /\ z = c(k)
    <3>1. c(k) \in Nat
      BY <1>1, <2>0
    <3>2. c(g[k][1]) \in Nat /\ c(g[k][2]) \in Nat
      <4>1. 1 \in 1 .. n /\ 2 \in 1 .. n
        BY <1>0
      <4>. QED
        BY <2>5, <4>1, Zenon
    <3>. QED
      BY <3>1, <3>2, Zenon
  <2>9. /\ x >= y
        /\ p = 0 => x < z
        /\ p = 1 /\ n > 2 => y < z
        /\ p >= 1 => x >= z
        /\ p >= 2 => y >= z
    <3>1. x >= y
      BY <1>0, <2>7, <2>8
    <3>2. p = 0 => x < z
      BY <1>0, <2>4, <2>8
    <3>3. p = 1 /\ n > 2 => y < z
      BY <1>0, <2>4, <2>8
    <3>4. ASSUME p >= 1 PROVE x >= z
      <4>1. c(g[k][1]) >= c(g[k][p]) /\ c(g[k][p]) >= c(k) /\ c(g[k][p]) \in Nat
        BY <1>0, <2>4, <2>5, <2>7, <3>4
      <4>. QED
        BY <2>8, <4>1
    <3>5. ASSUME p >= 2 PROVE y >= z
      <4>1. c(g[k][2]) >= c(g[k][p]) /\ c(g[k][p]) >= c(k) /\ c(g[k][p]) \in Nat
        BY <1>0, <2>4, <2>5, <2>7, <3>5
      <4>. QED
        BY <2>8, <4>1
    <3>. QED
      BY <3>1, <3>2, <3>3, <3>4, <3>5
  <2>10. k = v => z > 0
    BY <2>8 DEF c
  <2>11. k = w => z > 0
    BY <2>8 DEF c
  <2>12. v \in Nat /\ w \in Nat /\ v < w /\ (k > v => x > 0) /\ (k > w => y > 0)
    BY <1>0, <2>0, <2>8
  <2>13. n > 2
    BY <1>0, SizeIsNat DEF n, Entries
  <2>14. k + 1 > v => c(g[k + 1][1]) > 0
    BY <2>6, <2>8, <2>9, <2>10, <2>12
  <2>15. k + 1 > w => c(g[k + 1][2]) > 0
    BY <2>6, <2>8, <2>9, <2>11, <2>12, <2>13
  <2>. QED
    BY <2>3, <2>14, <2>15
<1>5. Good(n)
  <2>1. n \in S
    <3>. HIDE DEF S
    <3>. QED
      BY <1>0, <1>3, <1>4, SetInduction
  <2>. QED
    BY <1>0, <2>1
<1>6. c(sortData(bag)[2]) > 0
  <2>. HIDE DEF c
  <2>. QED
    BY <1>0, <1>2, <1>5
<1>. QED
  BY <1>6

\* A decoder is specialised on a width if and only if all runs have it.
LEMMA FixedWidth ==
  ASSUME NEW ei, Counted(ei.bitsize), NEW D \in SUBSET Widths, D # {},
         \A i \in Widths : Count(ei.bitsize, i) > 0 <=> i \in D
  PROVE  IF \E w : D = {w} THEN D = {getFixedBitSize(ei)} ELSE getFixedBitSize(ei) = -1
<1>. DEFINE bag == ei.bitsize
            top == sortData(bag)
<1>0. getFixedBitSize(ei) = IF Count(bag, top[2]) = 0 THEN top[1] ELSE -1
  BY Zenon DEF getFixedBitSize
<1>. HIDE DEF top
<1>1. CASE \E w : D = {w}
  <2>1. PICK w : D = {w}
    BY <1>1
  <2>2. top[1] = w /\ Count(bag, top[2]) = 0
    BY <2>1, OneWidth DEF top
  <2>3. getFixedBitSize(ei) = w
    BY <1>0, <2>2, Zenon
  <2>. QED
    BY <2>1, <2>3
<1>2. CASE ~\E w : D = {w}
  <2>1. PICK v \in D, w \in D : v < w
    <3>0. PICK x \in D : TRUE
      OBVIOUS
    <3>1. PICK y \in D : x # y
      <4>1. D # {x}
        BY <1>2
      <4>. QED
        BY <4>1
    <3>2. x \in Nat /\ y \in Nat
      BY SizeIsNat DEF Widths
    <3>. QED
      BY <3>1, <3>2
  <2>2. Count(bag, top[2]) # 0
    BY <2>1, TwoWidths DEF top
  <2>. QED
    BY <1>0, <1>2, <2>2
<1>. QED
  BY <1>1, <1>2
-----------------------------------------------------------------------------
(***************************************************************************)
(* A profile written is a profile read.                                    *)
(***************************************************************************)
\* The counts of an array.
IsArray(bag) ==
  IsFiniteSet(DOMAIN bag) /\ DOMAIN bag \subseteq Nat /\ bag = [i \in DOMAIN bag |-> bag[i]]

Rank(S, i) == Cardinality({j \in S : j < i})

LEMMA Ranked ==
  ASSUME NEW S \in SUBSET Nat, IsFiniteSet(S)
  PROVE  /\ Cardinality(S) \in Nat
         /\ \A k \in 0 .. Cardinality(S) - 1 : \E i \in S : Rank(S, i) = k
         /\ \A i \in S : Rank(S, i) \in 0 .. Cardinality(S) - 1
         /\ \A i \in S : \A j \in S : Rank(S, i) = Rank(S, j) => i = j
<1>. DEFINE n == Cardinality(S)
            B(i) == {j \in S : j < i}
            f == [i \in S |-> Rank(S, i)]
<1>1. n \in Nat
  BY FS_CardinalityType
<1>2. \A i : B(i) \in SUBSET S
  OBVIOUS
<1>3. \A i : IsFiniteSet(B(i)) /\ Cardinality(B(i)) \in Nat
  <2>. HIDE DEF B
  <2>. QED
    BY <1>2, FS_Subset, FS_CardinalityType
<1>4. ASSUME NEW i \in S PROVE Rank(S, i) \in 0 .. n - 1
  <2>1. B(i) # S
    OBVIOUS
  <2>. HIDE DEF B, n
  <2>2. Cardinality(B(i)) <= n /\ Cardinality(B(i)) # n
    BY <1>2, <2>1, FS_Subset DEF n
  <2>3. Cardinality(B(i)) \in 0 .. n - 1
    BY <1>1, <1>3, <2>2
  <2>. QED
    BY <2>3, Zenon DEF Rank, B
<1>5. ASSUME NEW i \in S, NEW j \in S, i < j PROVE Rank(S, i) # Rank(S, j)
  <2>1. B(i) \in SUBSET B(j) /\ i \in B(j) /\ i \notin B(i)
    <3>1. i \in Nat /\ j \in Nat /\ \A x \in S : x \in Nat
      OBVIOUS
    <3>2. \A x \in S : x < i => x < j
      BY <1>5, <3>1
    <3>3. ~(i < i)
      BY <3>1
    <3>4. \A x \in B(i) : x \in B(j)
      BY <3>2
    <3>5. i \in B(j) /\ i \notin B(i)
      BY <1>5, <3>3
    <3>. HIDE DEF B
    <3>. QED
      BY <3>4, <3>5
  <2>. HIDE DEF B
  <2>2. Cardinality(B(i)) # Cardinality(B(j))
    BY <1>3, <2>1, FS_Subset
  <2>. QED
    BY <2>2, Zenon DEF Rank, B
<1>6. \A i \in S : \A j \in S : Rank(S, i) = Rank(S, j) => i = j
  <2>. SUFFICES ASSUME NEW i \in S, NEW j \in S, i # j PROVE Rank(S, i) # Rank(S, j)
    OBVIOUS
  <2>1. i < j \/ j < i
    OBVIOUS
  <2>. QED
    BY <1>5, <2>1
<1>. HIDE DEF n
<1>7. f \in Injection(S, 0 .. n - 1)
  BY <1>4, <1>6 DEF Injection, IsInjective
<1>8. IsFiniteSet(0 .. n - 1) /\ Cardinality(0 .. n - 1) = n
  <2>1. 0 \in Int /\ n - 1 \in Int /\ (IF 0 > n - 1 THEN 0 ELSE (n - 1) - 0 + 1) = n
    BY <1>1
  <2>. QED
    BY <2>1, FS_Interval
<1>9. f \in Surjection(S, 0 .. n - 1)
  <2>. HIDE DEF f
  <2>1. Cardinality(S) = Cardinality(0 .. n - 1)
    BY <1>8 DEF n
  <2>. QED
    BY <1>7, <1>8, <2>1, FS_Injection
<1>10. \A k \in 0 .. n - 1 : \E i \in S : Rank(S, i) = k
  BY <1>9 DEF Surjection
<1>. QED
  BY <1>1, <1>4, <1>6, <1>10 DEF n

\* What is written of an array: its indices, each with its count, and a -1.
Writes(list, bag, n, at) ==
  /\ n \in Nat /\ list \in [1 .. 2*n + 1 -> Range(list)] /\ at \in [0 .. n - 1 -> DOMAIN bag]
  /\ \A i \in DOMAIN bag : \E k \in 0 .. n - 1 : at[k] = i
  /\ \A j \in 0 .. n - 1 : \A k \in 0 .. n - 1 : at[j] = at[k] => j = k
  /\ \A k \in 0 .. n - 1 : list[2*k + 1] = at[k] /\ list[2*k + 2] = bag[at[k]]
  /\ list[2*n + 1] = -1

LEMMA PairsWritten ==
  ASSUME NEW bag, IsArray(bag)
  PROVE  \E n, at : Writes(Pairs(bag), bag, n, at)
<1>. DEFINE S == DOMAIN bag
            n == Cardinality(S)
            pick(k) == CHOOSE i \in S : Rank(S, i) = k
            at == [k \in 0 .. n - 1 |-> pick(k)]
            item(m) == IF m = 2*n + 1 THEN -1
                       ELSE IF m % 2 = 1 THEN pick(m \div 2) ELSE bag[pick(m \div 2 - 1)]
            list == [m \in 1 .. 2*n + 1 |-> item(m)]
<1>1. /\ n \in Nat
      /\ \A k \in 0 .. n - 1 : \E i \in S : Rank(S, i) = k
      /\ \A i \in S : Rank(S, i) \in 0 .. n - 1
      /\ \A i \in S : \A j \in S : Rank(S, i) = Rank(S, j) => i = j
  BY Ranked DEF IsArray
<1>2. Pairs(bag) = list
  BY Zenon DEF Pairs, Rank
<1>. HIDE DEF S, n
<1>3. \A k \in 0 .. n - 1 : pick(k) \in S /\ Rank(S, pick(k)) = k
  BY <1>1, Zenon
<1>. HIDE DEF pick
<1>4. at \in [0 .. n - 1 -> S] /\ \A k \in 0 .. n - 1 : at[k] = pick(k)
  BY <1>3
<1>5. \A i \in S : \E k \in 0 .. n - 1 : at[k] = i
  <2>. SUFFICES ASSUME NEW i \in S PROVE \E k \in 0 .. n - 1 : at[k] = i
    OBVIOUS
  <2>1. pick(Rank(S, i)) = i /\ Rank(S, i) \in 0 .. n - 1
    BY <1>1, <1>3, Zenon
  <2>. QED
    BY <1>4, <2>1, Zenon
<1>6. \A j \in 0 .. n - 1 : \A k \in 0 .. n - 1 : at[j] = at[k] => j = k
  BY <1>3, <1>4, Zenon
<1>. HIDE DEF at
<1>7. ASSUME NEW k \in 0 .. n - 1 PROVE list[2*k + 1] = at[k] /\ list[2*k + 2] = bag[at[k]]
  <2>1. /\ 2*k + 1 \in 1 .. 2*n + 1 /\ 2*k + 1 # 2*n + 1 /\ (2*k + 1) % 2 = 1
        /\ (2*k + 1) \div 2 = k
        /\ 2*k + 2 \in 1 .. 2*n + 1 /\ 2*k + 2 # 2*n + 1 /\ (2*k + 2) % 2 = 0
        /\ (2*k + 2) \div 2 - 1 = k
    BY <1>1
  <2>2. item(2*k + 1) = pick(k) /\ item(2*k + 2) = bag[pick(k)]
    BY <2>1
  <2>. HIDE DEF item
  <2>. QED
    BY <1>4, <2>1, <2>2
<1>8. list[2*n + 1] = -1
  <2>1. 2*n + 1 \in 1 .. 2*n + 1
    BY <1>1
  <2>. QED
    BY <2>1
<1>9. list \in [1 .. 2*n + 1 -> Range(list)]
  <2>. HIDE DEF item
  <2>. QED
    BY DEF Range
<1>. HIDE DEF list
<1>10. Writes(list, bag, n, at)
  BY <1>1, <1>4, <1>5, <1>6, <1>7, <1>8, <1>9, Zenon DEF Writes, S
<1>. QED
  BY <1>2, <1>10, Zenon

LEMMA PairsSeq ==
  ASSUME NEW bag, IsArray(bag)
  PROVE  IsSeq(Pairs(bag))
<1>1. PICK n \in Nat : Pairs(bag) \in [1 .. 2*n + 1 -> Range(Pairs(bag))]
  BY PairsWritten DEF Writes
<1>2. 2*n + 1 \in Nat
  OBVIOUS
<1>. QED
  BY <1>1, <1>2 DEF IsSeq

\* At a place of the buffer stands a list.
Stands(list, buf, at) ==
  /\ Len(buf) \in Nat /\ at \in Nat /\ Len(list) \in Nat /\ at + Len(list) <= Len(buf) + 1
  /\ \A j \in 1 .. Len(list) : buf[at + j - 1] = list[j]

LEMMA PairsRead ==
  ASSUME NEW bag, IsArray(bag), NEW buf, NEW at \in Nat \ {0}, Stands(Pairs(bag), buf, at)
  PROVE  /\ at + 2 * PairsAt(buf, at) + 1 = at + Len(Pairs(bag))
         /\ ReadPairs(buf, at) = bag
<1>. DEFINE list == Pairs(bag)
<1>1. PICK n, pos : Writes(list, bag, n, pos)
  BY PairsWritten
<1>. HIDE DEF list
<1>2. n \in Nat /\ Len(list) = 2*n + 1
  BY <1>1 DEF Writes
<1>3. /\ Len(buf) \in Nat /\ at + 2*n <= Len(buf)
      /\ \A j \in 1 .. 2*n + 1 : buf[at + j - 1] = list[j]
  BY <1>2 DEF Stands, list
<1>4. ASSUME NEW k \in 0 .. n - 1
      PROVE  buf[at + 2*k] = pos[k] /\ buf[at + 2*k + 1] = bag[pos[k]] /\ pos[k] \in DOMAIN bag
  <2>1. /\ 2*k + 1 \in 1 .. 2*n + 1 /\ at + (2*k + 1) - 1 = at + 2*k
        /\ 2*k + 2 \in 1 .. 2*n + 1 /\ at + (2*k + 2) - 1 = at + 2*k + 1
    BY <1>2
  <2>2. buf[at + 2*k] = list[2*k + 1] /\ buf[at + 2*k + 1] = list[2*k + 2]
    BY <1>3, <2>1
  <2>3. list[2*k + 1] = pos[k] /\ list[2*k + 2] = bag[pos[k]] /\ pos[k] \in DOMAIN bag
    BY <1>1 DEF Writes
  <2>. QED
    BY <2>2, <2>3, Zenon
<1>5. buf[at + 2*n] = -1
  <2>1. 2*n + 1 \in 1 .. 2*n + 1 /\ at + (2*n + 1) - 1 = at + 2*n
    BY <1>2
  <2>2. list[2*n + 1] = -1
    BY <1>1 DEF Writes
  <2>3. buf[at + (2*n + 1) - 1] = list[2*n + 1]
    BY <1>3, <2>1
  <2>. QED
    BY <2>1, <2>2, <2>3
<1>6. \A m \in 0 .. n - 1 : buf[at + 2*m] # -1
  <2>1. \A i \in DOMAIN bag : i # -1
    BY DEF IsArray
  <2>. QED
    BY <1>4, <2>1
<1>7. PairsAt(buf, at) = n
  <2>. DEFINE Ends(k) == buf[at + 2*k] = -1 /\ \A m \in 0 .. k-1 : buf[at + 2*m] # -1
  <2>1. n \in 0 .. Len(buf) /\ Ends(n)
    BY <1>2, <1>3, <1>5, <1>6
  <2>2. ASSUME NEW k \in 0 .. Len(buf), Ends(k) PROVE k = n
    <3>1. k < n => k \in 0 .. n - 1
      BY <1>2
    <3>2. k > n => n \in 0 .. k - 1
      BY <1>2
    <3>. QED
      BY <1>2, <1>5, <1>6, <2>2, <3>1, <3>2
  <2>3. PairsAt(buf, at) = CHOOSE k \in 0 .. Len(buf) : Ends(k)
    BY Zenon DEF PairsAt
  <2>. HIDE DEF Ends
  <2>. QED
    BY <2>1, <2>2, <2>3
<1>8. ReadPairs(buf, at) = bag
  <2>. DEFINE pair(i) == CHOOSE m \in 0 .. n - 1 : buf[at + 2*m] = i
              First(c, i) == CHOOSE m \in 0 .. c - 1 : buf[at + 2*m] = i
              Read(c) == [i \in {buf[at + 2*m] : m \in 0 .. c - 1} |->
                            buf[at + 2*First(c, i) + 1]]
  <2>0. ReadPairs(buf, at) = Read(PairsAt(buf, at))
    BY Zenon DEF ReadPairs
  <2>1. ReadPairs(buf, at)
          = [i \in {buf[at + 2*m] : m \in 0 .. n - 1} |-> buf[at + 2*pair(i) + 1]]
    <3>1. Read(n) = [i \in {buf[at + 2*m] : m \in 0 .. n - 1} |-> buf[at + 2*pair(i) + 1]]
      BY Zenon
    <3>. HIDE DEF Read, pair
    <3>. QED
      BY <1>7, <2>0, <3>1, Zenon
  <2>. HIDE DEF Read, First
  <2>2. {buf[at + 2*m] : m \in 0 .. n - 1} = DOMAIN bag
    <3>1. \A i \in DOMAIN bag : \E k \in 0 .. n - 1 : pos[k] = i
      BY <1>1 DEF Writes
    <3>. QED
      BY <1>4, <3>1
  <2>3. ASSUME NEW i \in DOMAIN bag PROVE buf[at + 2*pair(i) + 1] = bag[i]
    <3>1. \E m \in 0 .. n - 1 : buf[at + 2*m] = i
      BY <2>2
    <3>2. pair(i) \in 0 .. n - 1 /\ buf[at + 2*pair(i)] = i
      BY <3>1
    <3>. HIDE DEF pair
    <3>. QED
      BY <1>4, <3>2
  <2>. HIDE DEF pair
  <2>4. [i \in DOMAIN bag |-> buf[at + 2*pair(i) + 1]] = [i \in DOMAIN bag |-> bag[i]]
    BY <2>3
  <2>. QED
    BY <2>1, <2>2, <2>4, Zenon DEF IsArray
<1>. QED
  BY <1>2, <1>7, <1>8 DEF list

\* A profile as the code keeps it.
Profile(ei) ==
  /\ ei = [bitsize |-> ei.bitsize, runLength |-> ei.runLength,
           num |-> ei.num, totalRunLength |-> ei.totalRunLength]
  /\ IsArray(ei.bitsize) /\ IsArray(ei.runLength)
  /\ ei.num = 0 => ei.bitsize = EmptyBag /\ ei.runLength = EmptyBag

Decodes(buf, at, ei, signed) ==
  decodeFrom(buf, at)
    = [info |-> ei, issigned |-> signed, next |-> at + Len(encodeTo(ei, signed))]

LEMMA ReadBack ==
  ASSUME NEW ei, Profile(ei), NEW signed \in BOOLEAN, NEW buf, NEW at \in Nat \ {0},
         Stands(encodeTo(ei, signed), buf, at)
  PROVE  Decodes(buf, at, ei, signed)
<1>. DEFINE head == <<IF signed THEN 1 ELSE 0, ei.num, ei.totalRunLength>>
            widths == Pairs(ei.bitsize)
            lengths == Pairs(ei.runLength)
            list == encodeTo(ei, signed)
<1>1. IsSeq(head) /\ Len(head) = 3 /\ head[1] = (IF signed THEN 1 ELSE 0)
      /\ head[2] = ei.num /\ head[3] = ei.totalRunLength
  <2>1. head = [i \in 1 .. 3 |-> head[i]]
    OBVIOUS
  <2>2. Len(head) = 3 /\ head[1] = (IF signed THEN 1 ELSE 0)
        /\ head[2] = ei.num /\ head[3] = ei.totalRunLength
    OBVIOUS
  <2>3. 3 \in Nat
    OBVIOUS
  <2>. HIDE DEF head
  <2>. QED
    BY <2>1, <2>2, <2>3, FunctionIsSeq
<1>2. list = head \o (IF ei.num = 0 THEN <<>> ELSE widths \o lengths)
  BY Zenon DEF encodeTo
<1>. DEFINE empty == [bitsize |-> EmptyBag, runLength |-> EmptyBag, num |-> 0,
                      totalRunLength |-> buf[at + 2]]
            next == at + 3 + 2 * PairsAt(buf, at + 3) + 1
<1>3. decodeFrom(buf, at) =
        IF buf[at + 1] = 0
          THEN [info |-> empty, issigned |-> buf[at] = 1, next |-> at + 3]
          ELSE [info |-> [bitsize |-> ReadPairs(buf, at + 3), runLength |-> ReadPairs(buf, next),
                          num |-> buf[at + 1], totalRunLength |-> buf[at + 2]],
                issigned |-> buf[at] = 1,
                next |-> next + 2 * PairsAt(buf, next) + 1]
  BY Zenon DEF decodeFrom
<1>4. \A j \in 1 .. Len(list) : buf[at + j - 1] = list[j]
  BY Zenon DEF Stands
<1>5. /\ Len(buf) \in Nat /\ Len(list) \in Nat /\ at + Len(list) <= Len(buf) + 1
  BY Zenon DEF Stands
<1>. HIDE DEF head, list, widths, lengths
<1>6. CASE ei.num = 0
  <2>1. list = head
    <3>1. list = head \o <<>>
      BY <1>2, <1>6, Zenon
    <3>2. \A s : IsSeq(s) => s \o <<>> = s
      BY DEF IsSeq
    <3>. QED
      BY <1>1, <3>1, <3>2, Zenon
  <2>2. buf[at] = head[1] /\ buf[at + 1] = head[2] /\ buf[at + 2] = head[3] /\ Len(list) = 3
    <3>1. /\ 1 \in 1 .. 3 /\ 2 \in 1 .. 3 /\ 3 \in 1 .. 3
          /\ at + 1 - 1 = at /\ at + 2 - 1 = at + 1 /\ at + 3 - 1 = at + 2
      OBVIOUS
    <3>. QED
      BY <1>1, <1>4, <2>1, <3>1, Zenon
  <2>3. (buf[at] = 1) = signed /\ buf[at + 1] = 0
    BY <1>1, <1>6, <2>2
  <2>4. decodeFrom(buf, at) = [info |-> empty, issigned |-> signed, next |-> at + 3]
    BY <1>3, <2>3, Zenon
  <2>5. empty = ei
    <3>1. ei = [bitsize |-> EmptyBag, runLength |-> EmptyBag, num |-> 0,
                  totalRunLength |-> ei.totalRunLength]
      BY <1>6, Zenon DEF Profile
    <3>2. buf[at + 2] = ei.totalRunLength
      BY <1>1, <2>2, Zenon
    <3>. QED
      BY <3>1, <3>2, Zenon
  <2>. HIDE DEF empty
  <2>. QED
    BY <2>2, <2>4, <2>5, Zenon DEF Decodes, list
<1>7. CASE ei.num # 0
  <2>1. IsSeq(widths) /\ IsSeq(lengths)
    BY PairsSeq DEF Profile, widths, lengths
  <2>. DEFINE rest == widths \o lengths
  <2>2. Joined(rest, widths, lengths)
    BY <2>1, Joins
  <2>3. list = head \o rest
    BY <1>2, <1>7, Zenon
  <2>. HIDE DEF rest
  <2>4. Joined(list, head, rest)
    <3>1. IsSeq(rest)
      BY <2>2, Zenon DEF Joined
    <3>. QED
      BY <1>1, <2>3, <3>1, Joins, Zenon
  <2>5. PICK w \in Nat, l \in Nat : w = Len(widths) /\ l = Len(lengths) /\ Len(list) = 3 + w + l
    <3>1. PICK w \in Nat, l \in Nat : w = Len(widths) /\ l = Len(lengths)
      BY <2>2, Zenon DEF Joined
    <3>2. Len(rest) = w + l /\ Len(list) = 3 + Len(rest)
      BY <1>1, <2>2, <2>4, <3>1, Zenon DEF Joined
    <3>3. 3 + (w + l) = 3 + w + l
      OBVIOUS
    <3>. QED
      BY <3>1, <3>2, <3>3, Zenon
  <2>6. buf[at] = head[1] /\ buf[at + 1] = head[2] /\ buf[at + 2] = head[3]
    <3>1. list[1] = head[1] /\ list[2] = head[2] /\ list[3] = head[3]
      <4>1. 1 \in 1 .. 3 /\ 2 \in 1 .. 3 /\ 3 \in 1 .. 3
        OBVIOUS
      <4>. QED
        BY <1>1, <2>4, <4>1, Zenon DEF Joined
    <3>2. /\ 1 \in 1 .. 3 + w + l /\ 2 \in 1 .. 3 + w + l /\ 3 \in 1 .. 3 + w + l
          /\ at + 1 - 1 = at /\ at + 2 - 1 = at + 1 /\ at + 3 - 1 = at + 2
      OBVIOUS
    <3>. QED
      BY <1>4, <2>5, <3>1, <3>2, Zenon
  <2>7. Stands(widths, buf, at + 3)
    <3>1. ASSUME NEW j \in 1 .. w PROVE buf[(at + 3) + j - 1] = widths[j]
      <4>1. 3 + j \in 1 .. 3 + w + l /\ at + (3 + j) - 1 = (at + 3) + j - 1 /\ j \in 1 .. w + l
        OBVIOUS
      <4>2. buf[at + (3 + j) - 1] = list[3 + j]
        BY <1>4, <2>5, <4>1, Zenon
      <4>3. list[3 + j] = rest[j]
        <5>1. Len(rest) = w + l
          BY <2>2, <2>5, Zenon DEF Joined
        <5>. QED
          BY <1>1, <2>4, <4>1, <5>1, Zenon DEF Joined
      <4>4. rest[j] = widths[j]
        BY <2>2, <2>5, Zenon DEF Joined
      <4>. QED
        BY <4>1, <4>2, <4>3, <4>4, Zenon
    <3>2. at + 3 \in Nat /\ (at + 3) + w <= Len(buf) + 1
      BY <1>5, <2>5
    <3>. QED
      BY <1>5, <2>5, <3>1, <3>2, Zenon DEF Stands
  <2>8. at + 3 + 2 * PairsAt(buf, at + 3) + 1 = (at + 3) + w /\ ReadPairs(buf, at + 3) = ei.bitsize
    <3>1. at + 3 \in Nat \ {0} /\ IsArray(ei.bitsize)
      BY DEF Profile
    <3>. QED
      BY <2>5, <2>7, <3>1, PairsRead DEF widths
  <2>9. Stands(lengths, buf, (at + 3) + w)
    <3>1. ASSUME NEW j \in 1 .. l PROVE buf[((at + 3) + w) + j - 1] = lengths[j]
      <4>1. 3 + (w + j) \in 1 .. 3 + w + l /\ at + (3 + (w + j)) - 1 = ((at + 3) + w) + j - 1
            /\ w + j \in 1 .. w + l
        OBVIOUS
      <4>2. buf[at + (3 + (w + j)) - 1] = list[3 + (w + j)]
        BY <1>4, <2>5, <4>1, Zenon
      <4>3. list[3 + (w + j)] = rest[w + j]
        <5>1. Len(rest) = w + l
          BY <2>2, <2>5, Zenon DEF Joined
        <5>. QED
          BY <1>1, <2>4, <4>1, <5>1, Zenon DEF Joined
      <4>4. rest[w + j] = lengths[j]
        BY <2>2, <2>5, Zenon DEF Joined
      <4>. QED
        BY <4>1, <4>2, <4>3, <4>4, Zenon
    <3>2. (at + 3) + w \in Nat /\ ((at + 3) + w) + l <= Len(buf) + 1
      BY <1>5, <2>5
    <3>. QED
      BY <1>5, <2>5, <3>1, <3>2, Zenon DEF Stands
  <2>10. /\ ((at + 3) + w) + 2 * PairsAt(buf, (at + 3) + w) + 1 = ((at + 3) + w) + l
         /\ ReadPairs(buf, (at + 3) + w) = ei.runLength
    <3>1. (at + 3) + w \in Nat \ {0} /\ IsArray(ei.runLength)
      BY DEF Profile
    <3>. QED
      BY <2>5, <2>9, <3>1, PairsRead DEF lengths
  <2>11. next = (at + 3) + w
    BY <2>8
  <2>. HIDE DEF next
  <2>12. /\ (buf[at] = 1) = signed /\ buf[at + 1] = ei.num
         /\ buf[at + 2] = ei.totalRunLength
    BY <1>1, <2>6
  <2>13. decodeFrom(buf, at) =
          [info |-> [bitsize |-> ei.bitsize, runLength |-> ei.runLength,
                     num |-> ei.num, totalRunLength |-> ei.totalRunLength],
           issigned |-> signed, next |-> ((at + 3) + w) + l]
    BY <1>3, <1>7, <2>8, <2>10, <2>11, <2>12, Zenon
  <2>14. ei = [bitsize |-> ei.bitsize, runLength |-> ei.runLength,
                 num |-> ei.num, totalRunLength |-> ei.totalRunLength]
    BY Zenon DEF Profile
  <2>15. ((at + 3) + w) + l = at + Len(list)
    BY <2>5
  <2>. HIDE DEF empty
  <2>. QED
    BY <2>13, <2>14, <2>15, Zenon DEF Decodes, list
<1>. QED
  BY <1>6, <1>7


\* The same of any sequence of sequences.
LEMMA FlatParts ==
  ASSUME NEW n \in Nat, NEW parts, IsSeq(parts), Len(parts) = n,
         \A i \in 1 .. n : IsSeq(parts[i]), NEW flat, flat = FlattenSeq(parts)
  PROVE  /\ Len(flat) = SumTo(Lengths(parts), n) /\ SumTo(Lengths(parts), 0) = 0
         /\ \A k \in 0 .. n : SumTo(Lengths(parts), k) \in Nat
         /\ \A k \in 1 .. n :
              /\ SumTo(Lengths(parts), k) = SumTo(Lengths(parts), k-1) + Len(parts[k])
              /\ SumTo(Lengths(parts), k) <= SumTo(Lengths(parts), n)
              /\ \A j \in 1 .. Len(parts[k]) :
                   flat[SumTo(Lengths(parts), k-1) + j] = parts[k][j]
<1>1. PICK D : D = UNION {Range(parts[i]) : i \in 1 .. n}
  OBVIOUS
<1>2. ASSUME NEW i \in 1 .. n PROVE parts[i] \in Seq(D)
  <2>1. Range(parts[i]) \subseteq D
    BY <1>1
  <2>. QED
    BY <2>1, WiderSeq
<1>3. parts \in Seq(Seq(D))
  <2>1. parts \in Seq(Range(parts)) /\ DOMAIN parts = 1 .. n
    BY DEF IsSeq
  <2>2. Range(parts) \subseteq Seq(D)
    BY <1>2, <2>1, Zenon DEF Range
  <2>. QED
    BY <2>2, WiderSeq, Zenon
<1>4. /\ Len(FlattenSeq(parts)) = SumTo(Lengths(parts), Len(parts)) /\ SumTo(Lengths(parts), 0) = 0
      /\ \A k \in 0 .. Len(parts) : SumTo(Lengths(parts), k) \in Nat
      /\ \A k \in 1 .. Len(parts) :
           /\ SumTo(Lengths(parts), k) = SumTo(Lengths(parts), k-1) + Len(parts[k])
           /\ SumTo(Lengths(parts), k) <= SumTo(Lengths(parts), Len(parts))
           /\ \A j \in 1 .. Len(parts[k]) :
                FlattenSeq(parts)[SumTo(Lengths(parts), k-1) + j] = parts[k][j]
  BY <1>3, PartsOf, Zenon
<1>. QED
  BY <1>4, Zenon

LEMMA EncodedSeq ==
  ASSUME NEW ei, Profile(ei), NEW signed
  PROVE  IsSeq(encodeTo(ei, signed)) /\ Len(encodeTo(ei, signed)) \in Nat
<1>. DEFINE head == <<IF signed THEN 1 ELSE 0, ei.num, ei.totalRunLength>>
            tail == IF ei.num = 0 THEN <<>> ELSE Pairs(ei.bitsize) \o Pairs(ei.runLength)
<1>1. IsSeq(head)
  <2>1. head = [i \in 1 .. 3 |-> head[i]] /\ 3 \in Nat
    OBVIOUS
  <2>. HIDE DEF head
  <2>. QED
    BY <2>1, FunctionIsSeq
<1>2. IsSeq(tail)
  <2>1. IsSeq(<<>>)
    BY DEF IsSeq
  <2>2. \A bag : IsArray(bag) => IsSeq(Pairs(bag))
    BY PairsSeq
  <2>3. IsSeq(Pairs(ei.bitsize) \o Pairs(ei.runLength))
    BY <2>2, CatAny DEF Profile
  <2>. QED
    BY <2>1, <2>3
<1>3. encodeTo(ei, signed) = head \o tail
  BY Zenon DEF encodeTo
<1>. HIDE DEF head, tail
<1>. QED
  BY <1>1, <1>2, <1>3, CatAny, SeqLength

\* The four profiles of a column are read as they were written.
LEMMA AllRead ==
  ASSUME NEW rle, \A k \in Kind : Profile(rle[k]), NEW signed \in BOOLEAN
  PROVE  \A k \in Kind : /\ decodeAll(encodeAll(rle, signed))[k].info = rle[k]
                         /\ decodeAll(encodeAll(rle, signed))[k].issigned = signed
<1>. DEFINE parts == [i \in 1 .. 4 |-> encodeTo(rle[Order[i]], signed)]
            buf == encodeAll(rle, signed)
            at(k) == SumTo(Lengths(parts), k - 1) + 1
            part(i) == [info |-> rle[Order[i]], issigned |-> signed, next |-> at(i + 1)]
            f == CHOOSE f : f = [i \in 1 .. 4 |-> decodeFrom(buf, IF i = 1 THEN 1 ELSE f[i-1].next)]
<1>1. \A i \in 1 .. 4 : Order[i] \in Kind
  BY DEF Order, Kind
<1>2. /\ IsSeq(parts) /\ Len(parts) = 4
      /\ \A i \in 1 .. 4 : parts[i] = encodeTo(rle[Order[i]], signed)
  <2>1. parts = [i \in 1 .. 4 |-> parts[i]] /\ 4 \in Nat /\ Len(parts) = 4
    OBVIOUS
  <2>2. \A i \in 1 .. 4 : parts[i] = encodeTo(rle[Order[i]], signed)
    OBVIOUS
  <2>. HIDE DEF parts
  <2>. QED
    BY <2>1, <2>2, FunctionIsSeq
<1>3. \A i \in 1 .. 4 : IsSeq(parts[i]) /\ Len(parts[i]) \in Nat
  <2>. HIDE DEF parts
  <2>. QED
    BY <1>1, <1>2, EncodedSeq
<1>4. buf = FlattenSeq(parts)
  BY Zenon DEF encodeAll
<1>. HIDE DEF parts, buf
<1>5. /\ SumTo(Lengths(parts), 0) = 0
      /\ \A k \in 0 .. 4 : SumTo(Lengths(parts), k) \in Nat
      /\ Len(buf) = SumTo(Lengths(parts), 4)
      /\ \A k \in 1 .. 4 :
           /\ SumTo(Lengths(parts), k) = SumTo(Lengths(parts), k-1) + Len(parts[k])
           /\ SumTo(Lengths(parts), k) <= SumTo(Lengths(parts), 4)
           /\ \A j \in 1 .. Len(parts[k]) :
                buf[SumTo(Lengths(parts), k-1) + j] = parts[k][j]
  <2>1. PICK n \in Nat : n = 4
    OBVIOUS
  <2>2. IsSeq(parts) /\ Len(parts) = n /\ \A i \in 1 .. n : IsSeq(parts[i])
    BY <1>2, <1>3, <2>1, Zenon
  <2>3. /\ Len(buf) = SumTo(Lengths(parts), n) /\ SumTo(Lengths(parts), 0) = 0
        /\ \A k \in 0 .. n : SumTo(Lengths(parts), k) \in Nat
        /\ \A k \in 1 .. n :
             /\ SumTo(Lengths(parts), k) = SumTo(Lengths(parts), k-1) + Len(parts[k])
             /\ SumTo(Lengths(parts), k) <= SumTo(Lengths(parts), n)
             /\ \A j \in 1 .. Len(parts[k]) :
                  buf[SumTo(Lengths(parts), k-1) + j] = parts[k][j]
    BY <1>4, <2>2, FlatParts
  <2>. QED
    BY <2>1, <2>3, Zenon
<1>6. /\ at(1) = 1
      /\ \A i \in 1 .. 4 : at(i) \in Nat \ {0} /\ at(i + 1) = at(i) + Len(parts[i])
  <2>1. SumTo(Lengths(parts), 1 - 1) = 0
    BY <1>5
  <2>2. ASSUME NEW i \in 1 .. 4
        PROVE  at(i) \in Nat \ {0} /\ at(i + 1) = at(i) + Len(parts[i])
    <3>1. i - 1 \in 0 .. 4 /\ i \in 0 .. 4 /\ (i + 1) - 1 = i
      OBVIOUS
    <3>2. PICK a \in Nat : a = SumTo(Lengths(parts), i - 1)
      BY <1>5, <3>1, Zenon
    <3>3. PICK b \in Nat : b = SumTo(Lengths(parts), (i + 1) - 1)
      BY <1>5, <3>1, Zenon
    <3>4. PICK l \in Nat : l = Len(parts[i])
      BY <1>3, Zenon
    <3>5. b = a + l
      BY <1>5, <3>1, <3>2, <3>3, <3>4, Zenon
    <3>6. a + 1 \in Nat \ {0} /\ b + 1 = (a + 1) + l
      BY <3>5
    <3>. QED
      BY <3>2, <3>3, <3>4, <3>6, Zenon
  <2>. QED
    BY <2>1, <2>2
<1>7. ASSUME NEW i \in 1 .. 4 PROVE decodeFrom(buf, at(i)) = part(i)
  <2>1. Stands(parts[i], buf, at(i))
    <3>1. ASSUME NEW j \in 1 .. Len(parts[i]) PROVE buf[at(i) + j - 1] = parts[i][j]
      <4>1. at(i) + j - 1 = SumTo(Lengths(parts), i-1) + j
        <5>1. PICK s \in Nat : s = SumTo(Lengths(parts), i-1)
          <6>1. i - 1 \in 0 .. 4
            OBVIOUS
          <6>. QED
            BY <1>5, <6>1, Zenon
        <5>2. (s + 1) + j - 1 = s + j
          OBVIOUS
        <5>. QED
          BY <5>1, <5>2, Zenon
      <4>. QED
        BY <1>5, <4>1
    <3>2. at(i) \in Nat /\ Len(buf) \in Nat /\ at(i) + Len(parts[i]) <= Len(buf) + 1
      <4>1. SumTo(Lengths(parts), i-1) \in Nat /\ SumTo(Lengths(parts), i) \in Nat
            /\ SumTo(Lengths(parts), i) = SumTo(Lengths(parts), i-1) + Len(parts[i])
            /\ SumTo(Lengths(parts), i) <= Len(buf) /\ Len(buf) \in Nat
        <5>1. i - 1 \in 0 .. 4 /\ i \in 0 .. 4 /\ 4 \in 0 .. 4
          OBVIOUS
        <5>. QED
          BY <1>5, <5>1, Zenon
      <4>2. PICK a \in Nat, b \in Nat, l \in Nat, m \in Nat :
              /\ a = SumTo(Lengths(parts), i-1) /\ b = SumTo(Lengths(parts), i)
              /\ l = Len(parts[i]) /\ m = Len(buf)
        BY <1>3, <4>1, Zenon
      <4>3. b = a + l /\ b <= m
        BY <4>1, <4>2, Zenon
      <4>4. a + 1 \in Nat /\ (a + 1) + l <= m + 1
        BY <4>3
      <4>. QED
        BY <4>2, <4>4, Zenon
    <3>. HIDE DEF at
    <3>. QED
      BY <1>3, <3>1, <3>2, Zenon DEF Stands
  <2>. HIDE DEF at
  <2>2. Decodes(buf, at(i), rle[Order[i]], signed)
    BY <1>1, <1>2, <1>6, <2>1, ReadBack
  <2>. QED
    BY <1>2, <1>6, <2>2, Zenon DEF Decodes
<1>8. \A i \in 1 .. 4 : part(i).info = rle[Order[i]] /\ part(i).issigned = signed
                        /\ part(i).next = at(i + 1)
  OBVIOUS
<1>. HIDE DEF at, part
<1>9. f = [i \in 1 .. 4 |-> decodeFrom(buf, IF i = 1 THEN 1 ELSE f[i-1].next)]
  <2>. DEFINE g == [i \in 1 .. 4 |-> part(i)]
  <2>1. \A i \in 1 .. 4 : (IF i = 1 THEN 1 ELSE g[i-1].next) = at(i)
    <3>. SUFFICES ASSUME NEW i \in 1 .. 4 PROVE (IF i = 1 THEN 1 ELSE g[i-1].next) = at(i)
      OBVIOUS
    <3>1. CASE i = 1
      BY <1>6, <3>1
    <3>2. CASE i # 1
      <4>1. PICK j \in 1 .. 4 : j = i - 1 /\ j + 1 = i
        BY <3>2
      <4>2. g[j] = part(j)
        OBVIOUS
      <4>3. g[j].next = at(i)
        BY <1>8, <4>1, <4>2, Zenon
      <4>. HIDE DEF g
      <4>. QED
        BY <3>2, <4>1, <4>3, Zenon
    <3>. QED
      BY <3>1, <3>2
  <2>2. g = [i \in 1 .. 4 |-> decodeFrom(buf, IF i = 1 THEN 1 ELSE g[i-1].next)]
    <3>1. \A i \in 1 .. 4 : part(i) = decodeFrom(buf, IF i = 1 THEN 1 ELSE g[i-1].next)
      <4>. HIDE DEF g
      <4>. QED
        BY <1>7, <2>1, Zenon
    <3>. QED
      BY <3>1, Zenon
  <2>. HIDE DEF g
  <2>. QED
    BY <2>2, Zenon
<1>. HIDE DEF f
<1>10. \A i \in 1 .. 4 : f[i] = decodeFrom(buf, IF i = 1 THEN 1 ELSE f[i-1].next)
  <2>. DEFINE h == [i \in 1 .. 4 |-> decodeFrom(buf, IF i = 1 THEN 1 ELSE f[i-1].next)]
  <2>1. \A i \in 1 .. 4 : h[i] = decodeFrom(buf, IF i = 1 THEN 1 ELSE f[i-1].next)
    BY Zenon
  <2>2. f = h
    BY <1>9
  <2>. HIDE DEF h
  <2>. QED
    BY <2>1, <2>2, Zenon
<1>11. f[1] = part(1)
  <2>1. 1 \in 1 .. 4
    OBVIOUS
  <2>2. f[1] = decodeFrom(buf, 1)
    BY <1>10, <2>1, Zenon
  <2>. QED
    BY <1>6, <1>7, <2>1, <2>2, Zenon
<1>12. ASSUME NEW i \in 1 .. 3, f[i] = part(i) PROVE f[i + 1] = part(i + 1)
  <2>1. i \in 1 .. 4 /\ i + 1 \in 1 .. 4 /\ i + 1 # 1 /\ (i + 1) - 1 = i
    OBVIOUS
  <2>2. f[i + 1] = decodeFrom(buf, IF i + 1 = 1 THEN 1 ELSE f[(i + 1) - 1].next)
    BY <1>10, <2>1, Zenon
  <2>3. f[i + 1] = decodeFrom(buf, at(i + 1))
    BY <1>8, <1>12, <2>1, <2>2, Zenon
  <2>. QED
    BY <1>7, <2>1, <2>3, Zenon
<1>13. f[2] = part(2) /\ f[3] = part(3) /\ f[4] = part(4)
  <2>1. f[1 + 1] = part(1 + 1)
    BY <1>11, <1>12
  <2>2. f[2 + 1] = part(2 + 1)
    BY <1>12, <2>1
  <2>3. f[3 + 1] = part(3 + 1)
    BY <1>12, <2>2
  <2>. QED
    BY <2>1, <2>2, <2>3
<1>. DEFINE place == [direct |-> 1, repeat |-> 2, patched |-> 3, delta |-> 4]
<1>14. decodeAll(buf) = [k \in DOMAIN place |-> f[place[k]]]
  BY Zenon DEF decodeAll, f
<1>15. \A k \in Kind : k \in DOMAIN place /\ place[k] \in 1 .. 4 /\ Order[place[k]] = k
  BY DEF Kind, Order
<1>16. \A i \in 1 .. 4 : f[i] = part(i)
  BY <1>11, <1>13
<1>. HIDE DEF place
<1>17. \A k \in Kind : decodeAll(buf)[k] = part(place[k])
  BY <1>14, <1>15, <1>16
<1>18. \A k \in Kind : /\ decodeAll(buf)[k].info = rle[k]
                       /\ decodeAll(buf)[k].issigned = signed
  <2>. SUFFICES ASSUME NEW k \in Kind
                PROVE  decodeAll(buf)[k].info = rle[k] /\ decodeAll(buf)[k].issigned = signed
    OBVIOUS
  <2>1. PICK i \in 1 .. 4 : i = place[k] /\ Order[i] = k
    BY <1>15
  <2>2. decodeAll(buf)[k] = part(i)
    BY <1>17, <2>1, Zenon
  <2>3. part(i).info = rle[Order[i]] /\ part(i).issigned = signed
    BY <1>8, Zenon
  <2>. QED
    BY <2>1, <2>2, <2>3, Zenon
<1>. QED
  BY <1>18, Zenon DEF buf

-----------------------------------------------------------------------------
(***************************************************************************)
(* The profiles of several scanners.                                       *)
(***************************************************************************)
\* A sum with one more number.
LEMMA SumLonger ==
  ASSUME NEW g \in Seq(Nat), NEW f \in Seq(Nat), Len(f) = Len(g) + 1,
         \A i \in 1 .. Len(g) : f[i] = g[i]
  PROVE  Total(f) = Total(g) + f[Len(g) + 1] /\ Total(f) \in Nat /\ Total(g) \in Nat
<1>. DEFINE n == Len(g)
            S == {d \in Nat : d <= n => SumTo(f, d) = SumTo(g, d)}
<1>0. n \in Nat /\ Len(f) = n + 1 /\ n \in 0 .. n /\ n + 1 \in 1 .. n + 1 /\ n + 1 \in 0 .. n + 1
      /\ (n + 1) - 1 = n
  OBVIOUS
<1>1. /\ SumTo(f, 0) = 0 /\ \A k \in 1 .. n + 1 : SumTo(f, k) = SumTo(f, k-1) + f[k]
      /\ SumTo(g, 0) = 0 /\ \A k \in 1 .. n : SumTo(g, k) = SumTo(g, k-1) + g[k]
  BY SumStep
<1>2. SumTo(f, n + 1) \in Nat /\ SumTo(g, n) \in Nat
  BY <1>0, SumType
<1>3. \A i \in 1 .. n : f[i] = g[i]
  OBVIOUS
<1>. HIDE DEF n
<1>4. 0 \in S
  BY <1>1
<1>5. ASSUME NEW d \in Nat, d \in S PROVE d + 1 \in S
  <2>. SUFFICES ASSUME d + 1 <= n PROVE SumTo(f, d + 1) = SumTo(g, d + 1)
    OBVIOUS
  <2>1. d + 1 \in 1 .. n /\ d + 1 \in 1 .. n + 1 /\ (d + 1) - 1 = d /\ d <= n
    BY <1>0
  <2>2. SumTo(f, d + 1) = SumTo(f, d) + f[d + 1] /\ SumTo(g, d + 1) = SumTo(g, d) + g[d + 1]
    BY <1>1, <2>1
  <2>3. SumTo(f, d) = SumTo(g, d)
    BY <1>5, <2>1
  <2>. QED
    BY <1>3, <2>1, <2>2, <2>3
<1>6. n \in S
  <2>. HIDE DEF S
  <2>. QED
    BY <1>0, <1>4, <1>5, SetInduction
<1>7. SumTo(f, n) = SumTo(g, n)
  BY <1>0, <1>6
<1>8. SumTo(f, n + 1) = SumTo(g, n) + f[n + 1]
  BY <1>0, <1>1, <1>7
<1>9. Total(f) = SumTo(f, n + 1) /\ Total(g) = SumTo(g, n)
  BY <1>0, Zenon DEF Total, n
<1>. QED
  BY <1>2, <1>8, <1>9, Zenon DEF n

\* A bag of counts.
IsCounts(bag) == IsArray(bag) /\ \A i \in DOMAIN bag : bag[i] \in Nat \ {0}

LEMMA CountsAdded ==
  ASSUME NEW a, IsCounts(a), NEW b, IsCounts(b)
  PROVE  /\ IsCounts(a (+) b) /\ DOMAIN (a (+) b) = DOMAIN a \cup DOMAIN b
         /\ \A i \in DOMAIN (a (+) b) : (a (+) b)[i] = Count(a, i) + Count(b, i)
<1>. DEFINE c == a (+) b
            v(e) == Count(a, e) + Count(b, e)
<1>1. c = [e \in (DOMAIN a) \cup (DOMAIN b) |-> v(e)]
  BY Zenon DEF (+), Count
<1>2. \A e : v(e) = Count(a, e) + Count(b, e)
  OBVIOUS
<1>. HIDE DEF c, v
<1>3. DOMAIN c = DOMAIN a \cup DOMAIN b /\ \A i \in DOMAIN c : c[i] = v(i)
  BY <1>1
<1>4. c = [e \in DOMAIN c |-> c[e]]
  BY <1>1
<1>5. IsFiniteSet(DOMAIN c) /\ DOMAIN c \subseteq Nat
  <2>1. IsFiniteSet(DOMAIN a \cup DOMAIN b)
    BY FS_Union DEF IsCounts, IsArray
  <2>. QED
    BY <1>3, <2>1 DEF IsCounts, IsArray
<1>6. ASSUME NEW i \in DOMAIN c PROVE c[i] \in Nat \ {0}
  <2>1. i \in DOMAIN a \/ i \in DOMAIN b
    BY <1>3
  <2>2. \A x \in DOMAIN a : a[x] \in Nat \ {0}
    BY DEF IsCounts
  <2>3. \A x \in DOMAIN b : b[x] \in Nat \ {0}
    BY DEF IsCounts
  <2>4. v(i) \in Nat \ {0}
    BY <1>2, <2>1, <2>2, <2>3 DEF Count
  <2>. QED
    BY <1>3, <2>4
<1>7. IsCounts(c)
  BY <1>4, <1>5, <1>6, Zenon DEF IsCounts, IsArray
<1>. QED
  BY <1>2, <1>3, <1>7, Zenon DEF c

LEMMA CountType ==
  ASSUME NEW bag, IsCounts(bag), NEW i
  PROVE  Count(bag, i) \in Nat
BY DEF IsCounts, Count

\* The bags of some profiles, and how often something is in them.
AreCounts(bags, n) == IsSeq(bags) /\ Len(bags) = n /\ \A s \in 1 .. n : IsCounts(bags[s])

CountsOf(bags, i) == [s \in DOMAIN bags |-> Count(bags[s], i)]

LEMMA CountsSeq ==
  ASSUME NEW n \in Nat, NEW bags, AreCounts(bags, n), NEW i
  PROVE  /\ CountsOf(bags, i) \in Seq(Nat) /\ Len(CountsOf(bags, i)) = n
         /\ \A s \in 1 .. n : CountsOf(bags, i)[s] = Count(bags[s], i)
<1>1. DOMAIN bags = 1 .. n
  BY DEF AreCounts, IsSeq
<1>2. \A s \in 1 .. n : Count(bags[s], i) \in Nat
  BY CountType DEF AreCounts
<1>3. CountsOf(bags, i) = [s \in 1 .. n |-> Count(bags[s], i)]
  BY <1>1, Zenon DEF CountsOf
<1>4. \A s \in 1 .. n : CountsOf(bags, i)[s] = Count(bags[s], i)
  BY <1>3
<1>5. CountsOf(bags, i) \in [1 .. n -> Nat]
  BY <1>2, <1>3
<1>. QED
  BY <1>4, <1>5

\* What is in none of the bags is counted 0.
LEMMA CountedTogether ==
  ASSUME NEW n \in Nat, NEW bags, AreCounts(bags, n), NEW bag, Together(bag, bags), NEW i
  PROVE  Count(bag, i) = Total(CountsOf(bags, i))
<1>1. CASE i \in DOMAIN bag
  BY <1>1, Zenon DEF Together, BagToSet, Count, CountsOf
<1>2. CASE i \notin DOMAIN bag
  <2>1. DOMAIN bags = 1 .. n
    BY DEF AreCounts, IsSeq
  <2>2. ASSUME NEW s \in 1 .. n PROVE Count(bags[s], i) = 0
    <3>1. i \notin DOMAIN bags[s]
      <4>1. DOMAIN bag = UNION {DOMAIN bags[t] : t \in DOMAIN bags}
        BY Zenon DEF Together, BagToSet
      <4>. QED
        BY <1>2, <2>1, <4>1
    <3>. QED
      BY <3>1, Zenon DEF Count
  <2>3. /\ CountsOf(bags, i) \in Seq(Nat) /\ DOMAIN CountsOf(bags, i) = 1 .. n
        /\ \A s \in 1 .. n : CountsOf(bags, i)[s] = 0
    <3>1. /\ CountsOf(bags, i) \in Seq(Nat) /\ Len(CountsOf(bags, i)) = n
          /\ \A s \in 1 .. n : CountsOf(bags, i)[s] = Count(bags[s], i)
      BY CountsSeq
    <3>2. DOMAIN CountsOf(bags, i) = 1 .. n
      BY <3>1
    <3>. QED
      BY <2>2, <3>1, <3>2, Zenon
  <2>4. Total(CountsOf(bags, i)) = 0
    BY <2>3, NothingAdded, Zenon DEF Total
  <2>5. Count(bag, i) = 0
    BY <1>2, Zenon DEF Count
  <2>. QED
    BY <2>4, <2>5, Zenon
<1>. QED
  BY <1>1, <1>2

\* One more bag.
LEMMA TogetherMore ==
  ASSUME NEW n \in Nat, NEW bags, AreCounts(bags, n), NEW more, AreCounts(more, n + 1),
         \A s \in 1 .. n : more[s] = bags[s], NEW p, IsCounts(p), Together(p, bags)
  PROVE  Together(p (+) more[n + 1], more)
<1>. DEFINE b == more[n + 1]
            q == p (+) b
<1>1. /\ DOMAIN q = DOMAIN p \cup DOMAIN b
      /\ \A i \in DOMAIN q : q[i] = Count(p, i) + Count(b, i)
  <2>1. IsCounts(b)
    BY DEF AreCounts
  <2>. HIDE DEF b
  <2>. QED
    BY <2>1, CountsAdded
<1>2. DOMAIN q = UNION {DOMAIN more[s] : s \in DOMAIN more}
  <2>1. DOMAIN bags = 1 .. n /\ DOMAIN more = 1 .. n + 1
    BY DEF AreCounts, IsSeq
  <2>2. DOMAIN p = UNION {DOMAIN bags[s] : s \in 1 .. n}
    BY <2>1, Zenon DEF Together, BagToSet
  <2>3. /\ n + 1 \in 1 .. n + 1 /\ \A s \in 1 .. n : s \in 1 .. n + 1
        /\ \A s \in 1 .. n + 1 : s \in 1 .. n \/ s = n + 1
    OBVIOUS
  <2>. HIDE DEF q
  <2>4. ASSUME NEW x
        PROVE  x \in DOMAIN q <=> x \in UNION {DOMAIN more[s] : s \in DOMAIN more}
    <3>1. x \in DOMAIN p <=> \E s \in 1 .. n : x \in DOMAIN bags[s]
      BY <2>2, Zenon
    <3>2. x \in DOMAIN q <=> (\E s \in 1 .. n : x \in DOMAIN bags[s]) \/ x \in DOMAIN b
      BY <1>1, <3>1, Zenon
    <3>3. x \in DOMAIN q <=> \E s \in 1 .. n + 1 : x \in DOMAIN more[s]
      <4>1. ASSUME NEW s \in 1 .. n, x \in DOMAIN bags[s]
            PROVE  \E t \in 1 .. n + 1 : x \in DOMAIN more[t]
        BY <2>3, <4>1, Zenon
      <4>2. x \in DOMAIN b => \E t \in 1 .. n + 1 : x \in DOMAIN more[t]
        BY <2>3, Zenon
      <4>3. ASSUME NEW t \in 1 .. n + 1, x \in DOMAIN more[t]
            PROVE  (\E s \in 1 .. n : x \in DOMAIN bags[s]) \/ x \in DOMAIN b
        <5>1. CASE t \in 1 .. n
          BY <4>3, <5>1, Zenon
        <5>2. CASE t = n + 1
          BY <4>3, <5>2, Zenon
        <5>. QED
          BY <2>3, <5>1, <5>2, Zenon
      <4>. QED
        BY <3>2, <4>1, <4>2, <4>3, Zenon
    <3>. QED
      BY <2>1, <3>3, Zenon
  <2>. QED
    BY <2>4, Zenon
<1>3. ASSUME NEW i \in DOMAIN q PROVE q[i] = Total(CountsOf(more, i))
  <2>1. q[i] = Count(p, i) + Count(b, i)
    BY <1>1
  <2>2. Count(p, i) = Total(CountsOf(bags, i))
    BY CountedTogether
  <2>3. /\ CountsOf(bags, i) \in Seq(Nat) /\ Len(CountsOf(bags, i)) = n
        /\ \A s \in 1 .. n : CountsOf(bags, i)[s] = Count(bags[s], i)
    BY CountsSeq
  <2>4. /\ CountsOf(more, i) \in Seq(Nat) /\ Len(CountsOf(more, i)) = n + 1
        /\ \A s \in 1 .. n + 1 : CountsOf(more, i)[s] = Count(more[s], i)
    BY CountsSeq
  <2>5. \A s \in 1 .. n : CountsOf(more, i)[s] = CountsOf(bags, i)[s]
    <3>1. \A s \in 1 .. n : s \in 1 .. n + 1
      OBVIOUS
    <3>. QED
      BY <2>3, <2>4, <3>1, Zenon
  <2>6. Total(CountsOf(more, i)) = Total(CountsOf(bags, i)) + CountsOf(more, i)[n + 1]
    BY <2>3, <2>4, <2>5, SumLonger
  <2>7. CountsOf(more, i)[n + 1] = Count(b, i)
    BY <2>4
  <2>. HIDE DEF q, b
  <2>. QED
    BY <2>1, <2>2, <2>6, <2>7, Zenon
<1>. HIDE DEF q
<1>4. Together(q, more)
  BY <1>2, <1>3, Zenon DEF Together, BagToSet, CountsOf
<1>. QED
  BY <1>4 DEF q

LEMMA NumbersOfSeq == \A f \in Seq(Nat) : \A k \in 1 .. Len(f) : f[k] \in Nat
OBVIOUS

LEMMA SumOfOne ==
  ASSUME NEW f \in Seq(Nat), Len(f) = 1
  PROVE  Total(f) = f[1]
<1>1. 1 \in 1 .. Len(f) /\ f[1] \in Nat
  <2>1. \A k \in 1 .. Len(f) : f[k] \in Nat
    BY NumbersOfSeq
  <2>2. 1 \in 1 .. 1
    OBVIOUS
  <2>. QED
    BY <2>1, <2>2, Zenon
<1>2. SumTo(f, 0) = 0 /\ SumTo(f, 1) = SumTo(f, 1 - 1) + f[1]
  BY <1>1, SumStep, Zenon
<1>3. SumTo(f, 1) = f[1]
  BY <1>1, <1>2
<1>. QED
  BY <1>3, Zenon DEF Total

\* The first bag.
LEMMA TogetherOne ==
  ASSUME NEW more, AreCounts(more, 1)
  PROVE  Together(more[1], more)
<1>1. DOMAIN more = 1 .. 1 /\ 1 \in 1 .. 1 /\ \A s \in 1 .. 1 : s = 1
  BY DEF AreCounts, IsSeq
<1>2. DOMAIN more[1] = UNION {DOMAIN more[s] : s \in DOMAIN more}
  BY <1>1
<1>3. ASSUME NEW i \in DOMAIN more[1] PROVE more[1][i] = Total(CountsOf(more, i))
  <2>1. /\ CountsOf(more, i) \in Seq(Nat) /\ Len(CountsOf(more, i)) = 1
        /\ \A s \in 1 .. 1 : CountsOf(more, i)[s] = Count(more[s], i)
    <3>1. PICK n \in Nat : n = 1
      OBVIOUS
    <3>2. AreCounts(more, n)
      BY <3>1, Zenon
    <3>3. /\ CountsOf(more, i) \in Seq(Nat) /\ Len(CountsOf(more, i)) = n
          /\ \A s \in 1 .. n : CountsOf(more, i)[s] = Count(more[s], i)
      BY <3>2, CountsSeq
    <3>. QED
      BY <3>1, <3>3, Zenon
  <2>2. PICK f \in Seq(Nat) : f = CountsOf(more, i) /\ Len(f) = 1
    BY <2>1
  <2>3. Total(f) = f[1]
    BY <2>2, SumOfOne, Zenon
  <2>4. f[1] = Count(more[1], i)
    BY <2>1, <2>2, <1>1, Zenon
  <2>. QED
    BY <2>2, <2>3, <2>4, Zenon DEF Count
<1>. QED
  BY <1>2, <1>3, Zenon DEF Together, BagToSet, CountsOf

\* The width of a run is one the profile has a place for.
LEMMA WidthOfRun ==
  ASSUME NEW r, Legal(r, IsSigned)
  PROVE  RunWidth(r) \in Widths
<1>1. Widths = 0 .. 64
  BY DEF Widths, Entries
<1>2. CASE r.kind = "repeat"
  <2>1. RunWidth(r) = BytesFor(Coded(r.value, IsSigned))
    BY <1>2, Zenon DEF RunWidth, Coded
  <2>2. BytesFor(Coded(r.value, IsSigned)) \in 1 .. 8
    BY <1>2, RepeatedBytes
  <2>. QED
    BY <1>1, <2>1, <2>2
<1>3. CASE r.kind # "repeat"
  <2>1. RunWidth(r) = r.width
    BY <1>3, Zenon DEF RunWidth
  <2>2. r.width \in BitWidths \cup {0}
    BY <1>3 DEF Legal
  <2>3. \A w \in BitWidths : w \in 0 .. 64
    BY WidthTypes
  <2>. QED
    BY <1>1, <2>1, <2>2, <2>3
<1>. QED
  BY <1>2, <1>3

\* A bag that counts some runs.
LEMMA CountsOfRuns ==
  ASSUME NEW n \in Nat, NEW runs \in SUBSET (1 .. n), NEW key, NEW bag, IsFcn(bag),
         NEW weight, \A k \in runs : key[k] \in Nat /\ weight[k] \in Nat \ {0},
         Counts(bag, runs, key, weight)
  PROVE  IsCounts(bag)
<1>1. IsFiniteSet(runs)
  <2>1. IsFiniteSet(1 .. n)
    BY FS_Interval
  <2>. QED
    BY <2>1, FS_Subset
<1>2. IsFiniteSet(DOMAIN bag)
  <2>. DEFINE D == {key[k] : k \in runs}
  <2>1. IsFiniteSet(D)
    <3>. DEFINE f == [k \in runs |-> key[k]]
    <3>1. f \in Surjection(runs, D)
      BY DEF Surjection
    <3>. HIDE DEF f, D
    <3>. QED
      BY <1>1, <3>1, FS_Surjection
  <2>2. DOMAIN bag = D
    BY DEF Counts
  <2>. QED
    BY <2>1, <2>2
<1>3. ASSUME NEW i \in DOMAIN bag PROVE i \in Nat /\ bag[i] \in Nat \ {0}
  <2>1. PICK k \in runs : i = key[k]
    BY <1>3 DEF Counts
  <2>2. PICK w \in Nat \ {0} : w = weight[k]
    OBVIOUS
  <2>. DEFINE S == {j \in runs : key[j] = key[k]}
  <2>3. S \subseteq runs /\ S # {}
    BY <2>1
  <2>. HIDE DEF S
  <2>4. Cardinality(S) \in Nat /\ Cardinality(S) # 0
    <3>1. IsFiniteSet(S)
      BY <1>1, <2>3, FS_Subset
    <3>. QED
      BY <2>3, <3>1, FS_CardinalityType, FS_EmptySet
  <2>5. PICK c \in Nat : c = Cardinality(S) /\ c # 0
    BY <2>4
  <2>6. bag[i] = w * c
    BY <2>1, <2>2, <2>5, Zenon DEF S, Counts
  <2>7. w * c \in Nat \ {0}
    BY <2>5
  <2>. QED
    BY <2>1, <2>6, <2>7
<1>. QED
  BY <1>2, <1>3 DEF IsCounts, IsArray, IsFcn

\* A profile as it is merged.
Gathered(p) ==
  /\ Profile(p) /\ p.num \in Nat
  /\ IsCounts(p.bitsize) /\ IsCounts(p.runLength) /\ DOMAIN p.bitsize \subseteq Widths
  /\ p.num # 0 => DOMAIN p.bitsize # {}

LEMMA NothingInside ==
  ASSUME NEW bag, IsCounts(bag), DOMAIN bag = {}
  PROVE  bag = EmptyBag
BY DEF IsCounts, IsArray, EmptyBag, SetToBag

LEMMA GatheredNow ==
  ASSUME StreamInv, Shaped, ProfileMatches, NEW kind \in Kind
  PROVE  Gathered(info[kind])
<1>. DEFINE p == info[kind]
            runs == Recorded(kind)
            n == Len(stream)
<1>1. n \in Nat /\ DOMAIN stream = 1 .. n
  BY StreamFacts
<1>2. runs \subseteq 1 .. n
  BY <1>1 DEF Recorded, Decoded
<1>3. Tells(p, runs, WidthsOf, LengthsOf)
  BY Zenon DEF ProfileMatches, WidthsOf, LengthsOf
<1>4. ASSUME NEW k \in 1 .. n
      PROVE  WidthsOf[k] \in Widths /\ LengthsOf[k] \in Nat \ {0}
  <2>1. Legal(stream[k].run, IsSigned) /\ stream[k] = Written(stream[k].run)
    BY <1>1, Zenon DEF StreamInv
  <2>2. RunWidth(stream[k].run) \in Widths
    BY <2>1, WidthOfRun
  <2>3. stream[k].values = RunValues(stream[k].run)
    <3>1. Written(stream[k].run).values = RunValues(stream[k].run)
      BY DEF Written
    <3>. QED
      BY <2>1, <3>1, Zenon
  <2>4. PICK l \in Nat : l = Len(RunValues(stream[k].run)) /\ l > 0
    BY <2>1, RunFacts
  <2>5. WidthsOf[k] = RunWidth(stream[k].run) /\ LengthsOf[k] = Len(stream[k].values)
    BY <1>1, Zenon DEF WidthsOf, LengthsOf
  <2>6. LengthsOf[k] = l /\ l \in Nat \ {0}
    BY <2>3, <2>4, <2>5
  <2>. QED
    BY <2>2, <2>5, <2>6, Zenon
<1>5. IsFcn(p.bitsize) /\ IsFcn(p.runLength)
  BY Zenon DEF Shaped
<1>6. /\ p.num = Cardinality(runs)
      /\ DOMAIN p.bitsize = {WidthsOf[k] : k \in runs}
      /\ DOMAIN p.runLength = {LengthsOf[k] : k \in runs}
      /\ \A k \in runs :
           p.bitsize[WidthsOf[k]] = Cardinality({j \in runs : WidthsOf[j] = WidthsOf[k]})
      /\ \A k \in runs :
           p.runLength[LengthsOf[k]]
             = LengthsOf[k] * Cardinality({j \in runs : LengthsOf[j] = LengthsOf[k]})
  BY <1>3, Zenon DEF Tells, BagToSet
<1>7. p = [bitsize |-> p.bitsize, runLength |-> p.runLength,
           num |-> p.num, totalRunLength |-> p.totalRunLength]
  BY DEF Shaped
<1>8. IsFiniteSet(runs)
  <2>1. IsFiniteSet(1 .. n)
    BY <1>1, FS_Interval
  <2>. QED
    BY <1>2, <2>1, FS_Subset
<1>. HIDE DEF p, runs, n
<1>9. IsCounts(p.bitsize)
  <2>. DEFINE one == [k \in 1 .. n |-> 1]
  <2>1. \A k \in runs : WidthsOf[k] \in Nat /\ one[k] \in Nat \ {0} /\ one[k] = 1
    <3>1. \A k \in 1 .. n : one[k] \in Nat \ {0} /\ one[k] = 1
      OBVIOUS
    <3>2. \A w \in Widths : w \in Nat
      BY DEF Widths, Entries
    <3>. HIDE DEF one
    <3>. QED
      BY <1>2, <1>4, <3>1, <3>2, Zenon
  <2>. HIDE DEF one
  <2>2. ASSUME NEW k \in runs
        PROVE  p.bitsize[WidthsOf[k]]
                 = one[k] * Cardinality({j \in runs : WidthsOf[j] = WidthsOf[k]})
    <3>. DEFINE S == {j \in runs : WidthsOf[j] = WidthsOf[k]}
    <3>1. S \subseteq runs
      OBVIOUS
    <3>2. p.bitsize[WidthsOf[k]] = Cardinality(S)
      BY <1>6, Zenon
    <3>. HIDE DEF S
    <3>3. Cardinality(S) \in Nat
      BY <1>8, <3>1, FS_Subset, FS_CardinalityType
    <3>4. one[k] * Cardinality(S) = Cardinality(S)
      BY <2>1, <3>3
    <3>. QED
      BY <3>2, <3>4, Zenon DEF S
  <2>3. Counts(p.bitsize, runs, WidthsOf, one)
    BY <1>6, <2>2, Zenon DEF Counts
  <2>. QED
    BY <1>1, <1>2, <1>5, <2>1, <2>3, CountsOfRuns
<1>10. IsCounts(p.runLength)
  <2>1. \A k \in runs : LengthsOf[k] \in Nat \ {0} /\ LengthsOf[k] \in Nat
    BY <1>2, <1>4
  <2>2. Counts(p.runLength, runs, LengthsOf, LengthsOf)
    BY <1>6, Zenon DEF Counts
  <2>. QED
    BY <1>1, <1>2, <1>5, <2>1, <2>2, CountsOfRuns
<1>11. DOMAIN p.bitsize \subseteq Widths
  BY <1>2, <1>4, <1>6
<1>12. p.num \in Nat
  BY <1>6, <1>8, FS_CardinalityType
<1>13. ASSUME p.num = 0 PROVE p.bitsize = EmptyBag /\ p.runLength = EmptyBag
  <2>1. runs = {}
    BY <1>6, <1>8, <1>13, FS_EmptySet
  <2>2. DOMAIN p.bitsize = {} /\ DOMAIN p.runLength = {}
    BY <1>6, <2>1
  <2>. QED
    BY <1>9, <1>10, <2>2, NothingInside
<1>14. ASSUME p.num # 0 PROVE DOMAIN p.bitsize # {}
  <2>1. runs # {}
    BY <1>6, <1>14, FS_EmptySet
  <2>2. PICK k \in runs : TRUE
    BY <2>1
  <2>3. WidthsOf[k] \in {WidthsOf[j] : j \in runs}
    BY <2>2, Zenon
  <2>4. WidthsOf[k] \in DOMAIN p.bitsize
    BY <1>6, <2>3, Zenon
  <2>. QED
    BY <2>4, Zenon
<1>15. Gathered(p)
  <2>1. IsArray(p.bitsize) /\ IsArray(p.runLength)
    BY <1>9, <1>10, Zenon DEF IsCounts
  <2>2. Profile(p)
    BY <1>7, <1>13, <2>1, Zenon DEF Profile
  <2>. QED
    BY <1>9, <1>10, <1>11, <1>12, <1>14, <2>2, Zenon DEF Gathered
<1>. QED
  BY <1>15 DEF p

\* Two profiles merged.
LEMMA MergedRecord ==
  ASSUME NEW a, Profile(a), NEW b
  PROVE  merge(a, b) = [bitsize |-> a.bitsize (+) b.bitsize,
                        runLength |-> a.runLength (+) b.runLength,
                        num |-> a.num + b.num, totalRunLength |-> a.totalRunLength]
<1>1. PICK p, q, r, t :
        /\ a = [bitsize |-> p, runLength |-> q, num |-> r, totalRunLength |-> t]
        /\ p = a.bitsize /\ q = a.runLength /\ r = a.num /\ t = a.totalRunLength
  BY Zenon DEF Profile
<1>2. PICK p1, q1, r1 : p1 = p (+) b.bitsize /\ q1 = q (+) b.runLength /\ r1 = r + b.num
  OBVIOUS
<1>3. merge(a, b) = [a EXCEPT !.num = r1, !.bitsize = p1, !.runLength = q1]
  BY <1>1, <1>2, Zenon DEF merge
<1>4. merge(a, b) = [bitsize |-> p1, runLength |-> q1, num |-> r1, totalRunLength |-> t]
  BY <1>1, <1>3
<1>. QED
  BY <1>1, <1>2, <1>4, Zenon

LEMMA GatheredMerged ==
  ASSUME NEW a, Gathered(a), NEW b, Gathered(b)
  PROVE  /\ Gathered(merge(a, b))
         /\ merge(a, b).num = a.num + b.num
         /\ merge(a, b).bitsize = a.bitsize (+) b.bitsize
         /\ merge(a, b).runLength = a.runLength (+) b.runLength
         /\ merge(a, b).totalRunLength = a.totalRunLength
<1>. DEFINE c == merge(a, b)
<1>1. /\ c = [bitsize |-> c.bitsize, runLength |-> c.runLength,
              num |-> c.num, totalRunLength |-> c.totalRunLength]
      /\ c.num = a.num + b.num
      /\ c.bitsize = a.bitsize (+) b.bitsize /\ c.runLength = a.runLength (+) b.runLength
      /\ c.totalRunLength = a.totalRunLength
  <2>1. PICK p, q, r, t :
          /\ p = a.bitsize (+) b.bitsize /\ q = a.runLength (+) b.runLength
          /\ r = a.num + b.num /\ t = a.totalRunLength
    OBVIOUS
  <2>2. c = [bitsize |-> p, runLength |-> q, num |-> r, totalRunLength |-> t]
    BY <2>1, MergedRecord, Zenon DEF Gathered
  <2>. HIDE DEF c
  <2>3. c.bitsize = p /\ c.runLength = q /\ c.num = r /\ c.totalRunLength = t
    BY <2>2
  <2>. QED
    BY <2>1, <2>2, <2>3, Zenon
<1>. HIDE DEF c
<1>2. /\ a.num \in Nat /\ b.num \in Nat
      /\ IsCounts(a.bitsize) /\ IsCounts(a.runLength) /\ DOMAIN a.bitsize \subseteq Widths
      /\ IsCounts(b.bitsize) /\ IsCounts(b.runLength) /\ DOMAIN b.bitsize \subseteq Widths
  BY Zenon DEF Gathered
<1>3. IsCounts(c.bitsize) /\ DOMAIN c.bitsize = DOMAIN a.bitsize \cup DOMAIN b.bitsize
  <2>1. PICK x, y : x = a.bitsize /\ y = b.bitsize
    OBVIOUS
  <2>2. IsCounts(x) /\ IsCounts(y)
    BY <1>2, <2>1, Zenon
  <2>3. IsCounts(x (+) y) /\ DOMAIN (x (+) y) = DOMAIN x \cup DOMAIN y
    BY <2>2, CountsAdded
  <2>. QED
    BY <1>1, <2>1, <2>3, Zenon
<1>4. IsCounts(c.runLength) /\ DOMAIN c.runLength = DOMAIN a.runLength \cup DOMAIN b.runLength
  <2>1. PICK x, y : x = a.runLength /\ y = b.runLength
    OBVIOUS
  <2>2. IsCounts(x) /\ IsCounts(y)
    BY <1>2, <2>1, Zenon
  <2>3. IsCounts(x (+) y) /\ DOMAIN (x (+) y) = DOMAIN x \cup DOMAIN y
    BY <2>2, CountsAdded
  <2>. QED
    BY <1>1, <2>1, <2>3, Zenon
<1>5. c.num \in Nat /\ (c.num = 0 => a.num = 0 /\ b.num = 0)
  <2>1. PICK x \in Nat, y \in Nat : x = a.num /\ y = b.num
    BY <1>2
  <2>2. c.num = x + y
    BY <1>1, <2>1, Zenon
  <2>. QED
    BY <2>1, <2>2
<1>6. ASSUME c.num = 0 PROVE c.bitsize = EmptyBag /\ c.runLength = EmptyBag
  <2>1. /\ a.bitsize = EmptyBag /\ a.runLength = EmptyBag
        /\ b.bitsize = EmptyBag /\ b.runLength = EmptyBag
    BY <1>5, <1>6, Zenon DEF Gathered, Profile
  <2>2. DOMAIN EmptyBag = {}
    BY DEF EmptyBag, SetToBag
  <2>3. DOMAIN c.bitsize = {} /\ DOMAIN c.runLength = {}
    BY <1>3, <1>4, <2>1, <2>2
  <2>. QED
    BY <1>3, <1>4, <2>3, NothingInside
<1>7. DOMAIN c.bitsize \subseteq Widths
  BY <1>2, <1>3
<1>8. Profile(c)
  BY <1>1, <1>3, <1>4, <1>6, Zenon DEF Profile, IsCounts
<1>9. c.num # 0 => DOMAIN c.bitsize # {}
  <2>1. PICK x \in Nat, y \in Nat : x = a.num /\ y = b.num
    BY <1>2
  <2>2. c.num = x + y
    BY <1>1, <2>1, Zenon
  <2>3. (x # 0 => DOMAIN a.bitsize # {}) /\ (y # 0 => DOMAIN b.bitsize # {})
    BY <2>1, Zenon DEF Gathered
  <2>4. c.num # 0 => x # 0 \/ y # 0
    BY <2>1, <2>2
  <2>. QED
    BY <1>3, <2>3, <2>4
<1>10. Gathered(c)
  BY <1>3, <1>4, <1>5, <1>7, <1>8, <1>9, Zenon DEF Gathered
<1>. QED
  BY <1>1, <1>10, Zenon DEF c

\* One more profile in the list.
LEMMA AppendAny ==
  ASSUME NEW list, IsSeq(list), NEW x
  PROVE  /\ IsSeq(Append(list, x)) /\ Len(list) \in Nat /\ Len(Append(list, x)) = Len(list) + 1
         /\ \A s \in 1 .. Len(list) : Append(list, x)[s] = list[s]
         /\ Append(list, x)[Len(list) + 1] = x
<1>1. PICK D : D = Range(list) \cup {x}
  OBVIOUS
<1>2. list \in Seq(D) /\ x \in D
  BY <1>1, WiderSeq
<1>3. Len(list) \in Nat /\ list = [s \in 1 .. Len(list) |-> list[s]]
  BY <1>2
<1>4. /\ Append(list, x) \in Seq(D) /\ Len(Append(list, x)) = Len(list) + 1
      /\ \A s \in 1 .. Len(list) : Append(list, x)[s] = list[s]
      /\ Append(list, x)[Len(list) + 1] = x
  BY <1>2
<1>5. IsSeq(Append(list, x))
  <2>. DEFINE t == Append(list, x)
  <2>1. t \in Seq(D) /\ Len(t) = Len(list) + 1
    BY <1>4
  <2>. HIDE DEF t
  <2>2. Len(t) \in Nat /\ t = [s \in 1 .. Len(t) |-> t[s]]
    BY <2>1
  <2>3. PICK m \in Nat : m = Len(t)
    BY <2>2
  <2>4. t = [s \in 1 .. m |-> t[s]]
    BY <2>2, <2>3, Zenon
  <2>5. IsSeq(t)
    BY <2>4, FunctionIsSeq
  <2>. QED
    BY <2>5 DEF t
<1>. QED
  BY <1>3, <1>4, <1>5

\* What the profiles of some scanners hold of a kind of run.
NumsOf(list, k) == [s \in DOMAIN list |-> list[s][k].num]
BitsizesOf(list, k) == [s \in DOMAIN list |-> list[s][k].bitsize]
RunLengthsOf(list, k) == [s \in DOMAIN list |-> list[s][k].runLength]

Gathers(list, k) == IsSeq(list) /\ \A s \in DOMAIN list : Gathered(list[s][k])

SumsUp(p, list, k) ==
  /\ p.num = Total(NumsOf(list, k))
  /\ Together(p.bitsize, BitsizesOf(list, k))
  /\ Together(p.runLength, RunLengthsOf(list, k))
  /\ p.totalRunLength = list[1][k].totalRunLength

LEMMA PartsOfProfiles ==
  ASSUME NEW list, NEW k, Gathers(list, k), NEW n \in Nat, Len(list) = n
  PROVE  /\ NumsOf(list, k) \in Seq(Nat) /\ Len(NumsOf(list, k)) = n
         /\ AreCounts(BitsizesOf(list, k), n) /\ AreCounts(RunLengthsOf(list, k), n)
         /\ \A s \in 1 .. n : /\ NumsOf(list, k)[s] = list[s][k].num
                              /\ BitsizesOf(list, k)[s] = list[s][k].bitsize
                              /\ RunLengthsOf(list, k)[s] = list[s][k].runLength
<1>1. DOMAIN list = 1 .. n
  BY DEF Gathers, IsSeq
<1>2. \A s \in 1 .. n : /\ list[s][k].num \in Nat
                        /\ IsCounts(list[s][k].bitsize) /\ IsCounts(list[s][k].runLength)
  BY <1>1, Zenon DEF Gathers, Gathered
<1>3. /\ NumsOf(list, k) = [s \in 1 .. n |-> list[s][k].num]
      /\ BitsizesOf(list, k) = [s \in 1 .. n |-> list[s][k].bitsize]
      /\ RunLengthsOf(list, k) = [s \in 1 .. n |-> list[s][k].runLength]
  BY <1>1, Zenon DEF NumsOf, BitsizesOf, RunLengthsOf
<1>4. \A s \in 1 .. n : /\ NumsOf(list, k)[s] = list[s][k].num
                        /\ BitsizesOf(list, k)[s] = list[s][k].bitsize
                        /\ RunLengthsOf(list, k)[s] = list[s][k].runLength
  BY <1>3, Zenon
<1>5. NumsOf(list, k) \in Seq(Nat) /\ Len(NumsOf(list, k)) = n
  <2>1. NumsOf(list, k) \in [1 .. n -> Nat]
    BY <1>2, <1>3, Zenon
  <2>. QED
    BY <2>1
<1>6. /\ IsSeq(BitsizesOf(list, k)) /\ Len(BitsizesOf(list, k)) = n
      /\ IsSeq(RunLengthsOf(list, k)) /\ Len(RunLengthsOf(list, k)) = n
  <2>1. BitsizesOf(list, k) = [s \in 1 .. n |-> BitsizesOf(list, k)[s]]
    BY <1>3
  <2>2. RunLengthsOf(list, k) = [s \in 1 .. n |-> RunLengthsOf(list, k)[s]]
    BY <1>3
  <2>. QED
    BY <2>1, <2>2, FunctionIsSeq
<1>7. AreCounts(BitsizesOf(list, k), n) /\ AreCounts(RunLengthsOf(list, k), n)
  BY <1>2, <1>4, <1>6, Zenon DEF AreCounts
<1>. QED
  BY <1>4, <1>5, <1>7, Zenon

LEMMA SumsUpMore ==
  ASSUME NEW list, NEW k, Gathers(list, k), list # <<>>, NEW p, Gathered(p), SumsUp(p, list, k),
         NEW x, Gathered(x[k])
  PROVE  /\ Gathers(Append(list, x), k) /\ Gathered(merge(p, x[k]))
         /\ SumsUp(merge(p, x[k]), Append(list, x), k)
<1>. DEFINE more == Append(list, x)
            q == merge(p, x[k])
<1>1. PICK n \in Nat : n = Len(list) /\ DOMAIN list = 1 .. n /\ n # 0
  BY DEF Gathers, IsSeq
<1>2. /\ IsSeq(more) /\ Len(more) = n + 1 /\ DOMAIN more = 1 .. n + 1
      /\ \A s \in 1 .. n : more[s] = list[s]
      /\ more[n + 1] = x
  <2>1. /\ IsSeq(more) /\ Len(more) = n + 1
        /\ \A s \in 1 .. n : more[s] = list[s]
        /\ more[n + 1] = x
    BY <1>1, AppendAny DEF Gathers
  <2>2. DOMAIN more = 1 .. n + 1
    <3>. HIDE DEF more
    <3>. QED
      BY <2>1 DEF IsSeq
  <2>. QED
    BY <2>1, <2>2, Zenon
<1>3. Gathers(more, k)
  <2>1. ASSUME NEW s \in 1 .. n + 1 PROVE Gathered(more[s][k])
    <3>1. s \in 1 .. n \/ s = n + 1
      OBVIOUS
    <3>2. CASE s \in 1 .. n
      BY <1>1, <1>2, <3>2, Zenon DEF Gathers
    <3>3. CASE s = n + 1
      BY <1>2, <3>3, Zenon
    <3>. QED
      BY <3>1, <3>2, <3>3
  <2>. HIDE DEF more
  <2>. QED
    BY <1>2, <2>1, Zenon DEF Gathers
<1>4. /\ Gathered(q) /\ q.num = p.num + x[k].num
      /\ q.bitsize = p.bitsize (+) x[k].bitsize
      /\ q.runLength = p.runLength (+) x[k].runLength
      /\ q.totalRunLength = p.totalRunLength
  BY GatheredMerged
<1>. HIDE DEF more, q
<1>5. /\ NumsOf(list, k) \in Seq(Nat) /\ Len(NumsOf(list, k)) = n
      /\ AreCounts(BitsizesOf(list, k), n) /\ AreCounts(RunLengthsOf(list, k), n)
      /\ \A s \in 1 .. n : /\ NumsOf(list, k)[s] = list[s][k].num
                           /\ BitsizesOf(list, k)[s] = list[s][k].bitsize
                           /\ RunLengthsOf(list, k)[s] = list[s][k].runLength
  BY <1>1, PartsOfProfiles
<1>6. /\ NumsOf(more, k) \in Seq(Nat) /\ Len(NumsOf(more, k)) = n + 1
      /\ AreCounts(BitsizesOf(more, k), n + 1) /\ AreCounts(RunLengthsOf(more, k), n + 1)
      /\ \A s \in 1 .. n + 1 : /\ NumsOf(more, k)[s] = more[s][k].num
                               /\ BitsizesOf(more, k)[s] = more[s][k].bitsize
                               /\ RunLengthsOf(more, k)[s] = more[s][k].runLength
  <2>1. PICK m \in Nat : m = n + 1
    OBVIOUS
  <2>2. /\ NumsOf(more, k) \in Seq(Nat) /\ Len(NumsOf(more, k)) = m
        /\ AreCounts(BitsizesOf(more, k), m) /\ AreCounts(RunLengthsOf(more, k), m)
        /\ \A s \in 1 .. m : /\ NumsOf(more, k)[s] = more[s][k].num
                             /\ BitsizesOf(more, k)[s] = more[s][k].bitsize
                             /\ RunLengthsOf(more, k)[s] = more[s][k].runLength
    BY <1>2, <1>3, <2>1, PartsOfProfiles
  <2>. QED
    BY <2>1, <2>2, Zenon
<1>7. /\ n + 1 \in 1 .. n + 1 /\ \A s \in 1 .. n : s \in 1 .. n + 1
      /\ 1 \in 1 .. n
  BY <1>1
<1>8. /\ \A s \in 1 .. n : /\ NumsOf(more, k)[s] = NumsOf(list, k)[s]
                           /\ BitsizesOf(more, k)[s] = BitsizesOf(list, k)[s]
                           /\ RunLengthsOf(more, k)[s] = RunLengthsOf(list, k)[s]
      /\ NumsOf(more, k)[n + 1] = x[k].num
      /\ BitsizesOf(more, k)[n + 1] = x[k].bitsize
      /\ RunLengthsOf(more, k)[n + 1] = x[k].runLength
  <2>1. ASSUME NEW s \in 1 .. n
        PROVE  /\ NumsOf(more, k)[s] = NumsOf(list, k)[s]
               /\ BitsizesOf(more, k)[s] = BitsizesOf(list, k)[s]
               /\ RunLengthsOf(more, k)[s] = RunLengthsOf(list, k)[s]
    <3>1. more[s] = list[s] /\ s \in 1 .. n + 1
      BY <1>2, <1>7, Zenon
    <3>2. /\ NumsOf(more, k)[s] = more[s][k].num
          /\ BitsizesOf(more, k)[s] = more[s][k].bitsize
          /\ RunLengthsOf(more, k)[s] = more[s][k].runLength
      BY <1>6, <3>1, Zenon
    <3>3. /\ NumsOf(list, k)[s] = list[s][k].num
          /\ BitsizesOf(list, k)[s] = list[s][k].bitsize
          /\ RunLengthsOf(list, k)[s] = list[s][k].runLength
      BY <1>5, Zenon
    <3>. QED
      BY <3>1, <3>2, <3>3, Zenon
  <2>2. /\ NumsOf(more, k)[n + 1] = x[k].num
        /\ BitsizesOf(more, k)[n + 1] = x[k].bitsize
        /\ RunLengthsOf(more, k)[n + 1] = x[k].runLength
    BY <1>2, <1>6, <1>7, Zenon
  <2>. QED
    BY <2>1, <2>2, Zenon
<1>9. q.num = Total(NumsOf(more, k))
  <2>1. Total(NumsOf(more, k)) = Total(NumsOf(list, k)) + NumsOf(more, k)[n + 1]
    BY <1>5, <1>6, <1>8, SumLonger
  <2>. QED
    BY <1>4, <1>8, <2>1, Zenon DEF SumsUp
<1>10. Together(q.bitsize, BitsizesOf(more, k))
  <2>1. PICK bags, all, bag :
          bags = BitsizesOf(list, k) /\ all = BitsizesOf(more, k) /\ bag = p.bitsize
    OBVIOUS
  <2>2. /\ AreCounts(bags, n) /\ AreCounts(all, n + 1) /\ \A s \in 1 .. n : all[s] = bags[s]
        /\ IsCounts(bag) /\ Together(bag, bags)
    BY <1>5, <1>6, <1>8, <2>1, Zenon DEF SumsUp, Gathered
  <2>3. Together(bag (+) all[n + 1], all)
    BY <2>2, TogetherMore
  <2>. QED
    BY <1>4, <1>8, <2>1, <2>3, Zenon
<1>11. Together(q.runLength, RunLengthsOf(more, k))
  <2>1. PICK bags, all, bag :
          bags = RunLengthsOf(list, k) /\ all = RunLengthsOf(more, k) /\ bag = p.runLength
    OBVIOUS
  <2>2. /\ AreCounts(bags, n) /\ AreCounts(all, n + 1) /\ \A s \in 1 .. n : all[s] = bags[s]
        /\ IsCounts(bag) /\ Together(bag, bags)
    BY <1>5, <1>6, <1>8, <2>1, Zenon DEF SumsUp, Gathered
  <2>3. Together(bag (+) all[n + 1], all)
    BY <2>2, TogetherMore
  <2>. QED
    BY <1>4, <1>8, <2>1, <2>3, Zenon
<1>12. q.totalRunLength = more[1][k].totalRunLength
  BY <1>2, <1>4, <1>7, Zenon DEF SumsUp
<1>13. SumsUp(q, more, k)
  BY <1>9, <1>10, <1>11, <1>12, Zenon DEF SumsUp
<1>. QED
  BY <1>3, <1>4, <1>13, Zenon DEF more, q

LEMMA SumsUpOne ==
  ASSUME NEW list, NEW k, Gathers(list, k)
  PROVE  Len(list) = 1 => SumsUp(list[1][k], list, k)
<1>1. PICK n \in Nat : n = Len(list)
  BY DEF Gathers, IsSeq
<1>2. /\ NumsOf(list, k) \in Seq(Nat) /\ Len(NumsOf(list, k)) = n
      /\ AreCounts(BitsizesOf(list, k), n) /\ AreCounts(RunLengthsOf(list, k), n)
      /\ \A s \in 1 .. n : /\ NumsOf(list, k)[s] = list[s][k].num
                           /\ BitsizesOf(list, k)[s] = list[s][k].bitsize
                           /\ RunLengthsOf(list, k)[s] = list[s][k].runLength
  BY <1>1, PartsOfProfiles
<1>3. ASSUME n = 1 PROVE SumsUp(list[1][k], list, k)
  <2>1. 1 \in 1 .. 1
    OBVIOUS
  <2>2. /\ NumsOf(list, k)[1] = list[1][k].num
        /\ BitsizesOf(list, k)[1] = list[1][k].bitsize
        /\ RunLengthsOf(list, k)[1] = list[1][k].runLength
    BY <1>2, <1>3, <2>1, Zenon
  <2>3. Total(NumsOf(list, k)) = NumsOf(list, k)[1]
    BY <1>2, <1>3, SumOfOne, Zenon
  <2>4. Together(BitsizesOf(list, k)[1], BitsizesOf(list, k))
    BY <1>2, <1>3, TogetherOne, Zenon
  <2>5. Together(RunLengthsOf(list, k)[1], RunLengthsOf(list, k))
    BY <1>2, <1>3, TogetherOne, Zenon
  <2>. QED
    BY <2>2, <2>3, <2>4, <2>5, Zenon DEF SumsUp
<1>. QED
  BY <1>1, <1>3, Zenon

\* While profiles are merged, the global one is what they are together; the
\* decoder is specialised on it as it is read back.
MergeInv ==
  /\ IsSeq(merged) /\ \A k \in Kind : Gathers(merged, k)
  /\ merged = <<>> => global = None
  /\ merged # <<>> => /\ global # None
                      /\ \A k \in Kind : Gathered(global[k]) /\ SumsUp(global[k], merged, k)
  /\ phase # "scan" => merged # <<>>
  /\ decoder # None => /\ phase = "generated" /\ merged # <<>>
                       /\ decoder = genfunc_rle(decodeAll(encodeAll(global, IsSigned)))

LEMMA MergeStarts == GenInit => MergeInv
<1>. SUFFICES ASSUME GenInit PROVE MergeInv
  OBVIOUS
<1>1. merged = <<>> /\ global = None /\ decoder = None /\ phase = "scan"
  BY DEF GenInit
<1>2. IsSeq(<<>>) /\ DOMAIN <<>> = {}
  BY DEF IsSeq
<1>. QED
  BY <1>1, <1>2 DEF MergeInv, Gathers

LEMMA MergeOfMerge ==
  ASSUME ProfileInv, MergeInv, MergeProfile
  PROVE  MergeInv'
<1>1. /\ phase = "scan" /\ phase' = "merged" /\ merged' = Append(merged, info)
      /\ global' = IF global = None THEN info ELSE [k \in Kind |-> merge(global[k], info[k])]
      /\ UNCHANGED decoder
  BY DEF MergeProfile
<1>2. \A k \in Kind : Gathered(info[k])
  <2>1. StreamInv /\ Shaped /\ ProfileMatches
    BY <1>1 DEF ProfileInv, GenInv, InterpreterProfiles, Interpreted
  <2>. QED
    BY <2>1, GatheredNow
<1>3. /\ IsSeq(merged') /\ Len(merged) \in Nat /\ Len(merged') = Len(merged) + 1
      /\ merged'[Len(merged) + 1] = info
  BY <1>1, AppendAny DEF MergeInv
<1>4. merged' # <<>>
  BY <1>3
<1>5. decoder' = None
  BY <1>1 DEF MergeInv
<1>6. CASE merged = <<>>
  <2>1. global' = info /\ Len(merged) = 0
    BY <1>1, <1>6 DEF MergeInv
  <2>2. Len(merged') = 1 /\ merged'[1] = info /\ DOMAIN merged' = 1 .. 1
    <3>1. Len(merged') = 1 /\ merged'[1] = info
      BY <1>3, <2>1
    <3>2. DOMAIN merged' = 1 .. Len(merged')
      BY <1>3 DEF IsSeq
    <3>. QED
      BY <3>1, <3>2, Zenon
  <2>3. \A k \in Kind : Gathers(merged', k)
    <3>1. \A s \in 1 .. 1 : s = 1
      OBVIOUS
    <3>. QED
      BY <1>2, <1>3, <2>2, <3>1, Zenon DEF Gathers
  <2>4. \A k \in Kind : SumsUp(info[k], merged', k)
    BY <2>2, <2>3, SumsUpOne, Zenon
  <2>5. info # None
    <3>1. DOMAIN info = Kind
      BY DEF ProfileInv, Shaped
    <3>2. "repeat" \in Kind /\ DOMAIN None = {}
      BY DEF Kind, None
    <3>. QED
      BY <3>1, <3>2
  <2>. QED
    BY <1>1, <1>2, <1>3, <1>4, <1>5, <2>1, <2>3, <2>4, <2>5, Zenon DEF MergeInv
<1>7. CASE merged # <<>>
  <2>1. global' = [k \in Kind |-> merge(global[k], info[k])]
    BY <1>1, <1>7 DEF MergeInv
  <2>2. ASSUME NEW k \in Kind
        PROVE  /\ Gathers(merged', k) /\ Gathered(global'[k]) /\ SumsUp(global'[k], merged', k)
    <3>1. global'[k] = merge(global[k], info[k])
      BY <2>1
    <3>2. Gathers(merged, k) /\ Gathered(global[k]) /\ SumsUp(global[k], merged, k)
      BY <1>7, Zenon DEF MergeInv
    <3>3. Gathered(info[k])
      BY <1>2
    <3>4. /\ Gathers(Append(merged, info), k) /\ Gathered(merge(global[k], info[k]))
          /\ SumsUp(merge(global[k], info[k]), Append(merged, info), k)
      BY <1>7, <3>2, <3>3, SumsUpMore, Zenon
    <3>. QED
      BY <1>1, <3>1, <3>4, Zenon
  <2>3. global' # None
    <3>1. DOMAIN global' = Kind
      BY <2>1
    <3>2. "repeat" \in Kind /\ DOMAIN None = {}
      BY DEF Kind, None
    <3>. QED
      BY <3>1, <3>2
  <2>. QED
    BY <1>1, <1>3, <1>4, <1>5, <2>2, <2>3, Zenon DEF MergeInv
<1>. QED
  BY <1>6, <1>7

LEMMA MergeOfGenerate ==
  ASSUME MergeInv, Generate
  PROVE  MergeInv'
<1>1. /\ phase = "merged" /\ phase' = "generated" /\ UNCHANGED <<global, merged, type>>
      /\ decoder' = genfunc_rle(decodeAll(encodeAll(global, IsSigned)))
  BY DEF Generate
<1>2. merged # <<>>
  BY <1>1 DEF MergeInv
<1>3. UNCHANGED <<global, merged>> /\ IsSigned' = IsSigned
  BY <1>1 DEF IsSigned
<1>. QED
  BY <1>1, <1>2, <1>3, Zenon DEF MergeInv

LEMMA MergeOfRest ==
  ASSUME MergeInv,
         \/ Interpret \/ AnotherScanner \/ genfunc_nextRepeat \/ genfunc_nextDirect
         \/ genfunc_nextPatched \/ genfunc_nextDelta \/ NoCase \/ GenEnded \/ UNCHANGED allVars
  PROVE  MergeInv'
<1>1. /\ UNCHANGED <<type, global, merged, decoder>>
      /\ phase' = phase \/ phase = "merged"
      /\ phase' # "scan" => phase # "scan"
  <2>1. CASE Interpret
    <3>1. UNCHANGED genVars
      BY <2>1, Zenon DEF Interpret
    <3>2. UNCHANGED type
      BY <2>1, Zenon DEF Interpret, nextShortRepeats, nextDirect, nextPatched, nextDelta
    <3>. QED
      BY <3>1, <3>2 DEF genVars
  <2>2. CASE AnotherScanner
    BY <2>2, Zenon DEF AnotherScanner
  <2>3. CASE genfunc_nextRepeat \/ genfunc_nextDirect \/ genfunc_nextPatched
               \/ genfunc_nextDelta
    BY <2>3, Zenon DEF genfunc_nextRepeat, genfunc_nextDirect, genfunc_nextPatched,
       genfunc_nextDelta, Return
  <2>4. CASE NoCase \/ GenEnded \/ UNCHANGED allVars
    BY <2>4 DEF NoCase, GenEnded, allVars, genVars, vars
  <2>. QED
    BY <2>1, <2>2, <2>3, <2>4
<1>2. IsSigned' = IsSigned
  BY <1>1 DEF IsSigned
<1>3. decoder # None => phase' = "generated"
  BY <1>1 DEF MergeInv
<1>. QED
  BY <1>1, <1>2, <1>3, Zenon DEF MergeInv

LEMMA StepKeepsMergeInv == ProfileInv /\ MergeInv /\ [GenNext]_allVars => MergeInv'
<1>. SUFFICES ASSUME ProfileInv, MergeInv, [GenNext]_allVars PROVE MergeInv'
  OBVIOUS
<1>1. CASE MergeProfile
  BY <1>1, MergeOfMerge
<1>2. CASE Generate
  BY <1>2, MergeOfGenerate
<1>3. CASE \/ Interpret \/ AnotherScanner \/ genfunc_nextRepeat \/ genfunc_nextDirect
           \/ genfunc_nextPatched \/ genfunc_nextDelta \/ NoCase \/ GenEnded
           \/ UNCHANGED allVars
  BY <1>3, MergeOfRest
<1>. QED
  BY <1>1, <1>2, <1>3, Zenon DEF GenNext

LEMMA MergedSurvives == ProfileInv /\ MergeInv => ProfileSurvives
<1>. SUFFICES ASSUME ProfileInv, MergeInv, decoder # None, NEW k \in Kind
              PROVE  LET met == decoder.profile[k]
                     IN /\ met.num = Total([s \in DOMAIN merged |-> merged[s][k].num])
                        /\ Together(met.bitsize, [s \in DOMAIN merged |-> merged[s][k].bitsize])
                        /\ Together(met.runLength,
                                    [s \in DOMAIN merged |-> merged[s][k].runLength])
                        /\ met.totalRunLength = merged[1][k].totalRunLength
                        /\ decoder.signed[k] = IsSigned
                        /\ WidthsMet(k) # {} =>
                             IF Cardinality(WidthsMet(k)) = 1
                               THEN decoder.fixed[k] \in WidthsMet(k)
                               ELSE decoder.fixed[k] = -1
  BY Zenon DEF ProfileSurvives
<1>. DEFINE read == decodeAll(encodeAll(global, IsSigned))
            p == global[k]
<1>1. /\ decoder = genfunc_rle(read)
      /\ \A j \in Kind : Gathered(global[j]) /\ SumsUp(global[j], merged, j)
  BY Zenon DEF MergeInv
<1>2. IsSigned \in BOOLEAN
  BY Rle2Assumption DEF ProfileInv, GenInv, StreamInv, IsSigned
<1>3. read[k].info = p /\ read[k].issigned = IsSigned
  <2>1. \A j \in Kind : Profile(global[j])
    BY <1>1, Zenon DEF Gathered
  <2>. QED
    BY <1>2, <2>1, AllRead
<1>4. /\ decoder.profile[k] = read[k].info /\ decoder.signed[k] = read[k].issigned
      /\ decoder.fixed[k] = getFixedBitSize(read[k].info)
  <2>. HIDE DEF read
  <2>. QED
    BY <1>1 DEF genfunc_rle
<1>5. /\ decoder.profile[k] = p /\ decoder.signed[k] = IsSigned
      /\ decoder.fixed[k] = getFixedBitSize(p)
  BY <1>3, <1>4, Zenon
<1>. HIDE DEF p, read
<1>6. Gathered(p) /\ SumsUp(p, merged, k)
  BY <1>1, Zenon DEF p
<1>7. /\ p.num = Total([s \in DOMAIN merged |-> merged[s][k].num])
      /\ Together(p.bitsize, [s \in DOMAIN merged |-> merged[s][k].bitsize])
      /\ Together(p.runLength, [s \in DOMAIN merged |-> merged[s][k].runLength])
      /\ p.totalRunLength = merged[1][k].totalRunLength
  BY <1>6, Zenon DEF SumsUp, NumsOf, BitsizesOf, RunLengthsOf
<1>8. DOMAIN p.bitsize = WidthsMet(k)
  BY <1>7 DEF Together, BagToSet, WidthsMet
<1>9. ASSUME WidthsMet(k) # {}
      PROVE  IF Cardinality(WidthsMet(k)) = 1
               THEN decoder.fixed[k] \in WidthsMet(k) ELSE decoder.fixed[k] = -1
  <2>. DEFINE D == WidthsMet(k)
  <2>1. D \in SUBSET Widths /\ IsFiniteSet(D)
    BY <1>6, <1>8, Zenon DEF Gathered, IsCounts, IsArray
  <2>2. Counted(p.bitsize) /\ \A i \in Widths : Count(p.bitsize, i) > 0 <=> i \in D
    <3>1. DOMAIN p.bitsize = D /\ \A i \in DOMAIN p.bitsize : p.bitsize[i] \in Nat \ {0}
      BY <1>6, <1>8, Zenon DEF Gathered, IsCounts
    <3>. HIDE DEF D
    <3>. QED
      BY <3>1 DEF Counted, Count
  <2>. HIDE DEF D
  <2>3. D # {}
    BY <1>9 DEF D
  <2>4. IF \E w : D = {w} THEN D = {getFixedBitSize(p)} ELSE getFixedBitSize(p) = -1
    BY <2>1, <2>2, <2>3, FixedWidth
  <2>5. Cardinality(D) = 1 <=> \E w : D = {w}
    BY <2>1, FS_Singleton
  <2>. QED
    BY <1>5, <2>4, <2>5, Zenon DEF D
<1>. QED
  BY <1>5, <1>7, <1>9, Zenon

\* What is specialised on is what all the scanners met together: adding the
\* profiles up (EncodingInfo::merge), writing them to the buffer and reading
\* them back (encodeTo and decodeFrom, ORCColumnInfo.h) and looking for the one
\* width of a kind (getFixedBitSize) lose nothing, however many scanners there
\* are and whatever widths and lengths they met.
THEOREM ProfilesSurvive == GenSpec => []ProfileSurvives
<1>1. ProfileInv /\ MergeInv /\ [GenNext]_allVars => ProfileInv' /\ MergeInv'
  BY StepKeepsProfileInv, StepKeepsMergeInv
<1>. QED
  BY <1>1, ProfileStarts, MergeStarts, MergedSurvives, PTL DEF GenSpec
-----------------------------------------------------------------------------
(***************************************************************************)
(* The generated decoder.                                                  *)
(***************************************************************************)
\* It has a case for each kind that was met, specialised on its width if all
\* runs of the kind had one.
LEMMA CasesMet ==
  ASSUME ProfileInv, MergeInv, decoder # None
  PROVE  /\ decoder.cases \subseteq Kind
         /\ \A k \in Kind : k \in decoder.cases <=> WidthsMet(k) # {}
<1>. DEFINE read == decodeAll(encodeAll(global, IsSigned))
<1>1. /\ decoder = genfunc_rle(read)
      /\ \A j \in Kind : Gathered(global[j]) /\ SumsUp(global[j], merged, j)
  BY Zenon DEF MergeInv
<1>2. IsSigned \in BOOLEAN
  BY Rle2Assumption DEF ProfileInv, GenInv, StreamInv, IsSigned
<1>3. \A k \in Kind : read[k].info = global[k]
  <2>1. \A j \in Kind : Profile(global[j])
    BY <1>1, Zenon DEF Gathered
  <2>. QED
    BY <1>2, <2>1, AllRead
<1>. HIDE DEF read
<1>4. decoder.cases = {k \in Kind : read[k].info.num > 0}
  BY <1>1 DEF genfunc_rle
<1>5. ASSUME NEW k \in Kind PROVE k \in decoder.cases <=> WidthsMet(k) # {}
  <2>1. PICK p : p = global[k]
    OBVIOUS
  <2>2. Gathered(p) /\ SumsUp(p, merged, k) /\ read[k].info = p
    BY <1>1, <1>3, <2>1, Zenon
  <2>3. k \in decoder.cases <=> p.num > 0
    BY <1>4, <2>2
  <2>4. DOMAIN p.bitsize = WidthsMet(k)
    BY <2>2 DEF SumsUp, BitsizesOf, Together, BagToSet, WidthsMet
  <2>5. /\ p.num \in Nat /\ (p.num # 0 => DOMAIN p.bitsize # {})
        /\ (p.num = 0 => p.bitsize = EmptyBag)
    BY <2>2, Zenon DEF Gathered, Profile
  <2>6. DOMAIN EmptyBag = {}
    BY DEF EmptyBag, SetToBag
  <2>7. PICK x \in Nat : x = p.num
    BY <2>5
  <2>8. x > 0 <=> DOMAIN p.bitsize # {}
    <3>1. x = 0 => DOMAIN p.bitsize = {}
      BY <2>5, <2>6, <2>7, Zenon
    <3>2. x # 0 => DOMAIN p.bitsize # {}
      BY <2>5, <2>7, Zenon
    <3>. QED
      BY <3>1, <3>2
  <2>. QED
    BY <2>3, <2>4, <2>7, <2>8
<1>. QED
  BY <1>4, <1>5

FixedFor(kind, w) == decoder.fixed[kind] = IF WidthsMet(kind) = {w} THEN w ELSE -1

LEMMA FixedMet ==
  ASSUME ProfileInv, MergeInv, decoder # None, NEW k \in Kind, NEW w \in WidthsMet(k)
  PROVE  FixedFor(k, w)
<1>. DEFINE D == WidthsMet(k)
<1>1. IF Cardinality(D) = 1 THEN decoder.fixed[k] \in D ELSE decoder.fixed[k] = -1
  <2>1. ProfileSurvives
    BY MergedSurvives
  <2>2. D # {}
    OBVIOUS
  <2>. QED
    BY <2>1, <2>2, Zenon DEF ProfileSurvives
<1>2. IsFiniteSet(D)
  <2>1. Gathered(global[k]) /\ SumsUp(global[k], merged, k)
    BY Zenon DEF MergeInv
  <2>2. DOMAIN global[k].bitsize = D /\ DOMAIN global[k].bitsize \subseteq Widths
    BY <2>1 DEF SumsUp, BitsizesOf, Together, BagToSet, WidthsMet, Gathered
  <2>3. IsFiniteSet(Widths)
    <3>1. PICK a \in Int, b \in Int : a = 0 /\ b = Entries - 1
      BY SizeIsNat
    <3>2. Widths = a .. b
      BY <3>1, Zenon DEF Widths
    <3>3. IsFiniteSet(a .. b)
      BY FS_Interval, Zenon
    <3>. QED
      BY <3>2, <3>3, Zenon
  <2>4. D \subseteq Widths
    BY <2>2, Zenon
  <2>. QED
    BY <2>3, <2>4, FS_Subset, Zenon
<1>3. Cardinality(D) = 1 <=> \E v : D = {v}
  <2>. HIDE DEF D
  <2>. QED
    BY <1>2, FS_Singleton
<1>. QED
  BY <1>1, <1>3 DEF FixedFor

\* The widths were met, so that the case takes the bytes of the values, but for
\* one common width that does not fill whole bytes.
Short(kind, n, width) ==
  n > 0 /\ WidthsMet(kind) = {width} /\ width > 8 /\ width % 8 # 0

LEMMA PackedFamiliar ==
  ASSUME NEW kind, NEW n \in Nat, NEW width \in 0 .. 64, FixedFor(kind, width)
  PROVE  /\ PackedLength(kind, n, width) \in Nat
         /\ PackedLength(kind, n, width) <= CeilDiv(n * width, 8)
         /\ PackedLength(kind, n, width) = CeilDiv(n * width, 8) <=> ~Short(kind, n, width)
<1>1. CASE Folded(kind)
  <2>1. WidthsMet(kind) = {width} /\ decoder.fixed[kind] = width /\ width >= 8
    BY <1>1 DEF FixedFor, Folded
  <2>2. PICK q \in Nat, m \in 0 .. 7 : width = 8 * q + m
    <3>1. width = 8 * (width \div 8) + (width % 8) /\ width \div 8 \in Nat /\ width % 8 \in 0 .. 7
      OBVIOUS
    <3>. QED
      BY <3>1
  <2>3. width \div 8 = q /\ width % 8 = m
    BY <2>2
  <2>4. PICK p \in Nat, t \in Nat : p = n * q /\ t = n * m
    BY Product
  <2>5. n * width = 8 * p + t
    BY <2>2, <2>4
  <2>6. PackedLength(kind, n, width) = p
    BY <1>1, <2>1, <2>3, <2>4, Zenon DEF PackedLength, FoldedBytes
  <2>7. CeilDiv(n * width, 8) = p + ((t + 7) \div 8)
    BY <2>5 DEF CeilDiv
  <2>8. t = 0 <=> n = 0 \/ m = 0
    BY <2>4
  <2>9. Short(kind, n, width) <=> n > 0 /\ m # 0
    <3>1. m # 0 => width > 8
      BY <2>1, <2>2
    <3>. QED
      BY <2>1, <2>3, <3>1 DEF Short
  <2>10. (t + 7) \div 8 \in Nat /\ ((t + 7) \div 8 = 0 <=> t = 0)
    OBVIOUS
  <2>11. PICK z \in Nat : z = (t + 7) \div 8
    BY <2>10
  <2>12. CeilDiv(n * width, 8) = p + z /\ (z = 0 <=> ~Short(kind, n, width))
    <3>1. n > 0 <=> n # 0
      OBVIOUS
    <3>. QED
      BY <2>7, <2>8, <2>9, <2>10, <2>11, <3>1, Zenon
  <2>13. p \in Nat /\ p <= p + z /\ (p = p + z <=> z = 0)
    BY <2>11
  <2>. QED
    BY <2>6, <2>12, <2>13, Zenon
<1>2. CASE ~Folded(kind)
  <2>1. PackedLength(kind, n, width) = CeilDiv(n * width, 8)
    BY <1>2, Zenon DEF PackedLength
  <2>2. PICK c \in Nat : c = CeilDiv(n * width, 8)
    <3>1. width \in Nat
      OBVIOUS
    <3>. QED
      BY <3>1, Product, CeilType, Zenon
  <2>3. ~Short(kind, n, width)
    BY <1>2 DEF Folded, FixedFor, Short
  <2>. QED
    BY <2>1, <2>2, <2>3
<1>. QED
  BY <1>1, <1>2
LEMMA CutShortMeans ==
  ASSUME NEW r, Familiar(r)
  PROVE  CutShort(r) <=> Short(r.kind, PackedValues(r), RunWidth(r))
<1>. DEFINE D == WidthsMet(r.kind)
            w == RunWidth(r)
<1>1. w \in D
  BY DEF Familiar
<1>2. CutShort(r) <=> PackedValues(r) > 0 /\ \E v \in D : D = {v} /\ v > 8 /\ v % 8 # 0
  BY Zenon DEF CutShort
<1>3. Short(r.kind, PackedValues(r), w) <=> PackedValues(r) > 0 /\ D = {w} /\ w > 8 /\ w % 8 # 0
  BY Zenon DEF Short
<1>. HIDE DEF D, w
<1>4. ASSUME NEW v \in D, D = {v} PROVE v = w
  BY <1>1, <1>4
<1>. QED
  BY <1>1, <1>2, <1>3, <1>4, Zenon DEF w

\* What a call does: it stays in front of a run it fails on, or passes it.
After(r) ==
  \/ /\ UNCHANGED <<index, offset, wild>>
     /\ fault' \in {"overread", "undefined"}
     /\ fault' = "overread" => ~Familiar(r)
  \/ /\ offset' = offset + Len(RunValues(r)) /\ UNCHANGED fault
     /\ Familiar(r) => (index' = index + Len(Bytes(r)) <=> ~CutShort(r))

\* The run lies within the stream.
Room(r) == Placed(r) /\ Len(data) \in Nat /\ index + Len(Bytes(r)) <= Len(data)

LEMMA Returned ==
  ASSUME NEW r, Room(r), NEW values, NEW next, NEW poison, NEW outside,
         Return(values, Len(RunValues(r)), next, poison, outside),
         NEW len \in Nat, Len(Bytes(r)) = len,
         Familiar(r) => next \in Nat /\ next <= index + len
                        /\ (next = index + len <=> ~CutShort(r))
  PROVE  After(r)
<1>1. index \in Nat /\ Len(data) \in Nat /\ index + len <= Len(data)
  BY DEF Room, Placed
<1>2. CASE next > Len(data) \/ poison
  <2>1. /\ fault' = IF next > Len(data) THEN "overread" ELSE "undefined"
        /\ UNCHANGED <<index, offset, result, wild>>
    BY <1>2, Zenon DEF Return
  <2>2. Familiar(r) => ~(next > Len(data))
    BY <1>1
  <2>3. fault' \in {"overread", "undefined"} /\ (fault' = "overread" => ~Familiar(r))
    BY <2>1, <2>2
  <2>. QED
    BY <2>1, <2>3 DEF After
<1>3. CASE ~(next > Len(data) \/ poison)
  <2>1. Emit(values, Len(RunValues(r))) /\ index' = next /\ UNCHANGED fault
    BY <1>3, Zenon DEF Return
  <2>2. offset' = offset + Len(RunValues(r))
    BY <2>1, Zenon DEF Emit
  <2>. QED
    BY <2>1, <2>2, Zenon DEF After
<1>. QED
  BY <1>2, <1>3, Zenon

LEMMA RepeatReturns ==
  ASSUME NEW r, Room(r), r.kind = "repeat", genfunc_nextRepeat,
         Familiar(r) => FixedFor("repeat", RunWidth(r))
  PROVE  After(r)
<1>. DEFINE bytesize == IF decoder.fixed["repeat"] # -1 THEN decoder.fixed["repeat"]
                        ELSE ((Byte(0) \div 8) % 8) + 1
<1>1. PICK values, poison :
        Return(values, (Byte(0) % 8) + MinRepeat, index + 1 + bytesize, poison, FALSE)
  BY Zenon DEF genfunc_nextRepeat
<1>2. PICK w \in 1 .. 8 : /\ w = RunWidth(r) /\ ((Byte(0) \div 8) % 8) + 1 = w
                          /\ Len(Bytes(r)) = 1 + w
                          /\ (Byte(0) % 8) + MinRepeat = Len(RunValues(r))
  BY RepeatHead DEF Room
<1>3. Familiar(r) => bytesize = w
  BY <1>2 DEF FixedFor
<1>. HIDE DEF bytesize
<1>4. Familiar(r) => ~CutShort(r)
  <2>1. PackedValues(r) = 0
    BY DEF PackedValues
  <2>. QED
    BY <2>1 DEF CutShort
<1>5. PICK next : next = index + 1 + bytesize
  OBVIOUS
<1>6. Return(values, Len(RunValues(r)), next, poison, FALSE)
  BY <1>1, <1>2, <1>5, Zenon
<1>7. 1 + w \in Nat /\ index \in Nat
  BY DEF Room, Placed
<1>8. Familiar(r) => next \in Nat /\ next = index + (1 + w) /\ next <= index + (1 + w)
  BY <1>3, <1>5, <1>7
<1>. QED
  BY <1>2, <1>4, <1>6, <1>7, <1>8, Returned, Zenon

LEMMA DirectReturns ==
  ASSUME NEW r, Room(r), r.kind = "direct", genfunc_nextDirect,
         Familiar(r) => FixedFor("direct", RunWidth(r))
  PROVE  After(r)
<1>1. PICK values, poison :
        Return(values, RunLength,
               index + 2 + PackedLength("direct", RunLength, decodeBitWidth(WidthField)),
               poison, FALSE)
  BY Zenon DEF genfunc_nextDirect
<1>2. PICK n \in Nat, w \in 1 .. 64, c \in Nat :
        /\ n = RunLength /\ n = Len(RunValues(r))
        /\ w = r.width /\ decodeBitWidth(WidthField) = w
        /\ c = CeilDiv(n * w, 8) /\ Len(Bytes(r)) = 2 + c
  BY DirectHead, Zenon DEF Room
<1>3. RunWidth(r) = w /\ PackedValues(r) = n
  BY <1>2 DEF RunWidth, PackedValues, RunValues
<1>4. PICK next, l : l = PackedLength("direct", n, w) /\ next = index + 2 + l
  OBVIOUS
<1>5. Return(values, Len(RunValues(r)), next, poison, FALSE)
  BY <1>1, <1>2, <1>4, Zenon
<1>6. Familiar(r) => l \in Nat /\ l <= c /\ (l = c <=> ~CutShort(r))
  <2>. SUFFICES ASSUME Familiar(r)
                PROVE  l \in Nat /\ l <= c /\ (l = c <=> ~CutShort(r))
    OBVIOUS
  <2>1. w \in 0 .. 64
    OBVIOUS
  <2>2. FixedFor("direct", w)
    BY <1>3, Zenon
  <2>3. CutShort(r) <=> Short("direct", n, w)
    BY <1>3, CutShortMeans, Zenon
  <2>4. l \in Nat /\ l <= c /\ (l = c <=> ~Short("direct", n, w))
    BY <1>2, <1>4, <2>1, <2>2, PackedFamiliar, Zenon
  <2>. QED
    BY <2>3, <2>4, Zenon
<1>7. 2 + c \in Nat /\ index \in Nat
  BY DEF Room, Placed
<1>8. Familiar(r) => next \in Nat /\ next <= index + (2 + c)
                     /\ (next = index + (2 + c) <=> ~CutShort(r))
  <2>1. Familiar(r) => next \in Nat /\ next <= index + (2 + c)
                       /\ (next = index + (2 + c) <=> l = c)
    BY <1>4, <1>6, <1>7
  <2>. QED
    BY <1>6, <2>1, Zenon
<1>. QED
  BY <1>2, <1>5, <1>7, <1>8, Returned, Zenon

LEMMA PatchedReturns ==
  ASSUME NEW r, Room(r), r.kind = "patched", genfunc_nextPatched,
         Familiar(r) => FixedFor("patched", RunWidth(r))
  PROVE  After(r)
<1>1. PICK values, poison, outside :
        Return(values, RunLength,
               index + 4 + (Byte(2) \div 32 + 1)
                 + PackedLength("patched", RunLength, decodeBitWidth(WidthField))
                 + CeilDiv((Byte(3) % 32) * getClosestFixedBits(
                     decodeBitWidth(Byte(2) % 32) + (Byte(3) \div 32 + 1)), 8),
               poison, outside)
  BY Zenon DEF genfunc_nextPatched
<1>2. PICK n \in Nat, w \in 1 .. 64, c \in Nat, d \in Nat, bw \in 1 .. 8 :
        /\ n = RunLength /\ n = Len(RunValues(r)) /\ n = Len(r.raws)
        /\ w = r.width /\ decodeBitWidth(WidthField) = w
        /\ c = CeilDiv(n * w, 8) /\ bw = Byte(2) \div 32 + 1
        /\ d = PatchBytes(r) /\ Len(Bytes(r)) = 4 + bw + c + d
  BY PatchedHead, Zenon DEF Room
<1>3. CeilDiv((Byte(3) % 32) * getClosestFixedBits(
        decodeBitWidth(Byte(2) % 32) + (Byte(3) \div 32 + 1)), 8) = d
  <2>1. /\ decodeBitWidth(Byte(2) % 32) = r.pw /\ Byte(3) \div 32 + 1 = r.pgw
        /\ Byte(3) % 32 = Len(r.patches)
    BY PatchedHead, Zenon DEF Room
  <2>. QED
    BY <1>2, <2>1, Zenon DEF PatchBytes
<1>4. RunWidth(r) = w /\ PackedValues(r) = n
  BY <1>2 DEF RunWidth, PackedValues
<1>5. PICK next, l : l = PackedLength("patched", n, w) /\ next = index + 4 + bw + l + d
  OBVIOUS
<1>6. Return(values, Len(RunValues(r)), next, poison, outside)
  BY <1>1, <1>2, <1>3, <1>5, Zenon
<1>7. Familiar(r) => l \in Nat /\ l <= c /\ (l = c <=> ~CutShort(r))
  <2>. SUFFICES ASSUME Familiar(r)
                PROVE  l \in Nat /\ l <= c /\ (l = c <=> ~CutShort(r))
    OBVIOUS
  <2>1. w \in 0 .. 64
    OBVIOUS
  <2>2. FixedFor("patched", w)
    BY <1>4, Zenon
  <2>3. CutShort(r) <=> Short("patched", n, w)
    BY <1>4, CutShortMeans, Zenon
  <2>4. l \in Nat /\ l <= c /\ (l = c <=> ~Short("patched", n, w))
    BY <1>2, <1>5, <2>1, <2>2, PackedFamiliar, Zenon
  <2>. QED
    BY <2>3, <2>4, Zenon
<1>8. 4 + bw + c + d \in Nat /\ index \in Nat
  BY DEF Room, Placed
<1>9. Familiar(r) => next \in Nat /\ next <= index + (4 + bw + c + d)
                     /\ (next = index + (4 + bw + c + d) <=> ~CutShort(r))
  <2>1. Familiar(r) => next \in Nat /\ next <= index + (4 + bw + c + d)
                       /\ (next = index + (4 + bw + c + d) <=> l = c)
    BY <1>5, <1>7, <1>8
  <2>. QED
    BY <1>7, <2>1, Zenon
<1>. QED
  BY <1>2, <1>6, <1>8, <1>9, Returned, Zenon

LEMMA DeltaReturns ==
  ASSUME NEW r, Room(r), r.kind = "delta", genfunc_nextDelta,
         Familiar(r) => FixedFor("delta", RunWidth(r))
  PROVE  After(r)
<1>. DEFINE width == IF WidthField = 0 THEN 0 ELSE decodeBitWidth(WidthField)
<1>1. PICK values, poison :
        Return(values, RunLength,
               index + 2 + VarintLength(index + 2)
                 + VarintLength(index + 2 + VarintLength(index + 2))
                 + (IF width = 0 THEN 0 ELSE PackedLength("delta", RunLength - 2, width)),
               poison, FALSE)
  BY Zenon DEF genfunc_nextDelta
<1>. HIDE DEF width
<1>2. PICK m \in Nat, w \in 0 .. 64, c \in Nat :
        /\ RunLength = Len(RunValues(r)) /\ m = Len(r.rest) /\ RunLength - 2 = m
        /\ w = r.width /\ width = w /\ c = CeilDiv(m * w, 8)
  <2>1. /\ width = r.width /\ r.width \in 0 .. 64
        /\ RunLength = Len(RunValues(r)) /\ RunLength - 2 = Len(r.rest) /\ Len(r.rest) \in Nat
        /\ CeilDiv((RunLength - 2) * r.width, 8) \in Nat
    BY DeltaHead, Zenon DEF Room, width
  <2>. QED
    BY <2>1, Zenon
<1>3. PICK p \in 1 .. 10, q \in 1 .. 10 :
        /\ VarintLength(index + 2) = p /\ VarintLength(index + 2 + p) = q
        /\ Len(Bytes(r)) = 2 + p + q + c
  BY <1>2, DeltaHead, Zenon DEF Room
<1>4. RunWidth(r) = w /\ PackedValues(r) = IF w = 0 THEN 0 ELSE m
  BY <1>2 DEF RunWidth, PackedValues
<1>5. PICK next, l : /\ l = IF w = 0 THEN 0 ELSE PackedLength("delta", m, w)
                     /\ next = index + 2 + p + q + l
  OBVIOUS
<1>6. Return(values, Len(RunValues(r)), next, poison, FALSE)
  BY <1>1, <1>2, <1>3, <1>5, Zenon
<1>7. Familiar(r) => l \in Nat /\ l <= c /\ (l = c <=> ~CutShort(r))
  <2>1. CASE w = 0
    <3>1. c = 0 /\ l = 0
      <4>1. m * w = 0 /\ l = 0
        BY <1>5, <2>1
      <4>2. CeilDiv(0, 8) = 0
        BY DEF CeilDiv
      <4>. QED
        BY <1>2, <4>1, <4>2
    <3>2. PackedValues(r) = 0
      BY <1>4, <2>1
    <3>3. ~CutShort(r)
      BY <3>2 DEF CutShort
    <3>. QED
      BY <3>1, <3>3
  <2>2. CASE w # 0
    <3>. SUFFICES ASSUME Familiar(r)
                  PROVE  l \in Nat /\ l <= c /\ (l = c <=> ~CutShort(r))
      OBVIOUS
    <3>1. l = PackedLength("delta", m, w) /\ PackedValues(r) = m
      BY <1>4, <1>5, <2>2, Zenon
    <3>2. FixedFor("delta", w)
      BY <1>4, Zenon
    <3>3. CutShort(r) <=> Short("delta", m, w)
      BY <1>4, <3>1, CutShortMeans, Zenon
    <3>4. l \in Nat /\ l <= c /\ (l = c <=> ~Short("delta", m, w))
      BY <1>2, <3>1, <3>2, PackedFamiliar, Zenon
    <3>. QED
      BY <3>3, <3>4, Zenon
  <2>. QED
    BY <2>1, <2>2, Zenon
<1>8. 2 + p + q + c \in Nat /\ index \in Nat
  BY DEF Room, Placed
<1>9. Familiar(r) => next \in Nat /\ next <= index + (2 + p + q + c)
                     /\ (next = index + (2 + p + q + c) <=> ~CutShort(r))
  <2>1. Familiar(r) => next \in Nat /\ next <= index + (2 + p + q + c)
                       /\ (next = index + (2 + p + q + c) <=> l = c)
    BY <1>5, <1>7, <1>8
  <2>. QED
    BY <1>7, <2>1, Zenon
<1>. QED
  BY <1>3, <1>6, <1>8, <1>9, Returned, Zenon

\* The kind of the run in front of the decoder is the one its bytes name.
LEMMA KindsCode ==
  /\ Code["repeat"] = 0 /\ Code["direct"] = 1 /\ Code["patched"] = 2 /\ Code["delta"] = 3
  /\ \A j, k \in Kind : Code[j] = Code[k] => j = k
BY DEF Code, Kind

LEMMA KindRead ==
  ASSUME NEW r, Placed(r)
  PROVE  r.kind \in Kind /\ Encoding = Code[r.kind]
<1>1. r.kind \in {"repeat", "direct", "patched", "delta"}
  BY DEF Placed, Legal
<1>2. CASE r.kind = "repeat"
  BY <1>1, <1>2, RepeatHead, KindsCode, Zenon DEF Kind
<1>3. CASE r.kind = "direct"
  BY <1>1, <1>3, DirectHead, KindsCode, Zenon DEF Kind
<1>4. CASE r.kind = "patched"
  BY <1>1, <1>4, PatchedHead, KindsCode, Zenon DEF Kind
<1>5. CASE r.kind = "delta"
  BY <1>1, <1>5, DeltaHead, KindsCode, Zenon DEF Kind
<1>. QED
  BY <1>1, <1>2, <1>3, <1>4, <1>5

\* A call of the generated decoder.
LEMMA CallReturns ==
  ASSUME ProfileInv, MergeInv, decoder # None, NEW r, Room(r),
         \/ genfunc_nextRepeat \/ genfunc_nextDirect \/ genfunc_nextPatched \/ genfunc_nextDelta
  PROVE  After(r)
<1>1. r.kind \in Kind /\ Encoding = Code[r.kind]
  BY KindRead DEF Room
<1>2. /\ "repeat" \in Kind /\ "direct" \in Kind /\ "patched" \in Kind /\ "delta" \in Kind
  BY DEF Kind
<1>3. /\ genfunc_nextRepeat => Encoding = Code["repeat"]
      /\ genfunc_nextDirect => Encoding = Code["direct"]
      /\ genfunc_nextPatched => Encoding = Code["patched"]
      /\ genfunc_nextDelta => Encoding = Code["delta"]
  BY Zenon DEF genfunc_nextRepeat, genfunc_nextDirect, genfunc_nextPatched, genfunc_nextDelta,
     Enter
<1>4. Familiar(r) => FixedFor(r.kind, RunWidth(r))
  BY <1>1, FixedMet, Zenon DEF Familiar
<1>5. CASE genfunc_nextRepeat
  <2>1. r.kind = "repeat"
    BY <1>1, <1>2, <1>3, <1>5, KindsCode, Zenon
  <2>2. Familiar(r) => FixedFor("repeat", RunWidth(r))
    BY <1>4, <2>1, Zenon
  <2>. QED
    BY <1>5, <2>1, <2>2, RepeatReturns
<1>6. CASE genfunc_nextDirect
  <2>1. r.kind = "direct"
    BY <1>1, <1>2, <1>3, <1>6, KindsCode, Zenon
  <2>2. Familiar(r) => FixedFor("direct", RunWidth(r))
    BY <1>4, <2>1, Zenon
  <2>. QED
    BY <1>6, <2>1, <2>2, DirectReturns
<1>7. CASE genfunc_nextPatched
  <2>1. r.kind = "patched"
    BY <1>1, <1>2, <1>3, <1>7, KindsCode, Zenon
  <2>2. Familiar(r) => FixedFor("patched", RunWidth(r))
    BY <1>4, <2>1, Zenon
  <2>. QED
    BY <1>7, <2>1, <2>2, PatchedReturns
<1>8. CASE genfunc_nextDelta
  <2>1. r.kind = "delta"
    BY <1>1, <1>2, <1>3, <1>8, KindsCode, Zenon
  <2>2. Familiar(r) => FixedFor("delta", RunWidth(r))
    BY <1>4, <2>1, Zenon
  <2>. QED
    BY <1>8, <2>1, <2>2, DeltaReturns
<1>. QED
  BY <1>5, <1>6, <1>7, <1>8

\* What is known of the decoder behind run k, and of a fault in the next.
Behind(k) ==
  /\ offset = EndOffset(k)
  /\ k > 0 /\ ~wild =>
       (Familiar(stream[k].run) => (index = EndIndex(k) <=> ~CutShort(stream[k].run)))
  /\ fault \in {"stuck", "foreign"} => WidthsMet(stream[k + 1].run.kind) = {}
  /\ fault = "stuck" => Cardinality({j \in Kind : WidthsMet(j) # {}}) > 1
  /\ fault = "overread" => ~Familiar(stream[k + 1].run)

DecoderInv ==
  /\ phase # "generated" => fault = "no"
  /\ phase = "generated" => decoder # None /\ \E k \in 0 .. Len(stream) : Behind(k)

\* In front of the end of the stream, at a run, there is one that fits.
LEMMA RoomAhead ==
  ASSUME StreamInv, Decoding
  PROVE  \E m \in 1 .. Len(stream) :
           /\ index = EndIndex(m-1) /\ offset = EndOffset(m-1) /\ m - 1 \in 0 .. Len(stream)
           /\ (m - 1) + 1 = m /\ Room(stream[m].run)
           /\ EndIndex(m) = index + Len(Bytes(stream[m].run))
           /\ EndOffset(m) = offset + Len(RunValues(stream[m].run))
<1>1. PICK k \in 0 .. Len(stream) : index = EndIndex(k) /\ offset = EndOffset(k)
  BY Zenon DEF Decoding, AtRun
<1>2. index < Len(data)
  BY DEF Decoding
<1>3. k + 1 \in 1 .. Len(stream) /\ Placed(stream[k + 1].run)
  BY <1>1, <1>2, RunAhead
<1>4. PICK m \in 1 .. Len(stream) : m = k + 1 /\ m - 1 = k /\ (m - 1) + 1 = m
  BY <1>3
<1>5. /\ stream[m].bytes = Bytes(stream[m].run)
      /\ stream[m].values = RunValues(stream[m].run)
  <2>1. stream[m] = Written(stream[m].run)
    BY <1>4, StreamFacts DEF StreamInv
  <2>2. /\ Written(stream[m].run).bytes = RunBytes(stream[m].run, IsSigned)
        /\ Written(stream[m].run).values = RunValues(stream[m].run)
    BY DEF Written
  <2>. QED
    BY <2>1, <2>2, Zenon DEF Bytes
<1>6. /\ EndIndex(m) = index + Len(Bytes(stream[m].run))
      /\ EndOffset(m) = offset + Len(RunValues(stream[m].run))
  <2>1. /\ EndIndex(m) = EndIndex(m-1) + Len(stream[m].bytes)
        /\ EndOffset(m) = EndOffset(m-1) + Len(stream[m].values)
    BY <1>4, StreamFacts
  <2>. QED
    BY <1>1, <1>4, <1>5, <2>1, Zenon
<1>7. Room(stream[m].run)
  <2>1. PICK n \in Nat : n = Len(stream) /\ Len(data) = EndIndex(n) /\ EndIndex(n) \in Nat
    <3>1. Len(stream) \in Nat /\ Len(data) = EndIndex(Len(stream))
          /\ EndIndex(Len(stream)) \in Nat
      BY StreamFacts
    <3>. QED
      BY <3>1, Zenon
  <2>2. m \in 0 .. n /\ n \in 0 .. n /\ m <= n
    BY <1>4, <2>1
  <2>3. EndIndex(m) <= EndIndex(n)
    BY <2>1, <2>2, EndsGrow, Zenon
  <2>4. Placed(stream[m].run)
    BY <1>3, <1>4, Zenon
  <2>. QED
    BY <1>6, <2>1, <2>3, <2>4, Zenon DEF Room
<1>. QED
  BY <1>1, <1>4, <1>6, <1>7, Zenon

\* The numbers of the runs grow too.
LEMMA OffsetsGrow ==
  ASSUME StreamInv, NEW i \in 0 .. Len(stream), NEW k \in 0 .. Len(stream)
  PROVE  EndOffset(i) <= EndOffset(k) <=> i <= k
<1>. DEFINE n == Len(stream)
            values == [j \in DOMAIN stream |-> Len(stream[j].values)]
<1>0. n \in Nat /\ DOMAIN stream = 1 .. n
  BY StreamFacts
<1>1. ASSUME NEW j \in 1 .. n PROVE Len(stream[j].values) \in Nat /\ Len(stream[j].values) > 0
  <2>1. Legal(stream[j].run, IsSigned) /\ stream[j] = Written(stream[j].run)
    BY <1>0, <1>1 DEF StreamInv
  <2>2. stream[j].values = RunValues(stream[j].run)
    <3>1. Written(stream[j].run).values = RunValues(stream[j].run)
      BY DEF Written
    <3>. QED
      BY <2>1, <3>1, Zenon
  <2>. QED
    BY <2>1, <2>2, RunFacts, Zenon
<1>2. values \in Seq(Nat) /\ Len(values) = n
  <2>1. values = [j \in 1 .. n |-> Len(stream[j].values)]
    BY <1>0
  <2>. HIDE DEF values, n
  <2>. QED
    BY <1>0, <1>1, <2>1
<1>3. \A j : EndOffset(j) = SumTo(values, j)
  BY Zenon DEF EndOffset
<1>. HIDE DEF values
<1>4. \A a \in 0 .. n : \A b \in a .. n : EndOffset(a) <= EndOffset(b)
  BY <1>2, <1>3, SumsGrow
<1>5. \A a \in 0 .. n : EndOffset(a) \in Nat
  BY StreamFacts
<1>6. ASSUME i <= k PROVE EndOffset(i) <= EndOffset(k)
  BY <1>0, <1>4, <1>6
<1>7. ASSUME ~(i <= k) PROVE ~(EndOffset(i) <= EndOffset(k))
  <2>1. PICK m \in 1 .. n : m = k + 1 /\ m - 1 = k /\ i \in m .. n /\ m \in 0 .. n
    BY <1>0, <1>7
  <2>2. EndOffset(m) = EndOffset(m-1) + Len(stream[m].values)
    BY StreamFacts
  <2>3. EndOffset(m) <= EndOffset(i)
    BY <1>4, <2>1
  <2>4. PICK x \in Nat : x = Len(stream[m].values) /\ x > 0
    BY <1>1
  <2>. QED
    BY <1>5, <2>1, <2>2, <2>3, <2>4
<1>. QED
  BY <1>6, <1>7

LEMMA OneOffset ==
  ASSUME StreamInv, NEW i \in 0 .. Len(stream), NEW k \in 0 .. Len(stream),
         EndOffset(i) = EndOffset(k)
  PROVE  i = k
<1>1. EndOffset(i) \in Nat /\ EndOffset(k) \in Nat /\ Len(stream) \in Nat
  BY StreamFacts
<1>2. i <= k /\ k <= i
  BY <1>1, OffsetsGrow
<1>. QED
  BY <1>1, <1>2

\* The runs done are those in front of the offset.
LEMMA DoneBehind ==
  ASSUME StreamInv, NEW k \in 0 .. Len(stream), offset = EndOffset(k)
  PROVE  Done = 1 .. k /\ Cardinality(Done) = k
<1>1. Len(stream) \in Nat /\ DOMAIN stream = 1 .. Len(stream)
  BY StreamFacts
<1>2. \A i \in 1 .. Len(stream) : EndOffset(i) <= offset <=> i <= k
  BY OffsetsGrow
<1>3. Done = 1 .. k
  BY <1>1, <1>2 DEF Done
<1>4. k \in Nat
  BY <1>1
<1>5. \A j \in Nat : Cardinality(1 .. j) = j
  BY FS_Interval
<1>. QED
  BY <1>3, <1>4, <1>5, Zenon

\* What does not change with the stream, the type and the profiles merged.
LEMMA RunsStay ==
  ASSUME UNCHANGED <<type, stream, merged>>
  PROVE  /\ \A k : EndIndex(k)' = EndIndex(k) /\ EndOffset(k)' = EndOffset(k)
         /\ \A kind : WidthsMet(kind)' = WidthsMet(kind)
         /\ \A r : (Familiar(r)' <=> Familiar(r)) /\ (CutShort(r)' <=> CutShort(r))
<1>1. \A k : EndIndex(k)' = EndIndex(k) /\ EndOffset(k)' = EndOffset(k)
  BY Zenon DEF EndIndex, EndOffset
<1>2. \A kind : WidthsMet(kind)' = WidthsMet(kind)
  BY Zenon DEF WidthsMet
<1>3. \A r : RunWidth(r)' = RunWidth(r)
  BY Zenon DEF RunWidth, IsSigned
<1>4. \A r : Familiar(r)' <=> Familiar(r)
  BY <1>2, <1>3, Zenon DEF Familiar
<1>5. \A r : CutShort(r)' <=> CutShort(r)
  BY <1>2, Zenon DEF CutShort
<1>. QED
  BY <1>1, <1>2, <1>4, <1>5

LEMMA StepOfCall ==
  ASSUME ProfileInv, MergeInv, DecoderInv,
         \/ genfunc_nextRepeat \/ genfunc_nextDirect \/ genfunc_nextPatched \/ genfunc_nextDelta
  PROVE  DecoderInv'
<1>1. Decoding /\ UNCHANGED <<type, stream, merged, decoder, phase>>
  BY Zenon DEF genfunc_nextRepeat, genfunc_nextDirect, genfunc_nextPatched, genfunc_nextDelta,
     Enter, Return
<1>2. phase = "generated" /\ fault = "no" /\ decoder # None /\ StreamInv
  BY <1>1 DEF Decoding, DecoderInv, ProfileInv, GenInv
<1>3. PICK m \in 1 .. Len(stream) :
        /\ index = EndIndex(m-1) /\ offset = EndOffset(m-1) /\ m - 1 \in 0 .. Len(stream)
        /\ (m - 1) + 1 = m /\ Room(stream[m].run)
        /\ EndIndex(m) = index + Len(Bytes(stream[m].run))
        /\ EndOffset(m) = offset + Len(RunValues(stream[m].run))
  BY <1>1, <1>2, RoomAhead
<1>4. After(stream[m].run)
  BY <1>2, <1>3, CallReturns, Zenon
<1>5. \E k \in 0 .. Len(stream') : Behind(k)'
  <2>1. CASE /\ UNCHANGED <<index, offset, wild>>
             /\ fault' \in {"overread", "undefined"}
             /\ fault' = "overread" => ~Familiar(stream[m].run)
    <3>1. PICK k \in 0 .. Len(stream) : Behind(k)
      BY <1>2 DEF DecoderInv
    <3>2. k = m - 1
      BY <1>2, <1>3, <3>1, OneOffset, Zenon DEF Behind
    <3>3. Behind(m - 1)
      BY <3>1, <3>2, Zenon
    <3>4. fault' \notin {"stuck", "foreign"} /\ fault' # "stuck"
      BY <2>1
    <3>5. fault' = "overread" => ~Familiar(stream[(m - 1) + 1].run)
      BY <1>3, <2>1, Zenon
    <3>6. Behind(m - 1)'
      BY <1>1, <2>1, <3>3, <3>4, <3>5, RunsStay, Zenon DEF Behind
    <3>. QED
      BY <1>1, <1>3, <3>6, Zenon
  <2>2. CASE /\ offset' = offset + Len(RunValues(stream[m].run)) /\ UNCHANGED fault
             /\ Familiar(stream[m].run) =>
                  (index' = index + Len(Bytes(stream[m].run)) <=> ~CutShort(stream[m].run))
    <3>1. fault' \notin {"stuck", "foreign"} /\ fault' # "stuck" /\ fault' # "overread"
      BY <1>2, <2>2
    <3>2. /\ offset' = EndOffset(m)
          /\ Familiar(stream[m].run) => (index' = EndIndex(m) <=> ~CutShort(stream[m].run))
      BY <1>3, <2>2, Zenon
    <3>3. Behind(m)'
      BY <1>1, <3>1, <3>2, RunsStay, Zenon DEF Behind
    <3>4. m \in 0 .. Len(stream')
      BY <1>1, <1>2, StreamFacts
    <3>. QED
      BY <3>3, <3>4, Zenon
  <2>. QED
    BY <1>4, <2>1, <2>2, Zenon DEF After
<1>. QED
  BY <1>1, <1>2, <1>5, Zenon DEF DecoderInv

LEMMA StepOfNoCase ==
  ASSUME ProfileInv, MergeInv, DecoderInv, NoCase
  PROVE  DecoderInv'
<1>1. /\ Decoding /\ UNCHANGED <<type, stream, merged, decoder, phase, index, offset, wild>>
      /\ \A k \in decoder.cases : Encoding # Code[k]
      /\ fault' = CASE decoder.cases = {} -> "undefined"
                    [] Cardinality(decoder.cases) = 1 -> "foreign"
                    [] Cardinality(decoder.cases) > 1 -> "stuck"
  BY DEF NoCase, vars
<1>2. phase = "generated" /\ fault = "no" /\ decoder # None /\ StreamInv
  BY <1>1 DEF Decoding, DecoderInv, ProfileInv, GenInv
<1>3. PICK m \in 1 .. Len(stream) :
        /\ index = EndIndex(m-1) /\ offset = EndOffset(m-1) /\ m - 1 \in 0 .. Len(stream)
        /\ (m - 1) + 1 = m /\ Room(stream[m].run)
  BY <1>1, <1>2, RoomAhead
<1>4. /\ decoder.cases \subseteq Kind
      /\ \A k \in Kind : k \in decoder.cases <=> WidthsMet(k) # {}
  BY <1>2, CasesMet
<1>5. WidthsMet(stream[m].run.kind) = {}
  <2>1. PICK kind \in Kind : kind = stream[m].run.kind /\ Encoding = Code[kind]
    BY <1>3, KindRead, Zenon DEF Room
  <2>. QED
    BY <1>1, <1>4, <2>1, Zenon
<1>6. decoder.cases = {j \in Kind : WidthsMet(j) # {}}
  BY <1>4
<1>7. /\ fault' \in {"undefined", "foreign", "stuck"}
      /\ fault' = "stuck" => Cardinality({j \in Kind : WidthsMet(j) # {}}) > 1
  <2>. DEFINE cases == decoder.cases
  <2>1. IsFiniteSet(cases)
    <3>1. IsFiniteSet((({"repeat"} \cup {"direct"}) \cup {"patched"}) \cup {"delta"})
      <4>1. IsFiniteSet({"repeat"})
        BY FS_Singleton
      <4>. QED
        BY <4>1, FS_AddElement, Zenon
    <3>2. Kind = (({"repeat"} \cup {"direct"}) \cup {"patched"}) \cup {"delta"}
      BY DEF Kind
    <3>. QED
      BY <1>4, <3>1, <3>2, FS_Subset, Zenon
  <2>2. Cardinality(cases) \in Nat /\ (Cardinality(cases) = 0 <=> cases = {})
    BY <2>1, FS_CardinalityType, FS_EmptySet
  <2>3. fault' = CASE cases = {} -> "undefined"
                   [] Cardinality(cases) = 1 -> "foreign"
                   [] Cardinality(cases) > 1 -> "stuck"
    BY <1>1
  <2>4. cases = {j \in Kind : WidthsMet(j) # {}}
    BY <1>6
  <2>. HIDE DEF cases
  <2>5. PICK c \in Nat : c = Cardinality(cases) /\ (c = 0 <=> cases = {})
    BY <2>2
  <2>6. fault' \in {"undefined", "foreign", "stuck"} /\ (fault' = "stuck" => c > 1)
    <3>1. CASE c = 0
      BY <2>3, <2>5, <3>1
    <3>2. CASE c = 1
      BY <2>3, <2>5, <3>2
    <3>3. CASE c > 1
      BY <2>3, <2>5, <3>3
    <3>. QED
      BY <3>1, <3>2, <3>3
  <2>. QED
    BY <2>4, <2>5, <2>6, Zenon
<1>8. Behind(m - 1)'
  <2>1. PICK k \in 0 .. Len(stream) : Behind(k)
    BY <1>2 DEF DecoderInv
  <2>2. k = m - 1
    BY <1>2, <1>3, <2>1, OneOffset, Zenon DEF Behind
  <2>3. Behind(m - 1)
    BY <2>1, <2>2, Zenon
  <2>4. fault' # "overread" /\ WidthsMet(stream[(m - 1) + 1].run.kind) = {}
    <3>1. fault' # "overread"
      BY <1>7
    <3>. QED
      BY <1>3, <1>5, <3>1, Zenon
  <2>5. Cardinality({j \in Kind : WidthsMet(j) # {}})' = Cardinality({j \in Kind : WidthsMet(j) # {}})
    <3>1. {j \in Kind : WidthsMet(j)' # {}} = {j \in Kind : WidthsMet(j) # {}}
      BY <1>1, RunsStay
    <3>. QED
      BY <3>1
  <2>. QED
    BY <1>1, <1>7, <2>3, <2>4, <2>5, RunsStay, Zenon DEF Behind
<1>. QED
  BY <1>1, <1>2, <1>3, <1>8, Zenon DEF DecoderInv

LEMMA StreamBegins == StreamInv => 0 \in 0 .. Len(stream) /\ EndOffset(0) = 0
BY StreamFacts

LEMMA StepOfDecoderMade ==
  ASSUME DecoderInv, Generate, StreamInv'
  PROVE  DecoderInv'
<1>1. /\ decoder' = genfunc_rle(decodeAll(encodeAll(global, IsSigned)))
      /\ phase = "merged" /\ phase' = "generated" /\ UNCHANGED fault /\ offset' = 0
  BY Zenon DEF Generate, Open
<1>2. decoder' # None
  <2>1. \A read : "cases" \in DOMAIN genfunc_rle(read)
    BY DEF genfunc_rle
  <2>2. DOMAIN None = {}
    BY DEF None
  <2>3. "cases" \in DOMAIN decoder'
    BY <1>1, <2>1, Zenon
  <2>. QED
    BY <2>2, <2>3
<1>3. fault' = "no"
  BY <1>1 DEF DecoderInv
<1>4. 0 \in 0 .. Len(stream') /\ EndOffset(0)' = 0
  <2>1. (StreamInv => 0 \in 0 .. Len(stream) /\ EndOffset(0) = 0)'
    BY StreamBegins, PTL
  <2>. QED
    BY <2>1
<1>5. Behind(0)'
  BY <1>1, <1>3, <1>4 DEF Behind
<1>. QED
  BY <1>1, <1>2, <1>4, <1>5, Zenon DEF DecoderInv

LEMMA StepOfOthers ==
  ASSUME DecoderInv,
         Interpret \/ MergeProfile \/ AnotherScanner \/ GenEnded \/ UNCHANGED allVars
  PROVE  DecoderInv'
<1>1. CASE Interpret \/ MergeProfile \/ AnotherScanner
  <2>1. /\ phase # "generated" /\ phase' # "generated" /\ UNCHANGED fault
    BY <1>1 DEF Interpret, MergeProfile, AnotherScanner, genVars, Open
  <2>. QED
    BY <2>1 DEF DecoderInv
<1>2. CASE GenEnded \/ UNCHANGED allVars
  <2>1. UNCHANGED <<type, stream, index, offset, wild, phase, merged, decoder, fault>>
    BY <1>2 DEF GenEnded, allVars, genVars, vars
  <2>2. ASSUME NEW k, Behind(k) PROVE Behind(k)'
    <3>1. Cardinality({j \in Kind : WidthsMet(j) # {}})' = Cardinality({j \in Kind : WidthsMet(j) # {}})
      <4>1. {j \in Kind : WidthsMet(j)' # {}} = {j \in Kind : WidthsMet(j) # {}}
        BY <2>1, RunsStay
      <4>. QED
        BY <4>1
    <3>. QED
      BY <2>1, <2>2, <3>1, RunsStay, Zenon DEF Behind
  <2>. QED
    BY <2>1, <2>2, Zenon DEF DecoderInv
<1>. QED
  BY <1>1, <1>2

LEMMA StepKeepsDecoderInv ==
  ProfileInv /\ MergeInv /\ DecoderInv /\ [GenNext]_allVars /\ StreamInv' => DecoderInv'
<1>. SUFFICES ASSUME ProfileInv, MergeInv, DecoderInv, [GenNext]_allVars, StreamInv'
              PROVE  DecoderInv'
  OBVIOUS
<1>1. CASE genfunc_nextRepeat \/ genfunc_nextDirect \/ genfunc_nextPatched \/ genfunc_nextDelta
  BY <1>1, StepOfCall
<1>2. CASE NoCase
  BY <1>2, StepOfNoCase
<1>3. CASE Generate
  BY <1>3, StepOfDecoderMade
<1>4. CASE Interpret \/ MergeProfile \/ AnotherScanner \/ GenEnded \/ UNCHANGED allVars
  BY <1>4, StepOfOthers
<1>. QED
  BY <1>1, <1>2, <1>3, <1>4, Zenon DEF GenNext

LEMMA DecoderStarts == GenInit => DecoderInv
BY DEF GenInit, DecoderInv

\* All that is kept.
LEMMA StepKeepsAll ==
  ProfileInv /\ MergeInv /\ DecoderInv /\ [GenNext]_allVars
    => ProfileInv' /\ MergeInv' /\ DecoderInv'
<1>1. ProfileInv' => StreamInv'
  BY DEF ProfileInv, GenInv
<1>. QED
  BY <1>1, StepKeepsProfileInv, StepKeepsMergeInv, StepKeepsDecoderInv

LEMMA BehindRun ==
  ASSUME ProfileInv, DecoderInv, phase = "generated"
  PROVE  \E k \in 0 .. Len(stream) : /\ Behind(k) /\ Done = 1 .. k /\ Cardinality(Done) = k
                                     /\ NextRun = stream[k + 1].run /\ k \in Nat
<1>1. PICK k \in 0 .. Len(stream) : Behind(k)
  BY DEF DecoderInv
<1>2. StreamInv
  BY DEF ProfileInv, GenInv
<1>3. Done = 1 .. k /\ Cardinality(Done) = k
  BY <1>1, <1>2, DoneBehind DEF Behind
<1>4. NextRun = stream[k + 1].run
  BY <1>3, Zenon DEF NextRun
<1>5. k \in Nat
  BY <1>2, StreamFacts
<1>. QED
  BY <1>1, <1>3, <1>4, <1>5

\* Whatever was met and whatever is read, each function of the generated decoder
\* (genfunc_nextRepeat, genfunc_nextDirect, genfunc_nextPatched and
\* genfunc_nextDelta, genfunc-ir.cpp) ends at the last byte of a run of a width
\* that was met before, exactly if the width all runs of the kind had is not
\* one of which it takes too few bytes.
THEOREM GeneratedKeepsStep == GenSpec => []GeneratedStaysInStep
<1>1. ProfileInv /\ DecoderInv => GeneratedStaysInStep
  <2>. SUFFICES ASSUME ProfileInv, DecoderInv, phase = "generated", ~wild, Done # {},
                       Familiar(stream[Cardinality(Done)].run)
                PROVE  index = EndIndex(Cardinality(Done))
                         <=> ~CutShort(stream[Cardinality(Done)].run)
    BY Zenon DEF GeneratedStaysInStep
  <2>1. PICK k \in 0 .. Len(stream) :
          Behind(k) /\ Done = 1 .. k /\ Cardinality(Done) = k /\ k \in Nat
    BY BehindRun, Zenon
  <2>2. k > 0
    BY <2>1
  <2>. QED
    BY <2>1, <2>2, Zenon DEF Behind
<1>. QED
  BY <1>1, ProfileStarts, MergeStarts, DecoderStarts, StepKeepsAll, PTL DEF GenSpec

\* A decoder fails on a run for want of a case (genfunc_rle) only if no scanner
\* met a run of that kind, and then returns nothing for ever only if it has
\* several cases; it reads beyond a stream only on a run of a new width.
THEOREM FaultsAreUnfamiliar == GenSpec => []FaultsOnlyOnUnfamiliar
<1>1. ProfileInv /\ DecoderInv => FaultsOnlyOnUnfamiliar
  <2>. SUFFICES ASSUME ProfileInv, DecoderInv PROVE FaultsOnlyOnUnfamiliar
    OBVIOUS
  <2>1. CASE phase # "generated"
    BY <2>1 DEF DecoderInv, FaultsOnlyOnUnfamiliar
  <2>2. CASE phase = "generated"
    <3>1. PICK k \in 0 .. Len(stream) : Behind(k) /\ NextRun = stream[k + 1].run
      BY <2>2, BehindRun, Zenon
    <3>. QED
      BY <3>1, Zenon DEF Behind, FaultsOnlyOnUnfamiliar
  <2>. QED
    BY <2>1, <2>2
<1>. QED
  BY <1>1, ProfileStarts, MergeStarts, DecoderStarts, StepKeepsAll, PTL DEF GenSpec
=============================================================================
