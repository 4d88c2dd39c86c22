------------------------ MODULE GenRleValues_proofs ------------------------
(***************************************************************************)
(* The numbers: what the interpreter and a generated decoder make of the   *)
(* streams that a writer writes of numbers of the decoded type, and where  *)
(* a generated decoder shifts an integer too far.                          *)
(***************************************************************************)
EXTENDS GenRle_proofs, FunctionTheorems

-----------------------------------------------------------------------------
(***************************************************************************)
(* Powers of two, remainders and digits.                                   *)
(***************************************************************************)
\* The subsets of two disjoint sets together are as many as pairs of subsets.
LEMMA PowersMultiply ==
  ASSUME NEW a \in Nat, NEW b \in Nat
  PROVE  2^(a + b) = 2^a * 2^b /\ 2^a \in Nat
<1>. DEFINE A == 1 .. a
            B == a + 1 .. a + b
            AB == 1 .. a + b
            f == [T \in SUBSET AB |-> <<T \cap A, T \cap B>>]
<1>1. IsFiniteSet(A) /\ Cardinality(A) = a
  <2>1. a \in Int /\ 1 \in Int /\ (IF 1 > a THEN 0 ELSE a - 1 + 1) = a
    OBVIOUS
  <2>. QED
    BY <2>1, FS_Interval
<1>2. IsFiniteSet(B) /\ Cardinality(B) = b
  <2>1. a + 1 \in Int /\ a + b \in Int /\ (IF a + 1 > a + b THEN 0 ELSE a + b - (a + 1) + 1) = b
    OBVIOUS
  <2>. QED
    BY <2>1, FS_Interval
<1>3. IsFiniteSet(AB) /\ Cardinality(AB) = a + b
  <2>1. 1 \in Int /\ a + b \in Int /\ (IF 1 > a + b THEN 0 ELSE a + b - 1 + 1) = a + b
    OBVIOUS
  <2>. QED
    BY <2>1, FS_Interval
<1>4. A \cup B = AB /\ A \cap B = {}
  OBVIOUS
<1>. HIDE DEF A, B, AB
<1>5. f \in Bijection(SUBSET AB, (SUBSET A) \X (SUBSET B))
  <2>1. f \in [SUBSET AB -> (SUBSET A) \X (SUBSET B)]
    OBVIOUS
  <2>2. ASSUME NEW S \in SUBSET AB, NEW T \in SUBSET AB, f[S] = f[T] PROVE S = T
    <3>1. S \cap A = T \cap A /\ S \cap B = T \cap B
      BY <2>2
    <3>. QED
      BY <1>4, <3>1
  <2>3. ASSUME NEW p \in (SUBSET A) \X (SUBSET B) PROVE \E T \in SUBSET AB : f[T] = p
    <3>1. PICK X \in SUBSET A, Y \in SUBSET B : p = <<X, Y>>
      OBVIOUS
    <3>2. X \cup Y \in SUBSET AB /\ (X \cup Y) \cap A = X /\ (X \cup Y) \cap B = Y
      BY <1>4
    <3>. QED
      BY <3>1, <3>2
  <2>. QED
    BY <2>1, <2>2, <2>3, Fun_IsBij
<1>6. IsFiniteSet(SUBSET A) /\ Cardinality(SUBSET A) = 2^a
  BY <1>1, FS_SUBSET
<1>7. IsFiniteSet(SUBSET B) /\ Cardinality(SUBSET B) = 2^b
  BY <1>2, FS_SUBSET
<1>8. IsFiniteSet(SUBSET AB) /\ Cardinality(SUBSET AB) = 2^(a + b)
  BY <1>3, FS_SUBSET
<1>9. Cardinality((SUBSET A) \X (SUBSET B)) = Cardinality(SUBSET AB)
  <2>1. ExistsBijection(SUBSET AB, (SUBSET A) \X (SUBSET B))
    BY <1>5 DEF ExistsBijection
  <2>. QED
    BY <1>8, <2>1, FS_Bijection
<1>10. Cardinality((SUBSET A) \X (SUBSET B)) = Cardinality(SUBSET A) * Cardinality(SUBSET B)
  BY <1>6, <1>7, FS_Product
<1>11. Cardinality(SUBSET A) \in Nat
  BY <1>6, FS_CardinalityType
<1>. QED
  BY <1>6, <1>7, <1>8, <1>9, <1>10, <1>11

\* The powers of two, one by one.
LEMMA Pow2 ==
  /\ 2^0 = 1
  /\ \A n \in Nat : 2^n \in Nat /\ 2^n >= 1 /\ 2^(n + 1) = 2 * 2^n
<1>1. 2^0 = 1 /\ 2^1 = 2
  OBVIOUS
<1>2. ASSUME NEW n \in Nat PROVE 2^n \in Nat /\ 2^(n + 1) = 2 * 2^n
  <2>1. 1 \in Nat /\ 2^(n + 1) = 2^n * 2^1 /\ 2^n \in Nat
    BY PowersMultiply
  <2>. QED
    BY <1>1, <2>1
<1>. DEFINE S == {n \in Nat : 2^n >= 1}
<1>3. 0 \in S
  BY <1>1
<1>4. \A n \in Nat : n \in S => n + 1 \in S
  BY <1>2
<1>5. Nat \subseteq S
  BY <1>3, <1>4, SetInduction
<1>. QED
  BY <1>1, <1>2, <1>5
\* A greater power is a multiple of a smaller one.
LEMMA PowersGrow ==
  ASSUME NEW a \in Nat, NEW b \in Nat, a <= b
  PROVE  /\ 2^a \in Nat \ {0} /\ 2^b \in Nat \ {0} /\ 2^(b - a) \in Nat \ {0}
         /\ 2^b = 2^a * 2^(b - a) /\ 2^a <= 2^b /\ (a < b => 2 * 2^a <= 2^b)
<1>1. b - a \in Nat /\ a + (b - a) = b
  OBVIOUS
<1>2. 2^b = 2^a * 2^(b - a)
  BY <1>1, PowersMultiply
<1>3. 2^a \in Nat \ {0} /\ 2^b \in Nat \ {0} /\ 2^(b - a) \in Nat \ {0}
  BY <1>1, Pow2
<1>4. ASSUME NEW x \in Nat, NEW y \in Nat \ {0} PROVE x <= x * y
  BY <1>4
<1>5. 2^a <= 2^b
  BY <1>2, <1>3, <1>4
<1>6. ASSUME a < b PROVE 2 * 2^a <= 2^b
  <2>1. b - a - 1 \in Nat /\ b - a = (b - a - 1) + 1
    BY <1>6
  <2>2. 2^(b - a) = 2 * 2^(b - a - 1) /\ 2^(b - a - 1) \in Nat \ {0}
    BY <2>1, Pow2
  <2>. DEFINE x == 2^a
              y == 2^(b - a - 1)
  <2>3. 2^b = x * (2 * y) /\ x \in Nat /\ y \in Nat \ {0}
    BY <1>2, <1>3, <2>2
  <2>. HIDE DEF x, y
  <2>4. x * (2 * y) = 2 * (x * y) /\ x <= x * y
    BY <2>3
  <2>. QED
    BY <2>3, <2>4 DEF x
<1>. QED
  BY <1>2, <1>3, <1>5, <1>6
\* A number has a quotient and a remainder.
LEMMA Divided ==
  ASSUME NEW x \in Int, NEW m \in Nat \ {0}
  PROVE  x \div m \in Int /\ x % m \in Nat /\ x % m < m /\ x = m * (x \div m) + (x % m)
OBVIOUS

\* There is only one.
LEMMA Quotient ==
  ASSUME NEW m \in Nat \ {0}, NEW q \in Int, NEW r \in Nat, r < m,
         NEW x \in Int, x = m * q + r
  PROVE  x \div m = q /\ x % m = r
<1>. DEFINE p == x \div m
            s == x % m
<1>1. p \in Int /\ s \in Nat /\ s < m /\ m * p + s = m * q + r
  BY Divided
<1>. HIDE DEF p, s
<1>2. ASSUME p < q PROVE FALSE
  <2>1. PICK d \in Nat \ {0} : q = p + d
    BY <1>1, <1>2
  <2>2. m * q = m * p + m * d /\ m * d >= m
    BY <1>1, <2>1
  <2>. QED
    BY <1>1, <2>2
<1>3. ASSUME q < p PROVE FALSE
  <2>1. PICK d \in Nat \ {0} : p = q + d
    BY <1>1, <1>3
  <2>2. m * p = m * q + m * d /\ m * d >= m
    BY <1>1, <2>1
  <2>. QED
    BY <1>1, <2>2
<1>4. p = q
  BY <1>1, <1>2, <1>3
<1>. QED
  BY <1>1, <1>4 DEF p, s

\* Multiples of the divisor do not count.
LEMMA MultipleGone ==
  ASSUME NEW m \in Nat \ {0}, NEW y \in Int, NEW z \in Int
  PROVE  (m * y + z) % m = z % m /\ (z + m * y) % m = z % m
         /\ (m * y + z) \div m = y + (z \div m)
<1>. DEFINE q == z \div m
            r == z % m
<1>1. q \in Int /\ r \in Nat /\ r < m /\ z = m * q + r
  BY Divided
<1>. HIDE DEF q, r
<1>2. m * (y + q) = m * y + m * q
  BY <1>1
<1>. DEFINE x == m * y + z
<1>3. y + q \in Int /\ x = m * (y + q) + r /\ x \in Int
  BY <1>1, <1>2
<1>4. z + m * y = x
  BY <1>1
<1>. HIDE DEF x
<1>5. x \div m = y + q /\ x % m = r
  BY <1>1, <1>3, Quotient
<1>. QED
  BY <1>4, <1>5 DEF q, r, x

\* Numbers with the same remainder.
Same(a, b, m) == a % m = b % m

\* They differ by a multiple.
LEMMA SameRemainder ==
  ASSUME NEW m \in Nat \ {0}, NEW a \in Int, NEW b \in Int
  PROVE  a % m = b % m <=> \E k \in Int : a = b + m * k
<1>1. ASSUME a % m = b % m PROVE \E k \in Int : a = b + m * k
  <2>. DEFINE p == a \div m
              q == b \div m
              r == b % m
  <2>1. p \in Int /\ q \in Int /\ r \in Nat /\ a = m * p + r /\ b = m * q + r
    BY <1>1, Divided
  <2>. HIDE DEF p, q, r
  <2>2. p - q \in Int /\ m * p = m * q + m * (p - q)
    BY <2>1
  <2>3. a = b + m * (p - q)
    BY <2>1, <2>2
  <2>. QED
    BY <2>2, <2>3
<1>2. ASSUME NEW k \in Int, a = b + m * k PROVE a % m = b % m
  BY <1>2, MultipleGone
<1>. QED
  BY <1>1, <1>2

\* Cutting at every step or once at the end.
LEMMA Cutting ==
  ASSUME NEW m \in Nat \ {0}, NEW a \in Int, NEW b \in Int, NEW c \in Int
  PROVE  /\ ((a % m) + b) % m = (a + b) % m
         /\ (b + (a % m)) % m = (a + b) % m
         /\ (c * (a % m) + b) % m = (c * a + b) % m
         /\ (b - (a % m)) % m = (b - a) % m
         /\ (a % m) % m = a % m
<1>. DEFINE q == a \div m
            r == a % m
<1>1. q \in Int /\ r \in Nat /\ r < m /\ a = m * q + r
  BY Divided
<1>. HIDE DEF q, r
<1>2. c * a = m * (c * q) + c * r /\ c * q \in Int /\ c * r \in Int /\ c * a \in Int
  BY <1>1
<1>3. a + b = m * q + (r + b) /\ r + b \in Int /\ b + r = r + b
  BY <1>1
<1>4. (a + b) % m = (r + b) % m
  <2>. DEFINE z == r + b
  <2>1. z \in Int /\ a + b = m * q + z
    BY <1>3
  <2>. HIDE DEF z
  <2>2. (a + b) % m = z % m
    <3>1. a + b \in Int /\ \E k \in Int : a + b = z + m * k
      BY <1>1, <2>1
    <3>. QED
      BY <2>1, <3>1, SameRemainder
  <2>. QED
    BY <2>2 DEF z
<1>5. (b - a) % m = (b - r) % m
  <2>. DEFINE z == b - r
              y == -q
  <2>1. y \in Int /\ z \in Int /\ m * y = -(m * q)
    BY <1>1
  <2>2. b - a = m * y + z
    BY <1>1, <2>1
  <2>. HIDE DEF y, z
  <2>3. (b - a) % m = z % m
    <3>1. b - a \in Int /\ \E k \in Int : b - a = z + m * k
      BY <1>1, <2>1, <2>2
    <3>. QED
      BY <2>1, <3>1, SameRemainder
  <2>. QED
    BY <2>3 DEF z
<1>7. (c * a + b) % m = (c * r + b) % m
  <2>. DEFINE z == c * r + b
              y == c * q
  <2>1. y \in Int /\ z \in Int /\ c * a + b = m * y + z
    BY <1>1, <1>2
  <2>. HIDE DEF y, z
  <2>3. (c * a + b) % m = z % m
    <3>1. c * a + b \in Int /\ \E k \in Int : c * a + b = z + m * k
      BY <1>1, <1>2, <2>1
    <3>. QED
      BY <2>1, <3>1, SameRemainder
  <2>. QED
    BY <2>3 DEF z
<1>6. r % m = r
  <2>1. r = m * 0 + r /\ 0 \in Int
    BY <1>1
  <2>. QED
    BY <1>1, <2>1, Quotient
<1>. QED
  BY <1>3, <1>4, <1>5, <1>6, <1>7 DEF r

\* Small numbers are their own remainder.
LEMMA OwnRemainder ==
  ASSUME NEW m \in Nat \ {0}, NEW x \in Nat, x < m
  PROVE  x % m = x /\ x \div m = 0
<1>1. x = m * 0 + x /\ 0 \in Int
  OBVIOUS
<1>. QED
  BY <1>1, Quotient

\* Dividing twice.
Twice(x, m, k) ==
  /\ m * k \in Nat \ {0}
  /\ (x \div m) \div k = x \div (m * k)
  /\ x % (m * k) = m * ((x \div m) % k) + (x % m)
  /\ (x % (m * k)) % m = x % m
  /\ (x % (m * k)) \div m = (x \div m) % k

\* Dividing by m and by k is dividing by their product.
LEMMA DividedTwice ==
  ASSUME NEW m \in Nat \ {0}, NEW k \in Nat \ {0}, NEW x \in Int
  PROVE  Twice(x, m, k)
<1>. DEFINE q == x \div m
            r == x % m
            p == q \div k
            s == q % k
<1>1. q \in Int /\ r \in Nat /\ r < m /\ x = m * q + r
  BY Divided
<1>2. p \in Int /\ s \in Nat /\ s < k /\ q = k * p + s
  BY <1>1, Divided
<1>. HIDE DEF q, r, p, s
<1>3. m * k \in Nat \ {0}
  OBVIOUS
<1>4. m * q = m * (k * p) + m * s /\ m * (k * p) = (m * k) * p
  BY <1>2
<1>5. m * s + r \in Nat /\ m * s + r < m * k
  <2>1. PICK d \in Nat : k = s + 1 + d
    <3>1. k - s - 1 \in Nat /\ k = s + 1 + (k - s - 1)
      BY <1>2
    <3>. QED
      BY <3>1
  <2>2. m * k = m * s + m + m * d /\ m * d \in Nat /\ m * s \in Nat
    BY <1>2, <2>1
  <2>. QED
    BY <1>1, <2>2
<1>6. x = (m * k) * p + (m * s + r)
  <2>1. (m * k) * p \in Int /\ m * s \in Int /\ m * q \in Int
    BY <1>1, <1>2
  <2>. QED
    BY <1>1, <1>4, <2>1
<1>7. x \div (m * k) = p /\ x % (m * k) = m * s + r
  BY <1>2, <1>3, <1>5, <1>6, Quotient
<1>8. (m * s + r) \div m = s /\ (m * s + r) % m = r
  <2>1. m * s + r \in Int /\ s \in Int
    BY <1>2, <1>5
  <2>. QED
    BY <1>1, <1>2, <2>1, Quotient
<1>. QED
  BY <1>3, <1>7, <1>8 DEF p, q, r, s, Twice
\* The same as formulas.
LEMMA QuotientTwice ==
  \A m, k \in Nat \ {0} : \A x \in Int : (x \div m) \div k = x \div (m * k)
<1>. SUFFICES ASSUME NEW m \in Nat \ {0}, NEW k \in Nat \ {0}, NEW x \in Int
              PROVE  (x \div m) \div k = x \div (m * k)
  OBVIOUS
<1>1. Twice(x, m, k)
  BY DividedTwice
<1>. QED
  BY <1>1, Zenon DEF Twice

\* The remainder of a product, in two parts.
LEMMA RemainderParts ==
  \A m, k \in Nat \ {0} : \A x \in Int : x % (m * k) = m * ((x \div m) % k) + (x % m)
<1>. SUFFICES ASSUME NEW m \in Nat \ {0}, NEW k \in Nat \ {0}, NEW x \in Int
              PROVE  x % (m * k) = m * ((x \div m) % k) + (x % m)
  OBVIOUS
<1>1. Twice(x, m, k)
  BY DividedTwice
<1>. QED
  BY <1>1, Zenon DEF Twice

\* Its two parts, taken out again.
LEMMA RemainderTwice ==
  \A m, k \in Nat \ {0} : \A x \in Int :
    (x % (m * k)) % m = x % m /\ (x % (m * k)) \div m = (x \div m) % k
<1>. SUFFICES ASSUME NEW m \in Nat \ {0}, NEW k \in Nat \ {0}, NEW x \in Int
              PROVE  (x % (m * k)) % m = x % m /\ (x % (m * k)) \div m = (x \div m) % k
  OBVIOUS
<1>1. Twice(x, m, k)
  BY DividedTwice
<1>. QED
  BY <1>1, Zenon DEF Twice

\* What is cut off before an addition may be cut off after it.
LEMMA CutSum ==
  \A m \in Nat \ {0} : \A a, b \in Int :
    ((a % m) + b) % m = (a + b) % m /\ (b + (a % m)) % m = (a + b) % m
BY Cutting

\* So it may before a subtraction.
LEMMA CutDifference ==
  \A m \in Nat \ {0} : \A a, b \in Int :
    (b - (a % m)) % m = (b - a) % m /\ ((b % m) - a) % m = (b - a) % m
<1>. SUFFICES ASSUME NEW m \in Nat \ {0}, NEW a \in Int, NEW b \in Int
              PROVE  (b - (a % m)) % m = (b - a) % m /\ ((b % m) - a) % m = (b - a) % m
  OBVIOUS
<1>1. (b - (a % m)) % m = (b - a) % m
  BY Cutting
<1>. DEFINE c == -a
<1>2. c \in Int /\ b % m \in Int /\ (b % m) - a = (b % m) + c /\ b - a = b + c
  BY Divided
<1>. HIDE DEF c
<1>3. ((b % m) + c) % m = (b + c) % m
  BY <1>2, CutSum
<1>. QED
  BY <1>1, <1>2, <1>3

\* So it may before a multiplication.
LEMMA CutProduct ==
  \A m \in Nat \ {0} : \A a, b, c \in Int : (c * (a % m) + b) % m = (c * a + b) % m
BY Cutting

\* Cutting twice is cutting once.
LEMMA CutTwice == \A m \in Nat \ {0} : \A a \in Int : (a % m) % m = a % m /\ a % m \in 0 .. m - 1
<1>. SUFFICES ASSUME NEW m \in Nat \ {0}, NEW a \in Int
              PROVE  (a % m) % m = a % m /\ a % m \in 0 .. m - 1
  OBVIOUS
<1>1. a % m \in Nat /\ a % m < m
  BY Divided
<1>. QED
  BY <1>1, OwnRemainder

\* The powers multiply.
LEMMA PowerSum == \A a, b \in Nat : 2^(a + b) = 2^a * 2^b
BY PowersMultiply

\* They are numbers.
LEMMA PowerType == \A a \in Nat : 2^a \in Nat /\ 2^a \in Int /\ 2^a \in Nat \ {0} /\ 2^a >= 1
BY Pow2

\* They are in the order of their exponents.
LEMMA PowersOrder == \A a, b \in Nat : (a <= b => 2^a <= 2^b) /\ (a < b => 2^a < 2^b)
<1>. SUFFICES ASSUME NEW a \in Nat, NEW b \in Nat, a <= b
              PROVE  2^a <= 2^b /\ (a < b => 2^a < 2^b)
  OBVIOUS
<1>1. 2^a <= 2^b /\ (a < b => 2 * 2^a <= 2^b) /\ 2^a \in Nat \ {0} /\ 2^b \in Nat
  BY PowersGrow
<1>. QED
  BY <1>1

\* Two recursions that take the same steps from the same start.
StepsAlike(f, g, n) == f[0] = g[0] /\ \A k \in 1 .. n : f[k-1] = g[k-1] => f[k] = g[k]
\* Two functions agree on the first numbers.
Agree(f, g, n) == \A k \in 0 .. n : f[k] = g[k]

\* Functions that begin alike and take the same steps agree.
LEMMA SameSteps ==
  ASSUME NEW n \in Nat, NEW f, NEW g, StepsAlike(f, g, n)
  PROVE  Agree(f, g, n)
<1>. DEFINE S == {k \in Nat : k <= n => f[k] = g[k]}
<1>1. 0 \in S
  BY DEF StepsAlike
<1>2. ASSUME NEW k \in Nat, k \in S PROVE k + 1 \in S
  <2>. SUFFICES ASSUME k + 1 <= n PROVE f[k + 1] = g[k + 1]
    OBVIOUS
  <2>1. k + 1 \in 1 .. n /\ (k + 1) - 1 = k /\ f[k] = g[k]
    BY <1>2
  <2>. QED
    BY <2>1 DEF StepsAlike
<1>. HIDE DEF S
<1>3. Nat \subseteq S
  BY <1>1, <1>2, SetInduction
<1>. QED
  BY <1>3 DEF S, Agree

\* The first k of n digits of s bits, and the number they are, kept modulo m.
Leading(x, s, n, k) == x \div 2^(s * (n - k))
\* Digit k of n, of s bits each, the highest first.
Digit(x, s, n, k) == Leading(x, s, n, k) % 2^s

\* Digits are put together from the first to the last.
Digitwise(x, s, n, m) ==
  /\ Leading(x, s, n, 0) = 0 /\ Leading(x, s, n, n) = x
  /\ \A k \in 1 .. n :
       Leading(x, s, n, k) % m
         = (2^s * (Leading(x, s, n, k - 1) % m) + Digit(x, s, n, k)) % m

\* A number is read digit by digit, on any number of bits.
LEMMA Horner ==
  ASSUME NEW s \in Nat, NEW n \in Nat, NEW x \in Nat, x < 2^(s * n), NEW m \in Nat \ {0}
  PROVE  Digitwise(x, s, n, m)
<1>1. Leading(x, s, n, 0) = 0
  <2>1. s * (n - 0) = s * n /\ s * n \in Nat
    OBVIOUS
  <2>2. 2^(s * n) \in Nat \ {0}
    BY <2>1, Pow2
  <2>. QED
    BY <2>1, <2>2, OwnRemainder DEF Leading
<1>2. Leading(x, s, n, n) = x
  <2>1. s * (n - n) = 0 /\ 2^0 = 1 /\ x \div 1 = x
    OBVIOUS
  <2>. QED
    BY <2>1 DEF Leading
<1>3. ASSUME NEW k \in 1 .. n
      PROVE  Leading(x, s, n, k) % m
               = (2^s * (Leading(x, s, n, k - 1) % m) + Digit(x, s, n, k)) % m
  <2>. DEFINE a == 2^(s * (n - k))
              b == 2^s
  <2>1. s * (n - k) \in Nat /\ s * (n - (k - 1)) = s * (n - k) + s
    <3>1. PICK j \in Nat : n - k = j
      OBVIOUS
    <3>2. n - (k - 1) = j + 1 /\ s * (j + 1) = s * j + s /\ s * j \in Nat
      BY <3>1
    <3>. QED
      BY <3>1, <3>2
  <2>2. a \in Nat \ {0} /\ b \in Nat \ {0} /\ 2^(s * (n - (k - 1))) = a * b
    <3>. DEFINE e == s * (n - k)
    <3>1. e \in Nat /\ s * (n - (k - 1)) = e + s
      BY <2>1
    <3>. HIDE DEF e
    <3>2. 2^(e + s) = 2^e * 2^s
      BY <3>1, PowersMultiply
    <3>3. 2^e \in Nat \ {0} /\ 2^s \in Nat \ {0}
      BY <3>1, Pow2
    <3>. QED
      BY <3>1, <3>2, <3>3 DEF e
  <2>. DEFINE q == x \div a
              p == q \div b
              d == q % b
  <2>3. Leading(x, s, n, k) = q /\ Leading(x, s, n, k - 1) = x \div (a * b)
        /\ Digit(x, s, n, k) = d
    BY <2>2 DEF Leading, Digit
  <2>. HIDE DEF a, b
  <2>4. x \div (a * b) = p /\ q \in Int
    <3>1. x \in Int
      OBVIOUS
    <3>2. (x \div a) \div b = x \div (a * b)
      BY <2>2, <3>1, QuotientTwice, Zenon
    <3>3. x \div a \in Int
      BY <2>2, <3>1, Divided
    <3>. QED
      BY <3>2, <3>3
  <2>. HIDE DEF q
  <2>5. q = b * p + d /\ p \in Int /\ d \in Int
    BY <2>2, <2>4, Divided
  <2>. HIDE DEF p, d
  <2>6. (b * (p % m) + d) % m = (b * p + d) % m
    <3>1. b \in Int
      BY <2>2
    <3>. QED
      BY <2>5, <3>1, CutProduct
  <2>. QED
    BY <2>3, <2>4, <2>5, <2>6 DEF b
<1>. QED
  BY <1>1, <1>2, <1>3 DEF Digitwise

-----------------------------------------------------------------------------
(***************************************************************************)
(* Fields of bits, numbers of bytes and varints, read back.                *)
(***************************************************************************)
\* The bits of a byte.
LEMMA BitsOfByte ==
  ASSUME NEW b \in [0 .. 7 -> {0, 1}]
  PROVE  \A i \in 0 .. 7 :
           ((128 * b[0] + 64 * b[1] + 32 * b[2] + 16 * b[3] + 8 * b[4] + 4 * b[5] + 2 * b[6] + b[7])
              \div 2^(7 - i)) % 2 = b[i]
<1>1. /\ b[0] \in {0, 1} /\ b[1] \in {0, 1} /\ b[2] \in {0, 1} /\ b[3] \in {0, 1}
      /\ b[4] \in {0, 1} /\ b[5] \in {0, 1} /\ b[6] \in {0, 1} /\ b[7] \in {0, 1}
  OBVIOUS
<1>. DEFINE x == 128 * b[0] + 64 * b[1] + 32 * b[2] + 16 * b[3] + 8 * b[4] + 4 * b[5] + 2 * b[6] + b[7]
<1>2. /\ (x \div 128) % 2 = b[0] /\ (x \div 64) % 2 = b[1] /\ (x \div 32) % 2 = b[2]
      /\ (x \div 16) % 2 = b[3] /\ (x \div 8) % 2 = b[4] /\ (x \div 4) % 2 = b[5]
      /\ (x \div 2) % 2 = b[6] /\ (x \div 1) % 2 = b[7]
  BY <1>1
<1>. HIDE DEF x
<1>3. /\ 2^(7 - 0) = 128 /\ 2^(7 - 1) = 64 /\ 2^(7 - 2) = 32 /\ 2^(7 - 3) = 16
      /\ 2^(7 - 4) = 8 /\ 2^(7 - 5) = 4 /\ 2^(7 - 6) = 2 /\ 2^(7 - 7) = 1
  OBVIOUS
<1>4. \A i \in 0 .. 7 : i = 0 \/ i = 1 \/ i = 2 \/ i = 3 \/ i = 4 \/ i = 5 \/ i = 6 \/ i = 7
  OBVIOUS
<1>5. /\ (x \div 2^(7 - 0)) % 2 = b[0] /\ (x \div 2^(7 - 1)) % 2 = b[1]
      /\ (x \div 2^(7 - 2)) % 2 = b[2] /\ (x \div 2^(7 - 3)) % 2 = b[3]
      /\ (x \div 2^(7 - 4)) % 2 = b[4] /\ (x \div 2^(7 - 5)) % 2 = b[5]
      /\ (x \div 2^(7 - 6)) % 2 = b[6] /\ (x \div 2^(7 - 7)) % 2 = b[7]
  BY <1>2, <1>3, Zenon
<1>6. \A i \in 0 .. 7 : (x \div 2^(7 - i)) % 2 = b[i]
  <2>. DEFINE bit(i) == (x \div 2^(7 - i)) % 2
  <2>1. /\ bit(0) = b[0] /\ bit(1) = b[1] /\ bit(2) = b[2] /\ bit(3) = b[3]
        /\ bit(4) = b[4] /\ bit(5) = b[5] /\ bit(6) = b[6] /\ bit(7) = b[7]
    BY <1>5, Zenon
  <2>2. \A i \in 0 .. 7 : bit(i) = b[i]
    <3>. HIDE DEF bit
    <3>. QED
      BY <1>4, <2>1
  <2>. QED
    BY <2>2
<1>. QED
  BY <1>6 DEF x

\* Bit n of the numbers that are packed.
BitOf(vs, width, n) == (vs[n \div width + 1] \div 2^(width - 1 - (n % width))) % 2

\* A bit is 0 or 1, of one of the values.
LEMMA BitIsBit ==
  ASSUME NEW vs \in Seq(Nat), NEW width \in Nat \ {0}, NEW n \in Nat, n < Len(vs) * width
  PROVE  BitOf(vs, width, n) \in {0, 1} /\ n \div width \in 0 .. Len(vs) - 1 /\ n % width \in 0 .. width - 1
<1>. DEFINE q == n \div width
            e == n % width
            l == Len(vs)
<1>0. l \in Nat
  OBVIOUS
<1>1. q \in Int /\ e \in Nat /\ e < width /\ n = width * q + e
  BY Divided
<1>. HIDE DEF q, e
<1>2. q >= 0
  <2>. SUFFICES ASSUME q <= -1 PROVE FALSE
    BY <1>1
  <2>1. PICK p \in Nat : q = -1 - p
    BY <1>1
  <2>2. width * q = -width - width * p /\ width * p >= 0
    BY <2>1
  <2>. QED
    BY <1>1, <2>2
<1>3. q < l
  <2>. SUFFICES ASSUME q >= l PROVE FALSE
    BY <1>0, <1>1
  <2>1. PICK p \in Nat : q = l + p
    BY <1>0, <1>1
  <2>. HIDE DEF l
  <2>2. width * q = l * width + width * p /\ width * p >= 0
    BY <1>0, <2>1
  <2>. QED
    BY <1>0, <1>1, <2>2 DEF l
<1>4. q + 1 \in 1 .. Len(vs) /\ vs[q + 1] \in Nat
  BY <1>0, <1>1, <1>2, <1>3
<1>5. 2^(width - 1 - e) \in Nat \ {0}
  <2>1. width - 1 - e \in Nat
    BY <1>1
  <2>. QED
    BY <2>1, Pow2
<1>6. (vs[q + 1] \div 2^(width - 1 - e)) % 2 \in {0, 1}
  <2>. DEFINE y == vs[q + 1] \div 2^(width - 1 - e)
  <2>1. y \in Int
    <3>1. \A c \in Nat : \A d \in Nat \ {0} : c \div d \in Int
      BY Divided
    <3>. QED
      BY <1>4, <1>5, <3>1, Zenon
  <2>. HIDE DEF y
  <2>2. y % 2 \in {0, 1}
    BY <2>1
  <2>. QED
    BY <2>2 DEF y
<1>. QED
  BY <1>0, <1>1, <1>2, <1>3, <1>6 DEF BitOf, q, e

\* Packing values puts each bit in its place.
LEMMA BitOfPacked ==
  ASSUME NEW vs \in Seq(Nat), NEW width \in Nat \ {0}, NEW n \in Nat, n < Len(vs) * width
  PROVE  /\ BitAt(Packed(vs, width), n) = BitOf(vs, width, n)
         /\ n \div 8 + 1 \in 1 .. CeilDiv(Len(vs) * width, 8)
<1>. DEFINE max == Len(vs) * width
            bit(k) == IF k < max THEN BitOf(vs, width, k) ELSE 0
            j == n \div 8
            i == n % 8
            b == [c \in 0 .. 7 |-> bit(8*j + c)]
            x == 128 * b[0] + 64 * b[1] + 32 * b[2] + 16 * b[3] + 8 * b[4] + 4 * b[5] + 2 * b[6] + b[7]
<1>1. max \in Nat
  BY Product
<1>2. j \in Nat /\ i \in 0 .. 7 /\ n = 8 * j + i /\ j + 1 \in 1 .. CeilDiv(max, 8)
  <2>. HIDE DEF max
  <2>1. n < max
    BY DEF max
  <2>. QED
    BY <1>1, <2>1 DEF CeilDiv
<1>3. Packed(vs, width)[j + 1] = x
  <2>1. Packed(vs, width)[j + 1]
          = 128 * bit(8*j) + 64 * bit(8*j + 1) + 32 * bit(8*j + 2) + 16 * bit(8*j + 3)
              + 8 * bit(8*j + 4) + 4 * bit(8*j + 5) + 2 * bit(8*j + 6) + bit(8*j + 7)
    <3>1. (j + 1) - 1 = j /\ j + 1 \in 1 .. CeilDiv(max, 8)
      BY <1>2
    <3>. HIDE DEF j
    <3>. QED
      BY <3>1 DEF Packed, BitOf
  <2>2. 8*j + 0 = 8*j
    BY <1>2
  <2>3. /\ b[0] = bit(8*j) /\ b[1] = bit(8*j + 1) /\ b[2] = bit(8*j + 2) /\ b[3] = bit(8*j + 3)
        /\ b[4] = bit(8*j + 4) /\ b[5] = bit(8*j + 5) /\ b[6] = bit(8*j + 6) /\ b[7] = bit(8*j + 7)
    <3>. HIDE DEF bit, j
    <3>. QED
      BY <2>2
  <2>. HIDE DEF bit, b, j
  <2>. QED
    BY <2>1, <2>3
<1>4. b \in [0 .. 7 -> {0, 1}]
  <2>. SUFFICES ASSUME NEW c \in 0 .. 7 PROVE bit(8*j + c) \in {0, 1}
    OBVIOUS
  <2>1. CASE 8*j + c < max
    <3>1. 8*j + c \in Nat
      BY <1>2
    <3>2. BitOf(vs, width, 8*j + c) \in {0, 1}
      BY <2>1, <3>1, BitIsBit
    <3>. QED
      BY <2>1, <3>2
  <2>2. CASE ~(8*j + c < max)
    BY <2>2
  <2>. QED
    BY <2>1, <2>2
<1>5. b[i] = BitOf(vs, width, n)
  <2>1. n < max /\ 8*j + i = n
    BY <1>2
  <2>2. b[i] = bit(8*j + i)
    BY <1>2
  <2>. QED
    BY <2>1, <2>2
<1>. HIDE DEF b, i, j
<1>6. (x \div 2^(7 - i)) % 2 = b[i]
  BY <1>2, <1>4, BitsOfByte
<1>. QED
  BY <1>2, <1>3, <1>5, <1>6 DEF BitAt, i, j

\* The fields of a packed array are read as they were packed.
PackedIn(bytes, at, vs, width) ==
  \A j \in 1 .. CeilDiv(Len(vs) * width, 8) : bytes[at + j] = Packed(vs, width)[j]

\* It is found there again.
LEMMA BitRead ==
  ASSUME NEW vs \in Seq(Nat), NEW width \in Nat \ {0}, NEW bytes, NEW at \in Nat,
         PackedIn(bytes, at, vs, width), NEW n \in Nat, n < Len(vs) * width
  PROVE  BitAt(bytes, 8 * at + n) = BitOf(vs, width, n)
<1>. DEFINE j == n \div 8 + 1
<1>1. /\ (8 * at + n) \div 8 + 1 = at + j /\ (8 * at + n) % 8 = n % 8
  OBVIOUS
<1>2. BitAt(Packed(vs, width), n) = BitOf(vs, width, n) /\ j \in 1 .. CeilDiv(Len(vs) * width, 8)
  BY BitOfPacked
<1>3. bytes[at + j] = Packed(vs, width)[j]
  BY <1>2 DEF PackedIn
<1>. QED
  BY <1>1, <1>2, <1>3 DEF BitAt

\* A field is read back, cut to the width of the type.
LEMMA FieldRead ==
  ASSUME NEW vs \in Seq(Nat), NEW width \in Nat \ {0}, NEW bytes, NEW at \in Nat,
         PackedIn(bytes, at, vs, width),
         NEW i \in 0 .. Len(vs) - 1, vs[i + 1] < 2^width, NEW w \in Nat
  PROVE  Field(bytes, at, width, i, w) = vs[i + 1] % 2^w
<1>. DEFINE x == vs[i + 1]
            m == 2^w
            bit(k) == BitAt(bytes, 8 * at + i * width + k)
            step(h, k) == IF k = 0 THEN 0 ELSE (2 * h[k-1] + bit(k-1)) % 2^w
            f == CHOOSE h : h = [k \in 0 .. width |-> step(h, k)]
            g == [k \in 0 .. width |-> Leading(x, 1, width, k) % m]
<1>0. x \in Nat /\ m \in Nat \ {0} /\ i \in Nat /\ Len(vs) \in Nat
  <2>1. i + 1 \in 1 .. Len(vs) /\ Len(vs) \in Nat
    OBVIOUS
  <2>2. x \in Nat
    BY <2>1
  <2>. QED
    BY <2>1, <2>2, Pow2
<1>1. ASSUME NEW k \in 1 .. width PROVE bit(k-1) = Digit(x, 1, width, k)
  <2>. DEFINE n == i * width + (k - 1)
  <2>1. i * width \in Nat /\ k - 1 \in Nat /\ k - 1 < width /\ n \in Nat
    BY <1>0, Product
  <2>2. n < Len(vs) * width
    <3>1. PICK d \in Nat : Len(vs) = i + 1 + d
      <4>1. Len(vs) - i - 1 \in Nat /\ Len(vs) = i + 1 + (Len(vs) - i - 1)
        BY <1>0
      <4>. QED
        BY <4>1
    <3>. DEFINE l == Len(vs)
    <3>2. l = i + 1 + d
      BY <3>1
    <3>. HIDE DEF l
    <3>3. l * width = i * width + width + d * width /\ d * width \in Nat
      BY <1>0, <3>2
    <3>4. n < l * width
      BY <2>1, <3>3
    <3>. QED
      BY <3>4 DEF l
  <2>3. n \div width = i /\ n % width = k - 1
    <3>. DEFINE c == k - 1
    <3>1. n = width * i + c /\ i \in Int /\ n \in Int /\ c \in Nat /\ c < width
      BY <1>0, <2>1
    <3>. HIDE DEF n, c
    <3>2. n \div width = i /\ n % width = c
      BY <3>1, Quotient
    <3>. QED
      BY <3>2 DEF c
  <2>4. 8 * at + i * width + (k - 1) = 8 * at + n
    BY <1>0, <2>1
  <2>5. bit(k-1) = BitOf(vs, width, n)
    <3>. HIDE DEF n
    <3>1. BitAt(bytes, 8 * at + n) = BitOf(vs, width, n)
      BY <2>1, <2>2, BitRead
    <3>. QED
      BY <2>4, <3>1
  <2>6. width - 1 - (k - 1) = 1 * (width - k) /\ 2^1 = 2
    OBVIOUS
  <2>. HIDE DEF n, bit
  <2>7. BitOf(vs, width, n) = (x \div 2^(1 * (width - k))) % 2
    BY <2>3, <2>6 DEF BitOf
  <2>. HIDE DEF x
  <2>. QED
    BY <2>5, <2>6, <2>7 DEF Digit, Leading
<1>. HIDE DEF bit
<1>2. x < 2^(1 * width)
  BY <1>0
<1>. HIDE DEF x, m
<1>3. /\ Leading(x, 1, width, 0) = 0 /\ Leading(x, 1, width, width) = x
      /\ \A k \in 1 .. width :
           Leading(x, 1, width, k) % m
             = (2^1 * (Leading(x, 1, width, k - 1) % m) + Digit(x, 1, width, k)) % m
  <2>1. 1 \in Nat /\ width \in Nat
    OBVIOUS
  <2>2. Digitwise(x, 1, width, m)
    BY <1>0, <1>2, <2>1, Horner, Zenon
  <2>. QED
    BY <2>2, Zenon DEF Digitwise
<1>4. g[0] = 0 /\ g[width] = x % m
  <2>1. 0 % m = 0 /\ 0 \in 0 .. width /\ width \in 0 .. width
    BY <1>0, OwnRemainder
  <2>. QED
    BY <1>3, <2>1
<1>5. \A k \in 1 .. width : g[k] = (2 * g[k-1] + bit(k-1)) % 2^w
  <2>. SUFFICES ASSUME NEW k \in 1 .. width PROVE g[k] = (2 * g[k-1] + bit(k-1)) % 2^w
    OBVIOUS
  <2>1. k \in 0 .. width /\ k - 1 \in 0 .. width /\ 2^1 = 2
    OBVIOUS
  <2>2. g[k] = Leading(x, 1, width, k) % m /\ g[k-1] = Leading(x, 1, width, k - 1) % m
    BY <2>1
  <2>. HIDE DEF g
  <2>. QED
    BY <1>1, <1>3, <2>1, <2>2 DEF m
<1>6. g = [k \in 0 .. width |-> step(g, k)]
  <2>1. \A k \in 0 .. width : g[k] = step(g, k)
    <3>1. \A k \in 0 .. width : k = 0 \/ k \in 1 .. width
      OBVIOUS
    <3>. HIDE DEF g
    <3>. QED
      BY <1>4, <1>5, <3>1
  <2>2. g = [k \in 0 .. width |-> g[k]]
    OBVIOUS
  <2>. HIDE DEF step, g
  <2>. QED
    BY <2>1, <2>2, Zenon
<1>. HIDE DEF g
<1>7. f = [k \in 0 .. width |-> step(f, k)]
  BY <1>6, Zenon
<1>8. Field(bytes, at, width, i, w) = f[width]
  BY Zenon DEF Field, bit
<1>. HIDE DEF f
<1>9. \A k \in 0 .. width : f[k] = step(f, k)
  <2>. DEFINE h == [k \in 0 .. width |-> step(f, k)]
  <2>1. \A k \in 0 .. width : h[k] = step(f, k)
    OBVIOUS
  <2>2. f = h
    BY <1>7
  <2>. HIDE DEF h
  <2>. QED
    BY <2>1, <2>2, Zenon
<1>10. \A k \in 0 .. width : f[k] = g[k]
  <2>1. f[0] = g[0]
    BY <1>4, <1>9
  <2>2. \A k \in 1 .. width : f[k-1] = g[k-1] => f[k] = g[k]
    <3>. SUFFICES ASSUME NEW k \in 1 .. width, f[k-1] = g[k-1] PROVE f[k] = g[k]
      OBVIOUS
    <3>1. k \in 0 .. width /\ k # 0
      OBVIOUS
    <3>. QED
      BY <1>5, <1>9, <3>1
  <2>3. width \in Nat
    OBVIOUS
  <2>. HIDE DEF step
  <2>4. StepsAlike(f, g, width)
    BY <2>1, <2>2, Zenon DEF StepsAlike
  <2>5. Agree(f, g, width)
    BY <2>3, <2>4, SameSteps
  <2>. QED
    BY <2>5, Zenon DEF Agree
<1>. QED
  BY <1>4, <1>8, <1>10 DEF x, m

\* A number of whole bytes.
LEMMA LongRead ==
  ASSUME NEW x \in Nat, NEW n \in Nat, x < 2^(8 * n), W \in Nat, NEW at,
         \A k \in 1 .. n : data[at + k] = Digit(x, 8, n, k)
  PROVE  readLongBE(at, n) = x % 2^W
<1>. DEFINE m == 2^W
            step(h, k) == IF k = 0 THEN 0 ELSE (256 * h[k-1] + data[at + k]) % 2^W
            f == CHOOSE h : h = [k \in 0 .. n |-> step(h, k)]
            g == [k \in 0 .. n |-> Leading(x, 8, n, k) % m]
<1>0. m \in Nat \ {0}
  BY Pow2
<1>. HIDE DEF m
<1>3. Digitwise(x, 8, n, m)
  <2>1. 8 \in Nat
    OBVIOUS
  <2>. QED
    BY <1>0, <2>1, Horner, Zenon
<1>4. g[0] = 0 /\ g[n] = x % m
  <2>1. 0 % m = 0 /\ 0 \in 0 .. n /\ n \in 0 .. n
    BY <1>0, OwnRemainder
  <2>. QED
    BY <1>3, <2>1 DEF Digitwise
<1>5. \A k \in 1 .. n : g[k] = (256 * g[k-1] + data[at + k]) % 2^W
  <2>. SUFFICES ASSUME NEW k \in 1 .. n PROVE g[k] = (256 * g[k-1] + data[at + k]) % 2^W
    OBVIOUS
  <2>1. k \in 0 .. n /\ k - 1 \in 0 .. n /\ 2^8 = 256
    OBVIOUS
  <2>2. g[k] = Leading(x, 8, n, k) % m /\ g[k-1] = Leading(x, 8, n, k - 1) % m
    BY <2>1
  <2>. HIDE DEF g
  <2>3. Leading(x, 8, n, k) % m = (2^8 * (Leading(x, 8, n, k - 1) % m) + Digit(x, 8, n, k)) % m
    BY <1>3, Zenon DEF Digitwise
  <2>. QED
    BY <2>1, <2>2, <2>3 DEF m
<1>6. g = [k \in 0 .. n |-> step(g, k)]
  <2>1. \A k \in 0 .. n : g[k] = step(g, k)
    <3>1. \A k \in 0 .. n : k = 0 \/ k \in 1 .. n
      OBVIOUS
    <3>. HIDE DEF g
    <3>. QED
      BY <1>4, <1>5, <3>1
  <2>2. g = [k \in 0 .. n |-> g[k]]
    OBVIOUS
  <2>. HIDE DEF step, g
  <2>. QED
    BY <2>1, <2>2, Zenon
<1>. HIDE DEF g
<1>7. f = [k \in 0 .. n |-> step(f, k)]
  <2>. HIDE DEF step
  <2>. QED
    BY <1>6, Zenon
<1>8. readLongBE(at, n) = f[n]
  BY Zenon DEF readLongBE
<1>. HIDE DEF f
<1>9. \A k \in 0 .. n : f[k] = step(f, k)
  <2>. DEFINE h == [k \in 0 .. n |-> step(f, k)]
  <2>1. \A k \in 0 .. n : h[k] = step(f, k)
    OBVIOUS
  <2>2. f = h
    BY <1>7
  <2>. HIDE DEF h
  <2>. QED
    BY <2>1, <2>2, Zenon
<1>10. Agree(f, g, n)
  <2>1. f[0] = g[0]
    BY <1>4, <1>9
  <2>2. \A k \in 1 .. n : f[k-1] = g[k-1] => f[k] = g[k]
    <3>. SUFFICES ASSUME NEW k \in 1 .. n, f[k-1] = g[k-1] PROVE f[k] = g[k]
      OBVIOUS
    <3>1. k \in 0 .. n /\ k # 0
      OBVIOUS
    <3>. QED
      BY <1>5, <1>9, <3>1
  <2>3. StepsAlike(f, g, n)
    BY <2>1, <2>2, Zenon DEF StepsAlike
  <2>. QED
    BY <2>3, SameSteps
<1>11. f[n] = g[n]
  BY <1>10 DEF Agree
<1>. QED
  BY <1>4, <1>8, <1>11 DEF m

\* A number in groups of seven bits, least significant first.
LEMMA LowGroups ==
  ASSUME NEW x \in Nat, NEW m \in Nat \ {0}, NEW k \in Nat
  PROVE  (((x % 2^(7*k)) % m) + ((x \div 2^(7*k)) % 128) * 2^(7*k)) % m = (x % 2^(7*(k + 1))) % m
<1>. DEFINE a == 2^(7*k)
            q == (x \div a) % 128
            r == x % a
<1>1. a \in Nat \ {0} /\ 2^(7*(k + 1)) = a * 128
  <2>. DEFINE e == 7*k
  <2>1. e \in Nat /\ 7*(k + 1) = e + 7 /\ 2^7 = 128 /\ 7 \in Nat
    OBVIOUS
  <2>2. e \in Nat
    BY <2>1
  <2>. HIDE DEF e
  <2>3. 2^(e + 7) = 2^e * 2^7
    BY <2>2, PowerSum
  <2>4. 2^e \in Nat \ {0}
    BY <2>2, PowerType
  <2>. QED
    BY <2>1, <2>3, <2>4 DEF e
<1>. HIDE DEF a
<1>2. q \in Nat /\ r \in Nat
  <2>1. x \div a \in Int /\ r \in Nat
    BY <1>1, Divided
  <2>. HIDE DEF r
  <2>. QED
    BY <2>1
<1>3. x % (a * 128) = a * q + r
  <2>1. 128 \in Nat \ {0} /\ x \in Int
    OBVIOUS
  <2>. QED
    BY <1>1, <2>1, RemainderParts, Zenon
<1>. HIDE DEF q, r
<1>4. ((r % m) + q * a) % m = (r + q * a) % m
  <2>. DEFINE b == q * a
  <2>1. b \in Int /\ r \in Int
    BY <1>1, <1>2
  <2>. HIDE DEF b
  <2>2. ((r % m) + b) % m = (r + b) % m
    BY <2>1, CutSum
  <2>. QED
    BY <2>2 DEF b
<1>5. r + q * a = a * q + r
  BY <1>1, <1>2
<1>. QED
  BY <1>1, <1>3, <1>4, <1>5 DEF a, q, r

\* A varint is read back, cut to the width of the type.
LEMMA VarintRead ==
  ASSUME NEW x \in Nat, NEW n \in Nat, x < 2^(7 * n), W \in Nat, NEW at, VarintLength(at) = n,
         \A k \in 1 .. n : data[at + k] % 128 = (x \div 2^(7*(k-1))) % 128
  PROVE  readVulong(at) = x % 2^W
<1>. DEFINE m == 2^W
            step(h, k) == IF k = 0 THEN 0
                          ELSE (h[k-1] + (data[at + k] % 128) * 2^(7 * (k-1))) % 2^W
            f == CHOOSE h : h = [k \in 0 .. n |-> step(h, k)]
            g == [k \in 0 .. n |-> (x % 2^(7*k)) % m]
<1>0. m \in Nat \ {0}
  BY Pow2
<1>. HIDE DEF m
<1>4. g[0] = 0 /\ g[n] = x % m
  <2>1. 0 \in 0 .. n /\ n \in 0 .. n /\ 2^(7*0) = 1 /\ x % 1 = 0 /\ 7 * n \in Nat
    OBVIOUS
  <2>2. 0 % m = 0
    BY <1>0, OwnRemainder
  <2>3. 2^(7*n) \in Nat \ {0}
    BY <2>1, Pow2
  <2>4. x % 2^(7*n) = x
    BY <2>3, OwnRemainder
  <2>. QED
    BY <2>1, <2>2, <2>4
<1>5. \A k \in 1 .. n : g[k] = (g[k-1] + (data[at + k] % 128) * 2^(7 * (k-1))) % 2^W
  <2>. SUFFICES ASSUME NEW k \in 1 .. n
                PROVE  g[k] = (g[k-1] + (data[at + k] % 128) * 2^(7 * (k-1))) % 2^W
    OBVIOUS
  <2>. DEFINE j == k - 1
  <2>1. k \in 0 .. n /\ j \in 0 .. n /\ j \in Nat /\ j + 1 = k
    OBVIOUS
  <2>. HIDE DEF j
  <2>2. g[k] = (x % 2^(7*k)) % m /\ g[j] = (x % 2^(7*j)) % m
    BY <2>1
  <2>. HIDE DEF g
  <2>3. (((x % 2^(7*j)) % m) + ((x \div 2^(7*j)) % 128) * 2^(7*j)) % m = (x % 2^(7*(j + 1))) % m
    BY <1>0, <2>1, LowGroups
  <2>4. data[at + k] % 128 = (x \div 2^(7*j)) % 128
    BY DEF j
  <2>5. g[k] = (g[j] + (data[at + k] % 128) * 2^(7 * j)) % m
    BY <2>1, <2>2, <2>3, <2>4
  <2>. QED
    BY <2>5 DEF j, m
<1>6. g = [k \in 0 .. n |-> step(g, k)]
  <2>1. \A k \in 0 .. n : g[k] = step(g, k)
    <3>1. \A k \in 0 .. n : k = 0 \/ k \in 1 .. n
      OBVIOUS
    <3>. HIDE DEF g
    <3>. QED
      BY <1>4, <1>5, <3>1
  <2>2. g = [k \in 0 .. n |-> g[k]]
    OBVIOUS
  <2>. HIDE DEF step, g
  <2>. QED
    BY <2>1, <2>2, Zenon
<1>. HIDE DEF g
<1>7. f = [k \in 0 .. n |-> step(f, k)]
  <2>. HIDE DEF step
  <2>. QED
    BY <1>6, Zenon
<1>8. readVulong(at) = f[n]
  BY Zenon DEF readVulong
<1>. HIDE DEF f
<1>9. \A k \in 0 .. n : f[k] = step(f, k)
  <2>. DEFINE h == [k \in 0 .. n |-> step(f, k)]
  <2>1. \A k \in 0 .. n : h[k] = step(f, k)
    OBVIOUS
  <2>2. f = h
    BY <1>7
  <2>. HIDE DEF h
  <2>. QED
    BY <2>1, <2>2, Zenon
<1>10. Agree(f, g, n)
  <2>1. f[0] = g[0]
    BY <1>4, <1>9
  <2>2. \A k \in 1 .. n : f[k-1] = g[k-1] => f[k] = g[k]
    <3>. SUFFICES ASSUME NEW k \in 1 .. n, f[k-1] = g[k-1] PROVE f[k] = g[k]
      OBVIOUS
    <3>1. k \in 0 .. n /\ k # 0
      OBVIOUS
    <3>. QED
      BY <1>5, <1>9, <3>1
  <2>3. StepsAlike(f, g, n)
    BY <2>1, <2>2, Zenon DEF StepsAlike
  <2>. QED
    BY <2>3, SameSteps
<1>11. f[n] = g[n]
  BY <1>10 DEF Agree
<1>. QED
  BY <1>4, <1>8, <1>11 DEF m

-----------------------------------------------------------------------------
(***************************************************************************)
(* Numbers of W bits.                                                      *)
(***************************************************************************)
\* The widths of the integers of C++ and LLVM that are decoded.
CWidths == {8, 16, 32, 64}

\* The two halves of a type.
LEMMA Halves ==
  ASSUME NEW w \in CWidths
  PROVE  /\ w \in Nat /\ w >= 8 /\ w - 1 \in Nat
         /\ 2^(w-1) \in Nat \ {0} /\ 2^(w-1) >= 128 /\ 2^w = 2 * 2^(w-1) /\ 2^w \in Nat \ {0}
<1>1. w \in Nat /\ w >= 8 /\ w - 1 \in Nat /\ w = (w - 1) + 1
  BY DEF CWidths
<1>2. 2^(w-1) \in Nat \ {0} /\ 2^w = 2 * 2^(w-1)
  BY <1>1, Pow2
<1>3. 2^7 <= 2^(w-1)
  <2>1. 7 \in Nat /\ 7 <= w - 1
    BY <1>1
  <2>. QED
    BY <1>1, <2>1, PowersOrder
<1>4. 2^7 = 128
  OBVIOUS
<1>. QED
  BY <1>1, <1>2, <1>3, <1>4

\* The signed value of w bits.
LEMMA SignedValue ==
  ASSUME NEW w \in CWidths, NEW x \in Int
  PROVE  ToSigned(x, w) \in Type(w) /\ ToSigned(x, w) \in Int /\ ToSigned(x, w) % 2^w = x % 2^w
<1>. DEFINE h == 2^(w-1)
            m == 2^w
            y == (x + h) % m
<1>1. h \in Nat \ {0} /\ m \in Nat \ {0} /\ m = 2 * h
  BY Halves
<1>2. ToSigned(x, w) = y - h
  BY DEF ToSigned
<1>3. Type(w) = -h .. h - 1
  BY DEF Type
<1>. HIDE DEF h, m
<1>4. y \in Nat /\ y < m
  BY <1>1, Divided
<1>5. (y - h) % m = ((x + h) - h) % m
  <2>1. x + h \in Int /\ h \in Int
    BY <1>1
  <2>. QED
    BY <1>1, <2>1, CutDifference, Zenon
<1>6. (x + h) - h = x
  BY <1>1
<1>. HIDE DEF y
<1>7. y - h \in -h .. h - 1 /\ y - h \in Int
  BY <1>1, <1>4
<1>. QED
  BY <1>2, <1>3, <1>5, <1>6, <1>7 DEF m

\* A number is the same whether or not it is cut first.
LEMMA SignedRemainder ==
  ASSUME NEW w \in CWidths, NEW x \in Int
  PROVE  ToSigned(x % 2^w, w) = ToSigned(x, w)
<1>1. 2^(w-1) \in Int /\ 2^w \in Nat \ {0}
  BY Halves
<1>2. ((x % 2^w) + 2^(w-1)) % 2^w = (x + 2^(w-1)) % 2^w
  BY <1>1, CutSum
<1>. QED
  BY <1>2 DEF ToSigned

\* Two numbers are the same in a type if their remainders are.
LEMMA SameSigned ==
  ASSUME NEW w \in CWidths, NEW x \in Int, NEW y \in Int
  PROVE  ToSigned(x, w) = ToSigned(y, w) <=> x % 2^w = y % 2^w
<1>1. ASSUME x % 2^w = y % 2^w PROVE ToSigned(x, w) = ToSigned(y, w)
  BY <1>1, SignedRemainder
<1>2. ASSUME ToSigned(x, w) = ToSigned(y, w) PROVE x % 2^w = y % 2^w
  BY <1>2, SignedValue
<1>. QED
  BY <1>1, <1>2

\* A number of the type is itself.
LEMMA OwnSigned ==
  ASSUME NEW w \in CWidths, NEW x \in Type(w)
  PROVE  ToSigned(x, w) = x
<1>. DEFINE h == 2^(w-1)
            m == 2^w
<1>1. h \in Nat \ {0} /\ m \in Nat \ {0} /\ m = 2 * h
  BY Halves
<1>2. ToSigned(x, w) = ((x + h) % m) - h
  BY DEF ToSigned
<1>3. x \in -h .. h - 1
  BY DEF Type
<1>. HIDE DEF h, m
<1>4. x + h \in Nat /\ x + h < m
  BY <1>1, <1>3
<1>5. (x + h) % m = x + h
  BY <1>1, <1>4, OwnRemainder
<1>. QED
  BY <1>1, <1>2, <1>3, <1>5

\* Zigzag.
LEMMA ZigZagBack ==
  ASSUME NEW v \in Int
  PROVE  ZigZag(v) \in Nat /\ unZigZag(ZigZag(v)) = v
BY DEF ZigZag, unZigZag

\* What the zig-zag code of a number comes back as, if it fits and if it is
\* one bit too wide.
LEMMA ZigZagFits ==
  ASSUME NEW w \in CWidths, NEW v \in Int
  PROVE  /\ v \in Type(w) => ZigZag(v) < 2^w /\ unZigZag(ZigZag(v) % 2^w) = v
         /\ v < 2^w /\ -v < 2^w => ZigZag(v) < 2 * 2^w
         /\ 2^(w-1) <= v /\ v < 2^w => unZigZag(ZigZag(v) % 2^w) = v - 2^(w-1)
         /\ v < -(2^(w-1)) /\ -v < 2^w => unZigZag(ZigZag(v) % 2^w) = v + 2^(w-1)
<1>. DEFINE h == 2^(w-1)
            m == 2^w
            z == ZigZag(v)
<1>1. h \in Nat \ {0} /\ m \in Nat \ {0} /\ m = 2 * h
  BY Halves
<1>3. Type(w) = -h .. h - 1
  BY DEF Type
<1>4. z \in Nat /\ unZigZag(z) = v
  BY ZigZagBack
<1>. HIDE DEF h, m
<1>5. ASSUME v \in Type(w) PROVE z < m /\ unZigZag(z % m) = v
  <2>1. z < m
    BY <1>1, <1>3, <1>5 DEF ZigZag
  <2>. HIDE DEF z
  <2>2. z % m = z
    BY <1>1, <1>4, <2>1, OwnRemainder
  <2>. QED
    BY <1>4, <2>1, <2>2
<1>6. ASSUME v < m, -v < m PROVE z < 2 * m
  BY <1>1, <1>6 DEF ZigZag
<1>7. ASSUME z >= m, z < 2 * m PROVE z % m = z - m
  <2>1. z = m * 1 + (z - m) /\ z - m \in Nat /\ z - m < m /\ z \in Int /\ 1 \in Int
    BY <1>1, <1>4, <1>7
  <2>. DEFINE c == z - m
  <2>. HIDE DEF z
  <2>2. z = m * 1 + c /\ c \in Nat /\ c < m
    BY <2>1
  <2>. HIDE DEF c
  <2>3. z % m = c
    BY <1>1, <2>1, <2>2, Quotient
  <2>. QED
    BY <2>3 DEF c
<1>8. ASSUME h <= v, v < m PROVE unZigZag(z % m) = v - h
  <2>1. z = 2 * v /\ z >= m /\ z < 2 * m
    BY <1>1, <1>8 DEF ZigZag
  <2>. HIDE DEF z
  <2>2. z % m = 2 * (v - h)
    BY <1>1, <1>7, <2>1
  <2>3. (2 * (v - h)) % 2 = 0 /\ (2 * (v - h)) \div 2 = v - h
    BY <1>1
  <2>. QED
    BY <2>2, <2>3 DEF unZigZag
<1>9. ASSUME v < -h, -v < m PROVE unZigZag(z % m) = v + h
  <2>1. z = -2 * v - 1 /\ z >= m /\ z < 2 * m
    BY <1>1, <1>9 DEF ZigZag
  <2>. HIDE DEF z
  <2>. DEFINE c == -v - 1 - h
  <2>2. z % m = 2 * c + 1 /\ c \in Nat
    BY <1>1, <1>7, <1>9, <2>1
  <2>3. -c - 1 = v + h
    BY <1>1
  <2>. HIDE DEF c
  <2>4. (2 * c + 1) % 2 = 1 /\ (2 * c + 1) \div 2 = c
    BY <2>2
  <2>. QED
    BY <2>2, <2>3, <2>4 DEF unZigZag
<1>. QED
  BY <1>5, <1>6, <1>8, <1>9 DEF h, m, z

-----------------------------------------------------------------------------
(***************************************************************************)
(* Where the fields of a run lie.                                          *)
(***************************************************************************)
\* A part of the bytes.
Part(b, at, t) ==
  at \in Nat /\ Len(t) \in Nat /\ \A j \in 1 .. Len(t) : b[at + j] = t[j]

\* The last part of a sequence.
LEMMA PartLast ==
  ASSUME NEW s, NEW t, IsSeq(s), IsSeq(t), NEW n, n = Len(s)
  PROVE  Part(s \o t, n, t)
<1>1. Joined(s \o t, s, t)
  BY Joins
<1>. QED
  BY <1>1 DEF Joined, Part

\* A part stays where it is if more is written behind.
LEMMA PartKept ==
  ASSUME NEW s, NEW u, IsSeq(s), IsSeq(u), NEW at, NEW t, Part(s, at, t), at + Len(t) <= Len(s)
  PROVE  Part(s \o u, at, t)
<1>1. Joined(s \o u, s, u)
  BY Joins
<1>2. ASSUME NEW j \in 1 .. Len(t) PROVE (s \o u)[at + j] = t[j]
  <2>1. at + j \in 1 .. Len(s)
    BY <1>1 DEF Part, Joined
  <2>. QED
    BY <1>1, <2>1 DEF Part, Joined
<1>. QED
  BY <1>2 DEF Part

\* A part of a run in front of the decoder, in the data.
LEMMA PartPlaced ==
  ASSUME NEW r, Placed(r), NEW at, NEW t, Part(Bytes(r), at, t),
         NEW n \in Nat, n = Len(Bytes(r)), at + Len(t) <= n
  PROVE  Part(data, index + at, t)
<1>1. at \in Nat /\ index \in Nat /\ Len(t) \in Nat
  BY DEF Part, Placed
<1>2. ASSUME NEW j \in 1 .. Len(t) PROVE data[index + at + j] = t[j]
  <2>1. at + j \in 1 .. n /\ index + (at + j) = index + at + j
    BY <1>1
  <2>2. data[index + (at + j)] = Bytes(r)[at + j]
    BY <2>1 DEF Placed
  <2>. QED
    BY <2>1, <2>2 DEF Part
<1>. QED
  BY <1>1, <1>2 DEF Part

\* The number of groups of a number.
VLen(x) == Len(Varint(x))

\* What the bytes of a varint hold.
LEMMA VarintContent ==
  ASSUME NEW x \in Nat, \E n \in 1 .. 10 : x < 2^(7*n)
  PROVE  /\ VLen(x) \in 1 .. 10 /\ IsSeq(Varint(x)) /\ VarintIn(Varint(x), 0, VLen(x))
         /\ x < 2^(7 * VLen(x)) /\ \A m \in 1 .. VLen(x) - 1 : x >= 2^(7*m)
         /\ \A j \in 1 .. VLen(x) : Varint(x)[j] % 128 = (x \div 2^(7*(j-1))) % 128
<1>. DEFINE n == Digits(x, 7, 10)
            b == Varint(x)
<1>1. n \in 1 .. 10 /\ x < 2^(7*n) /\ \A m \in 1 .. n - 1 : x >= 2^(7*m)
  <2>1. \A m \in 1 .. 10 : 2^(7*m) \in Int
    <3>1. \A m \in 1 .. 10 : 7*m \in Nat
      OBVIOUS
    <3>. QED
      BY <3>1, PowerType
  <2>2. 7 \in Nat /\ 10 \in Nat
    OBVIOUS
  <2>. QED
    BY <2>1, <2>2, DigitsInRange
<1>2. b = [j \in 1 .. n |-> ((x \div 2^(7 * (j-1))) % 128) + (IF j < n THEN 128 ELSE 0)]
  BY DEF Varint
<1>. HIDE DEF n, b
<1>3. Len(b) = n /\ \A j \in 1 .. n : b[j] = ((x \div 2^(7 * (j-1))) % 128) + (IF j < n THEN 128 ELSE 0)
  BY <1>1, <1>2
<1>4. ASSUME NEW j \in 1 .. n PROVE b[j] % 128 = (x \div 2^(7*(j-1))) % 128
  <2>. DEFINE q == x \div 2^(7*(j-1))
  <2>1. 7*(j-1) \in Nat
    BY <1>1
  <2>2. 2^(7*(j-1)) \in Nat \ {0}
    BY <2>1, PowerType
  <2>3. q \in Int
    <3>1. \A d \in Nat \ {0} : x \div d \in Int
      BY Divided
    <3>. QED
      BY <2>2, <3>1, Zenon
  <2>4. b[j] = (q % 128) + (IF j < n THEN 128 ELSE 0)
    BY <1>3
  <2>. HIDE DEF q
  <2>5. b[j] % 128 = q % 128
    BY <2>3, <2>4
  <2>. QED
    BY <2>5 DEF q
<1>5. PICK k \in 1 .. 10 : /\ IsSeq(b) /\ Len(b) = k /\ \A j \in 1 .. k : b[j] \in Nat
                           /\ b[k] < 128 /\ \A j \in 1 .. k-1 : b[j] >= 128
  BY VarintBytes, Zenon DEF b
<1>6. VarintIn(b, 0, n)
  BY <1>3, <1>5 DEF VarintIn
<1>7. VLen(x) = n
  BY <1>3 DEF VLen, b
<1>. QED
  BY <1>1, <1>4, <1>5, <1>6, <1>7 DEF b

\* A number of groups is read from where it stands.
LEMMA VarintAt ==
  ASSUME NEW x \in Nat, \E n \in 1 .. 10 : x < 2^(7*n), W \in CWidths,
         NEW at \in Nat, Part(data, at, Varint(x))
  PROVE  VarintLength(at) = VLen(x) /\ readVulong(at) = x % 2^W
<1>. DEFINE n == VLen(x)
<1>1. /\ n \in 1 .. 10 /\ VarintIn(Varint(x), 0, n) /\ x < 2^(7 * n)
      /\ \A j \in 1 .. n : Varint(x)[j] % 128 = (x \div 2^(7*(j-1))) % 128
  BY VarintContent
<1>2. n = Len(Varint(x))
  BY DEF VLen
<1>. HIDE DEF n
<1>3. \A j \in 1 .. n : data[at + j] = Varint(x)[j]
  BY <1>2 DEF Part
<1>4. VarintIn(data, at, n)
  <2>1. n \in 1 .. n /\ \A j \in 1 .. n-1 : j \in 1 .. n
    BY <1>1
  <2>2. \A j \in 1 .. n : 0 + j = j
    BY <1>1
  <2>. QED
    BY <1>1, <1>3, <2>1, <2>2 DEF VarintIn
<1>5. VarintLength(at) = n
  BY <1>1, <1>4, VarintFound, Zenon
<1>6. readVulong(at) = x % 2^W
  <2>1. n \in Nat /\ W \in Nat
    BY <1>1, Halves
  <2>2. \A k \in 1 .. n : data[at + k] % 128 = (x \div 2^(7*(k-1))) % 128
    BY <1>1, <1>3
  <2>. QED
    BY <1>1, <1>5, <2>1, <2>2, VarintRead
<1>. QED
  BY <1>5, <1>6 DEF n

\* How many bytes a number takes.
LEMMA BytesForContent ==
  ASSUME NEW x, \E n \in 1 .. 8 : x \in 0 .. 2^(8*n) - 1
  PROVE  /\ x \in Nat /\ BytesFor(x) \in 1 .. 8 /\ x < 2^(8 * BytesFor(x))
         /\ \A m \in 1 .. BytesFor(x) - 1 : x >= 2^(8*m)
<1>0. \A m \in 1 .. 8 : 2^(8*m) \in Int
  <2>1. \A m \in 1 .. 8 : 8*m \in Nat
    OBVIOUS
  <2>. QED
    BY <2>1, PowerType
<1>1. x \in Nat /\ \E n \in 1 .. 8 : x < 2^(8*n)
  <2>1. PICK n \in 1 .. 8 : x \in 0 .. 2^(8*n) - 1
    OBVIOUS
  <2>2. PICK y \in Int : y = 2^(8*n)
    BY <1>0
  <2>3. x \in Nat /\ x < y
    BY <2>1, <2>2
  <2>4. x < 2^(8*n)
    BY <2>2, <2>3
  <2>. QED
    BY <2>3, <2>4, Zenon
<1>2. 8 \in Nat
  OBVIOUS
<1>. QED
  BY <1>0, <1>1, <1>2, DigitsInRange DEF BytesFor

\* The bytes of the value of a repeated run.
LEMMA RepeatParts ==
  ASSUME NEW r, Placed(r), r.kind = "repeat", NEW x, x = Coded(r.value, IsSigned)
  PROVE  /\ x \in Nat /\ RunWidth(r) \in 1 .. 8 /\ x < 2^(8 * RunWidth(r))
         /\ \A m \in 1 .. RunWidth(r) - 1 : x >= 2^(8*m)
         /\ \A k \in 1 .. RunWidth(r) : data[index + 1 + k] = Digit(x, 8, RunWidth(r), k)
<1>. DEFINE n == BytesFor(x)
            h == <<8 * (n - 1) + r.n - 3>>
            t == BigEndian(x, n)
<1>1. \E m \in 1 .. 8 : x \in 0 .. 2^(8*m) - 1
  BY Zenon DEF Placed, Legal
<1>2. x \in Nat /\ n \in 1 .. 8 /\ x < 2^(8*n) /\ \A m \in 1 .. n - 1 : x >= 2^(8*m)
  BY <1>1, BytesForContent
<1>3. RunWidth(r) = n
  BY DEF RunWidth, Coded
<1>4. Bytes(r) = h \o t
  BY DEF Bytes, RunBytes
<1>. HIDE DEF n
<1>5. IsSeq(h) /\ Len(h) = 1
  <2>1. h = [i \in 1 .. 1 |-> h[i]]
    OBVIOUS
  <2>. QED
    BY <2>1, FunctionIsSeq
<1>6. IsSeq(t) /\ Len(t) = n
  BY <1>2, BigEndianBytes
<1>. HIDE DEF h
<1>7. Part(h \o t, 1, t)
  BY <1>5, <1>6, PartLast
<1>8. Len(Bytes(r)) = 1 + n
  <2>1. Joined(h \o t, h, t)
    BY <1>5, <1>6, Joins
  <2>. QED
    BY <1>4, <1>5, <1>6, <2>1 DEF Joined
<1>9. Part(data, index + 1, t)
  <2>1. Part(Bytes(r), 1, t)
    BY <1>4, <1>7
  <2>2. 1 + n \in Nat /\ 1 + Len(t) <= 1 + n
    BY <1>2, <1>6
  <2>. HIDE DEF t
  <2>. QED
    BY <1>8, <2>1, <2>2, PartPlaced
<1>10. ASSUME NEW k \in 1 .. n PROVE data[index + 1 + k] = Digit(x, 8, n, k)
  <2>1. t[k] = (x \div 2^(8 * (n - k))) % 256 /\ 2^8 = 256
    BY DEF BigEndian
  <2>. HIDE DEF t
  <2>2. data[index + 1 + k] = t[k]
    BY <1>6, <1>9 DEF Part
  <2>. QED
    BY <2>1, <2>2 DEF Digit, Leading
<1>. QED
  BY <1>2, <1>3, <1>10

\* The numbers that are packed, and what a reader makes of them.
Uncoded(u, w, signed) == IF signed THEN unZigZag(u) ELSE ToSigned(u, w)
\* What is read of packed fields.
Fields(vs, signed) == [i \in 1 .. Len(vs) |-> Uncoded(vs[i] % 2^W, W, signed)]
\* Fields wide enough for their values.
Holds(vs, width) == vs \in Seq(Nat) /\ \A i \in 1 .. Len(vs) : vs[i] < 2^width

\* Packed fields are read back.
LEMMA LongsRead ==
  ASSUME NEW vs, NEW width \in Nat \ {0}, Holds(vs, width), W \in CWidths,
         NEW at \in Nat, Part(data, at, Packed(vs, width)), NEW n, n = Len(vs), NEW signed
  PROVE  readLongs(at, n, width, signed) = Fields(vs, signed)
<1>1. vs \in Seq(Nat) /\ n \in Nat /\ W \in Nat
  BY Halves DEF Holds
<1>2. PackedIn(data, at, vs, width)
  <2>1. Len(vs) * width \in Nat
    BY <1>1, Product
  <2>2. Len(Packed(vs, width)) = CeilDiv(Len(vs) * width, 8)
    BY <2>1, CeilType, PackedBytes
  <2>. QED
    BY <2>2 DEF Part, PackedIn
<1>3. ASSUME NEW i \in 1 .. n PROVE Field(data, at, width, i - 1, W) = vs[i] % 2^W
  <2>1. i - 1 \in 0 .. Len(vs) - 1 /\ (i - 1) + 1 = i /\ vs[i] < 2^width
    BY <1>1 DEF Holds
  <2>. QED
    BY <1>1, <1>2, <2>1, FieldRead
<1>. QED
  BY <1>3 DEF readLongs, Fields, Uncoded

\* The fields of a direct run.
Codes(r) == [i \in 1 .. Len(r.values) |-> Coded(r.values[i], IsSigned)]

\* Where they lie.
LEMMA DirectParts ==
  ASSUME NEW r, Placed(r), r.kind = "direct"
  PROVE  /\ Part(data, index + 2, Packed(Codes(r), r.width))
         /\ r.width \in Nat \ {0} /\ Len(r.values) \in Nat /\ r.values \in Seq(Int)
         /\ Len(Codes(r)) = Len(r.values) /\ RunValues(r) = r.values
<1>. DEFINE n == Len(r.values)
            h == Header(1, WidthCode(r.width), n)
            t == Packed(Codes(r), r.width)
<1>1. /\ r.width \in BitWidths /\ r.values \in Seq(Int) /\ n \in 1 .. 512 /\ n \in Nat
      /\ DOMAIN r.values = 1 .. n
  <2>1. r.width \in BitWidths /\ r.values \in Seq(Int) /\ n \in 1 .. 512
    BY DEF Placed, Legal
  <2>2. \A s \in Seq(Int) : Len(s) \in Nat /\ DOMAIN s = 1 .. Len(s)
    OBVIOUS
  <2>. QED
    BY <2>1, <2>2, Zenon
<1>. HIDE DEF n
<1>2. r.width \in 1 .. 64 /\ WidthCode(r.width) \in 0 .. 31
  BY <1>1, WidthTypes, Zenon
<1>3. Bytes(r) = h \o t
  <2>1. Codes(r) = [i \in DOMAIN r.values |-> Coded(r.values[i], IsSigned)]
    BY <1>1 DEF Codes, n
  <2>. QED
    BY <2>1 DEF Bytes, RunBytes, n
<1>4. IsSeq(h) /\ Len(h) = 2
  <2>1. 1 \in 0 .. 3
    OBVIOUS
  <2>2. IsHeader(h, 1, WidthCode(r.width), n)
    BY <1>1, <1>2, <2>1, HeaderFields
  <2>. QED
    BY <2>2 DEF IsHeader
<1>5. Len(Codes(r)) = n
  <2>1. Codes(r) = [i \in 1 .. n |-> Coded(r.values[i], IsSigned)]
    BY <1>1 DEF Codes
  <2>. QED
    BY <1>1, <2>1
<1>6. IsSeq(t) /\ Len(t) \in Nat /\ r.width \in Nat
  <2>0. r.width \in Nat
    BY <1>2
  <2>1. Len(Codes(r)) * r.width \in Nat /\ r.width \in Nat
    BY <1>1, <1>5, <2>0, Product, Zenon
  <2>. QED
    BY <2>1, CeilType, PackedBytes
<1>. HIDE DEF h, t, n
<1>7. Part(Bytes(r), 2, t)
  BY <1>3, <1>4, <1>6, PartLast
<1>8. Len(Bytes(r)) = 2 + Len(t)
  <2>1. Joined(h \o t, h, t)
    BY <1>4, <1>6, Joins
  <2>. QED
    BY <1>3, <1>4, <2>1 DEF Joined
<1>9. Part(data, index + 2, t)
  <2>1. 2 + Len(t) \in Nat
    BY <1>6
  <2>. QED
    BY <1>7, <1>8, <2>1, PartPlaced
<1>10. r.width \in Nat \ {0}
  BY <1>2
<1>11. RunValues(r) = r.values
  BY DEF RunValues
<1>. QED
  BY <1>1, <1>5, <1>9, <1>10, <1>11 DEF n, t

\* The first value, the first step and the others of a delta run.
LEMMA DeltaParts ==
  ASSUME NEW r, Placed(r), r.kind = "delta",
         NEW x, x = Coded(r.first, IsSigned), NEW z, z = ZigZag(r.step)
  PROVE  /\ x \in Nat /\ \E k \in 1 .. 10 : x < 2^(7*k)
         /\ z \in Nat /\ \E k \in 1 .. 10 : z < 2^(7*k)
         /\ r.rest \in Seq(Nat) /\ r.step \in Int
         /\ VLen(x) \in 1 .. 10 /\ VLen(z) \in 1 .. 10
         /\ Part(data, index + 2, Varint(x)) /\ Part(data, index + 2 + VLen(x), Varint(z))
         /\ r.width # 0 => /\ r.width \in Nat \ {0}
                           /\ Part(data, index + 2 + VLen(x) + VLen(z), Packed(r.rest, r.width))
<1>. DEFINE n == Len(r.rest) + 2
            code == IF r.width = 0 THEN 0 ELSE WidthCode(r.width)
            h == Header(3, code, n)
            v == Varint(x)
            w == Varint(z)
            t == IF r.width = 0 THEN <<>> ELSE Packed(r.rest, r.width)
            b == Bytes(r)
<1>1. /\ r.width \in BitWidths \cup {0} /\ r.width # 1 /\ r.step \in Int
      /\ r.rest \in Seq(Nat) /\ n \in 1 .. 512 /\ Len(r.rest) \in Nat
  <2>1. r.width \in BitWidths \cup {0} /\ r.width # 1
    BY DEF Placed, Legal
  <2>2. r.rest \in Seq(Nat) /\ Len(r.rest) \in 0 .. 510 /\ r.step \in Int
    BY DEF Placed, Legal
  <2>3. PICK m \in 0 .. 510 : m = Len(r.rest)
    BY <2>2
  <2>4. n = m + 2
    BY <2>3, Zenon
  <2>5. m + 2 \in 1 .. 512 /\ m \in Nat
    OBVIOUS
  <2>. HIDE DEF n
  <2>. QED
    BY <2>1, <2>2, <2>3, <2>4, <2>5
<1>2. r.width \in Nat /\ code \in 0 .. 31 /\ (r.width # 0 => r.width \in Nat \ {0})
  <2>1. CASE r.width = 0
    BY <2>1
  <2>2. CASE r.width # 0
    <3>1. r.width \in BitWidths
      BY <1>1, <2>2
    <3>2. r.width \in 1 .. 64 /\ WidthCode(r.width) \in 0 .. 31
      BY <3>1, WidthTypes, Zenon
    <3>3. code = WidthCode(r.width)
      BY <2>2
    <3>. HIDE DEF code
    <3>. QED
      BY <3>2, <3>3
  <2>. QED
    BY <2>1, <2>2
<1>3. b = ((h \o v) \o w) \o t
  BY DEF RunBytes, Bytes
<1>. HIDE DEF n, code
<1>5. IsHeader(h, 3, code, n)
  <2>1. 3 \in 0 .. 3
    OBVIOUS
  <2>. QED
    BY <1>1, <1>2, <2>1, HeaderFields
<1>6. x \in Nat /\ \E k \in 1 .. 10 : x < 2^(7*k)
  <2>1. \E k \in 1 .. 10 : x \in 0 .. 2^(7*k) - 1
    BY DEF Placed, Legal
  <2>2. PICK k \in 1 .. 10 : x \in 0 .. 2^(7*k) - 1
    BY <2>1
  <2>3. PICK y \in Int : y = 2^(7*k)
    <3>1. 7*k \in Nat
      OBVIOUS
    <3>. QED
      BY <3>1, PowerType
  <2>4. x \in Nat /\ x < y
    BY <2>2, <2>3
  <2>5. x < 2^(7*k)
    BY <2>3, <2>4
  <2>. QED
    BY <2>4, <2>5, Zenon
<1>7. z \in Nat /\ \E k \in 1 .. 10 : z < 2^(7*k)
  <2>1. \E k \in 1 .. 10 : z < 2^(7*k)
    BY DEF Placed, Legal
  <2>2. z \in Nat
    BY <1>1, ZigZagBack
  <2>. QED
    BY <2>1, <2>2
<1>8. IsSeq(v) /\ VLen(x) \in 1 .. 10 /\ Len(v) = VLen(x)
  BY <1>6, VarintContent DEF VLen
<1>9. IsSeq(w) /\ VLen(z) \in 1 .. 10 /\ Len(w) = VLen(z)
  BY <1>7, VarintContent DEF VLen
<1>10. IsSeq(t) /\ Len(t) \in Nat
  <2>1. CASE r.width = 0
    <3>1. t = <<>>
      BY <2>1
    <3>3. <<>> = [i \in 1 .. 0 |-> <<>>[i]]
      OBVIOUS
    <3>4. IsSeq(<<>>) /\ Len(<<>>) = 0
      BY <3>3, FunctionIsSeq
    <3>. HIDE DEF t
    <3>. QED
      BY <3>1, <3>4
  <2>2. CASE r.width # 0
    <3>1. t = Packed(r.rest, r.width)
      BY <2>2
    <3>. HIDE DEF t
    <3>2. Len(r.rest) * r.width \in Nat
      BY <1>1, <1>2, Product, Zenon
    <3>. QED
      BY <3>1, <3>2, CeilType, PackedBytes
  <2>. QED
    BY <2>1, <2>2
<1>. DEFINE s1 == h \o v
            s2 == s1 \o w
<1>11. b = s2 \o t
  BY <1>3
<1>. HIDE DEF h, v, w, b
<1>12. IsSeq(h) /\ Len(h) = 2
  BY <1>5 DEF IsHeader
<1>13. IsSeq(s1) /\ Len(s1) = 2 + VLen(x) /\ Part(s1, 2, v)
  <2>1. Joined(s1, h, v)
    BY <1>8, <1>12, Joins
  <2>2. Part(s1, 2, v)
    BY <1>8, <1>12, PartLast
  <2>. HIDE DEF s1
  <2>. QED
    BY <1>8, <1>12, <2>1, <2>2 DEF Joined
<1>. HIDE DEF s1
<1>14. /\ IsSeq(s2) /\ Len(s2) = 2 + VLen(x) + VLen(z) /\ Part(s2, 2, v)
       /\ Part(s2, 2 + VLen(x), w)
  <2>1. Joined(s2, s1, w)
    BY <1>9, <1>13, Joins
  <2>2. Part(s2, 2 + VLen(x), w)
    BY <1>9, <1>13, PartLast
  <2>3. Part(s2, 2, v)
    BY <1>8, <1>9, <1>13, PartKept
  <2>. HIDE DEF s2
  <2>. QED
    BY <1>9, <1>13, <2>1, <2>2, <2>3 DEF Joined
<1>. HIDE DEF s2, t
<1>15. /\ Len(b) = 2 + VLen(x) + VLen(z) + Len(t) /\ Part(b, 2, v)
       /\ Part(b, 2 + VLen(x), w) /\ Part(b, 2 + VLen(x) + VLen(z), t)
  <2>1. Joined(b, s2, t)
    BY <1>10, <1>11, <1>14, Joins
  <2>2. Part(b, 2 + VLen(x) + VLen(z), t)
    BY <1>10, <1>11, <1>14, PartLast
  <2>3. Part(b, 2, v) /\ Part(b, 2 + VLen(x), w)
    <3>1. 2 + Len(v) <= Len(s2) /\ (2 + VLen(x)) + Len(w) <= Len(s2)
      BY <1>8, <1>9, <1>14
    <3>. QED
      BY <1>10, <1>11, <1>14, <3>1, PartKept
  <2>. QED
    BY <1>14, <2>1, <2>2, <2>3 DEF Joined
<1>16. Part(data, index + 2, v) /\ Part(data, index + 2 + VLen(x), w)
       /\ Part(data, index + 2 + VLen(x) + VLen(z), t)
  <2>. DEFINE l == Len(b)
  <2>1. /\ l \in Nat /\ 2 + Len(v) <= l /\ (2 + VLen(x)) + Len(w) <= l
        /\ (2 + VLen(x) + VLen(z)) + Len(t) <= l
    BY <1>8, <1>9, <1>10, <1>15
  <2>2. l = Len(Bytes(r)) /\ b = Bytes(r) /\ index \in Nat
    BY DEF b, Placed
  <2>. HIDE DEF l, b
  <2>3. Part(data, index + 2, v)
    BY <1>15, <2>1, <2>2, PartPlaced
  <2>4. Part(data, index + (2 + VLen(x)), w)
    BY <1>15, <2>1, <2>2, PartPlaced
  <2>5. Part(data, index + (2 + VLen(x) + VLen(z)), t)
    BY <1>15, <2>1, <2>2, PartPlaced
  <2>6. /\ index + (2 + VLen(x)) = index + 2 + VLen(x)
        /\ index + (2 + VLen(x) + VLen(z)) = index + 2 + VLen(x) + VLen(z)
    BY <1>8, <1>9, <2>2
  <2>. QED
    BY <2>3, <2>4, <2>5, <2>6
<1>17. r.width # 0 => t = Packed(r.rest, r.width)
  BY DEF t
<1>. QED
  BY <1>1, <1>2, <1>6, <1>7, <1>8, <1>9, <1>16, <1>17 DEF v, w

\* The widths that hold a number of bits.
LEMMA ClosestHolds ==
  ASSUME NEW n \in 1 .. 64
  PROVE  /\ getClosestFixedBits(n) \in BitWidths /\ getClosestFixedBits(n) >= n
         /\ n <= 7 => getClosestFixedBits(n) = n
<1>. DEFINE T == {w \in BitWidths : w >= n}
<1>1. T \subseteq Nat /\ T # {}
  <2>1. \A w \in BitWidths : w \in Nat
    <3>1. \A w \in BitWidths : w \in 1 .. 64
      BY WidthTypes
    <3>. QED
      BY <3>1
  <2>2. decodeBitWidth(31) = 64 /\ 31 \in 0 .. 31
    BY DEF decodeBitWidth
  <2>3. 64 \in BitWidths
    BY <2>2 DEF BitWidths
  <2>4. 64 \in T
    BY <2>3
  <2>. QED
    BY <2>1, <2>4
<1>2. \A w \in T : w \in BitWidths /\ w >= n
  OBVIOUS
<1>3. getClosestFixedBits(n) = Min(T)
  <2>1. n # 0 /\ T = {w \in BitWidths : w >= n}
    OBVIOUS
  <2>. HIDE DEF T
  <2>. QED
    BY <1>1, <2>1 DEF getClosestFixedBits
<1>4. n <= 7 => n \in T
  <2>. SUFFICES ASSUME n <= 7 PROVE n \in T
    OBVIOUS
  <2>1. n - 1 \in 0 .. 31 /\ n - 1 <= 23 /\ (n - 1) + 1 = n
    OBVIOUS
  <2>2. decodeBitWidth(n - 1) = n
    BY <2>1 DEF decodeBitWidth
  <2>. QED
    BY <2>1, <2>2 DEF BitWidths
<1>. HIDE DEF T
<1>5. PICK x \in T : \A y \in T : x <= y
  BY <1>1, LeastExists
<1>6. Min(T) \in T /\ \A y \in T : Min(T) <= y
  BY <1>5 DEF Min
<1>7. n <= 7 => Min(T) = n
  <2>. SUFFICES ASSUME n <= 7 PROVE Min(T) = n
    OBVIOUS
  <2>1. Min(T) <= n /\ Min(T) >= n /\ Min(T) \in Nat
    BY <1>1, <1>2, <1>4, <1>6
  <2>. QED
    BY <2>1
<1>. QED
  BY <1>2, <1>3, <1>6, <1>7

\* The fields of a patched run, besides the raw values.
PatchEntries(r) == [i \in 1 .. Len(r.patches) |-> Entry(r, i)]
Cfb(r) == getClosestFixedBits(r.pw + r.pgw)
BaseCode(r) == Size(r.base) + (IF r.base < 0 THEN 2^(8 * BaseBytes(r.base) - 1) ELSE 0)

\* What a patched run is made of.
PatchedRun(r) ==
  /\ r.width \in 1 .. 64 /\ r.raws \in Seq(Nat) /\ Len(r.raws) \in 1 .. 512
  /\ r.pw \in 1 .. 64 /\ r.pgw \in 1 .. 8 /\ r.pw + r.pgw \in 1 .. 64 /\ r.base \in Int
  /\ Len(r.patches) \in 1 .. 31 /\ DOMAIN r.patches = 1 .. Len(r.patches)
  /\ Cfb(r) \in 1 .. 64 /\ Cfb(r) >= r.pw + r.pgw
  /\ (r.pw + r.pgw <= 7 => Cfb(r) = r.pw + r.pgw)
  /\ \A i \in 1 .. Len(r.patches) : r.patches[i].gap \in Nat /\ r.patches[i].bits \in Nat
  /\ BaseBytes(r.base) \in 1 .. 8 /\ Size(r.base) < 2^(8 * BaseBytes(r.base) - 1)
  /\ \A m \in 1 .. BaseBytes(r.base) - 1 : Size(r.base) >= 2^(8*m - 1)

\* What is known of a patched run.
LEMMA PatchedFacts ==
  ASSUME NEW r, Placed(r), r.kind = "patched"
  PROVE  PatchedRun(r)
<1>1. r.width \in 1 .. 64 /\ r.pw \in 1 .. 64
  <2>1. r.width \in BitWidths /\ r.pw \in BitWidths
    BY DEF Placed, Legal
  <2>. QED
    BY <2>1, WidthTypes, Zenon
<1>0. r.pgw \in 1 .. 8 /\ r.pw + r.pgw <= 64
  BY DEF Placed, Legal
<1>2. /\ r.base \in Int
      /\ r.raws \in Seq(Nat) /\ Len(r.raws) \in 1 .. 512
      /\ r.patches \in Seq([gap : Nat, bits : Nat]) /\ Len(r.patches) \in 1 .. 31
      /\ \E n \in 1 .. 8 : Size(r.base) < 2^(8*n - 1)
  BY DEF Placed, Legal
<1>3. r.pw + r.pgw \in 1 .. 64
  BY <1>0, <1>1
<1>4. /\ Cfb(r) \in BitWidths /\ Cfb(r) >= r.pw + r.pgw
      /\ (r.pw + r.pgw <= 7 => Cfb(r) = r.pw + r.pgw)
  BY <1>3, ClosestHolds DEF Cfb
<1>5. Cfb(r) \in 1 .. 64
  BY <1>4, WidthTypes
<1>6. \A i \in 1 .. Len(r.patches) : r.patches[i].gap \in Nat /\ r.patches[i].bits \in Nat
  <2>1. \A i \in 1 .. Len(r.patches) : r.patches[i] \in [gap : Nat, bits : Nat]
    <3>1. \A D : \A s \in Seq(D) : \A i \in 1 .. Len(s) : s[i] \in D
      OBVIOUS
    <3>. QED
      BY <1>2, <3>1, Zenon
  <2>2. \A p \in [gap : Nat, bits : Nat] : p.gap \in Nat /\ p.bits \in Nat
    OBVIOUS
  <2>. QED
    BY <2>1, <2>2
<1>7. /\ BaseBytes(r.base) \in 1 .. 8 /\ Size(r.base) < 2^(8 * BaseBytes(r.base) - 1)
      /\ \A m \in 1 .. BaseBytes(r.base) - 1 : Size(r.base) >= 2^(8*m - 1)
  BY <1>2, BaseInRange
<1>8. DOMAIN r.patches = 1 .. Len(r.patches)
  <2>1. \A D : \A s \in Seq(D) : DOMAIN s = 1 .. Len(s)
    OBVIOUS
  <2>. QED
    BY <1>2, <2>1, Zenon
<1>. QED
  BY <1>0, <1>1, <1>2, <1>3, <1>4, <1>5, <1>6, <1>7, <1>8, Zenon DEF PatchedRun

\* Where they stand.
RawsLength(r) == CeilDiv(Len(r.raws) * r.width, 8)

\* Where its fields lie.
LEMMA PatchedPlaces ==
  ASSUME NEW r, Placed(r), r.kind = "patched"
  PROVE  /\ RawsLength(r) \in Nat
         /\ Part(data, index + 4, BigEndian(BaseCode(r), BaseBytes(r.base)))
         /\ Part(data, index + 4 + BaseBytes(r.base), Packed(r.raws, r.width))
         /\ Part(data, index + 4 + BaseBytes(r.base) + RawsLength(r), Packed(PatchEntries(r), Cfb(r)))
         /\ Len(PatchEntries(r)) = Len(r.patches) /\ \A i \in 1 .. Len(r.patches) : PatchEntries(r)[i] = Entry(r, i)
<1>. DEFINE n == Len(r.raws)
            bw == BaseBytes(r.base)
            pl == Len(r.patches)
            cfb == Cfb(r)
            h == Header(2, WidthCode(r.width), n)
            m == <<32 * (bw - 1) + WidthCode(r.pw), 32 * (r.pgw - 1) + pl>>
            e == BigEndian(BaseCode(r), bw)
            t == Packed(r.raws, r.width)
            p == Packed(PatchEntries(r), cfb)
            c == RawsLength(r)
            b == Bytes(r)
<1>1. /\ r.width \in 1 .. 64 /\ n \in 1 .. 512 /\ bw \in 1 .. 8 /\ pl \in 1 .. 31 /\ cfb \in 1 .. 64
  <2>1. PatchedRun(r)
    BY PatchedFacts
  <2>. QED
    BY <2>1, Zenon DEF PatchedRun
<1>2. WidthCode(r.width) \in 0 .. 31
  <2>1. r.width \in BitWidths
    BY DEF Placed, Legal
  <2>. QED
    BY <2>1, WidthTypes, Zenon
<1>3. PatchEntries(r) = [i \in DOMAIN r.patches |-> Entry(r, i)]
  <2>1. r.patches \in Seq([gap : Nat, bits : Nat])
    BY DEF Placed, Legal
  <2>2. DOMAIN r.patches = 1 .. Len(r.patches)
    BY <2>1
  <2>. QED
    BY <2>2 DEF PatchEntries
<1>4. Len(PatchEntries(r)) = pl /\ \A i \in 1 .. pl : PatchEntries(r)[i] = Entry(r, i)
  <2>1. PatchEntries(r) = [i \in 1 .. pl |-> Entry(r, i)]
    BY DEF PatchEntries
  <2>. HIDE DEF n, bw, pl, cfb
  <2>2. pl \in Nat
    BY <1>1
  <2>. QED
    BY <2>1, <2>2
<1>5. b = (((h \o m) \o e) \o t) \o p
  BY <1>3 DEF RunBytes, Bytes, BaseCode, Cfb
<1>. HIDE DEF n, bw, pl, cfb
<1>6. IsSeq(h) /\ Len(h) = 2
  <2>1. 2 \in 0 .. 3
    OBVIOUS
  <2>2. IsHeader(h, 2, WidthCode(r.width), n)
    BY <1>1, <1>2, <2>1, HeaderFields
  <2>. QED
    BY <2>2 DEF IsHeader
<1>7. IsSeq(m) /\ Len(m) = 2
  <2>1. m = [i \in 1 .. 2 |-> m[i]]
    OBVIOUS
  <2>. QED
    BY <2>1, FunctionIsSeq
<1>8. IsSeq(e) /\ Len(e) = bw
  BY <1>1, BigEndianBytes
<1>9. IsSeq(t) /\ Len(t) = c /\ c \in Nat
  <2>1. n \in Nat /\ r.width \in Nat
    BY <1>1
  <2>2. n * r.width \in Nat
    BY <2>1, Product, Zenon
  <2>3. CeilDiv(Len(r.raws) * r.width, 8) \in Nat
    BY <2>2, CeilType DEF n
  <2>. QED
    BY <2>3, PackedBytes DEF RawsLength
<1>10. IsSeq(p) /\ Len(p) \in Nat
  <2>1. pl \in Nat /\ cfb \in Nat
    BY <1>1
  <2>2. pl * cfb \in Nat
    BY <2>1, Product, Zenon
  <2>3. CeilDiv(Len(PatchEntries(r)) * cfb, 8) \in Nat
    BY <1>4, <2>2, CeilType
  <2>. QED
    BY <2>3, PackedBytes
<1>. DEFINE s1 == h \o m
            s2 == s1 \o e
            s3 == s2 \o t
<1>11. b = s3 \o p
  BY <1>5
<1>. HIDE DEF h, m, e, t, p, b, c
<1>12. IsSeq(s1) /\ Len(s1) = 4
  <2>1. Joined(s1, h, m)
    BY <1>6, <1>7, Joins
  <2>. HIDE DEF s1
  <2>. QED
    BY <1>6, <1>7, <2>1 DEF Joined
<1>. HIDE DEF s1
<1>13. IsSeq(s2) /\ Len(s2) = 4 + bw /\ Part(s2, 4, e)
  <2>1. Joined(s2, s1, e)
    BY <1>8, <1>12, Joins
  <2>2. Part(s2, 4, e)
    BY <1>8, <1>12, PartLast
  <2>. HIDE DEF s2
  <2>. QED
    BY <1>8, <1>12, <2>1, <2>2 DEF Joined
<1>. HIDE DEF s2
<1>14. IsSeq(s3) /\ Len(s3) = 4 + bw + c /\ Part(s3, 4, e) /\ Part(s3, 4 + bw, t)
  <2>1. Joined(s3, s2, t)
    BY <1>9, <1>13, Joins
  <2>2. Part(s3, 4 + bw, t)
    BY <1>9, <1>13, PartLast
  <2>3. Part(s3, 4, e)
    BY <1>8, <1>9, <1>13, PartKept
  <2>. HIDE DEF s3
  <2>. QED
    BY <1>9, <1>13, <2>1, <2>2, <2>3 DEF Joined
<1>. HIDE DEF s3
<1>15. /\ Len(b) = 4 + bw + c + Len(p) /\ Part(b, 4, e) /\ Part(b, 4 + bw, t)
       /\ Part(b, 4 + bw + c, p)
  <2>1. Joined(b, s3, p)
    BY <1>10, <1>11, <1>14, Joins
  <2>2. Part(b, 4 + bw + c, p)
    BY <1>10, <1>11, <1>14, PartLast
  <2>3. Part(b, 4, e) /\ Part(b, 4 + bw, t)
    <3>1. 4 + Len(e) <= Len(s3) /\ (4 + bw) + Len(t) <= Len(s3)
      BY <1>1, <1>8, <1>9, <1>14
    <3>. QED
      BY <1>10, <1>11, <1>14, <3>1, PartKept
  <2>. QED
    BY <1>14, <2>1, <2>2, <2>3 DEF Joined
<1>16. Part(data, index + 4, e) /\ Part(data, index + 4 + bw, t) /\ Part(data, index + 4 + bw + c, p)
  <2>. DEFINE l == Len(b)
  <2>1. /\ l \in Nat /\ 4 + Len(e) <= l /\ (4 + bw) + Len(t) <= l
        /\ (4 + bw + c) + Len(p) <= l
    BY <1>1, <1>8, <1>9, <1>10, <1>15
  <2>2. l = Len(Bytes(r)) /\ b = Bytes(r) /\ index \in Nat
    BY DEF b, Placed
  <2>. HIDE DEF l, b
  <2>3. Part(data, index + 4, e)
    BY <1>15, <2>1, <2>2, PartPlaced
  <2>4. Part(data, index + (4 + bw), t)
    BY <1>15, <2>1, <2>2, PartPlaced
  <2>5. Part(data, index + (4 + bw + c), p)
    BY <1>15, <2>1, <2>2, PartPlaced
  <2>6. index + (4 + bw) = index + 4 + bw /\ index + (4 + bw + c) = index + 4 + bw + c
    BY <1>1, <1>9, <2>2
  <2>. QED
    BY <2>3, <2>4, <2>5, <2>6
<1>. QED
  BY <1>4, <1>9, <1>16 DEF bw, pl, cfb, e, t, p, c

-----------------------------------------------------------------------------
(***************************************************************************)
(* Runs without patches.                                                   *)
(***************************************************************************)
\* Sums of numbers with the same remainders.
LEMMA SameSum ==
  ASSUME NEW m \in Nat \ {0}, NEW a \in Int, NEW b \in Int, NEW c \in Int, NEW d \in Int,
         Same(a, c, m), Same(b, d, m)
  PROVE  Same(a + b, c + d, m)
<1>0. a % m = c % m /\ b % m = d % m
  BY DEF Same
<1>1. ((a % m) + b) % m = (a + b) % m /\ ((c % m) + b) % m = (c + b) % m
  BY CutSum, Zenon
<1>2. (c + (b % m)) % m = (b + c) % m /\ (c + (d % m)) % m = (d + c) % m
  BY CutSum, Zenon
<1>3. b + c = c + b /\ d + c = c + d
  OBVIOUS
<1>4. (a + b) % m = (c + d) % m
  BY <1>0, <1>1, <1>2, <1>3
<1>. QED
  BY <1>4 DEF Same

\* Numbers with the same remainder have it with a minus too.
LEMMA MinusAlike ==
  ASSUME NEW m \in Nat \ {0}, NEW b \in Int, NEW d \in Int, b % m = d % m
  PROVE  (-b) % m = (-d) % m
<1>1. 0 \in Int /\ 0 - b = -b /\ 0 - d = -d
  OBVIOUS
<1>2. (0 - (b % m)) % m = (0 - b) % m /\ (0 - (d % m)) % m = (0 - d) % m
  BY <1>1, CutDifference, Zenon
<1>. QED
  BY <1>1, <1>2

\* Half of the numbers apart is not the same.
LEMMA HalfApart ==
  ASSUME NEW w \in CWidths, NEW x \in Int, NEW y \in Int, y = x + 2^(w-1) \/ y = x - 2^(w-1)
  PROVE  ToSigned(x, w) # ToSigned(y, w)
<1>. DEFINE h == 2^(w-1)
            m == 2^w
<1>1. h \in Nat \ {0} /\ m \in Nat \ {0} /\ m = 2 * h
  BY Halves
<1>2. y = x + h \/ y = x - h
  OBVIOUS
<1>3. ToSigned(x, w) = ToSigned(y, w) <=> x % m = y % m
  BY SameSigned
<1>. HIDE DEF h, m
<1>. SUFFICES ASSUME x % m = y % m PROVE FALSE
  BY <1>3
<1>4. PICK k \in Int : x = y + m * k
  BY <1>1, SameRemainder
<1>5. m * k = 2 * (h * k) /\ h * k \in Int
  BY <1>1
<1>6. ASSUME NEW j \in Int, h = 2 * (h * j) PROVE FALSE
  <2>1. CASE j <= 0
    <3>1. PICK i \in Nat : j = -i
      BY <2>1
    <3>2. h * j = -(h * i) /\ h * i >= 0
      BY <1>1, <3>1
    <3>. QED
      BY <1>1, <1>6, <3>2
  <2>2. CASE j > 0
    <3>1. PICK i \in Nat : j = 1 + i
      BY <2>2
    <3>2. h * j = h + h * i /\ h * i >= 0
      BY <1>1, <3>1
    <3>. QED
      BY <1>1, <1>6, <3>2
  <2>. QED
    BY <2>1, <2>2
<1>7. CASE y = x + h
  <2>1. -k \in Int /\ h * (-k) = -(h * k)
    BY <1>1
  <2>2. h = 2 * (h * (-k))
    BY <1>1, <1>4, <1>5, <1>7, <2>1
  <2>. QED
    BY <1>6, <2>1, <2>2
<1>8. CASE y = x - h
  <2>2. h = 2 * (h * k)
    BY <1>1, <1>4, <1>5, <1>8
  <2>. QED
    BY <1>6, <2>2
<1>. QED
  BY <1>2, <1>7, <1>8

\* The numbers a decoder yields for a run are right unless it is too wide.
InType(v) == v \in IF IsSigned THEN Type(W) ELSE 0 .. 2^W - 1
\* The numbers of a run, in the type.
Right(r) == [i \in DOMAIN RunValues(r) |-> ToSigned(RunValues(r)[i], W)]
\* A run comes out right exactly if it is not too wide.
Yields(r, vs) ==
  /\ vs = [i \in 1 .. Len(RunValues(r)) |-> vs[i]]
  /\ vs = Right(r) <=> ~TooWide(r)

\* A number of the type is read back as it was written.
LEMMA UncodedRight ==
  ASSUME W \in CWidths, NEW v, InType(v)
  PROVE  /\ v \in Int /\ Coded(v, IsSigned) \in Nat /\ Coded(v, IsSigned) < 2^W
         /\ Uncoded(Coded(v, IsSigned) % 2^W, W, IsSigned) = ToSigned(v, W)
<1>1. CASE IsSigned
  <2>1. v \in Type(W) /\ v \in Int
    <3>1. v \in Type(W)
      BY <1>1 DEF InType
    <3>2. 2^(W-1) \in Int
      BY Halves
    <3>. QED
      BY <3>1, <3>2 DEF Type
  <2>2. Coded(v, IsSigned) = ZigZag(v)
    BY <1>1 DEF Coded
  <2>3. ZigZag(v) \in Nat
    BY <2>1, ZigZagBack
  <2>4. ZigZag(v) < 2^W /\ unZigZag(ZigZag(v) % 2^W) = v
    BY <2>1, ZigZagFits
  <2>5. ToSigned(v, W) = v
    BY <2>1, OwnSigned
  <2>. QED
    BY <1>1, <2>1, <2>2, <2>3, <2>4, <2>5 DEF Uncoded
<1>2. CASE ~IsSigned
  <2>1. v \in 0 .. 2^W - 1
    BY <1>2 DEF InType
  <2>2. 2^W \in Int
    BY Halves
  <2>3. v \in Nat /\ v < 2^W /\ v \in Int
    BY <2>1, <2>2
  <2>4. Coded(v, IsSigned) = v
    BY <1>2 DEF Coded
  <2>5. ToSigned(v % 2^W, W) = ToSigned(v, W)
    BY <2>3, SignedRemainder
  <2>. QED
    BY <1>2, <2>3, <2>4, <2>5 DEF Uncoded
<1>. QED
  BY <1>1, <1>2

\* The numbers of a run that fits are of the type.
LEMMA FitsRange ==
  ASSUME NEW r, Fits(r, W, IsSigned), NEW i \in DOMAIN RunValues(r)
  PROVE  InType(RunValues(r)[i])
BY DEF Fits, InType, Type

\* What a repeated run yields.
LEMMA RepeatYields ==
  ASSUME NEW r, Placed(r), r.kind = "repeat", Fits(r, W, IsSigned), W \in CWidths,
         NEW n, n = Len(RunValues(r))
  PROVE  Yields(r, [i \in 1 .. n |-> Uncoded(readLongBE(index + 1, RunWidth(r)), W, IsSigned)])
<1>. DEFINE x == Coded(r.value, IsSigned)
            u == readLongBE(index + 1, RunWidth(r))
<1>1. r.n \in 3 .. 10
  BY DEF Placed, Legal
<1>2. RunValues(r) = [i \in 1 .. r.n |-> r.value]
  BY DEF RunValues
<1>3. n = r.n /\ n \in Nat /\ DOMAIN RunValues(r) = 1 .. n /\ 1 \in 1 .. n
      /\ \A i \in 1 .. n : RunValues(r)[i] = r.value
  BY <1>1, <1>2
<1>4. InType(r.value)
  BY <1>3, FitsRange
<1>5. Uncoded(x % 2^W, W, IsSigned) = ToSigned(r.value, W) /\ r.value \in Int
  BY <1>4, UncodedRight
<1>6. /\ x \in Nat /\ RunWidth(r) \in 1 .. 8 /\ x < 2^(8 * RunWidth(r))
      /\ \A k \in 1 .. RunWidth(r) : data[index + 1 + k] = Digit(x, 8, RunWidth(r), k)
  BY RepeatParts
<1>. HIDE DEF x
<1>7. u = x % 2^W
  <2>1. W \in Nat /\ RunWidth(r) \in Nat
    BY <1>6, Halves
  <2>. QED
    BY <1>6, <2>1, LongRead
<1>. HIDE DEF u
<1>8. Uncoded(u, W, IsSigned) = ToSigned(r.value, W)
  BY <1>5, <1>7 DEF x
<1>9. ToSigned(r.value, W) \in Int
  BY <1>5, SignedValue
<1>10. [i \in 1 .. n |-> Uncoded(u, W, IsSigned)] = Right(r)
  BY <1>3, <1>8 DEF Right
<1>11. ~TooWide(r)
  BY DEF TooWide
<1>. QED
  BY <1>3, <1>8, <1>9, <1>10, <1>11 DEF Yields, u

\* What a direct run yields.
LEMMA DirectYields ==
  ASSUME NEW r, Placed(r), r.kind = "direct", Fits(r, W, IsSigned), W \in CWidths
  PROVE  Holds(Codes(r), r.width) /\ Yields(r, Fields(Codes(r), IsSigned))
<1>. DEFINE n == Len(r.values)
<1>1. n \in Nat /\ r.values \in Seq(Int) /\ Len(Codes(r)) = n /\ RunValues(r) = r.values
  BY DirectParts
<1>2. DOMAIN RunValues(r) = 1 .. n /\ Len(RunValues(r)) = n
  BY <1>1
<1>. HIDE DEF n
<1>3. \A i \in 1 .. n : Codes(r)[i] = Coded(r.values[i], IsSigned)
  BY DEF Codes, n
<1>4. ASSUME NEW i \in 1 .. n
      PROVE  /\ r.values[i] \in Int /\ Codes(r)[i] \in Nat /\ Codes(r)[i] < 2^r.width
             /\ Uncoded(Codes(r)[i] % 2^W, W, IsSigned) = ToSigned(r.values[i], W)
  <2>1. InType(r.values[i])
    BY <1>1, <1>2, FitsRange
  <2>2. Coded(r.values[i], IsSigned) < 2^r.width
    BY <1>1, <1>2 DEF Fits
  <2>. QED
    BY <1>3, <2>1, <2>2, UncodedRight
<1>5. Holds(Codes(r), r.width)
  <2>1. Codes(r) = [i \in 1 .. n |-> Codes(r)[i]]
    BY DEF Codes, n
  <2>2. Codes(r) \in Seq(Nat)
    BY <1>1, <1>4, <2>1
  <2>. QED
    BY <1>1, <1>4, <2>2 DEF Holds
<1>6. Fields(Codes(r), IsSigned) = [i \in 1 .. n |-> ToSigned(r.values[i], W)]
  BY <1>1, <1>4 DEF Fields
<1>7. \A i \in 1 .. n : ToSigned(r.values[i], W) \in Int
  BY <1>4, SignedValue
<1>8. Right(r) = [i \in 1 .. n |-> ToSigned(r.values[i], W)]
  BY <1>1, <1>2 DEF Right
<1>9. ~TooWide(r)
  BY DEF TooWide
<1>. QED
  BY <1>2, <1>5, <1>6, <1>7, <1>8, <1>9 DEF Yields

\* A number and those that follow it step by step.
Stepped(g, n, a, s) == g = [i \in 1 .. n |-> IF i = 1 THEN a ELSE g[i-1] + s[i]]

\* The numbers of a delta run are defined, step by step.
LEMMA StepsExist ==
  ASSUME NEW n \in Nat \ {0}, NEW a, NEW s
  PROVE  \E g : Stepped(g, n, a, s)
<1>. DEFINE step(g, i) == IF i = 1 THEN a ELSE g[i-1] + s[i]
            S == {m \in Nat : \E g : g = [i \in 1 .. m |-> step(g, i)]}
<1>1. 0 \in S
  <2>. DEFINE g == [i \in 1 .. 0 |-> 0]
  <2>1. g = [i \in 1 .. 0 |-> step(g, i)]
    OBVIOUS
  <2>. QED
    BY <2>1
<1>2. ASSUME NEW m \in Nat, m \in S PROVE m + 1 \in S
  <2>1. PICK g : g = [i \in 1 .. m |-> step(g, i)]
    BY <1>2
  <2>0. \A i \in 1 .. m : g[i] = step(g, i)
    <3>. DEFINE k == [i \in 1 .. m |-> step(g, i)]
    <3>1. \A i \in 1 .. m : k[i] = step(g, i)
      OBVIOUS
    <3>2. g = k
      BY <2>1
    <3>. HIDE DEF k
    <3>. QED
      BY <3>1, <3>2, Zenon
  <2>. DEFINE h == [i \in 1 .. m + 1 |-> IF i <= m THEN g[i] ELSE step(g, i)]
  <2>2. ASSUME NEW i \in 1 .. m + 1 PROVE h[i] = step(h, i)
    <3>1. CASE i = 1
      <4>1. i <= m => g[i] = a
        BY <2>0, <3>1
      <4>2. h[i] = a
        BY <3>1, <4>1
      <4>. QED
        BY <3>1, <4>2
    <3>2. CASE i # 1
      <4>1. i - 1 \in 1 .. m /\ i - 1 \in 1 .. m + 1
        BY <3>2
      <4>2. h[i-1] = g[i-1]
        BY <4>1
      <4>3. i <= m => g[i] = step(g, i)
        BY <2>0
      <4>4. h[i] = step(g, i)
        BY <4>3
      <4>. QED
        BY <3>2, <4>2, <4>4
    <3>. QED
      BY <3>1, <3>2
  <2>3. h = [i \in 1 .. m + 1 |-> step(h, i)]
    BY <2>2
  <2>. HIDE DEF h
  <2>4. \E k : k = [i \in 1 .. m + 1 |-> step(k, i)]
    BY <2>3, Zenon
  <2>5. m + 1 \in Nat
    OBVIOUS
  <2>. QED
    BY <2>4, <2>5, Zenon
<1>. HIDE DEF S
<1>3. n \in S
  BY <1>1, <1>2, SetInduction
<1>. QED
  BY <1>3 DEF S, Stepped

\* The same in w bits.
Wrapped(v, n, a, s, w) ==
  v = [i \in 1 .. n |-> IF i = 1 THEN a ELSE ToSigned(v[i-1] + s[i], w)]

\* So they are in the type.
LEMMA WrappedExists ==
  ASSUME NEW n \in Nat \ {0}, NEW w \in CWidths, NEW a \in Int, NEW s \in [1 .. n -> Int]
  PROVE  \E v : Wrapped(v, n, a, s, w)
<1>. DEFINE F == [k \in 1 .. n - 1 |-> [x \in Int |-> ToSigned(x + s[k + 1], w)]]
<1>1. ASSUME NEW k \in 1 .. n - 1, NEW x \in Int PROVE F[k][x] = ToSigned(x + s[k + 1], w) /\ F[k][x] \in Int
  <2>1. s[k + 1] \in Int
    OBVIOUS
  <2>2. x + s[k + 1] \in Int
    BY <2>1
  <2>3. ToSigned(x + s[k + 1], w) \in Int
    BY <2>2, SignedValue
  <2>. QED
    BY <2>3
<1>. HIDE DEF F
<1>2. n - 1 \in Nat
  OBVIOUS
<1>3. \A k \in 1 .. n - 1 : \A x \in Int : F[k][x] \in Int
  BY <1>1
<1>4. PICK g : Follows(g, n - 1, Int, a, F)
  BY <1>2, <1>3, RecursionExists
<1>5. /\ g \in [0 .. n - 1 -> Int] /\ g[0] = a
      /\ \A k \in 1 .. n - 1 : g[k] = F[k][g[k-1]]
  BY <1>4 DEF Follows
<1>. DEFINE v == [i \in 1 .. n |-> g[i-1]]
<1>6. ASSUME NEW i \in 1 .. n PROVE v[i] = IF i = 1 THEN a ELSE ToSigned(v[i-1] + s[i], w)
  <2>1. CASE i = 1
    BY <1>5, <2>1
  <2>2. CASE i # 1
    <3>1. i - 1 \in 1 .. n - 1 /\ i - 1 \in 1 .. n /\ (i - 1) - 1 \in 0 .. n - 1 /\ (i - 1) + 1 = i
      BY <2>2
    <3>2. v[i] = g[i-1] /\ v[i-1] = g[(i-1)-1] /\ g[(i-1)-1] \in Int
      BY <1>5, <3>1
    <3>3. g[i-1] = F[i-1][g[(i-1)-1]]
      BY <1>5, <3>1
    <3>4. F[i-1][g[(i-1)-1]] = ToSigned(g[(i-1)-1] + s[(i-1)+1], w)
      BY <1>1, <3>1, <3>2
    <3>. QED
      BY <2>2, <3>1, <3>2, <3>3, <3>4
  <2>. QED
    BY <2>1, <2>2
<1>7. v = [i \in 1 .. n |-> IF i = 1 THEN a ELSE ToSigned(v[i-1] + s[i], w)]
  BY <1>6
<1>. HIDE DEF v
<1>8. Wrapped(v, n, a, s, w)
  BY <1>7 DEF Wrapped
<1>. QED
  BY <1>8

\* Numbers that each are a step from the last, in the type.
WrappedTo(v, n, a, s, w) ==
  /\ v \in [1 .. n -> Int] /\ v[1] = a
  /\ \A i \in 2 .. n : v[i] = ToSigned(v[i-1] + s[i], w)

\* The numbers in the type are such.
LEMMA WrappedSteps ==
  ASSUME NEW n \in Nat \ {0}, NEW w \in CWidths, NEW a \in Int, NEW s \in [1 .. n -> Int],
         NEW v, Wrapped(v, n, a, s, w)
  PROVE  WrappedTo(v, n, a, s, w)
<1>. DEFINE step(i) == IF i = 1 THEN a ELSE ToSigned(v[i-1] + s[i], w)
            k == [i \in 1 .. n |-> step(i)]
<1>1. v = k
  BY DEF Wrapped
<1>2. DOMAIN k = 1 .. n /\ \A i \in 1 .. n : k[i] = step(i)
  OBVIOUS
<1>. HIDE DEF k
<1>3. DOMAIN v = 1 .. n /\ \A i \in 1 .. n : v[i] = step(i)
  BY <1>1, <1>2
<1>4. v[1] = a /\ \A i \in 2 .. n : v[i] = ToSigned(v[i-1] + s[i], w)
  BY <1>3
<1>. DEFINE S == {m \in Nat : m + 1 \in 1 .. n => v[m + 1] \in Int}
<1>5. 0 \in S
  BY <1>4
<1>6. ASSUME NEW m \in Nat, m \in S PROVE m + 1 \in S
  <2>1. SUFFICES ASSUME (m + 1) + 1 \in 1 .. n PROVE v[(m + 1) + 1] \in Int
    OBVIOUS
  <2>2. m + 1 \in 1 .. n /\ (m + 1) + 1 \in 2 .. n /\ ((m + 1) + 1) - 1 = m + 1
    BY <2>1
  <2>3. v[m + 1] \in Int /\ s[(m + 1) + 1] \in Int
    BY <1>6, <2>2
  <2>4. v[m + 1] + s[(m + 1) + 1] \in Int
    BY <2>3
  <2>5. ToSigned(v[m + 1] + s[(m + 1) + 1], w) \in Int
    BY <2>4, SignedValue
  <2>. QED
    BY <1>4, <2>2, <2>5
<1>7. Nat \subseteq S
  <2>. HIDE DEF S
  <2>. QED
    BY <1>5, <1>6, SetInduction
<1>8. ASSUME NEW i \in 1 .. n PROVE v[i] \in Int
  <2>1. i - 1 \in Nat /\ (i - 1) + 1 = i
    OBVIOUS
  <2>2. i - 1 \in S
    <3>. HIDE DEF S
    <3>. QED
      BY <1>7, <2>1
  <2>. QED
    BY <2>1, <2>2
<1>9. v = [i \in 1 .. n |-> v[i]]
  BY <1>1, <1>3 DEF k
<1>. QED
  BY <1>4, <1>8, <1>9 DEF WrappedTo

\* The numbers of a delta run: the first, and the step to each of the others.
StepTo(r, i) == IF i = 2 THEN r.step ELSE (IF r.step < 0 THEN -1 ELSE 1) * r.rest[i-2]

\* The numbers of a delta run are each a step from the last.
LEMMA DeltaNumbers ==
  ASSUME NEW r, r.kind = "delta", NEW n \in Nat \ {0, 1}, n = Len(r.rest) + 2, Len(r.rest) \in Nat
  PROVE  /\ DOMAIN RunValues(r) = 1 .. n /\ Len(RunValues(r)) = n
         /\ RunValues(r)[1] = r.first
         /\ \A i \in 2 .. n : RunValues(r)[i] = RunValues(r)[i-1] + StepTo(r, i)
<1>. DEFINE s == [i \in 1 .. n |-> StepTo(r, i)]
            step(g, i) == IF i = 1 THEN r.first
                          ELSE g[i-1] + (IF i = 2 THEN r.step
                                         ELSE (IF r.step < 0 THEN -1 ELSE 1) * r.rest[i-2])
            v == CHOOSE g : g = [i \in 1 .. n |-> step(g, i)]
<1>1. RunValues(r) = [i \in 1 .. n |-> v[i]]
  BY DEF RunValues
<1>2. \E g : g = [i \in 1 .. n |-> step(g, i)]
  <2>1. PICK g : Stepped(g, n, r.first, s)
    <3>1. n \in Nat \ {0}
      OBVIOUS
    <3>. HIDE DEF s
    <3>. QED
      BY <3>1, StepsExist
  <2>2. \A i \in 1 .. n : s[i] = IF i = 2 THEN r.step ELSE (IF r.step < 0 THEN -1 ELSE 1) * r.rest[i-2]
    BY DEF StepTo
  <2>. HIDE DEF s
  <2>3. g = [i \in 1 .. n |-> step(g, i)]
    BY <2>1, <2>2 DEF Stepped
  <2>. QED
    BY <2>3
<1>3. v = [i \in 1 .. n |-> step(v, i)]
  BY <1>2, Zenon
<1>. HIDE DEF v
<1>4. \A i \in 1 .. n : v[i] = step(v, i)
  <2>. DEFINE k == [i \in 1 .. n |-> step(v, i)]
  <2>1. \A i \in 1 .. n : k[i] = step(v, i)
    OBVIOUS
  <2>2. v = k
    BY <1>3
  <2>. HIDE DEF k
  <2>. QED
    BY <2>1, <2>2, Zenon
<1>5. DOMAIN RunValues(r) = 1 .. n /\ Len(RunValues(r)) = n /\ \A i \in 1 .. n : RunValues(r)[i] = v[i]
  BY <1>1
<1>6. RunValues(r)[1] = r.first
  <2>1. 1 \in 1 .. n
    OBVIOUS
  <2>2. v[1] = r.first
    BY <1>4, <2>1
  <2>. QED
    BY <1>5, <2>1, <2>2
<1>7. ASSUME NEW i \in 2 .. n PROVE RunValues(r)[i] = RunValues(r)[i-1] + StepTo(r, i)
  <2>1. i \in 1 .. n /\ i - 1 \in 1 .. n /\ i # 1
    OBVIOUS
  <2>2. v[i] = v[i-1] + StepTo(r, i)
    BY <1>4, <2>1 DEF StepTo
  <2>. QED
    BY <1>5, <2>1, <2>2
<1>. QED
  BY <1>5, <1>6, <1>7

\* The steps a decoder takes.
StepRead(i, width, db, rest) ==
  IF width = 0 \/ i = 2 THEN db ELSE IF db < 0 THEN -rest[i-2] ELSE rest[i-2]

\* What it has of a delta run.
DeltaRead(r, a, db, rest) ==
  /\ a = Uncoded(Coded(r.first, IsSigned) % 2^W, W, IsSigned)
  /\ db = unZigZag(ZigZag(r.step) % 2^W)
  /\ r.width # 0 => rest = Fields(r.rest, FALSE)

\* The steps that are read.
DeltaSteps(s, n, width, db, rest) ==
  s \in [1 .. n -> Int] /\ \A i \in 2 .. n : s[i] = StepRead(i, width, db, rest)

\* They are those of the run but for multiples of 2^W.
LEMMA StepsRead ==
  ASSUME NEW r, r.kind = "delta", Fits(r, W, IsSigned), W \in CWidths, r.rest \in Seq(Nat),
         NEW n \in Nat \ {0, 1}, n = Len(r.rest) + 2, r.step \in Type(W),
         NEW a, NEW db, NEW rest, DeltaRead(r, a, db, rest), NEW i \in 2 .. n
  PROVE  /\ StepRead(i, r.width, db, rest) \in Int /\ StepTo(r, i) \in Int
         /\ StepRead(i, r.width, db, rest) % 2^W = StepTo(r, i) % 2^W
<1>1. r.step \in Int /\ db = r.step
  <2>1. 2^(W-1) \in Int
    BY Halves
  <2>2. r.step \in Int
    BY <2>1 DEF Type
  <2>3. unZigZag(ZigZag(r.step) % 2^W) = r.step
    BY <2>2, ZigZagFits
  <2>. QED
    BY <2>2, <2>3 DEF DeltaRead
<1>2. CASE i = 2
  BY <1>1, <1>2 DEF StepRead, StepTo
<1>3. CASE i # 2
  <2>1. i - 2 \in 1 .. Len(r.rest) /\ i - 2 \in DOMAIN r.rest /\ Len(r.rest) \in Nat
    BY <1>3
  <2>2. r.rest[i-2] \in Nat
    BY <2>1
  <2>3. CASE r.width = 0
    <3>1. r.rest[i-2] = Size(r.step)
      BY <2>1, <2>3 DEF Fits
    <3>2. (IF r.step < 0 THEN -1 ELSE 1) * Size(r.step) = r.step
      BY <1>1 DEF Size
    <3>3. StepTo(r, i) = r.step
      BY <1>3, <3>1, <3>2 DEF StepTo
    <3>4. StepRead(i, r.width, db, rest) = r.step
      BY <1>1, <2>3 DEF StepRead
    <3>. QED
      BY <1>1, <3>3, <3>4
  <2>4. CASE r.width # 0
    <3>. DEFINE x == r.rest[i-2]
                y == ToSigned(x % 2^W, W)
                m == 2^W
    <3>1. rest[i-2] = y
      BY <2>1, <2>4 DEF DeltaRead, Fields, Uncoded
    <3>2. m \in Nat \ {0}
      BY Halves
    <3>3. y = ToSigned(x, W)
      BY <2>2, SignedRemainder
    <3>4. x \in Int
      BY <2>2
    <3>5. y \in Int /\ y % m = x % m
      <4>. HIDE DEF x
      <4>. QED
        BY <3>3, <3>4, SignedValue
    <3>6. StepTo(r, i) = IF r.step < 0 THEN -x ELSE x
      <4>1. (-1) * x = -x /\ 1 * x = x
        BY <3>4
      <4>. QED
        BY <1>3, <4>1 DEF StepTo
    <3>7. StepRead(i, r.width, db, rest) = IF r.step < 0 THEN -y ELSE y
      BY <1>1, <1>3, <2>4, <3>1 DEF StepRead
    <3>. HIDE DEF x, y, m
    <3>8. (-y) % m = (-x) % m
      BY <3>2, <3>4, <3>5, MinusAlike
    <3>9. -y \in Int /\ -x \in Int
      BY <3>4, <3>5
    <3>10. StepRead(i, r.width, db, rest) % m = StepTo(r, i) % m
      BY <3>5, <3>6, <3>7, <3>8
    <3>11. StepRead(i, r.width, db, rest) \in Int /\ StepTo(r, i) \in Int
      BY <3>4, <3>5, <3>6, <3>7, <3>9
    <3>. QED
      BY <3>10, <3>11 DEF m
  <2>. QED
    BY <2>3, <2>4
<1>. QED
  BY <1>2, <1>3

\* Where the first step is one of the type, the numbers are right.
LEMMA DeltaRight ==
  ASSUME NEW r, r.kind = "delta", Fits(r, W, IsSigned), W \in CWidths, r.rest \in Seq(Nat),
         NEW n \in Nat \ {0, 1}, n = Len(r.rest) + 2, r.step \in Type(W),
         NEW a, NEW db, NEW rest, DeltaRead(r, a, db, rest),
         NEW s, DeltaSteps(s, n, r.width, db, rest),
         NEW v, Wrapped(v, n, a, s, W), a \in Int
  PROVE  v = Right(r)
<1>. DEFINE t == RunValues(r)
            S == {m \in Nat : m + 1 \in 1 .. n => v[m + 1] = ToSigned(t[m + 1], W)}
<1>1. n \in Nat \ {0} /\ Len(r.rest) \in Nat
  OBVIOUS
<1>. s \in [1 .. n -> Int] /\ \A i \in 2 .. n : s[i] = StepRead(i, r.width, db, rest)
  BY DEF DeltaSteps
<1>2. /\ DOMAIN t = 1 .. n /\ t[1] = r.first
      /\ \A i \in 2 .. n : t[i] = t[i-1] + StepTo(r, i)
  BY <1>1, DeltaNumbers
<1>3. \A i \in 1 .. n : InType(t[i])
  BY <1>2, FitsRange
<1>4. \A i \in 1 .. n : t[i] \in Int
  BY <1>3, UncodedRight
<1>5. /\ v \in [1 .. n -> Int] /\ v[1] = a
      /\ \A i \in 2 .. n : v[i] = ToSigned(v[i-1] + s[i], W)
  <2>1. WrappedTo(v, n, a, s, W)
    BY <1>1, WrappedSteps
  <2>. QED
    BY <2>1 DEF WrappedTo
<1>6. v[1] = ToSigned(t[1], W)
  <2>1. InType(r.first)
    BY <1>1, <1>2, <1>3
  <2>2. Uncoded(Coded(r.first, IsSigned) % 2^W, W, IsSigned) = ToSigned(r.first, W)
    BY <2>1, UncodedRight
  <2>. QED
    BY <1>2, <1>5, <2>2 DEF DeltaRead
<1>. HIDE DEF t
<1>7. 0 \in S
  BY <1>6
<1>8. ASSUME NEW m \in Nat, m \in S PROVE m + 1 \in S
  <2>. DEFINE i == (m + 1) + 1
  <2>1. SUFFICES ASSUME i \in 1 .. n PROVE v[i] = ToSigned(t[i], W)
    OBVIOUS
  <2>2. m + 1 \in 1 .. n /\ i \in 2 .. n /\ i - 1 = m + 1 /\ i - 1 \in 1 .. n
    BY <2>1
  <2>3. v[i-1] = ToSigned(t[i-1], W)
    BY <1>8, <2>2
  <2>. HIDE DEF i
  <2>4. t[i-1] \in Int /\ v[i-1] \in Int /\ v[i-1] % 2^W = t[i-1] % 2^W
    <3>1. t[i-1] \in Int
      BY <1>4, <2>2
    <3>2. ToSigned(t[i-1], W) \in Int /\ ToSigned(t[i-1], W) % 2^W = t[i-1] % 2^W
      BY <3>1, SignedValue
    <3>. QED
      BY <2>3, <3>1, <3>2
  <2>5. /\ StepRead(i, r.width, db, rest) \in Int /\ StepTo(r, i) \in Int
        /\ StepRead(i, r.width, db, rest) % 2^W = StepTo(r, i) % 2^W
    BY <2>2, StepsRead
  <2>6. s[i] \in Int /\ s[i] % 2^W = StepTo(r, i) % 2^W
    BY <2>2, <2>5
  <2>7. 2^W \in Nat \ {0}
    BY Halves
  <2>8. (v[i-1] + s[i]) % 2^W = (t[i-1] + StepTo(r, i)) % 2^W
    <3>1. Same(v[i-1], t[i-1], 2^W) /\ Same(s[i], StepTo(r, i), 2^W)
      BY <2>4, <2>6 DEF Same
    <3>2. Same(v[i-1] + s[i], t[i-1] + StepTo(r, i), 2^W)
      BY <2>4, <2>5, <2>6, <2>7, <3>1, SameSum
    <3>. QED
      BY <3>2 DEF Same
  <2>9. v[i-1] + s[i] \in Int /\ t[i-1] + StepTo(r, i) \in Int
    BY <2>4, <2>5, <2>6
  <2>10. ToSigned(v[i-1] + s[i], W) = ToSigned(t[i-1] + StepTo(r, i), W)
    BY <2>8, <2>9, SameSigned
  <2>. QED
    BY <1>2, <1>5, <2>2, <2>10
<1>9. Nat \subseteq S
  <2>. HIDE DEF S
  <2>. QED
    BY <1>7, <1>8, SetInduction
<1>10. ASSUME NEW i \in 1 .. n PROVE v[i] = ToSigned(t[i], W)
  <2>1. i - 1 \in Nat /\ (i - 1) + 1 = i
    OBVIOUS
  <2>2. i - 1 \in S
    <3>. HIDE DEF S
    <3>. QED
      BY <1>9, <2>1
  <2>. QED
    BY <2>1, <2>2
<1>11. v = [i \in 1 .. n |-> v[i]]
  BY <1>5
<1>. QED
  BY <1>2, <1>10, <1>11 DEF t, Right

\* Where it is not, already the second number is wrong.
LEMMA DeltaWrong ==
  ASSUME NEW r, r.kind = "delta", Fits(r, W, IsSigned), W \in CWidths, r.rest \in Seq(Nat),
         r.step \in Int, NEW n \in Nat \ {0, 1}, n = Len(r.rest) + 2, r.step \notin Type(W),
         NEW a, NEW db, NEW rest, DeltaRead(r, a, db, rest),
         NEW s, DeltaSteps(s, n, r.width, db, rest),
         NEW v, Wrapped(v, n, a, s, W), a \in Int
  PROVE  v[2] # ToSigned(RunValues(r)[2], W)
<1>. DEFINE t == RunValues(r)
            h == 2^(W-1)
<1>1. n \in Nat \ {0} /\ Len(r.rest) \in Nat /\ 1 \in 1 .. n /\ 2 \in 1 .. n /\ 2 \in 2 .. n
  OBVIOUS
<1>12. s \in [1 .. n -> Int] /\ \A i \in 2 .. n : s[i] = StepRead(i, r.width, db, rest)
  BY DEF DeltaSteps
<1>2. /\ DOMAIN t = 1 .. n /\ t[1] = r.first /\ t[2] = r.first + r.step
  <2>1. t[2] = t[2-1] + StepTo(r, 2) /\ DOMAIN t = 1 .. n /\ t[1] = r.first
    BY <1>1, DeltaNumbers
  <2>. QED
    BY <2>1 DEF StepTo
<1>3. InType(t[1]) /\ InType(t[2])
  BY <1>1, <1>2, FitsRange
<1>4. r.first \in Int
  BY <1>2, <1>3, UncodedRight
<1>5. v[2] = ToSigned(ToSigned(r.first, W) + db, W)
  <2>1. v[1] = a /\ v[2] = ToSigned(v[2-1] + s[2], W) /\ s[2] = db
    <3>1. v[1] = a /\ \A i \in 2 .. n : v[i] = ToSigned(v[i-1] + s[i], W)
      <4>1. WrappedTo(v, n, a, s, W)
        BY <1>1, <1>12, WrappedSteps
      <4>. QED
        BY <4>1 DEF WrappedTo
    <3>2. s[2] = db
      BY <1>1, <1>12 DEF StepRead
    <3>. QED
      BY <1>1, <3>1, <3>2
  <2>2. a = ToSigned(r.first, W)
    BY <1>2, <1>3, UncodedRight DEF DeltaRead
  <2>. QED
    BY <2>1, <2>2
<1>6. h \in Nat \ {0} /\ 2^W = 2 * h
  BY Halves
<1>. HIDE DEF h
<1>7. r.step < 2^W /\ -r.step < 2^W /\ (r.step >= h \/ r.step < -h)
  <2>1. r.step >= h \/ r.step < -h
    BY <1>6 DEF Type, h
  <2>. DEFINE f == r.first
              d == r.step
              m == 2^W
  <2>0. f \in Int /\ d \in Int /\ h \in Nat /\ m = 2 * h
    BY <1>4, <1>6
  <2>2. CASE IsSigned
    <3>1. f \in -h .. h - 1 /\ f + d \in -h .. h - 1
      BY <1>2, <1>3, <2>2 DEF InType, Type, h
    <3>. HIDE DEF f, d, m
    <3>2. d < m /\ -d < m
      BY <2>0, <3>1
    <3>. QED
      BY <2>1, <3>2 DEF d, m
  <2>3. CASE ~IsSigned
    <3>1. f \in 0 .. m - 1 /\ f + d \in 0 .. m - 1
      BY <1>2, <1>3, <2>3 DEF InType
    <3>. HIDE DEF f, d, m
    <3>2. d < m /\ -d < m
      BY <2>0, <3>1
    <3>. QED
      BY <2>1, <3>2 DEF d, m
  <2>. QED
    BY <2>2, <2>3
<1>8. db = r.step - h \/ db = r.step + h
  <2>1. /\ h <= r.step /\ r.step < 2^W => unZigZag(ZigZag(r.step) % 2^W) = r.step - h
        /\ r.step < -h /\ -r.step < 2^W => unZigZag(ZigZag(r.step) % 2^W) = r.step + h
    BY ZigZagFits DEF h
  <2>. QED
    BY <1>6, <1>7, <2>1 DEF DeltaRead
<1>. DEFINE x == r.first + r.step
            y == ToSigned(r.first, W) + db
            z == r.first + db
<1>9. db \in Int /\ x \in Int /\ z \in Int /\ (z = x + h \/ z = x - h)
  <2>. DEFINE f == r.first
              d == r.step
  <2>1. f \in Int /\ d \in Int /\ h \in Nat /\ (db = d - h \/ db = d + h) /\ x = f + d /\ z = f + db
    BY <1>4, <1>6, <1>8
  <2>. HIDE DEF f, d, x, z
  <2>. QED
    BY <2>1
<1>10. ToSigned(x, W) # ToSigned(z, W)
  <2>. HIDE DEF x, z
  <2>. QED
    BY <1>9, HalfApart DEF h
<1>11. ToSigned(y, W) = ToSigned(z, W)
  <2>1. ToSigned(r.first, W) \in Int /\ ToSigned(r.first, W) % 2^W = r.first % 2^W
    BY <1>4, SignedValue
  <2>2. 2^W \in Nat \ {0} /\ db \in Int
    BY <1>9, Halves
  <2>3. y % 2^W = z % 2^W
    <3>1. Same(ToSigned(r.first, W), r.first, 2^W) /\ Same(db, db, 2^W)
      BY <2>1 DEF Same
    <3>2. Same(y, z, 2^W)
      BY <1>4, <2>1, <2>2, <3>1, SameSum
    <3>. QED
      BY <3>2 DEF Same
  <2>4. y \in Int /\ z \in Int
    BY <1>4, <1>9, <2>1
  <2>. HIDE DEF y, z
  <2>. QED
    BY <2>3, <2>4, SameSigned
<1>. QED
  BY <1>2, <1>5, <1>10, <1>11

\* The numbers that are read.
ReadChain(g, n, a, width, db, rest) ==
  g = [i \in 1 .. n |-> IF i = 1 THEN a ELSE ToSigned(g[i-1] + StepRead(i, width, db, rest), W)]

\* What a delta run yields.
LEMMA DeltaYields ==
  ASSUME NEW r, Placed(r), r.kind = "delta", Fits(r, W, IsSigned), W \in CWidths,
         NEW n, n = Len(RunValues(r)), NEW a, NEW db, NEW rest, DeltaRead(r, a, db, rest),
         NEW v, v = CHOOSE g : g = [i \in 1 .. n |->
                      IF i = 1 THEN a ELSE ToSigned(g[i-1] + StepRead(i, r.width, db, rest), W)]
  PROVE  Yields(r, [i \in 1 .. n |-> v[i]])
<1>1. r.rest \in Seq(Nat) /\ r.step \in Int /\ Len(r.rest) \in Nat
  <2>1. r.rest \in Seq(Nat) /\ r.step \in Int
    BY DEF Placed, Legal
  <2>. QED
    BY <2>1
<1>2. n \in Nat \ {0, 1} /\ n = Len(r.rest) + 2 /\ n \in Nat \ {0} /\ DOMAIN RunValues(r) = 1 .. n
      /\ RunValues(r)[1] = r.first
  <2>1. Len(r.rest) + 2 \in Nat \ {0, 1}
    BY <1>1
  <2>. DEFINE k == Len(r.rest) + 2
  <2>2. k \in Nat \ {0, 1} /\ k = Len(r.rest) + 2
    BY <2>1
  <2>3. DOMAIN RunValues(r) = 1 .. k /\ Len(RunValues(r)) = k /\ RunValues(r)[1] = r.first
    <3>. HIDE DEF k
    <3>. QED
      BY <1>1, <2>2, DeltaNumbers
  <2>. QED
    BY <2>1, <2>3
<1>3. db \in Int
  <2>1. ZigZag(r.step) \in Nat
    BY <1>1, ZigZagBack
  <2>2. 2^W \in Nat \ {0}
    BY Halves
  <2>3. ZigZag(r.step) % 2^W \in Nat
    BY <2>1, <2>2
  <2>. QED
    BY <2>3 DEF DeltaRead, unZigZag
<1>4. a \in Int
  <2>1. 1 \in 1 .. n
    BY <1>2
  <2>2. InType(r.first)
    BY <1>2, <2>1, FitsRange
  <2>3. r.first \in Int /\ Uncoded(Coded(r.first, IsSigned) % 2^W, W, IsSigned) = ToSigned(r.first, W)
    BY <2>2, UncodedRight
  <2>4. ToSigned(r.first, W) \in Int
    BY <2>3, SignedValue
  <2>. QED
    BY <2>3, <2>4 DEF DeltaRead
<1>5. ASSUME NEW i \in 2 .. n PROVE StepRead(i, r.width, db, rest) \in Int
  <2>1. CASE r.width = 0 \/ i = 2
    BY <1>3, <2>1 DEF StepRead
  <2>2. CASE r.width # 0 /\ i # 2
    <3>1. i - 2 \in 1 .. Len(r.rest)
      BY <1>1, <1>2, <2>2
    <3>2. rest[i-2] = ToSigned(r.rest[i-2] % 2^W, W)
      BY <2>2, <3>1 DEF DeltaRead, Fields, Uncoded
    <3>3. r.rest[i-2] \in Nat
      BY <1>1, <3>1
    <3>4. r.rest[i-2] % 2^W \in Int
      <4>1. 2^W \in Nat \ {0}
        BY Halves
      <4>. QED
        BY <3>3, <4>1
    <3>5. rest[i-2] \in Int
      BY <3>2, <3>4, SignedValue
    <3>. QED
      BY <1>3, <2>2, <3>5 DEF StepRead
  <2>. QED
    BY <2>1, <2>2
<1>. DEFINE s == [i \in 1 .. n |-> IF i = 1 THEN 0 ELSE StepRead(i, r.width, db, rest)]
<1>6. s \in [1 .. n -> Int] /\ \A i \in 2 .. n : s[i] = StepRead(i, r.width, db, rest)
  <2>1. ASSUME NEW i \in 1 .. n PROVE (IF i = 1 THEN 0 ELSE StepRead(i, r.width, db, rest)) \in Int
    <3>1. i = 1 \/ i \in 2 .. n
      OBVIOUS
    <3>. QED
      BY <1>5, <3>1
  <2>. QED
    BY <1>2, <2>1
<1>. HIDE DEF s
<1>61. DeltaSteps(s, n, r.width, db, rest)
  BY <1>6 DEF DeltaSteps
<1>7. ASSUME NEW g PROVE Wrapped(g, n, a, s, W) <=> ReadChain(g, n, a, r.width, db, rest)
  <2>1. ASSUME NEW i \in 1 .. n
        PROVE (IF i = 1 THEN a ELSE ToSigned(g[i-1] + s[i], W))
                = (IF i = 1 THEN a ELSE ToSigned(g[i-1] + StepRead(i, r.width, db, rest), W))
    <3>1. i = 1 \/ i \in 2 .. n
      BY <1>2
    <3>. QED
      BY <1>6, <3>1
  <2>. QED
    BY <2>1 DEF Wrapped, ReadChain
<1>8. \E g : Wrapped(g, n, a, s, W)
  BY <1>2, <1>4, <1>6, WrappedExists
<1>9. Wrapped(v, n, a, s, W)
  <2>1. \E g : ReadChain(g, n, a, r.width, db, rest)
    BY <1>7, <1>8
  <2>2. ReadChain(v, n, a, r.width, db, rest)
    <3>1. v = CHOOSE g : ReadChain(g, n, a, r.width, db, rest)
      BY DEF ReadChain
    <3>. QED
      BY <2>1, <3>1, Zenon
  <2>. QED
    BY <1>7, <2>2, Zenon
<1>10. WrappedTo(v, n, a, s, W)
  BY <1>2, <1>4, <1>6, <1>9, WrappedSteps
<1>11. v = [i \in 1 .. n |-> v[i]] /\ v \in [1 .. n -> Int]
  BY <1>10 DEF WrappedTo
<1>12. CASE r.step \in Type(W)
  <2>2. ~TooWide(r)
    BY <1>12 DEF TooWide
  <2>3. v = Right(r)
    BY <1>1, <1>2, <1>4, <1>61, <1>9, <1>12, DeltaRight
  <2>. QED
    BY <1>11, <2>2, <2>3 DEF Yields
<1>13. CASE r.step \notin Type(W)
  <2>1. v[2] # ToSigned(RunValues(r)[2], W)
    BY <1>1, <1>2, <1>4, <1>61, <1>9, <1>13, DeltaWrong
  <2>2. TooWide(r)
    BY <1>13 DEF TooWide
  <2>3. 2 \in 1 .. n
    BY <1>2
  <2>4. v # Right(r)
    BY <1>2, <2>1, <2>3 DEF Right
  <2>. QED
    BY <1>11, <2>2, <2>4 DEF Yields
<1>. QED
  BY <1>12, <1>13

-----------------------------------------------------------------------------
(***************************************************************************)
(* Patched runs.                                                           *)
(***************************************************************************)
\* Multiples leave no remainder.
LEMMA MultiplesGone ==
  \A m \in Nat \ {0} : \A y, z \in Int : (m * y + z) % m = z % m
<1>. SUFFICES ASSUME NEW m \in Nat \ {0}, NEW y \in Int, NEW z \in Int
             PROVE  (m * y + z) % m = z % m
  OBVIOUS
<1>. QED
  BY MultipleGone

\* The base of a patched run and its sign, as one number of whole bytes.
LEMMA BaseCoded ==
  ASSUME NEW r, PatchedRun(r), NEW M, M = 2^(8 * BaseBytes(r.base) - 1)
  PROVE  /\ M \in Nat \ {0} /\ Size(r.base) \in Nat /\ Size(r.base) < M
         /\ 2^(8 * BaseBytes(r.base)) = 2 * M
         /\ BaseCode(r) = Size(r.base) + (IF r.base < 0 THEN M ELSE 0)
<1>1. BaseBytes(r.base) \in 1 .. 8 /\ r.base \in Int /\ Size(r.base) < M
  BY DEF PatchedRun
<1>. DEFINE k == 8 * BaseBytes(r.base) - 1
<1>2. k \in Nat /\ k + 1 = 8 * BaseBytes(r.base)
  BY <1>1
<1>3. Size(r.base) \in Nat
  BY <1>1 DEF Size
<1>. HIDE DEF k
<1>4. 2^k \in Nat /\ 2^k >= 1 /\ 2^(k + 1) = 2 * 2^k
  BY <1>2, Pow2
<1>. QED
  BY <1>1, <1>2, <1>3, <1>4 DEF BaseCode, k

\* It is read from its bytes.
LEMMA BaseBytesRead ==
  ASSUME NEW r, Placed(r), r.kind = "patched", W \in CWidths
  PROVE  readLongBE(index + 4, BaseBytes(r.base)) = BaseCode(r) % 2^W
<1>. DEFINE n == BaseBytes(r.base)
            x == BaseCode(r)
            M == 2^(8*n - 1)
            t == BigEndian(x, n)
<1>1. PatchedRun(r)
  BY PatchedFacts
<1>2. n \in 1 .. 8 /\ n \in Nat /\ W \in Nat
  <2>1. W \in Nat
    BY Halves
  <2>2. n \in 1 .. 8
    BY <1>1 DEF PatchedRun
  <2>. QED
    BY <2>1, <2>2
<1>3. x \in Nat /\ x < 2^(8*n)
  <2>1. M = 2^(8 * BaseBytes(r.base) - 1)
    OBVIOUS
  <2>. HIDE DEF M
  <2>2. /\ M \in Nat \ {0} /\ Size(r.base) \in Nat /\ Size(r.base) < M
        /\ 2^(8 * BaseBytes(r.base)) = 2 * M
        /\ BaseCode(r) = Size(r.base) + (IF r.base < 0 THEN M ELSE 0)
    BY <1>1, <2>1, BaseCoded
  <2>. QED
    BY <2>2
<1>4. Part(data, index + 4, t)
  BY PatchedPlaces
<1>. HIDE DEF n, x
<1>5. Len(t) = n
  BY <1>2, BigEndianBytes
<1>6. ASSUME NEW k \in 1 .. n PROVE data[index + 4 + k] = Digit(x, 8, n, k)
  <2>1. t[k] = (x \div 2^(8 * (n - k))) % 256 /\ 2^8 = 256
    BY DEF BigEndian
  <2>. HIDE DEF t
  <2>2. data[index + 4 + k] = t[k]
    BY <1>5, <1>4 DEF Part
  <2>. QED
    BY <2>1, <2>2 DEF Digit, Leading
<1>7. readLongBE(index + 4, n) = x % 2^W
  BY <1>2, <1>3, <1>6, LongRead
<1>. QED
  BY <1>7 DEF n, x

\* A base of more bytes than the type has is the number it is all the same.
LEMMA WideBase ==
  ASSUME NEW r, PatchedRun(r), r.kind = "patched", Fits(r, W, IsSigned), W \in CWidths,
         8 * BaseBytes(r.base) > W
  PROVE  r.base = -(2^(W-1)) \/ (~IsSigned /\ r.base >= 0)
<1>. DEFINE n == BaseBytes(r.base)
            h == 2^(W-1)
<1>1. n \in 1 .. 8 /\ r.base \in Int /\ \A m \in 1 .. n - 1 : Size(r.base) >= 2^(8*m - 1)
  BY DEF PatchedRun
<1>2. n - 1 \in 1 .. n - 1 /\ 8 * (n - 1) - 1 \in Nat /\ W - 1 \in Nat /\ W - 1 <= 8 * (n - 1) - 1
  <2>1. W = 8 \/ W = 16 \/ W = 32 \/ W = 64
    BY DEF CWidths
  <2>. QED
    BY <1>1, <2>1
<1>3. Size(r.base) >= h /\ h \in Nat
  <2>1. Size(r.base) >= 2^(8 * (n - 1) - 1)
    BY <1>1, <1>2
  <2>. DEFINE a == W - 1
              b == 8 * (n - 1) - 1
  <2>2. a \in Nat /\ b \in Nat /\ a <= b
    BY <1>2
  <2>3. Size(r.base) \in Int
    BY <1>1 DEF Size
  <2>. HIDE DEF a, b
  <2>4. 2^a <= 2^b /\ 2^a \in Nat /\ 2^b \in Nat
    BY <2>2, PowersOrder, PowerType
  <2>. QED
    BY <2>1, <2>3, <2>4 DEF a, b
<1>4. r.base \in IF IsSigned THEN -h .. h - 1 ELSE 0 .. 2^W - 1
  BY DEF Fits, h
<1>5. 2^W \in Int
  BY Halves
<1>. HIDE DEF h
<1>6. CASE IsSigned
  BY <1>1, <1>3, <1>4, <1>6 DEF Size, h
<1>7. CASE ~IsSigned
  BY <1>1, <1>4, <1>5, <1>7
<1>. QED
  BY <1>6, <1>7

\* The base of a patched run is read back, but for multiples of the type.
LEMMA BaseRead ==
  ASSUME NEW r, Placed(r), r.kind = "patched", Fits(r, W, IsSigned), W \in CWidths
  PROVE  /\ PatchedBase(BaseBytes(r.base)) \in Int
         /\ PatchedBase(BaseBytes(r.base)) % 2^W = r.base % 2^W
<1>. DEFINE n == BaseBytes(r.base)
            M == 2^(8*n - 1)
            m == 2^W
            u == readLongBE(index + 4, n)
            x == BaseCode(r)
            s == Size(r.base)
<1>1. PatchedRun(r)
  BY PatchedFacts
<1>2. /\ M \in Nat \ {0} /\ s \in Nat /\ s < M
      /\ 2^(8 * n) = 2 * M
      /\ x = s + (IF r.base < 0 THEN M ELSE 0)
  <2>1. M = 2^(8 * BaseBytes(r.base) - 1)
    OBVIOUS
  <2>. HIDE DEF M
  <2>. QED
    BY <1>1, <2>1, BaseCoded
<1>3. n \in 1 .. 8 /\ r.base \in Int
  BY <1>1 DEF PatchedRun
<1>4. m \in Nat \ {0} /\ W \in Nat /\ W - 1 \in Nat /\ m = 2 * 2^(W-1) /\ 2^(W-1) \in Nat \ {0}
  BY Halves
<1>5. u = x % m
  BY BaseBytesRead
<1>6. s = IF r.base < 0 THEN -r.base ELSE r.base
  BY DEF Size
<1>7. PatchedBase(n) = IF 8 * n <= W /\ u >= M THEN M - u ELSE ToSigned(u, W)
  BY DEF PatchedBase
<1>8. ToSigned(u, W) \in Int /\ ToSigned(u, W) % m = x % m
  <2>1. x \in Int
    BY <1>2
  <2>2. ToSigned(u, W) = ToSigned(x, W)
    BY <1>5, <2>1, SignedRemainder
  <2>3. ToSigned(x, W) \in Int /\ ToSigned(x, W) % m = x % m
    BY <2>1, SignedValue
  <2>. QED
    BY <2>2, <2>3
<1>. HIDE DEF n, M, m, u, x, s
<1>9. CASE 8 * n <= W
  <2>1. x < m /\ x \in Nat
    <3>1. 8 * n \in Nat
      BY <1>3
    <3>2. 2^(8 * n) <= 2^W
      BY <1>4, <1>9, <3>1, PowersOrder, Zenon
    <3>. QED
      BY <1>2, <1>4, <3>2 DEF m
  <2>2. u = x
    BY <1>4, <1>5, <2>1, OwnRemainder
  <2>3. CASE r.base < 0
    <3>1. PatchedBase(n) = M - u /\ M - u = r.base
      BY <1>2, <1>3, <1>6, <1>7, <1>9, <2>2, <2>3
    <3>. QED
      BY <1>3, <3>1 DEF m, n
  <2>4. CASE ~(r.base < 0)
    <3>1. PatchedBase(n) = ToSigned(u, W) /\ x = r.base
      BY <1>2, <1>3, <1>6, <1>7, <1>9, <2>2, <2>4
    <3>. QED
      BY <1>8, <3>1 DEF m, n
  <2>. QED
    BY <2>3, <2>4
<1>10. CASE ~(8 * n <= W)
  <2>1. PatchedBase(n) = ToSigned(u, W)
    BY <1>7, <1>10
  <2>2. r.base = -(2^(W-1)) \/ r.base >= 0
    <3>1. 8 * BaseBytes(r.base) > W
      BY <1>3, <1>4, <1>10 DEF n
    <3>. QED
      BY <1>1, <3>1, WideBase
  <2>3. CASE r.base >= 0
    <3>1. x = r.base
      BY <1>2, <1>3, <1>6, <2>3
    <3>. QED
      BY <1>8, <2>1, <3>1 DEF m, n
  <2>4. CASE r.base = -(2^(W-1))
    <3>1. s = 2^(W-1) /\ x = s + M /\ r.base = s - m
      BY <1>2, <1>3, <1>4, <1>6, <2>4
    <3>2. PICK q \in Int : M = m * q
      <4>. DEFINE a == 8 * n - 1
      <4>1. a \in Nat /\ W <= a
        BY <1>3, <1>4, <1>10
      <4>. HIDE DEF a
      <4>2. 2^a = 2^W * 2^(a - W) /\ 2^(a - W) \in Nat \ {0}
        BY <1>4, <4>1, PowersGrow
      <4>. QED
        BY <4>2 DEF a, m, M
    <3>6. s \in Int /\ q \in Int /\ -1 \in Int /\ m \in Nat \ {0}
      BY <1>2, <1>4
    <3>7. \A y \in Int : (m * y + s) % m = s % m
      BY <3>6, MultiplesGone, Zenon
    <3>3. (m * q + s) % m = s % m
      BY <3>6, <3>7, Zenon
    <3>4. (m * (-1) + s) % m = s % m
      BY <3>6, <3>7, Zenon
    <3>5. x = m * q + s /\ r.base = m * (-1) + s
      BY <1>2, <1>4, <3>1, <3>2
    <3>. QED
      BY <1>8, <2>1, <3>3, <3>4, <3>5 DEF m, n
  <2>. QED
    BY <2>2, <2>3, <2>4
<1>. QED
  BY <1>9, <1>10

\* One more bit of a number.
OneBit(a, k) == (a \div 2^(k-1)) % 2

\* A number grows bit by bit.
LEMMA BitStep ==
  ASSUME NEW a \in Nat, NEW k \in Nat \ {0}
  PROVE  /\ a % 2^k = (a % 2^(k-1)) + 2^(k-1) * OneBit(a, k)
         /\ OneBit(a, k) \in {0, 1} /\ 2^(k-1) \in Nat \ {0}
         /\ a % 2^k \in Nat /\ a % 2^(k-1) \in Nat
<1>. DEFINE p == 2^(k-1)
<1>1. k - 1 \in Nat /\ (k - 1) + 1 = k
  OBVIOUS
<1>2. p \in Nat \ {0} /\ 2^k = p * 2
  <2>1. 2^(k-1) \in Nat /\ 2^(k-1) >= 1 /\ 2^((k-1) + 1) = 2 * 2^(k-1)
    BY <1>1, Pow2
  <2>. QED
    BY <1>1, <2>1
<1>3. a \in Int /\ 2 \in Nat \ {0}
  OBVIOUS
<1>. HIDE DEF p
<1>4. a % (p * 2) = p * ((a \div p) % 2) + (a % p)
  BY <1>2, <1>3, RemainderParts, Zenon
<1>5. a \div p \in Int /\ a % p \in Nat
  BY <1>2, <1>3, Divided
<1>6. (a \div p) % 2 \in {0, 1}
  BY <1>5
<1>7. p * ((a \div p) % 2) \in Nat
  BY <1>2, <1>6
<1>8. a % 2^k = (a % p) + p * ((a \div p) % 2)
  BY <1>2, <1>4, <1>5, <1>7
<1>9. (a % p) + p * ((a \div p) % 2) \in Nat
  BY <1>5, <1>7
<1>. QED
  BY <1>2, <1>5, <1>6, <1>8, <1>9 DEF OneBit, p

\* Of two bits of which one is 0, the greater one is their sum.
LEMMA MaxOfBits ==
  ASSUME NEW x \in {0, 1}, NEW y \in {0, 1}, ~(x = 1 /\ y = 1)
  PROVE  Max({x, y}) = x + y
<1>. DEFINE S == {x, y}
<1>1. x + y \in S /\ \A z \in S : x + y >= z
  OBVIOUS
<1>2. \A z \in S : (\A t \in S : z >= t) => z = x + y
  OBVIOUS
<1>. HIDE DEF S
<1>3. Max(S) = x + y
  BY <1>1, <1>2 DEF Max
<1>. QED
  BY <1>3 DEF S

\* Numbers without a bit in common.
Disjoint(a, c, n) == \A k \in 1 .. n : ~(OneBit(a, k) = 1 /\ OneBit(c, k) = 1)

\* The operator | adds numbers that have no bit in common.
LEMMA BitOrSum ==
  ASSUME W \in Nat, NEW a \in Nat, NEW c \in Nat, a < 2^W, c < 2^W, Disjoint(a, c, W)
  PROVE  BitOr(a, c) = a + c
<1>. DEFINE step(h, k) == IF k = 0 THEN 0
                          ELSE h[k-1] + 2^(k-1) * Max({(a \div 2^(k-1)) % 2, (c \div 2^(k-1)) % 2})
            f == CHOOSE h : h = [k \in 0 .. W |-> step(h, k)]
            g == [k \in 0 .. W |-> (a % 2^k) + (c % 2^k)]
<1>1. g[0] = 0
  <2>1. 2^0 = 1 /\ 0 \in 0 .. W
    BY Pow2
  <2>2. a % 1 = 0 /\ c % 1 = 0
    OBVIOUS
  <2>. QED
    BY <2>1, <2>2
<1>2. g[W] = a + c
  <2>1. 2^W \in Nat \ {0} /\ W \in 0 .. W
    BY Pow2
  <2>2. a % 2^W = a /\ c % 2^W = c
    BY <2>1, OwnRemainder
  <2>. QED
    BY <2>1, <2>2
<1>3. \A k \in 1 .. W : g[k] = g[k-1] + 2^(k-1) * Max({(a \div 2^(k-1)) % 2, (c \div 2^(k-1)) % 2})
  <2>. SUFFICES ASSUME NEW k \in 1 .. W
                PROVE g[k] = g[k-1] + 2^(k-1) * Max({(a \div 2^(k-1)) % 2, (c \div 2^(k-1)) % 2})
    OBVIOUS
  <2>1. k \in 0 .. W /\ k - 1 \in 0 .. W /\ k \in Nat \ {0}
    OBVIOUS
  <2>2. g[k] = (a % 2^k) + (c % 2^k) /\ g[k-1] = (a % 2^(k-1)) + (c % 2^(k-1))
    BY <2>1
  <2>. DEFINE p == 2^(k-1)
              x == OneBit(a, k)
              y == OneBit(c, k)
  <2>3. /\ a % 2^k = (a % p) + p * x /\ x \in {0, 1} /\ p \in Nat \ {0} /\ a % p \in Nat
        /\ c % 2^k = (c % p) + p * y /\ y \in {0, 1} /\ c % p \in Nat
    BY <2>1, BitStep
  <2>4. Max({x, y}) = x + y
    <3>1. ~(x = 1 /\ y = 1)
      BY DEF Disjoint
    <3>. HIDE DEF x, y
    <3>. QED
      BY <2>3, <3>1, MaxOfBits
  <2>5. Max({(a \div 2^(k-1)) % 2, (c \div 2^(k-1)) % 2}) = x + y
    BY <2>4 DEF OneBit
  <2>6. p * (x + y) = p * x + p * y /\ p * x \in Nat /\ p * y \in Nat
    <3>. HIDE DEF x, y, p
    <3>. QED
      BY <2>3
  <2>. HIDE DEF x, y, g
  <2>7. g[k] = g[k-1] + p * (x + y)
    <3>. DEFINE A == a % p
                C == c % p
                X == p * x
                Y == p * y
    <3>1. g[k] = (A + X) + (C + Y)
      BY <2>2, <2>3, Zenon
    <3>2. g[k-1] = A + C
      BY <2>2
    <3>3. A \in Nat /\ C \in Nat /\ X \in Nat /\ Y \in Nat /\ p * (x + y) = X + Y
      BY <2>3, <2>6
    <3>. HIDE DEF A, C, X, Y
    <3>. QED
      BY <3>1, <3>2, <3>3
  <2>. QED
    BY <2>5, <2>7
<1>4. g = [k \in 0 .. W |-> step(g, k)]
  <2>1. \A k \in 0 .. W : g[k] = step(g, k)
    <3>1. \A k \in 0 .. W : k = 0 \/ k \in 1 .. W
      OBVIOUS
    <3>. HIDE DEF g
    <3>. QED
      BY <1>1, <1>3, <3>1
  <2>2. g = [k \in 0 .. W |-> g[k]]
    OBVIOUS
  <2>. HIDE DEF step, g
  <2>. QED
    BY <2>1, <2>2, Zenon
<1>. HIDE DEF g
<1>7. f = [k \in 0 .. W |-> step(f, k)]
  BY <1>4, Zenon
<1>8. BitOr(a, c) = f[W]
  BY Zenon DEF BitOr
<1>. HIDE DEF f
<1>9. \A k \in 0 .. W : f[k] = step(f, k)
  <2>. DEFINE h == [k \in 0 .. W |-> step(f, k)]
  <2>1. \A k \in 0 .. W : h[k] = step(f, k)
    OBVIOUS
  <2>2. f = h
    BY <1>7
  <2>. HIDE DEF h
  <2>. QED
    BY <2>1, <2>2, Zenon
<1>10. Agree(f, g, W)
  <2>1. f[0] = g[0]
    <3>1. 0 \in 0 .. W
      OBVIOUS
    <3>. QED
      BY <1>1, <1>9, <3>1
  <2>2. \A k \in 1 .. W : f[k-1] = g[k-1] => f[k] = g[k]
    <3>. SUFFICES ASSUME NEW k \in 1 .. W, f[k-1] = g[k-1] PROVE f[k] = g[k]
      OBVIOUS
    <3>1. k \in 0 .. W /\ k # 0
      OBVIOUS
    <3>. QED
      BY <1>3, <1>9, <3>1
  <2>3. StepsAlike(f, g, W)
    BY <2>1, <2>2, Zenon DEF StepsAlike
  <2>. QED
    BY <2>3, SameSteps
<1>11. f[W] = g[W]
  BY <1>10 DEF Agree
<1>. QED
  BY <1>2, <1>8, <1>11

\* Bits above a number.
LEMMA OrAbove ==
  ASSUME W \in Nat, NEW a \in Nat, a < 2^W, NEW b \in Nat, NEW t \in Nat, b * 2^t < 2^W,
         a < 2^t \/ b = 0
  PROVE  BitOr(a, b * 2^t) = a + b * 2^t
<1>. DEFINE c == b * 2^t
<1>1. 2^t \in Nat \ {0} /\ c \in Nat
  <2>1. 2^t \in Nat \ {0}
    BY PowerType
  <2>. DEFINE p == 2^t
  <2>2. p \in Nat \ {0}
    BY <2>1
  <2>. HIDE DEF p
  <2>3. b * p \in Nat
    BY <2>2
  <2>. QED
    BY <2>1, <2>3 DEF p
<1>2. ASSUME NEW k \in 1 .. W PROVE ~(OneBit(a, k) = 1 /\ OneBit(c, k) = 1)
  <2>. DEFINE p == 2^(k-1)
  <2>1. k - 1 \in Nat
    OBVIOUS
  <2>2. p \in Nat \ {0}
    BY <2>1, PowerType
  <2>3. CASE b = 0
    <3>1. c = 0
      BY <1>1, <2>3
    <3>2. 0 \div p = 0
      <4>1. 0 \in Nat /\ 0 < p
        BY <2>2
      <4>. HIDE DEF p
      <4>. QED
        BY <2>2, <4>1, OwnRemainder
    <3>3. 0 % 2 = 0
      OBVIOUS
    <3>4. OneBit(c, k) = 0
      BY <3>1, <3>2, <3>3 DEF OneBit
    <3>. QED
      BY <3>4
  <2>4. CASE b # 0 /\ k - 1 >= t
    <3>1. 2^t <= p
      BY <2>1, <2>4, PowersOrder
    <3>2. a < p
      BY <1>1, <2>2, <2>4, <3>1
    <3>3. a \div p = 0
      <4>. HIDE DEF p
      <4>. QED
        BY <2>2, <3>2, OwnRemainder
    <3>4. OneBit(a, k) = 0
      <4>1. 0 % 2 = 0
        OBVIOUS
      <4>. QED
        BY <3>3, <4>1 DEF OneBit, p
    <3>. QED
      BY <3>4
  <2>5. CASE b # 0 /\ k - 1 < t
    <3>. DEFINE u == t - k
                q == 2^u
    <3>1. u \in Nat /\ t = (k - 1) + (u + 1)
      BY <2>5
    <3>2. q \in Nat \ {0} /\ 2^(u + 1) = 2 * q
      <4>. HIDE DEF u
      <4>. QED
        BY <3>1, Pow2, PowerType
    <3>3. 2^t = p * (2 * q)
      <4>1. u + 1 \in Nat
        BY <3>1
      <4>. DEFINE v == u + 1
                  j == k - 1
      <4>2. v \in Nat /\ j \in Nat /\ t = j + v
        BY <2>1, <3>1, <4>1
      <4>. HIDE DEF v, j
      <4>3. 2^(j + v) = 2^j * 2^v
        BY <4>2, PowerSum
      <4>4. 2^v = 2 * q /\ 2^j = p
        BY <3>2 DEF v, j
      <4>. QED
        BY <4>2, <4>3, <4>4
    <3>. HIDE DEF p, q
    <3>4. c = p * (2 * (b * q)) + 0
      BY <2>2, <3>2, <3>3
    <3>5. 2 * (b * q) \in Int /\ b * q \in Int /\ c \in Int /\ 0 \in Nat /\ 0 < p
      BY <1>1, <2>2, <3>2
    <3>6. c \div p = 2 * (b * q)
      <4>. DEFINE y == 2 * (b * q)
      <4>1. y \in Int /\ c = p * y + 0
        BY <3>4, <3>5
      <4>. HIDE DEF y, c
      <4>2. c \div p = y
        BY <2>2, <3>5, <4>1, Quotient
      <4>. QED
        BY <4>2 DEF y
    <3>7. (2 * (b * q)) % 2 = 0
      <4>. DEFINE y == b * q
      <4>1. y \in Int
        BY <3>5
      <4>. HIDE DEF y
      <4>2. (2 * y) % 2 = 0
        BY <4>1
      <4>. QED
        BY <4>2 DEF y
    <3>8. OneBit(c, k) = 0
      BY <3>6, <3>7 DEF OneBit, p
    <3>. QED
      BY <3>8
  <2>6. b = 0 \/ (b # 0 /\ k - 1 >= t) \/ (b # 0 /\ k - 1 < t)
    BY <2>1
  <2>. QED
    BY <2>3, <2>4, <2>5, <2>6
<1>3. Disjoint(a, c, W)
  BY <1>2 DEF Disjoint
<1>. HIDE DEF c
<1>4. c < 2^W
  BY DEF c
<1>5. BitOr(a, c) = a + c
  BY <1>1, <1>3, <1>4, BitOrSum
<1>. QED
  BY <1>5 DEF c

\* Reduced and not.
LEMMA SignedSame ==
  ASSUME NEW w \in CWidths, NEW x \in Int, NEW y \in Int, Same(x, y, 2^w)
  PROVE  ToSigned(x, w) = ToSigned(y, w)
BY SameSigned DEF Same

\* A patch puts its bits above the number it is applied to.
PatchBits(value, base, bits, width) ==
  ToSigned(base + BitOr(ToUnsigned(value - base, W), ToUnsigned(bits * 2^width, W)), W)

\* A value and the bits to put above it, which the type has room for.
Patchable(value, base, raw, bits, width) ==
  /\ base \in Int /\ raw \in Nat /\ value = ToSigned(base + raw, W)
  /\ width \in Nat /\ raw < 2^width /\ bits \in Nat /\ bits * 2^width < 2^W

\* The patched value is the base, the raw value and the bits above.
PutAbove(value, base, raw, bits, width) ==
  PatchBits(value, base, bits, width) = ToSigned(base + raw + bits * 2^width, W)

\* So a patch is put above a value.
LEMMA PatchPut ==
  ASSUME W \in CWidths, NEW base, NEW raw, NEW value, NEW width, NEW bits,
         Patchable(value, base, raw, bits, width)
  PROVE  PutAbove(value, base, raw, bits, width)
<1>. SUFFICES ASSUME base \in Int, raw \in Nat, value = ToSigned(base + raw, W),
                     width \in Nat, raw < 2^width, bits \in Nat, bits * 2^width < 2^W
              PROVE  PatchBits(value, base, bits, width) = ToSigned(base + raw + bits * 2^width, W)
  BY DEF Patchable, PutAbove
<1>. DEFINE m == 2^W
            p == 2^width
            c == bits * p
            a == raw % m
<1>1. m \in Nat \ {0} /\ W \in Nat
  BY Halves
<1>2. p \in Nat \ {0}
  BY PowerType
<1>. HIDE DEF m, p
<1>3. c \in Nat /\ c < m
  <2>1. c \in Nat
    BY <1>2
  <2>. QED
    BY <2>1 DEF m, p
<1>4. a \in Nat /\ a < m /\ a \in Int
  BY <1>1
<1>5. value \in Int /\ value % m = (base + raw) % m
  <2>1. base + raw \in Int
    OBVIOUS
  <2>. QED
    BY <2>1, SignedValue DEF m
<1>6. ToUnsigned(value - base, W) = a
  <2>1. Same(value, base + raw, m) /\ Same(-base, -base, m)
    BY <1>5 DEF Same
  <2>2. base + raw \in Int /\ -base \in Int
    OBVIOUS
  <2>3. Same(value + (-base), (base + raw) + (-base), m)
    BY <1>1, <1>5, <2>1, <2>2, SameSum
  <2>4. value + (-base) = value - base /\ (base + raw) + (-base) = raw
    BY <1>5
  <2>5. (value - base) % m = raw % m
    BY <2>3, <2>4 DEF Same
  <2>. QED
    BY <2>5 DEF ToUnsigned, m
<1>7. ToUnsigned(bits * 2^width, W) = c
  <2>1. c % m = c
    <3>. HIDE DEF c
    <3>. QED
      BY <1>1, <1>3, OwnRemainder
  <2>. QED
    BY <2>1 DEF ToUnsigned, m, p
<1>8. a < p \/ bits = 0
  <2>1. CASE bits = 0
    BY <2>1
  <2>2. CASE bits # 0
    <3>1. p <= c
      <4>1. PICK j \in Nat : bits = j + 1
        <5>1. bits - 1 \in Nat /\ bits = (bits - 1) + 1
          BY <2>2
        <5>. QED
          BY <5>1
      <4>2. c = j * p + p /\ j * p \in Nat
        BY <1>2, <4>1
      <4>. HIDE DEF c
      <4>. QED
        BY <1>2, <4>2
    <3>2. raw < p
      BY DEF p
    <3>3. raw < m
      BY <1>1, <1>2, <1>3, <3>1, <3>2
    <3>4. a = raw
      BY <1>1, <3>3, OwnRemainder
    <3>. QED
      BY <3>2, <3>4
  <2>. QED
    BY <2>1, <2>2
<1>9. BitOr(a, c) = a + c
  <2>1. a < 2^W /\ bits * 2^width < 2^W /\ (a < 2^width \/ bits = 0)
    BY <1>4, <1>8 DEF m, p
  <2>. HIDE DEF a
  <2>2. BitOr(a, bits * 2^width) = a + bits * 2^width
    BY <1>1, <1>4, <2>1, OrAbove
  <2>. QED
    BY <2>2 DEF p
<1>10. PatchBits(value, base, bits, width) = ToSigned(base + (a + c), W)
  BY <1>6, <1>7, <1>9 DEF PatchBits
<1>11. Same(base + (a + c), base + raw + c, m)
  <2>1. a % m = raw % m
    <3>. HIDE DEF a
    <3>1. a % m = a
      BY <1>1, <1>4, OwnRemainder
    <3>. QED
      BY <3>1 DEF a
  <2>2. Same(a, raw, m) /\ Same(base + c, base + c, m)
    BY <2>1 DEF Same
  <2>3. raw \in Int /\ base + c \in Int
    BY <1>3
  <2>. HIDE DEF a, c
  <2>4. Same(a + (base + c), raw + (base + c), m)
    BY <1>1, <1>4, <2>2, <2>3, SameSum
  <2>5. a + (base + c) = base + (a + c) /\ raw + (base + c) = base + raw + c
    BY <1>3, <1>4
  <2>. QED
    BY <2>4, <2>5
<1>12. base + (a + c) \in Int /\ base + raw + c \in Int
  BY <1>3, <1>4
<1>13. ToSigned(base + (a + c), W) = ToSigned(base + raw + c, W)
  <2>. HIDE DEF a, c
  <2>. QED
    BY <1>11, <1>12, SignedSame DEF m
<1>. QED
  BY <1>10, <1>13 DEF p

\* The gap and the bits of an entry.
EntryHas(r, i, x) ==
  /\ x \in Nat /\ x < 2^Cfb(r) /\ x < 2^(r.pw + r.pgw)
  /\ x \div 2^r.pw = r.patches[i].gap /\ x % 2^r.pw = r.patches[i].bits

\* The gap and the bits of an entry.
LEMMA EntryParts ==
  ASSUME NEW r, PatchedRun(r), r.kind = "patched", Fits(r, W, IsSigned),
         NEW i \in 1 .. Len(r.patches)
  PROVE  EntryHas(r, i, Entry(r, i))
<1>. DEFINE g == r.patches[i].gap
            b == r.patches[i].bits
            p == 2^r.pw
            q == 2^r.pgw
            x == Entry(r, i)
<1>1. /\ g \in Nat /\ b \in Nat /\ r.pw \in Nat /\ r.pgw \in Nat /\ Cfb(r) \in Nat
      /\ r.pw + r.pgw <= Cfb(r)
  <2>1. /\ g \in Nat /\ b \in Nat /\ r.pw \in 1 .. 64 /\ r.pgw \in 1 .. 8 /\ Cfb(r) \in 1 .. 64
        /\ Cfb(r) >= r.pw + r.pgw
    BY DEF PatchedRun
  <2>2. \A c \in 1 .. 64 : c \in Nat
    OBVIOUS
  <2>3. \A c \in 1 .. 8 : c \in Nat
    OBVIOUS
  <2>4. r.pw \in Nat /\ r.pgw \in Nat /\ Cfb(r) \in Nat
    BY <2>1, <2>2, <2>3, Zenon
  <2>. HIDE DEF g, b
  <2>. QED
    BY <2>1, <2>4
<1>3. g < q /\ b < p
  <2>1. i \in DOMAIN r.patches
    BY DEF PatchedRun
  <2>. QED
    BY <2>1 DEF Fits
<1>4. p \in Nat \ {0} /\ q \in Nat \ {0} /\ 2^(r.pw + r.pgw) = p * q
  <2>1. p \in Nat \ {0} /\ q \in Nat \ {0}
    BY <1>1, PowerType
  <2>2. 2^(r.pw + r.pgw) = p * q
    BY <1>1, PowerSum
  <2>. QED
    BY <2>1, <2>2
<1>5. p * q <= 2^Cfb(r) /\ 2^Cfb(r) \in Nat
  <2>. DEFINE s == r.pw + r.pgw
              c == Cfb(r)
  <2>1. s \in Nat /\ c \in Nat /\ s <= c
    BY <1>1
  <2>. HIDE DEF s, c
  <2>2. 2^s <= 2^c /\ 2^c \in Nat
    BY <2>1, PowersOrder, PowerType
  <2>3. 2^s = p * q
    BY <1>4 DEF s
  <2>. QED
    BY <2>2, <2>3 DEF c
<1>6. x = g * p + b
  BY DEF Entry
<1>. HIDE DEF g, b, p, q, x
<1>7. x \in Nat /\ x < p * q /\ x = p * g + b
  <2>1. PICK j \in Nat : q = g + 1 + j
    <3>1. q - (g + 1) \in Nat /\ q = g + 1 + (q - (g + 1))
      BY <1>1, <1>3, <1>4
    <3>. QED
      BY <3>1
  <2>. DEFINE pq == p * q
              pg == p * g
              pj == p * j
  <2>2. pq = pg + p + pj /\ pj \in Nat /\ pg \in Nat /\ g * p = pg
    BY <1>1, <1>4, <2>1
  <2>3. x = pg + b
    BY <1>6, <2>2
  <2>. HIDE DEF pq, pg, pj
  <2>4. x \in Nat /\ x < pq
    BY <1>1, <1>3, <1>4, <2>2, <2>3
  <2>. QED
    BY <2>3, <2>4 DEF pq, pg
<1>8. x \div p = g /\ x % p = b
  <2>1. x \in Int /\ g \in Int
    BY <1>1, <1>7
  <2>. QED
    <3>1. p \in Nat \ {0} /\ b \in Nat /\ b < p /\ x = p * g + b
      BY <1>1, <1>3, <1>4, <1>7
    <3>. HIDE DEF p, g, b, x
    <3>. QED
      BY <2>1, <3>1, Quotient
<1>9. x < 2^Cfb(r)
  BY <1>1, <1>4, <1>5, <1>7
<1>10. x < 2^(r.pw + r.pgw)
  BY <1>4, <1>7
<1>. QED
  BY <1>7, <1>8, <1>9, <1>10 DEF EntryHas, g, b, p, x

\* What is read of an entry: itself, or less of its gap if it does not fit.
EntryReadAs(r, i, e) ==
  /\ e \in Int /\ e = ToSigned(Entry(r, i), W)
  /\ Entry(r, i) < 2^(W-1) => e = Entry(r, i)
  /\ e >= 0 => e \div 2^r.pw \in Nat /\ e \div 2^r.pw <= r.patches[i].gap
  /\ Entry(r, i) >= 2^(W-1) /\ e >= 0 => e \div 2^r.pw < r.patches[i].gap

\* The entry is read back, in the type.
LEMMA EntryRead ==
  ASSUME NEW r, PatchedRun(r), r.kind = "patched", Fits(r, W, IsSigned), W \in CWidths,
         NEW i \in 1 .. Len(r.patches), NEW e, e = ToSigned(Entry(r, i) % 2^W, W)
  PROVE  EntryReadAs(r, i, e)
<1>. DEFINE x == Entry(r, i)
            g == r.patches[i].gap
            h == 2^(W-1)
            m == 2^W
            p == 2^r.pw
<1>1. x \in Nat /\ x \div p = g /\ g \in Nat
  <2>1. EntryHas(r, i, x)
    BY EntryParts
  <2>2. g \in Nat
    BY DEF PatchedRun
  <2>. QED
    BY <2>1, <2>2 DEF EntryHas
<1>2. m \in Nat \ {0} /\ W \in Nat /\ h \in Nat \ {0} /\ m = 2 * h
  BY Halves
<1>3. r.pw \in Nat /\ r.pw < W /\ p \in Nat \ {0}
  <2>1. r.pw \in 1 .. 64
    BY DEF PatchedRun
  <2>2. r.pw < W
    BY DEF Fits
  <2>3. r.pw \in Nat
    BY <2>1, WidthIsNat, Zenon
  <2>. QED
    BY <2>2, <2>3, PowerType
<1>4. PICK k \in Nat \ {0} : m = p * k
  <2>1. r.pw <= W
    BY <1>2, <1>3
  <2>2. 2^W = 2^r.pw * 2^(W - r.pw) /\ 2^(W - r.pw) \in Nat \ {0}
    BY <1>2, <1>3, <2>1, PowersGrow
  <2>. QED
    BY <2>2
<1>5. e = ToSigned(x, W) /\ e \in Type(W) /\ e \in Int /\ e % m = x % m
  <2>1. x \in Int
    BY <1>1
  <2>2. e = ToSigned(x, W)
    BY <2>1, SignedRemainder
  <2>3. ToSigned(x, W) \in Type(W) /\ ToSigned(x, W) \in Int /\ ToSigned(x, W) % m = x % m
    BY <2>1, SignedValue
  <2>. QED
    BY <2>2, <2>3
<1>6. e \in -h .. h - 1
  BY <1>5 DEF Type
<1>60. e \in Int /\ x \in Int
  BY <1>1, <1>5
<1>. HIDE DEF x, g, h, m, p
<1>7. ASSUME x < h PROVE e = x
  <2>1. x \in Type(W)
    BY <1>1, <1>2, <1>7 DEF Type, h
  <2>. QED
    BY <1>5, <2>1, OwnSigned
<1>8. PICK q \in Int : x = e + m * q
  <2>1. x \in Int /\ x % m = e % m
    BY <1>1, <1>5
  <2>2. x % m = e % m <=> \E k0 \in Int : x = e + m * k0
    BY <1>2, <1>5, <2>1, SameRemainder
  <2>. QED
    BY <2>1, <2>2
<1>9. ASSUME x >= h, e >= 0 PROVE e \div p \in Nat /\ e \div p < g
  <2>1. q >= 1
    <3>1. SUFFICES ASSUME q <= 0 PROVE FALSE
      OBVIOUS
    <3>2. m * q <= 0
      <4>1. PICK j \in Nat : q = -j
        <5>1. -q \in Nat /\ q = -(-q)
          BY <3>1
        <5>. QED
          BY <5>1
      <4>2. m * j \in Nat /\ m * q = -(m * j)
        BY <1>2, <4>1
      <4>. QED
        BY <4>2
    <3>3. m * q \in Int
      BY <1>2
    <3>. DEFINE z == m * q
    <3>4. z <= 0 /\ z \in Int /\ x = e + z
      BY <1>8, <3>2, <3>3
    <3>. HIDE DEF z
    <3>5. h \in Int /\ e <= h - 1
      BY <1>2, <1>6, <1>60
    <3>. QED
      BY <1>60, <1>9, <3>4, <3>5
  <2>2. x = p * (k * q) + e /\ k * q \in Int
    <3>1. (p * k) * q = p * (k * q)
      BY <1>3, <1>4
    <3>2. p * (k * q) \in Int /\ k * q \in Int
      BY <1>3, <1>4
    <3>. DEFINE z == m * q
    <3>3. z = p * (k * q) /\ x = e + z
      BY <1>4, <1>8, <3>1
    <3>4. z \in Int
      BY <3>2, <3>3
    <3>. HIDE DEF z
    <3>5. x = z + e
      BY <1>60, <3>3, <3>4
    <3>. QED
      BY <3>2, <3>3, <3>5
  <2>3. x \div p = k * q + (e \div p)
    <3>. DEFINE y == k * q
    <3>1. y \in Int /\ x = p * y + e
      BY <2>2
    <3>. HIDE DEF y
    <3>2. (p * y + e) \div p = y + (e \div p)
      BY <1>3, <1>5, <3>1, MultipleGone
    <3>. QED
      BY <3>1, <3>2 DEF y
  <2>4. k * q >= 1
    <3>1. PICK j \in Nat : q = j + 1
      <4>1. q - 1 \in Nat /\ q = (q - 1) + 1
        BY <2>1
      <4>. QED
        BY <4>1
    <3>2. k * q = k * j + k /\ k * j \in Nat
      BY <1>4, <3>1
    <3>. QED
      BY <1>4, <3>2
  <2>5. e \in Nat /\ e \div p \in Nat
    <3>1. e \in Nat
      BY <1>5, <1>9
    <3>. QED
      BY <1>3, <3>1
  <2>. QED
    BY <1>1, <2>2, <2>3, <2>4, <2>5
<1>10. ASSUME e >= 0 PROVE e \div p \in Nat /\ e \div p <= g
  <2>1. CASE x < h
    <3>1. e \div p = g
      BY <1>1, <1>7, <2>1
    <3>. QED
      BY <1>1, <3>1
  <2>2. CASE x >= h
    BY <1>1, <1>9, <1>10, <2>2
  <2>. QED
    BY <1>1, <1>2, <2>1, <2>2
<1>. QED
  BY <1>5, <1>7, <1>9, <1>10 DEF EntryReadAs, x, g, h, p

\* A sum of numbers of which none is more and one is less than in another.
LEMMA SumsLess ==
  ASSUME NEW d \in Seq(Nat), NEW g \in Seq(Nat), NEW n \in Nat, Len(d) = n, Len(g) = n,
         \A k \in 1 .. n : d[k] <= g[k], NEW j \in 1 .. n, d[j] < g[j]
  PROVE  SumTo(d, n) < SumTo(g, n)
<1>. DEFINE S == {k \in Nat : k <= n =>
                    SumTo(d, k) <= SumTo(g, k) /\ (j <= k => SumTo(d, k) < SumTo(g, k))}
<1>1. /\ SumTo(d, 0) = 0 /\ SumTo(g, 0) = 0
      /\ \A k \in 1 .. n : SumTo(d, k) = SumTo(d, k-1) + d[k]
      /\ \A k \in 1 .. n : SumTo(g, k) = SumTo(g, k-1) + g[k]
  BY SumStep
<1>2. \A k \in 0 .. n : SumTo(d, k) \in Nat
  BY SumType
<1>3. \A k \in 0 .. n : SumTo(g, k) \in Nat
  BY SumType
<1>4. \A k \in 1 .. n : d[k] \in Nat /\ g[k] \in Nat
  BY NumbersOfSeq
<1>5. 0 \in S
  BY <1>1
<1>6. ASSUME NEW k \in Nat, k \in S PROVE k + 1 \in S
  <2>1. SUFFICES ASSUME k + 1 <= n
                 PROVE /\ SumTo(d, k + 1) <= SumTo(g, k + 1)
                       /\ (j <= k + 1 => SumTo(d, k + 1) < SumTo(g, k + 1))
    OBVIOUS
  <2>2. k + 1 \in 1 .. n /\ (k + 1) - 1 = k /\ k \in 0 .. n
    BY <2>1
  <2>3. SumTo(d, k) <= SumTo(g, k) /\ (j <= k => SumTo(d, k) < SumTo(g, k))
    BY <1>6, <2>1
  <2>4. SumTo(d, k + 1) = SumTo(d, k) + d[k + 1] /\ SumTo(g, k + 1) = SumTo(g, k) + g[k + 1]
    BY <1>1, <2>2
  <2>5. SumTo(d, k) \in Nat /\ SumTo(g, k) \in Nat /\ d[k + 1] \in Nat /\ g[k + 1] \in Nat
    BY <1>2, <1>3, <1>4, <2>2
  <2>6. d[k + 1] <= g[k + 1] /\ (j = k + 1 => d[k + 1] < g[k + 1])
    BY <2>2
  <2>7. j <= k + 1 => j <= k \/ j = k + 1
    OBVIOUS
  <2>. DEFINE A == SumTo(d, k)
              B == SumTo(g, k)
              C == d[k + 1]
              D == g[k + 1]
  <2>8. A \in Nat /\ B \in Nat /\ C \in Nat /\ D \in Nat /\ A <= B /\ C <= D
    BY <2>3, <2>5, <2>6
  <2>9. (j <= k => A < B) /\ (j = k + 1 => C < D)
    BY <2>3, <2>6
  <2>. HIDE DEF A, B, C, D
  <2>10. A + C <= B + D /\ (j <= k + 1 => A + C < B + D)
    BY <2>7, <2>8, <2>9
  <2>. QED
    BY <2>4, <2>10 DEF A, B, C, D
<1>7. Nat \subseteq S
  <2>. HIDE DEF S
  <2>. QED
    BY <1>5, <1>6, SetInduction
<1>. QED
  BY <1>7

\* Where the patches belong.
Gaps(r) == [k \in DOMAIN r.patches |-> r.patches[k].gap]

\* The places of the patches lie one behind the other.
LEMMA PatchPlaces ==
  ASSUME NEW r, PatchedRun(r), r.kind = "patched", Fits(r, W, IsSigned),
         NEW pl, pl = Len(r.patches)
  PROVE  /\ Gaps(r) \in Seq(Nat) /\ Len(Gaps(r)) = pl /\ pl \in 1 .. 31
         /\ PatchAt(r, 0) = 1
         /\ \A k \in 1 .. pl : PatchAt(r, k) = PatchAt(r, k-1) + r.patches[k].gap
         /\ \A k \in 0 .. pl : PatchAt(r, k) \in Nat /\ PatchAt(r, k) >= 1
                               /\ PatchAt(r, k) <= PatchAt(r, pl)
         /\ \A k \in 1 .. pl : \A i \in 1 .. pl : PatchAt(r, i) = PatchAt(r, k) => i = k
         /\ PatchAt(r, pl) <= Len(r.raws)
<1>. DEFINE g == Gaps(r)
<1>1. pl \in 1 .. 31 /\ DOMAIN r.patches = 1 .. pl /\ \A k \in 1 .. pl : r.patches[k].gap \in Nat
  BY DEF PatchedRun
<1>2. g = [k \in 1 .. pl |-> r.patches[k].gap]
  BY <1>1 DEF Gaps
<1>3. g \in Seq(Nat) /\ Len(g) = pl /\ \A k \in 1 .. pl : g[k] = r.patches[k].gap
  BY <1>1, <1>2
<1>4. \A k : PatchAt(r, k) = 1 + SumTo(g, k)
  BY DEF PatchAt, Gaps
<1>. HIDE DEF g
<1>5. SumTo(g, 0) = 0 /\ \A k \in 1 .. pl : SumTo(g, k) = SumTo(g, k-1) + g[k]
  BY <1>3, SumStep
<1>6. \A k \in 0 .. pl : SumTo(g, k) \in Nat
  BY <1>3, SumType
<1>7. \A i \in 0 .. pl : \A k \in i .. pl : SumTo(g, i) <= SumTo(g, k)
  BY <1>3, SumsGrow
<1>8. ASSUME NEW i \in 1 .. pl, NEW k \in 1 .. pl, i < k PROVE SumTo(g, i) < SumTo(g, k)
  <2>1. k - 1 \in i .. pl /\ i \in 0 .. pl /\ k - 1 \in 0 .. pl /\ k \in 0 .. pl
    BY <1>1, <1>8
  <2>2. SumTo(g, i) <= SumTo(g, k-1)
    BY <1>7, <2>1
  <2>3. g[k] > 0 /\ g[k] \in Nat
    <3>1. k \in DOMAIN r.patches /\ k > 1
      BY <1>1, <1>8
    <3>2. r.patches[k].gap > 0
      BY <3>1 DEF Fits
    <3>. QED
      BY <1>1, <1>3, <3>2
  <2>4. SumTo(g, k) = SumTo(g, k-1) + g[k]
    BY <1>5
  <2>5. SumTo(g, i) \in Nat /\ SumTo(g, k-1) \in Nat
    BY <1>6, <2>1
  <2>. QED
    BY <2>2, <2>3, <2>4, <2>5
<1>9. ASSUME NEW k \in 1 .. pl, NEW i \in 1 .. pl, PatchAt(r, i) = PatchAt(r, k) PROVE i = k
  <2>1. SumTo(g, i) \in Nat /\ SumTo(g, k) \in Nat
    BY <1>1, <1>6
  <2>2. SumTo(g, i) = SumTo(g, k)
    BY <1>4, <1>9, <2>1
  <2>3. ~(i < k)
    BY <1>8, <2>1, <2>2
  <2>4. ~(k < i)
    BY <1>8, <2>1, <2>2
  <2>5. i \in Int /\ k \in Int
    BY <1>1
  <2>. QED
    BY <2>3, <2>4, <2>5
<1>10. ASSUME NEW k \in 0 .. pl
       PROVE PatchAt(r, k) \in Nat /\ PatchAt(r, k) >= 1 /\ PatchAt(r, k) <= PatchAt(r, pl)
  <2>1. pl \in k .. pl /\ pl \in 0 .. pl
    BY <1>1
  <2>2. SumTo(g, k) <= SumTo(g, pl) /\ SumTo(g, k) \in Nat /\ SumTo(g, pl) \in Nat
    BY <1>6, <1>7, <2>1
  <2>. QED
    BY <1>4, <2>2
<1>11. ASSUME NEW k \in 1 .. pl PROVE PatchAt(r, k) = PatchAt(r, k-1) + r.patches[k].gap
  <2>1. k - 1 \in 0 .. pl
    BY <1>1
  <2>2. SumTo(g, k-1) \in Nat /\ g[k] \in Nat
    BY <1>1, <1>3, <1>6, <2>1
  <2>3. PatchAt(r, k) = 1 + SumTo(g, k) /\ PatchAt(r, k-1) = 1 + SumTo(g, k-1)
    BY <1>4, Zenon
  <2>4. SumTo(g, k) = SumTo(g, k-1) + g[k] /\ g[k] = r.patches[k].gap
    BY <1>3, <1>5
  <2>. QED
    BY <2>2, <2>3, <2>4
<1>12. PatchAt(r, pl) <= Len(r.raws)
  BY DEF Fits
<1>13. PatchAt(r, 0) = 1
  BY <1>4, <1>5
<1>. QED
  BY <1>1, <1>3, <1>9, <1>10, <1>11, <1>12, <1>13 DEF g

\* The entries a decoder has, and the positions it finds with them.
AreRead(r, e) == \A i \in 1 .. Len(r.patches) : EntryReadAs(r, i, e[i])

\* Entries as they were written.
Exact(r, u) == \A i \in 1 .. Len(r.patches) : u[i] = Entry(r, i)

\* The entries as a decoder takes them: in 64 bits as they were written.
Taken(r, u) == IF W = 64 THEN Exact(r, u) ELSE AreRead(r, u)

\* Entries taken that are not too wide are those written.
LEMMA TakenExact ==
  ASSUME NEW r, PatchedRun(r), r.kind = "patched", Fits(r, W, IsSigned), W \in CWidths,
         NEW u, Taken(r, u), ~TooWide(r)
  PROVE  Exact(r, u)
<1>1. CASE W = 64
  BY <1>1 DEF Taken
<1>2. CASE W # 64
  <2>1. SUFFICES ASSUME NEW i \in 1 .. Len(r.patches) PROVE u[i] = Entry(r, i)
    BY Zenon DEF Exact
  <2>2. i \in DOMAIN r.patches
    BY DEF PatchedRun
  <2>3. ~(Entry(r, i) >= 2^(W-1))
    BY <1>2, <2>2 DEF TooWide
  <2>4. EntryHas(r, i, Entry(r, i))
    BY EntryParts
  <2>5. Entry(r, i) \in Nat /\ 2^(W-1) \in Nat
    BY <2>4, Halves DEF EntryHas
  <2>6. Entry(r, i) < 2^(W-1)
    BY <2>3, <2>5
  <2>. QED
    BY <1>2, <2>6 DEF Taken, AreRead, EntryReadAs
<1>. QED
  BY <1>1, <1>2

\* An entry is too wide only in a type of less than 64 bits.
LEMMA TakenWide ==
  ASSUME NEW r, r.kind = "patched", NEW u, Taken(r, u), TooWide(r)
  PROVE  AreRead(r, u)
<1>1. W # 64
  BY DEF TooWide
<1>. QED
  BY <1>1 DEF Taken

\* All the entries are read back.
LEMMA EntriesRead ==
  ASSUME NEW r, PatchedRun(r), r.kind = "patched", Fits(r, W, IsSigned), W \in CWidths,
         NEW e, e = Fields(PatchEntries(r), FALSE)
  PROVE  AreRead(r, e)
<1>1. SUFFICES ASSUME NEW i \in 1 .. Len(r.patches) PROVE EntryReadAs(r, i, e[i])
  BY DEF AreRead
<1>2. Len(r.patches) \in Nat
  <2>1. Len(r.patches) \in 1 .. 31
    BY DEF PatchedRun
  <2>. QED
    BY <2>1
<1>3. Len(PatchEntries(r)) = Len(r.patches) /\ PatchEntries(r)[i] = Entry(r, i)
  BY <1>2 DEF PatchEntries
<1>4. e[i] = ToSigned(Entry(r, i) % 2^W, W)
  BY <1>3 DEF Fields, Uncoded
<1>. QED
  BY <1>4, EntryRead

\* Where a decoder goes with the entries it has read.
Positions(pos, r, e) ==
  /\ pos[0] = 1
  /\ \A i \in 1 .. Len(r.patches) : e[i] >= 0 => pos[i] = pos[i-1] + (e[i] \div 2^r.pw)

\* Entries that fit lead to the places of the patches.
AtPlaces(r, pos, e) ==
  \A i \in 1 .. Len(r.patches) : e[i] = Entry(r, i) /\ e[i] >= 0 /\ pos[i] = PatchAt(r, i)

\* The entries written lead to the places of the patches.
LEMMA RightPlaces ==
  ASSUME NEW r, PatchedRun(r), r.kind = "patched", Fits(r, W, IsSigned), W \in CWidths,
         NEW e, Exact(r, e), NEW pos, Positions(pos, r, e)
  PROVE  AtPlaces(r, pos, e)
<1>. DEFINE pl == Len(r.patches)
            q == [k \in 0 .. pl |-> PatchAt(r, k)]
<1>1. pl \in 1 .. 31 /\ DOMAIN r.patches = 1 .. pl
  BY DEF PatchedRun
<1>2. pl \in Nat
  BY <1>1
<1>3. ASSUME NEW i \in 1 .. pl
      PROVE e[i] = Entry(r, i) /\ e[i] >= 0 /\ e[i] \div 2^r.pw = r.patches[i].gap
  <2>1. EntryHas(r, i, Entry(r, i))
    BY EntryParts
  <2>2. Entry(r, i) \in Nat /\ Entry(r, i) \div 2^r.pw = r.patches[i].gap
    BY <2>1 DEF EntryHas
  <2>3. e[i] = Entry(r, i)
    BY DEF Exact
  <2>. QED
    BY <2>2, <2>3
<1>4. PatchAt(r, 0) = 1 /\ \A k \in 1 .. pl : PatchAt(r, k) = PatchAt(r, k-1) + r.patches[k].gap
  <2>1. pl = Len(r.patches)
    OBVIOUS
  <2>. HIDE DEF pl
  <2>. QED
    BY <2>1, PatchPlaces
<1>5. Agree(pos, q, pl)
  <2>1. pos[0] = q[0]
    <3>1. q[0] = PatchAt(r, 0)
      BY <1>2
    <3>. QED
      BY <1>4, <3>1 DEF Positions
  <2>2. ASSUME NEW k \in 1 .. pl, pos[k-1] = q[k-1] PROVE pos[k] = q[k]
    <3>1. k \in 0 .. pl /\ k - 1 \in 0 .. pl
      BY <1>2
    <3>2. q[k] = PatchAt(r, k) /\ q[k-1] = PatchAt(r, k-1)
      BY <3>1
    <3>3. pos[k] = pos[k-1] + r.patches[k].gap
      BY <1>3 DEF Positions
    <3>. QED
      BY <1>4, <2>2, <3>2, <3>3
  <2>. HIDE DEF q, pl
  <2>3. StepsAlike(pos, q, pl)
    BY <2>1, <2>2 DEF StepsAlike
  <2>. QED
    BY <1>2, <2>3, SameSteps
<1>6. ASSUME NEW i \in 1 .. pl PROVE pos[i] = PatchAt(r, i)
  <2>1. i \in 0 .. pl
    BY <1>2
  <2>2. pos[i] = q[i]
    <3>. HIDE DEF q
    <3>. QED
      BY <1>5, <2>1 DEF Agree
  <2>. QED
    BY <2>1, <2>2
<1>. QED
  BY <1>3, <1>6 DEF AtPlaces

\* Otherwise all positions lie in front of the last of the places.
BeforeLast(r, pos) ==
  \A k \in 1 .. Len(r.patches) :
    pos[k] \in Nat /\ pos[k] >= 1 /\ pos[k] < PatchAt(r, Len(r.patches))

\* One that is too wide leads to a place before the last patch.
LEMMA ShortPlaces ==
  ASSUME NEW r, PatchedRun(r), r.kind = "patched", Fits(r, W, IsSigned), W \in CWidths,
         NEW e, AreRead(r, e), NEW pos, Positions(pos, r, e), TooWide(r),
         \A i \in 1 .. Len(r.patches) : e[i] >= 0
  PROVE  BeforeLast(r, pos)
<1>. DEFINE pl == Len(r.patches)
            g == Gaps(r)
            d == [k \in 1 .. pl |-> e[k] \div 2^r.pw]
            q == [k \in 0 .. pl |-> 1 + SumTo(d, k)]
<1>1. pl \in 1 .. 31 /\ pl \in Nat /\ DOMAIN r.patches = 1 .. pl
  <2>1. pl \in 1 .. 31 /\ DOMAIN r.patches = 1 .. pl
    BY DEF PatchedRun
  <2>. QED
    BY <2>1
<1>2. /\ g \in Seq(Nat) /\ Len(g) = pl
      /\ PatchAt(r, pl) = 1 + SumTo(g, pl)
      /\ \A k \in 1 .. pl : g[k] = r.patches[k].gap
  <2>1. pl = Len(r.patches)
    OBVIOUS
  <2>2. PatchAt(r, pl) = 1 + SumTo(g, pl)
    BY DEF PatchAt, Gaps
  <2>3. \A k \in 1 .. pl : g[k] = r.patches[k].gap
    BY <1>1 DEF Gaps
  <2>. HIDE DEF pl
  <2>4. g \in Seq(Nat) /\ Len(g) = pl
    BY <2>1, PatchPlaces
  <2>. QED
    BY <2>2, <2>3, <2>4
<1>3. ASSUME NEW k \in 1 .. pl
      PROVE /\ d[k] = e[k] \div 2^r.pw /\ d[k] \in Nat /\ d[k] <= g[k]
            /\ Entry(r, k) >= 2^(W-1) => d[k] < g[k]
  <2>1. EntryReadAs(r, k, e[k]) /\ e[k] >= 0
    BY DEF AreRead
  <2>2. d[k] = e[k] \div 2^r.pw
    OBVIOUS
  <2>3. g[k] = r.patches[k].gap
    BY <1>2
  <2>. HIDE DEF d, g
  <2>. QED
    BY <2>1, <2>2, <2>3 DEF EntryReadAs
<1>4. d \in Seq(Nat) /\ Len(d) = pl
  <2>1. d \in [1 .. pl -> Nat]
    BY <1>3
  <2>. QED
    BY <1>1, <2>1
<1>5. PICK j \in 1 .. pl : Entry(r, j) >= 2^(W-1)
  BY <1>1 DEF TooWide
<1>. HIDE DEF d, g
<1>6. SumTo(d, pl) < SumTo(g, pl)
  <2>1. pl = pl /\ \A k \in 1 .. pl : d[k] <= g[k]
    BY <1>3
  <2>2. d[j] < g[j]
    BY <1>3, <1>5
  <2>. HIDE DEF pl
  <2>. QED
    BY <1>1, <1>2, <1>4, <2>1, <2>2, SumsLess
<1>7. SumTo(d, 0) = 0 /\ \A k \in 1 .. pl : SumTo(d, k) = SumTo(d, k-1) + d[k]
  BY <1>4, SumStep
<1>8. \A k \in 0 .. pl : SumTo(d, k) \in Nat
  BY <1>4, SumType
<1>9. \A k \in 0 .. pl : SumTo(d, k) <= SumTo(d, pl)
  <2>1. ASSUME NEW k \in 0 .. pl PROVE SumTo(d, k) <= SumTo(d, pl)
    <3>1. pl \in k .. pl
      BY <1>1
    <3>. QED
      BY <1>4, <3>1, SumsGrow
  <2>. QED
    BY <2>1
<1>10. SumTo(g, pl) \in Nat
  <2>1. pl \in 0 .. pl
    BY <1>1
  <2>. QED
    BY <1>2, <2>1, SumType
<1>11. Agree(pos, q, pl)
  <2>1. pos[0] = q[0]
    <3>1. q[0] = 1 + SumTo(d, 0)
      BY <1>1
    <3>. QED
      BY <1>7, <3>1 DEF Positions
  <2>2. ASSUME NEW k \in 1 .. pl, pos[k-1] = q[k-1] PROVE pos[k] = q[k]
    <3>1. k \in 0 .. pl /\ k - 1 \in 0 .. pl
      BY <1>1
    <3>2. q[k] = 1 + SumTo(d, k) /\ q[k-1] = 1 + SumTo(d, k-1)
      BY <3>1
    <3>3. pos[k] = pos[k-1] + d[k]
      BY <1>3 DEF Positions
    <3>4. SumTo(d, k-1) \in Nat /\ d[k] \in Nat /\ SumTo(d, k) = SumTo(d, k-1) + d[k]
      BY <1>3, <1>7, <1>8, <3>1
    <3>. HIDE DEF q
    <3>. QED
      BY <2>2, <3>2, <3>3, <3>4
  <2>. HIDE DEF q, pl
  <2>3. StepsAlike(pos, q, pl)
    BY <2>1, <2>2 DEF StepsAlike
  <2>. QED
    BY <1>1, <2>3, SameSteps
<1>12. ASSUME NEW k \in 1 .. pl PROVE pos[k] \in Nat /\ pos[k] >= 1 /\ pos[k] < PatchAt(r, pl)
  <2>1. k \in 0 .. pl /\ pl \in 0 .. pl
    BY <1>1
  <2>2. pos[k] = q[k] /\ q[k] = 1 + SumTo(d, k)
    <3>1. q[k] = 1 + SumTo(d, k)
      BY <2>1
    <3>. HIDE DEF q
    <3>. QED
      BY <1>11, <2>1, <3>1 DEF Agree
  <2>3. SumTo(d, k) \in Nat /\ SumTo(d, pl) \in Nat /\ SumTo(d, k) <= SumTo(d, pl)
    BY <1>8, <1>9, <2>1
  <2>. HIDE DEF q
  <2>. QED
    BY <1>2, <1>6, <1>10, <2>2, <2>3
<1>. QED
  BY <1>12 DEF BeforeLast

\* The bits of patch k, and the numbers written.
BitsOf(r, k) == r.patches[k].bits * 2^r.width

\* The bits of a patch are a number.
LEMMA BitsType ==
  ASSUME NEW r, PatchedRun(r), NEW k \in 1 .. Len(r.patches)
  PROVE  BitsOf(r, k) \in Nat /\ r.patches[k].bits \in Nat /\ 2^r.width \in Nat \ {0} /\ r.width \in Nat
<1>. DEFINE b == r.patches[k].bits
            p == 2^r.width
<1>1. b \in Nat
  BY DEF PatchedRun
<1>2. r.width \in Nat
  <2>1. r.width \in 1 .. 64
    BY DEF PatchedRun
  <2>. QED
    BY <2>1, WidthIsNat, Zenon
<1>3. p \in Nat \ {0}
  BY <1>2, PowerType
<1>. HIDE DEF b, p
<1>4. b * p \in Nat
  BY <1>1, <1>3
<1>. QED
  BY <1>1, <1>2, <1>3, <1>4 DEF BitsOf, b, p

\* A run is as long as a number.
LEMMA LengthIsNat == \A n \in 1 .. 512 : n \in Nat /\ n >= 1
OBVIOUS

\* The numbers of a patched run.
LEMMA PatchedNumbers ==
  ASSUME NEW r, PatchedRun(r), r.kind = "patched", NEW n, n = Len(r.raws)
  PROVE  /\ n \in Nat /\ n >= 1 /\ DOMAIN RunValues(r) = 1 .. n /\ Len(RunValues(r)) = n
         /\ \A p \in 1 .. n : RunValues(r)[p] = PatchedValue(r, p) /\ r.raws[p] \in Nat
<1>1. n \in 1 .. 512 /\ r.raws \in Seq(Nat)
  BY DEF PatchedRun
<1>2. RunValues(r) = [i \in 1 .. n |-> PatchedValue(r, i)]
  BY DEF RunValues
<1>3. n \in Nat /\ n >= 1
  BY <1>1, LengthIsNat, Zenon
<1>4. \A p \in 1 .. n : r.raws[p] \in Nat
  BY <1>1, NumbersOfSeq
<1>. HIDE DEF PatchedValue
<1>. QED
  BY <1>2, <1>3, <1>4

\* A place without a patch, and one with a patch.
LEMMA ValueElsewhere ==
  ASSUME NEW r, PatchedRun(r), NEW p \in 1 .. Len(r.raws), r.raws[p] \in Nat,
         \A k \in 1 .. Len(r.patches) : PatchAt(r, k) # p
  PROVE  PatchedValue(r, p) = r.base + r.raws[p]
<1>. DEFINE f == [k \in DOMAIN r.patches |-> IF PatchAt(r, k) = p THEN BitsOf(r, k) ELSE 0]
            pl == Len(r.patches)
<1>1. pl \in 1 .. 31 /\ DOMAIN r.patches = 1 .. pl /\ r.base \in Int
  BY DEF PatchedRun
<1>2. f = [k \in 1 .. pl |-> 0]
  BY <1>1
<1>3. f \in Seq(Nat) /\ Len(f) = pl /\ \A k \in DOMAIN f : f[k] = 0
  BY <1>1, <1>2
<1>4. PatchedValue(r, p) = r.base + r.raws[p] + SumTo(f, pl)
  BY DEF PatchedValue, BitsOf
<1>. HIDE DEF f
<1>5. SumTo(f, Len(f)) = 0
  BY <1>3, NothingAdded
<1>. QED
  BY <1>1, <1>3, <1>4, <1>5

\* The number at a patch has its bits above.
LEMMA ValueAtPatch ==
  ASSUME NEW r, PatchedRun(r), r.kind = "patched", Fits(r, W, IsSigned),
         NEW k \in 1 .. Len(r.patches), NEW p, p = PatchAt(r, k)
  PROVE  p \in 1 .. Len(r.raws) /\ PatchedValue(r, p) = r.base + r.raws[p] + BitsOf(r, k)
<1>. DEFINE f == [j \in DOMAIN r.patches |-> IF PatchAt(r, j) = p THEN BitsOf(r, j) ELSE 0]
            g == [j \in 1 .. Len(r.patches) |-> 0]
            pl == Len(r.patches)
            n == Len(r.raws)
<1>1. pl \in 1 .. 31 /\ DOMAIN r.patches = 1 .. pl /\ r.base \in Int
  BY DEF PatchedRun
<1>2. pl = Len(r.patches)
  OBVIOUS
<1>3. /\ \A i \in 1 .. pl : PatchAt(r, i) = PatchAt(r, k) => i = k
      /\ \A i \in 0 .. pl : PatchAt(r, i) \in Nat /\ PatchAt(r, i) >= 1
                               /\ PatchAt(r, i) <= PatchAt(r, pl)
      /\ PatchAt(r, pl) <= Len(r.raws)
  <2>. HIDE DEF pl
  <2>. QED
    BY <1>2, PatchPlaces
<1>4. n \in Nat
  <2>1. n \in 1 .. 512
    BY DEF PatchedRun
  <2>. QED
    BY <2>1, LengthIsNat, Zenon
<1>5. p \in 1 .. n
  <2>1. k \in 0 .. pl /\ pl \in 0 .. pl
    BY <1>1
  <2>2. p \in Nat /\ p >= 1 /\ p <= PatchAt(r, pl) /\ PatchAt(r, pl) \in Nat /\ PatchAt(r, pl) <= n
    BY <1>3, <2>1
  <2>. HIDE DEF n, pl
  <2>. QED
    BY <1>4, <2>2
<1>6. r.raws[p] \in Nat
  <2>1. n = Len(r.raws)
    OBVIOUS
  <2>. HIDE DEF n
  <2>. QED
    BY <1>5, <2>1, PatchedNumbers
<1>7. \A j \in 1 .. pl : BitsOf(r, j) \in Nat
  BY BitsType
<1>8. PatchedValue(r, p) = r.base + r.raws[p] + SumTo(f, pl)
  BY DEF PatchedValue, BitsOf
<1>9. f = [j \in 1 .. pl |-> IF PatchAt(r, j) = p THEN BitsOf(r, j) ELSE 0]
  BY <1>1
<1>10. f \in Seq(Nat) /\ Len(f) = pl
  <2>1. f \in [1 .. pl -> Nat]
    BY <1>7, <1>9
  <2>2. pl \in Nat
    BY <1>1
  <2>. QED
    BY <2>1, <2>2
<1>11. g \in Seq(Nat) /\ Len(g) = pl /\ g[k] = 0 /\ \A j \in DOMAIN g : g[j] = 0
  BY <1>1
<1>12. f[k] = BitsOf(r, k) /\ \A j \in 1 .. pl : j # k => f[j] = g[j]
  BY <1>3, <1>9
<1>. HIDE DEF f, g
<1>13. SumTo(g, Len(g)) = 0
  BY <1>11, NothingAdded
<1>14. SumTo(f, Len(f)) = SumTo(g, Len(g)) + f[k]
  BY <1>10, <1>11, <1>12, SumWith
<1>15. SumTo(f, pl) = BitsOf(r, k)
  BY <1>7, <1>10, <1>12, <1>13, <1>14
<1>. QED
  BY <1>5, <1>8, <1>15

\* They are not more than the type holds.
LEMMA BitsSmall ==
  ASSUME NEW r, PatchedRun(r), r.kind = "patched", Fits(r, W, IsSigned), W \in CWidths,
         NEW k \in 1 .. Len(r.patches)
  PROVE  BitsOf(r, k) < 2^W
<1>. DEFINE p == PatchAt(r, k)
            v == PatchedValue(r, p)
            c == BitsOf(r, k)
            h == 2^(W-1)
<1>1. p \in 1 .. Len(r.raws) /\ v = r.base + r.raws[p] + c
  BY ValueAtPatch
<1>2. InType(v) /\ r.raws[p] \in Nat
  <2>1. /\ DOMAIN RunValues(r) = 1 .. Len(r.raws)
        /\ \A i \in 1 .. Len(r.raws) : RunValues(r)[i] = PatchedValue(r, i) /\ r.raws[i] \in Nat
    BY PatchedNumbers
  <2>2. p \in DOMAIN RunValues(r) /\ RunValues(r)[p] = v /\ r.raws[p] \in Nat
    BY <1>1, <2>1
  <2>3. InType(RunValues(r)[p])
    BY <2>2, FitsRange
  <2>. QED
    BY <2>2, <2>3
<1>3. InType(r.base) /\ r.base \in Int
  <2>1. InType(r.base)
    BY DEF Fits, InType, Type
  <2>2. r.base \in Int
    BY DEF PatchedRun
  <2>. QED
    BY <2>1, <2>2
<1>4. c \in Nat
  BY BitsType
<1>5. h \in Nat /\ 2^W = 2 * h
  BY Halves
<1>6. (v \in -h .. h - 1 /\ r.base \in -h .. h - 1) \/ (v \in 0 .. 2^W - 1 /\ r.base \in 0 .. 2^W - 1)
  BY <1>2, <1>3 DEF InType, Type
<1>. DEFINE q == r.raws[p]
<1>7. v \in Int /\ r.base \in Int /\ q \in Nat /\ v = r.base + q + c
  <2>. HIDE DEF c, h, v, p
  <2>1. v \in Int
    BY <1>5, <1>6
  <2>. QED
    BY <1>1, <1>2, <1>3, <2>1
<1>. HIDE DEF c, h, v, p, q
<1>8. v - r.base < 2^W
  BY <1>5, <1>6
<1>9. c < 2^W
  BY <1>4, <1>5, <1>7, <1>8
<1>. QED
  BY <1>9 DEF c

\* The patches applied one after the other.
Applies(g, n, based, pos, base, bits, width) ==
  g = [i \in 0 .. n |-> IF i = 0 THEN based ELSE ApplyPatch(g[i-1], pos[i], base, bits[i], width)]

\* The values after each patch are defined.
LEMMA AppliedExist ==
  ASSUME NEW n \in Nat, NEW based, NEW pos, NEW base, NEW bits, NEW width
  PROVE  \E g : Applies(g, n, based, pos, base, bits, width)
<1>. DEFINE step(g, i) == IF i = 0 THEN based ELSE ApplyPatch(g[i-1], pos[i], base, bits[i], width)
            S == {m \in Nat : \E g : g = [i \in 0 .. m |-> step(g, i)]}
<1>1. 0 \in S
  <2>. DEFINE g == [i \in 0 .. 0 |-> based]
  <2>1. g = [i \in 0 .. 0 |-> step(g, i)]
    OBVIOUS
  <2>. QED
    BY <2>1
<1>2. ASSUME NEW m \in Nat, m \in S PROVE m + 1 \in S
  <2>1. PICK g : g = [i \in 0 .. m |-> step(g, i)]
    BY <1>2
  <2>0. \A i \in 0 .. m : g[i] = step(g, i)
    <3>. DEFINE k == [i \in 0 .. m |-> step(g, i)]
    <3>1. \A i \in 0 .. m : k[i] = step(g, i)
      OBVIOUS
    <3>2. g = k
      BY <2>1
    <3>. HIDE DEF k
    <3>. QED
      BY <3>1, <3>2, Zenon
  <2>. DEFINE h == [i \in 0 .. m + 1 |-> IF i <= m THEN g[i] ELSE step(g, i)]
  <2>2. ASSUME NEW i \in 0 .. m + 1 PROVE h[i] = step(h, i)
    <3>1. CASE i = 0
      <4>1. g[i] = based /\ i <= m
        BY <2>0, <3>1
      <4>. QED
        BY <3>1, <4>1
    <3>2. CASE i # 0
      <4>1. i - 1 \in 0 .. m /\ i - 1 \in 0 .. m + 1
        BY <3>2
      <4>2. h[i-1] = g[i-1]
        BY <4>1
      <4>3. i <= m => g[i] = step(g, i)
        BY <2>0
      <4>4. h[i] = step(g, i)
        BY <4>3
      <4>. QED
        BY <3>2, <4>2, <4>4
    <3>. QED
      BY <3>1, <3>2
  <2>3. h = [i \in 0 .. m + 1 |-> step(h, i)]
    BY <2>2
  <2>. HIDE DEF h
  <2>4. \E k : k = [i \in 0 .. m + 1 |-> step(k, i)]
    BY <2>3, Zenon
  <2>5. m + 1 \in Nat
    OBVIOUS
  <2>. QED
    BY <2>4, <2>5, Zenon
<1>. HIDE DEF S
<1>3. n \in S
  BY <1>1, <1>2, SetInduction
<1>. QED
  BY <1>3 DEF S, Applies

\* Values that are patched one after the other.
AppliedTo(g, n, based, pos, base, bits, width) ==
  /\ g[0] = based
  /\ \A i \in 1 .. n : g[i] = ApplyPatch(g[i-1], pos[i], base, bits[i], width)

\* The values after each patch are such.
LEMMA AppliedSteps ==
  ASSUME NEW n \in Nat, NEW based, NEW pos, NEW base, NEW bits, NEW width,
         NEW g, Applies(g, n, based, pos, base, bits, width)
  PROVE  AppliedTo(g, n, based, pos, base, bits, width)
<1>. DEFINE step(i) == IF i = 0 THEN based ELSE ApplyPatch(g[i-1], pos[i], base, bits[i], width)
            k == [i \in 0 .. n |-> step(i)]
<1>1. g = k
  BY DEF Applies
<1>2. \A i \in 0 .. n : k[i] = step(i)
  OBVIOUS
<1>. HIDE DEF k
<1>3. \A i \in 0 .. n : g[i] = step(i)
  BY <1>1, <1>2
<1>4. 0 \in 0 .. n /\ \A i \in 1 .. n : i \in 0 .. n /\ i # 0
  OBVIOUS
<1>. QED
  BY <1>3, <1>4 DEF AppliedTo

\* A patch changes the value at one place.
LEMMA ApplyIsPut ==
  \A values, pos, base, bits, width :
    ApplyPatch(values, pos, base, bits, width)
      = [values EXCEPT ![pos] = PatchBits(values[pos], base, bits, width)]
BY DEF ApplyPatch, PatchBits

\* What is read of the raw numbers and of the base.
BasedOn(r, b, based) ==
  /\ b \in Int /\ b % 2^W = r.base % 2^W
  /\ based = [i \in 1 .. Len(r.raws) |-> ToSigned(b + Fields(r.raws, FALSE)[i], W)]

\* The values with the base added.
LEMMA BasedValues ==
  ASSUME NEW r, PatchedRun(r), r.kind = "patched", W \in CWidths, NEW b, NEW based, BasedOn(r, b, based),
         NEW p \in 1 .. Len(r.raws)
  PROVE  /\ r.raws[p] \in Nat
         /\ based[p] = ToSigned(b + r.raws[p], W)
         /\ based[p] = ToSigned(r.base + r.raws[p], W)
<1>. DEFINE m == 2^W
            x == r.raws[p]
            y == ToSigned(x % m, W)
<1>1. x \in Nat
  BY PatchedNumbers
<1>2. m \in Nat \ {0}
  BY Halves
<1>3. b \in Int /\ r.base \in Int /\ Same(b, r.base, m)
  BY DEF BasedOn, PatchedRun, Same
<1>4. based[p] = ToSigned(b + y, W)
  BY DEF BasedOn, Fields, Uncoded
<1>5. y \in Int /\ Same(y, x, m)
  <2>1. x \in Int
    BY <1>1
  <2>2. y = ToSigned(x, W)
    BY <2>1, SignedRemainder
  <2>3. ToSigned(x, W) \in Int /\ ToSigned(x, W) % m = x % m
    BY <2>1, SignedValue
  <2>. QED
    BY <2>2, <2>3 DEF Same
<1>. HIDE DEF m, x, y
<1>6. x \in Int /\ Same(b, b, m) /\ Same(x, x, m)
  BY <1>1 DEF Same
<1>7. Same(b + y, b + x, m)
  BY <1>2, <1>3, <1>5, <1>6, SameSum
<1>8. Same(b + x, r.base + x, m)
  BY <1>2, <1>3, <1>6, SameSum
<1>9. b + y \in Int /\ b + x \in Int /\ r.base + x \in Int
  BY <1>3, <1>5, <1>6
<1>10. ToSigned(b + y, W) = ToSigned(b + x, W)
  BY <1>7, <1>9, SignedSame DEF m
<1>11. ToSigned(b + x, W) = ToSigned(r.base + x, W)
  BY <1>8, <1>9, SignedSame DEF m
<1>. QED
  BY <1>1, <1>4, <1>10, <1>11 DEF x

\* The patches put so far.
PutSo(r, i, based) ==
  [p \in 1 .. Len(r.raws) |->
     IF \E k \in 1 .. i : PatchAt(r, k) = p THEN ToSigned(PatchedValue(r, p), W) ELSE based[p]]

\* The bits of the entries read.
PatchBitsOf(r, e) == [i \in 1 .. Len(r.patches) |-> e[i] % 2^r.pw]

\* A patch at its place makes that number right.
LEMMA OnePut ==
  ASSUME NEW r, PatchedRun(r), r.kind = "patched", Fits(r, W, IsSigned), W \in CWidths,
         NEW b, NEW based, BasedOn(r, b, based),
         NEW e, NEW pos, AtPlaces(r, pos, e), NEW i \in 1 .. Len(r.patches)
  PROVE  PutSo(r, i, based)
           = ApplyPatch(PutSo(r, i - 1, based), pos[i], b, PatchBitsOf(r, e)[i], r.width)
<1>. DEFINE pl == Len(r.patches)
            n == Len(r.raws)
            at == PatchAt(r, i)
            f == PutSo(r, i - 1, based)
            c == BitsOf(r, i)
            bits == r.patches[i].bits
<1>1. pl \in 1 .. 31 /\ pl \in Nat
  <2>1. pl \in 1 .. 31
    BY DEF PatchedRun
  <2>. QED
    BY <2>1
<1>2. pos[i] = at /\ PatchBitsOf(r, e)[i] = bits
  <2>1. pos[i] = at /\ e[i] = Entry(r, i)
    BY DEF AtPlaces
  <2>2. EntryHas(r, i, Entry(r, i))
    BY EntryParts
  <2>. QED
    BY <2>1, <2>2 DEF EntryHas, PatchBitsOf
<1>3. at \in 1 .. n /\ PatchedValue(r, at) = r.base + r.raws[at] + c
  BY ValueAtPatch
<1>4. /\ r.raws[at] \in Nat /\ based[at] = ToSigned(b + r.raws[at], W)
  <2>. HIDE DEF at
  <2>. QED
    BY <1>3, BasedValues
<1>5. c \in Nat /\ bits \in Nat /\ r.width \in Nat /\ c < 2^W /\ c = bits * 2^r.width
  <2>1. c \in Nat /\ bits \in Nat /\ r.width \in Nat
    BY BitsType
  <2>2. c < 2^W
    BY BitsSmall
  <2>. QED
    BY <2>1, <2>2 DEF BitsOf
<1>6. \A k \in 1 .. pl : PatchAt(r, k) = at => k = i
  <2>1. pl = Len(r.patches)
    OBVIOUS
  <2>. HIDE DEF pl
  <2>2. \A k \in 1 .. pl : \A j \in 1 .. pl : PatchAt(r, j) = PatchAt(r, k) => j = k
    BY <2>1, PatchPlaces
  <2>. QED
    BY <2>1, <2>2
<1>7. f[at] = based[at]
  <2>1. ~ \E k \in 1 .. i - 1 : PatchAt(r, k) = at
    <3>1. SUFFICES ASSUME NEW k \in 1 .. i - 1, PatchAt(r, k) = at PROVE FALSE
      OBVIOUS
    <3>2. k \in 1 .. pl /\ k # i
      BY <1>1
    <3>. QED
      BY <1>6, <3>1, <3>2
  <2>. QED
    BY <1>3, <2>1 DEF PutSo
<1>8. PatchBits(f[at], b, bits, r.width) = ToSigned(PatchedValue(r, at), W)
  <2>. DEFINE raw == r.raws[at]
              value == based[at]
              t == r.width
  <2>1. raw \in Nat /\ value = ToSigned(b + raw, W) /\ b \in Int
    BY <1>4 DEF BasedOn
  <2>2. raw < 2^t
    <3>1. at \in DOMAIN r.raws
      <4>1. r.raws \in Seq(Nat)
        BY DEF PatchedRun
      <4>. QED
        BY <1>3, <4>1
    <3>. QED
      BY <3>1 DEF Fits
  <2>3. bits * 2^t < 2^W
    BY <1>5
  <2>4. t \in Nat
    BY <1>5
  <2>5. bits \in Nat
    BY <1>5
  <2>6. r.base \in Int /\ Same(b, r.base, 2^W)
    BY DEF BasedOn, PatchedRun, Same
  <2>7. c = bits * 2^t /\ c \in Int /\ raw \in Int
    BY <1>5, <2>1
  <2>8. f[at] = value /\ PatchedValue(r, at) = r.base + raw + c
    BY <1>3, <1>7
  <2>9. 2^W \in Nat \ {0}
    BY Halves
  <2>. HIDE DEF raw, value, bits, t
  <2>10. b \in Int /\ raw \in Nat
    BY <2>1
  <2>11. PatchBits(value, b, bits, t) = ToSigned(b + raw + bits * 2^t, W)
    <3>1. Patchable(value, b, raw, bits, t)
      BY <2>1, <2>10, <2>2, <2>3, <2>4, <2>5 DEF Patchable
    <3>2. PutAbove(value, b, raw, bits, t)
      BY <3>1, PatchPut
    <3>. QED
      BY <3>2 DEF PutAbove
  <2>. DEFINE m == 2^W
              d == r.base
  <2>. HIDE DEF c, m, d
  <2>12. m \in Nat \ {0} /\ d \in Int /\ Same(b, d, m)
    BY <2>6, <2>9 DEF m, d
  <2>13. c \in Int /\ raw \in Int
    BY <2>7
  <2>14. raw + c \in Int /\ Same(raw + c, raw + c, m)
    BY <2>13 DEF Same
  <2>15. Same(b + (raw + c), d + (raw + c), m)
    BY <2>10, <2>12, <2>14, SameSum
  <2>16. /\ b + (raw + c) = b + raw + c /\ d + (raw + c) = d + raw + c
         /\ b + raw + c \in Int /\ d + raw + c \in Int
    BY <2>10, <2>12, <2>13
  <2>17. ToSigned(b + raw + c, W) = ToSigned(d + raw + c, W)
    BY <2>15, <2>16, SignedSame DEF m
  <2>. QED
    BY <2>7, <2>8, <2>11, <2>17 DEF d, t
<1>. HIDE DEF c, bits
<1>9. ApplyPatch(f, pos[i], b, PatchBitsOf(r, e)[i], r.width)
        = [f EXCEPT ![at] = ToSigned(PatchedValue(r, at), W)]
  BY <1>2, <1>8, ApplyIsPut
<1>. DEFINE v == ToSigned(PatchedValue(r, at), W)
            g == PutSo(r, i, based)
<1>10. ASSUME NEW p \in 1 .. n
       PROVE  g[p] = IF p = at THEN v ELSE f[p]
  <2>1. (\E k \in 1 .. i : PatchAt(r, k) = p) <=> p = at \/ \E k \in 1 .. i - 1 : PatchAt(r, k) = p
    <3>1. \A k \in 1 .. i : k = i \/ k \in 1 .. i - 1
      BY <1>1
    <3>2. i \in 1 .. i /\ \A k \in 1 .. i - 1 : k \in 1 .. i
      BY <1>1
    <3>. QED
      BY <3>1, <3>2
  <2>. DEFINE val(q) == ToSigned(PatchedValue(r, q), W)
  <2>2. g[p] = IF \E k \in 1 .. i : PatchAt(r, k) = p THEN val(p) ELSE based[p]
    BY DEF PutSo
  <2>3. f[p] = IF \E k \in 1 .. i - 1 : PatchAt(r, k) = p THEN val(p) ELSE based[p]
    BY DEF PutSo
  <2>4. v = val(at)
    OBVIOUS
  <2>5. p = at => f[p] = based[p]
    BY <1>7
  <2>. HIDE DEF f, g, v, val, at
  <2>. QED
    BY <2>1, <2>2, <2>3, <2>4
<1>11. DOMAIN f = 1 .. n /\ g = [p \in 1 .. n |-> g[p]]
  BY DEF PutSo
<1>. HIDE DEF f, g, at, v
<1>12. [f EXCEPT ![at] = v] = [p \in 1 .. n |-> IF p = at THEN v ELSE f[p]]
  BY <1>11
<1>13. [p \in 1 .. n |-> IF p = at THEN v ELSE f[p]] = [p \in 1 .. n |-> g[p]]
  BY <1>10
<1>14. ApplyPatch(f, pos[i], b, PatchBitsOf(r, e)[i], r.width) = [f EXCEPT ![at] = v]
  BY <1>9 DEF v
<1>15. ApplyPatch(f, pos[i], b, PatchBitsOf(r, e)[i], r.width) = g
  BY <1>11, <1>12, <1>13, <1>14
<1>. QED
  BY <1>15 DEF f, g

\* With all the patches the numbers are right.
LEMMA PutAllRight ==
  ASSUME NEW r, PatchedRun(r), r.kind = "patched", Fits(r, W, IsSigned), W \in CWidths,
         NEW b, NEW based, BasedOn(r, b, based), NEW pl, pl = Len(r.patches)
  PROVE  PutSo(r, 0, based) = based /\ PutSo(r, pl, based) = Right(r)
<1>. DEFINE n == Len(r.raws)
            val(p) == PatchedValue(r, p)
<1>1. /\ DOMAIN RunValues(r) = 1 .. n
      /\ \A p \in 1 .. n : RunValues(r)[p] = val(p)
  BY PatchedNumbers
<1>2. based = [p \in 1 .. n |-> based[p]]
  BY DEF BasedOn
<1>3. PutSo(r, 0, based) = based
  <2>1. \A p \in 1 .. n : ~ \E k \in 1 .. 0 : PatchAt(r, k) = p
    OBVIOUS
  <2>. HIDE DEF n
  <2>2. [p \in 1 .. n |-> IF \E k \in 1 .. 0 : PatchAt(r, k) = p THEN ToSigned(val(p), W) ELSE based[p]]
          = [p \in 1 .. n |-> based[p]]
    BY <2>1
  <2>. QED
    BY <1>2, <2>2 DEF PutSo, n
<1>4. ASSUME NEW p \in 1 .. n
      PROVE  (IF \E k \in 1 .. pl : PatchAt(r, k) = p THEN ToSigned(val(p), W) ELSE based[p])
               = ToSigned(RunValues(r)[p], W)
  <2>1. CASE \E k \in 1 .. pl : PatchAt(r, k) = p
    BY <1>1, <2>1
  <2>2. CASE ~ \E k \in 1 .. pl : PatchAt(r, k) = p
    <3>1. r.raws[p] \in Nat /\ based[p] = ToSigned(r.base + r.raws[p], W)
      BY BasedValues
    <3>2. val(p) = r.base + r.raws[p]
      BY <2>2, <3>1, ValueElsewhere
    <3>. HIDE DEF val, n
    <3>. QED
      BY <1>1, <2>2, <3>1, <3>2
  <2>. QED
    BY <2>1, <2>2
<1>. HIDE DEF n
<1>5. [p \in 1 .. n |-> IF \E k \in 1 .. pl : PatchAt(r, k) = p THEN ToSigned(val(p), W) ELSE based[p]]
        = [p \in 1 .. n |-> ToSigned(RunValues(r)[p], W)]
  BY <1>4
<1>. QED
  BY <1>1, <1>3, <1>5 DEF PutSo, Right, n

\* A patched run that is not too wide comes out right.
LEMMA PatchedRight ==
  ASSUME NEW r, PatchedRun(r), r.kind = "patched", Fits(r, W, IsSigned), W \in CWidths,
         NEW b, NEW based, BasedOn(r, b, based), NEW e, NEW pos, AtPlaces(r, pos, e),
         NEW pl, pl = Len(r.patches),
         NEW g, Applies(g, pl, based, pos, b, PatchBitsOf(r, e), r.width)
  PROVE  g[pl] = Right(r)
<1>. DEFINE q == [i \in 0 .. pl |-> PutSo(r, i, based)]
            bits == PatchBitsOf(r, e)
<1>0. pl \in Nat
  <2>1. pl \in 1 .. 31
    BY DEF PatchedRun
  <2>. QED
    BY <2>1
<1>1. AppliedTo(g, pl, based, pos, b, bits, r.width)
  BY <1>0, AppliedSteps
<1>2. PutSo(r, 0, based) = based /\ PutSo(r, pl, based) = Right(r)
  BY PutAllRight
<1>3. \A i \in 1 .. pl : PutSo(r, i, based) = ApplyPatch(PutSo(r, i - 1, based), pos[i], b, bits[i], r.width)
  BY OnePut
<1>4. \A i \in 1 .. pl : i \in 0 .. pl /\ i - 1 \in 0 .. pl
  BY <1>0
<1>5. 0 \in 0 .. pl /\ pl \in 0 .. pl
  BY <1>0
<1>6. \A i \in 0 .. pl : q[i] = PutSo(r, i, based)
  OBVIOUS
<1>. HIDE DEF q, bits
<1>7. StepsAlike(g, q, pl)
  <2>1. g[0] = q[0]
    BY <1>1, <1>2, <1>5, <1>6 DEF AppliedTo
  <2>2. ASSUME NEW i \in 1 .. pl, g[i-1] = q[i-1] PROVE g[i] = q[i]
    <3>1. g[i] = ApplyPatch(g[i-1], pos[i], b, bits[i], r.width)
      BY <1>1 DEF AppliedTo
    <3>2. q[i] = PutSo(r, i, based) /\ q[i-1] = PutSo(r, i - 1, based)
      BY <1>4, <1>6
    <3>. QED
      BY <1>3, <2>2, <3>1, <3>2
  <2>. QED
    BY <2>1, <2>2 DEF StepsAlike
<1>8. Agree(g, q, pl)
  BY <1>0, <1>7, SameSteps
<1>. QED
  BY <1>2, <1>5, <1>6, <1>8 DEF Agree
\* A sequence of n values.
IsOn(f, n) == f = [p \in 1 .. n |-> f[p]]

\* A place no patch is put at keeps its number.
LEMMA NotPut ==
  ASSUME NEW n \in Nat, NEW pl \in Nat, NEW based, IsOn(based, n),
         NEW pos, NEW b, NEW bits, NEW width,
         NEW g, AppliedTo(g, pl, based, pos, b, bits, width)
  PROVE  /\ IsOn(g[pl], n)
         /\ \A q \in 1 .. n : (\A k \in 1 .. pl : pos[k] # q) => g[pl][q] = based[q]
<1>. DEFINE Is(f, i) ==
              /\ IsOn(f, n)
              /\ \A q \in 1 .. n : (\A k \in 1 .. i : pos[k] # q) => f[q] = based[q]
            S == {m \in Nat : m <= pl => Is(g[m], m)}
<1>1. 0 \in S
  <2>1. g[0] = based
    BY DEF AppliedTo
  <2>. QED
    BY <2>1
<1>2. ASSUME NEW m \in Nat, m \in S PROVE m + 1 \in S
  <2>1. SUFFICES ASSUME m + 1 <= pl PROVE Is(g[m+1], m + 1)
    OBVIOUS
  <2>2. m + 1 \in 1 .. pl /\ m <= pl /\ (m + 1) - 1 = m
    BY <2>1
  <2>3. g[m+1] = ApplyPatch(g[m], pos[m+1], b, bits[m+1], width)
    BY <2>2 DEF AppliedTo
  <2>. DEFINE f == g[m]
              at == pos[m+1]
              v == PatchBits(g[m][at], b, bits[m+1], width)
  <2>4. g[m+1] = [f EXCEPT ![at] = v]
    BY <2>3, ApplyIsPut
  <2>5. Is(f, m)
    BY <1>2, <2>2
  <2>. HIDE DEF f, at, v
  <2>6. [f EXCEPT ![at] = v] = [p \in 1 .. n |-> IF p = at THEN v ELSE f[p]]
    BY <2>5 DEF IsOn
  <2>. DEFINE h == [p \in 1 .. n |-> IF p = at THEN v ELSE f[p]]
  <2>7. IsOn(h, n)
    BY DEF IsOn
  <2>8. ASSUME NEW q \in 1 .. n, \A k \in 1 .. m + 1 : pos[k] # q PROVE h[q] = based[q]
    <3>1. m + 1 \in 1 .. m + 1 /\ \A k \in 1 .. m : k \in 1 .. m + 1
      OBVIOUS
    <3>2. at # q
      BY <2>8, <3>1 DEF at
    <3>3. f[q] = based[q]
      BY <2>5, <2>8, <3>1
    <3>. QED
      BY <3>2, <3>3
  <2>9. g[m+1] = h
    BY <2>4, <2>6
  <2>. HIDE DEF h
  <2>10. Is(h, m + 1)
    BY <2>7, <2>8
  <2>. QED
    BY <2>9, <2>10
<1>. HIDE DEF S
<1>3. pl \in S
  BY <1>1, <1>2, SetInduction
<1>. QED
  BY <1>3 DEF S

\* A part that is missing changes the number.
LEMMA BitsCount ==
  ASSUME NEW w \in CWidths, NEW x \in Int, NEW c \in Nat \ {0}, c < 2^w
  PROVE  ToSigned(x + c, w) # ToSigned(x, w)
<1>. DEFINE m == 2^w
<1>1. m \in Nat \ {0}
  BY Halves
<1>2. SUFFICES ASSUME ToSigned(x + c, w) = ToSigned(x, w) PROVE FALSE
  OBVIOUS
<1>3. Same(x + c, x, m)
  <2>1. x + c \in Int
    OBVIOUS
  <2>. QED
    BY <1>2, <2>1, SameSigned DEF Same
<1>4. c < m
  OBVIOUS
<1>. HIDE DEF m
<1>5. -x \in Int /\ x + c \in Int /\ Same(-x, -x, m)
  BY DEF Same
<1>6. Same((x + c) + (-x), x + (-x), m)
  BY <1>1, <1>3, <1>5, SameSum
<1>7. (x + c) + (-x) = c /\ x + (-x) = 0
  OBVIOUS
<1>8. c % m = 0 % m
  BY <1>6, <1>7 DEF Same
<1>9. c % m = c /\ 0 % m = 0
  BY <1>1, <1>4, OwnRemainder
<1>. QED
  BY <1>8, <1>9

\* A patched run that is too wide comes out wrong.
LEMMA PatchedWrong ==
  ASSUME NEW r, PatchedRun(r), r.kind = "patched", Fits(r, W, IsSigned), W \in CWidths,
         NEW b, NEW based, BasedOn(r, b, based), NEW pos, BeforeLast(r, pos),
         NEW pl, pl = Len(r.patches), NEW bits,
         NEW g, Applies(g, pl, based, pos, b, bits, r.width)
  PROVE  g[pl] # Right(r) /\ IsOn(g[pl], Len(r.raws))
<1>. DEFINE n == Len(r.raws)
            q == PatchAt(r, pl)
            c == BitsOf(r, pl)
            x == r.base + r.raws[q]
<1>0. pl \in Nat /\ pl \in 1 .. pl
  <2>1. pl \in 1 .. 31
    BY DEF PatchedRun
  <2>2. \A k \in 1 .. 31 : k \in Nat /\ k \in 1 .. k
    OBVIOUS
  <2>. QED
    BY <2>1, <2>2, Zenon
<1>1. AppliedTo(g, pl, based, pos, b, bits, r.width)
  BY <1>0, AppliedSteps
<1>2. n \in Nat /\ DOMAIN RunValues(r) = 1 .. n
      /\ \A p \in 1 .. n : RunValues(r)[p] = PatchedValue(r, p)
  BY PatchedNumbers
<1>3. IsOn(based, n)
  BY DEF BasedOn, IsOn
<1>4. q \in 1 .. n /\ PatchedValue(r, q) = r.base + r.raws[q] + c
  BY <1>0, ValueAtPatch
<1>5. r.raws[q] \in Nat /\ based[q] = ToSigned(x, W)
  <2>. HIDE DEF q
  <2>. QED
    BY <1>4, BasedValues DEF x
<1>6. c \in Nat \ {0} /\ c < 2^W
  <2>1. c \in Nat /\ r.patches[pl].bits \in Nat /\ 2^r.width \in Nat \ {0}
    BY <1>0, BitsType
  <2>2. r.patches[pl].bits > 0
    BY DEF Fits
  <2>3. c < 2^W
    BY <1>0, BitsSmall
  <2>4. c # 0
    <3>. DEFINE s == r.patches[pl].bits
                t == 2^r.width
    <3>1. c = s * t /\ s \in Nat \ {0} /\ t \in Nat \ {0}
      BY <2>1, <2>2 DEF BitsOf
    <3>. HIDE DEF s, t, c
    <3>2. s * t # 0
      BY <3>1
    <3>. QED
      BY <3>1, <3>2
  <2>. QED
    BY <2>1, <2>3, <2>4
<1>7. x \in Int
  <2>1. r.base \in Int
    BY DEF PatchedRun
  <2>2. r.raws[q] \in Int
    BY <1>5
  <2>. HIDE DEF q
  <2>. QED
    BY <2>1, <2>2
<1>8. \A k \in 1 .. pl : pos[k] # q
  <2>1. \A k \in 1 .. pl : pos[k] \in Nat /\ pos[k] < q
    BY DEF BeforeLast
  <2>2. q \in Int
    BY <1>4
  <2>. HIDE DEF q
  <2>. QED
    BY <2>1, <2>2
<1>9. ToSigned(x + c, W) # ToSigned(x, W)
  <2>. HIDE DEF x, c
  <2>. QED
    BY <1>6, <1>7, BitsCount
<1>. HIDE DEF n, q
<1>10. g[pl][q] = based[q] /\ IsOn(g[pl], n)
  <2>1. pl \in Nat /\ n \in Nat
    BY <1>0, <1>2
  <2>2. /\ IsOn(g[pl], n)
        /\ \A p \in 1 .. n : (\A k \in 1 .. pl : pos[k] # p) => g[pl][p] = based[p]
    BY <2>1, <1>1, <1>3, NotPut
  <2>. QED
    BY <2>2, <1>4, <1>8
<1>11. Right(r)[q] = ToSigned(x + c, W)
  BY <1>2, <1>4 DEF Right
<1>12. g[pl] # Right(r)
  BY <1>5, <1>9, <1>10, <1>11
<1>. QED
  BY <1>10, <1>12 DEF n

\* Positions at gaps one after the other.
Walks(pos, n, gap) == pos = [i \in 0 .. n |-> IF i = 0 THEN 1 ELSE pos[i-1] + gap[i]]

\* A walk that takes each gap from the last place.
Walked(pos, n, gap) == pos[0] = 1 /\ \A i \in 1 .. n : pos[i] = pos[i-1] + gap[i]

\* It is defined.
LEMMA WalkExists ==
  ASSUME NEW n \in Nat, NEW gap
  PROVE  \E pos : Walks(pos, n, gap)
<1>. DEFINE step(g, i) == IF i = 0 THEN 1 ELSE g[i-1] + gap[i]
            S == {m \in Nat : \E g : g = [i \in 0 .. m |-> step(g, i)]}
<1>1. 0 \in S
  <2>. DEFINE g == [i \in 0 .. 0 |-> 1]
  <2>1. g = [i \in 0 .. 0 |-> step(g, i)]
    OBVIOUS
  <2>. QED
    BY <2>1
<1>2. ASSUME NEW m \in Nat, m \in S PROVE m + 1 \in S
  <2>1. PICK g : g = [i \in 0 .. m |-> step(g, i)]
    BY <1>2
  <2>0. \A i \in 0 .. m : g[i] = step(g, i)
    <3>. DEFINE k == [i \in 0 .. m |-> step(g, i)]
    <3>1. \A i \in 0 .. m : k[i] = step(g, i)
      OBVIOUS
    <3>2. g = k
      BY <2>1
    <3>. HIDE DEF k
    <3>. QED
      BY <3>1, <3>2, Zenon
  <2>. DEFINE h == [i \in 0 .. m + 1 |-> IF i <= m THEN g[i] ELSE step(g, i)]
  <2>2. ASSUME NEW i \in 0 .. m + 1 PROVE h[i] = step(h, i)
    <3>1. CASE i = 0
      <4>1. g[i] = 1 /\ i <= m
        BY <2>0, <3>1
      <4>. QED
        BY <3>1, <4>1
    <3>2. CASE i # 0
      <4>1. i - 1 \in 0 .. m /\ i - 1 \in 0 .. m + 1
        BY <3>2
      <4>2. h[i-1] = g[i-1]
        BY <4>1
      <4>3. i <= m => g[i] = step(g, i)
        BY <2>0
      <4>4. h[i] = step(g, i)
        BY <4>3
      <4>. QED
        BY <3>2, <4>2, <4>4
    <3>. QED
      BY <3>1, <3>2
  <2>3. h = [i \in 0 .. m + 1 |-> step(h, i)]
    BY <2>2
  <2>. HIDE DEF h
  <2>4. \E k : k = [i \in 0 .. m + 1 |-> step(k, i)]
    BY <2>3, Zenon
  <2>5. m + 1 \in Nat
    OBVIOUS
  <2>. QED
    BY <2>4, <2>5, Zenon
<1>. HIDE DEF S
<1>3. n \in S
  BY <1>1, <1>2, SetInduction
<1>. QED
  BY <1>3 DEF S, Walks

\* It takes the gaps.
LEMMA WalkSteps ==
  ASSUME NEW n \in Nat, NEW gap, NEW pos, Walks(pos, n, gap)
  PROVE  Walked(pos, n, gap)
<1>. DEFINE step(i) == IF i = 0 THEN 1 ELSE pos[i-1] + gap[i]
            k == [i \in 0 .. n |-> step(i)]
<1>1. pos = k
  BY DEF Walks
<1>2. \A i \in 0 .. n : k[i] = step(i)
  OBVIOUS
<1>. HIDE DEF k
<1>3. \A i \in 0 .. n : pos[i] = step(i)
  BY <1>1, <1>2
<1>4. 0 \in 0 .. n /\ \A i \in 1 .. n : i \in 0 .. n /\ i # 0
  OBVIOUS
<1>. QED
  BY <1>3, <1>4 DEF Walked

\* The entries as the interpreter shifts them (PatchGap).
Widened(r, e, u) ==
  \A i \in 1 .. Len(r.patches) : u[i] = IF W = 64 THEN ToUnsigned(e[i], W) ELSE e[i]

\* They are those a decoder takes, with the same bits.
LEMMA WidenedTaken ==
  ASSUME NEW r, PatchedRun(r), r.kind = "patched", Fits(r, W, IsSigned), W \in CWidths,
         NEW e, AreRead(r, e), NEW u, Widened(r, e, u)
  PROVE  Taken(r, u) /\ PatchBitsOf(r, u) = PatchBitsOf(r, e)
<1>1. CASE W # 64
  <2>1. \A i \in 1 .. Len(r.patches) : u[i] = e[i]
    BY <1>1 DEF Widened
  <2>. QED
    BY <1>1, <2>1 DEF Taken, AreRead, PatchBitsOf
<1>2. CASE W = 64
  <2>1. ASSUME NEW i \in 1 .. Len(r.patches)
        PROVE  u[i] = Entry(r, i) /\ u[i] % 2^r.pw = e[i] % 2^r.pw
    <3>. DEFINE x == Entry(r, i)
                m == 2^W
                p == 2^r.pw
                f == e[i]
    <3>1. x \in Nat /\ x < 2^Cfb(r) /\ f = ToSigned(x, W) /\ f \in Int
      BY EntryParts DEF EntryHas, AreRead, EntryReadAs
    <3>2. m \in Nat \ {0} /\ W \in Nat
      BY Halves
    <3>3. x < m
      <4>. DEFINE c == Cfb(r)
      <4>1. c \in 1 .. 64
        BY DEF PatchedRun
      <4>. HIDE DEF c
      <4>2. c \in Nat /\ c <= 64 /\ 64 \in Nat
        BY <4>1
      <4>3. 2^c <= 2^64 /\ 2^c \in Nat /\ 2^64 \in Nat
        BY <4>2, PowersOrder, PowerType
      <4>. DEFINE t == 2^c
                  z == 2^64
      <4>4. x < t /\ m = z
        BY <1>2, <3>1 DEF c
      <4>5. x \in Nat /\ t <= z /\ t \in Nat /\ z \in Nat
        BY <3>1, <4>3
      <4>. HIDE DEF x, m, t, z
      <4>. QED
        BY <4>4, <4>5
    <3>4. f % m = x % m
      <4>1. x \in Int
        BY <3>1
      <4>. HIDE DEF x, f
      <4>. QED
        BY <3>1, <4>1, SignedValue DEF m
    <3>5. u[i] = f % m
      BY <1>2 DEF Widened, ToUnsigned
    <3>6. r.pw \in Nat /\ r.pw <= W
      <4>1. r.pw \in 1 .. 64 /\ r.pw < W
        BY DEF PatchedRun, Fits
      <4>2. r.pw \in Nat
        BY <4>1, WidthIsNat, Zenon
      <4>. QED
        BY <3>2, <4>1, <4>2
    <3>7. PICK k \in Nat \ {0} : m = p * k /\ p \in Nat \ {0}
      <4>1. 2^W = 2^r.pw * 2^(W - r.pw) /\ 2^(W - r.pw) \in Nat \ {0} /\ 2^r.pw \in Nat \ {0}
        BY <3>2, <3>6, PowersGrow
      <4>. QED
        BY <4>1
    <3>. HIDE DEF x, m, p, f
    <3>8. x % m = x
      BY <3>1, <3>2, <3>3, OwnRemainder
    <3>9. f = p * (k * (f \div m)) + x /\ k * (f \div m) \in Int
      <4>. DEFINE q == f \div m
      <4>1. q \in Int /\ f = m * q + (f % m)
        BY <3>1, <3>2, Divided
      <4>. HIDE DEF q
      <4>2. (p * k) * q = p * (k * q) /\ k * q \in Int
        BY <3>7, <4>1
      <4>3. f = m * q + x
        BY <3>4, <3>8, <4>1
      <4>. QED
        BY <3>7, <4>2, <4>3 DEF q
    <3>10. f % p = x % p
      <4>. DEFINE y == k * (f \div m)
      <4>1. y \in Int /\ f = p * y + x
        BY <3>9
      <4>. HIDE DEF y
      <4>2. x \in Int
        BY <3>1
      <4>3. (p * y + x) % p = x % p
        BY <3>7, <4>1, <4>2, MultipleGone
      <4>. QED
        BY <4>1, <4>3
    <3>. QED
      BY <3>4, <3>5, <3>8, <3>10 DEF x, p, f
  <2>. QED
    BY <1>2, <2>1 DEF Taken, Exact, PatchBitsOf
<1>. QED
  BY <1>1, <1>2

\* Positions that the interpreter finds.
LEMMA InterpreterPlaces ==
  ASSUME NEW r, NEW n \in Nat, n = Len(r.patches), NEW e,
         NEW pos, pos = CHOOSE f : f = [i \in 0 .. n |-> IF i = 0 THEN 1 ELSE f[i-1] + PatchGap(e[i], r.pw)],
         NEW u, Widened(r, e, u)
  PROVE  Positions(pos, r, u)
<1>. DEFINE gap == [i \in 1 .. n |-> PatchGap(e[i], r.pw)]
            P(f) == f = [i \in 0 .. n |-> IF i = 0 THEN 1 ELSE f[i-1] + PatchGap(e[i], r.pw)]
<1>1. ASSUME NEW f PROVE P(f) <=> Walks(f, n, gap)
  <2>1. \A i \in 0 .. n : i # 0 => gap[i] = PatchGap(e[i], r.pw)
    OBVIOUS
  <2>. HIDE DEF gap
  <2>2. [i \in 0 .. n |-> IF i = 0 THEN 1 ELSE f[i-1] + PatchGap(e[i], r.pw)]
          = [i \in 0 .. n |-> IF i = 0 THEN 1 ELSE f[i-1] + gap[i]]
    BY <2>1
  <2>. QED
    BY <2>2, Zenon DEF Walks
<1>2. pos = CHOOSE f : P(f)
  OBVIOUS
<1>. HIDE DEF P
<1>3. \E f : Walks(f, n, gap)
  <2>. HIDE DEF gap
  <2>. QED
    BY WalkExists
<1>4. P(pos)
  BY <1>1, <1>2, <1>3, Zenon
<1>5. Walked(pos, n, gap)
  <2>1. Walks(pos, n, gap)
    BY <1>1, <1>4
  <2>. HIDE DEF gap
  <2>. QED
    BY <2>1, WalkSteps
<1>6. \A i \in 1 .. n : gap[i] = u[i] \div 2^r.pw
  BY DEF Widened, PatchGap
<1>. HIDE DEF gap
<1>. QED
  BY <1>5, <1>6 DEF Walked, Positions

\* The gap a generated decoder takes of an entry.
LEMMA FloorAbove ==
  ASSUME NEW x \in Int, NEW p \in Nat \ {0}
  PROVE  /\ x >= 0 => x \div p >= 0 /\ x \div p <= x
         /\ x < 0 => x \div p < 0 /\ x \div p >= x
<1>. DEFINE q == x \div p
            s == x % p
            j == p - 1
<1>1. q \in Int /\ s \in Nat /\ s < p /\ x = p * q + s
  BY Divided
<1>. HIDE DEF q, s
<1>2. j \in Nat /\ p = j + 1 /\ s <= j
  BY <1>1
<1>. HIDE DEF j
<1>3. p * q = j * q + q /\ j * q \in Int
  <2>1. (j + 1) * q = j * q + q
    BY <1>1, <1>2
  <2>. QED
    BY <1>1, <1>2, <2>1
<1>4. q >= 0 => j * q >= 0
  BY <1>1, <1>2
<1>5. q < 0 => j * q <= -j
  <2>1. SUFFICES ASSUME q < 0 PROVE j * q <= -j
    OBVIOUS
  <2>. DEFINE u == -q - 1
  <2>2. u \in Nat /\ q = -u - 1
    BY <1>1, <2>1
  <2>. HIDE DEF u
  <2>3. j * u \in Nat
    BY <1>2, <2>2
  <2>4. j * (-u - 1) = -(j * u) - j
    BY <1>2, <2>2
  <2>5. j * q = -(j * u) - j
    BY <2>2, <2>4
  <2>. QED
    BY <1>2, <2>3, <2>5
<1>. DEFINE y == j * q
<1>6. x = y + q + s /\ y \in Int
  BY <1>1, <1>3
<1>7. (q >= 0 => y >= 0) /\ (q < 0 => y <= -j)
  BY <1>4, <1>5
<1>. HIDE DEF y
<1>8. /\ x >= 0 => q >= 0 /\ q <= x
      /\ x < 0 => q < 0 /\ q >= x
  BY <1>1, <1>2, <1>6, <1>7
<1>. QED
  BY <1>8 DEF q

\* A gap of the generated decoder is that of the entry, or far outside.
LEMMA GapTaken ==
  ASSUME W \in CWidths, NEW x \in Type(W), NEW pw \in Nat
  PROVE  /\ genGap(x, pw) \in Nat
         /\ x >= 0 => genGap(x, pw) = x \div 2^pw
         /\ x < 0 => genGap(x, pw) >= 2^(W-1)
<1>. DEFINE m == 2^W
            h == 2^(W-1)
            p == 2^pw
            q == x \div p
<1>1. m \in Nat \ {0} /\ h \in Nat \ {0} /\ m = 2 * h
  BY Halves
<1>2. p \in Nat \ {0}
  BY PowerType
<1>3. x \in Int /\ -h <= x /\ x < h
  BY <1>1 DEF Type
<1>4. genGap(x, pw) = q % m
  BY DEF genGap, ToUnsigned
<1>. HIDE DEF m, h, p
<1>5. q \in Int
  BY <1>2, <1>3, Divided
<1>6. /\ x >= 0 => q >= 0 /\ q <= x
      /\ x < 0 => q < 0 /\ q >= x
  BY <1>2, <1>3, FloorAbove
<1>. HIDE DEF q
<1>7. q % m \in Nat
  BY <1>1, <1>5, Divided
<1>8. x >= 0 => q % m = q
  <2>1. x >= 0 => q \in Nat /\ q < m
    BY <1>1, <1>3, <1>5, <1>6
  <2>. QED
    BY <1>1, <2>1, OwnRemainder
<1>9. x < 0 => q % m = q + m
  <2>1. SUFFICES ASSUME x < 0 PROVE q % m = q + m
    OBVIOUS
  <2>. DEFINE t == q + m
  <2>2. t \in Nat /\ t < m /\ q = m * (-1) + t
    BY <1>1, <1>3, <1>5, <1>6, <2>1
  <2>3. -1 \in Int
    OBVIOUS
  <2>. HIDE DEF t
  <2>4. q % m = t
    BY <1>1, <1>5, <2>2, <2>3, Quotient
  <2>. QED
    BY <2>4 DEF t
<1>10. x < 0 => q + m >= h
  BY <1>1, <1>3, <1>5, <1>6
<1>11. x >= 0 \/ x < 0
  BY <1>3
<1>. QED
  BY <1>4, <1>7, <1>8, <1>9, <1>10 DEF h, p, q

\* Positions that the generated decoder finds.
GeneratorWalks(pos, n, e, pw) ==
  pos = CHOOSE f : f = [i \in 0 .. n |-> IF i = 0 THEN 1 ELSE f[i-1] + genGap(e[i], pw)]

\* The walk of the generated decoder.
LEMMA GeneratorWalk ==
  ASSUME NEW n \in Nat, NEW e, NEW pw, NEW pos, GeneratorWalks(pos, n, e, pw)
  PROVE  pos[0] = 1 /\ \A i \in 1 .. n : pos[i] = pos[i-1] + genGap(e[i], pw)
<1>. DEFINE gap == [i \in 1 .. n |-> genGap(e[i], pw)]
            P(f) == f = [i \in 0 .. n |-> IF i = 0 THEN 1 ELSE f[i-1] + genGap(e[i], pw)]
<1>1. ASSUME NEW f PROVE P(f) <=> Walks(f, n, gap)
  <2>1. \A i \in 0 .. n : i # 0 => gap[i] = genGap(e[i], pw)
    OBVIOUS
  <2>. HIDE DEF gap
  <2>2. [i \in 0 .. n |-> IF i = 0 THEN 1 ELSE f[i-1] + genGap(e[i], pw)]
          = [i \in 0 .. n |-> IF i = 0 THEN 1 ELSE f[i-1] + gap[i]]
    BY <2>1
  <2>. QED
    BY <2>2, Zenon DEF Walks
<1>2. pos = CHOOSE f : P(f)
  BY DEF GeneratorWalks
<1>. HIDE DEF P
<1>3. \E f : Walks(f, n, gap)
  <2>. HIDE DEF gap
  <2>. QED
    BY WalkExists
<1>4. P(pos)
  BY <1>1, <1>2, <1>3, Zenon
<1>5. Walked(pos, n, gap)
  <2>1. Walks(pos, n, gap)
    BY <1>1, <1>4
  <2>. HIDE DEF gap
  <2>. QED
    BY <2>1, WalkSteps
<1>. QED
  BY <1>5 DEF Walked
\* It goes where the interpreter goes, or far outside.
LEMMA GeneratorPlaces ==
  ASSUME NEW r, PatchedRun(r), W \in CWidths, NEW n \in Nat, n = Len(r.patches), NEW e, AreRead(r, e),
         NEW pos, GeneratorWalks(pos, n, e, r.pw)
  PROVE  /\ Positions(pos, r, e)
         /\ \A i \in 1 .. n : e[i] < 0 => W = 8 \/ pos[i] > Len(r.raws)
<1>. DEFINE gap(i) == genGap(e[i], r.pw)
<1>1. pos[0] = 1 /\ \A i \in 1 .. n : pos[i] = pos[i-1] + gap(i)
  BY GeneratorWalk
<1>2. r.pw \in Nat
  BY WidthIsNat, Zenon DEF PatchedRun
<1>3. \A i \in 1 .. n : e[i] \in Type(W) /\ e[i] \in Int
  <2>1. ASSUME NEW i \in 1 .. n PROVE e[i] \in Type(W) /\ e[i] \in Int
    <3>1. e[i] \in Int /\ e[i] = ToSigned(Entry(r, i), W)
      BY DEF AreRead, EntryReadAs
    <3>2. EntryHas(r, i, Entry(r, i)) \/ Entry(r, i) \in Int
      <4>1. r.patches[i].gap \in Nat /\ r.patches[i].bits \in Nat
        BY DEF PatchedRun
      <4>2. 2^r.pw \in Nat
        BY <1>2, PowerType
      <4>. QED
        BY <4>1, <4>2 DEF Entry
    <3>3. Entry(r, i) \in Int
      <4>1. r.patches[i].gap \in Nat /\ r.patches[i].bits \in Nat
        BY DEF PatchedRun
      <4>2. 2^r.pw \in Nat
        BY <1>2, PowerType
      <4>. QED
        BY <4>1, <4>2 DEF Entry
    <3>. QED
      BY <3>1, <3>3, SignedValue
  <2>. QED
    BY <2>1
<1>4. \A i \in 1 .. n : /\ gap(i) \in Nat
                        /\ e[i] >= 0 => gap(i) = e[i] \div 2^r.pw
                        /\ e[i] < 0 => gap(i) >= 2^(W-1)
  BY <1>2, <1>3, GapTaken
<1>. HIDE DEF gap
<1>5. Positions(pos, r, e)
  BY <1>1, <1>4 DEF Positions
<1>. DEFINE S == {m \in Nat : m <= n => pos[m] \in Nat}
<1>6. 0 \in S
  BY <1>1
<1>7. ASSUME NEW m \in Nat, m \in S PROVE m + 1 \in S
  <2>1. SUFFICES ASSUME m + 1 <= n PROVE pos[m+1] \in Nat
    OBVIOUS
  <2>2. m + 1 \in 1 .. n /\ m <= n /\ (m + 1) - 1 = m
    BY <2>1
  <2>3. pos[m+1] = pos[m] + gap(m + 1)
    BY <1>1, <2>2
  <2>. QED
    BY <1>4, <1>7, <2>2, <2>3
<1>. HIDE DEF S
<1>8. Nat \subseteq S
  BY <1>6, <1>7, SetInduction
<1>9. ASSUME NEW i \in 1 .. n, e[i] < 0, W # 8 PROVE pos[i] > Len(r.raws)
  <2>1. i - 1 \in Nat /\ i - 1 <= n
    OBVIOUS
  <2>2. pos[i-1] \in Nat
    BY <1>8, <2>1 DEF S
  <2>3. pos[i] = pos[i-1] + gap(i) /\ gap(i) \in Nat /\ gap(i) >= 2^(W-1)
    BY <1>1, <1>4, <1>9
  <2>4. 2^(W-1) > 512 /\ 2^(W-1) \in Nat
    <3>1. 15 \in Nat /\ W - 1 \in Nat /\ 15 <= W - 1
      BY <1>9 DEF CWidths
    <3>2. 2^15 <= 2^(W-1) /\ 2^(W-1) \in Nat
      BY <3>1, PowersOrder, PowerType
    <3>3. 2^15 = 32768
      OBVIOUS
    <3>. QED
      BY <3>2, <3>3
  <2>. DEFINE k == Len(r.raws)
              x == 2^(W-1)
              y == gap(i)
  <2>5. k \in 1 .. 512
    BY DEF PatchedRun
  <2>6. x > 512 /\ x \in Nat /\ y \in Nat /\ y >= x /\ pos[i] = pos[i-1] + y
    BY <2>3, <2>4
  <2>. DEFINE z == pos[i-1]
  <2>8. z \in Nat /\ pos[i] = z + y
    BY <2>2, <2>6
  <2>. HIDE DEF k, x, y, z
  <2>7. pos[i] > k
    <3>1. \A l \in 1 .. 512 : l \in Int /\ l <= 512
      OBVIOUS
    <3>2. k \in Int /\ k <= 512
      BY <2>5, <3>1
    <3>. QED
      BY <2>6, <2>8, <3>2
  <2>. QED
    BY <2>7 DEF k
<1>. QED
  BY <1>5, <1>9

\* A patch is written outside of the run only if an entry is too wide.
LEMMA OutsideWide ==
  ASSUME NEW r, PatchedRun(r), r.kind = "patched", Fits(r, W, IsSigned), W \in CWidths,
         NEW e, Taken(r, e), NEW pos, Positions(pos, r, e),
         \E i \in 1 .. Len(r.patches) : e[i] < 0 \/ pos[i] > Len(r.raws)
  PROVE  TooWide(r)
<1>1. SUFFICES ASSUME ~TooWide(r) PROVE FALSE
  OBVIOUS
<1>2. AtPlaces(r, pos, e)
  BY <1>1, TakenExact, RightPlaces
<1>3. PICK i \in 1 .. Len(r.patches) : e[i] < 0 \/ pos[i] > Len(r.raws)
  OBVIOUS
<1>4. e[i] >= 0 /\ pos[i] = PatchAt(r, i)
  BY <1>2 DEF AtPlaces
<1>5. PatchAt(r, i) \in 1 .. Len(r.raws)
  BY ValueAtPatch
<1>6. e[i] \in Int /\ Len(r.raws) \in Int
  <2>1. Len(r.raws) \in 1 .. 512
    BY DEF PatchedRun
  <2>2. \A k \in 1 .. 512 : k \in Int
    OBVIOUS
  <2>3. EntryHas(r, i, Entry(r, i))
    BY EntryParts
  <2>4. e[i] = Entry(r, i) /\ Entry(r, i) \in Nat
    BY <1>2, <2>3 DEF AtPlaces, EntryHas
  <2>5. e[i] \in Int
    BY <2>4
  <2>. QED
    BY <2>1, <2>2, <2>5, Zenon
<1>. QED
  BY <1>3, <1>4, <1>5, <1>6

\* The values after each patch, as the generated decoder has them.
PatchesPut(g, r, pl, based, pos, b, e) ==
  g = CHOOSE f : f = [i \in 0 .. pl |->
        IF i = 0 THEN based ELSE ApplyPatch(f[i-1], pos[i], b, e[i] % 2^r.pw, r.width)]

\* They are those after the bits of each entry.
LEMMA PutApplied ==
  ASSUME NEW r, NEW b, NEW based, NEW e, NEW pos, NEW pl \in Nat, pl = Len(r.patches),
         NEW g, PatchesPut(g, r, pl, based, pos, b, e)
  PROVE  Applies(g, pl, based, pos, b, PatchBitsOf(r, e), r.width)
<1>. DEFINE bits == PatchBitsOf(r, e)
            P(f) == f = [i \in 0 .. pl |->
                      IF i = 0 THEN based ELSE ApplyPatch(f[i-1], pos[i], b, e[i] % 2^r.pw, r.width)]
<1>1. ASSUME NEW f PROVE P(f) <=> Applies(f, pl, based, pos, b, bits, r.width)
  <2>1. \A i \in 0 .. pl : i # 0 => bits[i] = e[i] % 2^r.pw
    BY DEF PatchBitsOf
  <2>. HIDE DEF bits
  <2>2. [i \in 0 .. pl |-> IF i = 0 THEN based ELSE ApplyPatch(f[i-1], pos[i], b, e[i] % 2^r.pw, r.width)]
          = [i \in 0 .. pl |-> IF i = 0 THEN based ELSE ApplyPatch(f[i-1], pos[i], b, bits[i], r.width)]
    BY <2>1
  <2>. QED
    BY <2>2, Zenon DEF Applies
<1>2. g = CHOOSE f : P(f)
  BY DEF PatchesPut
<1>. HIDE DEF P
<1>3. \E f : Applies(f, pl, based, pos, b, bits, r.width)
  <2>. HIDE DEF bits
  <2>. QED
    BY AppliedExist
<1>4. P(g)
  BY <1>1, <1>2, <1>3, Zenon
<1>. QED
  BY <1>1, <1>4

\* Otherwise the numbers are right unless an entry is.
LEMMA PatchedYields ==
  ASSUME NEW r, PatchedRun(r), r.kind = "patched", Fits(r, W, IsSigned), W \in CWidths,
         NEW b, NEW based, BasedOn(r, b, based), NEW e, Taken(r, e), NEW pos, Positions(pos, r, e),
         \A i \in 1 .. Len(r.patches) : e[i] >= 0,
         NEW pl \in Nat, pl = Len(r.patches),
         NEW g, Applies(g, pl, based, pos, b, PatchBitsOf(r, e), r.width)
  PROVE  Yields(r, g[pl])
<1>. DEFINE bits == PatchBitsOf(r, e)
<1>1. DOMAIN RunValues(r) = 1 .. Len(r.raws) /\ Len(RunValues(r)) = Len(r.raws)
  BY PatchedNumbers
<1>2. CASE TooWide(r)
  <2>1. BeforeLast(r, pos)
    BY <1>2, TakenWide, ShortPlaces
  <2>2. g[pl] # Right(r) /\ IsOn(g[pl], Len(r.raws))
    <3>1. Applies(g, pl, based, pos, b, bits, r.width)
      OBVIOUS
    <3>. HIDE DEF bits
    <3>. QED
      BY <2>1, <3>1, PatchedWrong
  <2>. QED
    BY <1>1, <1>2, <2>2 DEF Yields, IsOn
<1>3. CASE ~TooWide(r)
  <2>1. AtPlaces(r, pos, e)
    BY <1>3, TakenExact, RightPlaces
  <2>2. g[pl] = Right(r)
    BY <2>1, PatchedRight
  <2>3. Right(r) = [i \in 1 .. Len(RunValues(r)) |-> Right(r)[i]]
    BY <1>1 DEF Right
  <2>. QED
    BY <1>3, <2>2, <2>3 DEF Yields
<1>. QED
  BY <1>2, <1>3

-----------------------------------------------------------------------------
(***************************************************************************)
(* The turns of the interpreter.                                           *)
(***************************************************************************)
\* Values packed in the data.
Packs(vs, width, at, n) ==
  /\ width \in Nat \ {0} /\ at \in Nat /\ n = Len(vs)
  /\ Holds(vs, width) /\ Part(data, at, Packed(vs, width))

\* They are read back, with and without a sign.
LEMMA PackedRead ==
  ASSUME W \in CWidths, NEW vs, NEW width, NEW at, NEW n, Packs(vs, width, at, n)
  PROVE  /\ readLongs(at, n, width, FALSE) = Fields(vs, FALSE)
         /\ readLongs(at, n, width, IsSigned) = Fields(vs, IsSigned)
<1>1. width \in Nat \ {0} /\ at \in Nat /\ n = Len(vs)
  BY DEF Packs
<1>2. Holds(vs, width) /\ Part(data, at, Packed(vs, width))
  BY DEF Packs
<1>3. \A signed : readLongs(at, n, width, signed) = Fields(vs, signed)
  BY <1>1, <1>2, LongsRead
<1>. QED
  BY <1>3, Zenon

\* What is packed in the runs of numbers that fit.
LEMMA RawsHold ==
  ASSUME NEW r, PatchedRun(r), r.kind = "patched", Fits(r, W, IsSigned)
  PROVE  Holds(r.raws, r.width)
<1>1. r.raws \in Seq(Nat)
  BY DEF PatchedRun
<1>2. \A i \in DOMAIN r.raws : r.raws[i] < 2^r.width
  BY DEF Fits
<1>3. DOMAIN r.raws = 1 .. Len(r.raws)
  BY <1>1
<1>. QED
  BY <1>1, <1>2, <1>3 DEF Holds

\* The entries fit in their fields.
LEMMA EntriesHold ==
  ASSUME NEW r, PatchedRun(r), r.kind = "patched", Fits(r, W, IsSigned)
  PROVE  Holds(PatchEntries(r), Cfb(r)) /\ Len(PatchEntries(r)) = Len(r.patches)
<1>. DEFINE n == Len(r.patches)
<1>1. n \in Nat
  <2>1. n \in 1 .. 31
    BY DEF PatchedRun
  <2>. QED
    BY <2>1
<1>2. ASSUME NEW i \in 1 .. n PROVE Entry(r, i) \in Nat /\ Entry(r, i) < 2^Cfb(r)
  BY EntryParts DEF EntryHas
<1>3. \A i \in 1 .. n : PatchEntries(r)[i] = Entry(r, i)
  BY DEF PatchEntries
<1>4. PatchEntries(r) = [i \in 1 .. n |-> Entry(r, i)]
  BY DEF PatchEntries
<1>. HIDE DEF n
<1>5. PatchEntries(r) \in Seq(Nat) /\ Len(PatchEntries(r)) = n
  BY <1>1, <1>2, <1>4
<1>6. \A i \in 1 .. Len(PatchEntries(r)) : PatchEntries(r)[i] < 2^Cfb(r)
  BY <1>2, <1>3, <1>5
<1>. QED
  BY <1>5, <1>6 DEF Holds, n

\* So do the steps of a delta run.
LEMMA RestHolds ==
  ASSUME NEW r, r.kind = "delta", r.rest \in Seq(Nat), Fits(r, W, IsSigned), r.width # 0
  PROVE  Holds(r.rest, r.width)
<1>1. \A i \in DOMAIN r.rest : r.rest[i] < 2^r.width
  BY DEF Fits
<1>2. DOMAIN r.rest = 1 .. Len(r.rest)
  OBVIOUS
<1>. QED
  BY <1>1, <1>2 DEF Holds

\* What a decoder reads at the beginning of a delta run.
LEMMA DeltaStart ==
  ASSUME NEW r, Placed(r), r.kind = "delta", Fits(r, W, IsSigned), W \in CWidths,
         NEW x, x = Coded(r.first, IsSigned), NEW z, z = ZigZag(r.step),
         NEW at, at = index + 2 + VarintLength(index + 2), NEW to, to = at + VarintLength(at)
  PROVE  /\ VarintLength(index + 2) = VLen(x) /\ VarintLength(at) = VLen(z)
         /\ readVulong(index + 2) = x % 2^W /\ readVulong(at) = z % 2^W
         /\ to \in Nat /\ (r.width # 0 => Part(data, to, Packed(r.rest, r.width)))
<1>1. /\ x \in Nat /\ \E k \in 1 .. 10 : x < 2^(7*k)
      /\ z \in Nat /\ \E k \in 1 .. 10 : z < 2^(7*k)
      /\ VLen(x) \in 1 .. 10 /\ VLen(z) \in 1 .. 10
      /\ Part(data, index + 2, Varint(x)) /\ Part(data, index + 2 + VLen(x), Varint(z))
      /\ r.width # 0 => Part(data, index + 2 + VLen(x) + VLen(z), Packed(r.rest, r.width))
  BY DeltaParts, Zenon
<1>2. index + 2 \in Nat /\ index + 2 + VLen(x) \in Nat /\ index + 2 + VLen(x) + VLen(z) \in Nat
  <2>1. index \in Nat
    BY DEF Placed
  <2>. QED
    BY <1>1, <2>1
<1>3. VarintLength(index + 2) = VLen(x) /\ readVulong(index + 2) = x % 2^W
  BY <1>1, <1>2, VarintAt
<1>4. at = index + 2 + VLen(x)
  BY <1>3
<1>5. VarintLength(at) = VLen(z) /\ readVulong(at) = z % 2^W
  BY <1>1, <1>2, <1>4, VarintAt
<1>. QED
  BY <1>1, <1>2, <1>3, <1>4, <1>5

\* The numbers of a run, as a turn leaves them.
Outcome(r, vs) == IF wild' THEN TooWide(r) /\ IsOn(vs, Len(RunValues(r))) ELSE Yields(r, vs)

\* The turn on a repeated run (nextShortRepeats).
LEMMA RepeatTurn ==
  ASSUME NEW r, Placed(r), r.kind = "repeat", Fits(r, W, IsSigned), W \in CWidths, nextShortRepeats
  PROVE  \E vs : Emit(vs, Len(RunValues(r))) /\ Outcome(r, vs)
<1>. DEFINE byteSize == ((Byte(0) \div 8) % 8) + 1
            n == (Byte(0) % 8) + MinRepeat
<1>1. /\ Emit([i \in 1 .. n |-> Uncoded(readLongBE(index + 1, byteSize), W, IsSigned)], n)
      /\ ~wild'
  BY Zenon DEF nextShortRepeats, Uncoded, Running
<1>2. byteSize = RunWidth(r) /\ n = Len(RunValues(r))
  BY RepeatHead, Zenon
<1>. HIDE DEF byteSize, n
<1>3. Yields(r, [i \in 1 .. n |-> Uncoded(readLongBE(index + 1, RunWidth(r)), W, IsSigned)])
  BY <1>2, RepeatYields
<1>. QED
  BY <1>1, <1>2, <1>3, Zenon DEF Outcome

\* The turn on a direct run (nextDirect).
LEMMA DirectTurn ==
  ASSUME NEW r, Placed(r), r.kind = "direct", Fits(r, W, IsSigned), W \in CWidths, nextDirect
  PROVE  \E vs : Emit(vs, Len(RunValues(r))) /\ Outcome(r, vs)
<1>1. /\ Emit(readLongs(index + 2, RunLength, decodeBitWidth(WidthField), IsSigned), RunLength)
      /\ ~wild'
  BY Zenon DEF nextDirect, Running
<1>2. decodeBitWidth(WidthField) = r.width /\ RunLength = Len(RunValues(r))
  BY DirectHead, Zenon
<1>3. /\ Part(data, index + 2, Packed(Codes(r), r.width)) /\ r.width \in Nat \ {0}
      /\ Len(Codes(r)) = Len(RunValues(r))
  BY DirectParts
<1>4. Holds(Codes(r), r.width) /\ Yields(r, Fields(Codes(r), IsSigned))
  BY DirectYields
<1>5. index + 2 \in Nat
  BY DEF Placed
<1>6. readLongs(index + 2, Len(RunValues(r)), r.width, IsSigned) = Fields(Codes(r), IsSigned)
  <2>1. Packs(Codes(r), r.width, index + 2, Len(RunValues(r)))
    BY <1>3, <1>4, <1>5 DEF Packs
  <2>. QED
    BY <2>1, PackedRead
<1>. QED
  BY <1>1, <1>2, <1>4, <1>6, Zenon DEF Outcome

\* The turn on a delta run (nextDelta).
LEMMA DeltaTurn ==
  ASSUME NEW r, Placed(r), r.kind = "delta", Fits(r, W, IsSigned), W \in CWidths, nextDelta
  PROVE  \E vs : Emit(vs, Len(RunValues(r))) /\ Outcome(r, vs)
<1>. DEFINE width == IF WidthField = 0 THEN 0 ELSE decodeBitWidth(WidthField)
            n == RunLength
            at == index + 2 + VarintLength(index + 2)
            to == at + VarintLength(at)
            a == Uncoded(readVulong(index + 2), W, IsSigned)
            db == unZigZag(readVulong(at))
            rest == readLongs(to, n - 2, width, FALSE)
            v == CHOOSE g : g = [i \in 1 .. n |->
                   IF i = 1 THEN a ELSE ToSigned(g[i-1] + StepRead(i, width, db, rest), W)]
<1>1. Emit([i \in 1 .. n |-> v[i]], n) /\ ~wild'
  BY Zenon DEF nextDelta, Running, Uncoded, StepRead
<1>2. /\ width = r.width /\ n = Len(RunValues(r)) /\ n - 2 = Len(r.rest)
  BY DeltaHead, Zenon
<1>3. r.rest \in Seq(Nat) /\ (r.width # 0 => r.width \in Nat \ {0})
  BY DeltaParts, Zenon
<1>. DEFINE x == Coded(r.first, IsSigned)
            z == ZigZag(r.step)
<1>4. /\ readVulong(index + 2) = x % 2^W /\ readVulong(at) = z % 2^W
      /\ to \in Nat /\ (r.width # 0 => Part(data, to, Packed(r.rest, r.width)))
  <2>. HIDE DEF x, z, at, to
  <2>. QED
    BY DeltaStart DEF x, z, at, to
<1>5. r.width # 0 => rest = Fields(r.rest, FALSE)
  <2>1. SUFFICES ASSUME r.width # 0 PROVE rest = Fields(r.rest, FALSE)
    OBVIOUS
  <2>2. Holds(r.rest, r.width)
    BY <1>3, <2>1, RestHolds
  <2>3. rest = readLongs(to, Len(r.rest), r.width, FALSE)
    BY <1>2, Zenon
  <2>4. r.width \in Nat \ {0} /\ to \in Nat /\ Part(data, to, Packed(r.rest, r.width))
    BY <1>3, <1>4, <2>1, Zenon
  <2>. HIDE DEF to, rest
  <2>5. readLongs(to, Len(r.rest), r.width, FALSE) = Fields(r.rest, FALSE)
    <3>1. Packs(r.rest, r.width, to, Len(r.rest))
      BY <2>2, <2>4 DEF Packs
    <3>. DEFINE vs == r.rest
                w == r.width
                l == Len(r.rest)
    <3>2. Packs(vs, w, to, l)
      BY <3>1
    <3>. HIDE DEF vs, w, l
    <3>3. readLongs(to, l, w, FALSE) = Fields(vs, FALSE)
      BY <3>2, PackedRead
    <3>. QED
      BY <3>3, Zenon DEF vs, w, l
  <2>. QED
    BY <2>3, <2>5
<1>6. DeltaRead(r, a, db, rest)
  BY <1>4, <1>5 DEF DeltaRead
<1>7. v = CHOOSE g : g = [i \in 1 .. n |->
             IF i = 1 THEN a ELSE ToSigned(g[i-1] + StepRead(i, r.width, db, rest), W)]
  <2>. HIDE DEF width, n, a, db, rest
  <2>. QED
    BY <1>2, Zenon
<1>. HIDE DEF v, a, db, rest, n, width, at, to
<1>8. Yields(r, [i \in 1 .. n |-> v[i]])
  BY <1>2, <1>6, <1>7, DeltaYields
<1>. QED
  BY <1>1, <1>2, <1>8, Zenon DEF Outcome
\* The same of what follows the head of a patched run.
LEMMA PatchedStart ==
  ASSUME NEW r, Placed(r), r.kind = "patched", Fits(r, W, IsSigned), W \in CWidths,
         NEW b, b = PatchedBase(BaseBytes(r.base)), NEW n, n = Len(r.raws),
         NEW at, at = index + 4 + BaseBytes(r.base),
         NEW raws, raws = Fields(r.raws, FALSE),
         NEW to, to = at + RawsLength(r),
         NEW e, e = readLongs(to, Len(r.patches), Cfb(r), FALSE),
         NEW based, based = [i \in 1 .. n |-> ToSigned(b + raws[i], W)]
  PROVE  PatchedRun(r) /\ BasedOn(r, b, based) /\ AreRead(r, e)
<1>1. PatchedRun(r)
  BY PatchedFacts
<1>2. BasedOn(r, b, based)
  BY BaseRead DEF BasedOn
<1>3. /\ RawsLength(r) \in Nat /\ Part(data, to, Packed(PatchEntries(r), Cfb(r)))
  BY PatchedPlaces
<1>4. to \in Nat /\ Cfb(r) \in Nat \ {0}
  <2>1. index \in Nat
    BY DEF Placed
  <2>2. BaseBytes(r.base) \in 1 .. 8 /\ Cfb(r) \in 1 .. 64
    BY <1>1 DEF PatchedRun
  <2>. DEFINE k == BaseBytes(r.base)
              l == RawsLength(r)
              c == Cfb(r)
  <2>3. k \in 1 .. 8 /\ l \in Nat /\ c \in 1 .. 64 /\ to = index + 4 + k + l
    BY <1>3, <2>2
  <2>. HIDE DEF k, l, c
  <2>4. to \in Nat /\ c \in Nat \ {0}
    BY <2>1, <2>3
  <2>. QED
    BY <2>4 DEF c
<1>5. Holds(PatchEntries(r), Cfb(r)) /\ Len(PatchEntries(r)) = Len(r.patches)
  BY <1>1, EntriesHold
<1>6. readLongs(to, Len(r.patches), Cfb(r), FALSE) = Fields(PatchEntries(r), FALSE)
  <2>1. Packs(PatchEntries(r), Cfb(r), to, Len(r.patches))
    BY <1>3, <1>4, <1>5 DEF Packs
  <2>. QED
    BY <2>1, PackedRead
<1>7. AreRead(r, e)
  BY <1>1, <1>6, EntriesRead
<1>. QED
  BY <1>1, <1>2, <1>7

\* The raw numbers a decoder reads bit by bit.
LEMMA RawsRead ==
  ASSUME NEW r, Placed(r), r.kind = "patched", Fits(r, W, IsSigned), W \in CWidths,
         NEW at, at = index + 4 + BaseBytes(r.base), NEW n, n = Len(r.raws)
  PROVE  readLongs(at, n, r.width, FALSE) = Fields(r.raws, FALSE)
<1>1. PatchedRun(r)
  BY PatchedFacts
<1>2. Part(data, at, Packed(r.raws, r.width))
  BY PatchedPlaces
<1>3. at \in Nat /\ r.width \in Nat \ {0}
  <2>1. index \in Nat
    BY DEF Placed
  <2>2. BaseBytes(r.base) \in 1 .. 8 /\ r.width \in 1 .. 64
    BY <1>1 DEF PatchedRun
  <2>. DEFINE k == BaseBytes(r.base)
              c == r.width
  <2>3. k \in 1 .. 8 /\ c \in 1 .. 64 /\ at = index + 4 + k
    BY <2>2
  <2>. HIDE DEF k, c
  <2>4. at \in Nat /\ c \in Nat \ {0}
    BY <2>1, <2>3
  <2>. QED
    BY <2>4 DEF c
<1>4. Holds(r.raws, r.width)
  BY <1>1, RawsHold
<1>. QED
  <2>1. Packs(r.raws, r.width, at, n)
    BY <1>2, <1>3, <1>4 DEF Packs
  <2>. DEFINE vs == r.raws
              w == r.width
  <2>2. Packs(vs, w, at, n)
    BY <2>1
  <2>. HIDE DEF vs, w
  <2>3. readLongs(at, n, w, FALSE) = Fields(vs, FALSE)
    BY <2>2, PackedRead
  <2>. QED
    BY <2>3, Zenon DEF vs, w

\* The turn on a patched run (nextPatched).
LEMMA PatchedTurn ==
  ASSUME NEW r, Placed(r), r.kind = "patched", Fits(r, W, IsSigned), W \in CWidths, nextPatched
  PROVE  \E vs : Emit(vs, Len(RunValues(r))) /\ Outcome(r, vs)
<1>. DEFINE width == decodeBitWidth(WidthField)
            n == RunLength
            byteSize == Byte(2) \div 32 + 1
            pw == decodeBitWidth(Byte(2) % 32)
            pgw == Byte(3) \div 32 + 1
            pl == Byte(3) % 32
            cfb == getClosestFixedBits(pw + pgw)
            b == PatchedBase(byteSize)
            at == index + 4 + byteSize
            to == at + CeilDiv(n * width, 8)
            raws == readLongs(at, n, width, FALSE)
            e == readLongs(to, pl, cfb, FALSE)
            pos == CHOOSE f : f = [i \in 0 .. pl |-> IF i = 0 THEN 1 ELSE f[i-1] + PatchGap(e[i], pw)]
            outside == \E i \in 1 .. pl : (W # 64 /\ e[i] < 0) \/ pos[i] > n
            based == [i \in 1 .. n |-> ToSigned(b + raws[i], W)]
            g == CHOOSE f : f = [i \in 0 .. pl |->
                   IF i = 0 THEN based ELSE ApplyPatch(f[i-1], pos[i], b, e[i] % 2^pw, width)]
<1>1. /\ Emit(IF outside THEN based ELSE g[pl], n) /\ wild' = outside
  BY Zenon DEF nextPatched
<1>2. /\ width = r.width /\ n = Len(RunValues(r)) /\ n = Len(r.raws) /\ n \in Nat
      /\ byteSize = BaseBytes(r.base) /\ pw = r.pw /\ pgw = r.pgw /\ pl = Len(r.patches)
  BY PatchedHead, Zenon
<1>3. cfb = Cfb(r) /\ to = at + RawsLength(r) /\ at = index + 4 + BaseBytes(r.base)
  BY <1>2, Zenon DEF Cfb, RawsLength
<1>4. raws = Fields(r.raws, FALSE)
  <2>1. raws = readLongs(at, n, r.width, FALSE)
    BY <1>2, Zenon
  <2>. HIDE DEF at, n, raws
  <2>. QED
    BY <1>2, <1>3, <2>1, RawsRead
<1>5. /\ b = PatchedBase(BaseBytes(r.base))
      /\ e = readLongs(to, Len(r.patches), Cfb(r), FALSE)
      /\ based = [i \in 1 .. n |-> ToSigned(b + raws[i], W)]
  BY <1>2, <1>3, Zenon
<1>6. pos = CHOOSE f : f = [i \in 0 .. pl |-> IF i = 0 THEN 1 ELSE f[i-1] + PatchGap(e[i], r.pw)]
  BY <1>2, Zenon
<1>7. PatchesPut(g, r, pl, based, pos, b, e)
  <2>. HIDE DEF width, n, byteSize, pw, pgw, pl, cfb, b, at, to, raws, e, pos, based
  <2>. QED
    BY <1>2, Zenon DEF PatchesPut
<1>. HIDE DEF width, n, byteSize, pw, pgw, pl, cfb, b, at, to, raws, e, pos, based, g
<1>8. PatchedRun(r) /\ BasedOn(r, b, based) /\ AreRead(r, e)
  BY <1>2, <1>3, <1>4, <1>5, PatchedStart
<1>9. pl \in Nat /\ n \in Nat
  <2>1. Len(r.patches) \in 1 .. 31
    BY <1>8 DEF PatchedRun
  <2>2. \A k \in 1 .. 31 : k \in Nat
    OBVIOUS
  <2>. QED
    BY <1>2, <2>1, <2>2, Zenon
<1>. DEFINE u == [i \in 1 .. Len(r.patches) |-> IF W = 64 THEN ToUnsigned(e[i], W) ELSE e[i]]
<1>10. Widened(r, e, u)
  BY DEF Widened
<1>. HIDE DEF u
<1>11. Positions(pos, r, u)
  BY <1>2, <1>6, <1>9, <1>10, InterpreterPlaces
<1>12. Taken(r, u) /\ PatchBitsOf(r, u) = PatchBitsOf(r, e)
  BY <1>8, <1>10, WidenedTaken
<1>13. CASE outside
  <2>1. \E i \in 1 .. Len(r.patches) : u[i] < 0 \/ pos[i] > Len(r.raws)
    BY <1>2, <1>10, <1>13 DEF Widened
  <2>2. TooWide(r)
    BY <1>8, <1>11, <1>12, <2>1, OutsideWide
  <2>3. IsOn(based, Len(RunValues(r)))
    BY <1>2, <1>5 DEF IsOn
  <2>4. Emit(based, Len(RunValues(r))) /\ wild'
    BY <1>1, <1>2, <1>13
  <2>. QED
    BY <2>2, <2>3, <2>4, Zenon DEF Outcome
<1>14. CASE ~outside
  <2>1. \A i \in 1 .. Len(r.patches) : u[i] >= 0
    <3>1. ASSUME NEW i \in 1 .. Len(r.patches), W = 64 PROVE u[i] >= 0
      <4>1. u[i] = Entry(r, i)
        BY <1>12, <3>1 DEF Taken, Exact
      <4>. QED
        BY <1>8, <4>1, EntryParts DEF EntryHas
    <3>2. ASSUME NEW i \in 1 .. Len(r.patches), W # 64 PROVE u[i] >= 0
      <4>1. e[i] \in Int /\ ~(e[i] < 0)
        BY <1>2, <1>8, <1>14, <3>2 DEF AreRead, EntryReadAs
      <4>. QED
        BY <1>10, <3>2, <4>1 DEF Widened
    <3>. QED
      BY <3>1, <3>2
  <2>2. Applies(g, pl, based, pos, b, PatchBitsOf(r, u), r.width)
    BY <1>2, <1>7, <1>9, <1>12, PutApplied
  <2>3. Yields(r, g[pl])
    BY <1>2, <1>8, <1>9, <1>11, <1>12, <2>1, <2>2, PatchedYields
  <2>4. Emit(g[pl], Len(RunValues(r))) /\ ~wild'
    BY <1>1, <1>2, <1>14
  <2>. QED
    BY <2>3, <2>4, Zenon DEF Outcome
<1>. QED
  BY <1>13, <1>14

\* What a turn leaves of the run it takes.
LEMMA TurnYields ==
  ASSUME NEW r, Placed(r), Fits(r, W, IsSigned), W \in CWidths,
         nextShortRepeats \/ nextDirect \/ nextPatched \/ nextDelta
  PROVE  \E vs : Emit(vs, Len(RunValues(r))) /\ Outcome(r, vs)
<1>0. r.kind \in {"repeat", "direct", "delta", "patched"}
  BY DEF Placed, Legal
<1>1. /\ nextShortRepeats => Encoding = 0
      /\ nextDirect => Encoding = 1
      /\ nextPatched => Encoding = 2
      /\ nextDelta => Encoding = 3
  BY Zenon DEF nextShortRepeats, nextDirect, nextPatched, nextDelta, Running
<1>2. CASE r.kind = "repeat"
  <2>1. Encoding = 0
    BY <1>2, RepeatHead, Zenon
  <2>. QED
    BY <1>1, <1>2, <2>1, RepeatTurn
<1>3. CASE r.kind = "direct"
  <2>1. Encoding = 1
    BY <1>3, DirectHead, Zenon
  <2>. QED
    BY <1>1, <1>3, <2>1, DirectTurn
<1>4. CASE r.kind = "delta"
  <2>1. Encoding = 3
    BY <1>4, DeltaHead, Zenon
  <2>. QED
    BY <1>1, <1>4, <2>1, DeltaTurn
<1>5. CASE r.kind = "patched"
  <2>1. Encoding = 2
    BY <1>5, PatchedHead, Zenon
  <2>. QED
    BY <1>1, <1>5, <2>1, PatchedTurn
<1>. QED
  BY <1>0, <1>2, <1>3, <1>4, <1>5

-----------------------------------------------------------------------------
(***************************************************************************)
(* The batch.                                                              *)
(***************************************************************************)
\* Parts of a sequence.
LEMMA PartOfSeq ==
  ASSUME NEW s, IsSeq(s), NEW a \in Nat, NEW b \in Nat, a <= b, b <= Len(s)
  PROVE  SubSeq(s, a + 1, b) = [i \in 1 .. b - a |-> s[a + i]]
<1>1. s \in Seq(Range(s)) /\ Len(s) \in Nat
  BY DEF IsSeq
<1>2. a + 1 \in 1 .. Len(s) + 1 /\ b \in (a + 1) - 1 .. Len(s)
  BY <1>1
<1>. DEFINE t == SubSeq(s, a + 1, b)
<1>3. /\ t \in Seq(Range(s)) /\ Len(t) = b - (a + 1) + 1
      /\ \A i \in 1 .. b - (a + 1) + 1 : t[i] = s[(a + 1) + i - 1]
  BY <1>1, <1>2, SubSeqProperties
<1>. HIDE DEF t
<1>4. b - (a + 1) + 1 = b - a
  OBVIOUS
<1>5. \A i \in 1 .. b - a : t[i] = s[a + i]
  <2>1. \A i \in 1 .. b - a : (a + 1) + i - 1 = a + i
    OBVIOUS
  <2>. QED
    BY <1>3, <1>4, <2>1
<1>6. t = [i \in 1 .. b - a |-> t[i]]
  BY <1>3, <1>4
<1>. QED
  BY <1>5, <1>6 DEF t

\* What is in front stays.
LEMMA PartKeptInFront ==
  ASSUME NEW s, IsSeq(s), NEW t, IsSeq(t), NEW a \in Nat, NEW b \in Nat, a <= b, b <= Len(s)
  PROVE  SubSeq(s \o t, a + 1, b) = SubSeq(s, a + 1, b)
<1>1. /\ IsSeq(s \o t) /\ Len(s) \in Nat /\ Len(t) \in Nat /\ Len(s \o t) = Len(s) + Len(t)
      /\ \A i \in 1 .. Len(s) : (s \o t)[i] = s[i]
  BY CatAny
<1>2. b <= Len(s \o t)
  BY <1>1
<1>3. SubSeq(s \o t, a + 1, b) = [i \in 1 .. b - a |-> (s \o t)[a + i]]
  BY <1>1, <1>2, PartOfSeq
<1>4. SubSeq(s, a + 1, b) = [i \in 1 .. b - a |-> s[a + i]]
  BY PartOfSeq
<1>5. \A i \in 1 .. b - a : (s \o t)[a + i] = s[a + i]
  <2>1. \A i \in 1 .. b - a : a + i \in 1 .. Len(s)
    BY <1>1
  <2>. QED
    BY <1>1, <2>1
<1>. QED
  BY <1>3, <1>4, <1>5

\* What is appended comes behind.
Behindmost(s, t) == SubSeq(s \o t, Len(s) + 1, Len(s) + Len(t)) = t

LEMMA PartBehind ==
  ASSUME NEW s, IsSeq(s), NEW t, IsSeq(t)
  PROVE  Behindmost(s, t)
<1>. DEFINE a == Len(s)
            n == Len(t)
<1>1. /\ IsSeq(s \o t) /\ Len(s) \in Nat /\ Len(t) \in Nat /\ Len(s \o t) = Len(s) + Len(t)
      /\ \A i \in 1 .. Len(t) : (s \o t)[Len(s) + i] = t[i]
  BY CatAny
<1>2. a \in Nat /\ n \in Nat /\ a + n \in Nat /\ a <= a + n /\ a + n <= Len(s \o t) /\ (a + n) - a = n
  BY <1>1
<1>3. SubSeq(s \o t, a + 1, a + n) = [i \in 1 .. (a + n) - a |-> (s \o t)[a + i]]
  BY <1>1, <1>2, PartOfSeq
<1>4. \A i \in 1 .. n : (s \o t)[a + i] = t[i]
  BY <1>1
<1>5. t = [i \in 1 .. n |-> t[i]]
  BY <1>2 DEF IsSeq
<1>6. [i \in 1 .. n |-> (s \o t)[a + i]] = [i \in 1 .. n |-> t[i]]
  BY <1>4
<1>. QED
  BY <1>2, <1>3, <1>5, <1>6 DEF Behindmost

\* The batch is as long as there are numbers decoded.
BatchInv == IsSeq(result) /\ Len(result) = offset

\* The batch keeps what it has, with the new values behind.
EmitsAll(vs, n) ==
  /\ \A a, b \in Nat : a <= b /\ b <= offset => SubSeq(result', a + 1, b) = SubSeq(result, a + 1, b)
  /\ SubSeq(result', offset + 1, offset + n) = vs

\* So it does when a run is emitted.
LEMMA Emitted ==
  ASSUME BatchInv, NEW n \in Nat, NEW vs, IsOn(vs, n), Emit(vs, n)
  PROVE  BatchInv' /\ EmitsAll(vs, n)
<1>1. IsSeq(vs) /\ Len(vs) = n
  BY FunctionIsSeq DEF IsOn
<1>2. offset \in Nat /\ IsSeq(result) /\ Len(result) = offset
  BY DEF BatchInv, IsSeq
<1>3. SubSeq(result, 1, offset) = result
  <2>1. SubSeq(result, 0 + 1, offset) = [i \in 1 .. offset - 0 |-> result[0 + i]]
    BY <1>2, PartOfSeq
  <2>2. result = [i \in 1 .. offset |-> result[i]]
    BY <1>2 DEF IsSeq
  <2>3. offset - 0 = offset /\ 0 + 1 = 1 /\ \A i \in 1 .. offset : 0 + i = i
    BY <1>2
  <2>4. [i \in 1 .. offset |-> result[0 + i]] = [i \in 1 .. offset |-> result[i]]
    BY <2>3
  <2>. QED
    BY <2>1, <2>2, <2>3, <2>4
<1>4. result' = result \o vs /\ offset' = offset + n
  BY <1>3 DEF Emit
<1>5. BatchInv'
  <2>1. IsSeq(result \o vs) /\ Len(result \o vs) = Len(result) + Len(vs)
    BY <1>1, <1>2, CatAny
  <2>2. IsSeq(result')
    BY <1>4, <2>1
  <2>. QED
    BY <1>1, <1>2, <1>4, <2>1, <2>2 DEF BatchInv, IsSeq
<1>6. \A a, b \in Nat : a <= b /\ b <= offset => SubSeq(result', a + 1, b) = SubSeq(result, a + 1, b)
  BY <1>1, <1>2, <1>4, PartKeptInFront
<1>7. SubSeq(result', offset + 1, offset + n) = vs
  <2>1. offset = Len(result) /\ n = Len(vs)
    BY <1>1, <1>2
  <2>2. SubSeq(result \o vs, offset + 1, offset + n) = vs
    <3>1. Behindmost(result, vs)
      BY <1>1, <1>2, PartBehind, Zenon
    <3>. QED
      BY <2>1, <3>1, Zenon DEF Behindmost
  <2>. QED
    BY <1>4, <2>2
<1>. QED
  BY <1>5, <1>6, <1>7 DEF EmitsAll

\* The run in front of a decoder.
InFrontOf(m) ==
  /\ m \in 1 .. Len(stream) /\ m - 1 \in 0 .. Len(stream)
  /\ index = EndIndex(m-1) /\ offset = EndOffset(m-1)
  /\ EndIndex(m) = index + Len(Bytes(stream[m].run))
  /\ EndOffset(m) = offset + Len(RunValues(stream[m].run))
  /\ Placed(stream[m].run) /\ stream[m].values = RunValues(stream[m].run)

\* In front of the end of the stream lies a run.
LEMMA OneInFront ==
  ASSUME StreamInv, StaysInStep, index < Len(data)
  PROVE  \E m : InFrontOf(m)
<1>1. PICK k \in 0 .. Len(stream) : index = EndIndex(k) /\ offset = EndOffset(k)
  BY DEF StaysInStep
<1>2. k + 1 \in 1 .. Len(stream) /\ Placed(stream[k + 1].run)
  BY <1>1, RunAhead
<1>3. PICK m \in 1 .. Len(stream) : m = k + 1 /\ m - 1 = k
  BY <1>2
<1>4. /\ stream[m].bytes = Bytes(stream[m].run)
      /\ stream[m].values = RunValues(stream[m].run)
  <2>1. stream[m] = Written(stream[m].run)
    BY <1>3, StreamFacts DEF StreamInv
  <2>2. /\ Written(stream[m].run).bytes = RunBytes(stream[m].run, IsSigned)
        /\ Written(stream[m].run).values = RunValues(stream[m].run)
    BY DEF Written
  <2>. QED
    BY <2>1, <2>2, Zenon DEF Bytes
<1>5. /\ EndIndex(m) = EndIndex(m-1) + Len(stream[m].bytes)
      /\ EndOffset(m) = EndOffset(m-1) + Len(stream[m].values)
  BY <1>3, StreamFacts
<1>6. /\ EndIndex(m) = index + Len(Bytes(stream[m].run))
      /\ EndOffset(m) = offset + Len(RunValues(stream[m].run))
  BY <1>1, <1>3, <1>4, <1>5, Zenon
<1>7. Placed(stream[m].run) /\ m - 1 \in 0 .. Len(stream)
  BY <1>1, <1>2, <1>3, Zenon
<1>8. index = EndIndex(m-1) /\ offset = EndOffset(m-1)
  BY <1>1, <1>3, Zenon
<1>9. InFrontOf(m)
  BY <1>3, <1>4, <1>6, <1>7, <1>8, Zenon DEF InFrontOf
<1>. QED
  BY <1>9, Zenon

\* What the batch holds of a run.
SegmentRight(k) ==
  Segment(k) = [i \in DOMAIN stream[k].values |-> ToSigned(stream[k].values[i], W)]
    <=> ~TooWide(stream[k].run)

\* A run that the batch holds as before is right as before.
LEMMA SegmentStays ==
  ASSUME UNCHANGED <<type, stream>>, NEW k, Segment(k)' = Segment(k)
  PROVE  SegmentRight(k)' <=> SegmentRight(k)
<1>1. W' = W /\ IsSigned' = IsSigned
  BY DEF W, IsSigned
<1>2. TooWide(stream[k].run)' <=> TooWide(stream[k].run)
  BY <1>1, Zenon DEF TooWide
<1>. QED
  BY <1>1, <1>2, Zenon DEF SegmentRight

\* The batch keeps the runs it holds.
LEMMA SegmentKept ==
  ASSUME StreamInv, UNCHANGED <<type, stream>>, NEW vs, NEW n, EmitsAll(vs, n),
         NEW k \in 1 .. Len(stream), EndOffset(k) <= offset
  PROVE  Segment(k)' = Segment(k)
<1>1. k \in 0 .. Len(stream) /\ k - 1 \in 0 .. Len(stream) /\ k - 1 <= k
  BY StreamFacts
<1>. DEFINE a == EndOffset(k-1)
            b == EndOffset(k)
<1>2. a \in Nat /\ b \in Nat
  BY <1>1, StreamFacts
<1>3. a <= b
  BY <1>1, OffsetsGrow
<1>4. EndOffset(k)' = b /\ EndOffset(k-1)' = a
  BY Zenon DEF EndOffset
<1>5. b <= offset
  OBVIOUS
<1>. HIDE DEF a, b
<1>6. SubSeq(result', a + 1, b) = SubSeq(result, a + 1, b)
  BY <1>2, <1>3, <1>5, Zenon DEF EmitsAll
<1>7. Segment(k)' = SubSeq(result', a + 1, b)
  BY <1>4, Zenon DEF Segment
<1>8. Segment(k) = SubSeq(result, a + 1, b)
  BY Zenon DEF Segment, a, b
<1>. QED
  BY <1>6, <1>7, <1>8

\* It gets the new one.
LEMMA SegmentNew ==
  ASSUME UNCHANGED stream, NEW m, InFrontOf(m), NEW vs,
         EmitsAll(vs, Len(RunValues(stream[m].run)))
  PROVE  Segment(m)' = vs
<1>1. EndOffset(m)' = EndOffset(m) /\ EndOffset(m-1)' = EndOffset(m-1)
  BY Zenon DEF EndOffset
<1>2. /\ EndOffset(m-1) = offset
      /\ EndOffset(m) = offset + Len(RunValues(stream[m].run))
  BY DEF InFrontOf
<1>3. SubSeq(result', offset + 1, offset + Len(RunValues(stream[m].run))) = vs
  BY Zenon DEF EmitsAll
<1>. QED
  BY <1>1, <1>2, <1>3, Zenon DEF Segment

\* A run that yields its numbers is right in the batch.
LEMMA SegmentYields ==
  ASSUME UNCHANGED <<type, stream>>, NEW m, InFrontOf(m), NEW vs,
         EmitsAll(vs, Len(RunValues(stream[m].run))), Yields(stream[m].run, vs)
  PROVE  SegmentRight(m)'
<1>1. Segment(m)' = vs
  BY SegmentNew
<1>2. W' = W /\ IsSigned' = IsSigned
  BY DEF W, IsSigned
<1>3. TooWide(stream[m].run)' <=> TooWide(stream[m].run)
  BY <1>2, Zenon DEF TooWide
<1>4. stream[m].values = RunValues(stream[m].run)
  BY DEF InFrontOf
<1>5. vs = [i \in DOMAIN stream[m].values |-> ToSigned(stream[m].values[i], W)]
        <=> ~TooWide(stream[m].run)
  BY <1>4, Zenon DEF Yields, Right
<1>. QED
  BY <1>1, <1>2, <1>3, <1>5, Zenon DEF SegmentRight

-----------------------------------------------------------------------------
\* The streams are those of numbers of the decoded type, and the batch is as long
\* as it should be.
FitInv == W \in CWidths /\ \A k \in DOMAIN stream : Fits(stream[k].run, W, IsSigned)

\* The types decoded are those of C++.
LEMMA TypesFit == type \in Instances => W \in CWidths
  BY Rle2Assumption DEF W, CWidths

\* The runs fit as long as the stream stays.
LEMMA FitsStay ==
  ASSUME FitInv, UNCHANGED <<type, stream>>
  PROVE  FitInv'
<1>1. W' = W /\ IsSigned' = IsSigned
  BY DEF W, IsSigned
<1>. QED
  BY <1>1, Zenon DEF FitInv

\* They do on another stream.
LEMMA FitsOpened ==
  ASSUME W \in CWidths, UNCHANGED type, NEW runs,
         \A k \in DOMAIN runs : Fits(runs[k], W, IsSigned),
         stream' = [k \in DOMAIN runs |-> Written(runs[k])]
  PROVE  FitInv'
<1>1. W' = W /\ IsSigned' = IsSigned
  BY DEF W, IsSigned
<1>2. DOMAIN stream' = DOMAIN runs
  OBVIOUS
<1>3. \A k \in DOMAIN stream' : stream'[k].run = runs[k]
  BY DEF Written
<1>4. \A k \in DOMAIN stream' : Fits(stream'[k].run, W', IsSigned')
  BY <1>1, <1>2, <1>3, Zenon
<1>. QED
  BY <1>1, <1>4, Zenon DEF FitInv

\* An empty batch.
LEMMA BlankBatch ==
  ASSUME result = <<>>, offset = 0
  PROVE  BatchInv
<1>1. <<>> \in Seq(Range(<<>>)) /\ Len(<<>>) = 0
  OBVIOUS
<1>. QED
  BY <1>1 DEF BatchInv, IsSeq

\* All of a stream just opened is as it should be.
ValuesInv == FitInv /\ BatchInv /\ InterpreterDecodes

\* Nothing is wrong in front of the first run.
LEMMA NothingDecoded ==
  ASSUME StreamInv, index = 0, wild = FALSE
  PROVE  DecodesWritten
<1>1. Decoded = 1 .. 0
  <2>1. 0 \in 0 .. Len(stream) /\ EndIndex(0) = 0
    BY StreamFacts
  <2>. QED
    BY <2>1, DecodedNow
<1>2. Decoded = {}
  BY <1>1
<1>. QED
  BY <1>2, Zenon DEF DecodesWritten

\* All is right on a stream just opened.
LEMMA ValuesOpened ==
  ASSUME W \in CWidths, UNCHANGED type, NEW runs, Open(runs), StreamInv',
         \A k \in DOMAIN runs : Fits(runs[k], W, IsSigned)
  PROVE  ValuesInv'
<1>1. /\ stream' = [k \in DOMAIN runs |-> Written(runs[k])]
      /\ index' = 0 /\ offset' = 0 /\ result' = <<>> /\ wild' = FALSE
  BY Zenon DEF Open
<1>2. FitInv'
  BY <1>1, FitsOpened
<1>3. BatchInv'
  <2>1. (result = <<>> /\ offset = 0 => BatchInv)'
    BY BlankBatch, PTL
  <2>. QED
    BY <1>1, <2>1
<1>4. DecodesWritten'
  <2>1. (StreamInv /\ index = 0 /\ wild = FALSE => DecodesWritten)'
    BY NothingDecoded, PTL
  <2>. QED
    BY <1>1, <2>1
<1>. QED
  BY <1>2, <1>3, <1>4 DEF ValuesInv, InterpreterDecodes

\* DecodesWritten of a decoder that has not written outside of a run.
LEMMA DecodesMeans ==
  \A k : Decoded = 1 .. k =>
    (DecodesWritten <=> IF wild THEN \E j \in 1 .. k : TooWide(stream[j].run)
                        ELSE \A j \in 1 .. k : SegmentRight(j))
  BY Zenon DEF DecodesWritten, SegmentRight

\* It stays right in a turn of the interpreter (Interpret).
LEMMA ValuesOfTurn ==
  ASSUME GenInv, ValuesInv, Interpret
  PROVE  ValuesInv'
<1>1. /\ UNCHANGED <<type, stream, data>> /\ UNCHANGED genVars /\ index < Len(data) /\ ~wild
      /\ phase = "scan"
      /\ nextShortRepeats \/ nextDirect \/ nextPatched \/ nextDelta
  BY Zenon DEF Interpret, nextShortRepeats, nextDirect, nextPatched, nextDelta, Running
<1>2. StreamInv /\ StaysInStep /\ DecodesWritten /\ FitInv /\ BatchInv
  BY <1>1 DEF GenInv, InterpreterInStep, ValuesInv, InterpreterDecodes, Interpreted
<1>3. PICK m : InFrontOf(m)
  BY <1>1, <1>2, OneInFront
<1>. DEFINE r == stream[m].run
<1>4. Placed(r) /\ Fits(r, W, IsSigned) /\ W \in CWidths
  <2>1. m \in DOMAIN stream
    BY <1>2, <1>3, StreamFacts DEF InFrontOf
  <2>. QED
    BY <1>2, <1>3, <2>1, Zenon DEF FitInv, InFrontOf
<1>5. PICK vs : Emit(vs, Len(RunValues(r))) /\ Outcome(r, vs)
  BY <1>1, <1>4, TurnYields, Zenon
<1>6. Passes(r)
  BY <1>1, <1>4, TurnPasses, Zenon
<1>7. Len(RunValues(r)) \in Nat /\ IsOn(vs, Len(RunValues(r)))
  <2>1. Legal(r, IsSigned)
    BY <1>4 DEF Placed
  <2>2. Len(RunValues(r)) \in Nat
    BY <2>1, RunFacts
  <2>3. IsOn(vs, Len(RunValues(r)))
    BY <1>5, Zenon DEF Outcome, Yields, IsOn
  <2>. QED
    BY <2>2, <2>3
<1>8. BatchInv' /\ EmitsAll(vs, Len(RunValues(r)))
  BY <1>2, <1>5, <1>7, Emitted
<1>9. FitInv'
  BY <1>1, <1>2, FitsStay
<1>10. m \in 1 .. Len(stream) /\ m - 1 \in 0 .. Len(stream) /\ m \in 0 .. Len(stream)
       /\ index = EndIndex(m-1) /\ offset = EndOffset(m-1) /\ index' = EndIndex(m)
  BY <1>2, <1>3, <1>6, StreamFacts DEF InFrontOf, Passes
<1>11. Decoded = 1 .. m - 1
  BY <1>2, <1>10, DecodedNow
<1>12. Decoded' = 1 .. m
  <2>1. (StreamInv => \A k \in 0 .. Len(stream) : index = EndIndex(k) => Decoded = 1 .. k)'
    BY DecodedNow, PTL
  <2>2. StreamInv'
    BY <1>1, <1>2, StreamStays
  <2>3. EndIndex(m)' = EndIndex(m) /\ Len(stream') = Len(stream)
    BY <1>1, Zenon DEF EndIndex
  <2>. QED
    BY <1>10, <2>1, <2>2, <2>3, Zenon
<1>13. DecodesWritten' <=> IF wild' THEN \E j \in 1 .. m : TooWide(stream[j].run)'
                           ELSE \A j \in 1 .. m : SegmentRight(j)'
  <2>1. (\A k : Decoded = 1 .. k => (DecodesWritten <=>
            IF wild THEN \E j \in 1 .. k : TooWide(stream[j].run)
            ELSE \A j \in 1 .. k : SegmentRight(j)))'
    BY DecodesMeans, PTL
  <2>. QED
    BY <1>12, <2>1, Zenon
<1>14. \A j \in 1 .. m - 1 : SegmentRight(j)
  BY <1>1, <1>2, <1>11, DecodesMeans, Zenon
<1>15. \A j \in 1 .. m - 1 : SegmentRight(j)'
  <2>. SUFFICES ASSUME NEW j \in 1 .. m - 1 PROVE SegmentRight(j)'
    OBVIOUS
  <2>1. j \in 1 .. Len(stream) /\ j \in 0 .. Len(stream) /\ j <= m - 1
    BY <1>2, <1>10, StreamFacts
  <2>2. EndOffset(j) <= offset
    BY <1>2, <1>10, <2>1, OffsetsGrow
  <2>3. Segment(j)' = Segment(j)
    BY <1>1, <1>2, <1>8, <2>1, <2>2, SegmentKept
  <2>4. SegmentRight(j)
    BY <1>14
  <2>. QED
    BY <1>1, <2>3, <2>4, SegmentStays
<1>16. CASE wild'
  <2>1. TooWide(r)
    BY <1>5, <1>16, Zenon DEF Outcome
  <2>2. W' = W
    BY <1>1 DEF W
  <2>3. TooWide(r)' <=> TooWide(r)
    BY <1>1, <2>2, Zenon DEF TooWide
  <2>4. m \in 1 .. m
    BY <1>10, StreamFacts, <1>2
  <2>5. DecodesWritten'
    BY <1>13, <1>16, <2>1, <2>3, <2>4, Zenon
  <2>. QED
    BY <1>8, <1>9, <2>5 DEF ValuesInv, InterpreterDecodes
<1>17. CASE ~wild'
  <2>1. Yields(r, vs)
    BY <1>5, <1>17, Zenon DEF Outcome
  <2>2. SegmentRight(m)'
    BY <1>1, <1>3, <1>8, <2>1, SegmentYields
  <2>3. \A j \in 1 .. m : j = m \/ j \in 1 .. m - 1
    BY <1>10, <1>2, StreamFacts
  <2>4. DecodesWritten'
    BY <1>13, <1>15, <1>17, <2>2, <2>3, Zenon
  <2>. QED
    BY <1>8, <1>9, <2>4 DEF ValuesInv, InterpreterDecodes
<1>. QED
  BY <1>16, <1>17

\* So it does with another scanner (AnotherScanner).
LEMMA ValuesOfScanner ==
  ASSUME StreamsFit, GenInv, ValuesInv, AnotherScanner
  PROVE  ValuesInv'
<1>1. PICK runs \in More(W, IsSigned) : Open(runs) /\ UNCHANGED type
  BY Zenon DEF AnotherScanner
<1>2. type \in Instances /\ W \in CWidths
  BY TypesFit DEF GenInv, StreamInv
<1>3. \A k \in DOMAIN runs : Fits(runs[k], W, IsSigned)
  BY <1>1, <1>2, Zenon DEF StreamsFit, W, IsSigned
<1>4. StreamInv'
  BY StepOfScanner DEF GenInv
<1>. QED
  BY <1>1, <1>2, <1>3, <1>4, ValuesOpened

\* So it does with the decoder just made (Generate).
LEMMA ValuesOfGenerate ==
  ASSUME StreamsFit, GenInv, ValuesInv, Generate
  PROVE  ValuesInv'
<1>1. PICK runs \in {[k \in DOMAIN stream |-> stream[k].run]} \cup Later(W, IsSigned) :
        Open(runs) /\ UNCHANGED type
  BY Zenon DEF Generate
<1>2. type \in Instances /\ W \in CWidths
  BY TypesFit DEF GenInv, StreamInv
<1>3. \A k \in DOMAIN runs : Fits(runs[k], W, IsSigned)
  <2>1. CASE runs \in Later(W, IsSigned)
    BY <2>1, <1>2, Zenon DEF StreamsFit, W, IsSigned
  <2>2. CASE runs = [k \in DOMAIN stream |-> stream[k].run]
    <3>1. DOMAIN runs = DOMAIN stream /\ \A k \in DOMAIN stream : runs[k] = stream[k].run
      BY <2>2
    <3>. QED
      BY <3>1, Zenon DEF ValuesInv, FitInv
  <2>. QED
    BY <1>1, <2>1, <2>2
<1>4. StreamInv'
  BY StepOfGenerate DEF GenInv
<1>. QED
  BY <1>1, <1>2, <1>3, <1>4, ValuesOpened

\* The batch stays when nothing is emitted.
LEMMA BatchStays ==
  ASSUME BatchInv, UNCHANGED <<offset, result>>
  PROVE  BatchInv'
  BY DEF BatchInv, IsSeq

\* Nothing is decoded.
LEMMA ValuesStay ==
  ASSUME ValuesInv, UNCHANGED vars, Interpreted' => Interpreted
  PROVE  ValuesInv'
<1>1. UNCHANGED <<type, stream, data, index, offset, result, wild>>
  BY DEF vars
<1>2. FitInv'
  BY <1>1, FitsStay DEF ValuesInv
<1>3. BatchInv'
  BY <1>1, BatchStays DEF ValuesInv
<1>4. W' = W
  BY <1>1 DEF W
<1>5. DecodesWritten' <=> DecodesWritten
  <2>1. \A k : EndIndex(k)' = EndIndex(k) /\ EndOffset(k)' = EndOffset(k)
    BY <1>1, Zenon DEF EndIndex, EndOffset
  <2>2. Decoded' = Decoded
    BY <1>1, <2>1, Zenon DEF Decoded
  <2>3. \A k : Segment(k)' = Segment(k)
    BY <1>1, <2>1, Zenon DEF Segment
  <2>4. \A r : TooWide(r)' <=> TooWide(r)
    BY <1>4, Zenon DEF TooWide
  <2>. QED
    BY <1>1, <1>4, <2>2, <2>3, <2>4, Zenon DEF DecodesWritten
<1>. QED
  BY <1>2, <1>3, <1>5 DEF ValuesInv, InterpreterDecodes

-----------------------------------------------------------------------------
(***************************************************************************)
(* The calls of a generated decoder.                                       *)
(***************************************************************************)
\* The last eight bits of a number.
Octet(y) ==
  128 * OneBit(y, 8) + 64 * OneBit(y, 7) + 32 * OneBit(y, 6) + 16 * OneBit(y, 5)
    + 8 * OneBit(y, 4) + 4 * OneBit(y, 3) + 2 * OneBit(y, 2) + OneBit(y, 1)

\* A byte is made of its bits.
LEMMA ByteOfBits ==
  ASSUME NEW y \in Nat
  PROVE  y % 256 = Octet(y)
<1>. DEFINE part(k) == y % 2^k
<1>1. \A k \in 1 .. 8 : part(k) = part(k-1) + 2^(k-1) * OneBit(y, k) /\ OneBit(y, k) \in {0, 1}
  <2>. SUFFICES ASSUME NEW k \in 1 .. 8
                PROVE  part(k) = part(k-1) + 2^(k-1) * OneBit(y, k) /\ OneBit(y, k) \in {0, 1}
    OBVIOUS
  <2>1. k \in Nat \ {0}
    OBVIOUS
  <2>. QED
    BY <2>1, BitStep
<1>2. /\ 2^0 = 1 /\ 2^1 = 2 /\ 2^2 = 4 /\ 2^3 = 8 /\ 2^4 = 16 /\ 2^5 = 32 /\ 2^6 = 64 /\ 2^7 = 128
      /\ 2^8 = 256
  OBVIOUS
<1>3. part(0) = 0 /\ part(8) = y % 256
  BY <1>2
<1>. HIDE DEF part
<1>4. /\ part(1) = part(0) + 2^0 * OneBit(y, 1) /\ OneBit(y, 1) \in {0, 1}
      /\ part(2) = part(1) + 2^1 * OneBit(y, 2) /\ OneBit(y, 2) \in {0, 1}
      /\ part(3) = part(2) + 2^2 * OneBit(y, 3) /\ OneBit(y, 3) \in {0, 1}
      /\ part(4) = part(3) + 2^3 * OneBit(y, 4) /\ OneBit(y, 4) \in {0, 1}
      /\ part(5) = part(4) + 2^4 * OneBit(y, 5) /\ OneBit(y, 5) \in {0, 1}
      /\ part(6) = part(5) + 2^5 * OneBit(y, 6) /\ OneBit(y, 6) \in {0, 1}
      /\ part(7) = part(6) + 2^6 * OneBit(y, 7) /\ OneBit(y, 7) \in {0, 1}
      /\ part(8) = part(7) + 2^7 * OneBit(y, 8) /\ OneBit(y, 8) \in {0, 1}
  BY <1>1
<1>. QED
  BY <1>2, <1>3, <1>4 DEF Octet

\* The place of a bit in a field of whole bytes.
BitPlaced(b, i, c, k, q) ==
  c \in Nat \ {0} /\ i \in Nat /\ k \in 1 .. c /\ q \in 0 .. 7 /\ b = 8 * (i * c + k - 1) + q

\* Where a bit of a whole byte lies.
LEMMA BitPlace ==
  ASSUME NEW c, NEW i, NEW k, NEW q, NEW b, BitPlaced(b, i, c, k, q)
  PROVE  /\ b \in Nat /\ b \div (8 * c) = i /\ b % (8 * c) = 8 * (k - 1) + q
         /\ 8 * c - 1 - (b % (8 * c)) = 8 * (c - k) + (7 - q)
<1>. DEFINE p == i * c
<1>0. c \in Nat \ {0} /\ i \in Nat /\ k \in 1 .. c /\ q \in 0 .. 7 /\ b = 8 * (i * c + k - 1) + q
  BY DEF BitPlaced
<1>1. p \in Nat
  BY <1>0, Product
<1>2. (8 * c) * i = 8 * p
  BY <1>0
<1>3. b = 8 * p + 8 * (k - 1) + q
  BY <1>0, <1>1
<1>. HIDE DEF p
<1>. DEFINE m == 8 * c
            low == 8 * (k - 1) + q
<1>4. b \in Int /\ low \in Nat /\ low < m /\ m \in Nat \ {0} /\ b \in Nat /\ i \in Int
  BY <1>0, <1>1, <1>3
<1>5. b = m * i + low
  BY <1>0, <1>1, <1>2, <1>3
<1>. HIDE DEF m, low
<1>6. b \div m = i /\ b % m = low
  BY <1>4, <1>5, Quotient
<1>7. 8 * c - 1 - low = 8 * (c - k) + (7 - q)
  BY <1>0 DEF low
<1>. QED
  BY <1>4, <1>6, <1>7 DEF m, low

\* A field of whole bytes is packed as its digits.
LEMMA BitOfDigit ==
  ASSUME NEW vs \in Seq(Nat), NEW c \in Nat \ {0}, NEW i \in 0 .. Len(vs) - 1, NEW k \in 1 .. c,
         NEW q, NEW b, BitPlaced(b, i, c, k, q),
         NEW y, y = vs[i + 1] \div 2^(8 * (c - k))
  PROVE  /\ b \in Nat /\ b < Len(vs) * (8 * c)
         /\ BitOf(vs, 8 * c, b) = OneBit(y, 8 - q)
<1>0. q \in 0 .. 7 /\ b = 8 * (i * c + k - 1) + q
  BY DEF BitPlaced
<1>1. i \in Nat /\ Len(vs) \in Nat /\ i + 1 \in 1 .. Len(vs) /\ vs[i + 1] \in Nat
  OBVIOUS
<1>2. /\ b \in Nat /\ b \div (8 * c) = i
      /\ 8 * c - 1 - (b % (8 * c)) = 8 * (c - k) + (7 - q)
  BY BitPlace
<1>3. BitOf(vs, 8 * c, b) = (vs[i + 1] \div 2^(8 * (c - k) + (7 - q))) % 2
  BY <1>2 DEF BitOf
<1>4. 2^(8 * (c - k) + (7 - q)) = 2^(8 * (c - k)) * 2^(7 - q)
  <2>1. 8 * (c - k) \in Nat /\ 7 - q \in Nat
    BY <1>0
  <2>. QED
    BY <2>1, PowerSum
<1>5. vs[i + 1] \div (2^(8 * (c - k)) * 2^(7 - q)) = y \div 2^(7 - q)
  <2>1. 8 * (c - k) \in Nat /\ 7 - q \in Nat
    BY <1>0
  <2>2. 2^(8 * (c - k)) \in Nat \ {0} /\ 2^(7 - q) \in Nat \ {0}
    BY <2>1, PowerType
  <2>3. vs[i + 1] \in Int
    BY <1>1
  <2>. QED
    BY <2>2, <2>3, QuotientTwice
<1>6. OneBit(y, 8 - q) = (y \div 2^(7 - q)) % 2
  <2>1. (8 - q) - 1 = 7 - q
    BY <1>0
  <2>. QED
    BY <2>1, Zenon DEF OneBit
<1>7. b < Len(vs) * (8 * c)
  <2>. DEFINE p == i * c
              l == Len(vs) * c
  <2>1. p \in Nat /\ l \in Nat
    BY <1>1, Product
  <2>2. (i + 1) * c = p + c
    BY <1>1
  <2>3. (i + 1) * c <= l
    <3>. DEFINE d == Len(vs) - (i + 1)
    <3>1. d \in Nat /\ Len(vs) = (i + 1) + d
      BY <1>1
    <3>. HIDE DEF d
    <3>2. d * c \in Nat
      BY <3>1, Product
    <3>3. l = (i + 1) * c + d * c
      BY <1>1, <3>1
    <3>4. (i + 1) * c \in Int
      BY <1>1, Product
    <3>. HIDE DEF l
    <3>. QED
      BY <3>2, <3>3, <3>4
  <2>4. Len(vs) * (8 * c) = 8 * l
    BY <1>1
  <2>5. b = 8 * p + 8 * (k - 1) + q
    BY <1>0, <2>1
  <2>. HIDE DEF p, l
  <2>. QED
    BY <1>0, <2>1, <2>2, <2>3, <2>4, <2>5
<1>. QED
  BY <1>2, <1>3, <1>4, <1>5, <1>6, <1>7

\* Byte k of field i is its digit k.
DigitPlaced(vs, c, i, k) ==
  /\ i * c + k \in 1 .. CeilDiv(Len(vs) * (8 * c), 8)
  /\ Packed(vs, 8 * c)[i * c + k] = Digit(vs[i + 1], 8, c, k)

\* A byte of fields of whole bytes is a digit of one of them.
LEMMA ByteIsDigit ==
  ASSUME NEW vs \in Seq(Nat), NEW c \in Nat \ {0}, NEW i \in 0 .. Len(vs) - 1, NEW k \in 1 .. c
  PROVE  DigitPlaced(vs, c, i, k)
<1>. DEFINE y == vs[i + 1] \div 2^(8 * (c - k))
            j == i * c + k
            n == CeilDiv(Len(vs) * (8 * c), 8)
            w == 8 * c
            total == Len(vs) * w
            at(q) == 8 * (j - 1) + q
<1>1. i \in Nat /\ Len(vs) \in Nat /\ i + 1 \in 1 .. Len(vs) /\ vs[i + 1] \in Nat
  OBVIOUS
<1>2. y \in Nat
  <2>1. 8 * (c - k) \in Nat
    OBVIOUS
  <2>2. 2^(8 * (c - k)) \in Nat \ {0}
    BY <2>1, PowerType
  <2>. HIDE DEF y
  <2>3. \A m \in Nat \ {0} : vs[i + 1] \div m \in Nat
    BY <1>1
  <2>. QED
    BY <2>2, <2>3 DEF y
<1>3. Digit(vs[i + 1], 8, c, k) = y % 256
  BY DEF Digit, Leading
<1>4. \A q \in 0 .. 7 : at(q) \in Nat /\ at(q) < total /\ BitOf(vs, w, at(q)) = OneBit(y, 8 - q)
  <2>. SUFFICES ASSUME NEW q \in 0 .. 7
                PROVE  at(q) \in Nat /\ at(q) < total /\ BitOf(vs, w, at(q)) = OneBit(y, 8 - q)
    OBVIOUS
  <2>. DEFINE b == at(q)
  <2>1. BitPlaced(b, i, c, k, q)
    BY <1>1 DEF BitPlaced
  <2>. HIDE DEF b
  <2>2. /\ b \in Nat /\ b < Len(vs) * (8 * c)
        /\ BitOf(vs, 8 * c, b) = OneBit(y, 8 - q)
    BY <2>1, BitOfDigit
  <2>. QED
    BY <2>2 DEF b
<1>5. j \in Nat /\ j >= 1 /\ j \in 1 .. n
  <2>1. i * c \in Nat
    BY <1>1, Product
  <2>2. at(7) < total /\ total \in Nat
    BY <1>1, <1>4, Product
  <2>3. 8 * j <= total
    BY <2>1, <2>2
  <2>4. n = (total + 7) \div 8
    BY <2>2 DEF CeilDiv
  <2>5. j \in Nat /\ j >= 1
    BY <2>1
  <2>. HIDE DEF j, n, total
  <2>6. j <= n /\ n \in Int
    BY <2>2, <2>3, <2>4, <2>5
  <2>. QED
    BY <2>5, <2>6
<1>. DEFINE bit(b) == IF b < Len(vs) * w THEN (vs[b \div w + 1] \div 2^(w - 1 - (b % w))) % 2 ELSE 0
<1>6. \A q \in 0 .. 7 : bit(at(q)) = OneBit(y, 8 - q)
  BY <1>4, Zenon DEF BitOf
<1>7. Packed(vs, w)[j] =
        128 * bit(8*(j-1)) + 64 * bit(8*(j-1) + 1) + 32 * bit(8*(j-1) + 2) + 16 * bit(8*(j-1) + 3)
          + 8 * bit(8*(j-1) + 4) + 4 * bit(8*(j-1) + 5) + 2 * bit(8*(j-1) + 6) + bit(8*(j-1) + 7)
  <2>. HIDE DEF j
  <2>. QED
    BY <1>5, Zenon DEF Packed
<1>. HIDE DEF bit
<1>8. /\ bit(8*(j-1)) = OneBit(y, 8) /\ bit(8*(j-1) + 1) = OneBit(y, 7)
      /\ bit(8*(j-1) + 2) = OneBit(y, 6) /\ bit(8*(j-1) + 3) = OneBit(y, 5)
      /\ bit(8*(j-1) + 4) = OneBit(y, 4) /\ bit(8*(j-1) + 5) = OneBit(y, 3)
      /\ bit(8*(j-1) + 6) = OneBit(y, 2) /\ bit(8*(j-1) + 7) = OneBit(y, 1)
  <2>1. 8*(j-1) + 0 = 8*(j-1)
    BY <1>5
  <2>2. 8 - 0 = 8 /\ 8 - 1 = 7 /\ 8 - 2 = 6 /\ 8 - 3 = 5 /\ 8 - 4 = 4 /\ 8 - 5 = 3 /\ 8 - 6 = 2 /\ 8 - 7 = 1
    OBVIOUS
  <2>3. 0 \in 0 .. 7 /\ 1 \in 0 .. 7 /\ 2 \in 0 .. 7 /\ 3 \in 0 .. 7 /\ 4 \in 0 .. 7 /\ 5 \in 0 .. 7
        /\ 6 \in 0 .. 7 /\ 7 \in 0 .. 7
    OBVIOUS
  <2>. HIDE DEF j, y
  <2>4. \A q \in 0 .. 7 : bit(8*(j-1) + q) = OneBit(y, 8 - q)
    BY <1>6
  <2>. HIDE DEF at
  <2>. QED
    BY <2>1, <2>2, <2>3, <2>4
<1>9. Packed(vs, w)[j] = y % 256
  <2>1. Packed(vs, w)[j] = Octet(y)
    BY <1>7, <1>8, Zenon DEF Octet
  <2>2. y % 256 = Octet(y)
    BY <1>2, ByteOfBits
  <2>. QED
    BY <2>1, <2>2
<1>. QED
  BY <1>3, <1>5, <1>9 DEF DigitPlaced

\* Fields of whole bytes are read byte by byte.
LEMMA FoldedRead ==
  ASSUME W \in CWidths, NEW vs, NEW c \in Nat \ {0}, NEW width, width = 8 * c, NEW at, NEW n,
         Packs(vs, width, at, n), NEW i \in 1 .. n
  PROVE  readLongBE(at + (i-1) * c, c) = vs[i] % 2^W
<1>1. /\ at \in Nat /\ n = Len(vs) /\ vs \in Seq(Nat) /\ n \in Nat /\ width \in Nat
      /\ \A j \in 1 .. Len(vs) : vs[j] < 2^width
      /\ Part(data, at, Packed(vs, width))
  BY DEF Packs, Holds
<1>. DEFINE x == vs[i]
            from == at + (i-1) * c
<1>2. x \in Nat /\ x < 2^(8 * c)
  BY <1>1
<1>3. i - 1 \in 0 .. Len(vs) - 1 /\ (i - 1) + 1 = i /\ (i-1) * c \in Nat
  <2>1. i - 1 \in Nat
    OBVIOUS
  <2>. QED
    BY <1>1, <2>1, Product
<1>4. Len(Packed(vs, width)) = CeilDiv(Len(vs) * width, 8)
  <2>1. Len(vs) * width \in Nat
    BY <1>1, Product
  <2>2. CeilDiv(Len(vs) * width, 8) \in Nat
    BY <2>1, CeilType
  <2>. QED
    BY <2>2, PackedBytes
<1>5. \A k \in 1 .. c : data[from + k] = Digit(x, 8, c, k)
  <2>. SUFFICES ASSUME NEW k \in 1 .. c PROVE data[from + k] = Digit(x, 8, c, k)
    OBVIOUS
  <2>. DEFINE j == (i-1) * c + k
              p == i - 1
  <2>1. p \in 0 .. Len(vs) - 1 /\ p + 1 = i
    BY <1>3
  <2>. HIDE DEF p
  <2>2. /\ p * c + k \in 1 .. CeilDiv(Len(vs) * (8 * c), 8)
        /\ Packed(vs, 8 * c)[p * c + k] = Digit(vs[p + 1], 8, c, k)
    <3>1. DigitPlaced(vs, c, p, k)
      BY <1>1, <2>1, ByteIsDigit, Zenon
    <3>. QED
      BY <3>1, Zenon DEF DigitPlaced
  <2>3. j \in 1 .. Len(Packed(vs, width)) /\ Packed(vs, width)[j] = Digit(x, 8, c, k)
    BY <1>4, <2>1, <2>2 DEF p
  <2>4. from + k = at + j
    BY <1>1, <1>3
  <2>. HIDE DEF j, x, from
  <2>5. data[at + j] = Packed(vs, width)[j]
    BY <1>1, <2>3 DEF Part
  <2>. QED
    BY <2>3, <2>4, <2>5
<1>. HIDE DEF x, from
<1>6. W \in Nat /\ c \in Nat
  BY Halves
<1>7. readLongBE(from, c) = x % 2^W
  BY <1>2, <1>5, <1>6, LongRead
<1>. QED
  BY <1>7 DEF from, x

\* The numbers a generated decoder reads, unless it takes too few bytes.
TakesWhole(kind, vs, width, at, n) ==
  /\ width \in 1 .. 64 /\ FixedFor(kind, width) /\ Packs(vs, width, at, n)
  /\ ~Short(kind, n, width)

\* The fields are read back.
ReadWhole(kind, vs, width, at, n, signed) ==
  genfunc_readLongs(kind, at, n, width, signed) = Fields(vs, signed)

\* So they are by the generated decoder, byte by byte or bit by bit.
LEMMA GeneratedLongs ==
  ASSUME W \in CWidths, NEW kind, NEW vs, NEW width, NEW at, NEW n, TakesWhole(kind, vs, width, at, n)
  PROVE  ReadWhole(kind, vs, width, at, n, FALSE) /\ ReadWhole(kind, vs, width, at, n, IsSigned)
<1>0. /\ width \in 1 .. 64 /\ FixedFor(kind, width) /\ Packs(vs, width, at, n)
      /\ ~Short(kind, n, width)
  BY DEF TakesWhole
<1>1. CASE ~Folded(kind)
  <2>1. /\ genfunc_readLongs(kind, at, n, width, FALSE) = readLongs(at, n, width, FALSE)
        /\ genfunc_readLongs(kind, at, n, width, IsSigned) = readLongs(at, n, width, IsSigned)
    BY <1>1, Zenon DEF genfunc_readLongs
  <2>2. /\ readLongs(at, n, width, FALSE) = Fields(vs, FALSE)
        /\ readLongs(at, n, width, IsSigned) = Fields(vs, IsSigned)
    BY <1>0, PackedRead
  <2>. QED
    BY <2>1, <2>2, Zenon DEF ReadWhole
<1>2. CASE Folded(kind)
  <2>1. decoder.fixed[kind] = width /\ width >= 8 /\ WidthsMet(kind) = {width}
    BY <1>0, <1>2 DEF Folded, FixedFor
  <2>2. n = Len(vs) /\ n \in Nat
    BY <1>0 DEF Packs, Holds
  <2>3. n = 0 \/ width % 8 = 0
    BY <1>0, <2>1, <2>2 DEF Short
  <2>. DEFINE c == FoldedBytes(kind)
  <2>4. c = width \div 8 /\ c \in Nat \ {0} /\ (n # 0 => width = 8 * c)
    BY <1>0, <2>1, <2>3 DEF FoldedBytes
  <2>. HIDE DEF c
  <2>5. \A i \in 1 .. n : readLongBE(at + (i-1) * c, c) = vs[i] % 2^W
    <3>1. CASE n = 0
      BY <3>1
    <3>2. CASE n # 0
      BY <1>0, <2>4, <3>2, FoldedRead
    <3>. QED
      BY <3>1, <3>2
  <2>6. \A signed : genfunc_readLongs(kind, at, n, width, signed)
          = [i \in 1 .. n |-> Uncoded(readLongBE(at + (i-1) * c, c), W, signed)]
    BY <1>2, Zenon DEF genfunc_readLongs, Uncoded, c
  <2>7. \A signed : [i \in 1 .. n |-> Uncoded(readLongBE(at + (i-1) * c, c), W, signed)]
                      = [i \in 1 .. n |-> Uncoded(vs[i] % 2^W, W, signed)]
    BY <2>5, Zenon
  <2>8. \A signed : Fields(vs, signed) = [i \in 1 .. n |-> Uncoded(vs[i] % 2^W, W, signed)]
    BY <2>2, Zenon DEF Fields
  <2>9. \A signed : genfunc_readLongs(kind, at, n, width, signed) = Fields(vs, signed)
    <3>. SUFFICES ASSUME NEW signed
                  PROVE  genfunc_readLongs(kind, at, n, width, signed) = Fields(vs, signed)
      OBVIOUS
    <3>. DEFINE got == [i \in 1 .. n |-> Uncoded(readLongBE(at + (i-1) * c, c), W, signed)]
                there == [i \in 1 .. n |-> Uncoded(vs[i] % 2^W, W, signed)]
    <3>1. genfunc_readLongs(kind, at, n, width, signed) = got
      BY <2>6, Zenon
    <3>2. got = there
      BY <2>7, Zenon
    <3>3. Fields(vs, signed) = there
      BY <2>8, Zenon
    <3>. HIDE DEF got, there
    <3>. QED
      BY <3>1, <3>2, <3>3
  <2>. QED
    BY <2>9, Zenon DEF ReadWhole
<1>. QED
  BY <1>1, <1>2

\* What a call leaves of the run in front of it.
CallYields(r) ==
  \/ /\ UNCHANGED <<offset, result, wild>>
     /\ fault' = "undefined" /\ Familiar(r) => Poisonous(r)
  \/ \E vs : /\ Emit(vs, Len(RunValues(r))) /\ IsOn(vs, Len(RunValues(r))) /\ UNCHANGED fault
             /\ Familiar(r) /\ ~CutShort(r) => Outcome(r, vs)

\* What a call that returns these values leaves.
LEMMA ReturnYields ==
  ASSUME NEW r, NEW vs, NEW n, n = Len(RunValues(r)), NEW next, NEW poison, NEW outside,
         Return(vs, n, next, poison, outside), IsOn(vs, n),
         Familiar(r) /\ poison => Poisonous(r),
         Familiar(r) /\ ~CutShort(r) /\ ~poison =>
           IF outside THEN TooWide(r) ELSE Yields(r, vs)
  PROVE  CallYields(r)
<1>1. CASE next > Len(data) \/ poison
  <2>1. /\ UNCHANGED <<offset, result, wild>>
        /\ fault' = IF next > Len(data) THEN "overread" ELSE "undefined"
    BY <1>1, Zenon DEF Return
  <2>2. fault' = "undefined" => poison
    <3>1. "overread" # "undefined"
      OBVIOUS
    <3>. QED
      BY <1>1, <2>1, <3>1, Zenon
  <2>. QED
    BY <2>1, <2>2, Zenon DEF CallYields
<1>2. CASE ~(next > Len(data) \/ poison)
  <2>1. Emit(vs, n) /\ wild' = outside /\ UNCHANGED fault
    BY <1>2, Zenon DEF Return
  <2>2. Familiar(r) /\ ~CutShort(r) => Outcome(r, vs)
    BY <1>2, <2>1, Zenon DEF Outcome
  <2>. QED
    BY <2>1, <2>2, Zenon DEF CallYields
<1>. QED
  BY <1>1, <1>2, Zenon

\* The poison of packed fields comes only from those of 8 bits and more.
LEMMA LoopPoison ==
  ASSUME NEW n \in Nat, NEW width \in Nat, BitLoopPoison(n, width)
  PROVE  W = 8 /\ width >= 8
<1>1. PICK i \in 0 .. n-1 : W = 8 /\ WholeByte(width, i)
  BY DEF BitLoopPoison
<1>. DEFINE p == i * width
<1>2. p \in Nat
  BY Product
<1>3. (i + 1) * width = p + width
  OBVIOUS
<1>4. CeilDiv(p, 8) * 8 + 8 <= p + width
  BY <1>1, <1>3 DEF WholeByte
<1>. HIDE DEF p
<1>5. CeilDiv(p, 8) * 8 >= p
  BY <1>2 DEF CeilDiv
<1>6. CeilDiv(p, 8) \in Nat
  BY <1>2, CeilType
<1>. QED
  BY <1>1, <1>2, <1>4, <1>5, <1>6

\* So does that of fields of whole bytes.
LEMMA FieldPoison ==
  ASSUME NEW kind, NEW n \in Nat, NEW width \in 1 .. 64, FixedFor(kind, width),
         PackedPoison(kind, n, width)
  PROVE  W = 8 /\ width >= 8
<1>1. CASE Folded(kind)
  <2>1. W = 8
    BY <1>1 DEF PackedPoison
  <2>2. decoder.fixed[kind] = width /\ width >= 8
    BY <1>1 DEF Folded, FixedFor
  <2>. QED
    BY <2>1, <2>2
<1>2. CASE ~Folded(kind)
  <2>1. BitLoopPoison(n, width)
    BY <1>2 DEF PackedPoison
  <2>2. width \in Nat
    OBVIOUS
  <2>. QED
    BY <2>1, <2>2, LoopPoison
<1>. QED
  BY <1>1, <1>2

\* A run that is not left alone ends in its batch.
LEMMA ReturnInside ==
  ASSUME NEW r, NEW vs, NEW n, n = Len(RunValues(r)), NEW next, NEW poison,
         Return(vs, n, next, poison, FALSE), IsOn(vs, n),
         Familiar(r) /\ poison => Poisonous(r),
         Familiar(r) /\ ~CutShort(r) /\ ~poison => Yields(r, vs)
  PROVE  CallYields(r)
<1>1. PICK outside : outside = FALSE
  OBVIOUS
<1>2. Return(vs, n, next, poison, outside)
  BY <1>1, Zenon
<1>3. Familiar(r) /\ ~CutShort(r) /\ ~poison => IF outside THEN TooWide(r) ELSE Yields(r, vs)
  BY <1>1, Zenon
<1>. QED
  BY <1>2, <1>3, ReturnYields, Zenon

\* The call on a repeated run (genfunc_nextRepeat).
LEMMA RepeatCall ==
  ASSUME NEW r, Placed(r), r.kind = "repeat", Fits(r, W, IsSigned), W \in CWidths,
         genfunc_nextRepeat, decoder.signed["repeat"] = IsSigned,
         Familiar(r) => FixedFor("repeat", RunWidth(r))
  PROVE  CallYields(r)
<1>. DEFINE width == decoder.fixed["repeat"]
            bytesize == IF width # -1 THEN width ELSE ((Byte(0) \div 8) % 8) + 1
            n == (Byte(0) % 8) + MinRepeat
            value == Uncoded(readLongBE(index + 1, bytesize), W, decoder.signed["repeat"])
            vs == [i \in 1 .. n |-> value]
            next == index + 1 + bytesize
            poison == LongBEPoison(bytesize)
<1>1. Return(vs, n, next, poison, FALSE)
  BY Zenon DEF genfunc_nextRepeat, Uncoded
<1>2. /\ ((Byte(0) \div 8) % 8) + 1 = RunWidth(r) /\ n = Len(RunValues(r)) /\ RunWidth(r) \in 1 .. 8
  BY RepeatHead
<1>3. Familiar(r) => bytesize = RunWidth(r)
  BY <1>2 DEF FixedFor
<1>4. IsOn(vs, n)
  BY DEF IsOn
<1>5. Familiar(r) => Yields(r, vs)
  <2>. SUFFICES ASSUME Familiar(r) PROVE Yields(r, vs)
    OBVIOUS
  <2>1. vs = [i \in 1 .. n |-> Uncoded(readLongBE(index + 1, RunWidth(r)), W, IsSigned)]
    BY <1>3
  <2>. HIDE DEF n, vs
  <2>2. Yields(r, [i \in 1 .. n |-> Uncoded(readLongBE(index + 1, RunWidth(r)), W, IsSigned)])
    BY <1>2, RepeatYields
  <2>. QED
    BY <2>1, <2>2
<1>6. Familiar(r) => ~poison
  <2>. SUFFICES ASSUME Familiar(r), LongBEPoison(RunWidth(r)) PROVE FALSE
    BY <1>3
  <2>. DEFINE x == Coded(r.value, IsSigned)
  <2>1. \A m \in 1 .. RunWidth(r) - 1 : x >= 2^(8*m)
    BY RepeatParts
  <2>2. r.value = RunValues(r)[1] /\ 1 \in DOMAIN RunValues(r)
    <3>1. RunValues(r) = [i \in 1 .. r.n |-> r.value]
      BY DEF RunValues
    <3>2. r.n \in 3 .. 10
      BY DEF Placed, Legal
    <3>. QED
      BY <3>1, <3>2
  <2>3. x \in Nat /\ x < 2^W
    BY <2>2, FitsRange, UncodedRight
  <2>4. 8 * (RunWidth(r) - 1) >= W
    BY DEF LongBEPoison
  <2>. DEFINE m == W \div 8
  <2>5. 8 * m = W /\ m \in 1 .. RunWidth(r) - 1
    BY <1>2, <2>4 DEF CWidths
  <2>. HIDE DEF m, x
  <2>6. x >= 2^W
    BY <2>1, <2>5
  <2>7. 2^W \in Nat
    BY Halves
  <2>. QED
    BY <2>3, <2>6, <2>7
<1>. HIDE DEF bytesize, n, vs, next, poison
<1>7. n = Len(RunValues(r)) /\ (Familiar(r) /\ poison => Poisonous(r))
      /\ (Familiar(r) /\ ~CutShort(r) /\ ~poison => Yields(r, vs))
  BY <1>2, <1>5, <1>6
<1>. QED
  BY <1>1, <1>4, <1>7, ReturnInside, Zenon

\* A direct run packs the numbers themselves.
LEMMA DirectCall ==
  ASSUME NEW r, Placed(r), r.kind = "direct", Fits(r, W, IsSigned), W \in CWidths,
         genfunc_nextDirect, decoder.signed["direct"] = IsSigned,
         Familiar(r) => FixedFor("direct", RunWidth(r))
  PROVE  CallYields(r)
<1>. DEFINE width == decodeBitWidth(WidthField)
            n == RunLength
            vs == genfunc_readLongs("direct", index + 2, n, width, decoder.signed["direct"])
            next == index + 2 + PackedLength("direct", n, width)
            poison == PackedPoison("direct", n, width)
<1>1. Return(vs, n, next, poison, FALSE)
  BY Zenon DEF genfunc_nextDirect
<1>2. width = r.width /\ r.width \in 1 .. 64 /\ n = Len(RunValues(r)) /\ n \in Nat
  BY DirectHead
<1>3. RunWidth(r) = width /\ PackedValues(r) = n
  BY <1>2 DEF RunWidth, PackedValues, RunValues
<1>4. IsOn(vs, n)
  BY DEF IsOn, genfunc_readLongs, readLongs
<1>5. Familiar(r) /\ ~CutShort(r) => Yields(r, vs)
  <2>. SUFFICES ASSUME Familiar(r), ~CutShort(r) PROVE Yields(r, vs)
    OBVIOUS
  <2>1. FixedFor("direct", width) /\ ~Short("direct", n, width)
    BY <1>3, CutShortMeans, Zenon
  <2>2. Packs(Codes(r), width, index + 2, n)
    <3>1. Holds(Codes(r), r.width) /\ Part(data, index + 2, Packed(Codes(r), r.width))
          /\ Len(Codes(r)) = Len(r.values) /\ RunValues(r) = r.values
          /\ r.width \in Nat \ {0}
      BY DirectParts, DirectYields
    <3>2. index + 2 \in Nat
      BY DEF Placed
    <3>. QED
      BY <1>2, <3>1, <3>2 DEF Packs
  <2>. DEFINE codes == Codes(r)
              at == index + 2
  <2>. HIDE DEF width, n, codes, at
  <2>3. Packs(codes, width, at, n) /\ width \in 1 .. 64
    BY <1>2, <2>2 DEF codes, at
  <2>4. TakesWhole("direct", codes, width, at, n)
    BY <2>1, <2>3, Zenon DEF TakesWhole
  <2>5. vs = Fields(codes, IsSigned)
    <3>1. ReadWhole("direct", codes, width, at, n, IsSigned)
      BY <2>4, GeneratedLongs, Zenon
    <3>. QED
      BY <3>1, Zenon DEF at, ReadWhole
  <2>. QED
    BY <2>5, DirectYields DEF codes
<1>6. Familiar(r) /\ poison => Poisonous(r)
  <2>. SUFFICES ASSUME Familiar(r), poison PROVE Poisonous(r)
    OBVIOUS
  <2>1. FixedFor("direct", width)
    BY <1>3, Zenon
  <2>. HIDE DEF width, n
  <2>2. W = 8 /\ width >= 8
    BY <1>2, <2>1, FieldPoison
  <2>. QED
    BY <1>2, <2>2 DEF Poisonous
<1>. HIDE DEF n, vs, next, poison
<1>. QED
  BY <1>1, <1>2, <1>4, <1>5, <1>6, ReturnInside, Zenon

\* The first number and the first step of a delta run of numbers that fit.
LEMMA DeltaSmall ==
  ASSUME NEW r, Placed(r), r.kind = "delta", Fits(r, W, IsSigned), W \in CWidths,
         NEW x, x = Coded(r.first, IsSigned), NEW z, z = ZigZag(r.step)
  PROVE  x \in Nat /\ x < 2^W /\ z \in Nat /\ z < 2^(W + 1)
<1>. DEFINE n == Len(r.rest) + 2
<1>1. Len(r.rest) \in Nat /\ r.step \in Int
  <2>1. r.rest \in Seq(Nat) /\ r.step \in Int
    BY DeltaParts, Zenon
  <2>. QED
    BY <2>1
<1>2. n \in Nat \ {0, 1}
  BY <1>1
<1>. HIDE DEF n
<1>3. /\ DOMAIN RunValues(r) = 1 .. n /\ RunValues(r)[1] = r.first
      /\ \A i \in 2 .. n : RunValues(r)[i] = RunValues(r)[i-1] + StepTo(r, i)
  BY <1>1, <1>2, DeltaNumbers DEF n
<1>. DEFINE a == RunValues(r)[1]
            b == RunValues(r)[2]
<1>4. 1 \in 1 .. n /\ 2 \in 1 .. n /\ 2 \in 2 .. n /\ 2 - 1 = 1
  BY <1>2
<1>5. b = a + r.step
  BY <1>3, <1>4 DEF StepTo
<1>6. InType(a) /\ InType(b)
  BY <1>3, <1>4, FitsRange
<1>. HIDE DEF a, b
<1>7. 2^W \in Nat /\ 2^W = 2 * 2^(W-1) /\ 2^(W-1) \in Nat
  BY Halves
<1>8. a \in Int /\ b \in Int
  BY <1>6, UncodedRight
<1>9. r.step < 2^W /\ -r.step < 2^W
  BY <1>1, <1>5, <1>6, <1>7, <1>8 DEF InType, Type
<1>10. x \in Nat /\ x < 2^W
  BY <1>3, <1>6, UncodedRight DEF a
<1>11. z \in Nat /\ z < 2 * 2^W
  BY <1>1, <1>9, ZigZagBack, ZigZagFits
<1>12. 2^(W + 1) = 2 * 2^W
  BY Pow2, Halves
<1>. QED
  BY <1>10, <1>11, <1>12

\* Its groups are not more than the type has room for.
LEMMA GroupsFit ==
  ASSUME W \in CWidths, NEW x \in Nat, x < 2^(W + 1), NEW n \in 1 .. 10,
         \A m \in 1 .. n - 1 : x >= 2^(7*m)
  PROVE  ~(7 * (n - 1) >= W)
<1>. SUFFICES ASSUME 7 * (n - 1) >= W PROVE FALSE
  OBVIOUS
<1>1. W + 1 \in Nat /\ 7 * (n - 1) \in Nat /\ W + 1 <= 7 * (n - 1)
  BY DEF CWidths
<1>2. n - 1 \in 1 .. n - 1
  BY <1>1 DEF CWidths
<1>3. x >= 2^(7 * (n - 1))
  BY <1>2
<1>. DEFINE p == 2^(W + 1)
            q == 2^(7 * (n - 1))
<1>4. p <= q /\ p \in Nat /\ q \in Nat
  BY <1>1, PowersOrder, PowerType
<1>5. x < p /\ x >= q
  BY <1>3
<1>. HIDE DEF p, q
<1>. QED
  BY <1>4, <1>5

\* The call on a delta run (genfunc_nextDelta).
LEMMA DeltaCall ==
  ASSUME NEW r, Placed(r), r.kind = "delta", Fits(r, W, IsSigned), W \in CWidths,
         genfunc_nextDelta, decoder.signed["delta"] = IsSigned,
         Familiar(r) => FixedFor("delta", RunWidth(r))
  PROVE  CallYields(r)
<1>. DEFINE width == IF WidthField = 0 THEN 0 ELSE decodeBitWidth(WidthField)
            n == RunLength
            at == index + 2 + VarintLength(index + 2)
            to == at + VarintLength(at)
            a == Uncoded(readVulong(index + 2), W, decoder.signed["delta"])
            db == unZigZag(readVulong(at))
            rest == genfunc_readLongs("delta", to, n - 2, width, FALSE)
            v == CHOOSE g : g = [i \in 1 .. n |->
                   IF i = 1 THEN a ELSE ToSigned(g[i-1] + StepRead(i, width, db, rest), W)]
            vs == [i \in 1 .. n |-> v[i]]
            next == to + (IF width = 0 THEN 0 ELSE PackedLength("delta", n - 2, width))
            poison == \/ VLongPoison(index + 2) \/ VLongPoison(at)
                      \/ width # 0 /\ PackedPoison("delta", n - 2, width)
<1>1. Return(vs, n, next, poison, FALSE)
  BY Zenon DEF genfunc_nextDelta, Uncoded, StepRead
<1>2. /\ width = r.width /\ n = Len(RunValues(r)) /\ n - 2 = Len(r.rest) /\ Len(r.rest) \in Nat
      /\ r.width \in 0 .. 64
  BY DeltaHead, Zenon
<1>3. r.rest \in Seq(Nat) /\ (r.width # 0 => r.width \in Nat \ {0})
  BY DeltaParts, Zenon
<1>. DEFINE x == Coded(r.first, IsSigned)
            z == ZigZag(r.step)
<1>4. /\ readVulong(index + 2) = x % 2^W /\ readVulong(at) = z % 2^W
      /\ to \in Nat /\ (r.width # 0 => Part(data, to, Packed(r.rest, r.width)))
      /\ VarintLength(index + 2) = VLen(x) /\ VarintLength(at) = VLen(z)
  <2>. HIDE DEF x, z, at, to
  <2>. QED
    BY DeltaStart DEF x, z, at, to
<1>5. RunWidth(r) = r.width /\ (r.width # 0 => PackedValues(r) = n - 2)
  BY <1>2 DEF RunWidth, PackedValues
<1>6. IsOn(vs, n)
  <2>. HIDE DEF v, n
  <2>. QED
    BY DEF IsOn
<1>7. Familiar(r) /\ ~CutShort(r) => Yields(r, vs)
  <2>. SUFFICES ASSUME Familiar(r), ~CutShort(r) PROVE Yields(r, vs)
    OBVIOUS
  <2>1. ASSUME r.width # 0 PROVE rest = Fields(r.rest, FALSE)
    <3>1. FixedFor("delta", r.width) /\ ~Short("delta", n - 2, r.width)
      BY <1>5, <2>1, CutShortMeans, Zenon
    <3>2. Holds(r.rest, r.width)
      BY <1>3, <2>1, RestHolds
    <3>. DEFINE raws == r.rest
                w == r.width
                l == n - 2
    <3>3. Packs(raws, w, to, l)
      <4>. HIDE DEF to, l, raws, w
      <4>1. l = Len(raws) /\ w \in Nat \ {0} /\ to \in Nat /\ Holds(raws, w) /\ Part(data, to, Packed(raws, w))
        BY <1>2, <1>3, <1>4, <2>1, <3>2, Zenon DEF raws, w, l
      <4>. QED
        BY <4>1, Zenon DEF Packs
    <3>4. w \in 1 .. 64
      BY <1>2, <2>1
    <3>5. FixedFor("delta", w) /\ ~Short("delta", l, w)
      BY <3>1
    <3>6. rest = genfunc_readLongs("delta", to, l, w, FALSE)
      BY <1>2, Zenon
    <3>. HIDE DEF to, raws, w, l, rest
    <3>7. TakesWhole("delta", raws, w, to, l)
      BY <3>3, <3>4, <3>5, Zenon DEF TakesWhole
    <3>8. ReadWhole("delta", raws, w, to, l, FALSE)
      BY <3>7, GeneratedLongs, Zenon
    <3>9. rest = Fields(raws, FALSE)
      BY <3>6, <3>8, Zenon DEF ReadWhole
    <3>. QED
      BY <3>9 DEF raws
  <2>2. DeltaRead(r, a, db, rest)
    <3>. HIDE DEF rest
    <3>. QED
      BY <1>4, <2>1 DEF DeltaRead
  <2>3. v = CHOOSE g : g = [i \in 1 .. n |->
               IF i = 1 THEN a ELSE ToSigned(g[i-1] + StepRead(i, r.width, db, rest), W)]
    <3>. HIDE DEF width, n, a, db, rest
    <3>. QED
      BY <1>2, Zenon
  <2>. HIDE DEF v, a, db, rest, n, width, at, to
  <2>. QED
    BY <1>2, <2>2, <2>3, DeltaYields
<1>8. Familiar(r) /\ poison => Poisonous(r)
  <2>. SUFFICES ASSUME Familiar(r), poison PROVE Poisonous(r)
    OBVIOUS
  <2>1. x \in Nat /\ x < 2^W /\ z \in Nat /\ z < 2^(W + 1)
    BY DeltaSmall, Zenon
  <2>2. (\E k \in 1 .. 10 : x < 2^(7*k)) /\ (\E k \in 1 .. 10 : z < 2^(7*k))
    BY DeltaParts, Zenon
  <2>3. x < 2^(W + 1)
    <3>1. 2^W \in Nat /\ 2^(W + 1) = 2 * 2^W
      BY Pow2, Halves
    <3>. HIDE DEF x
    <3>. QED
      BY <2>1, <3>1
  <2>. HIDE DEF x, z
  <2>4. /\ VLen(x) \in 1 .. 10 /\ \A m \in 1 .. VLen(x) - 1 : x >= 2^(7*m)
        /\ VLen(z) \in 1 .. 10 /\ \A m \in 1 .. VLen(z) - 1 : z >= 2^(7*m)
    BY <2>1, <2>2, VarintContent, Zenon
  <2>5. ~(7 * (VLen(x) - 1) >= W) /\ ~(7 * (VLen(z) - 1) >= W)
    BY <2>1, <2>3, <2>4, GroupsFit
  <2>6. ~VLongPoison(index + 2) /\ ~VLongPoison(at)
    BY <1>4, <2>5, Zenon DEF VLongPoison
  <2>7. width # 0 /\ PackedPoison("delta", n - 2, width)
    BY <2>6, Zenon
  <2>8. FixedFor("delta", width) /\ width \in 1 .. 64 /\ n - 2 \in Nat
    <3>1. FixedFor("delta", width)
      BY <1>2, <1>5, Zenon
    <3>2. width # 0 /\ width \in 0 .. 64
      BY <1>2, <2>7, Zenon
    <3>3. n - 2 \in Nat
      BY <1>2, Zenon
    <3>. HIDE DEF width, n
    <3>. QED
      BY <3>1, <3>2, <3>3
  <2>. DEFINE l == n - 2
  <2>. HIDE DEF l, width
  <2>9. W = 8 /\ width >= 8
    <3>1. PackedPoison("delta", l, width) /\ l \in Nat
      BY <2>7, <2>8 DEF l
    <3>. QED
      BY <2>8, <3>1, FieldPoison
  <2>. QED
    BY <1>2, <2>9 DEF Poisonous
<1>. HIDE DEF n, vs, next, poison
<1>. QED
  BY <1>1, <1>2, <1>6, <1>7, <1>8, ReturnInside, Zenon

\* What is shifted too far of a patched run.
PatchedPoison(r) ==
  \/ 8 * BaseBytes(r.base) > W \/ r.pw >= W \/ r.width >= W
  \/ PackedPoison("patched", Len(r.raws), r.width) \/ BitLoopPoison(Len(r.patches), Cfb(r))
  \/ ~InClosestFixedBits(r.pw + r.pgw)

\* The raw values of a run that fits are narrower than the type.
LEMMA PatchedWidth ==
  ASSUME NEW r, PatchedRun(r), r.kind = "patched", Fits(r, W, IsSigned), W \in CWidths
  PROVE  r.width < W
<1>. DEFINE k == Len(r.patches)
            w == r.width
            c == r.patches[k].bits
<1>1. k \in 1 .. Len(r.patches)
  <2>1. k \in 1 .. 31
    BY DEF PatchedRun
  <2>2. \A j \in 1 .. 31 : j \in 1 .. j
    OBVIOUS
  <2>. QED
    BY <2>1, <2>2
<1>2. c > 0
  BY DEF Fits
<1>3. c \in Nat /\ 2^w \in Nat \ {0} /\ w \in Nat
  BY <1>1, BitsType
<1>4. c * 2^w < 2^W
  BY <1>1, BitsSmall DEF BitsOf
<1>. HIDE DEF k, w, c
<1>5. c * 2^w >= 2^w
  <2>. DEFINE d == c - 1
  <2>1. d \in Nat /\ c = d + 1
    BY <1>2, <1>3
  <2>. HIDE DEF d
  <2>2. d * 2^w \in Nat
    BY <1>3, <2>1, Product
  <2>3. c * 2^w = d * 2^w + 2^w
    BY <1>3, <2>1
  <2>. QED
    BY <1>3, <2>2, <2>3
<1>6. W \in Nat /\ 2^W \in Nat
  BY Halves
<1>7. 2^w < 2^W
  BY <1>3, <1>4, <1>5, <1>6
<1>8. ~(W <= w)
  <2>1. W <= w => 2^W <= 2^w
    BY <1>3, <1>6, PowersOrder
  <2>. QED
    BY <1>3, <1>6, <1>7, <2>1
<1>9. w < W
  BY <1>3, <1>6, <1>8
<1>. QED
  BY <1>9 DEF w

\* What is shifted too far in a patched run.
LEMMA PatchedPoisonous ==
  ASSUME NEW r, PatchedRun(r), r.kind = "patched", Fits(r, W, IsSigned), W \in CWidths,
         FixedFor("patched", r.width), PatchedPoison(r)
  PROVE  Poisonous(r)
<1>1. r.width < W /\ r.pw < W /\ r.width \in 1 .. 64 /\ r.pw \in 1 .. 64 /\ W \in Nat
  BY PatchedWidth, Halves DEF Fits, PatchedRun
<1>2. ASSUME 8 * BaseBytes(r.base) > W PROVE Poisonous(r)
  <2>. DEFINE m == W \div 8
              s == Size(r.base)
  <2>1. m \in 1 .. BaseBytes(r.base) - 1 /\ 8 * m - 1 = W - 1
    <3>1. BaseBytes(r.base) \in 1 .. 8
      BY DEF PatchedRun
    <3>. QED
      BY <1>2, <3>1 DEF CWidths
  <2>. HIDE DEF m
  <2>2. s >= 2^(W-1)
    BY <2>1 DEF PatchedRun
  <2>3. 2^(W-1) \in Nat /\ r.base \in Int
    BY Halves DEF PatchedRun
  <2>4. r.base \notin -(2^(W-1)) + 1 .. 2^(W-1) - 1
    BY <2>2, <2>3 DEF Size
  <2>. QED
    BY <2>4 DEF Poisonous
<1>3. ASSUME PackedPoison("patched", Len(r.raws), r.width) PROVE FALSE
  <2>. DEFINE n == Len(r.raws)
              w == r.width
  <2>1. n \in Nat
    <3>1. n \in 1 .. 512
      BY DEF PatchedRun
    <3>. QED
      BY <3>1, LengthIsNat
  <2>2. w \in 1 .. 64 /\ FixedFor("patched", w) /\ PackedPoison("patched", n, w)
    BY <1>1, <1>3
  <2>. HIDE DEF n, w
  <2>3. W = 8 /\ w >= 8
    BY <2>1, <2>2, FieldPoison
  <2>. QED
    BY <1>1, <2>3 DEF w
<1>4. ASSUME BitLoopPoison(Len(r.patches), Cfb(r)) PROVE Poisonous(r)
  <2>. DEFINE n == Len(r.patches)
              w == Cfb(r)
  <2>1. n \in 1 .. 31 /\ w \in 1 .. 64
    BY DEF PatchedRun
  <2>2. n \in Nat /\ w \in Nat /\ BitLoopPoison(n, w)
    <3>1. \A k \in 1 .. 31 : k \in Nat
      OBVIOUS
    <3>. QED
      BY <1>4, <2>1, <3>1, WidthIsNat, Zenon
  <2>. HIDE DEF n, w
  <2>3. W = 8 /\ w >= 8
    BY <2>2, LoopPoison
  <2>4. r.pw + r.pgw >= 8
    <3>1. r.pw + r.pgw <= 7 => w = r.pw + r.pgw
      BY DEF PatchedRun, w
    <3>2. r.pw + r.pgw \in 1 .. 64
      BY DEF PatchedRun
    <3>. QED
      BY <2>3, <3>1, <3>2
  <2>. QED
    BY <2>3, <2>4 DEF Poisonous
<1>5. ~(r.pw >= W) /\ ~(r.width >= W)
  BY <1>1
<1>6. ASSUME ~InClosestFixedBits(r.pw + r.pgw) PROVE Poisonous(r)
  <2>1. r.pw + r.pgw \in 1 .. 64
    BY DEF PatchedRun
  <2>2. r.pw + r.pgw > 63
    BY <1>6, <2>1 DEF InClosestFixedBits
  <2>. QED
    BY <2>2 DEF Poisonous
<1>7. \/ 8 * BaseBytes(r.base) > W \/ PackedPoison("patched", Len(r.raws), r.width)
      \/ BitLoopPoison(Len(r.patches), Cfb(r)) \/ ~InClosestFixedBits(r.pw + r.pgw)
  BY <1>5, Zenon DEF PatchedPoison
<1>. QED
  BY <1>2, <1>3, <1>4, <1>6, <1>7, Zenon

\* Where no patch is shifted too far or put outside, no entry has its sign bit set.
LEMMA EntriesSmall ==
  ASSUME NEW r, PatchedRun(r), r.kind = "patched", Fits(r, W, IsSigned), W \in CWidths,
         NEW e, AreRead(r, e), ~BitLoopPoison(Len(r.patches), Cfb(r)),
         NEW i \in 1 .. Len(r.patches), NEW n, NEW p, e[i] < 0 => W = 8 \/ p > n, ~(p > n)
  PROVE  e[i] >= 0
<1>. DEFINE x == Entry(r, i)
            c == Cfb(r)
            f == e[i]
<1>1. f \in Int /\ (x < 2^(W-1) => f = x)
  BY DEF AreRead, EntryReadAs
<1>2. x \in Nat /\ x < 2^c
  BY EntryParts DEF EntryHas
<1>3. c \in Nat /\ Len(r.patches) \in Nat /\ Len(r.patches) >= 1
  <2>1. c \in 1 .. 64 /\ Len(r.patches) \in 1 .. 31
    BY DEF PatchedRun
  <2>2. \A k \in 1 .. 31 : k \in Nat /\ k >= 1
    OBVIOUS
  <2>. QED
    BY <2>1, <2>2, WidthIsNat, Zenon
<1>. HIDE DEF x, f
<1>4. W = 8 => c < 8
  <2>. SUFFICES ASSUME W = 8, c >= 8 PROVE FALSE
    BY <1>3
  <2>. HIDE DEF c
  <2>1. WholeByte(c, 0)
    <3>1. 0 * c = 0 /\ (0 + 1) * c = c
      BY <1>3
    <3>2. CeilDiv(0, 8) = 0
      BY DEF CeilDiv
    <3>. QED
      BY <1>3, <3>1, <3>2 DEF WholeByte
  <2>2. 0 \in 0 .. Len(r.patches) - 1
    BY <1>3
  <2>3. BitLoopPoison(Len(r.patches), c)
    BY <2>1, <2>2 DEF BitLoopPoison
  <2>. QED
    BY <2>3 DEF c
<1>. HIDE DEF c
<1>5. CASE W = 8
  <2>1. c <= 7 /\ 7 \in Nat
    BY <1>3, <1>4, <1>5
  <2>2. 2^c <= 2^7 /\ 2^c \in Nat
    BY <1>3, <2>1, PowersOrder, PowerType
  <2>3. 2^7 = 128 /\ 2^(W-1) = 128
    BY <1>5
  <2>4. x < 2^(W-1)
    BY <1>2, <2>2, <2>3
  <2>5. f >= 0
    BY <1>1, <1>2, <2>4
  <2>. QED
    BY <2>5 DEF f
<1>6. CASE W # 8
  <2>1. ~(f < 0)
    BY <1>6 DEF f
  <2>. QED
    BY <1>1, <2>1 DEF f
<1>. QED
  BY <1>5, <1>6

\* The raw numbers a generated decoder reads.
LEMMA GeneratedRaws ==
  ASSUME NEW r, Placed(r), r.kind = "patched", Fits(r, W, IsSigned), W \in CWidths,
         FixedFor("patched", r.width), ~Short("patched", Len(r.raws), r.width),
         NEW at, at = index + 4 + BaseBytes(r.base), NEW n, n = Len(r.raws)
  PROVE  genfunc_readLongs("patched", at, n, r.width, FALSE) = Fields(r.raws, FALSE)
<1>1. PatchedRun(r)
  BY PatchedFacts
<1>2. Part(data, at, Packed(r.raws, r.width))
  BY PatchedPlaces
<1>. DEFINE vs == r.raws
            w == r.width
<1>3. at \in Nat /\ w \in Nat \ {0} /\ w \in 1 .. 64
  <2>1. index \in Nat
    BY DEF Placed
  <2>. DEFINE k == BaseBytes(r.base)
  <2>2. k \in 1 .. 8 /\ w \in 1 .. 64 /\ at = index + 4 + k
    BY <1>1 DEF PatchedRun
  <2>. HIDE DEF k, w
  <2>. QED
    BY <2>1, <2>2
<1>4. Holds(vs, w)
  BY <1>1, RawsHold
<1>5. Part(data, at, Packed(vs, w)) /\ n = Len(vs) /\ FixedFor("patched", w) /\ ~Short("patched", n, w)
  BY <1>2
<1>. HIDE DEF vs, w
<1>6. Packs(vs, w, at, n)
  BY <1>3, <1>4, <1>5 DEF Packs
<1>7. TakesWhole("patched", vs, w, at, n)
  BY <1>3, <1>5, <1>6, Zenon DEF TakesWhole
<1>8. ReadWhole("patched", vs, w, at, n, FALSE)
  BY <1>7, GeneratedLongs, Zenon
<1>. QED
  BY <1>8, Zenon DEF ReadWhole, vs, w

\* What a generated decoder makes of a patched run, from the numbers it has read.
LEMMA PatchedMade ==
  ASSUME NEW r, Placed(r), r.kind = "patched", Fits(r, W, IsSigned), W \in CWidths,
         NEW b, NEW based, BasedOn(r, b, based), NEW e, AreRead(r, e),
         ~BitLoopPoison(Len(r.patches), Cfb(r)), InClosestFixedBits(r.pw + r.pgw),
         NEW n, n = Len(r.raws), NEW pl, pl = Len(r.patches),
         NEW pos, GeneratorWalks(pos, pl, e, r.pw),
         NEW outside, outside <=> \E i \in 1 .. pl : pos[i] > n,
         NEW g, PatchesPut(g, r, pl, based, pos, b, e)
  PROVE  IF outside THEN TooWide(r) ELSE Yields(r, g[pl])
<1>1. PatchedRun(r)
  BY PatchedFacts
<1>2. pl \in Nat
  <2>1. pl \in 1 .. 31
    BY <1>1 DEF PatchedRun
  <2>2. \A k \in 1 .. 31 : k \in Nat
    OBVIOUS
  <2>. QED
    BY <2>1, <2>2, Zenon
<1>3. /\ Positions(pos, r, e)
      /\ \A i \in 1 .. pl : e[i] < 0 => W = 8 \/ pos[i] > n
  BY <1>1, <1>2, GeneratorPlaces
<1>4. Taken(r, e)
  <2>1. ASSUME W = 64, NEW i \in 1 .. Len(r.patches) PROVE e[i] = Entry(r, i)
    <3>. DEFINE x == Entry(r, i)
                s == r.pw + r.pgw
    <3>1. EntryHas(r, i, x)
      BY <1>1, EntryParts
    <3>2. x \in Nat /\ x < 2^s
      BY <3>1 DEF EntryHas
    <3>3. s \in 0 .. 63
      BY DEF InClosestFixedBits
    <3>. HIDE DEF s
    <3>4. s \in Nat /\ s <= 63 /\ 63 \in Nat
      BY <3>3
    <3>5. 2^s <= 2^63 /\ 2^s \in Nat /\ 2^63 \in Nat
      BY <3>4, PowersOrder, PowerType
    <3>. DEFINE t == 2^s
                z == 2^63
    <3>6. 2^(W-1) = z
      BY <2>1
    <3>7. x \in Nat /\ x < t /\ t <= z /\ t \in Nat /\ z \in Nat
      BY <3>2, <3>5
    <3>. HIDE DEF x, t, z
    <3>8. x < 2^(W-1)
      BY <3>6, <3>7
    <3>. QED
      BY <3>8 DEF AreRead, EntryReadAs, x
  <2>. QED
    BY <2>1 DEF Taken, Exact
<1>5. Applies(g, pl, based, pos, b, PatchBitsOf(r, e), r.width)
  BY <1>2, PutApplied
<1>6. CASE outside
  <2>1. \E i \in 1 .. Len(r.patches) : e[i] < 0 \/ pos[i] > Len(r.raws)
    BY <1>6
  <2>2. TooWide(r)
    BY <1>1, <1>3, <1>4, <2>1, OutsideWide
  <2>. QED
    BY <1>6, <2>2
<1>7. CASE ~outside
  <2>1. \A i \in 1 .. Len(r.patches) : e[i] >= 0
    <3>. SUFFICES ASSUME NEW i \in 1 .. Len(r.patches) PROVE e[i] >= 0
      OBVIOUS
    <3>. DEFINE p == pos[i]
    <3>1. (e[i] < 0 => W = 8 \/ p > n) /\ ~(p > n)
      BY <1>3, <1>7
    <3>. HIDE DEF p
    <3>. QED
      BY <1>1, <3>1, EntriesSmall
  <2>2. Yields(r, g[pl])
    BY <1>1, <1>2, <1>3, <1>4, <1>5, <2>1, PatchedYields
  <2>. QED
    BY <1>7, <2>2
<1>. QED
  BY <1>6, <1>7

\* The call on a patched run (genfunc_nextPatched).
LEMMA PatchedCall ==
  ASSUME NEW r, Placed(r), r.kind = "patched", Fits(r, W, IsSigned), W \in CWidths,
         genfunc_nextPatched, Familiar(r) => FixedFor("patched", RunWidth(r))
  PROVE  CallYields(r)
<1>. DEFINE width == decodeBitWidth(WidthField)
            n == RunLength
            bytesize == Byte(2) \div 32 + 1
            pw == decodeBitWidth(Byte(2) % 32)
            pgw == Byte(3) \div 32 + 1
            pl == Byte(3) % 32
            cfb == getClosestFixedBits(pw + pgw)
            b == PatchedBase(bytesize)
            at == index + 4 + bytesize
            to == at + PackedLength("patched", n, width)
            raws == genfunc_readLongs("patched", at, n, width, FALSE)
            e == readLongs(to, pl, cfb, FALSE)
            pos == CHOOSE f : f = [i \in 0 .. pl |-> IF i = 0 THEN 1 ELSE f[i-1] + genGap(e[i], pw)]
            outside == \E i \in 1 .. pl : pos[i] > n
            based == [i \in 1 .. n |-> ToSigned(b + raws[i], W)]
            g == CHOOSE f : f = [i \in 0 .. pl |->
                   IF i = 0 THEN based ELSE ApplyPatch(f[i-1], pos[i], b, e[i] % 2^pw, width)]
            vs == IF outside THEN based ELSE g[pl]
            next == to + CeilDiv(pl * cfb, 8)
            poison == \/ 8 * bytesize > W \/ pw >= W \/ width >= W
                      \/ PackedPoison("patched", n, width) \/ BitLoopPoison(pl, cfb)
                      \/ ~InClosestFixedBits(pw + pgw)
<1>1. Return(vs, n, next, poison, outside)
  BY Zenon DEF genfunc_nextPatched
<1>2. /\ width = r.width /\ n = Len(RunValues(r)) /\ n = Len(r.raws) /\ n \in Nat
      /\ bytesize = BaseBytes(r.base) /\ pw = r.pw /\ pgw = r.pgw /\ pl = Len(r.patches)
  BY PatchedHead, Zenon
<1>3. cfb = Cfb(r) /\ at = index + 4 + BaseBytes(r.base)
  BY <1>2, Zenon DEF Cfb
<1>4. RunWidth(r) = r.width /\ PackedValues(r) = Len(r.raws)
  BY DEF RunWidth, PackedValues
<1>5. PatchedRun(r)
  BY PatchedFacts
<1>6. pl \in Nat
  <2>1. Len(r.patches) \in 1 .. 31
    BY <1>5 DEF PatchedRun
  <2>2. \A k \in 1 .. 31 : k \in Nat
    OBVIOUS
  <2>. QED
    BY <1>2, <2>1, <2>2, Zenon
<1>7. GeneratorWalks(pos, pl, e, r.pw)
  BY <1>2, Zenon DEF GeneratorWalks
<1>8. PatchesPut(g, r, pl, based, pos, b, e)
  <2>. HIDE DEF based, pos, b, e, pl, pw, width
  <2>. QED
    BY <1>2, Zenon DEF PatchesPut
<1>9. poison <=> PatchedPoison(r)
  BY <1>2, <1>3, Zenon DEF PatchedPoison
<1>10. b = PatchedBase(BaseBytes(r.base))
  BY <1>2, Zenon
<1>11. based = [i \in 1 .. n |-> ToSigned(b + raws[i], W)]
  OBVIOUS
<1>12. IsOn(based, n)
  BY DEF IsOn
<1>13. outside <=> \E i \in 1 .. pl : pos[i] > n
  OBVIOUS
<1>. HIDE DEF based, pos
<1>14. IsOn(g[pl], n)
  <2>. DEFINE bits == [i \in 1 .. pl |-> e[i] % 2^pw]
  <2>1. Applies(g, pl, based, pos, b, bits, width)
    <3>. DEFINE F(f) == [i \in 0 .. pl |->
                  IF i = 0 THEN based ELSE ApplyPatch(f[i-1], pos[i], b, e[i] % 2^pw, width)]
                G(f) == [i \in 0 .. pl |->
                  IF i = 0 THEN based ELSE ApplyPatch(f[i-1], pos[i], b, bits[i], width)]
    <3>1. \A i \in 0 .. pl : i # 0 => bits[i] = e[i] % 2^pw
      <4>1. \A i \in 0 .. pl : i # 0 => i \in 1 .. pl
        <5>. HIDE DEF pl
        <5>. QED
          BY <1>6
      <4>. QED
        BY <4>1, Zenon
    <3>. HIDE DEF bits, e, b, pw, width, pl
    <3>2. \A f : F(f) = G(f)
      BY <3>1, Zenon
    <3>3. \E f : f = G(f)
      <4>1. PICK f : Applies(f, pl, based, pos, b, bits, width)
        BY <1>6, AppliedExist
      <4>2. f = G(f)
        BY <4>1, Zenon DEF Applies
      <4>. QED
        BY <4>2, Zenon
    <3>4. \E f : f = F(f)
      <4>. HIDE DEF F, G
      <4>. QED
        BY <3>2, <3>3, Zenon
    <3>5. g = CHOOSE f : f = F(f)
      BY Zenon DEF g
    <3>. HIDE DEF F, G, g
    <3>6. g = F(g)
      BY <3>4, <3>5, Zenon
    <3>7. g = G(g)
      BY <3>2, <3>6
    <3>. QED
      BY <3>7, Zenon DEF G, Applies
  <2>. HIDE DEF bits, e, b, pw, width, pl, g, n
  <2>2. AppliedTo(g, pl, based, pos, b, bits, width)
    BY <1>6, <2>1, AppliedSteps
  <2>3. n \in Nat
    BY <1>2
  <2>. QED
    BY <1>6, <1>12, <2>2, <2>3, NotPut
<1>. HIDE DEF g, outside
<1>15. IsOn(vs, n)
  BY <1>12, <1>14, Zenon
<1>16. Familiar(r) /\ poison => Poisonous(r)
  <2>. HIDE DEF poison
  <2>1. SUFFICES ASSUME Familiar(r), poison PROVE Poisonous(r)
    OBVIOUS
  <2>2. FixedFor("patched", r.width)
    BY <1>4, <2>1, Zenon
  <2>. QED
    BY <1>5, <1>9, <2>1, <2>2, PatchedPoisonous
<1>17. Familiar(r) /\ ~CutShort(r) /\ ~poison => IF outside THEN TooWide(r) ELSE Yields(r, vs)
  <2>. HIDE DEF poison
  <2>1. SUFFICES ASSUME Familiar(r), ~CutShort(r), ~poison
                 PROVE  IF outside THEN TooWide(r) ELSE Yields(r, vs)
    OBVIOUS
  <2>2. FixedFor("patched", r.width) /\ ~Short("patched", Len(r.raws), r.width)
    BY <1>4, <2>1, CutShortMeans, Zenon
  <2>3. ~BitLoopPoison(Len(r.patches), Cfb(r)) /\ InClosestFixedBits(r.pw + r.pgw)
    BY <1>9, <2>1, Zenon DEF PatchedPoison
  <2>4. raws = genfunc_readLongs("patched", at, n, r.width, FALSE)
    BY <1>2, Zenon
  <2>5. to = at + PackedLength("patched", n, r.width)
    BY <1>2, Zenon
  <2>6. e = readLongs(to, Len(r.patches), Cfb(r), FALSE)
    BY <1>2, <1>3, Zenon
  <2>. HIDE DEF n, at, to, raws, e, b, pl
  <2>7. raws = Fields(r.raws, FALSE)
    BY <1>2, <1>3, <2>2, <2>4, GeneratedRaws
  <2>8. to = at + RawsLength(r)
    <3>. DEFINE w == r.width
    <3>1. w \in 0 .. 64 /\ FixedFor("patched", w) /\ ~Short("patched", n, w)
      <4>1. w \in 1 .. 64
        BY <1>5 DEF PatchedRun
      <4>2. FixedFor("patched", w) /\ ~Short("patched", n, w)
        BY <1>2, <2>2, Zenon
      <4>. HIDE DEF w
      <4>. QED
        BY <4>1, <4>2
    <3>. HIDE DEF w
    <3>2. PackedLength("patched", n, w) = CeilDiv(n * w, 8)
      BY <1>2, <3>1, PackedFamiliar, Zenon
    <3>. QED
      BY <1>2, <2>5, <3>2 DEF RawsLength, w
  <2>9. BasedOn(r, b, based) /\ AreRead(r, e)
    BY <1>2, <1>3, <1>10, <1>11, <2>6, <2>7, <2>8, PatchedStart
  <2>10. IF outside THEN TooWide(r) ELSE Yields(r, g[pl])
    BY <1>2, <1>7, <1>8, <1>13, <2>3, <2>9, PatchedMade
  <2>. QED
    BY <2>10
<1>. HIDE DEF n, vs, next, poison
<1>. QED
  BY <1>1, <1>2, <1>15, <1>16, <1>17, ReturnYields, Zenon

-----------------------------------------------------------------------------
(***************************************************************************)
(* What the generated decoder decodes.                                     *)
(***************************************************************************)
\* A call of the generated decoder.
IsCall ==
  genfunc_nextRepeat \/ genfunc_nextDirect \/ genfunc_nextPatched \/ genfunc_nextDelta

\* The decoder has the sign of the type.
LEMMA SignKept ==
  ASSUME ProfileInv, MergeInv, decoder # None, NEW k \in Kind
  PROVE  decoder.signed[k] = IsSigned
BY MergedSurvives, Zenon DEF ProfileSurvives

\* What a call leaves of the run in front of it, of whatever kind it is.
LEMMA CallOfKind ==
  ASSUME ProfileInv, MergeInv, decoder # None, IsCall,
         NEW r, Placed(r), Fits(r, W, IsSigned), W \in CWidths
  PROVE  CallYields(r)
<1>1. r.kind \in Kind /\ Encoding = Code[r.kind]
  BY KindRead
<1>2. /\ "repeat" \in Kind /\ "direct" \in Kind /\ "patched" \in Kind /\ "delta" \in Kind
  BY DEF Kind
<1>3. /\ genfunc_nextRepeat => Encoding = Code["repeat"]
      /\ genfunc_nextDirect => Encoding = Code["direct"]
      /\ genfunc_nextPatched => Encoding = Code["patched"]
      /\ genfunc_nextDelta => Encoding = Code["delta"]
  BY Zenon DEF genfunc_nextRepeat, genfunc_nextDirect, genfunc_nextPatched, genfunc_nextDelta,
     Enter
<1>4. Familiar(r) => FixedFor(r.kind, RunWidth(r))
  BY <1>1, FixedMet, Zenon DEF Familiar
<1>5. CASE genfunc_nextRepeat
  <2>1. r.kind = "repeat"
    BY <1>1, <1>2, <1>3, <1>5, KindsCode, Zenon
  <2>2. Familiar(r) => FixedFor("repeat", RunWidth(r))
    BY <1>4, <2>1, Zenon
  <2>3. decoder.signed["repeat"] = IsSigned
    BY <1>2, SignKept, Zenon
  <2>. QED
    BY <1>5, <2>1, <2>2, <2>3, RepeatCall
<1>6. CASE genfunc_nextDirect
  <2>1. r.kind = "direct"
    BY <1>1, <1>2, <1>3, <1>6, KindsCode, Zenon
  <2>2. Familiar(r) => FixedFor("direct", RunWidth(r))
    BY <1>4, <2>1, Zenon
  <2>3. decoder.signed["direct"] = IsSigned
    BY <1>2, SignKept, Zenon
  <2>. QED
    BY <1>6, <2>1, <2>2, <2>3, DirectCall
<1>7. CASE genfunc_nextPatched
  <2>1. r.kind = "patched"
    BY <1>1, <1>2, <1>3, <1>7, KindsCode, Zenon
  <2>2. Familiar(r) => FixedFor("patched", RunWidth(r))
    BY <1>4, <2>1, Zenon
  <2>. QED
    BY <1>7, <2>1, <2>2, PatchedCall
<1>8. CASE genfunc_nextDelta
  <2>1. r.kind = "delta"
    BY <1>1, <1>2, <1>3, <1>8, KindsCode, Zenon
  <2>2. Familiar(r) => FixedFor("delta", RunWidth(r))
    BY <1>4, <2>1, Zenon
  <2>3. decoder.signed["delta"] = IsSigned
    BY <1>2, SignKept, Zenon
  <2>. QED
    BY <1>8, <2>1, <2>2, <2>3, DeltaCall
<1>. QED
  BY <1>5, <1>6, <1>7, <1>8 DEF IsCall

\* A call takes the run in front of the decoder, or fails on it.
LEMMA CallTaken ==
  ASSUME ProfileInv, MergeInv, DecoderInv, ValuesInv, IsCall
  PROVE  /\ UNCHANGED <<type, stream, merged, phase>>
         /\ phase = "generated" /\ fault = "no" /\ ~wild
         /\ \E m : InFrontOf(m) /\ CallYields(stream[m].run)
<1>1. Decoding /\ UNCHANGED <<type, stream, merged, phase>>
  BY Zenon DEF IsCall, genfunc_nextRepeat, genfunc_nextDirect, genfunc_nextPatched,
     genfunc_nextDelta, Enter, Return
<1>2. /\ phase = "generated" /\ fault = "no" /\ ~wild /\ AtRun /\ index < Len(data)
      /\ decoder # None /\ StreamInv
  BY <1>1 DEF Decoding, DecoderInv, ProfileInv, GenInv
<1>3. StaysInStep
  BY <1>2 DEF AtRun, StaysInStep
<1>4. PICK m : InFrontOf(m)
  BY <1>2, <1>3, OneInFront
<1>5. m \in DOMAIN stream
  BY <1>2, <1>4, StreamFacts DEF InFrontOf
<1>6. Placed(stream[m].run) /\ Fits(stream[m].run, W, IsSigned) /\ W \in CWidths
  BY <1>4, <1>5, Zenon DEF ValuesInv, FitInv, InFrontOf
<1>7. CallYields(stream[m].run)
  BY <1>2, <1>6, CallOfKind, Zenon
<1>. QED
  BY <1>1, <1>2, <1>4, <1>7, Zenon

\* The batch stays as it should be in a call.
LEMMA ValuesOfCall ==
  ASSUME ProfileInv, MergeInv, DecoderInv, ValuesInv, IsCall
  PROVE  ValuesInv'
<1>1. /\ UNCHANGED <<type, stream, merged, phase>>
      /\ phase = "generated"
  BY CallTaken
<1>2. PICK m : InFrontOf(m) /\ CallYields(stream[m].run)
  BY CallTaken
<1>3. FitInv'
  BY <1>1, FitsStay DEF ValuesInv
<1>4. InterpreterDecodes'
  BY <1>1 DEF InterpreterDecodes, Interpreted
<1>5. BatchInv'
  <2>. DEFINE n == Len(RunValues(stream[m].run))
  <2>1. CASE UNCHANGED <<offset, result>>
    BY <2>1, BatchStays DEF ValuesInv
  <2>2. CASE \E vs : Emit(vs, n) /\ IsOn(vs, n)
    <3>1. PICK vs : Emit(vs, n) /\ IsOn(vs, n)
      BY <2>2
    <3>2. Legal(stream[m].run, IsSigned)
      BY <1>2 DEF InFrontOf, Placed
    <3>3. n \in Nat
      BY <3>2, RunFacts
    <3>. QED
      BY <3>1, <3>3, Emitted DEF ValuesInv
  <2>3. UNCHANGED <<offset, result>> \/ \E vs : Emit(vs, n) /\ IsOn(vs, n)
    BY <1>2, Zenon DEF CallYields
  <2>. QED
    BY <2>1, <2>2, <2>3
<1>. QED
  BY <1>3, <1>4, <1>5 DEF ValuesInv

\* GeneratedDecodes of a decoder behind run n.
RightAmong(k, n) ==
  Familiar(stream[k].run) /\ ~CutShort(stream[k].run) =>
    IF wild /\ k = n THEN TooWide(stream[k].run) ELSE SegmentRight(k)

\* All runs decoded are right.
LEMMA GeneratedMeans ==
  \A n : Done = 1 .. n /\ Cardinality(Done) = n =>
    (GeneratedDecodes <=> (phase = "generated" => \A k \in 1 .. n : RightAmong(k, n)))
BY Zenon DEF GeneratedDecodes, RightAmong, SegmentRight

\* They are those in front of the offset.
GeneratedSoFar ==
  \A i \in 0 .. Len(stream) : offset = EndOffset(i) =>
    /\ Done = 1 .. i /\ Cardinality(Done) = i
    /\ GeneratedDecodes <=> (phase = "generated" => \A k \in 1 .. i : RightAmong(k, i))

\* They always are.
LEMMA GeneratedBehind == StreamInv => GeneratedSoFar
BY DoneBehind, GeneratedMeans, Zenon DEF GeneratedSoFar

\* They are after a step too.
LEMMA GeneratedNext ==
  ASSUME UNCHANGED <<type, stream>>, StreamInv',
         NEW n \in 0 .. Len(stream), offset' = EndOffset(n)
  PROVE  /\ Done' = 1 .. n /\ Cardinality(Done)' = n
         /\ GeneratedDecodes' <=> (phase' = "generated" => \A k \in 1 .. n : RightAmong(k, n)')
<1>1. (StreamInv => GeneratedSoFar)'
  BY GeneratedBehind, PTL
<1>2. EndOffset(n)' = EndOffset(n) /\ Len(stream') = Len(stream)
  BY Zenon DEF EndOffset
<1>. QED
  BY <1>1, <1>2, Zenon DEF GeneratedSoFar

\* A call leaves them right.
LEMMA GeneratedOfCall ==
  ASSUME ProfileInv, MergeInv, DecoderInv, ValuesInv, GeneratedDecodes, IsCall, StreamInv'
  PROVE  GeneratedDecodes'
<1>1. /\ UNCHANGED <<type, stream, merged, phase>>
      /\ phase = "generated" /\ ~wild
  BY CallTaken
<1>2. PICK m : InFrontOf(m) /\ CallYields(stream[m].run)
  BY CallTaken
<1>. DEFINE r == stream[m].run
<1>3. StreamInv /\ BatchInv
  BY DEF ProfileInv, GenInv, ValuesInv
<1>4. /\ m \in 1 .. Len(stream) /\ m - 1 \in 0 .. Len(stream) /\ m \in 0 .. Len(stream)
      /\ offset = EndOffset(m-1) /\ EndOffset(m) = offset + Len(RunValues(r))
  BY <1>2, <1>3, StreamFacts DEF InFrontOf
<1>5. \A k \in 1 .. m - 1 : RightAmong(k, m - 1)
  BY <1>1, <1>3, <1>4, GeneratedBehind, Zenon DEF GeneratedSoFar
<1>6. \A k : /\ Familiar(stream[k].run)' <=> Familiar(stream[k].run)
             /\ CutShort(stream[k].run)' <=> CutShort(stream[k].run)
             /\ TooWide(stream[k].run)' <=> TooWide(stream[k].run)
  <2>1. W' = W
    BY <1>1 DEF W
  <2>2. \A k : TooWide(stream[k].run)' <=> TooWide(stream[k].run)
    BY <1>1, <2>1, Zenon DEF TooWide
  <2>3. \A s : (Familiar(s)' <=> Familiar(s)) /\ (CutShort(s)' <=> CutShort(s))
    BY <1>1, RunsStay, Zenon
  <2>4. \A k : /\ Familiar(stream[k].run)' <=> Familiar(stream[k].run)
               /\ CutShort(stream[k].run)' <=> CutShort(stream[k].run)
    BY <1>1, <2>3, Zenon
  <2>. QED
    BY <2>2, <2>4, Zenon
<1>7. CASE /\ UNCHANGED <<offset, result, wild>>
  <2>1. offset' = EndOffset(m-1)
    BY <1>4, <1>7
  <2>2. \A k : EndOffset(k)' = EndOffset(k)
    BY <1>1, Zenon DEF EndOffset
  <2>3. \A k : Segment(k)' = Segment(k)
    BY <1>1, <1>7, <2>2, Zenon DEF Segment
  <2>4. \A k : SegmentRight(k)' <=> SegmentRight(k)
    BY <1>1, <2>3, SegmentStays
  <2>5. \A k \in 1 .. m - 1 : RightAmong(k, m - 1)'
    BY <1>5, <1>6, <1>7, <2>4, Zenon DEF RightAmong
  <2>. QED
    BY <1>1, <1>4, <2>1, <2>5, GeneratedNext
<1>8. CASE \E vs : /\ Emit(vs, Len(RunValues(r))) /\ IsOn(vs, Len(RunValues(r)))
                   /\ Familiar(r) /\ ~CutShort(r) => Outcome(r, vs)
  <2>1. PICK vs : /\ Emit(vs, Len(RunValues(r))) /\ IsOn(vs, Len(RunValues(r)))
                  /\ Familiar(r) /\ ~CutShort(r) => Outcome(r, vs)
    BY <1>8
  <2>2. Len(RunValues(r)) \in Nat
    <3>1. Legal(r, IsSigned)
      BY <1>2 DEF InFrontOf, Placed
    <3>. QED
      BY <3>1, RunFacts
  <2>3. EmitsAll(vs, Len(RunValues(r)))
    BY <1>3, <2>1, <2>2, Emitted
  <2>4. offset' = EndOffset(m)
    <3>1. offset' = offset + Len(RunValues(r))
      BY <2>1 DEF Emit
    <3>. QED
      BY <1>4, <3>1
  <2>5. ASSUME NEW k \in 1 .. m - 1 PROVE RightAmong(k, m)'
    <3>1. k \in 1 .. Len(stream) /\ k \in 0 .. Len(stream) /\ k <= m - 1 /\ k # m
      BY <1>3, <1>4, StreamFacts
    <3>2. EndOffset(k) <= offset
      BY <1>3, <1>4, <3>1, OffsetsGrow
    <3>3. Segment(k)' = Segment(k)
      BY <1>1, <1>3, <2>3, <3>1, <3>2, SegmentKept
    <3>4. SegmentRight(k)' <=> SegmentRight(k)
      BY <1>1, <3>3, SegmentStays
    <3>5. RightAmong(k, m - 1)
      BY <1>5
    <3>. QED
      BY <1>1, <1>6, <3>1, <3>4, <3>5, Zenon DEF RightAmong
  <2>6. RightAmong(m, m)'
    <3>. SUFFICES ASSUME Familiar(stream[m].run)', ~CutShort(stream[m].run)'
                  PROVE  IF wild' THEN TooWide(stream[m].run)' ELSE SegmentRight(m)'
      BY Zenon DEF RightAmong
    <3>1. Outcome(r, vs)
      BY <1>6, <2>1, Zenon
    <3>2. CASE wild'
      <4>1. TooWide(r)
        BY <3>1, <3>2, Zenon DEF Outcome
      <4>. QED
        BY <1>6, <3>2, <4>1, Zenon
    <3>3. CASE ~wild'
      <4>1. Yields(r, vs)
        BY <3>1, <3>3, Zenon DEF Outcome
      <4>2. SegmentRight(m)'
        BY <1>1, <1>2, <2>3, <4>1, SegmentYields
      <4>. QED
        BY <3>3, <4>2, Zenon
    <3>. QED
      BY <3>2, <3>3
  <2>7. \A j \in 1 .. m : j = m \/ j \in 1 .. m - 1
    BY <1>3, <1>4, StreamFacts
  <2>8. \A k \in 1 .. m : RightAmong(k, m)'
    BY <2>5, <2>6, <2>7, Zenon
  <2>. QED
    BY <1>1, <1>4, <2>4, <2>8, GeneratedNext
<1>. QED
  BY <1>2, <1>7, <1>8, Zenon DEF CallYields

\* None is decoded by a decoder just made.
LEMMA GeneratedOfGenerate ==
  ASSUME Generate, StreamInv'
  PROVE  GeneratedDecodes'
<1>1. offset' = 0
  BY Zenon DEF Generate, Open
<1>2. (StreamInv => GeneratedSoFar)'
  BY GeneratedBehind, PTL
<1>3. (StreamInv => 0 \in 0 .. Len(stream) /\ EndOffset(0) = 0)'
  BY StreamBegins, PTL
<1>4. \A k \in 1 .. 0 : RightAmong(k, 0)'
  OBVIOUS
<1>. QED
  BY <1>1, <1>2, <1>3, <1>4, Zenon DEF GeneratedSoFar

\* The other steps leave them as they are.
LEMMA GeneratedOfRest ==
  ASSUME GeneratedDecodes,
         Interpret \/ MergeProfile \/ AnotherScanner \/ NoCase \/ GenEnded \/ UNCHANGED allVars
  PROVE  GeneratedDecodes'
<1>1. CASE Interpret \/ MergeProfile \/ AnotherScanner
  <2>1. phase' # "generated"
    BY <1>1 DEF Interpret, MergeProfile, AnotherScanner, genVars
  <2>. QED
    BY <2>1, Zenon DEF GeneratedDecodes
<1>2. CASE NoCase \/ GenEnded \/ UNCHANGED allVars
  <2>1. UNCHANGED <<type, stream, merged, phase, offset, result, wild>>
    BY <1>2 DEF NoCase, GenEnded, allVars, genVars, vars
  <2>2. \A r : (Familiar(r)' <=> Familiar(r)) /\ (CutShort(r)' <=> CutShort(r))
    BY <2>1, RunsStay, Zenon
  <2>3. W' = W /\ \A k : EndOffset(k)' = EndOffset(k)
    BY <2>1, Zenon DEF W, EndOffset
  <2>4. Done' = Done /\ \A k : Segment(k)' = Segment(k)
    BY <2>1, <2>3, Zenon DEF Done, Segment
  <2>5. \A r : TooWide(r)' <=> TooWide(r)
    BY <2>3, Zenon DEF TooWide
  <2>. QED
    BY <2>1, <2>2, <2>3, <2>4, <2>5, Zenon DEF GeneratedDecodes
<1>. QED
  BY <1>1, <1>2

\* What a call shifts too far.
LEMMA UndefinedStays ==
  ASSUME UNCHANGED <<type, stream, merged, offset>>
  PROVE  /\ NextRun' = NextRun
         /\ \A r : (Familiar(r)' <=> Familiar(r)) /\ (Poisonous(r)' <=> Poisonous(r))
<1>1. W' = W /\ \A k : EndOffset(k)' = EndOffset(k)
  BY Zenon DEF W, EndOffset
<1>2. Done' = Done
  BY <1>1, Zenon DEF Done
<1>3. NextRun' = NextRun
  BY <1>2, Zenon DEF NextRun
<1>4. \A r : Familiar(r)' <=> Familiar(r)
  BY RunsStay, Zenon
<1>5. \A r : Poisonous(r)' <=> Poisonous(r)
  BY <1>1, Zenon DEF Poisonous
<1>. QED
  BY <1>3, <1>4, <1>5

\* The run in front of the decoder is the next one.
LEMMA RunAfterDone ==
  ASSUME StreamInv, NEW m, InFrontOf(m)
  PROVE  NextRun = stream[m].run
<1>1. m - 1 \in 0 .. Len(stream) /\ offset = EndOffset(m-1) /\ (m - 1) + 1 = m
  BY StreamFacts DEF InFrontOf
<1>2. Cardinality(Done) = m - 1
  BY <1>1, DoneBehind
<1>. QED
  BY <1>1, <1>2, Zenon DEF NextRun

\* A call that shifts too far.
LEMMA UndefinedOfCall ==
  ASSUME ProfileInv, MergeInv, DecoderInv, ValuesInv, IsCall
  PROVE  UndefinedOnlyWhere'
<1>1. UNCHANGED <<type, stream, merged>> /\ fault = "no"
  BY CallTaken
<1>2. PICK m : InFrontOf(m) /\ CallYields(stream[m].run)
  BY CallTaken
<1>3. NextRun = stream[m].run
  BY <1>2, RunAfterDone DEF ProfileInv, GenInv
<1>4. CASE /\ UNCHANGED offset
           /\ fault' = "undefined" /\ Familiar(NextRun) => Poisonous(NextRun)
  BY <1>1, <1>4, UndefinedStays, Zenon DEF UndefinedOnlyWhere
<1>5. CASE UNCHANGED fault
  BY <1>1, <1>5 DEF UndefinedOnlyWhere
<1>. QED
  BY <1>2, <1>3, <1>4, <1>5, Zenon DEF CallYields

\* A decoder without a case for a run was not made for it.
LEMMA UndefinedOfNoCase ==
  ASSUME ProfileInv, MergeInv, DecoderInv, NoCase
  PROVE  UndefinedOnlyWhere'
<1>1. /\ Decoding /\ UNCHANGED <<type, stream, merged, offset>>
      /\ \A k \in decoder.cases : Encoding # Code[k]
  BY DEF NoCase, vars
<1>2. decoder # None /\ StreamInv /\ AtRun /\ index < Len(data)
  BY <1>1 DEF Decoding, DecoderInv, ProfileInv, GenInv
<1>3. PICK m : InFrontOf(m)
  BY <1>2, OneInFront DEF AtRun, StaysInStep
<1>4. /\ decoder.cases \subseteq Kind
      /\ \A k \in Kind : k \in decoder.cases <=> WidthsMet(k) # {}
  BY <1>2, CasesMet
<1>5. NextRun = stream[m].run
  BY <1>2, <1>3, RunAfterDone
<1>6. NextRun.kind \in Kind /\ Encoding = Code[NextRun.kind]
  BY <1>3, <1>5, KindRead, Zenon DEF InFrontOf
<1>7. WidthsMet(NextRun.kind) = {}
  BY <1>1, <1>4, <1>6, Zenon
<1>8. ~Familiar(NextRun)
  BY <1>7 DEF Familiar
<1>. QED
  BY <1>1, <1>8, UndefinedStays, Zenon DEF UndefinedOnlyWhere

\* The other steps fail on nothing.
LEMMA UndefinedOfRest ==
  ASSUME DecoderInv, UndefinedOnlyWhere,
         \/ Interpret \/ MergeProfile \/ AnotherScanner \/ Generate
         \/ GenEnded \/ UNCHANGED allVars
  PROVE  UndefinedOnlyWhere'
<1>1. CASE Interpret \/ MergeProfile \/ AnotherScanner \/ Generate
  <2>1. phase # "generated" /\ UNCHANGED fault
    BY <1>1 DEF Interpret, MergeProfile, AnotherScanner, Generate, genVars, Open
  <2>. QED
    BY <2>1 DEF DecoderInv, UndefinedOnlyWhere
<1>2. CASE GenEnded \/ UNCHANGED allVars
  <2>1. UNCHANGED <<type, stream, merged, offset, fault>>
    BY <1>2 DEF GenEnded, allVars, genVars, vars
  <2>. QED
    BY <2>1, UndefinedStays, Zenon DEF UndefinedOnlyWhere
<1>. QED
  BY <1>1, <1>2

\* All that is kept when the streams are those of numbers of the decoded type.
DecodesInv ==
  /\ ProfileInv /\ MergeInv /\ DecoderInv /\ ValuesInv
  /\ GeneratedDecodes /\ UndefinedOnlyWhere

\* All is right at the start.
LEMMA DecodesStart ==
  ASSUME StreamsFit, GenInit
  PROVE  DecodesInv
<1>1. ProfileInv /\ MergeInv /\ DecoderInv
  BY ProfileStarts, MergeStarts, DecoderStarts
<1>2. StreamInv /\ type \in Instances
  BY <1>1 DEF ProfileInv, GenInv, StreamInv
<1>3. PICK runs \in Streams(W, IsSigned) : stream = [k \in DOMAIN runs |-> Written(runs[k])]
  BY Zenon DEF GenInit, Init
<1>4. FitInv
  <2>1. W \in CWidths
    BY <1>2, TypesFit
  <2>2. DOMAIN stream = DOMAIN runs /\ \A k \in DOMAIN runs : stream[k].run = runs[k]
    <3>1. \A r : Written(r).run = r
      BY DEF Written
    <3>2. DOMAIN stream = DOMAIN runs /\ \A k \in DOMAIN runs : stream[k] = Written(runs[k])
      BY <1>3
    <3>. QED
      BY <3>1, <3>2, Zenon
  <2>3. \A k \in DOMAIN runs : Fits(runs[k], W, IsSigned)
    BY <1>2, <1>3, Zenon DEF StreamsFit, W, IsSigned
  <2>. QED
    BY <2>1, <2>2, <2>3, Zenon DEF FitInv
<1>5. /\ index = 0 /\ offset = 0 /\ result = <<>> /\ wild = FALSE
      /\ phase = "scan" /\ fault = "no"
  BY DEF GenInit, Init
<1>6. ValuesInv
  BY <1>2, <1>4, <1>5, BlankBatch, NothingDecoded DEF ValuesInv, InterpreterDecodes
<1>7. GeneratedDecodes
  BY <1>5 DEF GeneratedDecodes
<1>8. UndefinedOnlyWhere
  BY <1>5 DEF UndefinedOnlyWhere
<1>. QED
  BY <1>1, <1>6, <1>7, <1>8 DEF DecodesInv

\* Every step keeps it so.
LEMMA StepKeepsDecodes ==
  ASSUME StreamsFit, DecodesInv, [GenNext]_allVars
  PROVE  DecodesInv'
<1>1. /\ ProfileInv /\ MergeInv /\ DecoderInv /\ ValuesInv /\ GeneratedDecodes
      /\ UndefinedOnlyWhere /\ GenInv
  BY DEF DecodesInv, ProfileInv
<1>2. ProfileInv' /\ MergeInv' /\ DecoderInv' /\ StreamInv'
  BY <1>1, StepKeepsAll DEF ProfileInv, GenInv
<1>3. CASE IsCall
  BY <1>1, <1>2, <1>3, ValuesOfCall, GeneratedOfCall, UndefinedOfCall DEF DecodesInv
<1>4. CASE Interpret
  BY <1>1, <1>2, <1>4, ValuesOfTurn, GeneratedOfRest, UndefinedOfRest DEF DecodesInv
<1>5. CASE AnotherScanner
  BY <1>1, <1>2, <1>5, ValuesOfScanner, GeneratedOfRest, UndefinedOfRest DEF DecodesInv
<1>6. CASE Generate
  BY <1>1, <1>2, <1>6, ValuesOfGenerate, GeneratedOfGenerate, UndefinedOfRest DEF DecodesInv
<1>7. CASE NoCase
  <2>1. UNCHANGED <<vars, phase>>
    BY <1>7 DEF NoCase
  <2>2. ValuesInv'
    BY <1>1, <2>1, ValuesStay DEF Interpreted
  <2>. QED
    BY <1>1, <1>2, <1>7, <2>2, GeneratedOfRest, UndefinedOfNoCase DEF DecodesInv
<1>8. CASE MergeProfile \/ GenEnded \/ UNCHANGED allVars
  <2>1. UNCHANGED vars /\ (Interpreted' => Interpreted)
    BY <1>8 DEF MergeProfile, GenEnded, allVars, genVars, Interpreted
  <2>2. ValuesInv'
    BY <1>1, <2>1, ValuesStay
  <2>. QED
    BY <1>1, <1>2, <1>8, <2>2, GeneratedOfRest, UndefinedOfRest DEF DecodesInv
<1>. QED
  BY <1>3, <1>4, <1>5, <1>6, <1>7, <1>8, Zenon DEF GenNext, IsCall

\* It always is.
LEMMA DecodesKept == StreamsFit => (GenSpec => []DecodesInv)
<1>. SUFFICES ASSUME StreamsFit PROVE GenSpec => []DecodesInv
  OBVIOUS
<1>1. GenInit => DecodesInv
  BY DecodesStart
<1>2. DecodesInv /\ [GenNext]_allVars => DecodesInv'
  BY StepKeepsDecodes
<1>. QED
  BY <1>1, <1>2, PTL DEF GenSpec

\* Whatever streams writers write of numbers of the decoded type, and in whatever
\* order the scanners read them, the batch the interpreter fills (readLongs,
\* readVulong and the four branches of RLE2::next, RLE2.cpp) holds the numbers
\* that were written, in exactly the runs whose steps and patches the type can
\* carry; it writes outside of its batch only for a patch too wide.
THEOREM InterpreterIsRight == StreamsFit => (GenSpec => []InterpreterDecodes)
<1>1. DecodesInv => InterpreterDecodes
  BY DEF DecodesInv, ValuesInv
<1>. QED
  BY <1>1, DecodesKept, PTL

\* Whatever profile it was specialised on, the generated decoder
\* (genfunc_nextRepeat, genfunc_nextDirect, genfunc_nextPatched and
\* genfunc_nextDelta, genfunc-ir.cpp, with genfunc_readLongs, util-ir.cpp) has the
\* numbers that were written in every run it was generated for, unless it takes too
\* few bytes of one, and gets wrong exactly those runs the interpreter gets wrong.
THEOREM GeneratedIsRight == StreamsFit => (GenSpec => []GeneratedDecodes)
<1>1. DecodesInv => GeneratedDecodes
  BY DEF DecodesInv
<1>. QED
  BY <1>1, DecodesKept, PTL

\* On a run it was generated for, a generated decoder shifts an LLVM integer by
\* its width or more (genfunc_readLongBE, genfunc_readVLong and genfunc_readLongs,
\* util-ir.cpp, and genfunc_nextPatched, genfunc-ir.cpp) only for the base of a
\* patched run that needs the top bit, or in 8 bits for a field of 8 bits or more.
THEOREM UndefinedIsPoison == StreamsFit => (GenSpec => []UndefinedOnlyWhere)
<1>1. DecodesInv => UndefinedOnlyWhere
  BY DEF DecodesInv
<1>. QED
  BY <1>1, DecodesKept, PTL
=============================================================================
