---------------------------- MODULE ArithmeticProofs ---------------------------
(***************************************************************************)
(* Theorems about the arithmetic of PgNumeric, for every radix, precision  *)
(* and scale, and about every operator of PgInt2 and PgInt8, for every     *)
(* width of their types.  The provers multiply well enough when they are   *)
(* given the few inequalities that matter, so the laws of integers come    *)
(* first, each for itself; then what Pow is; then PgNumeric; then the      *)
(* machine integers, their bits, and what each operator makes of its       *)
(* operands, from which the theorems about the calls follow.               *)
(***************************************************************************)
EXTENDS Values, WellFoundedInduction, NaturalsInduction, TLAPS

-----------------------------------------------------------------------------
(* The integers. *)

LEMMA Product ==
    ASSUME NEW x \in Int, NEW y \in Int
    PROVE  x * y \in Int
OBVIOUS

LEMMA Mono ==
    ASSUME NEW x \in Int, NEW y \in Int, NEW z \in Nat, x <= y
    PROVE  x * z <= y * z
OBVIOUS

LEMMA MonoStrict ==
    ASSUME NEW x \in Int, NEW y \in Int, NEW z \in Nat \ {0}, x < y
    PROVE  x * z < y * z
OBVIOUS

LEMMA CancelLess ==
    ASSUME NEW x \in Int, NEW y \in Int, NEW z \in Nat \ {0}, x * z < y * z
    PROVE  x < y
OBVIOUS

LEMMA Distr ==
    ASSUME NEW x \in Int, NEW y \in Int, NEW z \in Int
    PROVE  (x + y) * z = x * z + y * z
OBVIOUS

LEMMA SignOf ==
    ASSUME NEW x \in Int, NEW z \in Nat \ {0}
    PROVE  x * z < 0 <=> x < 0
OBVIOUS

LEMMA Scale ==
    ASSUME NEW x \in Int, NEW y \in Int, NEW z \in Nat \ {0}, NEW u \in Int, x < y, y * z <= u
    PROVE  x * z < u
BY MonoStrict

\* The numerators of a sum or a difference over a common denominator.
LEMMA CombinedBy ==
    ASSUME NEW a \in Int, NEW b \in Int, NEW c \in Int, NEW m \in Int, NEW x \in Int, NEW y \in Int,
           NEW xs \in Int, NEW ys \in Int, a * c = m * (x * ys), b * c = m * (y * xs),
           NEW sign \in {1, -1}
    PROVE  (a + sign * b) * c = m * (x * ys + sign * y * xs)
<1>1. CASE sign = 1
  <2>1. (a + b) * c = a * c + b * c
    BY Distr
  <2>2. m * (x * ys + y * xs) = m * (x * ys) + m * (y * xs)
    OBVIOUS
  <2>3. sign * y * xs = y * xs /\ a + sign * b = a + b
    BY <1>1
  <2> QED BY <2>1, <2>2, <2>3
<1>2. CASE sign = -1
  <2>1. (a - b) * c = a * c - b * c
    OBVIOUS
  <2>2. m * (x * ys - y * xs) = m * (x * ys) - m * (y * xs)
    OBVIOUS
  <2>3. x * ys + sign * y * xs = x * ys - y * xs /\ a + sign * b = a - b
    BY <1>2
  <2> QED BY <2>1, <2>2, <2>3
<1> QED BY <1>1, <1>2

LEMMA DivIs ==
    ASSUME NEW a \in Int, NEW b \in Nat \ {0}
    PROVE  a \div b \in Int /\ b * (a \div b) <= a /\ a < b * (a \div b) + b
OBVIOUS

LEMMA QuotientIs ==
    ASSUME NEW a \in Int, NEW b \in Nat \ {0}, NEW q \in Int, b * q <= a, a < b * q + b
    PROVE  a \div b = q
<1>1. a \div b \in Int /\ b * (a \div b) <= a /\ a < b * (a \div b) + b
  BY DivIs
<1> DEFINE p == a \div b
<1> HIDE DEF p
<1>2. p \in Int /\ b * p <= a /\ a < b * p + b
  BY <1>1 DEF p
<1>3. CASE p < q
  <2>1. p + 1 <= q
    BY <1>2, <1>3
  <2>2. (p + 1) * b <= q * b
    BY <1>2, <2>1, Mono
  <2>3. (p + 1) * b = b * p + b /\ q * b = b * q
    BY <1>2
  <2> QED BY <1>2, <2>2, <2>3
<1>4. CASE q < p
  <2>1. q + 1 <= p
    BY <1>2, <1>4
  <2>2. (q + 1) * b <= p * b
    BY <1>2, <2>1, Mono
  <2>3. (q + 1) * b = b * q + b /\ p * b = b * p
    BY <1>2
  <2> QED BY <1>2, <2>2, <2>3
<1> QED BY <1>2, <1>3, <1>4 DEF p

-----------------------------------------------------------------------------
(* Pow.  That the function it is defined by exists takes an induction, which *)
(* is done with the least natural number that would be an exception.         *)

LEMMA LeastOf ==
    ASSUME NEW S \in SUBSET Nat, S # {}
    PROVE  \E x \in S : \A y \in S : x <= y
<1> DEFINE Below == {p \in Nat \X Nat : p[1] < p[2]}
<1>1. IsWellFoundedOn(Below, Nat)
  BY NatLessThanWellFounded DEF OpToRel
<1>2. PICK x \in S : \A y \in S : ~(<<y, x>> \in Below)
  <2> HIDE DEF Below
  <2> QED BY <1>1, WFMin
<1>3. ASSUME NEW y \in S
      PROVE  ~(y < x)
  <2>1. ~(<<y, x>> \in Below)
    BY <1>2
  <2>2. <<y, x>> \in Nat \X Nat /\ <<y, x>>[1] = y /\ <<y, x>>[2] = x
    OBVIOUS
  <2> QED BY <2>1, <2>2
<1> QED BY <1>3

\* The powers of b up to the n-th.
IsPowers(b, n, f) ==
    /\ f \in [0 .. n -> Int] /\ f[0] = 1
    /\ \A k \in 1 .. n : f[k] = b * f[k - 1]

LEMMA PowersExist ==
    ASSUME NEW b \in Int, NEW n \in Nat
    PROVE  \E f : IsPowers(b, n, f)
<1> DEFINE Without == {m \in Nat : ~\E f : IsPowers(b, m, f)}
<1> SUFFICES ASSUME Without # {}
             PROVE  FALSE
  OBVIOUS
<1>1. PICK m \in Without : \A j \in Without : m <= j
  <2>1. Without \in SUBSET Nat
    OBVIOUS
  <2> HIDE DEF Without
  <2> QED BY <2>1, LeastOf
<1>2. CASE m = 0
  <2>1. IsPowers(b, 0, [k \in 0 .. 0 |-> 1])
    BY DEF IsPowers
  <2> QED BY <1>2, <2>1
<1>3. CASE m # 0
  <2>1. m - 1 \in Nat /\ ~(m - 1 \in Without)
    BY <1>1, <1>3
  <2>2. PICK f : IsPowers(b, m - 1, f)
    BY <2>1
  <2> DEFINE g == [k \in 0 .. m |-> IF k = m THEN b * f[m - 1] ELSE f[k]]
  <2>3. f \in [0 .. m - 1 -> Int] /\ f[0] = 1 /\ \A k \in 1 .. m - 1 : f[k] = b * f[k - 1]
    BY <2>2 DEF IsPowers
  <2>4. g \in [0 .. m -> Int] /\ g[0] = 1
    BY <1>3, <2>1, <2>3
  <2>5. \A k \in 1 .. m : g[k] = b * g[k - 1]
    <3> SUFFICES ASSUME NEW k \in 1 .. m
                 PROVE  g[k] = b * g[k - 1]
      OBVIOUS
    <3>1. CASE k = m
      <4>1. g[m] = b * f[m - 1] /\ g[m - 1] = f[m - 1]
        BY <2>1
      <4> QED BY <3>1, <4>1
    <3>2. CASE k # m
      <4>1. k \in 1 .. m - 1 /\ k - 1 # m /\ k - 1 \in 0 .. m /\ k \in 0 .. m
        BY <2>1, <3>2
      <4>2. g[k] = f[k] /\ g[k - 1] = f[k - 1]
        BY <3>2, <4>1
      <4> HIDE DEF g
      <4> QED BY <2>3, <4>1, <4>2
    <3> QED BY <3>1, <3>2
  <2>6. IsPowers(b, m, g)
    <3> HIDE DEF g
    <3> QED BY <2>4, <2>5 DEF IsPowers
  <2> QED BY <2>6
<1> QED BY <1>2, <1>3

LEMMA PowersAgree ==
    ASSUME NEW b \in Int, NEW n \in Nat, NEW m \in Nat, NEW f, NEW g,
           IsPowers(b, n, f), IsPowers(b, m, g), NEW k \in Nat, k <= n, k <= m
    PROVE  f[k] = g[k]
<1> DEFINE Differ == {i \in Nat : i <= n /\ i <= m /\ f[i] # g[i]}
<1> SUFFICES ASSUME Differ # {}
             PROVE  FALSE
  OBVIOUS
<1>1. PICK i \in Differ : \A j \in Differ : i <= j
  <2>1. Differ \in SUBSET Nat
    OBVIOUS
  <2> HIDE DEF Differ
  <2> QED BY <2>1, LeastOf
<1>2. i # 0
  BY <1>1 DEF IsPowers
<1>3. i - 1 \in Nat /\ ~(i - 1 \in Differ)
  BY <1>1, <1>2
<1>4. f[i - 1] = g[i - 1]
  BY <1>1, <1>3
<1>5. f[i] = b * f[i - 1] /\ g[i] = b * g[i - 1]
  <2>1. i \in 1 .. n /\ i \in 1 .. m
    BY <1>1, <1>2
  <2> QED BY <2>1 DEF IsPowers
<1> QED BY <1>1, <1>4, <1>5

PowersOf(b) == [k \in Nat |-> (CHOOSE f : IsPowers(b, k, f))[k]]

LEMMA PowersOfAre ==
    ASSUME NEW b \in Int
    PROVE  PowersOf(b) = [k \in Nat |-> IF k = 0 THEN 1 ELSE b * PowersOf(b)[k - 1]]
<1> DEFINE p == PowersOf(b)
           F(k) == CHOOSE f : IsPowers(b, k, f)
<1>1. \A k \in Nat : IsPowers(b, k, F(k))
  BY PowersExist
<1>2. p = [k \in Nat |-> F(k)[k]]
  BY DEF PowersOf
<1> HIDE DEF F, p
<1>3. ASSUME NEW k \in Nat
      PROVE  p[k] = IF k = 0 THEN 1 ELSE b * p[k - 1]
  <2>1. p[k] = F(k)[k] /\ IsPowers(b, k, F(k))
    BY <1>1, <1>2
  <2>2. CASE k = 0
    BY <2>1, <2>2 DEF IsPowers
  <2>3. CASE k # 0
    <3>1. k - 1 \in Nat /\ k - 1 <= k /\ k \in 1 .. k
      BY <2>3
    <3>2. p[k - 1] = F(k - 1)[k - 1] /\ IsPowers(b, k - 1, F(k - 1))
      BY <1>1, <1>2, <3>1
    <3>3. F(k)[k - 1] = F(k - 1)[k - 1]
      BY <2>1, <3>1, <3>2, PowersAgree
    <3>4. F(k)[k] = b * F(k)[k - 1]
      BY <2>1, <3>1 DEF IsPowers
    <3> QED BY <2>1, <2>3, <3>2, <3>3, <3>4
  <2> QED BY <2>2, <2>3
<1>4. p = [k \in Nat |-> IF k = 0 THEN 1 ELSE b * p[k - 1]]
  <2> DEFINE v(k) == IF k = 0 THEN 1 ELSE b * p[k - 1]
             w(k) == F(k)[k]
  <2>1. \A k \in Nat : w(k) = v(k)
    BY <1>2, <1>3
  <2>2. p = [k \in Nat |-> w(k)]
    BY <1>2
  <2> HIDE DEF v, w
  <2>3. p = [k \in Nat |-> v(k)]
    BY <2>1, <2>2
  <2> QED BY <2>3 DEF v
<1> QED BY <1>4 DEF p

LEMMA PowIs ==
    ASSUME NEW b \in Int
    PROVE  /\ Pow(b, 0) = 1
           /\ \A n \in Nat : Pow(b, n + 1) = b * Pow(b, n)
<1> DEFINE f == CHOOSE f : f = [k \in Nat |-> IF k = 0 THEN 1 ELSE b * f[k - 1]]
<1>1. f = [k \in Nat |-> IF k = 0 THEN 1 ELSE b * f[k - 1]]
  BY PowersOfAre
<1>2. \A n \in Nat : Pow(b, n) = f[n]
  BY DEF Pow
<1> HIDE DEF f
<1>3. \A n \in Nat : f[n] = IF n = 0 THEN 1 ELSE b * f[n - 1]
  BY <1>1
<1>4. ASSUME NEW n \in Nat
      PROVE  Pow(b, n + 1) = b * Pow(b, n)
  <2>1. n + 1 \in Nat /\ n + 1 # 0 /\ (n + 1) - 1 = n
    OBVIOUS
  <2> QED BY <1>2, <1>3, <2>1
<1> QED BY <1>2, <1>3, <1>4

LEMMA PowType ==
    ASSUME NEW b \in Nat \ {0}, NEW n \in Nat
    PROVE  Pow(b, n) \in Nat \ {0}
<1> DEFINE Bad == {k \in Nat : Pow(b, k) \notin Nat \ {0}}
<1> SUFFICES ASSUME Bad # {}
             PROVE  FALSE
  OBVIOUS
<1>1. PICK k \in Bad : \A j \in Bad : k <= j
  <2>1. Bad \in SUBSET Nat
    OBVIOUS
  <2> HIDE DEF Bad
  <2> QED BY <2>1, LeastOf
<1>2. k # 0
  BY <1>1, PowIs
<1>3. k - 1 \in Nat /\ Pow(b, k - 1) \in Nat \ {0}
  BY <1>1, <1>2
<1>4. Pow(b, k) = b * Pow(b, k - 1)
  <2>1. Pow(b, (k - 1) + 1) = b * Pow(b, k - 1) /\ (k - 1) + 1 = k
    BY <1>3, PowIs
  <2> QED BY <2>1
<1> QED BY <1>1, <1>3, <1>4

LEMMA PowSum ==
    ASSUME NEW b \in Nat \ {0}, NEW m \in Nat, NEW n \in Nat
    PROVE  Pow(b, m + n) = Pow(b, m) * Pow(b, n)
<1> DEFINE Bad == {k \in Nat : Pow(b, m + k) # Pow(b, m) * Pow(b, k)}
<1> SUFFICES ASSUME Bad # {}
             PROVE  FALSE
  OBVIOUS
<1>1. PICK k \in Bad : \A j \in Bad : k <= j
  <2>1. Bad \in SUBSET Nat
    OBVIOUS
  <2> HIDE DEF Bad
  <2> QED BY <2>1, LeastOf
<1>2. k # 0
  <2>1. Pow(b, m + 0) = Pow(b, m) * Pow(b, 0)
    BY PowIs, PowType
  <2> QED BY <1>1, <2>1
<1> DEFINE j == k - 1
<1>3. j \in Nat /\ j + 1 = k /\ m + j \in Nat /\ (m + j) + 1 = m + k
      /\ Pow(b, m + j) = Pow(b, m) * Pow(b, j)
  BY <1>1, <1>2
<1> HIDE DEF j
<1>4. Pow(b, m + k) = b * Pow(b, m + j) /\ Pow(b, k) = b * Pow(b, j)
  <2>1. Pow(b, (m + j) + 1) = b * Pow(b, m + j) /\ Pow(b, j + 1) = b * Pow(b, j)
    BY <1>3, PowIs
  <2> QED BY <1>3, <2>1
<1>5. Pow(b, m) \in Nat /\ Pow(b, j) \in Nat
  BY <1>3, PowType
<1>6. b * (Pow(b, m) * Pow(b, j)) = Pow(b, m) * (b * Pow(b, j))
  BY <1>5
<1> QED BY <1>1, <1>3, <1>4, <1>6

LEMMA PowMono ==
    ASSUME NEW b \in Nat \ {0}, NEW m \in Nat, NEW n \in Nat, m <= n
    PROVE  Pow(b, m) <= Pow(b, n)
<1> DEFINE d == n - m
<1>1. d \in Nat /\ m + d = n
  OBVIOUS
<1> HIDE DEF d
<1>2. Pow(b, n) = Pow(b, m) * Pow(b, d) /\ Pow(b, m) \in Nat /\ Pow(b, d) \in Nat \ {0}
  BY <1>1, PowSum, PowType
<1> QED BY <1>2

\* A quotient that is rounded down, against a bound.
LEMMA AtLeastQuotient ==
    ASSUME NEW a \in Int, NEW b \in Nat \ {0}, NEW k \in Int
    PROVE  /\ b * k <= a => k <= a \div b
           /\ a < b * k => a \div b < k
<1> DEFINE q == a \div b
<1>1. q \in Int /\ b * q <= a /\ a < b * q + b
  BY DivIs
<1> HIDE DEF q
<1>2. ASSUME b * k <= a, k > q
      PROVE  FALSE
  <2>1. q + 1 <= k
    BY <1>1, <1>2
  <2>2. (q + 1) * b <= k * b
    BY <1>1, <2>1, Mono
  <2> QED BY <1>1, <1>2, <2>2
<1>3. ASSUME a < b * k, q >= k
      PROVE  FALSE
  <2>1. k * b <= q * b
    BY <1>1, <1>3, Mono
  <2> QED BY <1>1, <1>3, <2>1
<1> QED BY <1>1, <1>2, <1>3 DEF q

-----------------------------------------------------------------------------
(* PgNumeric. *)

P(n) == Pow(RADIX, n)

LEMMA RadixIs ==
    /\ RADIX \in Nat \ {0} /\ RADIX = 2 * (RADIX \div 2) /\ RADIX \div 2 \in Nat \ {0}
    /\ P(0) = 1
    /\ \A n \in Nat : P(n) \in Nat \ {0} /\ P(n + 1) = RADIX * P(n)
    /\ \A m, n \in Nat : P(m + n) = P(m) * P(n)
    /\ \A m, n \in Nat : m <= n => P(m) <= P(n)
<1>1. RADIX \in Nat \ {0} /\ RADIX % 2 = 0
  BY NumericAssumption
<1>2. RADIX = 2 * (RADIX \div 2) /\ RADIX \div 2 \in Nat \ {0}
  BY <1>1
<1>3. P(0) = 1 /\ \A n \in Nat : P(n + 1) = RADIX * P(n)
  BY <1>1, PowIs DEF P
<1>4. \A n \in Nat : P(n) \in Nat \ {0}
  BY <1>1, PowType DEF P
<1>5. \A m, n \in Nat : P(m + n) = P(m) * P(n)
  BY <1>1, PowSum DEF P
<1>6. \A m, n \in Nat : m <= n => P(m) <= P(n)
  BY <1>1, PowMono DEF P
<1> QED BY <1>1, <1>2, <1>3, <1>4, <1>5, <1>6

LEMMA InitIs ==
    ASSUME NEW v \in Int, NEW p \in Nat, NEW s \in Nat, s <= p
    PROVE  LET r == PgNumeric_init(v, p, s)
           IN  /\ TooLong(v, p) => r.error = "OverflowError"
               /\ ~TooLong(v, p) => /\ r = Numeric(v, p, s) /\ r \in NumericType
                                    /\ r.error = "none" /\ r.v = v /\ r.s = s
               /\ p # 0 /\ Abs(v) < P(p) => ~TooLong(v, p)
<1>1. P(p) \in Nat
  BY RadixIs
<1>2. Abs(v) \in Int /\ v <= Abs(v)
  BY DEF Abs
<1>3. p # 0 /\ Abs(v) < P(p) => ~TooLong(v, p)
  BY <1>1, <1>2 DEF TooLong, P
<1>4. TooLong(v, p) => PgNumeric_init(v, p, s).error = "OverflowError"
  BY DEF PgNumeric_init, NumericError
<1>5. ~TooLong(v, p) => PgNumeric_init(v, p, s) = Numeric(v, p, s)
  BY DEF PgNumeric_init
<1>6. ~TooLong(v, p) => Numeric(v, p, s) \in NumericType
  BY <1>1, <1>2 DEF TooLong, Numeric, NumericType, P
<1>7. Numeric(v, p, s).error = "none" /\ Numeric(v, p, s).v = v /\ Numeric(v, p, s).s = s
  BY DEF Numeric
<1> QED BY <1>3, <1>4, <1>5, <1>6, <1>7

\* An operand, on the larger scale.
LEMMA AlignedIs ==
    ASSUME NEW x \in NumericType, NEW y \in NumericType
    PROVE  LET a == Aligned(x, y)
               ms == MaxOf(x.s, y.s)
               mp == IntegerDigits(x, y)
           IN  /\ a \in Int /\ ms \in Nat /\ mp \in Nat
               /\ a * P(x.s + y.s) = P(ms) * (x.v * P(y.s))
               /\ ~TooLong(x.v, x.p) => Abs(a) < P(mp + ms) /\ mp + ms # 0
               /\ a < 0 <=> x.v < 0
<1> DEFINE a == Aligned(x, y)
           ms == MaxOf(x.s, y.s)
           mp == IntegerDigits(x, y)
           d == ms - x.s
<1>1. /\ x.v \in Int /\ x.p \in Nat /\ x.s \in Nat /\ x.s <= x.p
      /\ y.p \in Nat /\ y.s \in Nat /\ y.s <= y.p
  BY DEF NumericType
<1>2. ms \in Nat /\ x.s <= ms /\ mp \in Nat /\ x.p - x.s <= mp
  BY <1>1 DEF MaxOf, IntegerDigits
<1>3. a = x.v * P(d)
  BY DEF Aligned, Scaled, P
<1>4. d \in Nat /\ d + (x.s + y.s) = ms + y.s /\ x.p + d <= mp + ms /\ x.p + d \in Nat
      /\ mp + ms \in Nat /\ x.s + y.s \in Nat
  BY <1>1, <1>2
<1> HIDE DEF a, ms, mp, d
<1>5. P(d) \in Nat \ {0} /\ P(ms) \in Nat \ {0} /\ P(y.s) \in Nat \ {0} /\ P(x.p) \in Nat \ {0}
      /\ P(x.s + y.s) \in Nat \ {0}
  BY <1>1, <1>2, <1>4, RadixIs
<1>6. a * P(x.s + y.s) = P(ms) * (x.v * P(y.s))
  <2>1. P(d) * P(x.s + y.s) = P(ms) * P(y.s)
    <3>1. P(d + (x.s + y.s)) = P(d) * P(x.s + y.s)
      BY <1>4, RadixIs
    <3>2. P(ms + y.s) = P(ms) * P(y.s)
      BY <1>1, <1>2, RadixIs
    <3> QED BY <1>4, <3>1, <3>2
  <2>2. a * P(x.s + y.s) = x.v * (P(d) * P(x.s + y.s))
    BY <1>1, <1>3, <1>5
  <2>3. x.v * (P(ms) * P(y.s)) = P(ms) * (x.v * P(y.s))
    BY <1>1, <1>5
  <2> QED BY <2>1, <2>2, <2>3
<1>7. ~TooLong(x.v, x.p) => Abs(a) < P(mp + ms) /\ mp + ms # 0
  <2> SUFFICES ASSUME ~TooLong(x.v, x.p)
               PROVE  Abs(a) < P(mp + ms) /\ mp + ms # 0
    OBVIOUS
  <2>6. Abs(x.v) < P(x.p) /\ x.p # 0
    <3>1. Abs(x.v) \in Int
      BY <1>1 DEF Abs
    <3> QED BY <1>5, <3>1 DEF TooLong, P
  <2>7. mp + ms # 0
    BY <1>1, <1>4, <2>6
  <2>1. Abs(a) = Abs(x.v) * P(d)
    BY <1>1, <1>3, <1>5 DEF Abs
  <2>2. Abs(x.v) \in Int
    BY <1>1 DEF Abs
  <2>3. P(x.p) * P(d) = P(x.p + d)
    BY <1>1, <1>4, RadixIs
  <2>4. P(x.p + d) <= P(mp + ms)
    BY <1>4, RadixIs
  <2>5. P(mp + ms) \in Int
    BY <1>4, RadixIs
  <2> QED BY <1>1, <1>5, <2>1, <2>2, <2>3, <2>4, <2>5, <2>6, <2>7, Scale
<1>8. a \in Int /\ (a < 0 <=> x.v < 0)
  BY <1>1, <1>3, <1>5, SignOf, Product
<1> QED BY <1>2, <1>6, <1>7, <1>8 DEF a, ms, mp

\* A sum or a difference, and when it is no error.
LEMMA SumIs ==
    ASSUME NEW x \in NumericType, NEW y \in NumericType, NEW sign \in {1, -1},
           NEW p \in Nat, MaxOf(x.s, y.s) <= p
    PROVE  LET v == Aligned(x, y) + sign * Aligned(y, x)
               ms == MaxOf(x.s, y.s)
               r == PgNumeric_init(v, p, ms)
           IN  /\ r.error # "none" => r.error = "OverflowError"
               /\ r.error = "none" =>
                   /\ r \in NumericType
                   /\ r.s = ms
                   /\ r.v * P(x.s + y.s)
                        = P(ms) * (x.v * P(y.s) + sign * y.v * P(x.s))
<1> DEFINE a == Aligned(x, y)
           b == Aligned(y, x)
           ms == MaxOf(x.s, y.s)
           c == P(x.s + y.s)
           r == PgNumeric_init(a + sign * b, p, ms)
<1>1. /\ x.v \in Int /\ x.s \in Nat /\ y.v \in Int /\ y.s \in Nat
  BY DEF NumericType
<1>2. a \in Int /\ ms \in Nat /\ a * c = P(ms) * (x.v * P(y.s))
  BY AlignedIs
<1>3. b \in Int /\ b * c = P(ms) * (y.v * P(x.s))
  <2>1. MaxOf(y.s, x.s) = ms /\ y.s + x.s = x.s + y.s
    BY <1>1 DEF MaxOf
  <2>2. b \in Int /\ b * P(y.s + x.s) = P(MaxOf(y.s, x.s)) * (y.v * P(x.s))
    BY AlignedIs
  <2> QED BY <2>1, <2>2
<1>4. P(ms) \in Nat /\ P(x.s) \in Nat /\ P(y.s) \in Nat /\ c \in Nat
  <2>1. x.s + y.s \in Nat
    BY <1>1
  <2> HIDE DEF ms
  <2> QED BY <1>1, <1>2, <2>1, RadixIs
<1> HIDE DEF a, b, c, ms
<1>5. (a + sign * b) * c = P(ms) * (x.v * P(y.s) + sign * y.v * P(x.s))
  <2> DEFINE m == P(ms)
             xv == x.v
             yv == y.v
             xs == P(x.s)
             ys == P(y.s)
  <2>1. /\ a \in Int /\ b \in Int /\ c \in Int /\ m \in Int /\ xv \in Int /\ yv \in Int
        /\ xs \in Int /\ ys \in Int /\ sign \in {1, -1}
        /\ a * c = m * (xv * ys) /\ b * c = m * (yv * xs)
    BY <1>1, <1>2, <1>3, <1>4
  <2> HIDE DEF m, xv, yv, xs, ys
  <2>2. (a + sign * b) * c = m * (xv * ys + sign * yv * xs)
    BY ONLY <2>1, CombinedBy
  <2> QED BY <2>2 DEF m, xv, yv, xs, ys
<1>6. /\ r.error = "none" => r \in NumericType /\ r.v = a + sign * b /\ r.s = ms
      /\ r.error # "none" => r.error = "OverflowError"
  <2>1. a + sign * b \in Int /\ ms <= p
    BY <1>2, <1>3 DEF ms
  <2> QED BY <1>2, <2>1, InitIs
<1> HIDE DEF r
<1>7. r.error = "none" => r.s = ms /\ r.v * c = P(ms) * (x.v * P(y.s) + sign * y.v * P(x.s))
  BY <1>5, <1>6
<1> QED BY <1>6, <1>7 DEF a, b, c, ms, r

\* Numbers that are not both negative can be added: the carry has its digit.
LEMMA AddMakesRoom ==
    ASSUME NEW x \in NumericType, NEW y \in NumericType, ~(x.v < 0 /\ y.v < 0),
           ~TooLong(x.v, x.p), ~TooLong(y.v, y.p)
    PROVE  __add__(x, y).error = "none"
<1> DEFINE a == Aligned(x, y)
           b == Aligned(y, x)
           ms == MaxOf(x.s, y.s)
           mp == IntegerDigits(x, y)
           e == mp + ms
           carry == IF (a + b) \div P(e) > 0 THEN 1 ELSE 0
<1>1. /\ x.v \in Int /\ x.s \in Nat /\ x.p \in Nat /\ y.v \in Int /\ y.s \in Nat /\ y.p \in Nat
  BY DEF NumericType
<1>2. a \in Int /\ ms \in Nat /\ mp \in Nat /\ Abs(a) < P(e) /\ mp + ms # 0 /\ (a < 0 <=> x.v < 0)
  BY <1>1, AlignedIs
<1>3. b \in Int /\ Abs(b) < P(e) /\ (b < 0 <=> y.v < 0)
  <2>1. MaxOf(y.s, x.s) = ms /\ IntegerDigits(y, x) = mp
    BY <1>1 DEF MaxOf, IntegerDigits
  <2>2. /\ b \in Int /\ Abs(b) < P(IntegerDigits(y, x) + MaxOf(y.s, x.s))
        /\ (b < 0 <=> y.v < 0)
    BY <1>1, AlignedIs
  <2> QED BY <2>1, <2>2
<1>4. __add__(x, y) = PgNumeric_init(a + b, mp + carry + ms, ms)
  BY DEF __add__, P
<1> HIDE DEF a, b, ms, mp
<1>5. e \in Nat /\ P(e) \in Nat \ {0} /\ P(e + 1) = RADIX * P(e) /\ RADIX >= 2 /\ RADIX \in Nat
  BY <1>2, RadixIs
<1>6. /\ a < P(e) /\ b < P(e) /\ a + b \in Int /\ Abs(a + b) \in Int /\ Abs(a + b) < 2 * P(e)
      /\ a + b < P(e) => Abs(a + b) < P(e)
  <2> DEFINE u == P(e)
  <2>1. u \in Nat /\ Abs(a) < u /\ Abs(b) < u /\ ~(a < 0 /\ b < 0)
    BY <1>2, <1>3, <1>5
  <2> HIDE DEF u, e
  <2>2. /\ a < u /\ b < u /\ a + b \in Int /\ Abs(a + b) \in Int /\ Abs(a + b) < 2 * u
        /\ a + b < u => Abs(a + b) < u
    BY <1>2, <1>3, <2>1 DEF Abs
  <2> QED BY <2>2 DEF u
<1>7. carry \in {0, 1} /\ (carry = 0 => a + b < P(e))
  <2> DEFINE q == (a + b) \div P(e)
  <2>1. q \in Int /\ a + b < P(e) * q + P(e)
    BY <1>5, <1>6, DivIs
  <2> HIDE DEF q, e
  <2>2. q <= 0 => a + b < P(e)
    BY <1>5, <1>6, <2>1
  <2> QED BY <2>1, <2>2 DEF q
<1> HIDE DEF carry
<1>8. Abs(a + b) < P(e + carry)
  <2>1. CASE carry = 0
    <3>1. e + 0 = e
      BY <1>5
    <3> QED BY <1>6, <1>7, <2>1, <3>1
  <2>2. CASE carry = 1
    <3>1. Abs(a + b) < 2 * P(e)
      BY <1>6
    <3>3. 2 * P(e) <= RADIX * P(e)
      BY <1>5, Mono
    <3>2. RADIX * P(e) \in Int
      BY <1>5
    <3> QED BY <1>5, <1>6, <2>2, <3>1, <3>2, <3>3
  <2> QED BY <1>7, <2>1, <2>2
<1>9. mp + carry + ms = e + carry /\ e + carry \in Nat /\ ms <= e + carry /\ e + carry # 0
  BY <1>2, <1>7
<1> HIDE DEF e
<1> QED BY <1>2, <1>4, <1>6, <1>8, <1>9, InitIs

\* So can numbers of one sign be subtracted.
LEMMA SubMakesRoom ==
    ASSUME NEW x \in NumericType, NEW y \in NumericType, (x.v < 0) = (y.v < 0),
           ~TooLong(x.v, x.p), ~TooLong(y.v, y.p)
    PROVE  __sub__(x, y).error = "none"
<1> DEFINE a == Aligned(x, y)
           b == Aligned(y, x)
           ms == MaxOf(x.s, y.s)
           mp == IntegerDigits(x, y)
           e == mp + ms
<1>1. /\ x.v \in Int /\ x.s \in Nat /\ x.p \in Nat /\ y.v \in Int /\ y.s \in Nat /\ y.p \in Nat
  BY DEF NumericType
<1>2. a \in Int /\ ms \in Nat /\ mp \in Nat /\ Abs(a) < P(e) /\ e # 0 /\ (a < 0 <=> x.v < 0)
  BY <1>1, AlignedIs
<1>3. b \in Int /\ Abs(b) < P(e) /\ (b < 0 <=> y.v < 0)
  <2>1. MaxOf(y.s, x.s) = ms /\ IntegerDigits(y, x) = mp
    BY <1>1 DEF MaxOf, IntegerDigits
  <2>2. /\ b \in Int /\ Abs(b) < P(IntegerDigits(y, x) + MaxOf(y.s, x.s))
        /\ (b < 0 <=> y.v < 0)
    BY <1>1, AlignedIs
  <2> QED BY <2>1, <2>2
<1>4. __sub__(x, y) = PgNumeric_init(a - b, e, ms)
  BY DEF __sub__
<1> HIDE DEF a, b, ms, mp
<1>5. e \in Nat /\ P(e) \in Nat /\ ms <= e /\ e # 0
  BY <1>2, RadixIs
<1> HIDE DEF e
<1>6. a - b \in Int /\ Abs(a - b) < P(e)
  BY <1>2, <1>3, <1>5 DEF Abs
<1> QED BY <1>2, <1>4, <1>5, <1>6, InitIs

\* The product has the digits of both operands.
LEMMA MulIs ==
    ASSUME NEW x \in NumericType, NEW y \in NumericType
    PROVE  LET r == __mul__(x, y)
           IN  /\ r.error # "none" => r.error = "OverflowError"
               /\ r.error = "none" => r \in NumericType /\ r.v = x.v * y.v /\ r.s = x.s + y.s
               /\ ~TooLong(x.v, x.p) /\ ~TooLong(y.v, y.p) => r.error = "none"
<1> DEFINE a == x.v
           b == y.v
           u == P(x.p)
           w == P(y.p)
           r == PgNumeric_init(a * b, x.p + y.p, x.s + y.s)
<1>1. /\ a \in Int /\ x.s \in Nat /\ x.p \in Nat /\ x.s <= x.p
      /\ b \in Int /\ y.s \in Nat /\ y.p \in Nat /\ y.s <= y.p
  BY DEF NumericType
<1>2. u \in Nat \ {0} /\ w \in Nat \ {0} /\ P(x.p + y.p) = u * w
  BY <1>1, RadixIs
<1>3. ~TooLong(x.v, x.p) /\ ~TooLong(y.v, y.p) => Abs(a) < u /\ Abs(b) < w /\ x.p + y.p # 0
  <2>1. Abs(a) \in Int /\ Abs(b) \in Int
    BY <1>1 DEF Abs
  <2> QED BY <1>1, <1>2, <2>1 DEF TooLong, P
<1>9. __mul__(x, y) = r
  BY DEF __mul__
<1> HIDE DEF a, b, u, w
<1>8. /\ a * b \in Int /\ x.p + y.p \in Nat /\ x.s + y.s \in Nat /\ x.s + y.s <= x.p + y.p
  BY <1>1
<1>7. ASSUME Abs(a) < u, Abs(b) < w
      PROVE  Abs(a * b) < P(x.p + y.p)
  <2>1. Abs(a * b) = Abs(a) * Abs(b) /\ Abs(a) \in Nat /\ Abs(b) \in Nat
    BY <1>1 DEF Abs
  <2>2. Abs(a) * Abs(b) <= Abs(a) * w
    <3>1. Abs(b) * Abs(a) <= w * Abs(a)
      BY <1>2, <1>7, <2>1, Mono
    <3> QED BY <1>2, <2>1, <3>1
  <2>3. Abs(a) * w < u * w
    BY <1>2, <1>7, <2>1, MonoStrict
  <2>4. Abs(a) * Abs(b) \in Int /\ Abs(a) * w \in Int /\ u * w \in Int
    BY <1>2, <2>1
  <2> QED BY ONLY <1>2, <2>1, <2>2, <2>3, <2>4
<1>10. /\ r.error # "none" => r.error = "OverflowError"
       /\ r.error = "none" => r \in NumericType /\ r.v = a * b /\ r.s = x.s + y.s
       /\ x.p + y.p # 0 /\ Abs(a * b) < P(x.p + y.p) => r.error = "none"
  BY <1>8, InitIs
<1> HIDE DEF r
<1> QED BY <1>3, <1>7, <1>9, <1>10 DEF a, b

\* Adding half of the radix and dropping a digit rounds.
LEMMA HalfAdded ==
    ASSUME NEW a \in Int, NEW d \in Nat \ {0}
    PROVE  ((a \div d) + RADIX \div 2) \div RADIX = (2 * a + d * RADIX) \div (2 * (d * RADIX))
<1> DEFINE h == RADIX \div 2
           t == a \div d
           e == d * RADIX
           r == (2 * a + e) \div (2 * e)
<1>1. h \in Nat \ {0} /\ RADIX = 2 * h
  BY RadixIs
<1>2. e \in Nat \ {0} /\ 2 * e \in Nat \ {0} /\ 2 * a + e \in Int
  BY <1>1
<1>3. r \in Int /\ (2 * e) * r <= 2 * a + e /\ 2 * a + e < (2 * e) * r + 2 * e
  <2> HIDE DEF e
  <2> QED BY <1>2, DivIs
<1>4. t \in Int
  BY DivIs
<1> HIDE DEF t, r, h
<1>5. RADIX * r <= t + h
  <2>1. d * (RADIX * r - h) <= a
    <3>1. (2 * e) * r = 2 * (d * (RADIX * r)) /\ e = 2 * (d * h)
      BY <1>1, <1>3
    <3>2. d * (RADIX * r - h) = d * (RADIX * r) - d * h
      BY <1>1, <1>3
    <3>3. d * (RADIX * r) \in Int /\ d * h \in Int
      BY <1>1, <1>3
    <3> HIDE DEF e
    <3> QED BY <1>2, <1>3, <3>1, <3>2, <3>3
  <2>2. RADIX * r - h \in Int
    BY <1>1, <1>3
  <2>3. RADIX * r - h <= t
    BY <2>1, <2>2, AtLeastQuotient DEF t
  <2> QED BY <1>1, <1>3, <1>4, <2>2, <2>3
<1>6. t + h < RADIX * r + RADIX
  <2>1. a < d * (RADIX * r + RADIX - h)
    <3>1. (2 * e) * r = 2 * (d * (RADIX * r)) /\ e = 2 * (d * h) /\ e = d * RADIX
      BY <1>1, <1>3
    <3>2. d * (RADIX * r + RADIX - h) = d * (RADIX * r) + d * RADIX - d * h
      BY <1>1, <1>3
    <3>3. d * (RADIX * r) \in Int /\ d * h \in Int /\ d * RADIX \in Int
      BY <1>1, <1>3
    <3> HIDE DEF e
    <3> QED BY <1>2, <1>3, <3>1, <3>2, <3>3
  <2>2. RADIX * r + RADIX - h \in Int
    BY <1>1, <1>3
  <2>3. t < RADIX * r + RADIX - h
    BY <2>1, <2>2, AtLeastQuotient DEF t
  <2> QED BY <1>1, <1>3, <1>4, <2>2, <2>3
<1>7. (t + h) \div RADIX = r
  <2>1. t + h \in Int /\ RADIX \in Nat \ {0}
    BY <1>1, <1>4
  <2> QED BY <1>3, <1>5, <1>6, <2>1, QuotientIs
<1> QED BY <1>7 DEF t, r, h, e

\* _round drops so many digits, rounding half up.
LEMMA RoundIs ==
    ASSUME NEW v \in Int, NEW drop \in Nat \ {0}
    PROVE  _round(v, drop) = Rounded(v, P(drop))
<1> DEFINE d == P(drop - 1)
<1>1. drop - 1 \in Nat /\ (drop - 1) + 1 = drop
  OBVIOUS
<1>2. d \in Nat \ {0} /\ P(drop) = RADIX * d /\ RADIX * d = d * RADIX /\ d * RADIX \in Nat \ {0}
  <2>1. P((drop - 1) + 1) = RADIX * d /\ d \in Nat \ {0} /\ RADIX \in Nat \ {0}
    BY <1>1, RadixIs
  <2> QED BY <1>1, <2>1
<1>3. _round(v, drop) = ((v \div d) + RADIX \div 2) \div RADIX
  <2>1. CASE drop = 1
    <3>1. d = 1
      BY <2>1, RadixIs
    <3>2. v \div 1 = v
      OBVIOUS
    <3> QED BY <2>1, <3>1, <3>2 DEF _round
  <2>2. CASE drop # 1
    BY <2>2 DEF _round, P
  <2> QED BY <2>1, <2>2
<1>4. Rounded(v, P(drop)) = (2 * v + d * RADIX) \div (2 * (d * RADIX))
  <2>1. Rounded(v, P(drop)) = FloorQuotient(2 * v + d * RADIX, 2 * (d * RADIX))
    BY <1>2 DEF Rounded
  <2>2. 2 * (d * RADIX) > 0
    BY <1>2
  <2> QED BY <2>1, <2>2 DEF FloorQuotient
<1> HIDE DEF d
<1> QED BY <1>2, <1>3, <1>4, HalfAdded

\* Rounding a quotient that was taken with more digits is rounding once.
LEMMA RoundOfQuotient ==
    ASSUME NEW n \in Int, NEW d \in Nat \ {0}, NEW k \in Nat \ {0}
    PROVE  (2 * ((n * (2 * k)) \div d) + 2 * k) \div (2 * (2 * k)) = (2 * n + d) \div (2 * d)
<1> DEFINE q == (n * (2 * k)) \div d
           r == (2 * n + d) \div (2 * d)
<1>1. n * (2 * k) \in Int /\ 2 * d \in Nat \ {0} /\ 2 * n + d \in Int
  OBVIOUS
<1>2. q \in Int
  BY <1>1, DivIs
<1>3. r \in Int /\ (2 * d) * r <= 2 * n + d /\ 2 * n + d < (2 * d) * r + 2 * d
  BY <1>1, DivIs
<1> HIDE DEF q, r
<1>4. 2 * (k * r) - k <= q
  <2>1. d * (2 * (k * r) - k) <= n * (2 * k)
    <3>1. ((2 * d) * r) * k <= (2 * n + d) * k
      BY <1>3, Mono
    <3>2. /\ d * (2 * (k * r) - k) = ((2 * d) * r) * k - d * k
          /\ (2 * n + d) * k = n * (2 * k) + d * k
      BY <1>3
    <3>3. ((2 * d) * r) * k \in Int /\ d * k \in Int
      BY <1>3
    <3> QED BY <1>1, <3>1, <3>2, <3>3
  <2>2. 2 * (k * r) - k \in Int
    BY <1>3
  <2> QED BY <1>1, <2>1, <2>2, AtLeastQuotient DEF q
<1>5. q < 2 * (k * r) + k
  <2>1. n * (2 * k) < d * (2 * (k * r) + k)
    <3>1. (2 * n + d) * k < ((2 * d) * r + 2 * d) * k
      BY <1>3, MonoStrict
    <3>2. /\ d * (2 * (k * r) + k) = ((2 * d) * r) * k + d * k
          /\ (2 * n + d) * k = n * (2 * k) + d * k
          /\ ((2 * d) * r + 2 * d) * k = ((2 * d) * r) * k + d * k + d * k
      BY <1>3
    <3>3. ((2 * d) * r) * k \in Int /\ d * k \in Int
      BY <1>3
    <3> QED BY <1>1, <3>1, <3>2, <3>3
  <2>2. 2 * (k * r) + k \in Int
    BY <1>3
  <2> QED BY <1>1, <2>1, <2>2, AtLeastQuotient DEF q
<1>6. (2 * q + 2 * k) \div (2 * (2 * k)) = r
  <2>1. (2 * (2 * k)) * r = 2 * (2 * (k * r)) /\ 2 * (2 * k) = 4 * k /\ k * r \in Int
    BY <1>3
  <2>2. 2 * (2 * k) \in Nat \ {0} /\ 2 * q + 2 * k \in Int
    BY <1>2
  <2>3. /\ (2 * (2 * k)) * r <= 2 * q + 2 * k
        /\ 2 * q + 2 * k < (2 * (2 * k)) * r + 2 * (2 * k)
    BY <1>2, <1>4, <1>5, <2>1
  <2> QED BY <1>3, <2>2, <2>3, QuotientIs
<1> QED BY <1>6 DEF q, r

\* A quotient, on the scale of the dividend.
LEMMA QuotientOf ==
    ASSUME NEW x \in NumericType, NEW y \in NumericType, y.v # 0
    PROVE  LET n == x.v * P(y.s)
               v == IF x.s = 0 THEN FloorQuotient(n, y.v) ELSE Rounded(n, y.v)
           IN  v \in Int /\ __div__(x, y) = PgNumeric_init(v, x.p, x.s)
<1> DEFINE n == x.v * P(y.s)
           d == y.v
           e == P(x.s)
           q == FloorQuotient(n * e, d)
           v == _round(q, x.s)
<1>1. x.v \in Int /\ x.s \in Nat /\ x.p \in Nat /\ d \in Int /\ y.s \in Nat
  BY DEF NumericType
<1>2. d # 0
  OBVIOUS
<1>3. n \in Int /\ e \in Nat \ {0}
  <2>1. P(y.s) \in Nat /\ P(x.s) \in Nat \ {0}
    BY <1>1, RadixIs
  <2> QED BY <1>1, <2>1
<1>4. __div__(x, y) = PgNumeric_init(v, x.p, x.s)
  BY <1>2 DEF __div__, P
<1> HIDE DEF n, d, e
<1>5. q \in Int
  <2>1. n * e \in Int /\ -(n * e) \in Int
    BY <1>3
  <2>2. CASE d > 0
    <3>1. d \in Nat \ {0}
      BY <1>1, <2>2
    <3> QED BY <2>1, <2>2, <3>1, DivIs DEF FloorQuotient
  <2>3. CASE ~(d > 0)
    <3>1. -d \in Nat \ {0}
      BY <1>1, <1>2, <2>3
    <3> QED BY <2>1, <2>3, <3>1, DivIs DEF FloorQuotient
  <2> QED BY <2>2, <2>3
<1>6. CASE x.s = 0
  <2>1. e = 1
    BY <1>6, RadixIs DEF e
  <2>2. v = FloorQuotient(n, d)
    BY <1>3, <1>6, <2>1 DEF _round
  <2>3. v \in Int
    <3>1. n * e = n
      BY <1>3, <2>1
    <3> QED BY <1>5, <2>2, <3>1
  <2> HIDE DEF v
  <2> QED BY <1>4, <1>6, <2>2, <2>3 DEF n, d
<1>7. CASE x.s # 0
  <2> DEFINE k == (RADIX \div 2) * P(x.s - 1)
  <2>1. x.s - 1 \in Nat /\ (x.s - 1) + 1 = x.s /\ x.s \in Nat \ {0}
    BY <1>1, <1>7
  <2>2. k \in Nat \ {0} /\ e = 2 * k
    <3>1. P((x.s - 1) + 1) = RADIX * P(x.s - 1) /\ P(x.s - 1) \in Nat \ {0}
          /\ RADIX = 2 * (RADIX \div 2) /\ RADIX \div 2 \in Nat \ {0}
      BY <2>1, RadixIs
    <3> DEFINE g == P(x.s - 1)
               h == RADIX \div 2
    <3>2. e = (2 * h) * g /\ g \in Nat \ {0} /\ h \in Nat \ {0}
      BY <2>1, <3>1 DEF e
    <3> HIDE DEF g, h
    <3>3. (2 * h) * g = 2 * (h * g) /\ h * g \in Nat \ {0}
      BY <3>2
    <3> QED BY <3>2, <3>3 DEF g, h
  <2>3. v = (2 * q + e) \div (2 * e)
    <3>1. v = Rounded(q, e)
      <4> HIDE DEF q
      <4> QED BY <1>5, <2>1, RoundIs DEF e
    <3>2. 2 * e > 0
      BY <1>3
    <3> HIDE DEF v, q
    <3> QED BY <3>1, <3>2 DEF Rounded, FloorQuotient
  <2> HIDE DEF k
  <2>4. v = Rounded(n, d)
    <3>1. CASE d > 0
      <4>1. q = (n * e) \div d /\ Rounded(n, d) = (2 * n + d) \div (2 * d) /\ d \in Nat \ {0}
        BY <1>1, <3>1 DEF FloorQuotient, Rounded
      <4> HIDE DEF q, v
      <4> QED BY <1>3, <2>2, <2>3, <4>1, RoundOfQuotient
    <3>2. CASE ~(d > 0)
      <4> DEFINE m == -n
                 c == -d
      <4>1. c \in Nat \ {0} /\ m \in Int
        BY <1>1, <1>2, <1>3, <3>2
      <4>2. q = (m * e) \div c
        <5>1. -(n * e) = m * e
          BY <1>3
        <5> QED BY <3>2, <5>1 DEF FloorQuotient
      <4>3. Rounded(n, d) = (2 * m + c) \div (2 * c)
        <5>1. ~(2 * d > 0) /\ -(2 * n + d) = 2 * m + c /\ -(2 * d) = 2 * c
          BY <1>1, <1>3, <3>2
        <5> HIDE DEF m, c
        <5> QED BY <5>1 DEF FloorQuotient, Rounded
      <4> HIDE DEF q, v, m, c
      <4> QED BY <2>2, <2>3, <4>1, <4>2, <4>3, RoundOfQuotient
    <3> QED BY <3>1, <3>2
  <2>5. v \in Int
    <3>1. 2 * q + e \in Int /\ 2 * e \in Nat \ {0}
      BY <1>3, <1>5
    <3> HIDE DEF q, v
    <3> QED BY <2>3, <3>1, DivIs
  <2> HIDE DEF v
  <2> QED BY <1>4, <1>7, <2>4, <2>5 DEF n, d
<1> QED BY <1>6, <1>7

\* The comparison is that of the two numbers.
LEMMA CmpIs ==
    ASSUME NEW x \in NumericType, NEW y \in NumericType
    PROVE  LET d == x.v * P(y.s) - y.v * P(x.s)
               c == __cmp__(x, y)
           IN  (c < 0) = (d < 0) /\ (c > 0) = (d > 0)
<1> DEFINE a == Aligned(x, y)
           b == Aligned(y, x)
           ms == MaxOf(x.s, y.s)
           t == P(x.s + y.s)
           m == P(ms)
           i == x.v * P(y.s)
           j == y.v * P(x.s)
<1>1. /\ x.v \in Int /\ x.s \in Nat /\ y.v \in Int /\ y.s \in Nat
  BY DEF NumericType
<1>2. a \in Int /\ ms \in Nat /\ a * t = m * i
  BY AlignedIs
<1>3. b \in Int /\ b * t = m * j
  <2>1. MaxOf(y.s, x.s) = ms /\ y.s + x.s = x.s + y.s
    BY <1>1 DEF MaxOf
  <2>2. b \in Int /\ b * P(y.s + x.s) = P(MaxOf(y.s, x.s)) * j
    BY AlignedIs
  <2> QED BY <2>1, <2>2
<1>4. m \in Nat \ {0} /\ t \in Nat \ {0} /\ i \in Int /\ j \in Int
  <2>1. x.s + y.s \in Nat
    BY <1>1
  <2>2. P(x.s) \in Nat /\ P(y.s) \in Nat
    BY <1>1, RadixIs
  <2>3. i \in Int /\ j \in Int
    BY <1>1, <2>2, Product
  <2>4. t \in Nat \ {0}
    BY <2>1, RadixIs
  <2> HIDE DEF ms
  <2>5. m \in Nat \ {0}
    BY <1>2, RadixIs
  <2> QED BY <2>3, <2>4, <2>5
<1>5. __cmp__(x, y) = IF a < b THEN -1 ELSE IF a > b THEN 1 ELSE 0
  BY DEF __cmp__
<1> HIDE DEF a, b, t, m, i, j, ms
<1>6. ASSUME NEW u \in Int, NEW w \in Int, NEW k \in Int, NEW l \in Int,
             u * t = m * k, w * t = m * l
      PROVE  u < w <=> k < l
  <2>1. u < w => k < l
    <3> SUFFICES ASSUME u < w
                 PROVE  k < l
      OBVIOUS
    <3>1. u * t < w * t
      BY <1>4, MonoStrict
    <3>2. k * m < l * m
      BY <1>4, <1>6, <3>1
    <3> QED BY <1>4, <3>2, CancelLess
  <2>2. k < l => u < w
    <3> SUFFICES ASSUME k < l
                 PROVE  u < w
      OBVIOUS
    <3>1. k * m < l * m
      BY <1>4, MonoStrict
    <3>2. u * t < w * t
      BY <1>4, <1>6, <3>1
    <3> QED BY <1>4, <3>2, CancelLess
  <2> QED BY <2>1, <2>2
<1>7. (a < b <=> i < j) /\ (b < a <=> j < i)
  BY <1>2, <1>3, <1>4, <1>6
<1>8. (i - j < 0 <=> i < j) /\ (i - j > 0 <=> j < i)
  BY <1>4
<1>9. LET c == __cmp__(x, y)
      IN  (c < 0 <=> a < b) /\ (c > 0 <=> b < a)
  BY <1>2, <1>3, <1>5
<1> QED BY <1>7, <1>8, <1>9 DEF i, j

\* What the unary operators make their results from.
LEMMA NegIs ==
    ASSUME NEW x \in NumericType
    PROVE  /\ -x.v \in Int /\ x.v \in Int /\ Abs(x.v) \in Int
           /\ x.p \in Nat /\ x.s \in Nat /\ x.s <= x.p
  BY DEF NumericType, Abs

\* A cast keeps the number, or rounds it, or refuses it.
LEMMA CastIs ==
    ASSUME NEW x \in NumericType, NEW prec \in Nat, NEW s \in Nat
    PROVE  LET v == IF s >= x.s THEN x.v * P(s - x.s) ELSE Rounded(x.v, P(x.s - s))
               p == IF prec = 0 THEN x.p ELSE prec
               r == PgNumeric_cast(x, prec, s)
           IN  /\ v > P(p) => r.error = "OverflowError"
               /\ ~(v > P(p)) /\ s > p => r.error = "ValueError"
               /\ ~(v > P(p)) /\ ~(s > p) => r = Numeric(v, p, s) /\ r \in NumericType
<1> DEFINE v == IF s >= x.s THEN x.v * P(s - x.s) ELSE Rounded(x.v, P(x.s - s))
           p == IF prec = 0 THEN x.p ELSE prec
           r == PgNumeric_cast(x, prec, s)
<1>1. /\ x.v \in Int /\ x.s \in Nat /\ x.p \in Nat /\ x.s <= x.p /\ (x.p = 0 => x.v >= -1)
  BY DEF NumericType
<1>2. v = IF s >= x.s THEN Scaled(x.v, s - x.s) ELSE _round(x.v, x.s - s)
  <2>1. CASE s >= x.s
    BY <2>1 DEF Scaled, P
  <2>2. CASE ~(s >= x.s)
    <3>1. x.s - s \in Nat \ {0}
      BY <1>1, <2>2
    <3> QED BY <1>1, <2>2, <3>1, RoundIs
  <2> QED BY <2>1, <2>2
<1>3. v \in Int
  <2>1. CASE s >= x.s
    <3>1. P(s - x.s) \in Int
      <4>1. s - x.s \in Nat
        BY <1>1, <2>1
      <4>2. P(s - x.s) \in Nat \ {0}
        BY ONLY <4>1, RadixIs
      <4> QED BY <4>2
    <3> QED BY <1>1, <2>1, <3>1, Product
  <2>2. CASE ~(s >= x.s)
    <3>1. P(x.s - s) \in Nat \ {0}
      <4>1. x.s - s \in Nat
        BY <1>1, <2>2
      <4> QED BY <4>1, RadixIs
    <3> DEFINE e == P(x.s - s)
    <3>2. v = Rounded(x.v, e)
      BY <2>2
    <3> HIDE DEF e, v
    <3>3. 2 * e > 0 /\ 2 * e \in Nat \ {0} /\ 2 * x.v + e \in Int
      BY <1>1, <3>1 DEF e
    <3>4. v = (2 * x.v + e) \div (2 * e)
      BY <3>2, <3>3 DEF Rounded, FloorQuotient
    <3> QED BY <3>3, <3>4, DivIs
  <2> QED BY <2>1, <2>2
<1>4. p \in Nat /\ P(p) \in Nat
  <2>1. p \in Nat
    BY <1>1
  <2> HIDE DEF p
  <2> QED BY <2>1, RadixIs
<1>5. p = 0 /\ ~(s > p) => v >= -1
  <2> SUFFICES ASSUME p = 0, ~(s > p)
               PROVE  v >= -1
    OBVIOUS
  <2>1. x.p = 0 /\ x.s = 0 /\ s = 0 /\ x.v >= -1
    BY <1>1
  <2>2. v = x.v * P(0)
    BY <2>1
  <2>3. P(0) = 1
    BY RadixIs
  <2> HIDE DEF v
  <2> QED BY <1>1, <2>1, <2>2, <2>3
<1>6. r = CASE v > P(p) -> NumericError("OverflowError")
            [] v <= P(p) /\ s > p -> NumericError("ValueError")
            [] OTHER -> Numeric(v, p, s)
  BY <1>2 DEF PgNumeric_cast, P
<1> HIDE DEF v, p, r
<1>7. v > P(p) => r.error = "OverflowError"
  BY <1>3, <1>4, <1>6 DEF NumericError
<1>8. ~(v > P(p)) /\ s > p => r.error = "ValueError"
  BY <1>3, <1>4, <1>6 DEF NumericError
<1>9. ~(v > P(p)) /\ ~(s > p) => r = Numeric(v, p, s)
  BY <1>3, <1>4, <1>6
<1>10. ~(v > P(p)) /\ ~(s > p) => Numeric(v, p, s) \in NumericType
  BY <1>3, <1>4, <1>5 DEF Numeric, NumericType, P
<1> QED BY <1>7, <1>8, <1>9, <1>10 DEF v, p, r

\* A step is one call, and the call tells which.
LEMMA FnOf ==
    ASSUME Next
    PROVE  \/ BinaryOp /\ call'.fn = "binary"
           \/ Power /\ call'.fn = "pow"
           \/ UnaryOp /\ call'.fn = "unary"
           \/ Convert /\ call'.fn = "convert"
           \/ Compare /\ call'.fn = "compare"
           \/ ReadInteger /\ call'.fn = "integer"
           \/ ReadBoolean /\ call'.fn = "boolean"
           \/ ReadAmount /\ call'.fn = "money"
           \/ CompareVersions /\ call'.fn = "version"
           \/ CoerceVersion /\ call'.fn = "coerce"
           \/ Quote /\ call'.fn = "quote"
           \/ QuoteBytea /\ call'.fn = "bytea"
           \/ NumericOp /\ call'.fn = "numeric"
           \/ Drop /\ call'.fn = "idle"
<1>1. BinaryOp => call'.fn = "binary"
  BY DEF BinaryOp, Returns
<1>2. Power => call'.fn = "pow"
  BY DEF Power, Returns
<1>3. UnaryOp => call'.fn = "unary"
  BY DEF UnaryOp, Returns
<1>4. Convert => call'.fn = "convert"
  BY DEF Convert, Returns
<1>5. Compare => call'.fn = "compare"
  BY DEF Compare, Returns
<1>6. ReadInteger => call'.fn = "integer"
  BY DEF ReadInteger, Returns
<1>7. ReadBoolean => call'.fn = "boolean"
  BY DEF ReadBoolean, Returns
<1>8. ReadAmount => call'.fn = "money"
  BY DEF ReadAmount, Returns
<1>9. CompareVersions => call'.fn = "version"
  BY DEF CompareVersions, Returns
<1>10. CoerceVersion => call'.fn = "coerce"
  BY DEF CoerceVersion, Returns
<1>11. Quote => call'.fn = "quote"
  BY DEF Quote, Returns
<1>12. QuoteBytea => call'.fn = "bytea"
  BY DEF QuoteBytea, Returns
<1>13. NumericOp => call'.fn = "numeric"
  BY DEF NumericOp, Returns
<1>14. Drop => call'.fn = "idle"
  BY DEF Drop, Idle
<1> QED BY <1>1, <1>2, <1>3, <1>4, <1>5, <1>6, <1>7, <1>8, <1>9, <1>10, <1>11, <1>12, <1>13, <1>14 DEF Next

\* Whatever numbers its constructor makes, also those a cast leaves too long for
\* their precision, PgNumeric's arithmetic keeps every digit or refuses: sums,
\* differences and products are exact, a quotient or a cast is rounded half up
\* on its scale (a quotient without a scale down).  Unless a cast left an
\* operand too long, only sums of two negative numbers and differences of
\* numbers of unlike signs are refused.  The unary operators, the quotient and
\* the cast are refused exactly when NumericExact says, and what comes out is
\* again a number that the theorem is about.
THEOREM NumericIsExact == Spec => []NumericExact
<1>1. Init => NumericExact
  BY DEF Init, Idle, NumericExact
<1>2. ASSUME NumericOp
      PROVE  NumericExact'
  <2>1. PICK op \in {"add", "sub", "mul", "div", "cmp", "neg", "pos", "abs", "cast"},
             x \in Numerics, y \in Numerics, p \in Precisions, s \in Scales :
            /\ op # "cast" => p = 0 /\ s = 0
            /\ op \in {"neg", "pos", "abs", "cast"} => x = y
            /\ Returns([fn |-> "numeric", op |-> op, x |-> x, y |-> y, p |-> p, s |-> s],
                       {NumericResult(op, x, y, p, s)})
    BY ONLY <1>2, Zenon DEF NumericOp
  <2>2. x \in NumericType /\ y \in NumericType /\ p \in Nat /\ s \in Nat
    BY NumericAssumption
  <2>3. /\ x.v \in Int /\ x.p \in Nat /\ x.s \in Nat /\ x.s <= x.p
        /\ y.v \in Int /\ y.p \in Nat /\ y.s \in Nat /\ y.s <= y.p
    BY <2>2 DEF NumericType
  <2>4. /\ call' = [fn |-> "numeric", op |-> op, x |-> x, y |-> y, p |-> p, s |-> s]
        /\ call'.fn = "numeric" /\ call'.op = op /\ call'.x = x /\ call'.y = y
        /\ call'.p = p /\ call'.s = s
    BY <2>1 DEF Returns
  <2>a. Augend' = x /\ Addend' = y
    BY <2>4 DEF Augend, Addend
  <2>5. CASE op = "add"
    <3>1. outcome' = {__add__(x, y)}
      BY <2>1, <2>5 DEF Returns, NumericResult
    <3> DEFINE r == __add__(x, y)
               places == IntegerDigits(x, y) + MaxOf(x.s, y.s)
               v == Aligned(x, y) + Aligned(y, x)
               carry == IF v \div Pow(RADIX, places) > 0 THEN 1 ELSE 0
               q == IntegerDigits(x, y) + carry + MaxOf(x.s, y.s)
    <3>2. r.error # "none" => (x.v < 0 /\ y.v < 0) \/ TooLong(x.v, x.p) \/ TooLong(y.v, y.p)
      BY <2>2, <2>3, AddMakesRoom
    <3>3. q \in Nat /\ MaxOf(x.s, y.s) <= q
      <4>1. carry \in Nat
        OBVIOUS
      <4>2. IntegerDigits(x, y) \in Nat /\ MaxOf(x.s, y.s) \in Nat
        BY <2>2, AlignedIs
      <4> HIDE DEF carry
      <4> QED BY <4>1, <4>2
    <3>4. Aligned(x, y) + 1 * Aligned(y, x) = v
      BY <2>2, AlignedIs
    <3>5. r = PgNumeric_init(Aligned(x, y) + 1 * Aligned(y, x), q, MaxOf(x.s, y.s))
      BY <3>4 DEF __add__
    <3> HIDE DEF q, r
    <3>6. /\ r.error # "none" => r.error = "OverflowError"
          /\ r.error = "none" =>
                /\ r \in NumericType /\ r.s = MaxOf(x.s, y.s)
                /\ r.v * P(x.s + y.s) = P(MaxOf(x.s, y.s)) * (x.v * P(y.s) + 1 * y.v * P(x.s))
      BY <2>2, <3>3, <3>5, SumIs
    <3>7. SumExact(r, 1, Augend.v < 0 /\ Addend.v < 0)'
      BY <2>a, <3>2, <3>6 DEF SumExact, IsSum, FromCast, P
    <3> QED BY <2>4, <2>5, <3>1, <3>7 DEF NumericExact, r
  <2>6. CASE op = "sub"
    <3>1. outcome' = {__sub__(x, y)}
      BY <2>1, <2>6 DEF Returns, NumericResult
    <3> DEFINE r == __sub__(x, y)
               q == IntegerDigits(x, y) + MaxOf(x.s, y.s)
    <3>2. r.error # "none" => (x.v < 0) # (y.v < 0) \/ TooLong(x.v, x.p) \/ TooLong(y.v, y.p)
      BY <2>2, <2>3, SubMakesRoom
    <3>3. q \in Nat /\ MaxOf(x.s, y.s) <= q
      <4>1. IntegerDigits(x, y) \in Nat /\ MaxOf(x.s, y.s) \in Nat
        BY <2>2, AlignedIs
      <4> QED BY <4>1
    <3>4. Aligned(x, y) + (-1) * Aligned(y, x) = Aligned(x, y) - Aligned(y, x)
      BY <2>2, AlignedIs
    <3>5. r = PgNumeric_init(Aligned(x, y) + (-1) * Aligned(y, x), q, MaxOf(x.s, y.s))
      BY <3>4 DEF __sub__
    <3> HIDE DEF q, r
    <3>6. /\ r.error # "none" => r.error = "OverflowError"
          /\ r.error = "none" =>
                /\ r \in NumericType /\ r.s = MaxOf(x.s, y.s)
                /\ r.v * P(x.s + y.s) = P(MaxOf(x.s, y.s)) * (x.v * P(y.s) + (-1) * y.v * P(x.s))
      BY <2>2, <3>3, <3>5, SumIs
    <3>7. SumExact(r, -1, (Augend.v < 0) # (Addend.v < 0))'
      BY <2>a, <3>2, <3>6 DEF SumExact, IsSum, FromCast, P
    <3> QED BY <2>4, <2>6, <3>1, <3>7 DEF NumericExact, r
  <2>7. CASE op = "mul"
    <3>1. outcome' = {__mul__(x, y)}
      BY <2>1, <2>7 DEF Returns, NumericResult
    <3>2. ProductExact(__mul__(x, y))'
      BY <2>2, <2>a, MulIs DEF ProductExact, FromCast
    <3> QED BY <2>4, <2>7, <3>1, <3>2 DEF NumericExact
  <2>b. ASSUME NEW v \in Int, NEW r, r = PgNumeric_init(v, x.p, x.s)
        PROVE  KeptOrRefused(r, v)'
    BY <2>3, <2>a, <2>b, InitIs DEF KeptOrRefused
  <2>8. CASE op = "div"
    <3>1. outcome' = {__div__(x, y)}
      BY <2>1, <2>8 DEF Returns, NumericResult
    <3>2. CASE y.v = 0
      <4>1. __div__(x, y).error = "ZeroDivisionError"
        BY <3>2 DEF __div__, NumericError
      <4>2. QuotientExact(__div__(x, y))'
        BY <2>a, <3>2, <4>1 DEF QuotientExact
      <4> QED BY <2>4, <2>8, <3>1, <4>2 DEF NumericExact
    <3>3. CASE y.v # 0
      <4> DEFINE n == x.v * Pow(RADIX, y.s)
                 v == IF x.s = 0 THEN FloorQuotient(n, y.v) ELSE Rounded(n, y.v)
      <4>1. v \in Int /\ __div__(x, y) = PgNumeric_init(v, x.p, x.s)
        BY <2>2, <3>3, QuotientOf DEF P
      <4>2. KeptOrRefused(__div__(x, y), v)'
        <5> HIDE DEF v
        <5> QED BY <2>b, <4>1
      <4>3. QuotientExact(__div__(x, y))'
        BY <2>a, <3>3, <4>2 DEF QuotientExact, Rounded
      <4> QED BY <2>4, <2>8, <3>1, <4>3 DEF NumericExact
    <3> QED BY <3>2, <3>3
  <2>9. CASE op = "cmp"
    <3>1. outcome' = {[sign |-> __cmp__(x, y)]}
      BY <2>1, <2>9 DEF Returns, NumericResult
    <3>2. OrderExact(__cmp__(x, y))'
      BY <2>2, <2>a, CmpIs DEF OrderExact, P
    <3> QED BY <2>4, <2>9, <3>1, <3>2 DEF NumericExact
  <2>10. CASE op = "neg"
    <3>1. outcome' = {__neg__(x)}
      BY <2>1, <2>10 DEF Returns, NumericResult
    <3>2. KeptOrRefused(__neg__(x), -x.v)'
      BY <2>2, <2>b, NegIs DEF __neg__
    <3> QED BY <2>4, <2>10, <2>a, <3>1, <3>2 DEF NumericExact
  <2>13. CASE op = "pos"
    <3>1. outcome' = {__pos__(x)}
      BY <2>1, <2>13 DEF Returns, NumericResult
    <3>2. KeptOrRefused(__pos__(x), x.v)'
      BY <2>2, <2>b, NegIs DEF __pos__
    <3> QED BY <2>4, <2>13, <2>a, <3>1, <3>2 DEF NumericExact
  <2>11. CASE op = "abs"
    <3>1. outcome' = {__abs__(x)}
      BY <2>1, <2>11 DEF Returns, NumericResult
    <3>2. KeptOrRefused(__abs__(x), Abs(x.v))'
      BY <2>2, <2>b, NegIs DEF __abs__
    <3> QED BY <2>4, <2>11, <2>a, <3>1, <3>2 DEF NumericExact
  <2>12. CASE op = "cast"
    <3>1. outcome' = {PgNumeric_cast(x, p, s)}
      BY <2>1, <2>12 DEF Returns, NumericResult
    <3>2. CastExact(PgNumeric_cast(x, p, s))'
      BY <2>2, <2>4, <2>a, CastIs DEF CastExact, P, Rounded
    <3> QED BY <2>4, <2>12, <3>1, <3>2 DEF NumericExact
  <2> QED BY <2>5, <2>6, <2>7, <2>8, <2>9, <2>10, <2>11, <2>12, <2>13
<1>3. ASSUME Drop
      PROVE  NumericExact'
  BY <1>3 DEF Drop, Idle, NumericExact
<1>4. ASSUME NumericExact, UNCHANGED vars
      PROVE  NumericExact'
  BY <1>4 DEF vars, NumericExact, SumExact, ProductExact, QuotientExact, OrderExact, CastExact,
              KeptOrRefused, FromCast, Augend, Addend, IsSum, Rounded
<1>5. ASSUME Next
      PROVE  NumericExact'
  BY <1>2, <1>3, <1>5, FnOf DEF NumericExact
<1> QED BY <1>1, <1>2, <1>3, <1>4, <1>5, PTL DEF Spec

-----------------------------------------------------------------------------
(* The machine integers. *)

LEMMA RemainderIs ==
    ASSUME NEW a \in Int, NEW b \in Nat \ {0}
    PROVE  a % b \in 0 .. b - 1 /\ a = b * (a \div b) + (a % b)
<1>1. a % b \in 0 .. b - 1
  OBVIOUS
<1>2. a = b * (a \div b) + (a % b)
  OBVIOUS
<1> QED BY <1>1, <1>2

LEMMA WidthIs ==
    ASSUME NEW w \in Nat \ {0}
    PROVE  /\ Pow(2, w - 1) \in Nat \ {0} /\ Pow(2, w) = 2 * Pow(2, w - 1)
           /\ \A n : n \in MachineInt(w) <=>
                       n \in Int /\ -Pow(2, w - 1) <= n /\ n < Pow(2, w - 1)
<1>1. w - 1 \in Nat /\ (w - 1) + 1 = w
  OBVIOUS
<1>2. Pow(2, (w - 1) + 1) = 2 * Pow(2, w - 1)
  BY <1>1, PowIs
<1>3. Pow(2, w - 1) \in Nat \ {0}
  BY <1>1, PowType
<1> QED BY <1>1, <1>2, <1>3 DEF MachineInt, Smallest, Largest

\* A number that fits is itself, one that is too large by less than the type
\* becomes negative.
LEMMA WrapIs ==
    ASSUME NEW w \in Nat \ {0}, NEW n \in Int
    PROVE  LET m == Pow(2, w - 1)
           IN  /\ -m <= n /\ n < m => Wrap(w, n) = n
               /\ m <= n /\ n < 2 * m => Wrap(w, n) = n - 2 * m
<1> DEFINE m == Pow(2, w - 1)
           r == (n + m) % (2 * m)
           q == (n + m) \div (2 * m)
<1>1. m \in Nat \ {0} /\ Pow(2, w) = 2 * m
  BY WidthIs
<1>2. Wrap(w, n) = r - m
  BY <1>1 DEF Wrap, Unsigned
<1> HIDE DEF m
<1>3. n + m \in Int /\ 2 * m \in Nat \ {0}
  BY <1>1
<1>4. r \in 0 .. (2 * m) - 1 /\ n + m = (2 * m) * q + r /\ q \in Int
  BY <1>3, RemainderIs, DivIs
<1>5. -m <= n /\ n < m => r = n + m
  <2> SUFFICES ASSUME -m <= n, n < m
               PROVE  r = n + m
    OBVIOUS
  <2>1. q = 0
    <3>1. (2 * m) * 0 <= n + m /\ n + m < (2 * m) * 0 + 2 * m
      BY <1>1
    <3> QED BY <1>3, <3>1, QuotientIs
  <2> HIDE DEF q, r
  <2> QED BY <1>1, <1>4, <2>1
<1>6. m <= n /\ n < 2 * m => r = n - m
  <2> SUFFICES ASSUME m <= n, n < 2 * m
               PROVE  r = n - m
    OBVIOUS
  <2>1. q = 1
    <3>1. (2 * m) * 1 <= n + m /\ n + m < (2 * m) * 1 + 2 * m
      BY <1>1
    <3> QED BY <1>3, <3>1, QuotientIs
  <2> HIDE DEF q, r
  <2> QED BY <1>1, <1>4, <2>1
<1> HIDE DEF r
<1>7. /\ -m <= n /\ n < m => r - m = n
      /\ m <= n /\ n < 2 * m => r - m = n - 2 * m
  BY <1>1, <1>4, <1>5, <1>6
<1> QED BY <1>2, <1>7 DEF m

\* Half is the root of the number of values of a PgInt8.
LEMMA HalfIs ==
    LET h == Half
        k == HighLimit
        m == Pow(2, LONG_LONG_BIT - 1)
    IN  /\ k \in Nat \ {0} /\ h = 2 * k
        /\ m \in Nat \ {0} /\ m = k * h /\ 2 * m = h * h
<1> DEFINE W == LONG_LONG_BIT
           e == W \div 2
           h == Half
           k == Pow(2, e - 1)
           m == Pow(2, W - 1)
<1>1. W \in Nat \ {0} /\ W % 2 = 0
  BY MachineIntsAssumption
<1>2. e \in Nat \ {0} /\ W = e + e /\ e - 1 \in Nat
  BY <1>1
<1>3. h = Pow(2, e)
  BY DEF Half
<1> HIDE DEF e, W
<1>4. k \in Nat \ {0} /\ h = 2 * k
  BY <1>2, <1>3, WidthIs
<1>5. m \in Nat \ {0} /\ Pow(2, W) = 2 * m
  BY <1>1, WidthIs
<1>6. Pow(2, W) = h * h
  BY <1>2, <1>3, PowSum
<1> HIDE DEF h, k, m
<1>7. HighLimit = k
  <2>1. h \div 2 = k
    BY <1>4
  <2> QED BY <2>1 DEF HighLimit, h
<1>8. m = k * h
  <2>1. h * h = 2 * (k * h) /\ k * h \in Int
    BY <1>4
  <2> QED BY <1>5, <1>6, <2>1
<1> QED BY <1>4, <1>5, <1>6, <1>7, <1>8 DEF h, m, W

\* The test by halves is right: it finds a product that leaves the type.
LEMMA ProductOverflowsIs ==
    ASSUME NEW a \in Nat, NEW b \in Nat,
           a < Pow(2, LONG_LONG_BIT - 1), b < Pow(2, LONG_LONG_BIT - 1)
    PROVE  ProductOverflows(a, b) <=> a * b >= Pow(2, LONG_LONG_BIT - 1)
<1> DEFINE m == Pow(2, LONG_LONG_BIT - 1)
           h == Half
           k == HighLimit
           large == IF a < b THEN b ELSE a
           small == IF a < b THEN a ELSE b
           hi == large \div h
           lo == large % h
           y == hi * small
<1>1. /\ k \in Nat \ {0} /\ h = 2 * k /\ h \in Nat \ {0}
      /\ m \in Nat \ {0} /\ m = k * h /\ 2 * m = h * h
  BY HalfIs
<1>2. /\ large \in Nat /\ small \in Nat /\ small <= large /\ large < m
      /\ a * b = large * small
  OBVIOUS
<1>3. hi \in Int /\ lo \in 0 .. h - 1 /\ large = h * hi + lo
  <2> HIDE DEF large, h
  <2>1. large \in Int /\ h \in Nat \ {0}
    BY <1>1, <1>2
  <2>2. large \div h \in Int
    BY <2>1, DivIs
  <2>3. large % h \in 0 .. h - 1 /\ large = h * (large \div h) + (large % h)
    BY <2>1, RemainderIs
  <2> QED BY <2>2, <2>3
<1>4. ASSUME NEW n \in Nat, n < 2 * m
      PROVE  LL(n) < 0 <=> n >= m
  <2>1. LONG_LONG_BIT \in Nat \ {0}
    BY MachineIntsAssumption
  <2>2. /\ -m <= n /\ n < m => LL(n) = n
        /\ m <= n /\ n < 2 * m => LL(n) = n - 2 * m
    BY <2>1, WrapIs DEF LL
  <2> HIDE DEF m
  <2> QED BY <1>1, <1>4, <2>2
<1>5. ProductOverflows(a, b) =
        IF large < h THEN LL(a * b) < 0
        ELSE \/ small >= h
             \/ y >= k
             \/ LL(lo * small) < 0
             \/ LL(lo * small + y * h) < 0
  BY DEF ProductOverflows
<1> SUFFICES ProductOverflows(a, b) <=> a * b >= m
  OBVIOUS
<1> HIDE DEF m, h, k, large, small, hi, lo, y
<1>6. CASE large < h
  <2>1. large * small < 2 * m
    <3>1. small < h /\ large * small <= h * small
      BY <1>1, <1>2, <1>6, Mono
    <3>2. small * h < h * h
      BY <1>1, <1>2, <3>1, MonoStrict
    <3>3. small * h = h * small /\ large * small \in Int /\ h * small \in Int
      BY <1>1, <1>2
    <3> QED BY <1>1, <3>1, <3>2, <3>3
  <2>2. a * b \in Nat
    OBVIOUS
  <2> QED BY <1>1, <1>2, <1>4, <1>5, <1>6, <2>1, <2>2
<1>7. CASE ~(large < h)
  <2>1. large * small = h * y + lo * small /\ y \in Int /\ lo * small \in Nat
    <3>1. (h * hi + lo) * small = h * (hi * small) + lo * small
      BY <1>1, <1>2, <1>3
    <3> QED BY <1>2, <1>3, <3>1 DEF y
  <2>2. hi > 0 /\ y \in Nat
    <3>1. hi >= 1
      <4>1. h * 1 <= large
        BY <1>1, <1>2, <1>7
      <4> QED BY <1>1, <1>2, <4>1, AtLeastQuotient DEF hi
    <3> QED BY <1>2, <1>3, <3>1 DEF y
  <2>3. small >= h => large * small >= m
    <3> SUFFICES ASSUME small >= h
                 PROVE  large * small >= m
      OBVIOUS
    <3>1. h * small <= large * small
      BY <1>1, <1>2, <1>7, Mono
    <3>2. h * h <= small * h
      BY <1>1, <1>2, Mono
    <3>3. small * h = h * small /\ large * small \in Int /\ h * small \in Int
      BY <1>1, <1>2
    <3> QED BY <1>1, <3>1, <3>2, <3>3
  <2>4. y >= k => large * small >= m
    <3> SUFFICES ASSUME y >= k
                 PROVE  large * small >= m
      OBVIOUS
    <3>1. k * h <= y * h
      BY <1>1, <2>2, Mono
    <3>2. y * h = h * y /\ h * y \in Int
      BY <1>1, <2>2
    <3> QED BY <1>1, <2>1, <3>1, <3>2
  <2>5. CASE small >= h \/ y >= k
    <3>1. large * small >= m
      BY <2>3, <2>4, <2>5
    <3> QED BY <1>2, <1>5, <1>7, <2>5, <3>1
  <2>6. CASE ~(small >= h) /\ ~(y >= k)
    <3>1. lo * small < 2 * m
      <4>1. lo * small <= h * small
        BY <1>1, <1>2, <1>3, Mono
      <4>2. small * h < h * h
        BY <1>1, <1>2, <2>6, MonoStrict
      <4>3. small * h = h * small /\ h * small \in Int
        BY <1>1, <1>2
      <4> QED BY <1>1, <2>1, <4>1, <4>2, <4>3
    <3>2. h * y < m /\ h * y \in Nat /\ y * h = h * y
      <4>1. y * h < k * h
        BY <1>1, <2>2, <2>6, MonoStrict
      <4>2. y * h = h * y /\ h * y \in Nat
        BY <1>1, <2>2
      <4> QED BY <1>1, <4>1, <4>2
    <3>3. LL(lo * small) < 0 <=> lo * small >= m
      BY <1>4, <2>1, <3>1
    <3>4. CASE lo * small >= m
      <4>1. large * small >= m
        BY <1>1, <2>1, <3>2, <3>4
      <4> QED BY <1>2, <1>5, <1>7, <3>3, <3>4, <4>1
    <3>5. CASE ~(lo * small >= m)
      <4>1. lo * small + y * h = a * b /\ a * b \in Nat /\ a * b < 2 * m
        BY <1>1, <1>2, <2>1, <3>2, <3>5
      <4>2. LL(a * b) < 0 <=> a * b >= m
        BY <1>4, <4>1
      <4> QED BY <1>5, <1>7, <2>6, <3>3, <3>5, <4>1, <4>2
    <3> QED BY <3>4, <3>5
  <2> QED BY <2>5, <2>6
<1> QED BY <1>6, <1>7

\* int8_mul returns the product when it fits and raises when it does not; of
\* the products that fit it may refuse only the most negative number.
THEOREM Int8MultiplicationIsExact ==
    ASSUME NEW a \in MachineInt(LONG_LONG_BIT), NEW b \in MachineInt(LONG_LONG_BIT)
    PROVE  LET r == int8_mul(Int8(a), Int8(b))
           IN  \/ r = Int8(a * b) /\ Fits(LONG_LONG_BIT, a * b)
               \/ r = Raise("OverflowError") /\ (~Fits(LONG_LONG_BIT, a * b) \/ a * b = LLONG_MIN)
<1> DEFINE m == Pow(2, LONG_LONG_BIT - 1)
           r == int8_mul(Int8(a), Int8(b))
           ok == \/ a = LLONG_MIN /\ b \in {0, 1}
                 \/ b = LLONG_MIN /\ a \in {0, 1}
<1>1. LONG_LONG_BIT \in Nat \ {0}
  BY MachineIntsAssumption
<1>2. /\ m \in Nat \ {0} /\ LLONG_MIN = -m
      /\ \A n : Fits(LONG_LONG_BIT, n) <=> n \in Int /\ -m <= n /\ n < m
  BY <1>1, WidthIs DEF LLONG_MIN, Smallest, Fits
<1>3. a \in Int /\ -m <= a /\ a < m /\ b \in Int /\ -m <= b /\ b < m
  BY <1>2 DEF Fits
<1>4. AsInt8(Int8(a), Int8(b)) /\ Int8(a).val = a /\ Int8(b).val = b
  BY DEF AsInt8, Int8, Value
<1>5. r = IF LLONG_MIN \in {a, b} THEN IF ok THEN Int8(a * b) ELSE Raise("OverflowError")
          ELSE IF ProductOverflows(Magnitude(a), Magnitude(b)) THEN Raise("OverflowError")
               ELSE Int8(a * b)
  BY <1>4 DEF int8_mul
<1> HIDE DEF r, m
<1>6. CASE LLONG_MIN \in {a, b}
  <2>1. CASE ok
    <3>1. a * b \in {0, -m}
      BY <1>2, <1>3, <2>1
    <3>2. -m <= a * b /\ a * b < m /\ a * b \in Int
      BY <1>2, <3>1
    <3> QED BY <1>2, <1>5, <1>6, <2>1, <3>2 DEF r
  <2>2. CASE ~ok
    <3>1. ASSUME NEW c \in Int, c \notin {0, 1}, -m * c \in Int
          PROVE  ~Fits(LONG_LONG_BIT, -m * c)
      <4>1. CASE c <= -1
        <5>1. -m * c >= m
          BY <1>2, <4>1
        <5> QED BY <1>2, <5>1
      <4>2. CASE c >= 2
        <5>1. -m * c < -m
          BY <1>2, <4>2
        <5> QED BY <1>2, <5>1
      <4> QED BY <3>1, <4>1, <4>2
    <3>2. ~Fits(LONG_LONG_BIT, a * b)
      <4>1. CASE a = LLONG_MIN
        <5>1. a * b = -m * b /\ -m * b \in Int /\ b \notin {0, 1}
          BY <1>2, <1>3, <2>2, <4>1
        <5> QED BY <1>3, <3>1, <5>1
      <4>2. CASE b = LLONG_MIN
        <5>1. a * b = -m * a /\ -m * a \in Int /\ a \notin {0, 1}
          BY <1>2, <1>3, <2>2, <4>2
        <5> QED BY <1>3, <3>1, <5>1
      <4> QED BY <1>6, <4>1, <4>2
    <3> QED BY <1>5, <1>6, <2>2, <3>2 DEF r
  <2> QED BY <2>1, <2>2
<1>7. CASE LLONG_MIN \notin {a, b}
  <2> DEFINE i == Magnitude(a)
             j == Magnitude(b)
  <2>1. i \in Nat /\ j \in Nat /\ i < m /\ j < m
    BY <1>2, <1>3, <1>7 DEF Magnitude
  <2>2. a * b = i * j \/ a * b = -(i * j)
    BY <1>3 DEF Magnitude
  <2> HIDE DEF i, j
  <2>3. ProductOverflows(i, j) <=> i * j >= m
    BY <2>1, ProductOverflowsIs DEF m
  <2>4. i * j \in Nat /\ a * b \in Int
    BY <1>3, <2>1
  <2>5. CASE i * j >= m
    <3>1. ~Fits(LONG_LONG_BIT, a * b) \/ a * b = LLONG_MIN
      BY <1>2, <2>2, <2>4, <2>5
    <3> QED BY <1>5, <1>7, <2>3, <2>5, <3>1 DEF r, i, j
  <2>6. CASE ~(i * j >= m)
    <3>1. Fits(LONG_LONG_BIT, a * b)
      BY <1>2, <2>2, <2>4, <2>6
    <3> QED BY <1>5, <1>7, <2>3, <2>6, <3>1 DEF r, i, j
  <2> QED BY <2>5, <2>6
<1> QED BY <1>6, <1>7 DEF r

\* i_divmod, which PgInt2 and PgInt8 divide with, gives Python's quotient and
\* remainder, rounded down, on any width, and both fit: C truncates, and the
\* adjustment mends it.  It is not so for the most negative dividend.
THEOREM DivisionRoundsDown ==
    ASSUME NEW w \in Nat \ {0}, NEW xi \in MachineInt(w), NEW yi \in MachineInt(w),
           xi # Smallest(w), yi # 0
    PROVE  LET f == FloorQuotient(xi, yi)
           IN  /\ i_divmod(w, xi, yi) = [div |-> f, mod |-> xi - yi * f]
               /\ Fits(w, f) /\ Fits(w, xi - yi * f)
<1> DEFINE m == Pow(2, w - 1)
           X == Magnitude(xi)
           Y == Magnitude(yi)
           t == X \div Y
           rem == X - Y * t
           f == FloorQuotient(xi, yi)
           q == CASE yi < 0 /\ xi < 0 -> Quotient(Wrap(w, -xi), Wrap(w, -yi))
                  [] yi < 0 /\ xi >= 0 -> Wrap(w, -Quotient(xi, Wrap(w, -yi)))
                  [] yi > 0 /\ xi < 0 -> Wrap(w, -Quotient(Wrap(w, -xi), yi))
                  [] OTHER -> Quotient(xi, yi)
           n == Wrap(w, xi - Wrap(w, q * yi))
<1>1. m \in Nat \ {0} /\ Smallest(w) = -m
  BY WidthIs DEF Smallest
<1>2. xi \in Int /\ -m < xi /\ xi < m /\ yi \in Int /\ -m <= yi /\ yi < m
  BY <1>1, WidthIs
<1>3. \A k \in Int : -m <= k /\ k < m => Wrap(w, k) = k
  BY WrapIs
<1>4. i_divmod(w, xi, yi) =
        IF n # 0 /\ (n < 0) # (yi < 0) THEN [div |-> Wrap(w, q - 1), mod |-> Wrap(w, n + yi)]
        ELSE [div |-> q, mod |-> n]
  BY DEF i_divmod
<1> HIDE DEF m
<1>5. X \in Nat /\ X < m /\ Y \in Nat \ {0} /\ Y <= m
  BY <1>1, <1>2 DEF Magnitude
<1>6. t \in Nat /\ t <= X /\ rem \in Nat /\ rem < Y
  <2> HIDE DEF X, Y
  <2>1. t \in Int /\ Y * t <= X /\ X < Y * t + Y
    BY <1>5, DivIs
  <2>2. t >= 0
    <3>1. Y * 0 <= X
      BY <1>5
    <3> QED BY <1>5, <3>1, AtLeastQuotient
  <2> HIDE DEF t
  <2>3. t <= Y * t
    BY <1>5, <2>1, <2>2
  <2>4. Y * t \in Int
    BY <1>5, <2>1
  <2> QED BY <1>5, <2>1, <2>2, <2>3, <2>4
<1> DEFINE same == (xi < 0) = (yi < 0)
\* The quotient of the magnitudes, with its sign.
<1>7. q = IF same THEN t ELSE -t
  <2>1. -t \in Int /\ -m <= -t /\ -t < m
    BY <1>1, <1>5, <1>6
  <2>2. Wrap(w, -t) = -t
    BY <1>3, <2>1
  <2>3. /\ xi < 0 => Wrap(w, -xi) = X
        /\ xi >= 0 => xi = X
        /\ yi >= 0 => yi = Y
    BY <1>1, <1>2, <1>3 DEF Magnitude
  <2>4. ASSUME yi < 0
        PROVE  Wrap(w, -yi) = Y \/ (Wrap(w, -yi) = -Y /\ t = 0)
    <3>1. CASE yi # -m
      <4>1. -yi \in Int /\ -m <= -yi /\ -yi < m /\ Y = -yi
        BY <1>1, <1>2, <2>4, <3>1 DEF Magnitude
      <4>2. Wrap(w, -yi) = -yi
        <5> HIDE DEF Y
        <5> QED BY <1>3, <4>1
      <4> QED BY <4>1, <4>2
    <3>2. CASE yi = -m
      <4>1. Wrap(w, -yi) = -Y /\ Y = m
        <5>1. -yi = m /\ m \in Int /\ m - 2 * m = -m
          BY <1>1, <3>2
        <5>2. Wrap(w, m) = m - 2 * m
          BY <1>1, WrapIs DEF m
        <5> QED BY <1>1, <2>4, <5>1, <5>2 DEF Magnitude
      <4>2. t = 0
        <5> HIDE DEF X, Y
        <5>1. Y * 0 <= X /\ X < Y * 0 + Y
          BY <1>5, <4>1
        <5> QED BY <1>5, <5>1, QuotientIs
      <4> QED BY <4>1, <4>2
    <3> QED BY <3>1, <3>2
  <2>5. Quotient(X, Y) = t
    BY <1>5 DEF Quotient, Magnitude
  <2>6. t = 0 => Quotient(X, -Y) = 0
    <3> HIDE DEF X, Y
    <3>1. Magnitude(X) = X /\ Magnitude(-Y) = Y
      BY <1>5 DEF Magnitude
    <3> QED BY <1>5, <3>1 DEF Quotient
  <2>7. CASE yi < 0 /\ xi < 0
    <3>1. q = Quotient(Wrap(w, -xi), Wrap(w, -yi)) /\ same
      BY <1>2, <2>7
    <3> HIDE DEF X, Y, t, q, same
    <3> QED BY <1>6, <2>3, <2>4, <2>5, <2>6, <2>7, <3>1
  <2>8. CASE yi < 0 /\ xi >= 0
    <3>1. q = Wrap(w, -Quotient(xi, Wrap(w, -yi))) /\ ~same
      BY <1>2, <2>8
    <3> HIDE DEF X, Y, t, q, same
    <3> QED BY <1>6, <2>2, <2>3, <2>4, <2>5, <2>6, <2>8, <3>1
  <2>9. CASE yi > 0 /\ xi < 0
    <3>1. q = Wrap(w, -Quotient(Wrap(w, -xi), yi)) /\ ~same
      BY <1>2, <2>9
    <3>2. Wrap(w, -xi) = X /\ yi = Y
      BY <1>2, <2>3, <2>9
    <3> HIDE DEF X, Y, t, q, same
    <3> QED BY <2>2, <2>5, <3>1, <3>2
  <2>10. CASE yi > 0 /\ xi >= 0
    <3>1. q = Quotient(xi, yi) /\ same
      BY <1>2, <2>10
    <3>2. xi = X /\ yi = Y
      BY <1>2, <2>3, <2>10
    <3> HIDE DEF X, Y, t, q, same
    <3> QED BY <2>5, <3>1, <3>2
  <2> QED BY <1>2, <2>7, <2>8, <2>9, <2>10
\* What is left, with the sign of the dividend.
<1>8. n = IF xi < 0 THEN -rem ELSE rem
  <2> DEFINE p == IF xi < 0 THEN -(Y * t) ELSE Y * t
  <2>1. q * yi = p
    <3> HIDE DEF q, t
    <3>1. CASE xi < 0 /\ yi < 0
      <4>1. q = t /\ yi = -Y /\ p = -(Y * t)
        BY <1>2, <1>7, <3>1 DEF Magnitude
      <4> QED BY <1>5, <1>6, <4>1
    <3>2. CASE xi < 0 /\ yi >= 0
      <4>1. q = -t /\ yi = Y /\ p = -(Y * t)
        BY <1>2, <1>7, <3>2 DEF Magnitude
      <4> QED BY <1>5, <1>6, <4>1
    <3>3. CASE xi >= 0 /\ yi < 0
      <4>1. q = -t /\ yi = -Y /\ p = Y * t
        BY <1>2, <1>7, <3>3 DEF Magnitude
      <4> QED BY <1>5, <1>6, <4>1
    <3>4. CASE xi >= 0 /\ yi >= 0
      <4>1. q = t /\ yi = Y /\ p = Y * t
        BY <1>2, <1>7, <3>4 DEF Magnitude
      <4> QED BY <1>5, <1>6, <4>1
    <3> QED BY <1>2, <3>1, <3>2, <3>3, <3>4
  <2>2. Y * t \in Int /\ Y * t <= X /\ Y * t = X - rem /\ Y * t >= 0
    BY <1>5, <1>6
  <2>3. X = IF xi < 0 THEN -xi ELSE xi
    BY DEF Magnitude
  <2> DEFINE yt == Y * t
  <2> HIDE DEF X, q, rem, yt
  <2>4. p \in Int /\ -m <= p /\ p < m /\ xi - p = IF xi < 0 THEN -rem ELSE rem
    <3>1. X \in Nat /\ X < m /\ rem \in Nat /\ yt = X - rem /\ yt >= 0
          /\ p = IF xi < 0 THEN -yt ELSE yt
      BY <1>5, <1>6, <2>2 DEF yt
    <3> HIDE DEF p, Y, t
    <3> QED BY <1>1, <1>2, <2>3, <3>1
  <2>5. Wrap(w, q * yi) = p
    <3> HIDE DEF p
    <3> QED BY <1>3, <2>1, <2>4
  <2>6. xi - p \in Int /\ -m <= xi - p /\ xi - p < m
    <3> HIDE DEF p, Y, t
    <3> QED BY <1>1, <1>2, <1>5, <1>6, <2>4
  <2>7. Wrap(w, xi - p) = xi - p
    <3> HIDE DEF p
    <3> QED BY <1>3, <2>6
  <2> HIDE DEF p
  <2> QED BY <2>4, <2>5, <2>7
\* Rounded down, it is one less where something is left and the signs differ.
<1>9. f = IF same THEN t ELSE IF rem = 0 THEN -t ELSE -t - 1
  <2>1. f = IF same THEN X \div Y ELSE (-X) \div Y
    <3>1. CASE yi > 0
      BY <1>2, <3>1 DEF FloorQuotient, Magnitude
    <3>2. CASE yi < 0
      BY <1>2, <3>2 DEF FloorQuotient, Magnitude
    <3> QED BY <1>2, <3>1, <3>2
  <2>2. CASE rem = 0
    <3>1. (-X) \div Y = -t
      <4> HIDE DEF X, Y, t
      <4>1. -X \in Int /\ -t \in Int /\ Y * (-t) = -X
        BY <1>5, <1>6, <2>2
      <4>2. Y * (-t) <= -X /\ -X < Y * (-t) + Y
        BY <1>5, <4>1
      <4> QED BY <1>5, <4>1, <4>2, QuotientIs
    <3> HIDE DEF f, same, rem
    <3> QED BY <2>1, <2>2, <3>1
  <2>3. CASE rem # 0
    <3>1. (-X) \div Y = -t - 1
      <4> HIDE DEF X, Y, t
      <4>1. -X \in Int /\ -t - 1 \in Int /\ Y * (-t - 1) = -X + rem - Y
        BY <1>5, <1>6
      <4> HIDE DEF rem
      <4>2. Y * (-t - 1) <= -X /\ -X < Y * (-t - 1) + Y
        BY <1>5, <1>6, <2>3, <4>1
      <4> QED BY <1>5, <4>1, <4>2, QuotientIs
    <3> HIDE DEF f, same, rem
    <3> QED BY <2>1, <2>3, <3>1
  <2> QED BY <2>2, <2>3
<1>10. xi - yi * f = n + (IF same \/ rem = 0 THEN 0 ELSE yi)
  <2> HIDE DEF f, n, t
  <2>1. xi = (IF xi < 0 THEN -X ELSE X) /\ yi = (IF yi < 0 THEN -Y ELSE Y) /\ yi # 0
    BY <1>2 DEF Magnitude
  <2>2. CASE xi < 0 /\ yi < 0
    <3>1. xi = -X /\ yi = -Y /\ f = t /\ n = -rem /\ same
      BY <1>8, <1>9, <2>1, <2>2
    <3> HIDE DEF X, Y, same
    <3> QED BY <1>5, <1>6, <3>1
  <2>3. CASE xi >= 0 /\ yi > 0
    <3>1. xi = X /\ yi = Y /\ f = t /\ n = rem /\ same
      BY <1>2, <1>8, <1>9, <2>1, <2>3
    <3> HIDE DEF X, Y, same
    <3> QED BY <1>5, <1>6, <3>1
  <2>4. CASE xi < 0 /\ yi > 0
    <3>1. xi = -X /\ yi = Y /\ f = (IF rem = 0 THEN -t ELSE -t - 1) /\ n = -rem /\ ~same
      BY <1>2, <1>8, <1>9, <2>1, <2>4
    <3> HIDE DEF X, Y, same
    <3> QED BY <1>5, <1>6, <3>1
  <2>5. CASE xi >= 0 /\ yi < 0
    <3>1. xi = X /\ yi = -Y /\ f = (IF rem = 0 THEN -t ELSE -t - 1) /\ n = rem /\ ~same
      BY <1>2, <1>8, <1>9, <2>1, <2>5
    <3> HIDE DEF X, Y, same
    <3> QED BY <1>5, <1>6, <3>1
  <2> QED BY <1>2, <2>1, <2>2, <2>3, <2>4, <2>5
<1>11. Fits(w, f) /\ Fits(w, xi - yi * f)
  <2>1. f \in Int /\ -m <= f /\ f < m
    <3> HIDE DEF f, t, same, rem
    <3> QED BY <1>1, <1>5, <1>6, <1>9
  <2>2. n \in Int /\ -m <= n /\ n < m
    <3> HIDE DEF n, rem
    <3> QED BY <1>1, <1>2, <1>5, <1>6, <1>8
  <2>3. ~same /\ rem # 0 => n + yi \in Int /\ -m <= n + yi /\ n + yi < m
    <3> HIDE DEF n, rem
    <3> QED BY <1>1, <1>2, <1>5, <1>6, <1>8
  <2>4. n + 0 = n
    <3> HIDE DEF n
    <3> QED BY <2>2
  <2>5. xi - yi * f \in Int /\ -m <= xi - yi * f /\ xi - yi * f < m
    <3> HIDE DEF n, f, same, rem
    <3> QED BY <1>10, <2>2, <2>3, <2>4
  <2> QED BY <2>1, <2>5, WidthIs DEF Fits, m
<1>12. ASSUME same \/ rem = 0
       PROVE  i_divmod(w, xi, yi) = [div |-> f, mod |-> xi - yi * f]
  <2>1. ~(n # 0 /\ (n < 0) # (yi < 0))
    BY <1>6, <1>8, <1>12
  <2>2. q = f
    BY <1>7, <1>9, <1>12
  <2>3. n = xi - yi * f
    <3>1. n \in Int
      <4> HIDE DEF n, rem
      <4> QED BY <1>6, <1>8
    <3> HIDE DEF n, f, same, rem
    <3> QED BY <1>10, <1>12, <3>1
  <2> HIDE DEF q, n
  <2> QED BY <1>4, <2>1, <2>2, <2>3
<1>13. ASSUME ~same, rem # 0
       PROVE  i_divmod(w, xi, yi) = [div |-> f, mod |-> xi - yi * f]
  <2>1. n # 0 /\ (n < 0) # (yi < 0) /\ n \in Int
    <3> HIDE DEF n, rem
    <3> QED BY <1>2, <1>6, <1>8, <1>13
  <2>2. Wrap(w, q - 1) = f
    <3>1. q - 1 = -t - 1 /\ f = -t - 1
      BY <1>7, <1>9, <1>13
    <3>2. -t - 1 \in Int /\ -m <= -t - 1 /\ -t - 1 < m
      <4> HIDE DEF t
      <4> QED BY <1>1, <1>5, <1>6
    <3>3. Wrap(w, -t - 1) = -t - 1
      <4> HIDE DEF t
      <4> QED BY <1>3, <3>2
    <3> HIDE DEF q, f, t
    <3> QED BY <3>1, <3>3
  <2>3. Wrap(w, n + yi) = xi - yi * f
    <3>1. n + yi \in Int /\ -m <= n + yi /\ n + yi < m
      <4> HIDE DEF n, rem
      <4> QED BY <1>1, <1>2, <1>5, <1>6, <1>8, <1>13, <2>1
    <3>2. xi - yi * f = n + yi
      <4> HIDE DEF n, f, same, rem
      <4> QED BY <1>10, <1>13
    <3>3. Wrap(w, n + yi) = n + yi
      <4> HIDE DEF n
      <4> QED BY <1>3, <3>1
    <3> QED BY <3>2, <3>3
  <2> HIDE DEF q, n
  <2> QED BY <1>4, <2>1, <2>2, <2>3
<1> QED BY <1>11, <1>12, <1>13

\* So do int8_div and int8_mod, which raise for no other divisor than zero.
THEOREM Int8DivisionIsExact ==
    ASSUME NEW a \in MachineInt(LONG_LONG_BIT), NEW b \in MachineInt(LONG_LONG_BIT),
           a # LLONG_MIN
    PROVE  LET f == FloorQuotient(a, b)
           IN  IF b = 0
               THEN /\ int8_div(Int8(a), Int8(b)) = Raise("ZeroDivisionError")
                    /\ int8_mod(Int8(a), Int8(b)) = Raise("ZeroDivisionError")
               ELSE /\ int8_div(Int8(a), Int8(b)) = Int8(f) /\ Fits(LONG_LONG_BIT, f)
                    /\ int8_mod(Int8(a), Int8(b)) = Int8(a - b * f)
                    /\ Fits(LONG_LONG_BIT, a - b * f)
<1>1. LONG_LONG_BIT \in Nat \ {0}
  BY MachineIntsAssumption
<1>2. AsInt8(Int8(a), Int8(b)) /\ Int8(a).val = a /\ Int8(b).val = b
  BY DEF AsInt8, Int8, Value
<1>3. DivisionFails(LONG_LONG_BIT, a, b) <=> b = 0
  BY DEF DivisionFails, LLONG_MIN
<1>4. CASE b = 0
  BY <1>2, <1>3, <1>4 DEF int8_div, int8_mod, DivisionError
<1>5. CASE b # 0
  <2>1. LET f == FloorQuotient(a, b)
        IN  /\ i_divmod(LONG_LONG_BIT, a, b) = [div |-> f, mod |-> a - b * f]
            /\ Fits(LONG_LONG_BIT, f) /\ Fits(LONG_LONG_BIT, a - b * f)
    BY <1>1, <1>5, DivisionRoundsDown DEF LLONG_MIN
  <2>2. /\ i_divmod(LONG_LONG_BIT, a, b).div = FloorQuotient(a, b)
        /\ i_divmod(LONG_LONG_BIT, a, b).mod = a - b * FloorQuotient(a, b)
    BY <2>1
  <2>3. /\ int8_div(Int8(a), Int8(b)) = Int8(i_divmod(LONG_LONG_BIT, a, b).div)
        /\ int8_mod(Int8(a), Int8(b)) = Int8(i_divmod(LONG_LONG_BIT, a, b).mod)
    BY <1>2, <1>3, <1>5 DEF int8_div, int8_mod
  <2> QED BY <1>5, <2>1, <2>2, <2>3
<1> QED BY <1>4, <1>5

-----------------------------------------------------------------------------
(* Inductions and recursive functions up to n. *)

\* An induction up to n, whose statement is the set of the numbers it holds of.
LEMMA Climb ==
    ASSUME NEW n \in Nat, NEW Holds, 0 \in Holds,
           \A k \in 1 .. n : k - 1 \in Holds => k \in Holds
    PROVE  \A k \in 0 .. n : k \in Holds
<1> DEFINE Bad == {k \in Nat : k <= n /\ k \notin Holds}
<1> SUFFICES ASSUME Bad # {}
             PROVE  FALSE
  OBVIOUS
<1>1. PICK k \in Bad : \A j \in Bad : k <= j
  <2>1. Bad \in SUBSET Nat
    OBVIOUS
  <2> HIDE DEF Bad
  <2> QED BY <2>1, LeastOf
<1>2. k # 0
  BY <1>1
<1>3. k \in 1 .. n /\ k - 1 \in Nat /\ ~(k - 1 \in Bad)
  BY <1>1, <1>2
<1> QED BY <1>1, <1>3

\* f is defined up to n from its value at 0, and from the value before by g.
IsRecursion(f, n, base, g) == f[0] = base /\ \A k \in 1 .. n : f[k] = g[<<f[k - 1], k>>]

\* Such a function stays in the set that g leads to ...
LEMMA Recursive ==
    ASSUME NEW S, NEW n \in Nat, NEW base \in S, NEW g \in [S \X (1 .. n) -> S], NEW f,
           IsRecursion(f, n, base, g)
    PROVE  \A k \in 0 .. n : f[k] \in S
<1> DEFINE Holds == {k \in Nat : f[k] \in S}
<1> USE DEF IsRecursion
<1>1. 0 \in Holds
  OBVIOUS
<1>2. ASSUME NEW k \in 1 .. n, k - 1 \in Holds
      PROVE  k \in Holds
  <2>1. <<f[k - 1], k>> \in S \X (1 .. n) /\ k \in Nat
    BY <1>2
  <2> QED BY <2>1
<1> HIDE DEF Holds
<1>3. \A k \in 0 .. n : k \in Holds
  BY <1>1, <1>2, Climb
<1> QED BY <1>3 DEF Holds

\* ... and exists.
LEMMA RecursiveExists ==
    ASSUME NEW S, NEW n \in Nat, NEW base \in S, NEW g \in [S \X (1 .. n) -> S]
    PROVE  \E f \in [0 .. n -> S] : IsRecursion(f, n, base, g)
<1> DEFINE Upto(m, f) == IsRecursion(f, m, base, g)
           Holds == {m \in Nat : m <= n => \E f \in [0 .. n -> S] : Upto(m, f)}
<1> USE DEF IsRecursion
<1>1. 0 \in Holds
  <2>1. [k \in 0 .. n |-> base] \in [0 .. n -> S] /\ [k \in 0 .. n |-> base][0] = base
    OBVIOUS
  <2>2. 1 .. 0 = {} /\ 0 \in Nat
    OBVIOUS
  <2>3. \A f : f[0] = base => Upto(0, f)
    BY <2>2
  <2> QED BY <2>1, <2>2, <2>3
<1>2. ASSUME NEW m \in 1 .. n, m - 1 \in Holds
      PROVE  m \in Holds
  <2>1. PICK f \in [0 .. n -> S] : Upto(m - 1, f)
    BY <1>2
  <2> DEFINE h == [k \in 0 .. n |-> IF k = m THEN g[<<f[m - 1], m>>] ELSE f[k]]
  <2>2. g[<<f[m - 1], m>>] \in S
    OBVIOUS
  <2>3. h \in [0 .. n -> S] /\ h[0] = base
    BY <2>1, <2>2
  <2>4. ASSUME NEW k \in 1 .. m
        PROVE  h[k] = g[<<h[k - 1], k>>]
    <3>1. k \in 0 .. n /\ k - 1 \in 0 .. n /\ k - 1 # m
      OBVIOUS
    <3>2. h[k - 1] = f[k - 1] /\ h[k] = IF k = m THEN g[<<f[m - 1], m>>] ELSE f[k]
      BY <3>1
    <3>3. k # m => k \in 1 .. m - 1
      OBVIOUS
    <3> HIDE DEF h
    <3> QED BY <2>1, <3>2, <3>3
  <2> HIDE DEF h
  <2> QED BY <2>3, <2>4
<1> HIDE DEF Holds
<1>3. n \in Holds
  <2>1. \A k \in 0 .. n : k \in Holds
    BY <1>1, <1>2, Climb
  <2> QED BY <2>1
<1> QED BY <1>3 DEF Holds

-----------------------------------------------------------------------------
(* The bits of a number. *)

LEMMA DivPlus ==
    ASSUME NEW n \in Int, NEW d \in Nat \ {0}, NEW q \in Int
    PROVE  (n + d * q) \div d = (n \div d) + q
<1> DEFINE p == n \div d
<1>1. p \in Int /\ d * p <= n /\ n < d * p + d
  BY DivIs
<1> HIDE DEF p
<1>2. d * (p + q) = d * p + d * q /\ p + q \in Int /\ d * q \in Int
  BY <1>1
<1>3. d * (p + q) <= n + d * q /\ n + d * q < d * (p + q) + d /\ n + d * q \in Int
  BY <1>1, <1>2
<1>4. (n + d * q) \div d = p + q
  BY <1>2, <1>3, QuotientIs
<1> QED BY <1>4 DEF p

LEMMA Pow2 ==
    /\ Pow(2, 0) = 1
    /\ \A k \in Nat : Pow(2, k) \in Nat \ {0} /\ Pow(2, k + 1) = 2 * Pow(2, k)
    /\ \A m, n \in Nat : Pow(2, m + n) = Pow(2, m) * Pow(2, n)
    /\ \A m, n \in Nat : m <= n => Pow(2, m) <= Pow(2, n)
BY PowIs, PowType, PowSum, PowMono

\* What is added from the k-th bit up leaves the bits below it.
LEMMA LowerBits ==
    ASSUME NEW n \in Int, NEW q \in Int, NEW k \in Nat, NEW i \in Nat, i < k
    PROVE  Bit(n + Pow(2, k) * q, i) <=> Bit(n, i)
<1> DEFINE d == Pow(2, i)
           j == k - i - 1
           r == Pow(2, j)
           p == n \div d
<1>1. j \in Nat /\ i + (j + 1) = k
  OBVIOUS
<1> HIDE DEF j
<1>2. d \in Nat \ {0} /\ r \in Nat \ {0} /\ Pow(2, k) = d * (2 * r)
  <2>1. Pow(2, i + (j + 1)) = d * Pow(2, j + 1) /\ Pow(2, j + 1) = 2 * r
    <3>1. j + 1 \in Nat
      BY <1>1
    <3> QED BY <1>1, <3>1, Pow2
  <2> QED BY <1>1, <2>1, Pow2
<1> HIDE DEF d, r, j
<1>3. Pow(2, k) * q = d * (2 * (r * q)) /\ r * q \in Int
  <2>1. (d * (2 * r)) * q = d * (2 * (r * q)) /\ r * q \in Int
    BY <1>2
  <2> QED BY <1>2, <2>1
<1>4. (n + d * (2 * (r * q))) \div d = (n \div d) + 2 * (r * q)
  <2>1. 2 * (r * q) \in Int
    BY <1>3
  <2> QED BY <1>2, <2>1, DivPlus
<1>5. p \in Int
  BY <1>2, DivIs
<1>6. \A x, y \in Int : (x + 2 * y) % 2 = x % 2
  OBVIOUS
<1>7. (p + 2 * (r * q)) % 2 = p % 2
  BY <1>3, <1>5, <1>6
<1> QED BY <1>3, <1>4, <1>7 DEF Bit, d, p

\* From the sign bit up all bits are the sign.
LEMMA UpperBits ==
    ASSUME NEW w \in Nat \ {0}, NEW n \in MachineInt(w), NEW i \in Nat, w - 1 <= i
    PROVE  Bit(n, i) <=> n < 0
<1> DEFINE d == Pow(2, i)
           m == Pow(2, w - 1)
<1>1. d \in Nat \ {0} /\ m <= d /\ m \in Nat
  <2>1. w - 1 \in Nat
    OBVIOUS
  <2> QED BY <2>1, Pow2
<1>2. n \in Int /\ -m <= n /\ n < m
  BY WidthIs
<1>3. Bit(n, i) <=> (n \div d) % 2 = 1
  BY DEF Bit
<1> HIDE DEF d, m
<1>4. CASE n < 0
  <2>1. n \div d = -1
    <3>1. d * (-1) <= n /\ n < d * (-1) + d /\ -1 \in Int
      BY <1>1, <1>2, <1>4
    <3> QED BY <1>1, <1>2, <3>1, QuotientIs
  <2> QED BY <1>3, <1>4, <2>1
<1>5. CASE n >= 0
  <2>1. n \div d = 0
    <3>1. d * 0 <= n /\ n < d * 0 + d
      BY <1>1, <1>2, <1>5
    <3> QED BY <1>1, <1>2, <3>1, QuotientIs
  <2> QED BY <1>2, <1>3, <1>5, <2>1
<1> QED BY <1>2, <1>4, <1>5

\* The number of w bits with given ones has these.
LEMMA OfBitsIs ==
    ASSUME NEW w \in Nat \ {0}, NEW ones
    PROVE  /\ OfBits(w, ones) \in MachineInt(w)
           /\ \A i \in 0 .. w - 1 : Bit(OfBits(w, ones), i) <=> i \in ones
<1> DEFINE term(k) == IF k - 1 \in ones THEN Pow(2, k - 1) ELSE 0
           sum == CHOOSE f : f = [k \in 0 .. w |-> IF k = 0 THEN 0 ELSE f[k - 1] + term(k)]
           m == Pow(2, w - 1)
           r == OfBits(w, ones)
<1>1. r = Wrap(w, sum[w])
  BY DEF OfBits
<1>2. \A k \in 1 .. w : term(k) \in Nat
  BY Pow2
<1>3. sum = [k \in 0 .. w |-> IF k = 0 THEN 0 ELSE sum[k - 1] + term(k)]
  <2> DEFINE g == [p \in Nat \X (1 .. w) |-> p[1] + term(p[2])]
  <2>1. g \in [Nat \X (1 .. w) -> Nat] /\ 0 \in Nat /\ w \in Nat
    <3> HIDE DEF term
    <3> QED BY <1>2
  <2>2. PICK f \in [0 .. w -> Nat] : IsRecursion(f, w, 0, g)
    <3> HIDE DEF g
    <3> QED BY <2>1, RecursiveExists
  <2>3. ASSUME NEW k \in 0 .. w, k # 0
        PROVE  g[<<f[k - 1], k>>] = f[k - 1] + term(k)
    <3> HIDE DEF term
    <3>1. k \in 1 .. w /\ k - 1 \in 0 .. w
      BY <2>3
    <3>2. <<f[k - 1], k>> \in Nat \X (1 .. w)
      BY <2>2, <3>1
    <3> QED BY <3>2
  <2>4. f = [k \in 0 .. w |-> IF k = 0 THEN 0 ELSE f[k - 1] + term(k)]
    <3> DEFINE v(k) == IF k = 0 THEN 0 ELSE f[k - 1] + term(k)
    <3>1. \A k \in 0 .. w : f[k] = v(k)
      <4> HIDE DEF g, term
      <4>1. \A k \in 0 .. w : k = 0 \/ k \in 1 .. w
        OBVIOUS
      <4> QED BY <2>2, <2>3, <4>1 DEF IsRecursion
    <3>2. f = [k \in 0 .. w |-> f[k]]
      BY <2>2
    <3> HIDE DEF v
    <3>3. f = [k \in 0 .. w |-> v(k)]
      BY <3>1, <3>2
    <3> QED BY <3>3 DEF v
  <2> HIDE DEF term
  <2> QED BY <2>4
<1> HIDE DEF sum
<1>4. sum[0] = 0 /\ \A k \in 1 .. w : sum[k] = sum[k - 1] + term(k)
  <2>1. \A k \in 0 .. w : sum[k] = IF k = 0 THEN 0 ELSE sum[k - 1] + term(k)
    <3> HIDE DEF term
    <3> QED BY <1>3
  <2> HIDE DEF term
  <2> QED BY <2>1
<1> DEFINE Holds == {k \in Nat : /\ sum[k] \in Nat /\ sum[k] < Pow(2, k)
                                 /\ \A i \in Nat : i < k => (Bit(sum[k], i) <=> i \in ones)}
<1>5. 0 \in Holds
  <2>1. 0 \in Nat /\ 0 < Pow(2, 0) /\ \A i \in Nat : ~(i < 0)
    BY Pow2
  <2> HIDE DEF sum
  <2> QED BY <1>4, <2>1
<1>6. ASSUME NEW k \in 1 .. w, k - 1 \in Holds
      PROVE  k \in Holds
  <2> DEFINE j == k - 1
             d == Pow(2, j)
             s == sum[j]
  <2>1. j \in Nat /\ j + 1 = k /\ k \in Nat /\ d \in Nat \ {0} /\ Pow(2, k) = 2 * d
    <3>1. Pow(2, j + 1) = 2 * d
      BY Pow2
    <3> QED BY <3>1, Pow2
  <2>2. s \in Nat /\ s < d /\ \A i \in Nat : i < j => (Bit(s, i) <=> i \in ones)
    BY <1>6
  <2>3. sum[k] = s + (IF j \in ones THEN d ELSE 0)
    BY <1>4
  <2> DEFINE b == IF j \in ones THEN 1 ELSE 0
  <2>4. sum[k] = s + d * b /\ b \in {0, 1}
    BY <2>1, <2>3
  <2> HIDE DEF d, s, b
  <2>5. sum[k] \in Nat /\ sum[k] < Pow(2, k)
    BY <2>1, <2>2, <2>4
  <2>6. \A i \in Nat : i < j => (Bit(sum[k], i) <=> i \in ones)
    <3> SUFFICES ASSUME NEW i \in Nat, i < j
                 PROVE  Bit(sum[k], i) <=> i \in ones
      OBVIOUS
    <3>1. Bit(s + Pow(2, j) * b, i) <=> Bit(s, i)
      <4>1. s \in Int /\ b \in Int
        BY <2>2, <2>4
      <4> HIDE DEF j
      <4> QED BY <2>1, <4>1, LowerBits
    <3>2. sum[k] = s + Pow(2, j) * b
      BY <2>4 DEF d
    <3>3. Bit(sum[k], i) <=> Bit(s, i)
      BY <3>1, <3>2, Zenon
    <3> QED BY <2>2, <3>3
  <2>7. Bit(sum[k], j) <=> j \in ones
    <3>1. (s + d * b) \div d = (s \div d) + b
      <4>1. s \in Int /\ b \in Int
        BY <2>2, <2>4
      <4> QED BY <2>1, <4>1, DivPlus
    <3>2. s \div d = 0
      <4>1. d * 0 <= s /\ s < d * 0 + d
        BY <2>1, <2>2
      <4> QED BY <2>1, <2>2, <4>1, QuotientIs
    <3>3. sum[k] \div d = b
      BY <2>4, <3>1, <3>2
    <3>4. b % 2 = b
      BY <2>4
    <3> QED BY <3>3, <3>4 DEF Bit, b, d
  <2>8. \A i \in Nat : i < k => i < j \/ i = j
    BY <2>1
  <2> HIDE DEF j
  <2>9. \A i \in Nat : i < k => (Bit(sum[k], i) <=> i \in ones)
    BY <2>6, <2>7, <2>8
  <2> QED BY <2>1, <2>5, <2>9
<1>7. w \in Holds
  <2> HIDE DEF Holds
  <2>1. \A k \in 0 .. w : k \in Holds
    BY <1>5, <1>6, Climb
  <2> QED BY <2>1
<1>8. sum[w] \in Nat /\ sum[w] < Pow(2, w) /\ \A i \in Nat : i < w => (Bit(sum[w], i) <=> i \in ones)
  BY <1>7
<1> DEFINE n == sum[w]
<1>9. m \in Nat \ {0} /\ Pow(2, w) = 2 * m
  BY WidthIs
<1>10. n \in Nat /\ n < 2 * m
  BY <1>8, <1>9
<1>11. (n < m => r = n) /\ (m <= n => r = n - 2 * m)
  <2>1. /\ -m <= n /\ n < m => Wrap(w, n) = n
        /\ m <= n /\ n < 2 * m => Wrap(w, n) = n - 2 * m
    BY <1>10, WrapIs
  <2> HIDE DEF m, n, r
  <2>2. r = Wrap(w, n)
    BY <1>1 DEF n
  <2> QED BY <1>9, <1>10, <2>1, <2>2
<1> HIDE DEF r, n, Holds
<1>12. r \in Int /\ -m <= r /\ r < m
  <2> HIDE DEF m
  <2> QED BY <1>9, <1>10, <1>11
<1>13. r \in MachineInt(w)
  BY <1>12, WidthIs
<1>14. PICK q \in {0, -1} : r = n + Pow(2, w) * q
  <2> HIDE DEF m
  <2>1. r = n + (2 * m) * 0 \/ r = n + (2 * m) * (-1)
    BY <1>9, <1>10, <1>11
  <2> QED BY <1>9, <2>1
<1>15. \A i \in 0 .. w - 1 : Bit(r, i) <=> i \in ones
  <2> SUFFICES ASSUME NEW i \in 0 .. w - 1
               PROVE  Bit(r, i) <=> i \in ones
    OBVIOUS
  <2>1. i \in Nat /\ i < w
    OBVIOUS
  <2>2. Bit(n + Pow(2, w) * q, i) <=> Bit(n, i)
    BY <1>10, <2>1, LowerBits
  <2> QED BY <1>8, <1>14, <2>1, <2>2 DEF n
<1> QED BY <1>13, <1>15 DEF r

\* C's operators on the bits work bit by bit, on the bits of the sign, too.
LEMMA BitwiseIs ==
    ASSUME NEW w \in Nat \ {0}, NEW a \in MachineInt(w), NEW b \in MachineInt(w)
    PROVE  /\ BitAnd(w, a, b) \in MachineInt(w)
           /\ BitOr(w, a, b) \in MachineInt(w)
           /\ BitXor(w, a, b) \in MachineInt(w)
           /\ \A i \in Nat : /\ Bit(BitAnd(w, a, b), i) = (Bit(a, i) /\ Bit(b, i))
                             /\ Bit(BitOr(w, a, b), i) = (Bit(a, i) \/ Bit(b, i))
                             /\ Bit(BitXor(w, a, b), i) = (Bit(a, i) # Bit(b, i))
<1> DEFINE and == BitAnd(w, a, b)
           or == BitOr(w, a, b)
           xor == BitXor(w, a, b)
           A == Bits(w, a)
           B == Bits(w, b)
<1>1. /\ \A i \in 0 .. w - 1 : i \in A <=> Bit(a, i)
      /\ \A i \in 0 .. w - 1 : i \in B <=> Bit(b, i)
  BY DEF Bits
<1>2. and = OfBits(w, A \cap B) /\ or = OfBits(w, A \cup B) /\ xor = OfBits(w, (A \ B) \cup (B \ A))
  BY DEF BitAnd, BitOr, BitXor
<1> HIDE DEF A, B, and, or, xor
<1>3. /\ and \in MachineInt(w)
      /\ \A i \in 0 .. w - 1 : Bit(and, i) <=> Bit(a, i) /\ Bit(b, i)
  BY <1>1, <1>2, OfBitsIs
<1>4. /\ or \in MachineInt(w)
      /\ \A i \in 0 .. w - 1 : Bit(or, i) <=> Bit(a, i) \/ Bit(b, i)
  BY <1>1, <1>2, OfBitsIs
<1>5. /\ xor \in MachineInt(w)
      /\ \A i \in 0 .. w - 1 : Bit(xor, i) <=> ~(Bit(a, i) <=> Bit(b, i))
  BY <1>1, <1>2, OfBitsIs
<1>6. ASSUME NEW i \in Nat
      PROVE  /\ Bit(and, i) <=> Bit(a, i) /\ Bit(b, i)
             /\ Bit(or, i) <=> Bit(a, i) \/ Bit(b, i)
             /\ Bit(xor, i) <=> ~(Bit(a, i) <=> Bit(b, i))
  <2>1. CASE i < w
    <3>1. i \in 0 .. w - 1
      BY <2>1
    <3> QED BY <1>3, <1>4, <1>5, <3>1
  <2>2. CASE w <= i
    <3>1. w - 1 \in Nat /\ w - 1 \in 0 .. w - 1 /\ w - 1 <= w - 1 /\ w - 1 <= i
      BY <2>2
    <3>2. ASSUME NEW n \in MachineInt(w)
          PROVE  Bit(n, i) <=> Bit(n, w - 1)
      BY <3>1, UpperBits
    <3> QED BY <1>3, <1>4, <1>5, <3>1, <3>2
  <2> QED BY <2>1, <2>2
<1>7. \A n, i : Bit(n, i) \in BOOLEAN
  BY DEF Bit
<1> QED BY <1>3, <1>4, <1>5, <1>6, <1>7 DEF and, or, xor

-----------------------------------------------------------------------------
(* The machine integers. *)

LEMMA WidthsAre ==
    /\ SHORT_BIT \in Nat \ {0} /\ LONG_BIT \in Nat \ {0} /\ LONG_LONG_BIT \in Nat \ {0, 1}
    /\ 2 * SHORT_BIT <= LONG_BIT /\ LONG_BIT <= LONG_LONG_BIT
BY MachineIntsAssumption

\* A narrower type is part of a wider one.
LEMMA Narrower ==
    ASSUME NEW u \in Nat \ {0}, NEW w \in Nat \ {0}, u <= w
    PROVE  \A n : Fits(u, n) => Fits(w, n)
<1>1. Pow(2, u - 1) <= Pow(2, w - 1) /\ Pow(2, u - 1) \in Nat /\ Pow(2, w - 1) \in Nat
  <2>1. u - 1 \in Nat /\ w - 1 \in Nat /\ u - 1 <= w - 1
    OBVIOUS
  <2> QED BY <2>1, Pow2
<1>2. /\ \A n : n \in MachineInt(u) <=> n \in Int /\ -Pow(2, u - 1) <= n /\ n < Pow(2, u - 1)
      /\ \A n : n \in MachineInt(w) <=> n \in Int /\ -Pow(2, w - 1) <= n /\ n < Pow(2, w - 1)
  BY WidthIs
<1> QED BY <1>1, <1>2 DEF Fits

LEMMA FitWider ==
    /\ \A n : Fits(SHORT_BIT, n) => Fits(LONG_BIT, n)
    /\ \A n : Fits(LONG_BIT, n) => Fits(LONG_LONG_BIT, n)
    /\ \A n : Fits(SHORT_BIT, n) => n \in Int
    /\ \A n : Fits(LONG_BIT, n) => n \in Int
    /\ \A n : Fits(LONG_LONG_BIT, n) => n \in Int
<1>1. SHORT_BIT <= LONG_BIT
  BY WidthsAre
<1>2. /\ \A n : Fits(SHORT_BIT, n) => Fits(LONG_BIT, n)
      /\ \A n : Fits(LONG_BIT, n) => Fits(LONG_LONG_BIT, n)
  BY <1>1, WidthsAre, Narrower
<1>3. \A n : Fits(LONG_LONG_BIT, n) => n \in Int
  BY WidthsAre, WidthIs DEF Fits
<1> QED BY <1>2, <1>3

\* A multiple is congruent to zero.
LEMMA MultipleIs ==
    ASSUME NEW d \in Nat \ {0}, NEW q \in Int
    PROVE  (d * q) % d = 0
<1>1. (0 + d * q) \div d = (0 \div d) + q
  BY DivPlus
<1>2. 0 \div d = 0
  <2>1. d * 0 <= 0 /\ 0 < d * 0 + d
    OBVIOUS
  <2> QED BY <2>1, QuotientIs
<1>3. (d * q) \div d = q /\ d * q \in Int
  BY <1>1, <1>2
<1> DEFINE n == d * q
<1>4. n = d * (n \div d) + (n % d) /\ n % d \in Int
  <2> HIDE DEF n
  <2>1. n \in Int
    BY <1>3 DEF n
  <2> QED BY <2>1, RemainderIs
<1> QED BY <1>3, <1>4

\* What wraps around fits, and differs by a multiple of the number of values.
LEMMA WrapFits ==
    ASSUME NEW w \in Nat \ {0}, NEW n \in Int
    PROVE  /\ Wrap(w, n) \in MachineInt(w)
           /\ \E q \in Int : Wrap(w, n) = n + Pow(2, w) * q
<1> DEFINE m == Pow(2, w - 1)
           d == Pow(2, w)
           r == (n + m) % d
           p == (n + m) \div d
<1>1. m \in Nat \ {0} /\ d = 2 * m /\ d \in Nat \ {0}
  BY WidthIs
<1>2. Wrap(w, n) = r - m
  BY DEF Wrap, Unsigned
<1> HIDE DEF m, d
<1>3. n + m \in Int
  BY <1>1
<1>4. r \in 0 .. d - 1 /\ n + m = d * p + r /\ p \in Int
  BY <1>1, <1>3, RemainderIs, DivIs
<1> HIDE DEF r, p
<1>5. r - m \in Int /\ -m <= r - m /\ r - m < m
  BY <1>1, <1>4
<1>6. Wrap(w, n) \in MachineInt(w)
  BY <1>2, <1>5, WidthIs DEF m
<1>7. r - m = n + d * (-p) /\ -p \in Int
  <2>1. d * (-p) = -(d * p)
    BY <1>1, <1>4
  <2>2. d * p \in Int
    BY <1>1, <1>4
  <2> HIDE DEF d
  <2> QED BY <1>1, <1>4, <2>1, <2>2
<1> QED BY <1>2, <1>6, <1>7 DEF d

LEMMA WrapModulo ==
    ASSUME NEW w \in Nat \ {0}, NEW n \in Int
    PROVE  (Wrap(w, n) - n) % Pow(2, w) = 0
<1> DEFINE d == Pow(2, w)
<1>1. d \in Nat \ {0}
  BY Pow2
<1>2. PICK q \in Int : Wrap(w, n) = n + d * q
  BY WrapFits
<1> HIDE DEF d
<1>3. d * q \in Int
  BY <1>1
<1>4. Wrap(w, n) - n = d * q
  BY <1>2, <1>3
<1> QED BY <1>1, <1>4, MultipleIs DEF d

LEMMA UnsignedIs ==
    ASSUME NEW w \in Nat, NEW n \in Int
    PROVE  /\ Unsigned(w, n) \in Nat /\ Unsigned(w, n) < Pow(2, w)
           /\ \E q \in Int : Unsigned(w, n) = n + Pow(2, w) * q
<1> DEFINE d == Pow(2, w)
           p == n \div d
<1>1. d \in Nat \ {0}
  BY Pow2
<1>2. Unsigned(w, n) = n % d
  BY DEF Unsigned
<1> HIDE DEF d
<1>3. n % d \in 0 .. d - 1 /\ n = d * p + (n % d) /\ p \in Int
  BY <1>1, RemainderIs, DivIs
<1> HIDE DEF p
<1>4. n % d = n + d * (-p) /\ -p \in Int
  <2>1. d * (-p) = -(d * p) /\ d * p \in Int
    BY <1>1, <1>3
  <2> QED BY <1>1, <1>3, <2>1
<1> QED BY <1>1, <1>2, <1>3, <1>4 DEF d

\* C's division stays in the type, but for the one case that DivisionFails
\* keeps away from it.
LEMMA QuotientFits ==
    ASSUME NEW w \in Nat \ {0}, NEW a \in MachineInt(w), NEW b \in Int, b > 0 \/ b < -1
    PROVE  Quotient(a, b) \in MachineInt(w)
<1> DEFINE m == Pow(2, w - 1)
           A == Magnitude(a)
           B == Magnitude(b)
           t == A \div B
<1>1. m \in Nat \ {0} /\ a \in Int /\ -m <= a /\ a < m
  BY WidthIs
<1>2. A \in Nat /\ A = (IF a < 0 THEN -a ELSE a) /\ B \in Nat \ {0} /\ B = (IF b < 0 THEN -b ELSE b)
  BY <1>1 DEF Magnitude
<1>3. Quotient(a, b) = IF (a < 0) = (b < 0) THEN t ELSE -t
  BY DEF Quotient
<1> HIDE DEF m, A, B
<1>4. t \in Int /\ B * t <= A /\ A < B * t + B
  <2>1. A \in Int /\ B \in Nat \ {0}
    BY <1>2
  <2> QED BY <2>1, DivIs
<1>5. 0 <= t
  <2> HIDE DEF t
  <2> SUFFICES ASSUME t + 1 <= 0
               PROVE  FALSE
    BY <1>4
  <2>1. (t + 1) * B <= 0 * B
    BY <1>2, <1>4, Mono
  <2>2. (t + 1) * B = B * t + B
    BY <1>2, <1>4
  <2> QED BY <1>2, <1>4, <2>1, <2>2
<1> HIDE DEF t
<1>6. t <= A
  <2>1. 1 * t <= B * t
    BY <1>2, <1>4, <1>5, Mono
  <2> QED BY <1>2, <1>4, <2>1
<1>7. CASE b > 0
  <2>1. Quotient(a, b) \in Int /\ -m <= Quotient(a, b) /\ Quotient(a, b) < m
    BY <1>1, <1>2, <1>3, <1>4, <1>5, <1>6, <1>7
  <2> QED BY <2>1, WidthIs DEF m
<1>8. CASE b < -1
  <2>1. 2 * t <= B * t
    BY <1>2, <1>4, <1>5, <1>8, Mono
  <2>2. 2 * t <= A
    BY <1>2, <1>4, <2>1
  <2>3. Quotient(a, b) \in Int /\ -m <= Quotient(a, b) /\ Quotient(a, b) < m
    BY <1>1, <1>2, <1>3, <1>4, <1>5, <2>2
  <2> QED BY <2>3, WidthIs DEF m
<1> QED BY <1>7, <1>8

\* i_divmod stays in the type for every dividend and every divisor but zero.
LEMMA DivmodFits ==
    ASSUME NEW w \in Nat \ {0, 1}, NEW xi \in MachineInt(w), NEW yi \in MachineInt(w), yi # 0,
           ~DivisionFails(w, xi, yi)
    PROVE  /\ i_divmod(w, xi, yi).div \in MachineInt(w)
           /\ i_divmod(w, xi, yi).mod \in MachineInt(w)
<1> DEFINE q == CASE yi < 0 /\ xi < 0 -> Quotient(Wrap(w, -xi), Wrap(w, -yi))
                  [] yi < 0 /\ xi >= 0 -> Wrap(w, -Quotient(xi, Wrap(w, -yi)))
                  [] yi > 0 /\ xi < 0 -> Wrap(w, -Quotient(Wrap(w, -xi), yi))
                  [] OTHER -> Quotient(xi, yi)
           r == Wrap(w, xi - Wrap(w, q * yi))
           adjust == r # 0 /\ (r < 0) # (yi < 0)
           n == Pow(2, w - 1)
<1>1. CASE xi # Smallest(w)
  <2>1. LET f == FloorQuotient(xi, yi)
        IN  /\ i_divmod(w, xi, yi) = [div |-> f, mod |-> xi - yi * f]
            /\ Fits(w, f) /\ Fits(w, xi - yi * f)
    BY <1>1, DivisionRoundsDown
  <2> QED BY <2>1 DEF Fits
<1>2. CASE xi = Smallest(w)
  <2>1. n \in Nat \ {0, 1} /\ xi = -n /\ yi \in Int /\ -n <= yi /\ yi < n /\ xi < 0 /\ yi # -1
    <3>1. n \in Nat \ {0} /\ xi = -n
      BY <1>2, WidthIs DEF Smallest
    <3>2. n # 1
      <4>1. w - 2 \in Nat /\ (w - 2) + 1 = w - 1
        OBVIOUS
      <4>2. n = 2 * Pow(2, w - 2) /\ Pow(2, w - 2) \in Nat
        BY <4>1, Pow2
      <4> QED BY <4>2
    <3>3. yi # -1
      BY <1>2 DEF DivisionFails
    <3>4. yi \in Int /\ -n <= yi /\ yi < n
      BY WidthIs
    <3> HIDE DEF n
    <3> QED BY <3>1, <3>2, <3>3, <3>4
  <2>2. \A k \in Int : Wrap(w, k) \in MachineInt(w)
    BY WrapFits
  <2>3. \A k \in MachineInt(w) : k \in Int
    BY WidthIs
  <2>4. q \in MachineInt(w)
    <3>1. CASE yi < 0
      <4> DEFINE X == Wrap(w, -xi)
                 Y == Wrap(w, -yi)
      <4>1. X \in MachineInt(w) /\ -yi \in Int
        BY <2>1, <2>2
      <4>2. -n <= -yi /\ -yi < n => Y = -yi
        BY <4>1, WrapIs
      <4>3. n <= -yi /\ -yi < 2 * n => Y = -yi - 2 * n
        BY <4>1, WrapIs
      <4>4. q = Quotient(X, Y)
        BY <2>1, <3>1
      <4> HIDE DEF n, X, Y, q
      <4>5. Y \in Int /\ (Y > 0 \/ Y < -1)
        BY <2>1, <3>1, <4>2, <4>3
      <4> QED BY <4>1, <4>4, <4>5, QuotientFits
    <3>2. CASE yi > 0
      <4> DEFINE X == Wrap(w, -xi)
      <4>1. X \in MachineInt(w)
        <5>1. -xi \in Int
          BY <2>1
        <5> QED BY <2>2, <5>1
      <4>2. q = Wrap(w, -Quotient(X, yi))
        BY <2>1, <3>2
      <4> HIDE DEF X
      <4>3. Quotient(X, yi) \in MachineInt(w)
        BY <2>1, <3>2, <4>1, QuotientFits
      <4>4. -Quotient(X, yi) \in Int
        BY <2>3, <4>3
      <4> QED BY <2>2, <4>2, <4>4
    <3> QED BY <2>1, <3>1, <3>2
  <2>5. i_divmod(w, xi, yi) = IF adjust THEN [div |-> Wrap(w, q - 1), mod |-> Wrap(w, r + yi)]
                              ELSE [div |-> q, mod |-> r]
    BY DEF i_divmod
  <2> HIDE DEF q, n
  <2>6. q \in Int /\ q * yi \in Int
    BY <2>1, <2>3, <2>4
  <2>7. Wrap(w, q * yi) \in Int
    BY <2>2, <2>3, <2>6
  <2>8. r \in MachineInt(w)
    <3>1. xi - Wrap(w, q * yi) \in Int
      BY <2>1, <2>7
    <3> QED BY <2>2, <3>1
  <2> HIDE DEF r
  <2>9. Wrap(w, q - 1) \in MachineInt(w) /\ Wrap(w, r + yi) \in MachineInt(w)
    <3>1. q - 1 \in Int /\ r + yi \in Int
      BY <2>1, <2>3, <2>6, <2>8
    <3> QED BY <2>2, <3>1
  <2> HIDE DEF adjust
  <2> QED BY <2>4, <2>5, <2>8, <2>9
<1> QED BY <1>1, <1>2

-----------------------------------------------------------------------------
(* The results of the binary operators. *)

Dividing == {"div", "mod", "divmod"}

\* What ArithmeticExact and RaisesOnlyWhenNeeded say of the result o of op on
\* the operands a and b.
ExactResult(op, a, b, o) ==
    /\ op \in Arithmetic \ {"divmod"} =>
          \/ o.val = Exact(op, a, b)
          \/ /\ o.type = "int8"
             /\ \/ op \in {"add", "sub"} /\ (o.val - Exact(op, a, b)) % Pow(2, LONG_LONG_BIT) = 0
                \/ op \in {"div", "mod"} /\ a = LLONG_MIN
    /\ op = "rshift" => o.val = a \div ShiftedBy(b)
    /\ op = "lshift" =>
          (o.val - a * ShiftedBy(b)) % Pow(2, IF o.type = "int2" THEN SHORT_BIT ELSE LONG_LONG_BIT) = 0
    /\ op = "and" => \A i \in Nat : Bit(o.val, i) = (Bit(a, i) /\ Bit(b, i))
    /\ op = "or" => \A i \in Nat : Bit(o.val, i) = (Bit(a, i) \/ Bit(b, i))
    /\ op = "xor" => \A i \in Nat : Bit(o.val, i) = (Bit(a, i) # Bit(b, i))

RaisedResult(op, bits, a, b, o) ==
    \/ b = 0 /\ op \in {"div", "mod"} /\ o.type = "ZeroDivisionError"
    \/ /\ o.type \in {"OverflowError", "ValueError"}
       /\ \/ ~Fits(bits, Exact(op, a, b))
          \/ op = "mul" /\ a * b = LLONG_MIN
          \/ op = "mod" /\ a = LLONG_MIN /\ b = -1

Good(op, bits, a, b, o) ==
    /\ InType(o)
    /\ IsNumber(o) /\ ~o.pending => ExactResult(op, a, b, o)
    /\ op \in Arithmetic \ {"divmod"} /\ ~IsNumber(o) => RaisedResult(op, bits, a, b, o)

LEMMA ExactIs ==
    ASSUME NEW a, NEW b
    PROVE  /\ Exact("add", a, b) = a + b /\ Exact("sub", a, b) = a - b /\ Exact("mul", a, b) = a * b
           /\ Exact("div", a, b) = FloorQuotient(a, b)
           /\ Exact("mod", a, b) = a - b * FloorQuotient(a, b)
BY DEF Exact

\* The records of numbers and errors.
LEMMA RecordsAre ==
    /\ \A n : /\ Int8(n).type = "int8" /\ Int8(n).val = n /\ Int8(n).pending = FALSE
              /\ IsNumber(Int8(n)) /\ (Fits(LONG_LONG_BIT, n) => InType(Int8(n)))
    /\ \A n : /\ Int2(n).type = "int2" /\ Int2(n).val = n /\ Int2(n).pending = FALSE
              /\ IsNumber(Int2(n)) /\ (Fits(SHORT_BIT, n) => InType(Int2(n)))
    /\ \A e \in {"ValueError", "OverflowError", "ZeroDivisionError", "TypeError", "SystemError"} :
              /\ Raise(e).type = e /\ ~IsNumber(Raise(e)) /\ InType(Raise(e))
    /\ ~IsNumber(NotImplemented) /\ ~InType(NotImplemented)
BY DEF Int8, Int2, Value, Raise, NotImplemented, IsNumber, InType

LEMMA NumberIsGood ==
    ASSUME NEW op, NEW bits, NEW a, NEW b, NEW o, InType(o), IsNumber(o), ExactResult(op, a, b, o)
    PROVE  Good(op, bits, a, b, o)
BY DEF Good

LEMMA ErrorIsGood ==
    ASSUME NEW op, NEW bits, NEW a, NEW b,
           NEW e \in {"ValueError", "OverflowError", "ZeroDivisionError", "TypeError", "SystemError"},
           op \in Arithmetic \ {"divmod"} => RaisedResult(op, bits, a, b, Raise(e))
    PROVE  Good(op, bits, a, b, Raise(e))
BY RecordsAre DEF Good

\* An exact number, and one that is exact but for what wraps around.
LEMMA ExactIsGood ==
    ASSUME NEW op \in Arithmetic, NEW bits, NEW a, NEW b, NEW o, InType(o), IsNumber(o),
           op = "divmod" \/ o.val = Exact(op, a, b)
    PROVE  Good(op, bits, a, b, o)
<1>1. ExactResult(op, a, b, o)
  BY DEF ExactResult, Arithmetic
<1> QED BY <1>1, NumberIsGood

LEMMA WrappedIsGood ==
    ASSUME NEW op \in {"add", "sub"}, NEW bits, NEW a, NEW b, NEW n, Fits(LONG_LONG_BIT, n),
           (n - Exact(op, a, b)) % Pow(2, LONG_LONG_BIT) = 0
    PROVE  Good(op, bits, a, b, Int8(n))
<1> DEFINE o == Int8(n)
<1>1. o.type = "int8" /\ o.val = n /\ InType(o) /\ IsNumber(o)
  BY RecordsAre
<1> HIDE DEF o
<1>2. ExactResult(op, a, b, o)
  BY <1>1 DEF ExactResult, Arithmetic
<1>3. Good(op, bits, a, b, o)
  BY <1>1, <1>2, NumberIsGood
<1> QED BY <1>3 DEF o

LEMMA Int8OfFits ==
    ASSUME NEW n, Fits(LONG_LONG_BIT, n)
    PROVE  InType(Int8(n)) /\ IsNumber(Int8(n)) /\ Int8(n).val = n /\ Int8(n).type = "int8"
BY RecordsAre

LEMMA Int2OfFits ==
    ASSUME NEW n, Fits(SHORT_BIT, n)
    PROVE  InType(Int2(n)) /\ IsNumber(Int2(n)) /\ Int2(n).val = n /\ Int2(n).type = "int2"
BY RecordsAre

\* A PgInt8 with a PgInt8 or an int.
LEMMA Int8SlotIsGood ==
    ASSUME NEW v, NEW w, v.val \in MachineInt(LONG_LONG_BIT), w.val \in MachineInt(LONG_LONG_BIT),
           AsInt8(v, w), NEW op \in Arithmetic
    PROVE  Good(op, LONG_LONG_BIT, v.val, w.val, Int8Slot(op, v, w))
<1> DEFINE a == v.val
           b == w.val
           o == Int8Slot(op, v, w)
<1> SUFFICES Good(op, LONG_LONG_BIT, a, b, o)
  OBVIOUS
<1>1. a \in MachineInt(LONG_LONG_BIT) /\ b \in MachineInt(LONG_LONG_BIT) /\ a \in Int /\ b \in Int
  BY WidthsAre, WidthIs
<1>2. \A x \in MachineInt(LONG_LONG_BIT), y \in MachineInt(LONG_LONG_BIT) : ~BelowZero(x, y)
  <2> SUFFICES ASSUME NEW x \in MachineInt(LONG_LONG_BIT), NEW y \in MachineInt(LONG_LONG_BIT)
               PROVE  ~BelowZero(x, y)
    OBVIOUS
  <2>1. BitXor(LONG_LONG_BIT, x, y) \in MachineInt(LONG_LONG_BIT)
    BY WidthsAre, BitwiseIs
  <2>2. BitXor(LONG_LONG_BIT, x, y) \in Int
    BY <2>1, WidthsAre, WidthIs
  <2>3. Unsigned(LONG_LONG_BIT, BitXor(LONG_LONG_BIT, x, y)) \in Nat
    BY <2>2, WidthsAre, UnsignedIs
  <2> QED BY <2>3 DEF BelowZero
<1>3. \A n \in Int : /\ LL(n) \in MachineInt(LONG_LONG_BIT)
                     /\ (LL(n) - n) % Pow(2, LONG_LONG_BIT) = 0
  BY WidthsAre, WrapFits, WrapModulo DEF LL
<1>4. CASE op = "add"
  <2>1. a + b \in Int
    BY <1>1
  <2>2. o = Int8(LL(a + b))
    <3>1. ~BelowZero(LL(a + b), a)
      BY <1>1, <1>2, <1>3, <2>1
    <3> QED BY <1>4, <3>1 DEF Int8Slot, int8_add
  <2>3. Exact(op, a, b) = a + b
    BY <1>4, ExactIs
  <2> HIDE DEF a, b, o
  <2>4. Fits(LONG_LONG_BIT, LL(a + b)) /\ (LL(a + b) - Exact(op, a, b)) % Pow(2, LONG_LONG_BIT) = 0
    BY <1>3, <2>1, <2>3 DEF Fits
  <2> QED BY <1>4, <2>2, <2>4, WrappedIsGood
<1>5. CASE op = "sub"
  <2>1. a - b \in Int
    BY <1>1
  <2>2. o = Int8(LL(a - b))
    <3>1. ~BelowZero(LL(a - b), a)
      BY <1>1, <1>2, <1>3, <2>1
    <3> QED BY <1>5, <3>1 DEF Int8Slot, int8_sub
  <2>3. Exact(op, a, b) = a - b
    BY <1>5, ExactIs
  <2> HIDE DEF a, b, o
  <2>4. Fits(LONG_LONG_BIT, LL(a - b)) /\ (LL(a - b) - Exact(op, a, b)) % Pow(2, LONG_LONG_BIT) = 0
    BY <1>3, <2>1, <2>3 DEF Fits
  <2> QED BY <1>5, <2>2, <2>4, WrappedIsGood
<1>6. CASE op = "mul"
  <2>1. o = int8_mul(v, w)
    BY <1>6 DEF Int8Slot
  <2>2. int8_mul(v, w) = int8_mul(Int8(a), Int8(b))
    <3>1. AsInt8(Int8(a), Int8(b)) /\ Int8(a).val = a /\ Int8(b).val = b
      BY DEF AsInt8, Int8, Value
    <3> QED BY <3>1 DEF int8_mul
  <2>3. LET r == int8_mul(Int8(a), Int8(b))
        IN  \/ r = Int8(a * b) /\ Fits(LONG_LONG_BIT, a * b)
            \/ r = Raise("OverflowError") /\ (~Fits(LONG_LONG_BIT, a * b) \/ a * b = LLONG_MIN)
    BY <1>1, Int8MultiplicationIsExact
  <2>4. \/ o = Int8(a * b) /\ Fits(LONG_LONG_BIT, a * b)
        \/ o = Raise("OverflowError") /\ (~Fits(LONG_LONG_BIT, a * b) \/ a * b = LLONG_MIN)
    BY <2>1, <2>2, <2>3
  <2>5. Exact(op, a, b) = a * b
    BY <1>6, ExactIs
  <2> HIDE DEF a, b, o
  <2>6. CASE o = Int8(a * b) /\ Fits(LONG_LONG_BIT, a * b)
    BY <2>5, <2>6, Int8OfFits, ExactIsGood
  <2>7. CASE o = Raise("OverflowError") /\ (~Fits(LONG_LONG_BIT, a * b) \/ a * b = LLONG_MIN)
    <3>1. RaisedResult(op, LONG_LONG_BIT, a, b, Raise("OverflowError"))
      BY <1>6, <2>5, <2>7 DEF RaisedResult, Raise
    <3> QED BY <2>7, <3>1, ErrorIsGood
  <2> QED BY <2>4, <2>6, <2>7
<1>7. CASE op \in Dividing /\ DivisionFails(LONG_LONG_BIT, a, b)
  <2>1. o = DivisionError(b)
    BY <1>7 DEF Int8Slot, int8_div, int8_mod, int8_divmod, Dividing
  <2> HIDE DEF o
  <2>2. CASE b = 0
    <3>1. o = Raise("ZeroDivisionError")
      BY <2>1, <2>2 DEF DivisionError
    <3>2. op \in Arithmetic \ {"divmod"} =>
              RaisedResult(op, LONG_LONG_BIT, a, b, Raise("ZeroDivisionError"))
      BY <1>7, <2>2 DEF RaisedResult, Raise, Dividing, Arithmetic
    <3> QED BY <3>1, <3>2, ErrorIsGood
  <2>3. CASE b # 0
    <3>1. o = Raise("OverflowError") /\ b = -1 /\ a = LLONG_MIN
      BY <1>7, <2>1, <2>3 DEF DivisionError, DivisionFails, LLONG_MIN
    <3>2. ~Fits(LONG_LONG_BIT, FloorQuotient(a, b))
      <4> DEFINE m == Pow(2, LONG_LONG_BIT - 1)
      <4>1. m \in Nat \ {0} /\ LLONG_MIN = -m /\ \A n : Fits(LONG_LONG_BIT, n) => n < m
        BY WidthsAre, WidthIs DEF LLONG_MIN, Smallest, Fits
      <4>2. FloorQuotient(a, b) = (-a) \div (-b)
        BY <1>1, <3>1 DEF FloorQuotient
      <4> HIDE DEF m, a, b
      <4>3. (-a) \div (-b) = m
        BY <3>1, <4>1
      <4> QED BY <4>1, <4>2, <4>3
    <3>3. op = "div" => Exact(op, a, b) = FloorQuotient(a, b)
      BY ExactIs
    <3> HIDE DEF a, b
    <3>4. op \in Arithmetic \ {"divmod"} => RaisedResult(op, LONG_LONG_BIT, a, b, Raise("OverflowError"))
      BY <1>7, <3>1, <3>2, <3>3 DEF RaisedResult, Raise, Dividing, Arithmetic
    <3> QED BY <3>1, <3>4, ErrorIsGood
  <2> QED BY <2>2, <2>3
<1>8. CASE op \in {"div", "mod"} /\ ~DivisionFails(LONG_LONG_BIT, a, b)
  <2>1. LONG_LONG_BIT \in Nat \ {0, 1} /\ LONG_LONG_BIT \in Nat \ {0} /\ b # 0
    BY <1>8, WidthsAre DEF DivisionFails
  <2> DEFINE d == i_divmod(LONG_LONG_BIT, a, b)
  <2>2. d.div \in MachineInt(LONG_LONG_BIT) /\ d.mod \in MachineInt(LONG_LONG_BIT)
    BY <1>1, <1>8, <2>1, DivmodFits
  <2>3. a # LLONG_MIN => d = [div |-> FloorQuotient(a, b), mod |-> a - b * FloorQuotient(a, b)]
    BY <1>1, <2>1, DivisionRoundsDown DEF LLONG_MIN
  <2>4. o = Int8(IF op = "div" THEN d.div ELSE d.mod)
    BY <1>8 DEF Int8Slot, int8_div, int8_mod
  <2>5. a # LLONG_MIN => (IF op = "div" THEN d.div ELSE d.mod) = Exact(op, a, b)
    <3>1. a # LLONG_MIN => d.div = FloorQuotient(a, b) /\ d.mod = a - b * FloorQuotient(a, b)
      BY <2>3
    <3> HIDE DEF d, a, b
    <3> QED BY <1>8, <3>1, ExactIs
  <2> DEFINE n == IF op = "div" THEN d.div ELSE d.mod
  <2>6. Fits(LONG_LONG_BIT, n)
    BY <2>2 DEF Fits
  <2> HIDE DEF n, d, a, b, o
  <2>7. o = Int8(n) /\ (a # LLONG_MIN => n = Exact(op, a, b))
    BY <2>4, <2>5 DEF n
  <2>8. InType(o) /\ IsNumber(o) /\ o.val = n /\ o.type = "int8"
    BY <2>6, <2>7, Int8OfFits
  <2>9. ExactResult(op, a, b, o)
    BY <1>8, <2>7, <2>8 DEF ExactResult, Arithmetic
  <2> QED BY <2>8, <2>9, NumberIsGood
<1>9. CASE op = "divmod" /\ ~DivisionFails(LONG_LONG_BIT, a, b)
  <2>1. o = Raise("SystemError")
    BY <1>9 DEF Int8Slot, int8_divmod
  <2> HIDE DEF o
  <2> QED BY <1>9, <2>1, ErrorIsGood
<1> HIDE DEF a, b
<1> QED BY <1>4, <1>5, <1>6, <1>7, <1>8, <1>9 DEF Arithmetic, Dividing, a, b

\* The operands: every one has a number that fits its type.
LEMMA OperandIs ==
    ASSUME NEW v \in PyIntegers
    PROVE  /\ v.type \in {"int2", "int8", "int", "long"} /\ v.val \in Int /\ v.pending = FALSE
           /\ IsNumber(v) /\ InType(v)
           /\ v.type = "int2" => v.val \in MachineInt(SHORT_BIT) /\ v.val \in MachineInt(LONG_BIT)
           /\ v.type # "long" => v.val \in MachineInt(LONG_LONG_BIT)
           /\ v.type = "int" => v.val \in MachineInt(LONG_BIT)
BY FitWider DEF PyIntegers, IsNumber, InType, Fits

\* Python's own integers are exact.
LEMMA PyNumberIsGood ==
    ASSUME NEW op \in Arithmetic, NEW bits, NEW v, NEW w, v.val \in Int, w.val \in Int
    PROVE  Good(op, bits, v.val, w.val, PyNumber(op, v, w))
<1> DEFINE a == v.val
           b == w.val
           exact == Exact(IF op = "divmod" THEN "div" ELSE op, a, b)
           type == IF v.type = "int" /\ w.type = "int" /\ Fits(LONG_BIT, exact) THEN "int" ELSE "long"
           o == PyNumber(op, v, w)
<1> SUFFICES Good(op, bits, a, b, o)
  OBVIOUS
<1>1. CASE op \in Dividing /\ b = 0
  <2>1. o = Raise("ZeroDivisionError")
    BY <1>1 DEF PyNumber, Dividing
  <2> HIDE DEF o, a, b
  <2>2. op \in Arithmetic \ {"divmod"} => RaisedResult(op, bits, a, b, Raise("ZeroDivisionError"))
    BY <1>1 DEF RaisedResult, Raise, Dividing
  <2> QED BY <2>1, <2>2, ErrorIsGood
<1>2. CASE ~(op \in Dividing /\ b = 0)
  <2>1. o = Value(type, exact)
    BY <1>2 DEF PyNumber, Dividing
  <2>2. type \in {"int", "long"} /\ (type = "int" => Fits(LONG_BIT, exact))
    BY SMT
  <2>3. op # "divmod" => exact = Exact(op, a, b)
    OBVIOUS
  <2> HIDE DEF o, a, b, type, exact
  <2>4. o.type = type /\ o.val = exact
    BY <2>1 DEF Value
  <2>5. InType(o) /\ IsNumber(o)
    BY <2>2, <2>4 DEF InType, IsNumber
  <2> QED BY <2>3, <2>4, <2>5, ExactIsGood
<1> QED BY <1>1, <1>2

\* A PgInt2 is never the most negative C long.
LEMMA ShortIsNotSmallest ==
    ASSUME NEW a \in MachineInt(SHORT_BIT)
    PROVE  a \in MachineInt(LONG_BIT) /\ a \in Int /\ a # Smallest(LONG_BIT) /\ a # LLONG_MIN
<1>1. /\ SHORT_BIT - 1 \in Nat /\ SHORT_BIT \in Nat /\ LONG_BIT - 1 \in Nat /\ LONG_LONG_BIT - 1 \in Nat
      /\ (SHORT_BIT - 1) + 1 = SHORT_BIT
      /\ SHORT_BIT <= LONG_BIT - 1 /\ SHORT_BIT <= LONG_LONG_BIT - 1
  BY WidthsAre
<1>2. /\ Pow(2, SHORT_BIT) = 2 * Pow(2, SHORT_BIT - 1) /\ Pow(2, SHORT_BIT - 1) \in Nat \ {0}
      /\ Pow(2, SHORT_BIT) <= Pow(2, LONG_BIT - 1) /\ Pow(2, SHORT_BIT) <= Pow(2, LONG_LONG_BIT - 1)
      /\ Pow(2, LONG_BIT - 1) \in Nat /\ Pow(2, LONG_LONG_BIT - 1) \in Nat
  BY <1>1, Pow2
<1>3. a \in Int /\ -Pow(2, SHORT_BIT - 1) <= a
  BY WidthsAre, WidthIs
<1>4. a \in MachineInt(LONG_BIT)
  BY FitWider DEF Fits
<1> QED BY <1>2, <1>3, <1>4 DEF Smallest, LLONG_MIN

\* A result that is narrowed to a PgInt2, or refused.
LEMMA NarrowedIsGood ==
    ASSUME NEW op \in Arithmetic \ {"divmod"}, NEW a, NEW b, NEW n, n = Exact(op, a, b),
           NEW o \in {Narrowed(n), PgInt2_FromLong(n)}
    PROVE  Good(op, SHORT_BIT, a, b, o)
<1>1. CASE Fits(SHORT_BIT, n)
  <2>1. o = Int2(n)
    BY <1>1 DEF Narrowed, PgInt2_FromLong
  <2> QED BY <1>1, <2>1, Int2OfFits, ExactIsGood
<1>2. CASE ~Fits(SHORT_BIT, n)
  <2>1. PICK e \in {"OverflowError", "ValueError"} : o = Raise(e)
    BY <1>2 DEF Narrowed, PgInt2_FromLong
  <2>2. RaisedResult(op, SHORT_BIT, a, b, Raise(e))
    BY <1>2 DEF RaisedResult, Raise
  <2> QED BY <2>1, <2>2, ErrorIsGood
<1> QED BY <1>1, <1>2

\* Two PgInt2.
LEMMA Int2PairIsGood ==
    ASSUME NEW op \in Arithmetic, NEW v, NEW w, AreInt2(v, w),
           v.val \in MachineInt(SHORT_BIT), w.val \in MachineInt(SHORT_BIT)
    PROVE  \A o \in Int2Slot(op, v, w) : Good(op, SHORT_BIT, v.val, w.val, o)
<1> DEFINE a == v.val
           b == w.val
<1>1. /\ a \in MachineInt(LONG_BIT) /\ a \in Int /\ a # Smallest(LONG_BIT)
      /\ b \in MachineInt(LONG_BIT) /\ b \in Int
  BY ShortIsNotSmallest
<1>2. CASE op \in {"add", "sub", "mul"}
  <2>1. Int2Slot(op, v, w) = {Narrowed(Exact(op, a, b))}
    BY <1>2, ExactIs DEF Int2Slot, int2_add, int2_sub, int2_mul
  <2> QED BY <1>2, <2>1, NarrowedIsGood DEF Arithmetic
<1>3. CASE op \in Dividing /\ b = 0
  <2>1. Int2Slot(op, v, w) = {Raise("ZeroDivisionError")}
    BY <1>3 DEF Int2Slot, int2_div, int2_mod, int2_divmod, Dividing, DivisionFails, DivisionError
  <2>2. op \in Arithmetic \ {"divmod"} => RaisedResult(op, SHORT_BIT, a, b, Raise("ZeroDivisionError"))
    BY <1>3 DEF RaisedResult, Raise, Dividing
  <2>3. Good(op, SHORT_BIT, a, b, Raise("ZeroDivisionError"))
    BY <2>2, ErrorIsGood
  <2> QED BY <2>1, <2>3
<1>4. CASE op \in {"div", "mod"} /\ b # 0
  <2> DEFINE d == i_divmod(LONG_BIT, a, b)
  <2>1. ~DivisionFails(LONG_BIT, a, b)
    BY <1>1, <1>4 DEF DivisionFails
  <2>2. d = [div |-> FloorQuotient(a, b), mod |-> a - b * FloorQuotient(a, b)]
    BY <1>1, <1>4, WidthsAre, DivisionRoundsDown
  <2>3. Int2Slot(op, v, w) = {PgInt2_FromLong(IF op = "div" THEN d.div ELSE d.mod)}
    BY <1>4, <2>1 DEF Int2Slot, int2_div, int2_mod
  <2>4. (IF op = "div" THEN d.div ELSE d.mod) = Exact(op, a, b)
    BY <1>4, <2>2, ExactIs
  <2> HIDE DEF d
  <2> QED BY <1>4, <2>3, <2>4, NarrowedIsGood DEF Arithmetic
<1>5. CASE op = "divmod" /\ b # 0
  <2>1. ~DivisionFails(LONG_BIT, a, b)
    BY <1>1, <1>5 DEF DivisionFails
  <2>2. Int2Slot(op, v, w) = {Raise("SystemError")}
    BY <1>5, <2>1 DEF Int2Slot, int2_divmod
  <2>3. Good(op, SHORT_BIT, a, b, Raise("SystemError"))
    BY <1>5, ErrorIsGood
  <2> QED BY <2>2, <2>3
<1> QED BY <1>2, <1>3, <1>4, <1>5 DEF Arithmetic, Dividing

\* A PgInt2 with a number of another type.
LEMMA DelegatedIsGood ==
    ASSUME NEW op \in Arithmetic, NEW v \in PyIntegers, NEW w \in PyIntegers,
           v.type = "int2" \/ w.type = "int2", ~AreInt2(v, w)
    PROVE  \A o \in Int2Slot(op, v, w) : Good(op, LONG_LONG_BIT, v.val, w.val, o)
<1> DEFINE c == int2_coerce(v, w)
           x == c[1]
           y == c[2]
<1>1. Int2Slot(op, v, w) = {Delegated(op, v, w)}
  BY DEF Int2Slot, int2_add, int2_sub, int2_mul, int2_div, int2_mod, int2_divmod, Arithmetic
<1>2. x.val = v.val /\ y.val = w.val /\ (x.type = "int8" => y.type = "int8")
  <2>1. CASE v.type = "int2"
    <3>1. x = Value(w.type, v.val) /\ y = w
      BY <2>1 DEF int2_coerce, AreInt2
    <3> QED BY <3>1 DEF Value
  <2>2. CASE v.type # "int2"
    <3>1. x = v /\ y = Value(v.type, w.val)
      BY <2>2 DEF int2_coerce
    <3> QED BY <3>1 DEF Value
  <2> QED BY <2>1, <2>2
<1>3. v.val \in Int /\ w.val \in Int
  BY OperandIs
<1>4. CASE x.type = "int8"
  <2>1. v.val \in MachineInt(LONG_LONG_BIT) /\ w.val \in MachineInt(LONG_LONG_BIT)
    <3>1. v.type # "long" /\ w.type # "long"
      <4>1. CASE v.type = "int2"
        <5>1. x = Value(w.type, v.val)
          BY <4>1 DEF int2_coerce, AreInt2
        <5> QED BY <1>4, <4>1, <5>1 DEF Value
      <4>2. CASE v.type # "int2"
        <5>1. x = v
          BY <4>2 DEF int2_coerce
        <5> QED BY <1>4, <4>2, <5>1
      <4> QED BY <4>1, <4>2
    <3> QED BY <3>1, OperandIs
  <2>2. AsInt8(x, y)
    BY <1>2, <1>4 DEF AsInt8
  <2>3. Delegated(op, v, w) = Int8Slot(op, x, y)
    BY <1>4 DEF Delegated
  <2> HIDE DEF c, x, y
  <2>4. Good(op, LONG_LONG_BIT, x.val, y.val, Int8Slot(op, x, y))
    BY <1>2, <2>1, <2>2, Int8SlotIsGood
  <2> QED BY <1>1, <1>2, <2>3, <2>4
<1>5. CASE x.type # "int8"
  <2>1. Delegated(op, v, w) = PyNumber(op, x, y)
    BY <1>5 DEF Delegated
  <2> HIDE DEF c, x, y
  <2>2. Good(op, LONG_LONG_BIT, x.val, y.val, PyNumber(op, x, y))
    BY <1>2, <1>3, PyNumberIsGood
  <2> QED BY <1>1, <1>2, <2>1, <2>2
<1> QED BY <1>4, <1>5

-----------------------------------------------------------------------------
(* Shifts and bit operations. *)

\* Shifts of a number of w bits: by w or more, to the left, to the right.
LEMMA ShiftedByIs ==
    ASSUME NEW b \in Nat
    PROVE  /\ ShiftedBy(b) \in Nat \ {0}
           /\ \A w \in Nat \ {0} : w <= LONG_LONG_BIT /\ w <= b =>
                  \E r \in Nat \ {0} : ShiftedBy(b) = Pow(2, w) * r
           /\ b <= LONG_LONG_BIT => ShiftedBy(b) = Pow(2, b)
<1> DEFINE m == IF b > 2 * LONG_LONG_BIT THEN 2 * LONG_LONG_BIT ELSE b
<1>1. m \in Nat /\ (b <= LONG_LONG_BIT => m = b)
  BY WidthsAre
<1>2. ShiftedBy(b) = Pow(2, m)
  BY DEF ShiftedBy
<1>3. ASSUME NEW w \in Nat \ {0}, w <= LONG_LONG_BIT, w <= b
      PROVE  \E r \in Nat \ {0} : Pow(2, m) = Pow(2, w) * r
  <2>1. w + (m - w) = m /\ m - w \in Nat /\ w \in Nat
    BY <1>3, WidthsAre
  <2> HIDE DEF m
  <2>2. Pow(2, w + (m - w)) = Pow(2, w) * Pow(2, m - w) /\ Pow(2, m - w) \in Nat \ {0}
    BY <2>1, Pow2
  <2> QED BY <2>1, <2>2
<1> HIDE DEF m
<1>4. Pow(2, m) \in Nat \ {0}
  BY <1>1, Pow2
<1> QED BY <1>1, <1>2, <1>3, <1>4

LEMMA FarShiftIs ==
    ASSUME NEW w \in Nat \ {0}, w <= LONG_LONG_BIT, NEW a \in MachineInt(w), NEW b \in Nat, w <= b
    PROVE  /\ (0 - a * ShiftedBy(b)) % Pow(2, w) = 0
           /\ a \div ShiftedBy(b) = IF a < 0 THEN -1 ELSE 0
<1>1. PICK r \in Nat \ {0} : ShiftedBy(b) = Pow(2, w) * r
  BY ShiftedByIs
<1> DEFINE d == Pow(2, w)
           m == Pow(2, w - 1)
           s == ShiftedBy(b)
<1>2. d \in Nat \ {0} /\ a \in Int /\ s \in Nat \ {0} /\ s = d * r
  BY <1>1, Pow2, WidthIs, ShiftedByIs
<1>3. m \in Nat \ {0} /\ d = 2 * m /\ -m <= a /\ a < m
  BY WidthIs
<1> HIDE DEF d, m, s
<1>4. s >= d
  <2>1. r >= 1
    OBVIOUS
  <2>2. d * 1 <= d * r
    BY <1>2, <2>1, Mono
  <2> QED BY <1>2, <2>2
<1>5. (0 - a * s) % d = 0
  <2>1. a * r \in Int /\ 0 - a * r \in Int
    BY <1>2, Product
  <2>2. 0 - a * s = d * (0 - a * r)
    BY <1>2
  <2> QED BY <1>2, <2>1, <2>2, MultipleIs
<1>6. a \div s = IF a < 0 THEN -1 ELSE 0
  <2>1. CASE a < 0
    <3>1. s * (-1) <= a /\ a < s * (-1) + s
      BY <1>2, <1>3, <1>4, <2>1
    <3>2. a \div s = -1
      BY <1>2, <3>1, QuotientIs
    <3> QED BY <2>1, <3>2
  <2>2. CASE a >= 0
    <3>1. \E q \in Int : q = 0 /\ s * q <= a /\ a < s * q + s
      BY <1>2, <1>3, <1>4, <2>2
    <3>2. a \div s = 0
      BY <1>2, <3>1, QuotientIs
    <3> QED BY <1>2, <2>2, <3>2
  <2> QED BY <1>2, <2>1, <2>2
<1> QED BY <1>5, <1>6 DEF d, s

\* A number of w bits shifted by less than w: to the left the upper bits are
\* dropped first, to the right the number is divided.
LEMMA NearShiftIs ==
    ASSUME NEW w \in Nat \ {0}, w <= LONG_LONG_BIT, NEW a \in MachineInt(w), NEW b \in Nat, b < w
    PROVE  /\ (Wrap(w, Unsigned(w - b, a) * Pow(2, b)) - a * ShiftedBy(b)) % Pow(2, w) = 0
           /\ (Unsigned(w, a * Pow(2, b)) - a * ShiftedBy(b)) % Pow(2, w) = 0
           /\ a \div Pow(2, b) = a \div ShiftedBy(b)
           /\ a \div Pow(2, b) \in MachineInt(w)
<1> DEFINE d == Pow(2, w)
           p == Pow(2, b)
           m == Pow(2, w - 1)
<1>1. w - b \in Nat /\ (w - b) + b = w /\ w \in Nat /\ b <= LONG_LONG_BIT
  BY WidthsAre
<1>2. Pow(2, w) = Pow(2, w - b) * Pow(2, b)
  BY <1>1, Pow2
<1>3. ShiftedBy(b) = p
  BY <1>1, ShiftedByIs
<1>4. d \in Nat \ {0} /\ p \in Nat \ {0} /\ a \in Int /\ Pow(2, w - b) \in Nat \ {0}
  BY <1>1, Pow2, WidthIs
<1>5. m \in Nat /\ -m <= a /\ a < m /\ \A n : n \in MachineInt(w) <=> n \in Int /\ -m <= n /\ n < m
  BY WidthIs
<1>6. PICK q \in Int : Unsigned(w - b, a) = a + Pow(2, w - b) * q
  BY <1>1, <1>4, UnsignedIs
<1> DEFINE e == Pow(2, w - b)
           u == Unsigned(w - b, a)
<1> HIDE DEF d, p, m, e, u
<1>7. d = e * p /\ u = a + e * q /\ e \in Nat \ {0}
  BY <1>2, <1>4, <1>6 DEF d, e, p, u
<1>8. u * p = a * p + d * q /\ u * p \in Int /\ a * p \in Int
  BY <1>4, <1>7
<1>9. PICK r \in Int : Wrap(w, u * p) = u * p + d * r
  BY <1>8, WrapFits DEF d
<1>10. (Wrap(w, u * p) - a * p) % d = 0
  <2>1. q + r \in Int /\ Wrap(w, u * p) - a * p = d * (q + r)
    BY <1>4, <1>8, <1>9
  <2> QED BY <1>4, <2>1, MultipleIs
<1>11. (Unsigned(w, a * p) - a * p) % d = 0
  <2>1. PICK t \in Int : Unsigned(w, a * p) = a * p + d * t
    BY <1>1, <1>8, UnsignedIs DEF d
  <2>2. Unsigned(w, a * p) - a * p = d * t
    BY <1>4, <1>8, <2>1
  <2> QED BY <1>4, <2>1, <2>2, MultipleIs
<1>12. a \div p \in MachineInt(w)
  <2> DEFINE k == a \div p
  <2>1. k \in Int /\ p * k <= a /\ a < p * k + p
    BY <1>4, DivIs
  <2> HIDE DEF k
  <2>2. k < m
    <3> SUFFICES ASSUME m <= k
                 PROVE  FALSE
      BY <1>5, <2>1
    <3>1. 1 * k <= p * k
      BY <1>4, <1>5, <2>1, Mono
    <3> QED BY <1>4, <1>5, <2>1, <3>1
  <2>3. -m <= k
    <3> SUFFICES ASSUME k < -m
                 PROVE  FALSE
      BY <1>5, <2>1
    <3>1. k + 1 <= -m /\ k + 1 \in Int /\ -(k + 1) \in Nat
      BY <1>5, <2>1
    <3>2. 1 * (-(k + 1)) <= p * (-(k + 1))
      BY <1>4, <3>1, Mono
    <3>3. p * (k + 1) = p * k + p
      BY <1>4, <2>1
    <3>4. p * (-(k + 1)) = -(p * (k + 1))
      BY <1>4, <2>1
    <3> QED BY <1>4, <1>5, <2>1, <3>1, <3>2, <3>3, <3>4
  <2>4. k \in MachineInt(w)
    BY <1>5, <2>1, <2>2, <2>3
  <2> QED BY <2>4 DEF k
<1> QED BY <1>3, <1>10, <1>11, <1>12 DEF d, p, u

LEMMA SmallFit ==
    ASSUME NEW w \in Nat \ {0}
    PROVE  Fits(w, 0) /\ Fits(w, -1)
<1> DEFINE m == Pow(2, w - 1)
<1>1. m \in Nat \ {0} /\ \A n : n \in MachineInt(w) <=> n \in Int /\ -m <= n /\ n < m
  BY WidthIs
<1> HIDE DEF m
<1>2. -m <= 0 /\ 0 < m /\ -m <= -1 /\ -1 < m
  BY <1>1
<1> QED BY <1>1, <1>2 DEF Fits

\* What an operator of the bits returns, apart from the errors.
LEMMA BitsAreGood ==
    ASSUME NEW op \in BitOps, NEW bits, NEW a, NEW b, NEW o,
           InType(o), IsNumber(o) /\ ~o.pending => ExactResult(op, a, b, o)
    PROVE  Good(op, bits, a, b, o)
BY DEF Good, BitOps, Arithmetic

\* A shift that leaves the number as it is: nothing to shift, or by nothing.
LEMMA NoShiftIsGood ==
    ASSUME NEW op \in {"lshift", "rshift"}, NEW bits, NEW a \in Int, NEW b \in Nat, 0 \in {a, b},
           NEW o, InType(o), IsNumber(o), o.val = a
    PROVE  ExactResult(op, a, b, o)
<1>1. ShiftedBy(b) \in Nat \ {0} /\ (b = 0 => ShiftedBy(b) = 1)
  <2>1. 0 <= LONG_LONG_BIT /\ 0 \in Nat /\ Pow(2, 0) = 1
    BY WidthsAre, Pow2
  <2>2. ShiftedBy(b) \in Nat \ {0} /\ (b <= LONG_LONG_BIT => ShiftedBy(b) = Pow(2, b))
    BY ShiftedByIs
  <2> QED BY <2>1, <2>2
<1> DEFINE s == ShiftedBy(b)
           d == Pow(2, IF o.type = "int2" THEN SHORT_BIT ELSE LONG_LONG_BIT)
<1>2. d \in Nat \ {0}
  BY WidthsAre, Pow2
<1> HIDE DEF s, d
<1>3. s \in Nat \ {0} /\ (b = 0 => s = 1)
  BY <1>1 DEF s
<1>4. a - a * s = 0 /\ a \div s = a
  BY <1>3
<1>5. (a - a * s) % d = 0
  BY <1>2, <1>4
<1> QED BY <1>4, <1>5 DEF ExactResult, Arithmetic, s, d

\* The shifts and the bit operations of a PgInt8.
LEMMA Int8BitsAreGood ==
    ASSUME NEW op \in BitOps, NEW v \in PyIntegers, NEW w \in PyIntegers, ConvertBinop(v, w)
    PROVE  Good(op, LONG_LONG_BIT, v.val, w.val, Int8Slot(op, v, w))
<1> DEFINE a == v.val
           b == w.val
           o == Int8Slot(op, v, w)
<1> SUFFICES Good(op, LONG_LONG_BIT, a, b, o)
  OBVIOUS
<1>1. /\ a \in MachineInt(LONG_LONG_BIT) /\ b \in MachineInt(LONG_LONG_BIT) /\ a \in Int /\ b \in Int
      /\ InType(v) /\ IsNumber(v)
  BY OperandIs DEF ConvertBinop, Converts, Fits
<1>2. LONG_LONG_BIT \in Nat \ {0} /\ LONG_LONG_BIT <= LONG_LONG_BIT
  BY WidthsAre
<1>3. CASE op \in {"and", "or", "xor"}
  <2> DEFINE n == CASE op = "and" -> BitAnd(LONG_LONG_BIT, a, b)
                    [] op = "or" -> BitOr(LONG_LONG_BIT, a, b)
                    [] op = "xor" -> BitXor(LONG_LONG_BIT, a, b)
  <2>1. o = Int8(n)
    BY <1>3 DEF Int8Slot, int8_and, int8_or, int8_xor
  <2>2. /\ Fits(LONG_LONG_BIT, n)
        /\ op = "and" => \A i \in Nat : Bit(n, i) = (Bit(a, i) /\ Bit(b, i))
        /\ op = "or" => \A i \in Nat : Bit(n, i) = (Bit(a, i) \/ Bit(b, i))
        /\ op = "xor" => \A i \in Nat : Bit(n, i) = (Bit(a, i) # Bit(b, i))
    BY <1>1, <1>2, <1>3, BitwiseIs DEF Fits
  <2> HIDE DEF n, a, b, o
  <2>3. InType(o) /\ o.val = n
    BY <2>1, <2>2, Int8OfFits
  <2>4. ExactResult(op, a, b, o)
    BY <1>3, <2>2, <2>3 DEF ExactResult, Arithmetic
  <2> QED BY <2>3, <2>4, BitsAreGood
<1>4. CASE op \in {"lshift", "rshift"} /\ b < 0
  <2>1. o = Raise("ValueError")
    BY <1>1, <1>4 DEF Int8Slot, int8_lshift, int8_rshift
  <2> HIDE DEF o
  <2>2. InType(o) /\ ~IsNumber(o)
    BY <2>1, RecordsAre
  <2> QED BY <2>2, BitsAreGood
<1>5. CASE op \in {"lshift", "rshift"} /\ b \in Nat /\ 0 \in {a, b}
  <2>1. o = v
    <3>1. op = "lshift" => Int8Slot(op, v, w) = int8_lshift(v, w)
      BY DEF Int8Slot
    <3>2. op = "rshift" => Int8Slot(op, v, w) = int8_rshift(v, w)
      BY DEF Int8Slot
    <3>3. w.val >= 0 /\ ~(w.val < 0) /\ 0 \in {v.val, w.val}
      BY <1>5
    <3>4. int8_lshift(v, w) = v
      BY <3>3 DEF int8_lshift
    <3>5. int8_rshift(v, w) = v
      BY <3>3 DEF int8_rshift
    <3> QED BY <1>5, <3>1, <3>2, <3>4, <3>5
  <2> HIDE DEF o
  <2>2. o.val = a /\ InType(o) /\ IsNumber(o)
    BY <1>1, <2>1
  <2> HIDE DEF a, b
  <2>3. ExactResult(op, a, b, o)
    BY <1>1, <1>5, <2>2, NoShiftIsGood
  <2> QED BY <2>2, <2>3, BitsAreGood
<1>6. CASE op \in {"lshift", "rshift"} /\ b \in Nat /\ 0 \notin {a, b}
  <2> DEFINE n == IF b >= LONG_LONG_BIT
                  THEN IF op = "rshift" /\ a < 0 THEN -1 ELSE 0
                  ELSE IF op = "rshift" THEN a \div Pow(2, b)
                  ELSE LL(Unsigned(LONG_LONG_BIT - b, a) * Pow(2, b))
  <2>1. o = Int8(n)
    <3>1. op = "lshift" => o = int8_lshift(v, w)
      BY DEF Int8Slot
    <3>2. op = "rshift" => o = int8_rshift(v, w)
      BY DEF Int8Slot
    <3>3. w.val >= 0 /\ ~(w.val < 0) /\ 0 \notin {v.val, w.val}
      BY <1>6
    <3>4. op = "lshift" => int8_lshift(v, w) = Int8(n)
      BY <1>6, <3>3 DEF int8_lshift
    <3>5. op = "rshift" => int8_rshift(v, w) = Int8(n)
      BY <1>6, <3>3 DEF int8_rshift
    <3> QED BY <1>6, <3>1, <3>2, <3>4, <3>5
  <2>2. /\ Fits(LONG_LONG_BIT, n)
        /\ op = "rshift" => n = a \div ShiftedBy(b)
        /\ op = "lshift" => (n - a * ShiftedBy(b)) % Pow(2, LONG_LONG_BIT) = 0
    <3> HIDE DEF a, b, o
    <3>1. CASE b >= LONG_LONG_BIT
      <4>1. /\ (0 - a * ShiftedBy(b)) % Pow(2, LONG_LONG_BIT) = 0
            /\ a \div ShiftedBy(b) = IF a < 0 THEN -1 ELSE 0
        BY <1>1, <1>2, <1>6, <3>1, FarShiftIs
      <4>2. n \in {0, -1} /\ Fits(LONG_LONG_BIT, 0) /\ Fits(LONG_LONG_BIT, -1)
        <5>1. Fits(LONG_LONG_BIT, 0) /\ Fits(LONG_LONG_BIT, -1)
          BY <1>2, SmallFit
        <5> QED BY <3>1, <5>1
      <4>3. n = IF op = "rshift" THEN IF a < 0 THEN -1 ELSE 0 ELSE 0
        BY <3>1
      <4> HIDE DEF n
      <4> QED BY <1>6, <4>1, <4>2, <4>3
    <3>2. CASE b < LONG_LONG_BIT
      <4> DEFINE u == Unsigned(LONG_LONG_BIT - b, a) * Pow(2, b)
                 r == a \div Pow(2, b)
      <4>1. /\ (Wrap(LONG_LONG_BIT, u) - a * ShiftedBy(b)) % Pow(2, LONG_LONG_BIT) = 0
            /\ r = a \div ShiftedBy(b) /\ r \in MachineInt(LONG_LONG_BIT)
        BY <1>1, <1>2, <1>6, <3>2, NearShiftIs
      <4>2. u \in Int
        <5>1. LONG_LONG_BIT - b \in Nat /\ b \in Nat
          BY <1>2, <1>6, <3>2
        <5>2. Unsigned(LONG_LONG_BIT - b, a) \in Nat /\ Pow(2, b) \in Nat
          BY <1>1, <5>1, UnsignedIs, Pow2
        <5> QED BY <5>2, Product
      <4>3. n = IF op = "rshift" THEN r ELSE Wrap(LONG_LONG_BIT, u)
        BY <1>2, <1>6, <3>2 DEF LL
      <4> HIDE DEF n, u, r
      <4>4. Wrap(LONG_LONG_BIT, u) \in MachineInt(LONG_LONG_BIT)
        BY <1>2, <4>2, WrapFits
      <4> QED BY <1>6, <4>1, <4>3, <4>4 DEF Fits
    <3> QED BY <1>1, <1>2, <3>1, <3>2
  <2> HIDE DEF n, a, b, o
  <2>3. InType(o) /\ o.val = n /\ o.type = "int8"
    BY <2>1, <2>2, Int8OfFits
  <2>4. ExactResult(op, a, b, o)
    BY <1>6, <2>2, <2>3 DEF ExactResult, Arithmetic
  <2> QED BY <2>3, <2>4, BitsAreGood
<1>7. b < 0 \/ b \in Nat
  BY <1>1
<1> QED BY <1>3, <1>4, <1>5, <1>6, <1>7 DEF BitOps

\* The shifts and the bit operations of a PgInt2, before an operand that is no
\* short leaves its error.
LeftShift(v, b) ==
    CASE b < 0 -> Raise("ValueError")
      [] b >= 0 /\ 0 \in {v.val, b} -> v
      [] OTHER -> IF b >= SHORT_BIT THEN Int2(0)
                  ELSE PgInt2_FromLong(Unsigned(SHORT_BIT, v.val * Pow(2, b)))
RightShift(v, b) ==
    CASE b < 0 -> Raise("ValueError")
      [] b >= 0 /\ 0 \in {v.val, b} -> v
      [] OTHER -> IF b >= SHORT_BIT THEN Int2(IF v.val < 0 THEN -1 ELSE 0)
                  ELSE PgInt2_FromLong(v.val \div Pow(2, b))
Bitwise2(op, a, b) ==
    CASE op = "and" -> BitAnd(LONG_BIT, a, b)
      [] op = "or" -> BitOr(LONG_BIT, a, b)
      [] op = "xor" -> BitXor(LONG_BIT, a, b)
Unnarrowed(op, v, b) ==
    CASE op = "lshift" -> LeftShift(v, b)
      [] op = "rshift" -> RightShift(v, b)
      [] op \in {"and", "or", "xor"} -> PgInt2_FromLong(Bitwise2(op, v.val, b))

IsValue(o) == o = [type |-> o.type, val |-> o.val, pending |-> o.pending]

LEMMA ShortOrError ==
    ASSUME NEW n, NEW o, o = PgInt2_FromLong(n) \/ o = Raise("ValueError")
    PROVE  /\ IsValue(o) /\ InType(o)
           /\ IsNumber(o) => o = PgInt2_FromLong(n) /\ o.type = "int2" /\ o.val = n
<1>1. CASE o = Int2(n) /\ Fits(SHORT_BIT, n)
  <2>1. o.type = "int2" /\ o.val = n /\ InType(o)
    BY <1>1, Int2OfFits
  <2>2. IsValue(o)
    BY <1>1 DEF IsValue, Int2, Value
  <2> QED BY <1>1, <2>1, <2>2 DEF PgInt2_FromLong
<1>2. CASE o = Raise("ValueError")
  <2>1. InType(o) /\ ~IsNumber(o)
    BY <1>2, RecordsAre
  <2>2. IsValue(o)
    BY <1>2 DEF IsValue, Raise
  <2> QED BY <2>1, <2>2
<1> QED BY <1>1, <1>2 DEF PgInt2_FromLong

LEMMA UnnarrowedIs ==
    ASSUME NEW op \in BitOps, NEW v \in PyIntegers, IntoLong(v), NEW b \in MachineInt(LONG_BIT)
    PROVE  LET o == Unnarrowed(op, v, b)
           IN  /\ IsValue(o) /\ InType(o)
               /\ Fits(SHORT_BIT, v.val) /\ Fits(SHORT_BIT, b) /\ IsNumber(o) => ExactResult(op, v.val, b, o)
<1> DEFINE a == v.val
           o == Unnarrowed(op, v, b)
<1>1. /\ a \in MachineInt(LONG_BIT) /\ a \in Int /\ b \in Int /\ InType(v) /\ IsNumber(v) /\ IsValue(v)
  <2>1. a \in MachineInt(LONG_BIT)
    BY OperandIs DEF IntoLong, Fits
  <2>2. IsValue(v)
    BY DEF PyIntegers, IsValue
  <2> QED BY <2>1, <2>2, OperandIs, WidthsAre, WidthIs
<1>2. SHORT_BIT \in Nat \ {0} /\ SHORT_BIT <= LONG_LONG_BIT /\ LONG_BIT \in Nat \ {0}
  BY WidthsAre
<1>3. CASE op \in {"and", "or", "xor"}
  <2> DEFINE n == Bitwise2(op, a, b)
  <2>1. o = PgInt2_FromLong(n)
    BY <1>3 DEF Unnarrowed
  <2>2. /\ op = "and" => \A i \in Nat : Bit(n, i) = (Bit(a, i) /\ Bit(b, i))
        /\ op = "or" => \A i \in Nat : Bit(n, i) = (Bit(a, i) \/ Bit(b, i))
        /\ op = "xor" => \A i \in Nat : Bit(n, i) = (Bit(a, i) # Bit(b, i))
    BY <1>1, <1>2, <1>3, BitwiseIs DEF Bitwise2
  <2> HIDE DEF n, a, o
  <2>3. IsValue(o) /\ InType(o) /\ (IsNumber(o) => o.val = n)
    BY <2>1, ShortOrError
  <2>4. IsNumber(o) => ExactResult(op, a, b, o)
    BY <1>3, <2>2, <2>3 DEF ExactResult, Arithmetic
  <2> QED BY <2>3, <2>4 DEF a, o
<1>4. CASE op \in {"lshift", "rshift"} /\ b < 0
  <2>1. o = Raise("ValueError")
    <3>1. b < 0 /\ ~(b >= 0)
      BY <1>1, <1>4
    <3>2. LeftShift(v, b) = Raise("ValueError")
      BY <3>1 DEF LeftShift
    <3>3. RightShift(v, b) = Raise("ValueError")
      BY <3>1 DEF RightShift
    <3> QED BY <1>4, <3>2, <3>3 DEF Unnarrowed
  <2>2. IsValue(o) /\ InType(o) /\ ~IsNumber(o)
    BY <2>1, RecordsAre DEF Raise, IsValue
  <2> QED BY <2>2
<1>5. CASE op \in {"lshift", "rshift"} /\ b \in Nat /\ 0 \in {a, b}
  <2>1. o = v
    <3>1. b >= 0 /\ ~(b < 0) /\ 0 \in {v.val, b}
      BY <1>5
    <3>2. LeftShift(v, b) = v
      BY <3>1 DEF LeftShift
    <3>3. RightShift(v, b) = v
      BY <3>1 DEF RightShift
    <3> QED BY <1>5, <3>2, <3>3 DEF Unnarrowed
  <2> HIDE DEF o
  <2>2. o.val = a /\ InType(o) /\ IsNumber(o) /\ IsValue(o)
    BY <1>1, <2>1
  <2> HIDE DEF a
  <2>3. ExactResult(op, a, b, o)
    BY <1>1, <1>5, <2>2, NoShiftIsGood
  <2> QED BY <2>2, <2>3 DEF a, o
<1>6. CASE op \in {"lshift", "rshift"} /\ b \in Nat /\ 0 \notin {a, b} /\ b >= SHORT_BIT
  <2> DEFINE n == IF op = "rshift" /\ a < 0 THEN -1 ELSE 0
  <2>1. o = Int2(n)
    <3>1. b >= 0 /\ ~(b < 0) /\ 0 \notin {v.val, b}
      BY <1>6
    <3>2. LeftShift(v, b) = Int2(0)
      BY <1>6, <3>1 DEF LeftShift
    <3>3. RightShift(v, b) = Int2(IF a < 0 THEN -1 ELSE 0)
      BY <1>6, <3>1 DEF RightShift
    <3> QED BY <1>6, <3>2, <3>3 DEF Unnarrowed
  <2>2. n \in {0, -1} /\ Fits(SHORT_BIT, n)
    <3>1. n \in {0, -1}
      OBVIOUS
    <3> QED BY <1>2, <3>1, SmallFit
  <2> HIDE DEF o, a
  <2>3. Fits(SHORT_BIT, a) => ExactResult(op, a, b, o)
    <3> SUFFICES ASSUME Fits(SHORT_BIT, a)
                 PROVE  ExactResult(op, a, b, o)
      OBVIOUS
    <3>1. /\ (0 - a * ShiftedBy(b)) % Pow(2, SHORT_BIT) = 0
          /\ a \div ShiftedBy(b) = IF a < 0 THEN -1 ELSE 0
      <4>1. a \in MachineInt(SHORT_BIT) /\ SHORT_BIT <= b /\ b \in Nat
        BY <1>2, <1>6 DEF Fits
      <4> QED BY <1>2, <4>1, FarShiftIs
    <3>2. o.val = n /\ o.type = "int2"
      BY <2>1, <2>2, Int2OfFits
    <3>3. op = "lshift" => n = 0
      OBVIOUS
    <3>4. op = "rshift" => n = IF a < 0 THEN -1 ELSE 0
      OBVIOUS
    <3> HIDE DEF n
    <3> QED BY <1>6, <3>1, <3>2, <3>3, <3>4 DEF ExactResult, Arithmetic
  <2>4. InType(o) /\ IsValue(o)
    <3> HIDE DEF n
    <3>1. InType(o)
      BY <2>1, <2>2, Int2OfFits
    <3> QED BY <2>1, <3>1 DEF IsValue, Int2, Value
  <2> QED BY <2>3, <2>4 DEF o, a
<1>7. CASE op \in {"lshift", "rshift"} /\ b \in Nat /\ 0 \notin {a, b} /\ b < SHORT_BIT
  <2> DEFINE n == IF op = "rshift" THEN a \div Pow(2, b) ELSE Unsigned(SHORT_BIT, a * Pow(2, b))
  <2>1. o = PgInt2_FromLong(n)
    <3>1. b >= 0 /\ ~(b < 0) /\ 0 \notin {v.val, b} /\ ~(b >= SHORT_BIT)
      BY <1>2, <1>7
    <3>2. LeftShift(v, b) = PgInt2_FromLong(Unsigned(SHORT_BIT, a * Pow(2, b)))
      BY <3>1 DEF LeftShift
    <3>3. RightShift(v, b) = PgInt2_FromLong(a \div Pow(2, b))
      BY <3>1 DEF RightShift
    <3> QED BY <1>7, <3>2, <3>3 DEF Unnarrowed
  <2> HIDE DEF o, a
  <2>2. Fits(SHORT_BIT, a) => /\ op = "lshift" => (n - a * ShiftedBy(b)) % Pow(2, SHORT_BIT) = 0
                              /\ op = "rshift" => n = a \div ShiftedBy(b)
    <3> SUFFICES ASSUME Fits(SHORT_BIT, a)
                 PROVE  /\ op = "lshift" => (n - a * ShiftedBy(b)) % Pow(2, SHORT_BIT) = 0
                        /\ op = "rshift" => n = a \div ShiftedBy(b)
      OBVIOUS
    <3>1. /\ (Unsigned(SHORT_BIT, a * Pow(2, b)) - a * ShiftedBy(b)) % Pow(2, SHORT_BIT) = 0
          /\ a \div Pow(2, b) = a \div ShiftedBy(b)
      <4>1. a \in MachineInt(SHORT_BIT) /\ b \in Nat /\ b < SHORT_BIT
        BY <1>7 DEF Fits
      <4> QED BY <1>2, <4>1, NearShiftIs
    <3> QED BY <3>1
  <2> HIDE DEF n
  <2>3. IsValue(o) /\ InType(o) /\ (IsNumber(o) => o.type = "int2" /\ o.val = n)
    BY <2>1, ShortOrError
  <2>4. Fits(SHORT_BIT, a) /\ IsNumber(o) => ExactResult(op, a, b, o)
    BY <1>7, <2>2, <2>3 DEF ExactResult, Arithmetic
  <2> QED BY <2>3, <2>4 DEF o, a
<1>8. (b < 0 \/ b \in Nat) /\ (b < SHORT_BIT \/ b >= SHORT_BIT)
  BY <1>1, <1>2
<1> QED BY <1>3, <1>4, <1>5, <1>6, <1>7, <1>8 DEF BitOps

LEMMA Int2BitsAreGood ==
    ASSUME NEW op \in BitOps, NEW v \in PyIntegers, NEW w \in PyIntegers, convert_binop(v, w),
           NEW o \in Int2Slot(op, v, w)
    PROVE  InType(o) /\ (w.type # "int8" => Good(op, LONG_LONG_BIT, v.val, w.val, o))
<1>1. Int2Slot(op, v, w) = {LeftPending(v.val, b, Unnarrowed(op, v, b)) : b \in SecondOperand(w)}
  <2>1. CASE op = "lshift"
    <3>1. \A b : Unnarrowed(op, v, b) = LeftShift(v, b)
      BY <2>1 DEF Unnarrowed
    <3> QED BY <2>1, <3>1 DEF Int2Slot, int2_lshift, LeftShift
  <2>2. CASE op = "rshift"
    <3>1. \A b : Unnarrowed(op, v, b) = RightShift(v, b)
      BY <2>2 DEF Unnarrowed
    <3> QED BY <2>2, <3>1 DEF Int2Slot, int2_rshift, RightShift
  <2>3. CASE op = "and"
    <3>1. \A b : Unnarrowed(op, v, b) = PgInt2_FromLong(BitAnd(LONG_BIT, v.val, b))
      BY <2>3 DEF Unnarrowed, Bitwise2
    <3> QED BY <2>3, <3>1 DEF Int2Slot, int2_and
  <2>4. CASE op = "or"
    <3>1. \A b : Unnarrowed(op, v, b) = PgInt2_FromLong(BitOr(LONG_BIT, v.val, b))
      BY <2>4 DEF Unnarrowed, Bitwise2
    <3> QED BY <2>4, <3>1 DEF Int2Slot, int2_or
  <2>5. CASE op = "xor"
    <3>1. \A b : Unnarrowed(op, v, b) = PgInt2_FromLong(BitXor(LONG_BIT, v.val, b))
      BY <2>5 DEF Unnarrowed, Bitwise2
    <3> QED BY <2>5, <3>1 DEF Int2Slot, int2_xor
  <2> QED BY <2>1, <2>2, <2>3, <2>4, <2>5 DEF BitOps
<1>2. PICK b \in SecondOperand(w) : o = LeftPending(v.val, b, Unnarrowed(op, v, b))
  BY <1>1
<1>3. IntoLong(v) /\ b \in MachineInt(LONG_BIT) /\ (w.type # "int8" => b = w.val)
  BY OperandIs DEF convert_binop, SecondOperand, IntoLong, Fits
<1> DEFINE r == Unnarrowed(op, v, b)
           p == ~(Fits(SHORT_BIT, v.val) /\ Fits(SHORT_BIT, b))
<1>4. /\ IsValue(r) /\ InType(r)
      /\ ~p /\ IsNumber(r) => ExactResult(op, v.val, b, r)
  BY <1>3, UnnarrowedIs
<1>5. \/ o = r /\ r.type = "ValueError"
      \/ o = [r EXCEPT !.pending = p]
  BY <1>2 DEF LeftPending
<1> HIDE DEF r, p
<1>6. CASE o = r /\ r.type = "ValueError"
  <2>1. InType(o) /\ ~IsNumber(o)
    BY <1>4, <1>6 DEF IsNumber
  <2> QED BY <2>1, BitsAreGood
<1>7. CASE o = [r EXCEPT !.pending = p]
  <2>1. o = [type |-> r.type, val |-> r.val, pending |-> p]
    BY <1>4, <1>7 DEF IsValue
  <2>2. o.type = r.type /\ o.val = r.val /\ o.pending = p
    BY <2>1
  <2>3. InType(o)
    BY <1>4, <2>2 DEF InType, IsNumber
  <2>4. IsNumber(o) /\ ~o.pending => ExactResult(op, v.val, b, o)
    BY <1>4, <2>2 DEF ExactResult, IsNumber
  <2>5. w.type # "int8" => Good(op, LONG_LONG_BIT, v.val, b, o)
    BY <2>3, <2>4, BitsAreGood
  <2> QED BY <1>3, <2>3, <2>5
<1> QED BY <1>5, <1>6, <1>7

\* Python asks the type of the left operand, then the one of the right.
LEMMA DispatchIs ==
    ASSUME NEW op, NEW v, NEW w, NEW o \in Binary(op, v, w)
    PROVE  \/ o \in Slot(v, op, v, w) /\ o # NotImplemented
           \/ /\ NotImplemented \in Slot(v, op, v, w) /\ v.type # w.type
              /\ o \in Slot(w, op, v, w) /\ o # NotImplemented
           \/ /\ o = Raise("TypeError") /\ NotImplemented \in Slot(v, op, v, w)
              /\ v.type = w.type \/ NotImplemented \in Slot(w, op, v, w)
<1> DEFINE first == Slot(v, op, v, w)
           other == Slot(w, op, v, w)
           second == IF v.type = w.type THEN {NotImplemented} ELSE other
           tried == (first \ {NotImplemented}) \cup (IF NotImplemented \in first THEN second ELSE {})
<1>1. PICK t \in tried : o = IF t = NotImplemented THEN Raise("TypeError") ELSE t
  BY DEF Binary
<1> HIDE DEF first, other
<1>2. CASE t = NotImplemented
  <2>1. NotImplemented \in first /\ NotImplemented \in second
    BY <1>2
  <2> QED BY <1>1, <1>2, <2>1 DEF first, other
<1>3. CASE t # NotImplemented
  <2>1. o = t /\ (o \in first \/ (NotImplemented \in first /\ o \in second))
    BY <1>1, <1>3
  <2> QED BY <1>3, <2>1 DEF first, other
<1> QED BY <1>2, <1>3

\* The left or the right operand is a PgInt2 or a PgInt8, the other any number.
BitsOfResult(v, w) == IF v.type = "int2" /\ w.type = "int2" THEN SHORT_BIT ELSE LONG_LONG_BIT

LEMMA GoodIsReal ==
    ASSUME NEW op, NEW bits, NEW a, NEW b, NEW o, Good(op, bits, a, b, o)
    PROVE  o # NotImplemented
BY RecordsAre DEF Good

LEMMA ArithmeticIsGood ==
    ASSUME NEW op \in Arithmetic, NEW v \in PyIntegers, NEW w \in PyIntegers,
           {v.type, w.type} \cap {"int2", "int8"} # {}, NEW o \in Binary(op, v, w)
    PROVE  Good(op, BitsOfResult(v, w), v.val, w.val, o)
<1> DEFINE G(x) == Good(op, BitsOfResult(v, w), v.val, w.val, x)
<1>1. /\ v.type \in {"int2", "int8", "int", "long"} /\ w.type \in {"int2", "int8", "int", "long"}
      /\ v.val \in Int /\ w.val \in Int
  BY OperandIs
<1>2. CASE v.type = "int2" \/ w.type = "int2"
  <2>1. \A x \in Int2Slot(op, v, w) : G(x)
    <3>1. CASE AreInt2(v, w)
      <4>1. v.val \in MachineInt(SHORT_BIT) /\ w.val \in MachineInt(SHORT_BIT)
            /\ BitsOfResult(v, w) = SHORT_BIT
        BY <3>1, OperandIs DEF AreInt2, BitsOfResult
      <4> QED BY <3>1, <4>1, Int2PairIsGood
    <3>2. CASE ~AreInt2(v, w)
      <4>1. BitsOfResult(v, w) = LONG_LONG_BIT
        BY <3>2 DEF AreInt2, BitsOfResult
      <4> QED BY <1>2, <3>2, <4>1, DelegatedIsGood
    <3> QED BY <3>1, <3>2
  <2>2. NotImplemented \notin Int2Slot(op, v, w)
    BY <2>1, GoodIsReal
  <2>3. CASE v.type = "int2"
    <3>1. Slot(v, op, v, w) = Int2Slot(op, v, w)
      BY <2>3 DEF Slot
    <3> HIDE DEF G
    <3>2. o \in Int2Slot(op, v, w)
      BY <2>2, <3>1, DispatchIs
    <3>3. G(o)
      BY <2>1, <3>2
    <3> QED BY <3>3 DEF G
  <2>4. CASE v.type # "int2"
    <3>1. w.type = "int2" /\ Slot(w, op, v, w) = Int2Slot(op, v, w)
      BY <1>2, <2>4 DEF Slot
    <3>2. Slot(v, op, v, w) = {NotImplemented}
      <4>1. CASE v.type = "int8"
        <5>1. ~AsInt8(v, w) /\ {v.type, w.type} # {"int8", "long"}
          BY <3>1, <4>1 DEF AsInt8
        <5>2. Int8Slot(op, v, w) = NotImplemented
          BY <5>1 DEF Int8Slot, int8_add, int8_sub, int8_mul, int8_div, int8_mod, int8_divmod, Mixed, Arithmetic
        <5> QED BY <4>1, <5>2 DEF Slot
      <4>2. CASE v.type # "int8"
        BY <2>4, <4>2 DEF Slot
      <4> QED BY <4>1, <4>2
    <3>3. o \in Int2Slot(op, v, w)
      BY <2>2, <2>4, <3>1, <3>2, DispatchIs
    <3> HIDE DEF G
    <3>4. G(o)
      BY <2>1, <3>3
    <3> QED BY <3>4 DEF G
  <2> QED BY <2>3, <2>4
<1>3. CASE v.type # "int2" /\ w.type # "int2"
  <2>1. BitsOfResult(v, w) = LONG_LONG_BIT
    BY <1>3 DEF BitsOfResult
  <2>2. G(Int8Slot(op, v, w))
    <3>1. CASE AsInt8(v, w)
      <4>1. v.type # "long" /\ w.type # "long"
        BY <3>1 DEF AsInt8
      <4>2. v.val \in MachineInt(LONG_LONG_BIT) /\ w.val \in MachineInt(LONG_LONG_BIT)
        BY <4>1, OperandIs
      <4> QED BY <2>1, <3>1, <4>2, Int8SlotIsGood
    <3>2. CASE ~AsInt8(v, w)
      <4>1. {v.type, w.type} = {"int8", "long"}
        BY <1>1, <1>3, <3>2 DEF AsInt8
      <4>2. Int8Slot(op, v, w) = PyNumber(op, v, w)
        BY <3>2, <4>1 DEF Int8Slot, int8_add, int8_sub, int8_mul, int8_div, int8_mod, int8_divmod, Mixed, Arithmetic
      <4> QED BY <1>1, <2>1, <4>2, PyNumberIsGood
    <3> QED BY <3>1, <3>2
  <2>3. Int8Slot(op, v, w) # NotImplemented
    BY <2>2, GoodIsReal
  <2>4. o = Int8Slot(op, v, w)
    <3>1. CASE v.type = "int8"
      <4>1. Slot(v, op, v, w) = {Int8Slot(op, v, w)}
        BY <3>1 DEF Slot
      <4> QED BY <2>3, <4>1, DispatchIs
    <3>2. CASE v.type # "int8"
      <4>1. Slot(v, op, v, w) = {NotImplemented} /\ w.type = "int8" /\ Slot(w, op, v, w) = {Int8Slot(op, v, w)}
        BY <1>1, <1>3, <3>2 DEF Slot
      <4> QED BY <2>3, <3>2, <4>1, DispatchIs
    <3> QED BY <3>1, <3>2
  <2> QED BY <2>2, <2>4
<1> QED BY <1>2, <1>3

LEMMA BitOpsAreGood ==
    ASSUME NEW op \in BitOps, NEW v \in PyIntegers, NEW w \in PyIntegers, NEW o \in Binary(op, v, w)
    PROVE  InType(o) /\ ((v.type = "int2" /\ w.type = "int8") \/ Good(op, BitsOfResult(v, w), v.val, w.val, o))
<1> DEFINE G == Good(op, BitsOfResult(v, w), v.val, w.val, o)
<1>1. \A bits : Good(op, bits, v.val, w.val, o) => G
  BY DEF Good, BitOps, Arithmetic
<1>2. v.type \in {"int2", "int8", "int", "long"} /\ w.type \in {"int2", "int8", "int", "long"}
  BY OperandIs
<1>3. InType(o) /\ ~IsNumber(o) => G
  BY BitsAreGood
<1> HIDE DEF G
<1>4. CASE o = Raise("TypeError")
  <2>1. InType(o) /\ ~IsNumber(o)
    BY <1>4, RecordsAre
  <2> QED BY <1>3, <2>1 DEF G
<1>5. CASE o \in Int2Slot(op, v, w) /\ o # NotImplemented
  <2>1. convert_binop(v, w)
    BY <1>5 DEF Int2Slot, int2_lshift, int2_rshift, int2_and, int2_or, int2_xor, BitOps
  <2>2. InType(o) /\ (w.type # "int8" => Good(op, LONG_LONG_BIT, v.val, w.val, o))
    BY <1>5, <2>1, Int2BitsAreGood
  <2>3. v.type # "int8"
    BY <2>1 DEF convert_binop, IntoLong
  <2>4. InType(o) /\ (w.type # "int8" => G)
    BY <1>1, <2>2
  <2>5. CASE w.type = "int8" /\ v.type # "int2"
    \* An int or a long with a PgInt8 is not given to the PgInt2.
    <3>1. o \in {Int8Slot(op, v, w), Raise("TypeError")}
      <4>1. Slot(v, op, v, w) = {NotImplemented} /\ Slot(w, op, v, w) = {Int8Slot(op, v, w)}
        BY <2>3, <2>5 DEF Slot
      <4> QED BY <4>1, DispatchIs
    <3>2. CASE o = Int8Slot(op, v, w)
      <4>1. ConvertBinop(v, w)
        BY <1>5, <3>2 DEF Int8Slot, int8_lshift, int8_rshift, int8_and, int8_or, int8_xor, BitOps
      <4>2. Good(op, LONG_LONG_BIT, v.val, w.val, o)
        BY <3>2, <4>1, Int8BitsAreGood
      <4> QED BY <1>1, <2>4, <4>2 DEF G
    <3> QED BY <1>4, <3>1, <3>2
  <2> QED BY <1>2, <2>4, <2>5 DEF G
<1>6. CASE o = Int8Slot(op, v, w) /\ o # NotImplemented
  <2>1. ConvertBinop(v, w)
    BY <1>6 DEF Int8Slot, int8_lshift, int8_rshift, int8_and, int8_or, int8_xor, BitOps
  <2>2. Good(op, LONG_LONG_BIT, v.val, w.val, o)
    BY <1>6, <2>1, Int8BitsAreGood
  <2>3. InType(o)
    BY <2>2 DEF Good
  <2> QED BY <1>1, <2>2, <2>3 DEF G
<1>7. \/ o = Raise("TypeError")
      \/ o \in Int2Slot(op, v, w) /\ o # NotImplemented
      \/ o = Int8Slot(op, v, w) /\ o # NotImplemented
  <2>1. \A x : Slot(x, op, v, w) \subseteq Int2Slot(op, v, w) \cup {Int8Slot(op, v, w), NotImplemented}
    BY DEF Slot
  <2> QED BY <2>1, DispatchIs
<1> QED BY <1>4, <1>5, <1>6, <1>7

-----------------------------------------------------------------------------
(* One operand: the signs, the conversions and the order. *)

UnaryResult(op, v) ==
    CASE op = "neg" -> IF v.type = "int2" THEN int2_neg(v) ELSE int8_neg(v)
      [] op = "abs" -> IF v.type = "int2" THEN int2_abs(v) ELSE int8_abs(v)
      [] op = "invert" -> IF v.type = "int2" THEN int2_invert(v) ELSE int8_invert(v)
ExactUnary(op, a) == CASE op = "neg" -> -a [] op = "abs" -> Magnitude(a) [] OTHER -> -a - 1
Width(type) == IF type = "int2" THEN SHORT_BIT ELSE LONG_LONG_BIT

\* Only the most negative number has no opposite; the complement always fits.
LEMMA NegatedFits ==
    ASSUME NEW w \in Nat \ {0}, NEW a \in MachineInt(w)
    PROVE  /\ a # Smallest(w) => Fits(w, -a)
           /\ Fits(w, -a - 1)
           /\ a < 0 \/ 0 <= a
<1> DEFINE m == Pow(2, w - 1)
<1>1. m \in Nat \ {0} /\ \A n : n \in MachineInt(w) <=> n \in Int /\ -m <= n /\ n < m
  BY WidthIs
<1>2. Smallest(w) = -m
  BY DEF Smallest
<1> HIDE DEF m
<1>3. a \in Int /\ -m <= a /\ a < m
  BY <1>1
<1>4. a # -m => -a \in Int /\ -m <= -a /\ -a < m
  BY <1>1, <1>3
<1>5. -a - 1 \in Int /\ -m <= -a - 1 /\ -a - 1 < m
  BY <1>1, <1>3
<1> QED BY <1>1, <1>2, <1>3, <1>4, <1>5 DEF Fits

LEMMA UnaryIs ==
    ASSUME NEW op \in {"neg", "abs", "invert"}, NEW v \in PyIntegers, v.type \in {"int2", "int8"}
    PROVE  LET o == UnaryResult(op, v)
           IN  /\ InType(o)
               /\ IsNumber(o) => o.val = ExactUnary(op, v.val)
               /\ ~IsNumber(o) => v.val = Smallest(Width(v.type))
<1> DEFINE a == v.val
           o == UnaryResult(op, v)
           w == Width(v.type)
           n == ExactUnary(op, a)
<1>1. /\ a \in MachineInt(w) /\ a \in Int /\ InType(v) /\ IsNumber(v) /\ w \in Nat \ {0}
  BY OperandIs, WidthsAre DEF Width
<1>2. /\ a # Smallest(w) => Fits(w, -a)
      /\ Fits(w, -a - 1)
      /\ a < 0 \/ 0 <= a
  BY <1>1, NegatedFits
<1>3. CASE op = "abs" /\ 0 <= a
  <2>1. n = a
    BY <1>1, <1>3 DEF ExactUnary, Magnitude
  <2>2. o = v
    BY <1>3 DEF UnaryResult, int2_abs, int8_abs
  <2> QED BY <1>1, <2>1, <2>2
<1>4. CASE ~(op = "abs" /\ 0 <= a)
  <2>1. op = "abs" => a < 0 /\ ~(a >= 0)
    BY <1>1, <1>2, <1>4
  <2>2. n = IF op = "invert" THEN -a - 1 ELSE -a
    BY <2>1 DEF ExactUnary, Magnitude
  <2>3. ~Fits(w, n) => a = Smallest(w)
    BY <1>2, <2>2
  <2>4. CASE v.type = "int2"
    <3>1. o = PgInt2_FromLong(n) /\ w = SHORT_BIT
      BY <2>1, <2>2, <2>4 DEF UnaryResult, int2_neg, int2_abs, int2_invert, Width
    <3> HIDE DEF o, n, a, w
    <3>2. Fits(SHORT_BIT, n) => InType(o) /\ IsNumber(o) /\ o.val = n
      BY <3>1, Int2OfFits DEF PgInt2_FromLong
    <3>3. ~Fits(SHORT_BIT, n) => InType(o) /\ ~IsNumber(o)
      BY <3>1, RecordsAre DEF PgInt2_FromLong
    <3>4. /\ InType(o) /\ (IsNumber(o) => o.val = n)
          /\ ~IsNumber(o) => a = Smallest(w)
      BY <2>3, <3>1, <3>2, <3>3
    <3> QED BY <3>4 DEF o, n, a, w
  <2>5. CASE v.type = "int8"
    <3>1. w = LONG_LONG_BIT
      BY <2>5 DEF Width
    <3>2. CASE op # "invert" /\ a = LLONG_MIN
      <4>1. o = Raise("OverflowError") /\ a = Smallest(w)
        BY <2>1, <2>5, <3>1, <3>2 DEF UnaryResult, int8_neg, int8_abs, LLONG_MIN
      <4>2. InType(o) /\ ~IsNumber(o)
        BY <4>1, RecordsAre
      <4> QED BY <4>1, <4>2
    <3>3. CASE op # "invert" /\ a # LLONG_MIN
      <4>1. o = Int8(n) /\ Fits(LONG_LONG_BIT, n)
        BY <1>2, <2>1, <2>2, <2>5, <3>1, <3>3 DEF UnaryResult, int8_neg, int8_abs, LLONG_MIN
      <4> QED BY <4>1, Int8OfFits
    <3>4. CASE op = "invert"
      <4>1. -a - 1 \in MachineInt(LONG_LONG_BIT) /\ -a - 1 \in Int
        BY <1>1, <1>2, <3>1 DEF Fits
      <4>2. LL(-a - 1) = -a - 1
        <5> DEFINE k == -a - 1
                   m == Pow(2, LONG_LONG_BIT - 1)
        <5> HIDE DEF k
        <5>1. k \in MachineInt(LONG_LONG_BIT) /\ k \in Int /\ LONG_LONG_BIT \in Nat \ {0}
          BY <1>1, <3>1, <4>1 DEF k
        <5>2. -m <= k /\ k < m
          BY <5>1, WidthIs
        <5>3. Wrap(LONG_LONG_BIT, k) = k
          BY <5>1, <5>2, WrapIs
        <5> QED BY <5>3 DEF LL, k
      <4>3. o = Int8(n) /\ Fits(LONG_LONG_BIT, n)
        BY <2>2, <2>5, <3>4, <4>1, <4>2 DEF UnaryResult, int8_invert, Fits
      <4> QED BY <4>3, Int8OfFits
    <3> QED BY <3>2, <3>3, <3>4
  <2> QED BY <2>4, <2>5
<1> QED BY <1>3, <1>4

ConvertResult(type, v) == IF type = "int2" THEN libPQint2_FromObject(v) ELSE libPQint8_FromObject(v)

LEMMA ConvertIs ==
    ASSUME NEW type \in {"int2", "int8"}, NEW v \in PyIntegers
    PROVE  LET o == ConvertResult(type, v)
           IN  InType(o) /\ (IsNumber(o) => o.val = v.val)
<1> DEFINE o == ConvertResult(type, v)
<1>1. /\ v.type \in {"int2", "int8", "int", "long"}
      /\ v.type # "long" => Fits(LONG_LONG_BIT, v.val)
  BY OperandIs DEF Fits
<1>2. \/ o = Raise("TypeError")
      \/ o = Raise("OverflowError")
      \/ o = Raise("ValueError")
      \/ o = Int2(v.val) /\ Fits(SHORT_BIT, v.val)
      \/ o = Int8(v.val) /\ Fits(LONG_LONG_BIT, v.val)
  <2>1. CASE type = "int2"
    BY <1>1, <2>1 DEF ConvertResult, libPQint2_FromObject, PgInt2_FromLong
  <2>2. CASE type = "int8"
    BY <1>1, <2>2 DEF ConvertResult, libPQint8_FromObject
  <2> QED BY <2>1, <2>2
<1> HIDE DEF o
<1>3. \A e \in {"TypeError", "OverflowError", "ValueError"} : o = Raise(e) => InType(o) /\ ~IsNumber(o)
  BY RecordsAre
<1>4. InType(o) /\ (IsNumber(o) => o.val = v.val)
  BY <1>2, <1>3, Int2OfFits, Int8OfFits
<1> QED BY <1>4 DEF o

CompareResult(v, w) ==
    IF v.type = "int2" THEN [cmp |-> int2_compare(v.val, w.val), hash |-> int2_hash(v.val)]
    ELSE [cmp |-> int8_compare(v.val, w.val), hash |-> int8_hash(v.val)]

LEMMA CompareIs ==
    ASSUME NEW v \in PyIntegers, NEW w \in PyIntegers
    PROVE  LET o == CompareResult(v, w)
           IN  /\ (o.cmp < 0) = (v.val < w.val) /\ (o.cmp > 0) = (v.val > w.val)
               /\ o.hash # -1
<1> DEFINE c == IF v.val < w.val THEN -1 ELSE IF v.val > w.val THEN 1 ELSE 0
<1>1. v.val \in Int /\ w.val \in Int
  BY OperandIs
<1>2. CompareResult(v, w).cmp = c
  BY DEF CompareResult, int2_compare, int8_compare
<1>3. (c < 0) = (v.val < w.val) /\ (c > 0) = (v.val > w.val)
  BY <1>1
<1>4. CompareResult(v, w).hash # -1
  BY DEF CompareResult, int2_hash, int8_hash
<1> HIDE DEF c
<1> QED BY <1>2, <1>3, <1>4

-----------------------------------------------------------------------------
(* The calls of the numbers, and their outcomes.  A call is described by the *)
(* operands it was made with, and its outcome by the operator it stands for: *)
(* that is the invariant the properties follow from.                         *)

BinaryCall(op, v, w) == [fn |-> "binary", op |-> op, v |-> v, w |-> w]
UnaryCall(op, v) == [fn |-> "unary", op |-> op, v |-> v]
ConvertCall(type, v) == [fn |-> "convert", type |-> type, v |-> v]
CompareCall(v, w) == [fn |-> "compare", v |-> v, w |-> w]

BinaryInv == call.fn = "binary" => \E op \in Arithmetic \cup BitOps, v \in Operands, w \in Operands :
    /\ {v.type, w.type} \cap {"int2", "int8"} # {}
    /\ call = BinaryCall(op, v, w)
    /\ outcome = Binary(op, v, w)
UnaryInv == call.fn = "unary" => \E op \in {"neg", "abs", "invert"}, v \in Operands :
    /\ v.type \in {"int2", "int8"}
    /\ call = UnaryCall(op, v)
    /\ outcome = {UnaryResult(op, v)}
ConvertInv == call.fn = "convert" => \E type \in {"int2", "int8"}, v \in Operands :
    /\ call = ConvertCall(type, v)
    /\ outcome = {ConvertResult(type, v)}
CompareInv == call.fn = "compare" => \E v \in Operands, w \in Operands :
    /\ call = CompareCall(v, w)
    /\ outcome = {CompareResult(v, w)}
OperatorInv == BinaryInv /\ UnaryInv /\ ConvertInv /\ CompareInv

THEOREM OutcomesOfOperators == Spec => []OperatorInv
<1>1. Init => OperatorInv
  BY DEF Init, Idle, OperatorInv, BinaryInv, UnaryInv, ConvertInv, CompareInv
<1>2. ASSUME Next
      PROVE  BinaryInv'
  <2> SUFFICES ASSUME call'.fn = "binary"
               PROVE  BinaryInv'
    BY DEF BinaryInv
  <2>1. BinaryOp
    BY <1>2, FnOf
  <2>2. PICK op \in Arithmetic \cup BitOps, v \in Operands, w \in Operands :
            /\ {v.type, w.type} \cap {"int2", "int8"} # {}
            /\ Returns([fn |-> "binary", op |-> op, v |-> v, w |-> w], Binary(op, v, w))
    BY ONLY <2>1, Zenon DEF BinaryOp
  <2> QED BY <2>2 DEF BinaryInv, BinaryCall, Returns
<1>3. ASSUME Next
      PROVE  UnaryInv'
  <2> SUFFICES ASSUME call'.fn = "unary"
               PROVE  UnaryInv'
    BY DEF UnaryInv
  <2>1. UnaryOp
    BY <1>3, FnOf
  <2>2. PICK op \in {"neg", "abs", "invert"}, v \in Operands :
            /\ v.type \in {"int2", "int8"}
            /\ Returns([fn |-> "unary", op |-> op, v |-> v], {UnaryResult(op, v)})
    BY ONLY <2>1, Zenon DEF UnaryOp, UnaryResult
  <2> QED BY <2>2 DEF UnaryInv, UnaryCall, Returns
<1>4. ASSUME Next
      PROVE  ConvertInv'
  <2> SUFFICES ASSUME call'.fn = "convert"
               PROVE  ConvertInv'
    BY DEF ConvertInv
  <2>1. Convert
    BY <1>4, FnOf
  <2>2. PICK type \in {"int2", "int8"}, v \in Operands :
            Returns([fn |-> "convert", type |-> type, v |-> v], {ConvertResult(type, v)})
    BY ONLY <2>1, Zenon DEF Convert, ConvertResult
  <2> QED BY <2>2 DEF ConvertInv, ConvertCall, Returns
<1>5. ASSUME Next
      PROVE  CompareInv'
  <2> SUFFICES ASSUME call'.fn = "compare"
               PROVE  CompareInv'
    BY DEF CompareInv
  <2>1. Compare
    BY <1>5, FnOf
  <2>2. PICK v \in Operands, w \in Operands :
            Returns([fn |-> "compare", v |-> v, w |-> w], {CompareResult(v, w)})
    BY ONLY <2>1, Zenon DEF Compare, CompareResult
  <2> QED BY <2>2 DEF CompareInv, CompareCall, Returns
<1>6. OperatorInv /\ [Next]_vars => OperatorInv'
  <2>1. CASE Next
    BY <1>2, <1>3, <1>4, <1>5, <2>1 DEF OperatorInv
  <2>2. CASE UNCHANGED vars
    BY <2>2 DEF vars, OperatorInv, BinaryInv, UnaryInv, ConvertInv, CompareInv
  <2> QED BY <2>1, <2>2
<1> QED BY <1>1, <1>6, PTL DEF Spec

\* What the invariant says of the results.
LEMMA BinaryOutcomes ==
    ASSUME BinaryInv, call.fn = "binary", NEW o \in outcome
    PROVE  /\ InType(o) /\ call.op \in Arithmetic \cup BitOps
           /\ BothRead => Good(call.op, ResultBits, Left, Right, o)
<1>1. PICK op \in Arithmetic \cup BitOps, v \in Operands, w \in Operands :
          /\ {v.type, w.type} \cap {"int2", "int8"} # {}
          /\ call = BinaryCall(op, v, w)
          /\ outcome = Binary(op, v, w)
  BY DEF BinaryInv
<1>2. v \in PyIntegers /\ w \in PyIntegers /\ o \in Binary(op, v, w)
  BY <1>1, ValuesAssumption
<1>3. call.op = op /\ call.v = v /\ call.w = w
  BY <1>1 DEF BinaryCall
<1>4. Left = v.val /\ Right = w.val /\ ResultBits = BitsOfResult(v, w)
  BY <1>3 DEF Left, Right, ResultBits, BitsOfResult
<1>5. CASE op \in Arithmetic
  <2>1. Good(op, BitsOfResult(v, w), v.val, w.val, o)
    BY <1>1, <1>2, <1>5, ArithmeticIsGood
  <2>2. InType(o)
    BY <2>1 DEF Good
  <2> QED BY <1>3, <1>4, <2>1, <2>2
<1>6. CASE op \in BitOps
  <2>1. InType(o) /\ ((v.type = "int2" /\ w.type = "int8") \/ Good(op, BitsOfResult(v, w), v.val, w.val, o))
    BY <1>2, <1>6, BitOpsAreGood
  <2>2. BothRead => ~(v.type = "int2" /\ w.type = "int8")
    BY <1>3, <1>6 DEF BothRead
  <2> QED BY <1>3, <1>4, <2>1, <2>2
<1> QED BY <1>5, <1>6

\* The numbers that the operators return are the exact ones, for operands of
\* every type and machine integers of every width.
THEOREM ResultsAreExact == Spec => []ArithmeticExact
<1>1. ASSUME OperatorInv
      PROVE  ArithmeticExact
  <2>1. ASSUME NEW o \in outcome, call.fn = "binary", BothRead, IsNumber(o), ~o.pending
        PROVE  BinaryExact(o)
    <3>1. ExactResult(call.op, Left, Right, o) /\ call.op \in Arithmetic \cup BitOps
      BY <1>1, <2>1, BinaryOutcomes DEF Good, OperatorInv
    <3>2. \A i \in 0 .. LONG_LONG_BIT : i \in Nat
      BY WidthsAre
    <3> DEFINE op == call.op
    <3> HIDE DEF op
    <3>3. op \in Arithmetic \cup BitOps /\ ExactResult(op, Left, Right, o)
      BY <3>1 DEF op
    <3>4. CASE op \in {"add", "sub", "mul", "div", "mod"}
      <4>1. \/ o.val = Exact(op, Left, Right)
            \/ /\ o.type = "int8"
               /\ \/ op \in {"add", "sub"} /\ (o.val - Exact(op, Left, Right)) % Pow(2, LONG_LONG_BIT) = 0
                  \/ op \in {"div", "mod"} /\ Left = LLONG_MIN
        BY <3>3, <3>4 DEF ExactResult, Arithmetic
      <4> QED BY <3>4, <4>1 DEF BinaryExact, Unsafe, op
    <3>5. CASE op \in {"lshift", "rshift"}
      BY <3>3, <3>5 DEF BinaryExact, ExactResult, op
    <3>6. CASE op \in {"and", "or", "xor"}
      BY <3>2, <3>3, <3>6 DEF BinaryExact, ExactResult, op
    <3>7. CASE op = "divmod"
      BY <3>7 DEF BinaryExact, op
    <3> QED BY <3>3, <3>4, <3>5, <3>6, <3>7 DEF Arithmetic, BitOps
  <2>2. ASSUME NEW o \in outcome, call.fn = "unary", IsNumber(o)
        PROVE  UnaryExact(o)
    <3>1. PICK op \in {"neg", "abs", "invert"}, v \in Operands :
              /\ v.type \in {"int2", "int8"} /\ call = UnaryCall(op, v) /\ outcome = {UnaryResult(op, v)}
      BY <1>1, <2>2 DEF OperatorInv, UnaryInv
    <3>2. call.op = op /\ call.v = v /\ v \in PyIntegers /\ o = UnaryResult(op, v)
      BY <2>2, <3>1, ValuesAssumption DEF UnaryCall
    <3>3. o.val = ExactUnary(op, v.val)
      BY <2>2, <3>1, <3>2, UnaryIs
    <3> QED BY <3>2, <3>3 DEF UnaryExact, ExactUnary, Left
  <2>3. ASSUME NEW o \in outcome, call.fn = "convert", IsNumber(o)
        PROVE  o.val = Left
    <3>1. PICK type \in {"int2", "int8"}, v \in Operands :
              call = ConvertCall(type, v) /\ outcome = {ConvertResult(type, v)}
      BY <1>1, <2>3 DEF OperatorInv, ConvertInv
    <3>2. call.v = v /\ v \in PyIntegers /\ o = ConvertResult(type, v)
      BY <2>3, <3>1, ValuesAssumption DEF ConvertCall
    <3> QED BY <2>3, <3>2, ConvertIs DEF Left
  <2>4. ASSUME NEW o \in outcome, call.fn = "compare"
        PROVE  /\ (o.cmp < 0) = (Left < Right) /\ (o.cmp > 0) = (Left > Right)
               /\ o.hash # -1
    <3>1. PICK v \in Operands, w \in Operands :
              call = CompareCall(v, w) /\ outcome = {CompareResult(v, w)}
      BY <1>1, <2>4 DEF OperatorInv, CompareInv
    <3>2. call.v = v /\ call.w = w /\ v \in PyIntegers /\ w \in PyIntegers /\ o = CompareResult(v, w)
      BY <2>4, <3>1, ValuesAssumption DEF CompareCall
    <3> QED BY <3>2, CompareIs DEF Left, Right
  <2> QED BY <2>1, <2>2, <2>3, <2>4 DEF ArithmeticExact
<1> QED BY <1>1, OutcomesOfOperators, PTL

\* An error of an operator has a reason, for every operand.
THEOREM ErrorsAreNeeded == Spec => []RaisesOnlyWhenNeeded
<1>1. ASSUME OperatorInv
      PROVE  RaisesOnlyWhenNeeded
  <2>1. ASSUME NEW o \in outcome, call.fn = "binary", call.op \in {"add", "sub", "mul", "div", "mod"},
               ~IsNumber(o)
        PROVE  \/ Right = 0 /\ call.op \in {"div", "mod"} /\ o.type = "ZeroDivisionError"
               \/ /\ o.type \in {"OverflowError", "ValueError"}
                  /\ \/ ~Fits(ResultBits, Exact(call.op, Left, Right))
                     \/ call.op = "mul" /\ Left * Right = LLONG_MIN
                     \/ call.op = "mod" /\ Left = LLONG_MIN /\ Right = -1
    <3>1. BothRead /\ call.op \in Arithmetic \ {"divmod"}
      BY <2>1 DEF BothRead, BitOps, Arithmetic
    <3>2. Good(call.op, ResultBits, Left, Right, o)
      BY <1>1, <2>1, <3>1, BinaryOutcomes DEF OperatorInv
    <3> QED BY <2>1, <3>1, <3>2 DEF Good, RaisedResult
  <2>2. ASSUME NEW o \in outcome, call.fn = "unary", ~IsNumber(o)
        PROVE  Left = Smallest(IF call.v.type = "int2" THEN SHORT_BIT ELSE LONG_LONG_BIT)
    <3>1. PICK op \in {"neg", "abs", "invert"}, v \in Operands :
              /\ v.type \in {"int2", "int8"} /\ call = UnaryCall(op, v) /\ outcome = {UnaryResult(op, v)}
      BY <1>1, <2>2 DEF OperatorInv, UnaryInv
    <3>2. call.v = v /\ v \in PyIntegers /\ o = UnaryResult(op, v)
      BY <2>2, <3>1, ValuesAssumption DEF UnaryCall
    <3>3. v.val = Smallest(Width(v.type))
      BY <2>2, <3>1, <3>2, UnaryIs
    <3> QED BY <3>2, <3>3 DEF Left, Width
  <2> QED BY <2>1, <2>2 DEF RaisesOnlyWhenNeeded
<1> QED BY <1>1, OutcomesOfOperators, PTL
=============================================================================
