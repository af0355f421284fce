------------------------------ MODULE ValuesProofs ------------------------------
(***************************************************************************)
(* Theorems about the texts that become values, about pow, about the texts *)
(* that become SQL and are read back, and about versions: for every text,  *)
(* and for every base, exponent and modulus.  What a loop over a text, or  *)
(* over the bits of an exponent, computes is a recursive function; the     *)
(* lemmas say that it is the one function of its recursion, and then climb *)
(* it step by step.                                                        *)
(***************************************************************************)
EXTENDS ArithmeticProofs, SequenceTheorems

-----------------------------------------------------------------------------
(* Texts. *)

LEMMA SubSeqIs ==
    ASSUME NEW S, NEW s \in Seq(S), NEW m \in Nat \ {0}, NEW n \in Nat, m <= n + 1, n <= Len(s)
    PROVE  /\ SubSeq(s, m, n) \in Seq(S) /\ Len(SubSeq(s, m, n)) = n - m + 1
           /\ \A i \in 1 .. n - m + 1 : SubSeq(s, m, n)[i] = s[m + i - 1]
<1>1. \A i \in m .. n : s[i] \in S
  OBVIOUS
<1>2. m \in Int /\ n \in Int
  OBVIOUS
<1>3. /\ SubSeq(s, m, n) \in Seq(S)
      /\ Len(SubSeq(s, m, n)) = IF m <= n THEN n - m + 1 ELSE 0
      /\ \A i \in 1 .. n - m + 1 : SubSeq(s, m, n)[i] = s[m + i - 1]
  BY <1>1, <1>2, SubSeqProperties
<1>4. (IF m <= n THEN n - m + 1 ELSE 0) = n - m + 1
  OBVIOUS
<1> QED BY <1>3, <1>4

LEMMA RestIs ==
    ASSUME NEW S, NEW s \in Seq(S), NEW n \in 0 .. Len(s)
    PROVE  /\ Rest(s, n) \in Seq(S) /\ Len(Rest(s, n)) = Len(s) - n
           /\ \A i \in 1 .. Len(s) - n : Rest(s, n)[i] = s[n + i]
<1>1. Len(s) \in Nat /\ n + 1 \in Nat \ {0} /\ n + 1 <= Len(s) + 1 /\ Len(s) <= Len(s)
  OBVIOUS
<1>2. /\ SubSeq(s, n + 1, Len(s)) \in Seq(S)
      /\ Len(SubSeq(s, n + 1, Len(s))) = Len(s) - (n + 1) + 1
      /\ \A i \in 1 .. Len(s) - (n + 1) + 1 : SubSeq(s, n + 1, Len(s))[i] = s[(n + 1) + i - 1]
  BY <1>1, SubSeqIs
<1>3. Len(s) - (n + 1) + 1 = Len(s) - n /\ \A i \in 1 .. Len(s) - n : (n + 1) + i - 1 = n + i
  BY <1>1
<1> DEFINE r == SubSeq(s, n + 1, Len(s))
<1>4. r \in Seq(S) /\ Len(r) = Len(s) - n /\ \A i \in 1 .. Len(s) - n : r[i] = s[n + i]
  BY <1>2, <1>3
<1> QED BY <1>4 DEF Rest

\* The prefix that Span measures is the longest one.
LEMMA SpanIs ==
    ASSUME NEW S, NEW s \in Seq(S), NEW set
    PROVE  /\ Span(s, set) \in 0 .. Len(s)
           /\ \A i \in 1 .. Span(s, set) : s[i] \in set
           /\ Span(s, set) < Len(s) => s[Span(s, set) + 1] \notin set
<1> DEFINE stops == {i \in DOMAIN s : s[i] \notin set}
<1>1. DOMAIN s = 1 .. Len(s) /\ Len(s) \in Nat
  OBVIOUS
<1>2. CASE stops = {}
  <2>1. Span(s, set) = Len(s)
    BY <1>2 DEF Span
  <2>2. \A i \in 1 .. Len(s) : s[i] \in set
    BY <1>1, <1>2
  <2> QED BY <1>1, <2>1, <2>2
<1>3. CASE stops # {}
  <2> DEFINE f == CHOOSE i \in stops : \A j \in stops : i <= j
  <2>1. \E i \in stops : \A j \in stops : i <= j
    <3>1. stops \in SUBSET Nat
      BY <1>1
    <3> HIDE DEF stops
    <3> QED BY <1>3, <3>1, LeastOf
  <2>2. f \in stops /\ \A j \in stops : f <= j
    BY <2>1
  <2>3. Span(s, set) = f - 1
    BY <1>3 DEF Span
  <2> HIDE DEF f
  <2>4. f \in 1 .. Len(s) /\ s[f] \notin set /\ \A i \in 1 .. Len(s) : s[i] \notin set => f <= i
    BY <1>1, <2>2
  <2> QED BY <1>1, <2>3, <2>4
<1> QED BY <1>2, <1>3

LEMMA SpanOf ==
    ASSUME NEW S, NEW s \in Seq(S), NEW set, NEW n \in 0 .. Len(s),
           \A i \in 1 .. n : s[i] \in set, n < Len(s) => s[n + 1] \notin set
    PROVE  Span(s, set) = n
<1> DEFINE k == Span(s, set)
<1>1. k \in 0 .. Len(s) /\ (\A i \in 1 .. k : s[i] \in set) /\ (k < Len(s) => s[k + 1] \notin set)
  BY SpanIs
<1>2. Len(s) \in Nat
  OBVIOUS
<1> HIDE DEF k
<1>3. ~(k < n)
  <2> SUFFICES ASSUME k < n
               PROVE  FALSE
    OBVIOUS
  <2>1. k < Len(s) /\ k + 1 \in 1 .. n
    BY <1>1, <1>2
  <2> QED BY <1>1, <2>1
<1>4. ~(n < k)
  <2> SUFFICES ASSUME n < k
               PROVE  FALSE
    OBVIOUS
  <2>1. n < Len(s) /\ n + 1 \in 1 .. k
    BY <1>1, <1>2
  <2> QED BY <1>1, <2>1
<1>5. k = n
  BY <1>1, <1>2, <1>3, <1>4
<1> QED BY <1>5 DEF k

\* Where the body of a text is: between its first and its last character that
\* is no blank.
Inks(text, p, q) ==
    /\ p \in 1 .. Len(text) /\ q \in p .. Len(text) /\ text[p] # Blank /\ text[q] # Blank
    /\ \A i \in 1 .. Len(text) : i < p \/ q < i => text[i] = Blank

LEMMA BodyOf ==
    ASSUME NEW text \in Seq(STRING), NEW p, NEW q, Inks(text, p, q)
    PROVE  Body(text) = SubSeq(text, p, q)
<1> DEFINE inked == {i \in DOMAIN text : text[i] # Blank}
<1>1. DOMAIN text = 1 .. Len(text) /\ Len(text) \in Nat
  OBVIOUS
<1>2. p \in inked /\ q \in inked /\ p \in Nat /\ q \in Nat /\ \A i \in inked : p <= i /\ i <= q /\ i \in Nat
  BY <1>1 DEF Inks
<1> HIDE DEF inked
<1>3. (CHOOSE i \in inked : \A j \in inked : i <= j) = p
  <2> DEFINE c == CHOOSE i \in inked : \A j \in inked : i <= j
  <2>1. c \in inked /\ \A j \in inked : c <= j
    BY <1>2
  <2> HIDE DEF c
  <2>2. c <= p /\ p <= c /\ c \in Nat
    BY <1>2, <2>1
  <2>3. c = p
    BY <1>2, <2>2
  <2> QED BY <2>3 DEF c
<1>4. (CHOOSE i \in inked : \A j \in inked : j <= i) = q
  <2> DEFINE c == CHOOSE i \in inked : \A j \in inked : j <= i
  <2>1. c \in inked /\ \A j \in inked : j <= c
    BY <1>2
  <2> HIDE DEF c
  <2>2. c <= q /\ q <= c /\ c \in Nat
    BY <1>2, <2>1
  <2>3. c = q
    BY <1>2, <2>2
  <2> QED BY <2>3 DEF c
<1>5. inked # {}
  BY <1>2
<1> QED BY <1>3, <1>4, <1>5 DEF Body, inked

LEMMA BodyIs ==
    ASSUME NEW text \in Seq(STRING)
    PROVE  Body(text) = <<>> \/ \E p, q : Inks(text, p, q)
<1> DEFINE inked == {i \in DOMAIN text : text[i] # Blank}
           left == {n \in Nat : n <= Len(text) /\ Len(text) - n \in inked}
<1>1. DOMAIN text = 1 .. Len(text) /\ Len(text) \in Nat
  OBVIOUS
<1>2. CASE inked = {}
  BY <1>2 DEF Body
<1>3. CASE inked # {}
  <2>1. inked \in SUBSET Nat /\ left \in SUBSET Nat
    BY <1>1
  <2>2. left # {}
    <3>1. PICK i \in inked : TRUE
      BY <1>3
    <3>2. Len(text) - i \in Nat /\ Len(text) - i <= Len(text) /\ Len(text) - (Len(text) - i) = i
      BY <1>1
    <3>3. Len(text) - i \in left
      BY <3>1, <3>2
    <3> QED BY <3>3
  <2>3. \E x \in inked : \A y \in inked : x <= y
    <3> HIDE DEF inked, left
    <3> QED BY <1>3, <2>1, LeastOf
  <2>4. \E x \in left : \A y \in left : x <= y
    <3> HIDE DEF inked, left
    <3> QED BY <2>1, <2>2, LeastOf
  <2>5. PICK p \in inked : \A y \in inked : p <= y
    BY <2>3
  <2>6. PICK r \in left : \A y \in left : r <= y
    BY <2>4
  <2> DEFINE q == Len(text) - r
  <2>7. q \in inked
    BY <2>6
  <2>8. \A i \in inked : i <= q
    <3> SUFFICES ASSUME NEW i \in inked
                 PROVE  i <= q
      OBVIOUS
    <3>1. Len(text) - i \in Nat /\ Len(text) - i <= Len(text) /\ Len(text) - (Len(text) - i) = i
      BY <1>1
    <3>2. Len(text) - i \in left
      BY <3>1
    <3>3. r <= Len(text) - i /\ r \in Nat /\ i \in Nat
      BY <1>1, <2>6, <3>2
    <3> QED BY <1>1, <3>3
  <2> HIDE DEF q
  <2>9. Inks(text, p, q)
    <3>1. p \in 1 .. Len(text) /\ q \in 1 .. Len(text) /\ text[p] # Blank /\ text[q] # Blank /\ p <= q
      BY <1>1, <2>5, <2>7, <2>8
    <3>2. \A i \in 1 .. Len(text) : text[i] # Blank => p <= i /\ i <= q
      BY <1>1, <2>5, <2>8
    <3>3. \A i \in 1 .. Len(text) : i < p \/ q < i => text[i] = Blank
      BY <1>1, <3>1, <3>2
    <3>4. q \in p .. Len(text)
      BY <1>1, <3>1
    <3> QED BY <3>1, <3>3, <3>4 DEF Inks
  <2> QED BY <2>9
<1> QED BY <1>2, <1>3

-----------------------------------------------------------------------------
(* The texts of integers. *)

LEMMA DigitValueIs ==
    /\ \A c \in Digits : DigitValue(c) \in 0 .. 9
    /\ Blank \notin Digits \cup {"+", "-"} /\ "+" \notin Digits /\ "-" \notin Digits
<1>1. ASSUME NEW c \in Digits
      PROVE  DigitValue(c) \in 0 .. 9
  <2>1. \E i \in 1 .. 10 : DigitSeq[i] = c
    BY DEF Digits
  <2>2. (CHOOSE i \in 1 .. 10 : DigitSeq[i] = c) \in 1 .. 10
    BY <2>1
  <2> QED BY <2>2 DEF DigitValue
<1>2. Digits \subseteq {"0", "1", "2", "3", "4", "5", "6", "7", "8", "9"}
  BY DEF Digits, DigitSeq
<1>3. Blank \notin {"0", "1", "2", "3", "4", "5", "6", "7", "8", "9", "+", "-"}
  BY Zenon DEF Blank
<1> QED BY <1>1, <1>2, <1>3

\* The number that the first k digits of a text denote.
IsDecimal(s, value) ==
    /\ value[0] = 0
    /\ \A k \in 1 .. Len(s) : value[k] = value[k - 1] * 10 + DigitValue(s[k])
    /\ \A k \in 0 .. Len(s) : value[k] \in Nat

LEMMA ReadDigitsIs ==
    ASSUME NEW s \in Seq(Digits)
    PROVE  \E value : IsDecimal(s, value) /\ ReadDigits(s, 10) = value[Len(s)]
<1> DEFINE n == Len(s)
           d(k) == DigitValue(s[k])
           value == CHOOSE f : f = [k \in 0 .. n |-> IF k = 0 THEN 0 ELSE f[k - 1] * 10 + d(k)]
           g == [p \in Nat \X (1 .. n) |-> p[1] * 10 + d(p[2])]
<1>1. n \in Nat /\ \A k \in 1 .. n : d(k) \in Nat
  BY DigitValueIs
<1>2. ReadDigits(s, 10) = value[n]
  BY DEF ReadDigits
<1>3. g \in [Nat \X (1 .. n) -> Nat] /\ 0 \in Nat
  <2> HIDE DEF d, n
  <2> QED BY <1>1
<1>4. PICK f \in [0 .. n -> Nat] : IsRecursion(f, n, 0, g)
  <2> HIDE DEF g, n
  <2> QED BY <1>1, <1>3, RecursiveExists
<1>5. ASSUME NEW k \in 1 .. n
      PROVE  g[<<f[k - 1], k>>] = f[k - 1] * 10 + d(k)
  <2> HIDE DEF d, n
  <2>1. k - 1 \in 0 .. n
    BY <1>1
  <2>2. <<f[k - 1], k>> \in Nat \X (1 .. n)
    BY <1>4, <2>1
  <2> QED BY <2>2
<1> HIDE DEF g, n, d
<1>6. f = [k \in 0 .. n |-> IF k = 0 THEN 0 ELSE f[k - 1] * 10 + d(k)]
  <2> DEFINE v(k) == IF k = 0 THEN 0 ELSE f[k - 1] * 10 + d(k)
  <2>1. \A k \in 0 .. n : f[k] = v(k)
    <3>1. \A k \in 0 .. n : k = 0 \/ k \in 1 .. n
      BY <1>1
    <3> QED BY <1>4, <1>5, <3>1 DEF IsRecursion
  <2>2. f = [k \in 0 .. n |-> f[k]]
    BY <1>4
  <2> HIDE DEF v
  <2>3. f = [k \in 0 .. n |-> v(k)]
    BY <2>1, <2>2
  <2> QED BY <2>3 DEF v
<1>7. value = [k \in 0 .. n |-> IF k = 0 THEN 0 ELSE value[k - 1] * 10 + d(k)]
  BY <1>6
<1> HIDE DEF value
<1>8. value[0] = 0 /\ \A k \in 1 .. n : value[k] = value[k - 1] * 10 + d(k)
  BY <1>1, <1>7
<1> DEFINE Holds == {k \in Nat : value[k] \in Nat}
<1>9. 0 \in Holds
  BY <1>8
<1>10. ASSUME NEW k \in 1 .. n, k - 1 \in Holds
       PROVE  k \in Holds
  BY <1>1, <1>8, <1>10
<1> HIDE DEF Holds
<1>11. \A k \in 0 .. n : k \in Holds
  BY <1>1, <1>9, <1>10, Climb
<1>12. \A k \in 0 .. n : value[k] \in Nat
  BY <1>11 DEF Holds
<1>13. IsDecimal(s, value)
  BY <1>8, <1>12 DEF IsDecimal, n, d
<1> QED BY <1>2, <1>13 DEF n

\* The digits as pg_strtoll goes through them.
Scanned(digits, limit) ==
    LET scan[k \in 0 .. Len(digits)] ==
            IF k = 0 THEN [acc |-> 0, over |-> FALSE]
            ELSE Digit(scan[k - 1], DigitValue(digits[k]), limit)
    IN scan[Len(digits)]
ScanState == [acc : Nat, over : BOOLEAN]

\* One digit: the number stays right, or is beyond the limit for good.
LEMMA ScanStateIs ==
    ASSUME NEW st \in ScanState, NEW n \in Nat
    PROVE  /\ st.acc \in Nat
           /\ [st EXCEPT !.over = TRUE] \in ScanState /\ [st EXCEPT !.over = TRUE].over = TRUE
           /\ [st EXCEPT !.acc = n] \in ScanState /\ [st EXCEPT !.acc = n].acc = n
           /\ [st EXCEPT !.acc = n].over = st.over
BY DEF ScanState

LEMMA DigitIs ==
    ASSUME NEW st \in ScanState, NEW d \in 0 .. 9, NEW limit \in Nat
    PROVE  /\ Digit(st, d, limit) \in ScanState
           /\ ~Digit(st, d, limit).over => /\ ~st.over /\ Digit(st, d, limit).acc = st.acc * 10 + d
                                           /\ st.acc * 10 + d <= limit
           /\ Digit(st, d, limit).over => st.over \/ st.acc * 10 + d > limit
<1> DEFINE c == limit \div 10
           r == limit % 10
           n == st.acc * 10 + d
           stops == st.over \/ st.acc > c \/ (st.acc = c /\ d > r)
           stopped == [st EXCEPT !.over = TRUE]
           taken == [st EXCEPT !.acc = n]
           o == Digit(st, d, limit)
<1>1. c \in Nat /\ r \in 0 .. 9 /\ limit = 10 * c + r
  OBVIOUS
<1>2. st.acc \in Nat
  BY ScanStateIs
<1>3. n \in Nat
  BY <1>2
<1>4. /\ stopped \in ScanState /\ stopped.over = TRUE
      /\ taken \in ScanState /\ taken.acc = n /\ taken.over = st.over
  <2> HIDE DEF n
  <2> QED BY <1>3, ScanStateIs
<1>5. o = IF stops THEN stopped ELSE taken
  BY DEF Digit
<1>6. stops <=> st.over \/ n > limit
  <2> HIDE DEF c, r
  <2> QED BY <1>1, <1>2
<1> HIDE DEF stops, o, stopped, taken, n
<1>7. CASE stops
  BY <1>4, <1>5, <1>6, <1>7 DEF o, n
<1>8. CASE ~stops
  <2>1. ~st.over /\ n <= limit
    BY <1>3, <1>6, <1>8
  <2> QED BY <1>4, <1>5, <1>8, <2>1 DEF o, n
<1> QED BY <1>7, <1>8

LEMMA ScannedIs ==
    ASSUME NEW s \in Seq(Digits), NEW limit \in Nat
    PROVE  LET st == Scanned(s, limit)
           IN  /\ st.over <=> ReadDigits(s, 10) > limit
               /\ ~st.over => st.acc = ReadDigits(s, 10)
               /\ ReadDigits(s, 10) \in Nat /\ st.over \in BOOLEAN
<1> DEFINE n == Len(s)
           d(k) == DigitValue(s[k])
           init == [acc |-> 0, over |-> FALSE]
           scan == CHOOSE f : f = [k \in 0 .. n |-> IF k = 0 THEN [acc |-> 0, over |-> FALSE]
                                                    ELSE Digit(f[k - 1], d(k), limit)]
           g == [p \in ScanState \X (1 .. n) |-> Digit(p[1], d(p[2]), limit)]
<1>1. n \in Nat /\ (\A k \in 1 .. n : d(k) \in 0 .. 9) /\ init \in ScanState
  BY DigitValueIs DEF ScanState
<1>2. Scanned(s, limit) = scan[n]
  BY DEF Scanned
<1>3. g \in [ScanState \X (1 .. n) -> ScanState]
  <2> HIDE DEF d, n
  <2> QED BY <1>1, DigitIs
<1>4. PICK f \in [0 .. n -> ScanState] : IsRecursion(f, n, init, g)
  <2> HIDE DEF g, n, init
  <2> QED BY <1>1, <1>3, RecursiveExists
<1>5. ASSUME NEW k \in 1 .. n
      PROVE  g[<<f[k - 1], k>>] = Digit(f[k - 1], d(k), limit)
  <2> HIDE DEF d, n
  <2>1. k - 1 \in 0 .. n
    BY <1>1
  <2>2. <<f[k - 1], k>> \in ScanState \X (1 .. n)
    BY <1>4, <2>1
  <2> QED BY <2>2
<1> HIDE DEF g, n, d
<1>6. f = [k \in 0 .. n |-> IF k = 0 THEN init ELSE Digit(f[k - 1], d(k), limit)]
  <2> HIDE DEF init
  <2> DEFINE v(k) == IF k = 0 THEN init ELSE Digit(f[k - 1], d(k), limit)
  <2>1. \A k \in 0 .. n : f[k] = v(k)
    <3>1. \A k \in 0 .. n : k = 0 \/ k \in 1 .. n
      BY <1>1
    <3> QED BY <1>4, <1>5, <3>1 DEF IsRecursion
  <2>2. f = [k \in 0 .. n |-> f[k]]
    BY <1>4
  <2> HIDE DEF v
  <2>3. f = [k \in 0 .. n |-> v(k)]
    BY <2>1, <2>2
  <2> QED BY <2>3 DEF v
<1>7. scan = [k \in 0 .. n |-> IF k = 0 THEN init ELSE Digit(scan[k - 1], d(k), limit)]
  BY <1>6
<1> HIDE DEF scan
<1>8. scan[0] = init /\ \A k \in 1 .. n : scan[k] = Digit(scan[k - 1], d(k), limit)
  <2> HIDE DEF init
  <2>1. \A k \in 0 .. n : scan[k] = IF k = 0 THEN init ELSE Digit(scan[k - 1], d(k), limit)
    BY <1>7
  <2> QED BY <1>1, <2>1
<1>9. PICK value : IsDecimal(s, value) /\ ReadDigits(s, 10) = value[n]
  BY ReadDigitsIs DEF n
<1>10. /\ value[0] = 0 /\ \A k \in 1 .. n : value[k] = value[k - 1] * 10 + d(k)
       /\ \A k \in 0 .. n : value[k] \in Nat
  BY <1>9 DEF IsDecimal, n, d
<1> DEFINE Right10(k) == /\ scan[k] \in ScanState
                         /\ scan[k].over <=> value[k] > limit
                         /\ ~scan[k].over => scan[k].acc = value[k]
           Holds == {k \in Nat : Right10(k)}
<1>11. 0 \in Holds
  <2>1. ~(0 > limit) /\ init.over = FALSE /\ init.acc = 0
    OBVIOUS
  <2> HIDE DEF init
  <2> QED BY <1>1, <1>8, <1>10, <2>1
<1>12. ASSUME NEW k \in 1 .. n, k - 1 \in Holds
       PROVE  k \in Holds
  <2> DEFINE st == scan[k - 1]
             o == scan[k]
             u == value[k - 1]
             e == d(k)
  <2>1. st \in ScanState /\ (st.over <=> u > limit) /\ (~st.over => st.acc = u)
    BY <1>12
  <2>2. u \in Nat /\ value[k] = u * 10 + e /\ e \in 0 .. 9 /\ k \in Nat
    BY <1>1, <1>10
  <2>3. o = Digit(st, e, limit)
    BY <1>8
  <2> HIDE DEF st, o, u, e
  <2>4. /\ o \in ScanState
        /\ ~o.over => /\ ~st.over /\ o.acc = st.acc * 10 + e /\ st.acc * 10 + e <= limit
        /\ o.over => st.over \/ st.acc * 10 + e > limit
    BY <2>1, <2>2, <2>3, DigitIs
  <2> DEFINE z == u * 10 + e
  <2>5. /\ o.over <=> z > limit
        /\ ~o.over => o.acc = z
    <3>1. z \in Nat /\ z >= u
      BY <2>2
    <3>2. st.over => z > limit
      BY <2>1, <2>2, <3>1
    <3> QED BY <2>1, <2>2, <2>4, <3>2
  <2>6. value[k] = z
    BY <2>2
  <2> HIDE DEF z
  <2>7. Right10(k)
    BY <2>4, <2>5, <2>6 DEF o
  <2> QED BY <2>2, <2>7
<1> HIDE DEF Holds
<1>13. \A k \in 0 .. n : k \in Holds
  BY <1>1, <1>11, <1>12, Climb
<1>14. n \in 0 .. n
  BY <1>1
<1>15. Right10(n) /\ value[n] \in Nat
  BY <1>10, <1>13, <1>14 DEF Holds
<1> QED BY <1>2, <1>9, <1>15 DEF ScanState

\* The value and the verdict of pg_strtoll on a text that starts with digits
\* after an optional sign.
Neg(s) == s # <<>> /\ s[1] = "-"
Sign(s) == IF s # <<>> /\ s[1] \in {"-", "+"} THEN 1 ELSE 0
DigitsOf(s) == SubSeq(s, Sign(s) + 1, Sign(s) + Span(Rest(s, Sign(s)), Digits))
Signed(neg, n) == IF neg THEN -n ELSE n

LEMMA StrtollIs ==
    ASSUME NEW w \in Nat \ {0}, NEW s, DigitsOf(s) \in Seq(Digits)
    PROVE  LET scan == pg_strtoll(w, s)
               n == Signed(Neg(s), ReadDigits(DigitsOf(s), 10))
           IN  /\ scan.used = IF DigitsOf(s) = <<>> THEN 0 ELSE Sign(s) + Len(DigitsOf(s))
               /\ scan.range <=> ~Fits(w, n)
               /\ ~scan.range => scan.val = n
               /\ scan = [val |-> scan.val, used |-> scan.used, range |-> scan.range]
<1> DEFINE digits == DigitsOf(s)
           neg == Neg(s)
           limit == IF neg THEN Pow(2, w - 1) ELSE Largest(w)
           st == Scanned(digits, limit)
           value == ReadDigits(digits, 10)
           m == Pow(2, w - 1)
           scan == pg_strtoll(w, s)
           n == Signed(neg, value)
<1>1. scan = [val |-> IF st.over THEN (IF neg THEN Smallest(w) ELSE Largest(w))
                      ELSE IF neg THEN -st.acc ELSE st.acc,
              used |-> IF digits = <<>> THEN 0 ELSE Sign(s) + Len(digits),
              range |-> st.over]
  BY DEF pg_strtoll, DigitsOf, Neg, Sign, Scanned
<1>2. m \in Nat \ {0} /\ \A i : i \in MachineInt(w) <=> i \in Int /\ -m <= i /\ i < m
  BY WidthIs
<1>3. limit = (IF neg THEN m ELSE m - 1) /\ limit \in Nat
  <2>1. Largest(w) = m - 1
    BY DEF Largest
  <2> HIDE DEF m, neg
  <2> QED BY <1>2, <2>1 DEF m
<1> HIDE DEF limit
<1>4. (st.over <=> value > limit) /\ (~st.over => st.acc = value) /\ value \in Nat
  BY <1>3, ScannedIs
<1> HIDE DEF st, value, m, neg, digits, scan
<1>5. n = IF neg THEN -value ELSE value
  BY DEF Signed
<1>6. value > limit <=> ~(n \in Int /\ -m <= n /\ n < m)
  BY <1>2, <1>3, <1>4, <1>5
<1>7. (scan.range <=> ~Fits(w, n)) /\ (~scan.range => scan.val = n)
  BY <1>1, <1>2, <1>4, <1>5, <1>6 DEF Fits
<1>8. /\ scan.used = IF digits = <<>> THEN 0 ELSE Sign(s) + Len(digits)
      /\ scan = [val |-> scan.val, used |-> scan.used, range |-> scan.range]
  BY <1>1
<1> QED BY <1>7, <1>8 DEF scan, neg, value, digits

\* Where pg_strtoll finds its digits: after the sign, as far as they go.
LEMMA DigitsAre ==
    ASSUME NEW s \in Seq(STRING)
    PROVE  LET L == Span(Rest(s, Sign(s)), Digits)
           IN  /\ Sign(s) \in 0 .. Len(s) /\ L \in Nat /\ Sign(s) + L <= Len(s)
               /\ Len(DigitsOf(s)) = L /\ DigitsOf(s) \in Seq(Digits) /\ DigitsOf(s) \in Seq(STRING)
               /\ \A i \in 1 .. L : DigitsOf(s)[i] = s[Sign(s) + i] /\ s[Sign(s) + i] \in Digits
               /\ Sign(s) + L < Len(s) => s[Sign(s) + L + 1] \notin Digits
<1> DEFINE k == Sign(s)
           r == Rest(s, k)
           L == Span(r, Digits)
<1>1. k \in 0 .. Len(s) /\ Len(s) \in Nat
  BY DEF Sign
<1> HIDE DEF k
<1>2. r \in Seq(STRING) /\ Len(r) = Len(s) - k /\ \A i \in 1 .. Len(s) - k : r[i] = s[k + i]
  BY <1>1, RestIs
<1> HIDE DEF r
<1>3. L \in 0 .. Len(r) /\ (\A i \in 1 .. L : r[i] \in Digits) /\ (L < Len(r) => r[L + 1] \notin Digits)
  BY <1>2, SpanIs
<1> HIDE DEF L
<1>4. L \in Nat /\ k + L <= Len(s) /\ k \in Nat
  BY <1>1, <1>2, <1>3
<1>5. \A i \in 1 .. L : r[i] = s[k + i] /\ s[k + i] \in Digits
  BY <1>1, <1>2, <1>3, <1>4
<1>6. k + L < Len(s) => s[k + L + 1] \notin Digits
  <2> SUFFICES ASSUME k + L < Len(s)
               PROVE  s[k + L + 1] \notin Digits
    OBVIOUS
  <2>1. L < Len(r) /\ L + 1 \in 1 .. Len(s) - k /\ k + (L + 1) = k + L + 1
    BY <1>1, <1>2, <1>4
  <2>2. r[L + 1] = s[k + (L + 1)]
    BY <1>2, <2>1
  <2> QED BY <1>3, <2>1, <2>2
<1> DEFINE d == SubSeq(s, k + 1, k + L)
<1>7. d \in Seq(STRING) /\ Len(d) = L /\ \A i \in 1 .. L : d[i] = s[k + i]
  <2>1. k + 1 \in Nat \ {0} /\ k + L \in Nat /\ k + 1 <= (k + L) + 1
    BY <1>4
  <2>2. /\ d \in Seq(STRING) /\ Len(d) = (k + L) - (k + 1) + 1
        /\ \A i \in 1 .. (k + L) - (k + 1) + 1 : d[i] = s[(k + 1) + i - 1]
    BY <1>4, <2>1, SubSeqIs
  <2>3. (k + L) - (k + 1) + 1 = L /\ \A i \in 1 .. L : (k + 1) + i - 1 = k + i
    BY <1>4
  <2> HIDE DEF d
  <2> QED BY <2>2, <2>3
<1>8. d \in Seq(Digits)
  <2> HIDE DEF d
  <2>1. \A i \in 1 .. Len(d) : d[i] \in Digits
    BY <1>5, <1>7
  <2> QED BY <1>7, <2>1
<1>9. DigitsOf(s) = d
  BY DEF DigitsOf, k, L, r
<1> HIDE DEF d
<1> QED BY <1>1, <1>4, <1>5, <1>6, <1>7, <1>8, <1>9 DEF k, L, r

\* A text is an integer when blanks, a sign, digits and blanks make it up.
IntegerAt(text, n, L) ==
    /\ n \in Nat /\ L \in Nat \ {0}
    /\ LET s == Rest(text, n)
       IN  /\ n + Sign(s) + L <= Len(text)
           /\ \A i \in 1 .. n : text[i] = Blank
           /\ \A i \in 1 .. L : text[n + Sign(s) + i] \in Digits
           /\ \A i \in 1 .. Len(text) : n + Sign(s) + L < i => text[i] = Blank
           /\ n < Len(text) => text[n + 1] # Blank

\* The body of such a text, and what the properties read of it.
LEMMA IntegerBody ==
    ASSUME NEW text \in Seq(STRING), NEW n, NEW L, IntegerAt(text, n, L)
    PROVE  LET s == Rest(text, n)
           IN  /\ IsInteger(text)
               /\ Digits10(Body(text)) = DigitsOf(s)
               /\ Len(DigitsOf(s)) = L
               /\ (Body(text)[1] = "-") = Neg(s)
<1> DEFINE s == Rest(text, n)
           k == Sign(s)
           p == n + 1
           q == n + k + L
           B == Body(text)
           D == Digits10(B)
<1>1. /\ n \in Nat /\ L \in Nat \ {0} /\ k \in {0, 1} /\ q <= Len(text) /\ Len(text) \in Nat
      /\ p \in Nat \ {0} /\ q \in Nat /\ p <= q /\ n \in 0 .. Len(text) /\ p = n + 1 /\ q = n + k + L
  BY DEF IntegerAt, Sign
<1>2. /\ \A i \in 1 .. n : text[i] = Blank
      /\ \A i \in 1 .. L : text[n + k + i] \in Digits
      /\ \A i \in 1 .. Len(text) : q < i => text[i] = Blank
      /\ text[p] # Blank
  BY <1>1 DEF IntegerAt
<1>3. s \in Seq(STRING) /\ Len(s) = Len(text) - n /\ \A i \in 1 .. Len(text) - n : s[i] = text[n + i]
  BY <1>1, RestIs
<1>4. k = (IF s # <<>> /\ s[1] \in {"-", "+"} THEN 1 ELSE 0) /\ Neg(s) = (s # <<>> /\ s[1] = "-")
  BY DEF Sign, Neg
<1> HIDE DEF s, k, p, q
<1>5. Inks(text, p, q)
  <2>1. text[q] # Blank
    <3>1. L \in 1 .. L /\ n + k + L = q
      BY <1>1
    <3> QED BY <1>2, <3>1, DigitValueIs
  <2>2. \A i \in 1 .. Len(text) : i < p \/ q < i => text[i] = Blank
    BY <1>1, <1>2
  <2> QED BY <1>1, <1>2, <2>1, <2>2 DEF Inks
<1>6. B = SubSeq(text, p, q)
  BY <1>5, BodyOf
<1>7. B \in Seq(STRING) /\ Len(B) = k + L /\ \A i \in 1 .. k + L : B[i] = s[i]
  <2>1. /\ B \in Seq(STRING) /\ Len(B) = q - p + 1 /\ \A i \in 1 .. q - p + 1 : B[i] = text[p + i - 1]
    BY <1>1, <1>6, SubSeqIs
  <2>2. q - p + 1 = k + L /\ \A i \in 1 .. k + L : p + i - 1 = n + i /\ i \in 1 .. Len(text) - n
    BY <1>1
  <2> HIDE DEF B
  <2> QED BY <1>3, <2>1, <2>2
<1> HIDE DEF B
<1>8. B # <<>> /\ B[1] = s[1] /\ s # <<>>
  <2>1. 1 \in 1 .. k + L /\ Len(s) # 0
    BY <1>1, <1>3
  <2> QED BY <1>1, <1>3, <1>7, <2>1
<1>9. D \in Seq(STRING) /\ Len(D) = L /\ \A i \in 1 .. L : D[i] = s[k + i]
  <2>1. CASE k = 1
    <3>1. D = Tail(B)
      BY <1>4, <1>8, <2>1 DEF Digits10
    <3>2. D \in Seq(STRING) /\ Len(D) = Len(B) - 1 /\ \A i \in 1 .. Len(D) : D[i] = B[i + 1]
      BY <1>7, <1>8, <3>1, HeadTailProperties
    <3> HIDE DEF D
    <3>3. Len(D) = L
      BY <1>1, <1>7, <2>1, <3>2
    <3>4. ASSUME NEW i \in 1 .. L
          PROVE  D[i] = s[k + i]
      <4>1. i + 1 \in 1 .. k + L /\ i + 1 = k + i
        BY <1>1, <2>1
      <4>2. B[i + 1] = s[i + 1]
        BY <1>7, <4>1
      <4> QED BY <3>2, <3>3, <4>1, <4>2
    <3> QED BY <3>2, <3>3, <3>4
  <2>2. CASE k = 0
    <3>1. D = B
      BY <1>4, <1>8, <2>2 DEF Digits10
    <3> HIDE DEF D
    <3>2. \A i \in 1 .. L : i \in 1 .. k + L /\ i = k + i
      BY <1>1, <2>2
    <3> QED BY <1>1, <1>7, <2>2, <3>1, <3>2
  <2> QED BY <1>1, <2>1, <2>2
<1> HIDE DEF D
<1>10. \A i \in 1 .. L : s[k + i] = text[n + k + i] /\ s[k + i] \in Digits
  <2>1. \A i \in 1 .. L : k + i \in 1 .. Len(text) - n /\ n + (k + i) = n + k + i
    BY <1>1
  <2> QED BY <1>2, <1>3, <2>1
<1>11. Span(Rest(s, k), Digits) = L
  <2> DEFINE r == Rest(s, k)
  <2>1. k \in 0 .. Len(s)
    BY <1>1, <1>3
  <2>2. r \in Seq(STRING) /\ Len(r) = Len(s) - k /\ \A i \in 1 .. Len(s) - k : r[i] = s[k + i]
    BY <1>3, <2>1, RestIs
  <2> HIDE DEF r
  <2>3. L \in 0 .. Len(r) /\ \A i \in 1 .. L : r[i] \in Digits
    <3>1. L \in 0 .. Len(r) /\ \A i \in 1 .. L : i \in 1 .. Len(s) - k
      BY <1>1, <1>3, <2>2
    <3>2. \A i \in 1 .. L : r[i] = s[k + i]
      BY <2>2, <3>1
    <3> QED BY <1>10, <3>1, <3>2
  <2>4. L < Len(r) => r[L + 1] \notin Digits
    <3> SUFFICES ASSUME L < Len(r)
                 PROVE  r[L + 1] \notin Digits
      OBVIOUS
    <3>1. /\ L + 1 \in 1 .. Len(s) - k /\ k + (L + 1) \in 1 .. Len(text) - n
          /\ n + (k + (L + 1)) \in 1 .. Len(text) /\ q < n + (k + (L + 1))
      BY <1>1, <1>3, <2>2
    <3>2. r[L + 1] = Blank
      BY <1>2, <1>3, <2>2, <3>1
    <3> QED BY <3>2, DigitValueIs
  <2>5. Span(r, Digits) = L
    BY <2>2, <2>3, <2>4, SpanOf
  <2> QED BY <2>5 DEF r
<1>12. D = DigitsOf(s)
  <2>1. /\ Len(DigitsOf(s)) = L /\ DigitsOf(s) \in Seq(STRING)
        /\ \A i \in 1 .. L : DigitsOf(s)[i] = s[k + i]
    BY <1>3, <1>11, DigitsAre DEF k
  <2> QED BY <1>9, <2>1, SeqEqual
<1>13. D # <<>> /\ ToSet(D) \subseteq Digits
  <2>1. ToSet(D) = {D[i] : i \in 1 .. L}
    BY <1>9 DEF ToSet
  <2> QED BY <1>1, <1>9, <1>10, <2>1
<1>14. IsInteger(text)
  BY <1>13 DEF IsInteger, D, B
<1>15. (B[1] = "-") = Neg(s)
  BY <1>4, <1>8
<1> QED BY <1>9, <1>12, <1>14, <1>15 DEF s, D, B

LEMMA IntegerIsAt ==
    ASSUME NEW text \in Seq(STRING), IsInteger(text)
    PROVE  \E L : IntegerAt(text, Span(text, {Blank}), L)
<1> DEFINE B == Body(text)
           D == Digits10(B)
<1>1. D # <<>> /\ ToSet(D) \subseteq Digits
  BY DEF IsInteger
<1>2. B # <<>>
  BY <1>1 DEF Digits10
<1>3. PICK p, q : Inks(text, p, q)
  BY <1>2, BodyIs
<1>4. /\ p \in 1 .. Len(text) /\ q \in p .. Len(text) /\ Len(text) \in Nat /\ p \in Nat \ {0} /\ q \in Nat
      /\ text[p] # Blank /\ \A i \in 1 .. Len(text) : i < p \/ q < i => text[i] = Blank
  BY <1>3 DEF Inks
<1>5. B = SubSeq(text, p, q)
  BY <1>3, BodyOf
<1> DEFINE n == p - 1
           s == Rest(text, n)
           k == Sign(s)
           L == q - p + 1 - k
<1>6. n \in 0 .. Len(text) /\ n + 1 = p /\ k \in {0, 1} /\ L = q - p + 1 - k
  BY <1>4 DEF Sign
<1>7. Span(text, {Blank}) = n
  <2>1. \A i \in 1 .. n : text[i] \in {Blank}
    BY <1>4, <1>6
  <2>2. n < Len(text) => text[n + 1] \notin {Blank}
    BY <1>4, <1>6
  <2> HIDE DEF n
  <2> QED BY <1>6, <2>1, <2>2, SpanOf
<1>8. s \in Seq(STRING) /\ Len(s) = Len(text) - n /\ \A i \in 1 .. Len(text) - n : s[i] = text[n + i]
  BY <1>6, RestIs
<1>9. k = IF s # <<>> /\ s[1] \in {"-", "+"} THEN 1 ELSE 0
  BY DEF Sign
<1>10. B \in Seq(STRING) /\ Len(B) = q - p + 1 /\ \A i \in 1 .. q - p + 1 : B[i] = text[p + i - 1]
  <2>1. p <= q + 1 /\ q <= Len(text)
    BY <1>4
  <2> QED BY <1>4, <1>5, <2>1, SubSeqIs
<1> HIDE DEF B, n, s, k, L
<1>11. B[1] = text[p] /\ s[1] = text[p] /\ s # <<>>
  <2>1. 1 \in 1 .. q - p + 1 /\ 1 \in 1 .. Len(text) - n /\ p + 1 - 1 = p /\ Len(s) # 0
    BY <1>4, <1>6, <1>8
  <2>2. B[1] = text[p + 1 - 1] /\ s[1] = text[n + 1]
    BY <1>8, <1>10, <2>1
  <2> QED BY <1>6, <2>1, <2>2
<1>12. L \in Nat \ {0} /\ \A i \in 1 .. L : text[n + k + i] \in Digits
  <2>1. D = IF k = 1 THEN Tail(B) ELSE B
    BY <1>2, <1>9, <1>11 DEF Digits10
  <2>2. D \in Seq(STRING) /\ Len(D) = L /\ \A i \in 1 .. L : D[i] = text[n + k + i]
    <3>1. CASE k = 1
      <4>1. D \in Seq(STRING) /\ Len(D) = Len(B) - 1 /\ \A i \in 1 .. Len(D) : D[i] = B[i + 1]
        BY <1>2, <1>10, <2>1, <3>1, HeadTailProperties
      <4> HIDE DEF D
      <4>2. Len(D) = L
        BY <1>4, <1>6, <1>10, <3>1, <4>1
      <4>3. ASSUME NEW i \in 1 .. L
            PROVE  D[i] = text[n + k + i]
        <5>1. i + 1 \in 1 .. q - p + 1 /\ p + (i + 1) - 1 = n + k + i
          BY <1>4, <1>6, <3>1
        <5>2. B[i + 1] = text[p + (i + 1) - 1]
          BY <1>10, <5>1
        <5> QED BY <4>1, <4>2, <5>1, <5>2
      <4> QED BY <4>1, <4>2, <4>3
    <3>2. CASE k = 0
      <4>1. D = B
        BY <2>1, <3>2
      <4> HIDE DEF D
      <4>2. Len(D) = L
        BY <1>4, <1>6, <1>10, <3>2, <4>1
      <4>3. ASSUME NEW i \in 1 .. L
            PROVE  D[i] = text[n + k + i]
        <5>1. i \in 1 .. q - p + 1 /\ p + i - 1 = n + k + i
          BY <1>4, <1>6, <3>2
        <5>2. B[i] = text[p + i - 1]
          BY <1>10, <5>1
        <5> QED BY <4>1, <5>1, <5>2
      <4> QED BY <1>10, <4>1, <4>2, <4>3
    <3> QED BY <1>6, <3>1, <3>2
  <2> HIDE DEF D
  <2>3. L \in Nat \ {0}
    BY <1>1, <2>2
  <2>4. ToSet(D) = {D[i] : i \in 1 .. L}
    BY <2>2 DEF ToSet
  <2> QED BY <1>1, <2>2, <2>3, <2>4
<1>13. n + k + L = q
  BY <1>4, <1>6
<1>14. \A i \in 1 .. n : text[i] = Blank
  BY <1>4, <1>6
<1>15. \A i \in 1 .. Len(text) : n + k + L < i => text[i] = Blank
  BY <1>4, <1>13
<1>16. IntegerAt(text, n, L)
  <2>1. n \in Nat /\ n + k + L <= Len(text) /\ text[n + 1] # Blank
    BY <1>4, <1>6, <1>13
  <2> QED BY <1>12, <1>14, <1>15, <2>1 DEF IntegerAt, s, k
<1> QED BY <1>7, <1>16

\* The reader takes a number from a text exactly when the text is an integer.
LEMMA NumberIs ==
    ASSUME NEW w \in Nat \ {0}, NEW text \in Seq(STRING)
    PROVE  LET n == Number(w, text)
           IN  /\ n.used # 0 <=> IsInteger(text)
               /\ n.used # 0 => /\ n.range <=> ~Fits(w, Denoted(text))
                                /\ ~n.range => n.val = Denoted(text)
<1> DEFINE n == Span(text, {Blank})
           s == Rest(text, n)
           k == Sign(s)
           d == DigitsOf(s)
           L == Len(d)
           scan == pg_strtoll(w, s)
           tail == Rest(s, scan.used)
           blank == Span(tail, {Blank}) = Len(tail)
           value == Signed(Neg(s), ReadDigits(d, 10))
           o == Number(w, text)
<1>1. /\ n \in 0 .. Len(text) /\ Len(text) \in Nat
      /\ \A i \in 1 .. n : text[i] \in {Blank}
      /\ n < Len(text) => text[n + 1] \notin {Blank}
  BY SpanIs
<1>2. o = [scan EXCEPT !.used = IF blank THEN @ ELSE 0]
  BY DEF Number
<1> HIDE DEF n
<1>3. s \in Seq(STRING) /\ Len(s) = Len(text) - n /\ \A i \in 1 .. Len(text) - n : s[i] = text[n + i]
  BY <1>1, RestIs
<1> HIDE DEF s
<1>4. /\ k \in 0 .. Len(s) /\ L \in Nat /\ k + L <= Len(s) /\ d \in Seq(Digits)
      /\ \A i \in 1 .. L : s[k + i] \in Digits
  BY <1>3, DigitsAre
<1>5. /\ scan.used = IF d = <<>> THEN 0 ELSE k + L
      /\ (scan.range <=> ~Fits(w, value)) /\ (~scan.range => scan.val = value)
      /\ scan = [val |-> scan.val, used |-> scan.used, range |-> scan.range]
  BY <1>4, StrtollIs
<1>6. d = <<>> <=> L = 0
  BY <1>4
<1>7. o.val = scan.val /\ o.range = scan.range /\ o.used = IF blank THEN scan.used ELSE 0
  <2> HIDE DEF blank, o, scan
  <2> QED BY <1>2, <1>5
<1> HIDE DEF d, scan, k, L, o
<1>8. scan.used \in 0 .. Len(s)
  BY <1>3, <1>4, <1>5
<1>9. tail \in Seq(STRING) /\ Len(tail) = Len(s) - scan.used /\ \A i \in 1 .. Len(s) - scan.used : tail[i] = s[scan.used + i]
  <2> DEFINE u == scan.used
             r == Rest(s, u)
  <2>1. u \in 0 .. Len(s) /\ s \in Seq(STRING)
    BY ONLY <1>3, <1>8
  <2> HIDE DEF u
  <2>2. r \in Seq(STRING) /\ Len(r) = Len(s) - u /\ \A i \in 1 .. Len(s) - u : r[i] = s[u + i]
    BY ONLY <2>1, RestIs
  <2> QED BY ONLY <2>2, Zenon DEF tail, u
<1> HIDE DEF tail
<1>10. blank <=> \A i \in 1 .. Len(tail) : tail[i] = Blank
  <2>1. /\ Span(tail, {Blank}) \in 0 .. Len(tail) /\ \A i \in 1 .. Span(tail, {Blank}) : tail[i] \in {Blank}
    BY <1>9, SpanIs
  <2>2. ASSUME \A i \in 1 .. Len(tail) : tail[i] = Blank
        PROVE  Span(tail, {Blank}) = Len(tail)
    <3>1. Len(tail) \in 0 .. Len(tail) /\ ~(Len(tail) < Len(tail)) /\ \A i \in 1 .. Len(tail) : tail[i] \in {Blank}
      BY <1>9, <2>2
    <3> QED BY <1>9, <3>1, SpanOf
  <2> QED BY <2>1, <2>2
<1> HIDE DEF blank
<1>11. L # 0 => (blank <=> \A i \in 1 .. Len(text) : n + k + L < i => text[i] = Blank)
  <2> SUFFICES ASSUME L # 0
               PROVE  blank <=> \A i \in 1 .. Len(text) : n + k + L < i => text[i] = Blank
    OBVIOUS
  <2>1. scan.used = k + L
    BY <1>5, <1>6
  <2>2. \A i \in 1 .. Len(tail) : tail[i] = text[n + k + L + i] /\ n + k + L + i \in 1 .. Len(text) /\ n + k + L < n + k + L + i
    <3> SUFFICES ASSUME NEW i \in 1 .. Len(tail)
                 PROVE  /\ tail[i] = text[n + k + L + i] /\ n + k + L + i \in 1 .. Len(text)
                        /\ n + k + L < n + k + L + i
      OBVIOUS
    <3>1. i \in 1 .. Len(s) - scan.used /\ scan.used + i \in 1 .. Len(text) - n
      BY <1>1, <1>3, <1>4, <1>9, <2>1
    <3>2. tail[i] = text[n + (scan.used + i)]
      <4>1. tail[i] = s[scan.used + i]
        BY ONLY <1>9, <3>1
      <4>2. s[scan.used + i] = text[n + (scan.used + i)]
        BY ONLY <1>3, <3>1
      <4> QED BY ONLY <4>1, <4>2
    <3>3. n + (scan.used + i) = n + k + L + i
      BY <1>1, <1>3, <1>4, <2>1
    <3>4. n + (scan.used + i) \in 1 .. Len(text) /\ n + k + L < n + k + L + i
      BY ONLY <1>1, <1>3, <1>4, <2>1, <3>1
    <3> QED BY ONLY <3>2, <3>3, <3>4
  <2>3. ASSUME NEW j \in 1 .. Len(text), n + k + L < j
        PROVE  \E i \in 1 .. Len(tail) : n + k + L + i = j
    <3>1. j - (n + k + L) \in 1 .. Len(tail) /\ n + k + L + (j - (n + k + L)) = j
      BY <1>1, <1>3, <1>4, <1>9, <2>1, <2>3
    <3> QED BY <3>1
  <2> QED BY <1>10, <2>2, <2>3
<1>12. n \in Nat
  BY <1>1
<1>13. ASSUME o.used # 0
       PROVE  IntegerAt(text, n, L)
  <2>1. blank /\ L # 0
    BY <1>5, <1>6, <1>7, <1>13
  <2>2. L \in Nat \ {0} /\ n + k + L <= Len(text)
    BY <1>1, <1>3, <1>4, <2>1
  <2>3. \A i \in 1 .. L : text[n + k + i] \in Digits
    <3> SUFFICES ASSUME NEW i \in 1 .. L
                 PROVE  text[n + k + i] \in Digits
      OBVIOUS
    <3>1. k + i \in 1 .. Len(text) - n /\ n + (k + i) = n + k + i
      BY <1>1, <1>3, <1>4
    <3> QED BY <1>3, <1>4, <3>1
  <2> QED BY <1>1, <1>11, <1>12, <2>1, <2>2, <2>3 DEF IntegerAt, s, k
<1>14. ASSUME IsInteger(text)
       PROVE  o.used # 0
  <2>1. PICK M : IntegerAt(text, n, M)
    BY <1>14, IntegerIsAt DEF n
  <2>2. L = M
    BY <2>1, IntegerBody DEF L, d, s
  <2>3. L # 0 /\ L \in Nat /\ \A i \in 1 .. Len(text) : n + k + L < i => text[i] = Blank
    BY <2>1, <2>2 DEF IntegerAt, k, s
  <2>4. blank /\ scan.used = k + L /\ k \in Nat
    BY <1>4, <1>5, <1>6, <1>11, <2>3
  <2> QED BY <1>7, <2>3, <2>4
<1>15. ASSUME o.used # 0
       PROVE  IsInteger(text) /\ Denoted(text) = value
  <2>1. IntegerAt(text, n, L)
    BY <1>13, <1>15
  <2>2. IsInteger(text) /\ Digits10(Body(text)) = d /\ (Body(text)[1] = "-") = Neg(s)
    BY <2>1, IntegerBody DEF d, s
  <2>3. ReadDigits(d, 10) \in Nat
    <3>1. \E v : IsDecimal(d, v) /\ ReadDigits(d, 10) = v[Len(d)]
      BY <1>4, ReadDigitsIs
    <3>2. Len(d) \in 0 .. Len(d)
      BY <1>4
    <3> QED BY <3>1, <3>2 DEF IsDecimal
  <2>4. Denoted(text) = (IF Neg(s) THEN -1 ELSE 1) * ReadDigits(d, 10)
    BY <2>2 DEF Denoted
  <2>5. Denoted(text) = value
    <3> DEFINE r == ReadDigits(d, 10)
               neg == Neg(s)
    <3>1. r \in Nat /\ Denoted(text) = (IF neg THEN -1 ELSE 1) * r /\ value = IF neg THEN -r ELSE r
      BY <2>3, <2>4 DEF Signed
    <3> HIDE DEF r, neg, value
    <3> QED BY <3>1
  <2> QED BY <2>2, <2>5
<1> HIDE DEF value
<1>16. /\ o.used # 0 <=> IsInteger(text)
       /\ o.used # 0 => /\ o.range <=> ~Fits(w, Denoted(text))
                        /\ ~o.range => o.val = Denoted(text)
  BY <1>5, <1>7, <1>14, <1>15
<1> QED BY <1>16 DEF o

\* What the two functions make of a text.
ReadResult(type, text) == IF type = "int2" THEN PgInt2_FromString(text) ELSE PgInt8_FromString(text)

LEMMA FromStringIs ==
    ASSUME NEW type \in {"int2", "int8"}, NEW text \in Seq(STRING)
    PROVE  ReadResult(type, text) =
               IF IsInteger(text) /\ Fits(Width(type), Denoted(text)) THEN Value(type, Denoted(text))
               ELSE Raise("ValueError")
<1>1. CASE type = "int2"
  <2> DEFINE n == Number(LONG_BIT, text)
  <2>1. /\ n.used # 0 <=> IsInteger(text)
        /\ n.used # 0 => /\ n.range <=> ~Fits(LONG_BIT, Denoted(text))
                         /\ ~n.range => n.val = Denoted(text)
    BY WidthsAre, NumberIs
  <2>2. ReadResult(type, text) = IF n.used = 0 \/ n.range \/ ~Fits(SHORT_BIT, n.val) THEN Raise("ValueError")
                                 ELSE Int2(n.val)
    BY <1>1 DEF ReadResult, PgInt2_FromString
  <2>3. Fits(SHORT_BIT, Denoted(text)) => Fits(LONG_BIT, Denoted(text))
    BY FitWider
  <2> HIDE DEF n
  <2> QED BY <1>1, <2>1, <2>2, <2>3 DEF Int2, Width
<1>2. CASE type = "int8"
  <2> DEFINE n == Number(LONG_LONG_BIT, text)
  <2>1. /\ n.used # 0 <=> IsInteger(text)
        /\ n.used # 0 => /\ n.range <=> ~Fits(LONG_LONG_BIT, Denoted(text))
                         /\ ~n.range => n.val = Denoted(text)
    BY WidthsAre, NumberIs
  <2>2. ReadResult(type, text) = IF n.used = 0 \/ n.range THEN Raise("ValueError") ELSE Int8(n.val)
    BY <1>2 DEF ReadResult, PgInt8_FromString
  <2> HIDE DEF n
  <2> QED BY <1>2, <2>1, <2>2 DEF Int8, Width
<1> QED BY <1>1, <1>2

-----------------------------------------------------------------------------
(* The amounts of money. *)

\* The prover does not know that a literal is a STRING: the characters that are
\* put in front of a text, or into it, are named with the others.
Characters == STRING \cup {"-", Apostrophe, DoubleQuote, Backslash, "E", "NUL", "oct"}

LEMMA SinglesAre ==
    ASSUME NEW S, NEW c \in S
    PROVE  <<c>> \in Seq(S) /\ <<>> \in Seq(S)
OBVIOUS

Kept(c, set) == IF c \in set THEN <<c>> ELSE <<>>
IsOnly(s, set, f) ==
    /\ f[0] = <<>>
    /\ \A k \in 1 .. Len(s) : f[k] = f[k - 1] \o Kept(s[k], set)
    /\ \A k \in 0 .. Len(s) : f[k] \in Seq(Characters)

LEMMA OnlyIs ==
    ASSUME NEW s \in Seq(Characters), NEW set
    PROVE  \E f : IsOnly(s, set, f) /\ Only(s, set) = f[Len(s)]
<1> DEFINE n == Len(s)
           x(k) == Kept(s[k], set)
           only == CHOOSE f : f = [k \in 0 .. n |-> IF k = 0 THEN <<>> ELSE f[k - 1] \o x(k)]
           g == [p \in Seq(Characters) \X (1 .. n) |-> p[1] \o x(p[2])]
<1>1. n \in Nat /\ \A k \in 1 .. n : x(k) \in Seq(Characters)
  <2>1. \A k \in 1 .. n : s[k] \in Characters
    OBVIOUS
  <2>2. ASSUME NEW c \in Characters
        PROVE  Kept(c, set) \in Seq(Characters)
    <3>1. <<c>> \in Seq(Characters) /\ <<>> \in Seq(Characters)
      BY SinglesAre
    <3> QED BY <3>1, Zenon DEF Kept
  <2>3. n \in Nat
    OBVIOUS
  <2> QED BY <2>1, <2>2, <2>3
<1>2. Only(s, set) = only[n]
  BY DEF Only, Kept
<1>3. g \in [Seq(Characters) \X (1 .. n) -> Seq(Characters)] /\ <<>> \in Seq(Characters)
  <2> HIDE DEF x, n
  <2> QED BY <1>1
<1>4. PICK f \in [0 .. n -> Seq(Characters)] : IsRecursion(f, n, <<>>, g)
  <2> HIDE DEF g, n
  <2> QED BY <1>1, <1>3, RecursiveExists
<1>5. ASSUME NEW k \in 1 .. n
      PROVE  g[<<f[k - 1], k>>] = f[k - 1] \o x(k)
  <2> HIDE DEF x, n
  <2>1. k - 1 \in 0 .. n
    BY <1>1
  <2>2. <<f[k - 1], k>> \in Seq(Characters) \X (1 .. n)
    BY <1>4, <2>1
  <2> QED BY <2>2
<1> HIDE DEF g, n, x
<1>6. f = [k \in 0 .. n |-> IF k = 0 THEN <<>> ELSE f[k - 1] \o x(k)]
  <2> DEFINE v(k) == IF k = 0 THEN <<>> ELSE f[k - 1] \o x(k)
  <2>1. \A k \in 0 .. n : f[k] = v(k)
    <3>1. \A k \in 0 .. n : k = 0 \/ k \in 1 .. n
      BY <1>1
    <3> QED BY <1>4, <1>5, <3>1 DEF IsRecursion
  <2>2. f = [k \in 0 .. n |-> f[k]]
    BY <1>4
  <2> HIDE DEF v
  <2>3. f = [k \in 0 .. n |-> v(k)]
    BY <2>1, <2>2
  <2> QED BY <2>3 DEF v
<1>7. only = [k \in 0 .. n |-> IF k = 0 THEN <<>> ELSE only[k - 1] \o x(k)]
  BY <1>6
<1> HIDE DEF only
<1>8. only[0] = <<>> /\ \A k \in 1 .. n : only[k] = only[k - 1] \o x(k)
  <2>1. \A k \in 0 .. n : only[k] = IF k = 0 THEN <<>> ELSE only[k - 1] \o x(k)
    BY <1>7
  <2>2. 0 \in 0 .. n /\ \A k \in 1 .. n : k \in 0 .. n /\ k # 0
    BY <1>1
  <2> QED BY <2>1, <2>2, Zenon
<1> DEFINE Holds == {k \in Nat : only[k] \in Seq(Characters)}
<1>9. 0 \in Holds
  <2>1. <<>> \in Seq(Characters) /\ 0 \in Nat
    OBVIOUS
  <2> QED BY <1>8, <2>1
<1>10. ASSUME NEW k \in 1 .. n, k - 1 \in Holds
       PROVE  k \in Holds
  <2>1. only[k - 1] \in Seq(Characters) /\ x(k) \in Seq(Characters) /\ k \in Nat
    BY <1>1, <1>10
  <2>2. only[k] \in Seq(Characters)
    <3>1. only[k - 1] \o x(k) \in Seq(Characters)
      BY <2>1, ConcatProperties
    <3> QED BY <1>8, <3>1
  <2> QED BY <2>1, <2>2
<1> HIDE DEF Holds
<1>11. \A k \in 0 .. n : k \in Holds
  BY <1>1, <1>9, <1>10, Climb
<1>12. \A k \in 0 .. n : only[k] \in Seq(Characters)
  BY <1>11 DEF Holds
<1>13. IsOnly(s, set, only)
  BY <1>8, <1>12 DEF IsOnly, n, x
<1> QED BY <1>2, <1>13 DEF n

LEMMA AppendIs ==
    ASSUME NEW S, NEW s \in Seq(S), NEW x \in S
    PROVE  /\ s \o <<x>> \in Seq(S) /\ Len(s \o <<x>>) = Len(s) + 1 /\ Len(s) \in Nat
           /\ \A i \in 1 .. Len(s) : (s \o <<x>>)[i] = s[i]
           /\ (s \o <<x>>)[Len(s) + 1] = x
OBVIOUS

\* An induction over the texts, whose statement is the set of the texts it holds of.
LEMMA TextClimb ==
    ASSUME NEW S, NEW s \in Seq(S), NEW Holds, <<>> \in Holds,
           \A t \in Seq(S), x \in S : t \in Holds => t \o <<x>> \in Holds
    PROVE  s \in Holds
<1> DEFINE n == Len(s)
           Upto == {k \in Nat : SubSeq(s, 1, k) \in Holds}
<1>1. n \in Nat /\ SubSeq(s, 1, 0) = <<>> /\ 0 \in Nat
  OBVIOUS
<1>2. SubSeq(s, 1, n) = s
  BY SubSeqFull
<1>3. 0 \in Upto
  BY <1>1
<1>4. ASSUME NEW k \in 1 .. n, k - 1 \in Upto
      PROVE  k \in Upto
  <2>1. SubSeq(s, 1, k) = SubSeq(s, 1, k - 1) \o <<s[k]>>
    BY SubSeqRecursiveSecond, <1>1
  <2>2. SubSeq(s, 1, k - 1) \in Seq(S) /\ s[k] \in S /\ k \in Nat
    <3>1. 1 \in Int /\ k - 1 \in Int /\ \A i \in 1 .. k - 1 : s[i] \in S
      OBVIOUS
    <3>2. s[k] \in S /\ k \in Nat
      OBVIOUS
    <3> QED BY <3>1, <3>2, SubSeqProperties
  <2>3. SubSeq(s, 1, k - 1) \in Holds
    BY <1>4
  <2>4. SubSeq(s, 1, k - 1) \o <<s[k]>> \in Holds
    BY <2>2, <2>3, Zenon
  <2> QED BY <2>1, <2>2, <2>4
<1> HIDE DEF Upto, n
<1>5. n \in Upto
  <2>1. \A k \in 0 .. n : k \in Upto
    BY <1>1, <1>3, <1>4, Climb
  <2> QED BY <1>1, <2>1
<1> QED BY <1>2, <1>5 DEF Upto

LEMMA OnlyAppend ==
    /\ \A set : Only(<<>>, set) = <<>>
    /\ \A set : \A s \in Seq(Characters), x \in Characters :
          /\ Only(s, set) \in Seq(Characters)
          /\ Only(s \o <<x>>, set) = Only(s, set) \o Kept(x, set)
<1>1. ASSUME NEW set
      PROVE  Only(<<>>, set) = <<>>
  <2>1. <<>> \in Seq(Characters) /\ Len(<<>>) = 0
    OBVIOUS
  <2>2. PICK f : IsOnly(<<>>, set, f) /\ Only(<<>>, set) = f[Len(<<>>)]
    BY <2>1, OnlyIs
  <2> QED BY <2>1, <2>2 DEF IsOnly
<1>2. ASSUME NEW s \in Seq(Characters), NEW x \in Characters, NEW set
      PROVE  /\ Only(s, set) \in Seq(Characters)
             /\ Only(s \o <<x>>, set) = Only(s, set) \o Kept(x, set)
  <2> DEFINE t == s \o <<x>>
             n == Len(s)
  <2>1. t \in Seq(Characters) /\ Len(t) = n + 1 /\ n \in Nat /\ t[n + 1] = x /\ \A i \in 1 .. n : t[i] = s[i]
    <3>1. /\ s \o <<x>> \in Seq(Characters) /\ Len(s \o <<x>>) = Len(s) + 1 /\ Len(s) \in Nat
          /\ \A i \in 1 .. Len(s) : (s \o <<x>>)[i] = s[i]
          /\ (s \o <<x>>)[Len(s) + 1] = x
      BY AppendIs
    <3> QED BY <3>1, Zenon
  <2> HIDE DEF t, n
  <2>2. PICK f : IsOnly(s, set, f) /\ Only(s, set) = f[Len(s)]
    BY OnlyIs
  <2>3. PICK h : IsOnly(t, set, h) /\ Only(t, set) = h[Len(t)]
    BY <2>1, OnlyIs
  <2>4. /\ f[0] = <<>> /\ h[0] = <<>> /\ h[n] \in Seq(Characters)
        /\ \A k \in 1 .. n : f[k] = f[k - 1] \o Kept(s[k], set)
        /\ \A k \in 1 .. n : h[k] = h[k - 1] \o Kept(s[k], set)
        /\ h[n + 1] = h[n] \o Kept(x, set)
    <3>1. n + 1 \in 1 .. n + 1 /\ (n + 1) - 1 = n /\ n \in 0 .. n + 1 /\ \A k \in 1 .. n : k \in 1 .. n + 1
      BY <2>1
    <3> QED BY <2>1, <2>2, <2>3, <3>1 DEF IsOnly, n
  <2> DEFINE Holds == {k \in Nat : f[k] = h[k]}
  <2>5. 0 \in Holds
    BY <2>4
  <2>6. ASSUME NEW k \in 1 .. n, k - 1 \in Holds
        PROVE  k \in Holds
    <3>1. k \in Nat /\ f[k - 1] = h[k - 1]
      BY <2>6
    <3> QED BY <2>4, <3>1
  <2> HIDE DEF Holds
  <2>7. n \in Holds
    <3>1. \A k \in 0 .. n : k \in Holds
      BY <2>1, <2>5, <2>6, Climb
    <3> QED BY <2>1, <3>1
  <2>8. f[n] = h[n]
    BY <2>7 DEF Holds
  <2> QED BY <2>1, <2>2, <2>3, <2>4, <2>8 DEF n, t
<1> QED BY <1>1, <1>2

\* The text after which an induction over texts continues is kept apart from its
\* definition.
Texts == Seq(Characters)
LEMMA OnlyStep ==
    /\ \A set : Only(<<>>, set) = <<>> /\ <<>> \in Texts
    /\ \A set : \A s \in Texts, x \in Characters :
          /\ Only(s, set) \in Texts /\ s \o <<x>> \in Texts
          /\ x \in set => Only(s \o <<x>>, set) = Only(s, set) \o <<x>>
          /\ x \notin set => Only(s \o <<x>>, set) = Only(s, set)
<1>1. \A set : Only(<<>>, set) = <<>> /\ <<>> \in Texts
  BY OnlyAppend, EmptySeq DEF Texts
<1>2. ASSUME NEW set, NEW s \in Texts, NEW x \in Characters
      PROVE  /\ Only(s, set) \in Texts /\ s \o <<x>> \in Texts
             /\ x \in set => Only(s \o <<x>>, set) = Only(s, set) \o <<x>>
             /\ x \notin set => Only(s \o <<x>>, set) = Only(s, set)
  <2>1. s \in Seq(Characters)
    BY DEF Texts
  <2>2. Only(s, set) \in Seq(Characters) /\ Only(s \o <<x>>, set) = Only(s, set) \o Kept(x, set)
    BY <2>1, OnlyAppend
  <2>3. s \o <<x>> \in Seq(Characters)
    BY <2>1, AppendIs
  <2>4. Only(s, set) \o <<>> = Only(s, set)
    BY <2>2, ConcatEmptySeq
  <2> QED BY <2>2, <2>3, <2>4, Zenon DEF Kept, Texts
<1> QED BY <1>1, <1>2

LEMMA TextStep ==
    ASSUME NEW s \in Texts, NEW Holds, <<>> \in Holds,
           \A t \in Texts, x \in Characters : t \in Holds => t \o <<x>> \in Holds
    PROVE  s \in Holds
BY TextClimb, Zenon DEF Texts

\* Only keeps a text whose characters are all in the set, ...
LEMMA OnlyAll ==
    ASSUME NEW s \in Texts, NEW set, \A i \in 1 .. Len(s) : s[i] \in set
    PROVE  Only(s, set) = s
<1> DEFINE Holds == {t \in Texts : (\A i \in 1 .. Len(t) : t[i] \in set) => Only(t, set) = t}
<1>1. <<>> \in Holds
  BY OnlyStep
<1>2. ASSUME NEW t \in Texts, NEW x \in Characters, t \in Holds
      PROVE  t \o <<x>> \in Holds
  <2> DEFINE u == t \o <<x>>
  <2>1. /\ u \in Texts /\ Len(u) = Len(t) + 1 /\ Len(t) \in Nat /\ u[Len(t) + 1] = x
        /\ \A i \in 1 .. Len(t) : u[i] = t[i]
    <3>1. t \in Seq(Characters)
      BY DEF Texts
    <3>2. /\ t \o <<x>> \in Seq(Characters) /\ Len(t \o <<x>>) = Len(t) + 1 /\ Len(t) \in Nat
          /\ \A i \in 1 .. Len(t) : (t \o <<x>>)[i] = t[i]
          /\ (t \o <<x>>)[Len(t) + 1] = x
      BY <3>1, AppendIs
    <3> QED BY <3>2, Zenon DEF Texts
  <2>2. x \in set => Only(u, set) = Only(t, set) \o <<x>>
    BY OnlyStep
  <2>3. u = t \o <<x>>
    OBVIOUS
  <2> HIDE DEF u
  <2>4. ASSUME \A i \in 1 .. Len(u) : u[i] \in set
        PROVE  Only(u, set) = u
    <3> DEFINE m == Len(t)
    <3>0. m + 1 \in 1 .. m + 1 /\ (\A i \in 1 .. m : i \in 1 .. m + 1)
      <4>1. m \in Nat
        BY <2>1
      <4> HIDE DEF m
      <4> QED BY <4>1
    <3>1. x \in set /\ \A i \in 1 .. Len(t) : t[i] \in set
      <4> HIDE DEF m
      <4> QED BY <2>1, <2>4, <3>0, Zenon DEF m
    <3>2. Only(t, set) = t
      BY <1>2, <3>1
    <3> QED BY <2>2, <2>3, <3>1, <3>2
  <2>5. u \in Holds
    BY <2>1, <2>4
  <2> QED BY <2>5 DEF u
<1> HIDE DEF Holds
<1>3. s \in Holds
  BY <1>1, <1>2, TextStep
<1> QED BY <1>3 DEF Holds

\* ... twice is once when the first set has all the second is after, ...
LEMMA OnlyTwice ==
    ASSUME NEW s \in Texts, NEW A, NEW B, \A i \in 1 .. Len(s) : s[i] \in B => s[i] \in A
    PROVE  Only(Only(s, A), B) = Only(s, B)
<1> DEFINE Holds == {t \in Texts : (\A i \in 1 .. Len(t) : t[i] \in B => t[i] \in A)
                                       => Only(Only(t, A), B) = Only(t, B)}
<1>1. <<>> \in Holds
  BY OnlyStep
<1>2. ASSUME NEW t \in Texts, NEW x \in Characters, t \in Holds
      PROVE  t \o <<x>> \in Holds
  <2> DEFINE u == t \o <<x>>
  <2>1. /\ u \in Texts /\ Len(u) = Len(t) + 1 /\ Len(t) \in Nat /\ u[Len(t) + 1] = x
        /\ \A i \in 1 .. Len(t) : u[i] = t[i]
    <3>1. t \in Seq(Characters)
      BY DEF Texts
    <3>2. /\ t \o <<x>> \in Seq(Characters) /\ Len(t \o <<x>>) = Len(t) + 1 /\ Len(t) \in Nat
          /\ \A i \in 1 .. Len(t) : (t \o <<x>>)[i] = t[i]
          /\ (t \o <<x>>)[Len(t) + 1] = x
      BY <3>1, AppendIs
    <3> QED BY <3>2, Zenon DEF Texts
  <2>2. /\ x \in A => Only(u, A) = Only(t, A) \o <<x>>
        /\ x \notin A => Only(u, A) = Only(t, A)
        /\ x \in B => Only(u, B) = Only(t, B) \o <<x>>
        /\ x \notin B => Only(u, B) = Only(t, B)
    BY OnlyStep
  <2>3. Only(t, A) \in Texts
    BY OnlyStep
  <2>4. /\ x \in B => Only(Only(t, A) \o <<x>>, B) = Only(Only(t, A), B) \o <<x>>
        /\ x \notin B => Only(Only(t, A) \o <<x>>, B) = Only(Only(t, A), B)
    BY <2>3, OnlyStep
  <2> HIDE DEF u
  <2>5. ASSUME \A i \in 1 .. Len(u) : u[i] \in B => u[i] \in A
        PROVE  Only(Only(u, A), B) = Only(u, B)
    <3> DEFINE m == Len(t)
    <3>0. m + 1 \in 1 .. m + 1 /\ (\A i \in 1 .. m : i \in 1 .. m + 1)
      <4>1. m \in Nat
        BY <2>1
      <4> HIDE DEF m
      <4> QED BY <4>1
    <3>1. (x \in B => x \in A) /\ \A i \in 1 .. Len(t) : t[i] \in B => t[i] \in A
      <4> HIDE DEF m
      <4> QED BY <2>1, <2>5, <3>0, Zenon DEF m
    <3>2. Only(Only(t, A), B) = Only(t, B)
      BY <1>2, <3>1
    <3> QED BY <2>2, <2>4, <3>1, <3>2, Zenon
  <2>6. u \in Holds
    BY <2>1, <2>5
  <2> QED BY <2>6 DEF u
<1> HIDE DEF Holds
<1>3. s \in Holds
  BY <1>1, <1>2, TextStep
<1> QED BY <1>3 DEF Holds

AllIn(s, set) == \A i \in 1 .. Len(s) : s[i] \in set
LEMMA AllAppend ==
    ASSUME NEW t \in Texts, NEW x \in Characters, NEW set
    PROVE  AllIn(t \o <<x>>, set) <=> AllIn(t, set) /\ x \in set
<1> DEFINE u == t \o <<x>>
           m == Len(t)
<1>1. /\ Len(u) = m + 1 /\ m \in Nat /\ u[m + 1] = x
      /\ \A i \in 1 .. m : u[i] = t[i]
  <2>1. t \in Seq(Characters)
    BY DEF Texts
  <2>2. /\ t \o <<x>> \in Seq(Characters) /\ Len(t \o <<x>>) = Len(t) + 1 /\ Len(t) \in Nat
        /\ \A i \in 1 .. Len(t) : (t \o <<x>>)[i] = t[i]
        /\ (t \o <<x>>)[Len(t) + 1] = x
    BY <2>1, AppendIs
  <2> QED BY <2>2, Zenon
<1> HIDE DEF m, u
<1>2. m + 1 \in 1 .. m + 1 /\ (\A i \in 1 .. m : i \in 1 .. m + 1)
      /\ (\A i \in 1 .. m + 1 : i = m + 1 \/ i \in 1 .. m)
  BY <1>1
<1>3. (\A i \in 1 .. Len(u) : u[i] \in set) <=> (\A i \in 1 .. m : t[i] \in set) /\ x \in set
  BY <1>1, <1>2
<1> QED BY <1>3 DEF AllIn, m, u

\* ... leaves what the text has and the set has, ...
LEMMA OnlyKeeps ==
    ASSUME NEW s \in Texts, NEW A, NEW B, AllIn(s, B)
    PROVE  AllIn(Only(s, A), A) /\ AllIn(Only(s, A), B)
<1> DEFINE Holds == {t \in Texts : AllIn(t, B) => AllIn(Only(t, A), A) /\ AllIn(Only(t, A), B)}
<1>1. <<>> \in Holds
  <2>1. Only(<<>>, A) = <<>> /\ <<>> \in Texts
    BY OnlyStep
  <2>2. AllIn(<<>>, A) /\ AllIn(<<>>, B)
    BY DEF AllIn
  <2> QED BY <2>1, <2>2
<1>2. ASSUME NEW t \in Texts, NEW x \in Characters, t \in Holds
      PROVE  t \o <<x>> \in Holds
  <2>1. /\ AllIn(t \o <<x>>, B) <=> AllIn(t, B) /\ x \in B
        /\ Only(t, A) \in Texts /\ t \o <<x>> \in Texts
    BY AllAppend, OnlyStep
  <2>2. /\ AllIn(Only(t, A) \o <<x>>, B) <=> AllIn(Only(t, A), B) /\ x \in B
        /\ AllIn(Only(t, A) \o <<x>>, A) <=> AllIn(Only(t, A), A) /\ x \in A
    BY <2>1, AllAppend
  <2>3. /\ x \in A => Only(t \o <<x>>, A) = Only(t, A) \o <<x>>
        /\ x \notin A => Only(t \o <<x>>, A) = Only(t, A)
    BY OnlyStep
  <2>4. ASSUME AllIn(t \o <<x>>, B)
        PROVE  AllIn(Only(t \o <<x>>, A), A) /\ AllIn(Only(t \o <<x>>, A), B)
    <3>1. AllIn(Only(t, A), A) /\ AllIn(Only(t, A), B) /\ x \in B
      BY <1>2, <2>1, <2>4
    <3> QED BY <2>2, <2>3, <3>1
  <2> QED BY <2>1, <2>4
<1> HIDE DEF Holds
<1>3. s \in Holds
  BY <1>1, <1>2, TextStep
<1> QED BY <1>3 DEF Holds

\* ... is not empty when the text has something of the set, ...
LEMMA OnlySome ==
    ASSUME NEW s \in Texts, NEW A, NEW j \in 1 .. Len(s), s[j] \in A
    PROVE  Only(s, A) # <<>>
<1> DEFINE Holds == {t \in Texts : Only(t, A) = <<>> => AllIn(t, Characters \ A)}
<1>1. <<>> \in Holds
  <2>1. <<>> \in Texts /\ AllIn(<<>>, Characters \ A)
    BY OnlyStep DEF AllIn
  <2> QED BY <2>1
<1>2. ASSUME NEW t \in Texts, NEW x \in Characters, t \in Holds
      PROVE  t \o <<x>> \in Holds
  <2>1. /\ AllIn(t \o <<x>>, Characters \ A) <=> AllIn(t, Characters \ A) /\ x \in Characters \ A
        /\ Only(t, A) \in Texts /\ t \o <<x>> \in Texts
    BY AllAppend, OnlyStep
  <2>2. /\ x \in A => Only(t \o <<x>>, A) = Only(t, A) \o <<x>>
        /\ x \notin A => Only(t \o <<x>>, A) = Only(t, A)
    BY OnlyStep
  <2>3. Only(t, A) \o <<x>> # <<>>
    <3>1. Only(t, A) \in Seq(Characters)
      BY <2>1 DEF Texts
    <3>2. Len(Only(t, A) \o <<x>>) = Len(Only(t, A)) + 1 /\ Len(Only(t, A)) \in Nat /\ Len(<<>>) = 0
      BY <3>1, AppendIs
    <3> QED BY <3>2
  <2>4. ASSUME Only(t \o <<x>>, A) = <<>>
        PROVE  AllIn(t \o <<x>>, Characters \ A)
    <3>1. x \notin A /\ Only(t, A) = <<>>
      BY <2>2, <2>3, <2>4
    <3>2. AllIn(t, Characters \ A)
      BY <1>2, <3>1
    <3> QED BY <2>1, <3>1, <3>2
  <2> QED BY <2>1, <2>4
<1> HIDE DEF Holds
<1>3. s \in Holds
  BY <1>1, <1>2, TextStep
<1> QED BY <1>3 DEF Holds, AllIn

\* ... and does not see a character in front that is not in the set.
LEMMA OnlyBehind ==
    ASSUME NEW s \in Texts, NEW c \in Characters, NEW A, c \notin A
    PROVE  Only(<<c>> \o s, A) = Only(s, A)
<1> DEFINE Holds == {t \in Texts : Only(<<c>> \o t, A) = Only(t, A)}
<1>1. <<>> \in Holds
  <2>1. <<c>> \in Seq(Characters) /\ <<>> \in Seq(Characters)
    BY SinglesAre
  <2>2. <<c>> \o <<>> = <<c>> /\ <<>> \o <<c>> = <<c>>
    BY <2>1, ConcatEmptySeq
  <2>3. Only(<<>> \o <<c>>, A) = Only(<<>>, A) /\ <<>> \in Texts
    BY OnlyStep
  <2> QED BY <2>2, <2>3
<1>2. ASSUME NEW t \in Texts, NEW x \in Characters, t \in Holds
      PROVE  t \o <<x>> \in Holds
  <2>1. <<c>> \o (t \o <<x>>) = (<<c>> \o t) \o <<x>> /\ <<c>> \o t \in Texts
    <3>1. <<c>> \in Seq(Characters) /\ <<x>> \in Seq(Characters)
      BY SinglesAre
    <3>2. t \in Seq(Characters)
      BY DEF Texts
    <3>3. <<c>> \o t \in Seq(Characters)
      BY <3>1, <3>2, ConcatProperties
    <3>4. (<<c>> \o t) \o <<x>> = <<c>> \o (t \o <<x>>)
      BY <3>1, <3>2, ConcatAssociative
    <3> QED BY <3>3, <3>4, Zenon DEF Texts
  <2>2. /\ x \in A => Only((<<c>> \o t) \o <<x>>, A) = Only(<<c>> \o t, A) \o <<x>>
        /\ x \notin A => Only((<<c>> \o t) \o <<x>>, A) = Only(<<c>> \o t, A)
        /\ x \in A => Only(t \o <<x>>, A) = Only(t, A) \o <<x>>
        /\ x \notin A => Only(t \o <<x>>, A) = Only(t, A)
        /\ t \o <<x>> \in Texts
    BY <2>1, OnlyStep
  <2>3. Only(<<c>> \o t, A) = Only(t, A)
    BY <1>2
  <2> QED BY <2>1, <2>2, <2>3, Zenon
<1> HIDE DEF Holds
<1>3. s \in Holds
  BY <1>1, <1>2, TextStep
<1> QED BY <1>3 DEF Holds

\* What an amount is made of.
MoneyDigits == Digits \cup {"."}
Negatives == {"-", "("}

LEMMA MoneyCharacters ==
    /\ MoneyDigits \cap Dressing = {} /\ MoneyDigits \cap Negatives = {}
    /\ "-" \in Negatives /\ "-" \in Characters /\ "-" \notin Dressing
<1>1. Digits \subseteq {"0", "1", "2", "3", "4", "5", "6", "7", "8", "9"}
  BY DEF Digits, DigitSeq
<1>2. MoneyDigits \subseteq {"0", "1", "2", "3", "4", "5", "6", "7", "8", "9", "."}
  BY <1>1 DEF MoneyDigits
<1>3. {"0", "1", "2", "3", "4", "5", "6", "7", "8", "9", "."} \cap Dressing = {}
  BY Zenon DEF Dressing
<1>4. {"0", "1", "2", "3", "4", "5", "6", "7", "8", "9", "."} \cap Negatives = {}
  BY Zenon DEF Negatives
<1>5. "-" \in Negatives /\ "-" \notin Dressing
  BY Zenon DEF Negatives, Dressing
<1>6. "-" \in Characters
  BY Zenon DEF Characters
<1> QED BY <1>2, <1>3, <1>4, <1>5, <1>6

\* The text without its sign, and ReadMoney in terms of it.
WithoutSign(text) == IF text # <<>> /\ text[1] \in Negatives THEN Tail(text) ELSE text
LEMMA ReadMoneyIs ==
    ASSUME NEW text
    PROVE  ReadMoney(text) =
               IF text # <<>> /\ text[1] \in Negatives
               THEN <<"-">> \o Only(WithoutSign(text), ToSet(text) \ Dressing)
               ELSE Only(WithoutSign(text), ToSet(text) \ Dressing)
BY Zenon DEF ReadMoney, WithoutSign, Negatives

LEMMA WithoutSignIs ==
    ASSUME NEW text \in Texts, AllIn(WithoutSign(text), Characters \ Negatives)
    PROVE  LET b == WithoutSign(text)
               d == Only(b, ToSet(text) \ Dressing)
           IN  /\ b \in Texts /\ d \in Texts
               /\ AllIn(b, ToSet(text)) /\ AllIn(d, ToSet(text) \ Dressing) /\ AllIn(d, Characters \ Negatives)
               /\ Only(b, MoneyDigits) = Only(text, MoneyDigits)
               /\ Only(d, MoneyDigits) = Only(text, MoneyDigits)
<1> DEFINE b == WithoutSign(text)
           d == Only(b, ToSet(text) \ Dressing)
<1>1. text \in Seq(Characters)
  BY DEF Texts
<1>2. AllIn(text, ToSet(text))
  BY <1>1 DEF AllIn, ToSet
<1>3. b \in Texts /\ AllIn(b, ToSet(text)) /\ Only(b, MoneyDigits) = Only(text, MoneyDigits)
  <2>1. CASE text # <<>> /\ text[1] \in Negatives
    <3>1. b = Tail(text)
      BY <2>1 DEF WithoutSign
    <3>2. /\ Tail(text) \in Seq(Characters) /\ Len(Tail(text)) = Len(text) - 1 /\ Len(text) \in Nat
          /\ \A i \in 1 .. Len(Tail(text)) : Tail(text)[i] = text[i + 1]
      BY <1>1, <2>1, HeadTailProperties
    <3>3. text = <<text[1]>> \o Tail(text) /\ text[1] \in Characters
      BY <1>1, <2>1
    <3>4. AllIn(Tail(text), ToSet(text))
      <4>1. \A i \in 1 .. Len(Tail(text)) : i + 1 \in 1 .. Len(text)
        BY <3>2
      <4> QED BY <1>2, <3>2, <4>1 DEF AllIn
    <3>5. Tail(text) \in Texts /\ text[1] \notin MoneyDigits
      BY <2>1, <3>2, MoneyCharacters DEF Texts
    <3>6. Only(<<text[1]>> \o Tail(text), MoneyDigits) = Only(Tail(text), MoneyDigits)
      BY <3>3, <3>5, OnlyBehind
    <3> QED BY <3>1, <3>3, <3>4, <3>5, <3>6
  <2>2. CASE ~(text # <<>> /\ text[1] \in Negatives)
    <3>1. b = text
      BY <2>2 DEF WithoutSign
    <3> QED BY <1>2, <3>1
  <2> QED BY <2>1, <2>2
<1> HIDE DEF b
<1>4. d \in Texts /\ AllIn(d, ToSet(text) \ Dressing) /\ AllIn(d, Characters \ Negatives)
  <2>1. AllIn(b, Characters \ Negatives)
    BY DEF b
  <2>2. d \in Texts
    BY <1>3, OnlyStep, MoneyCharacters
  <2>3. AllIn(d, ToSet(text) \ Dressing)
    BY <1>3, OnlyKeeps
  <2>4. AllIn(d, Characters \ Negatives)
    BY <1>3, <2>1, OnlyKeeps
  <2> QED BY <2>2, <2>3, <2>4
<1>5. Only(d, MoneyDigits) = Only(b, MoneyDigits)
  <2>1. \A i \in 1 .. Len(b) : b[i] \in MoneyDigits => b[i] \in ToSet(text) \ Dressing
    BY <1>3, MoneyCharacters DEF AllIn
  <2> QED BY <1>3, <2>1, OnlyTwice
<1> HIDE DEF d
<1> QED BY <1>3, <1>4, <1>5 DEF b, d

LEMMA AmountIs ==
    ASSUME NEW text \in MoneyTexts
    PROVE  LET r == ReadMoney(text)
           IN  /\ ReadMoney(r) = r /\ r # <<>>
               /\ (r[1] = "-") <=> text[1] \in Negatives
               /\ Only(r, MoneyDigits) = Only(text, MoneyDigits)
<1> DEFINE b == WithoutSign(text)
           d == Only(b, ToSet(text) \ Dressing)
           r == ReadMoney(text)
           signed == text # <<>> /\ text[1] \in Negatives
<1>1. /\ text \in Seq(STRING) /\ \E i \in DOMAIN text : text[i] \in Digits
      /\ \A i \in DOMAIN text : text[i] \in Negatives => i = 1
  BY DEF MoneyTexts, Negatives
<1>2. text \in Texts /\ text \in Seq(Characters)
  <2>1. STRING \subseteq Characters
    BY DEF Characters
  <2>2. text \in Seq(Characters)
    BY <1>1, <2>1, SeqMonotonic
  <2> QED BY <2>2 DEF Texts
<1>3. text # <<>> /\ DOMAIN text = 1 .. Len(text) /\ Len(text) \in Nat /\ 1 \in DOMAIN text
  BY <1>1
<1>4. PICK j \in 1 .. Len(text) : text[j] \in Digits
  BY <1>1, <1>3
<1>5. text[j] \in MoneyDigits /\ text[j] \notin Negatives /\ text[j] \notin Dressing
  BY <1>4, MoneyCharacters DEF MoneyDigits
<1>6. AllIn(b, Characters \ Negatives) /\ \E k \in 1 .. Len(b) : b[k] = text[j]
  <2>1. CASE text[1] \in Negatives
    <3>1. b = Tail(text)
      BY <1>3, <2>1 DEF WithoutSign
    <3>2. /\ Len(Tail(text)) = Len(text) - 1 /\ Tail(text) \in Seq(Characters)
          /\ \A i \in 1 .. Len(Tail(text)) : Tail(text)[i] = text[i + 1]
      BY <1>2, <1>3, HeadTailProperties
    <3>3. \A i \in 1 .. Len(Tail(text)) : /\ i + 1 \in 1 .. Len(text) /\ i + 1 # 1
                                          /\ Tail(text)[i] \in Characters
      BY <1>3, <3>2
    <3>4. AllIn(Tail(text), Characters \ Negatives)
      BY <1>1, <1>3, <3>2, <3>3 DEF AllIn
    <3>5. j # 1
      BY <1>5, <2>1
    <3>6. j - 1 \in 1 .. Len(Tail(text)) /\ (j - 1) + 1 = j
      BY <1>3, <3>2, <3>5
    <3> QED BY <3>1, <3>2, <3>4, <3>6
  <2>2. CASE text[1] \notin Negatives
    <3>1. b = text
      BY <2>2 DEF WithoutSign
    <3>2. AllIn(text, Characters \ Negatives)
      BY <1>1, <1>2, <1>3, <2>2 DEF AllIn
    <3> QED BY <3>1, <3>2
  <2> QED BY <2>1, <2>2
<1>7. /\ b \in Texts /\ d \in Texts
      /\ AllIn(b, ToSet(text)) /\ AllIn(d, ToSet(text) \ Dressing) /\ AllIn(d, Characters \ Negatives)
      /\ Only(b, MoneyDigits) = Only(text, MoneyDigits)
      /\ Only(d, MoneyDigits) = Only(text, MoneyDigits)
  BY <1>2, <1>6, WithoutSignIs
<1>8. r = IF signed THEN <<"-">> \o d ELSE d
  BY ReadMoneyIs
<1>9. d # <<>>
  <2>1. PICK k \in 1 .. Len(b) : b[k] = text[j]
    BY <1>6
  <2>2. b[k] \in ToSet(text) \ Dressing
    BY <1>5, <1>7, <2>1 DEF AllIn
  <2>3. Only(b, ToSet(text) \ Dressing) # <<>>
    BY <1>7, <2>2, OnlySome
  <2> QED BY <2>3
<1> HIDE DEF b, d, r
<1>10. d \in Seq(Characters) /\ Len(d) \in Nat \ {0} /\ d[1] \notin Negatives /\ d[1] # "-"
  <2>1. d \in Seq(Characters)
    BY <1>7 DEF Texts
  <2>2. Len(d) \in Nat \ {0} /\ 1 \in 1 .. Len(d)
    BY <1>9, <2>1
  <2>3. d[1] \in Characters \ Negatives
    BY <1>7, <2>2 DEF AllIn
  <2> QED BY <2>1, <2>2, <2>3, MoneyCharacters
<1>11. ASSUME NEW s \in Seq(Characters), AllIn(d, ToSet(s))
       PROVE  Only(d, ToSet(s) \ Dressing) = d
  <2>1. \A i \in 1 .. Len(d) : d[i] \in ToSet(s) \ Dressing
    BY <1>7, <1>11 DEF AllIn
  <2> QED BY <1>7, <2>1, OnlyAll
<1>12. CASE signed
  <2>1. r = <<"-">> \o d
    BY <1>8, <1>12
  <2>2. "-" \in Characters /\ <<"-">> \in Seq(Characters) /\ Len(<<"-">>) = 1 /\ <<"-">>[1] = "-"
    BY MoneyCharacters
  <2>3. /\ r \in Seq(Characters) /\ Len(r) = 1 + Len(d)
        /\ \A i \in 1 .. 1 + Len(d) : r[i] = IF i <= 1 THEN <<"-">>[i] ELSE d[i - 1]
    BY <1>10, <2>1, <2>2, ConcatProperties
  <2>4. r[1] = "-" /\ r # <<>> /\ 1 \in 1 .. Len(r)
    BY <1>10, <2>2, <2>3
  <2>5. Tail(r) = d
    <3>1. /\ Tail(r) \in Seq(Characters) /\ Len(Tail(r)) = Len(r) - 1
          /\ \A i \in 1 .. Len(Tail(r)) : Tail(r)[i] = r[i + 1]
      BY <2>3, <2>4, HeadTailProperties
    <3>2. Len(Tail(r)) = Len(d) /\ \A i \in 1 .. Len(d) : i + 1 \in 1 .. 1 + Len(d) /\ ~(i + 1 <= 1) /\ (i + 1) - 1 = i
      BY <1>10, <2>3, <3>1
    <3>3. \A i \in 1 .. Len(d) : Tail(r)[i] = d[i]
      BY <2>3, <3>1, <3>2
    <3> QED BY <1>10, <3>1, <3>2, <3>3, SeqEqual
  <2>6. WithoutSign(r) = d
    BY <2>4, <2>5, MoneyCharacters DEF WithoutSign
  <2>7. AllIn(d, ToSet(r))
    <3>1. \A i \in 1 .. Len(d) : i + 1 \in 1 .. Len(r) /\ ~(i + 1 <= 1) /\ (i + 1) - 1 = i
      BY <1>10, <2>3
    <3>2. \A i \in 1 .. Len(d) : r[i + 1] = d[i]
      BY <2>3, <3>1
    <3>3. DOMAIN r = 1 .. Len(r)
      BY <2>3
    <3> QED BY <3>1, <3>2, <3>3 DEF AllIn, ToSet
  <2>8. Only(d, ToSet(r) \ Dressing) = d
    BY <1>11, <2>3, <2>7
  <2>9. ReadMoney(r) = r
    <3>1. ReadMoney(r) = <<"-">> \o Only(WithoutSign(r), ToSet(r) \ Dressing)
      BY <2>4, MoneyCharacters, ReadMoneyIs
    <3> QED BY <2>1, <2>6, <2>8, <3>1
  <2>10. Only(r, MoneyDigits) = Only(d, MoneyDigits)
    <3>1. "-" \notin MoneyDigits
      BY MoneyCharacters
    <3> QED BY <1>7, <2>1, <2>2, <3>1, OnlyBehind
  <2> QED BY <1>7, <1>12, <2>4, <2>9, <2>10 DEF r
<1>13. CASE ~signed
  <2>1. r = d
    BY <1>8, <1>13
  <2>2. WithoutSign(r) = d /\ r[1] # "-" /\ r # <<>>
    BY <1>9, <1>10, <2>1 DEF WithoutSign
  <2>3. AllIn(d, ToSet(d))
    BY <1>10 DEF AllIn, ToSet
  <2>4. ReadMoney(r) = r
    <3>1. ReadMoney(r) = Only(WithoutSign(r), ToSet(r) \ Dressing)
      BY <1>10, <2>1, ReadMoneyIs
    <3> QED BY <1>10, <1>11, <2>1, <2>2, <2>3, <3>1
  <2> QED BY <1>3, <1>7, <1>13, <2>1, <2>2, <2>4 DEF r
<1> QED BY <1>12, <1>13

-----------------------------------------------------------------------------
(* The calls that read texts, and what the properties say of them. *)

IntegerCall(type, text) == [fn |-> "integer", type |-> type, text |-> text]
MoneyCall(text) == [fn |-> "money", text |-> text]

IntegerInv == call.fn = "integer" => \E type \in {"int2", "int8"}, text \in Literals10 :
    /\ call = IntegerCall(type, text)
    /\ outcome = {ReadResult(type, text)}
MoneyInv == call.fn = "money" => \E text \in Amounts :
    /\ call = MoneyCall(text)
    /\ outcome = {<<ReadMoney(text), ReadMoney(ReadMoney(text))>>}
BooleanCall(words) == [fn |-> "boolean", text |-> words]
BooleanInv == call.fn = "boolean" => \E words \in BooleanTexts :
    call = BooleanCall(words) /\ outcome = {PgBoolean_FromString(words)}
LiteralInv == IntegerInv /\ MoneyInv /\ BooleanInv

LEMMA OutcomesOfTexts == Spec => []LiteralInv
<1>1. Init => LiteralInv
  BY DEF Init, Idle, LiteralInv, IntegerInv, MoneyInv, BooleanInv
<1>2. ASSUME Next
      PROVE  IntegerInv'
  <2> SUFFICES ASSUME call'.fn = "integer"
               PROVE  IntegerInv'
    BY DEF IntegerInv
  <2>1. ReadInteger
    BY <1>2, FnOf
  <2>2. PICK type \in {"int2", "int8"}, text \in Literals10 :
            Returns([fn |-> "integer", type |-> type, text |-> text], {ReadResult(type, text)})
    BY ONLY <2>1, Zenon DEF ReadInteger, ReadResult
  <2> QED BY <2>2 DEF IntegerInv, IntegerCall, Returns
<1>3. ASSUME Next
      PROVE  MoneyInv'
  <2> SUFFICES ASSUME call'.fn = "money"
               PROVE  MoneyInv'
    BY DEF MoneyInv
  <2>1. ReadAmount
    BY <1>3, FnOf
  <2>2. PICK text \in Amounts :
            Returns([fn |-> "money", text |-> text], {<<ReadMoney(text), ReadMoney(ReadMoney(text))>>})
    BY ONLY <2>1, Zenon DEF ReadAmount
  <2> QED BY <2>2 DEF MoneyInv, MoneyCall, Returns
<1>5. ASSUME Next
      PROVE  BooleanInv'
  <2> SUFFICES ASSUME call'.fn = "boolean"
               PROVE  BooleanInv'
    BY DEF BooleanInv
  <2>1. ReadBoolean
    BY <1>5, FnOf
  <2>2. PICK words \in BooleanTexts :
            Returns([fn |-> "boolean", text |-> words], {PgBoolean_FromString(words)})
    BY ONLY <2>1, Zenon DEF ReadBoolean
  <2> QED BY <2>2 DEF BooleanInv, BooleanCall, Returns
<1>4. LiteralInv /\ [Next]_vars => LiteralInv'
  <2>1. CASE Next
    BY <1>2, <1>3, <1>5, <2>1 DEF LiteralInv
  <2>2. CASE UNCHANGED vars
    BY <2>2 DEF vars, LiteralInv, IntegerInv, MoneyInv, BooleanInv
  <2> QED BY <2>1, <2>2
<1> QED BY <1>1, <1>4, PTL DEF Spec

\* The words of both cases, and the table that makes capitals of them.
LEMMA WordsAre ==
    ASSUME NEW words
    PROVE  LET known == words # <<>> /\ words[1] \in Affirmed \cup Denied
           IN  /\ known => PgBoolean_FromString(words)
                              = Value("bool", IF words[1] \in Affirmed THEN 1 ELSE 0)
               /\ ~known => PgBoolean_FromString(words) = Raise("ValueError")
<1> DEFINE word == IF words = <<>> THEN ""
                   ELSE IF words[1] \in DOMAIN Upper THEN Upper[words[1]] ELSE words[1]
           Yes == {"1", "T", "TRUE", "Y", "YES", "ON"}
           No == {"0", "F", "FALSE", "N", "NO", "OFF"}
<1>1. PgBoolean_FromString(words) = CASE word \in Yes -> Value("bool", 1)
                                      [] word \in No -> Value("bool", 0)
                                      [] OTHER -> Raise("ValueError")
  BY DEF PgBoolean_FromString
<1>2. Yes \cap No = {} /\ Affirmed \cap Denied = {}
  BY DEF Affirmed, Denied
<1>3. DOMAIN Upper = {"t", "true", "f", "false", "y", "yes", "n", "no", "on", "off", "tru", "of"}
  BY DEF Upper
<1>4. ASSUME NEW w
      PROVE  LET c == IF w \in DOMAIN Upper THEN Upper[w] ELSE w
             IN (c \in Yes <=> w \in Affirmed) /\ (c \in No <=> w \in Denied)
  <2>1. CASE w \in DOMAIN Upper
    BY <1>3, <2>1 DEF Upper, Affirmed, Denied
  <2>2. CASE w \notin DOMAIN Upper
    BY <1>3, <2>2 DEF Affirmed, Denied
  <2> QED BY <2>1, <2>2
<1>5. CASE words = <<>>
  <2>1. word \notin Yes /\ word \notin No
    BY <1>5
  <2> HIDE DEF Yes, No, word
  <2> QED BY <1>1, <1>5, <2>1
<1>6. CASE words # <<>>
  <2>1. (word \in Yes <=> words[1] \in Affirmed) /\ (word \in No <=> words[1] \in Denied)
    BY <1>4, <1>6
  <2> HIDE DEF Yes, No, word
  <2> QED BY <1>1, <1>2, <1>6, <2>1
<1> QED BY <1>5, <1>6

\* Every text of an integer or of a boolean is read as that value or refused,
\* and every amount of money keeps its sign and its digits and can be read
\* again, whatever the texts that the server sends.
THEOREM LiteralsAreExact == Spec => []LiteralsExact
<1>1. ASSUME LiteralInv
      PROVE  LiteralsExact
  <2>1. ASSUME NEW o \in outcome, call.fn = "integer"
        PROVE  IF IsInteger(call.text)
                  /\ Fits(IF call.type = "int2" THEN SHORT_BIT ELSE LONG_LONG_BIT, Denoted(call.text))
               THEN o = Value(call.type, Denoted(call.text))
               ELSE o.type = "ValueError"
    <3>1. PICK type \in {"int2", "int8"}, text \in Literals10 :
              call = IntegerCall(type, text) /\ outcome = {ReadResult(type, text)}
      BY <1>1, <2>1 DEF LiteralInv, IntegerInv
    <3>2. /\ call.type = type /\ call.text = text /\ o = ReadResult(type, text)
          /\ text \in Seq(STRING) /\ type \in {"int2", "int8"}
      BY <2>1, <3>1, ValuesAssumption DEF IntegerCall
    <3>3. ReadResult(type, text) = IF IsInteger(text) /\ Fits(Width(type), Denoted(text))
                                   THEN Value(type, Denoted(text)) ELSE Raise("ValueError")
      BY <3>2, FromStringIs
    <3>4. Raise("ValueError").type = "ValueError"
      BY DEF Raise
    <3> QED BY <3>2, <3>3, <3>4, Zenon DEF Width
  <2>2. ASSUME NEW o \in outcome, call.fn = "money"
        PROVE  /\ o[2] = o[1]
               /\ o[1] # <<>> /\ (o[1][1] = "-") = (call.text[1] \in {"-", "("})
               /\ Only(o[1], Digits \cup {"."}) = Only(call.text, Digits \cup {"."})
    <3>1. PICK text \in Amounts :
              call = MoneyCall(text) /\ outcome = {<<ReadMoney(text), ReadMoney(ReadMoney(text))>>}
      BY <1>1, <2>2 DEF LiteralInv, MoneyInv
    <3> DEFINE r == ReadMoney(text)
    <3>2. text \in MoneyTexts /\ call.text = text
      BY <3>1, ValuesAssumption DEF MoneyCall
    <3>3. /\ ReadMoney(r) = r /\ r # <<>>
          /\ (r[1] = "-") <=> text[1] \in Negatives
          /\ Only(r, MoneyDigits) = Only(text, MoneyDigits)
      BY <3>2, AmountIs
    <3> HIDE DEF r
    <3>4. o = <<r, ReadMoney(r)>>
      BY <2>2, <3>1 DEF r
    <3>5. o[1] = r /\ o[2] = ReadMoney(r)
      BY <3>4
    <3>6. (r[1] = "-") = (text[1] \in Negatives)
      BY <3>3
    <3> QED BY <3>2, <3>3, <3>5, <3>6, Zenon DEF MoneyDigits, Negatives
  <2>3. ASSUME NEW o \in outcome, call.fn = "boolean"
        PROVE  IF call.text # <<>> /\ call.text[1] \in Affirmed \cup Denied
               THEN o = Value("bool", IF call.text[1] \in Affirmed THEN 1 ELSE 0)
               ELSE o.type = "ValueError"
    <3>1. PICK words \in BooleanTexts :
              call = BooleanCall(words) /\ outcome = {PgBoolean_FromString(words)}
      BY <1>1, <2>3 DEF LiteralInv, BooleanInv
    <3>2. call.text = words /\ o = PgBoolean_FromString(words)
      BY <2>3, <3>1 DEF BooleanCall
    <3>3. Raise("ValueError").type = "ValueError"
      BY DEF Raise
    <3> QED BY <3>2, <3>3, WordsAre
  <2> QED BY <2>1, <2>2, <2>3 DEF LiteralsExact
<1> QED BY <1>1, OutcomesOfTexts, PTL

-----------------------------------------------------------------------------
(* Powers of any integer, and congruence.  With the modulus 0 it is equality. *)

LEMMA Powers ==
    ASSUME NEW b \in Int
    PROVE  /\ Pow(b, 0) = 1 /\ Pow(b, 1) = b
           /\ \A n \in Nat : Pow(b, n) \in Int /\ Pow(b, n + 1) = b * Pow(b, n)
<1>1. Pow(b, 0) = 1 /\ \A n \in Nat : Pow(b, n + 1) = b * Pow(b, n)
  BY PowIs
<1> DEFINE Holds == {k \in Nat : Pow(b, k) \in Int}
<1>2. 0 \in Holds
  BY <1>1
<1>3. ASSUME NEW n \in Nat
      PROVE  n \in Holds
  <2>1. ASSUME NEW k \in 1 .. n, k - 1 \in Holds
        PROVE  k \in Holds
    <3>1. k - 1 \in Nat /\ (k - 1) + 1 = k /\ k \in Nat
      OBVIOUS
    <3>2. Pow(b, k) = b * Pow(b, k - 1) /\ Pow(b, k - 1) \in Int
      BY <1>1, <2>1, <3>1
    <3> QED BY <3>1, <3>2
  <2>2. \A k \in 0 .. n : k \in Holds
    <3> HIDE DEF Holds
    <3> QED BY <1>2, <2>1, Climb
  <2> QED BY <2>2
<1>4. Pow(b, 1) = b
  <2>1. Pow(b, 0 + 1) = b * Pow(b, 0) /\ 0 + 1 = 1
    BY <1>1
  <2> QED BY <1>1, <2>1
<1> QED BY <1>1, <1>3, <1>4

LEMMA PowSquare ==
    ASSUME NEW b \in Int, NEW n \in Nat
    PROVE  Pow(b, 2 * n) = Pow(b * b, n)
<1> DEFINE Holds == {k \in Nat : Pow(b, 2 * k) = Pow(b * b, k)}
<1>0. b * b \in Int
  BY Product
<1>1. 0 \in Holds
  BY <1>0, Powers
<1>2. ASSUME NEW k \in 1 .. n, k - 1 \in Holds
      PROVE  k \in Holds
  <2> DEFINE j == k - 1
  <2>1. j \in Nat /\ j + 1 = k /\ 2 * j \in Nat /\ 2 * j + 1 \in Nat /\ (2 * j + 1) + 1 = 2 * k
        /\ k \in Nat
    OBVIOUS
  <2>2. Pow(b, 2 * j) = Pow(b * b, j)
    BY <1>2
  <2> HIDE DEF j
  <2>3. Pow(b, 2 * k) = b * Pow(b, 2 * j + 1) /\ Pow(b, 2 * j + 1) = b * Pow(b, 2 * j)
    <3>1. Pow(b, (2 * j + 1) + 1) = b * Pow(b, 2 * j + 1)
      BY <2>1, Powers
    <3>2. Pow(b, 2 * j + 1) = b * Pow(b, 2 * j)
      BY <2>1, Powers
    <3> QED BY <2>1, <3>1, <3>2
  <2>4. Pow(b * b, k) = (b * b) * Pow(b * b, j) /\ Pow(b * b, j) \in Int
    BY <1>0, <2>1, Powers
  <2> DEFINE p == Pow(b * b, j)
  <2>5. b * (b * p) = (b * b) * p
    <3> HIDE DEF p
    <3>1. p \in Int
      BY <2>4 DEF p
    <3> QED BY <3>1
  <2> QED BY <2>1, <2>2, <2>3, <2>4, <2>5
<1> HIDE DEF Holds
<1>3. n \in Holds
  <2>1. \A k \in 0 .. n : k \in Holds
    BY <1>1, <1>2, Climb
  <2> QED BY <2>1
<1> QED BY <1>3 DEF Holds

Congruent(a, b, m) == \E q \in Int : a = b + m * q

LEMMA CongruentIs ==
    ASSUME NEW m \in Int
    PROVE  /\ \A a \in Int : Congruent(a, a, m)
           /\ \A a, b, c \in Int : Congruent(a, b, m) /\ Congruent(b, c, m) => Congruent(a, c, m)
           /\ \A a, b \in Int : Congruent(a, b, m) => Congruent(b, a, m)
<1>1. ASSUME NEW a \in Int
      PROVE  Congruent(a, a, m)
  <2>1. a = a + m * 0 /\ 0 \in Int
    OBVIOUS
  <2> QED BY <2>1, Zenon DEF Congruent
<1>2. ASSUME NEW a \in Int, NEW b \in Int, NEW c \in Int, Congruent(a, b, m), Congruent(b, c, m)
      PROVE  Congruent(a, c, m)
  <2>1. PICK p \in Int : a = b + m * p
    BY <1>2 DEF Congruent
  <2>2. PICK q \in Int : b = c + m * q
    BY <1>2 DEF Congruent
  <2>3. a = c + m * (p + q) /\ p + q \in Int
    BY <2>1, <2>2
  <2> QED BY <2>3, Zenon DEF Congruent
<1>3. ASSUME NEW a \in Int, NEW b \in Int, Congruent(a, b, m)
      PROVE  Congruent(b, a, m)
  <2>1. PICK p \in Int : a = b + m * p
    BY <1>3 DEF Congruent
  <2>2. b = a + m * (-p) /\ -p \in Int
    BY <2>1
  <2> QED BY <2>2, Zenon DEF Congruent
<1> QED BY <1>1, <1>2, <1>3

LEMMA CongruentProduct ==
    ASSUME NEW m \in Int, NEW a \in Int, NEW b \in Int, NEW c \in Int, NEW d \in Int,
           Congruent(a, b, m), Congruent(c, d, m)
    PROVE  Congruent(a * c, b * d, m)
<1>1. PICK p \in Int : a = b + m * p
  BY DEF Congruent
<1>2. PICK q \in Int : c = d + m * q
  BY DEF Congruent
<1>3. a * c = b * d + m * (b * q + p * c) /\ b * q + p * c \in Int
  <2>1. a * c = b * c + (m * p) * c
    BY <1>1, Distr
  <2>2. b * c = b * d + b * (m * q)
    BY <1>2
  <2>3. m * (b * q + p * c) = b * (m * q) + (m * p) * c
    OBVIOUS
  <2> QED BY <2>1, <2>2, <2>3
<1> QED BY <1>3, Zenon DEF Congruent

LEMMA CongruentPower ==
    ASSUME NEW m \in Int, NEW a \in Int, NEW b \in Int, Congruent(a, b, m), NEW n \in Nat
    PROVE  Congruent(Pow(a, n), Pow(b, n), m)
<1> DEFINE Holds == {k \in Nat : Congruent(Pow(a, k), Pow(b, k), m)}
<1>1. 0 \in Holds
  BY Powers, CongruentIs
<1>2. ASSUME NEW k \in 1 .. n, k - 1 \in Holds
      PROVE  k \in Holds
  <2>1. k - 1 \in Nat /\ (k - 1) + 1 = k /\ k \in Nat
    OBVIOUS
  <2>2. /\ Pow(a, k) = a * Pow(a, k - 1) /\ Pow(a, k - 1) \in Int
        /\ Pow(b, k) = b * Pow(b, k - 1) /\ Pow(b, k - 1) \in Int
    <3>1. \A x \in Int : Pow(x, k - 1) \in Int /\ Pow(x, (k - 1) + 1) = x * Pow(x, k - 1)
      BY <2>1, Powers
    <3> QED BY <2>1, <3>1
  <2>3. Congruent(Pow(a, k - 1), Pow(b, k - 1), m)
    BY <1>2
  <2>4. Congruent(a * Pow(a, k - 1), b * Pow(b, k - 1), m)
    BY <2>2, <2>3, CongruentProduct
  <2> QED BY <2>1, <2>2, <2>4
<1> HIDE DEF Holds
<1>3. n \in Holds
  <2>1. \A k \in 0 .. n : k \in Holds
    BY <1>1, <1>2, Climb
  <2> QED BY <2>1
<1> QED BY <1>3 DEF Holds

\* A remainder, of C or of Python, is congruent to what it is the remainder of,
\* and smaller than the divisor.
LEMMA ReducedIs ==
    ASSUME NEW n \in Int, NEW iz \in Int
    PROVE  /\ Reduced(n, iz) \in Int /\ Congruent(Reduced(n, iz), n, iz)
           /\ iz = 0 => Reduced(n, iz) = n
           /\ iz # 0 => Magnitude(Reduced(n, iz)) < Magnitude(iz)
           /\ Magnitude(Reduced(n, iz)) <= Magnitude(n)
           /\ n < 0 => n <= Reduced(n, iz) /\ Reduced(n, iz) <= 0
           /\ n >= 0 => 0 <= Reduced(n, iz) /\ Reduced(n, iz) <= n
<1>1. CASE iz = 0
  <2>1. Reduced(n, iz) = n /\ Congruent(n, n, iz)
    BY <1>1, CongruentIs DEF Reduced
  <2>2. Magnitude(n) <= Magnitude(n)
    BY DEF Magnitude
  <2> QED BY <1>1, <2>1, <2>2
<1>2. CASE iz # 0
  <2> DEFINE A == Magnitude(n)
             B == Magnitude(iz)
             t == A \div B
             q == Quotient(n, iz)
             r == Reduced(n, iz)
  <2>1. A \in Nat /\ A = (IF n < 0 THEN -n ELSE n) /\ B \in Nat \ {0} /\ B = (IF iz < 0 THEN -iz ELSE iz)
    BY <1>2 DEF Magnitude
  <2>2. q = IF (n < 0) = (iz < 0) THEN t ELSE -t
    BY DEF Quotient
  <2>3. r = n - iz * q
    BY <1>2 DEF Reduced, Remainder
  <2>4. t \in Int /\ B * t <= A /\ A < B * t + B
    <3> HIDE DEF A, B
    <3>1. A \in Int /\ B \in Nat \ {0}
      BY <2>1
    <3> QED BY <3>1, DivIs
  <2>5. Magnitude(r) = IF r < 0 THEN -r ELSE r
    BY DEF Magnitude
  <2>6. Magnitude(n) = A /\ Magnitude(iz) = B
    OBVIOUS
  <2> HIDE DEF A, B, t, q, r
  <2>7. q \in Int /\ iz * q \in Int
    BY <2>2, <2>4
  <2>8. iz * q = IF n < 0 THEN -(B * t) ELSE B * t
    BY <2>1, <2>2, <2>4
  <2>9. 0 <= B * t
    <3> SUFFICES ASSUME t + 1 <= 0
                 PROVE  FALSE
      BY <2>1, <2>4
    <3>1. (t + 1) * B <= 0 * B
      BY <2>1, <2>4, Mono
    <3>2. (t + 1) * B = B * t + B
      BY <2>1, <2>4
    <3> QED BY <2>1, <2>4, <3>1, <3>2
  <2> DEFINE x == B * t
  <2>10. x \in Int /\ 0 <= x /\ x <= A /\ A < x + B /\ r = IF n < 0 THEN n + x ELSE n - x
    BY <2>1, <2>3, <2>4, <2>8, <2>9
  <2> HIDE DEF x
  <2>11. /\ r \in Int /\ Magnitude(r) < B /\ Magnitude(r) <= A
         /\ n < 0 => n <= r /\ r <= 0
         /\ n >= 0 => 0 <= r /\ r <= n
    BY <2>1, <2>5, <2>10
  <2>12. Congruent(r, n, iz)
    <3>1. r = n + iz * (-q) /\ -q \in Int
      BY <2>3, <2>7
    <3> QED BY <3>1, Zenon DEF Congruent
  <2> QED BY <1>2, <2>6, <2>11, <2>12 DEF r
<1> QED BY <1>1, <1>2

\* The test that divides a product again tells exactly when it was lost.
LEMMA LostIsOverflow ==
    ASSUME NEW w \in Nat \ {0}, NEW a \in MachineInt(w), NEW b \in MachineInt(w)
    PROVE  /\ LostIn(a, b, Wrap(w, a * b)) <=> ~Fits(w, a * b)
           /\ Fits(w, a * b) => Wrap(w, a * b) = a * b
           /\ Wrap(w, a * b) \in MachineInt(w)
<1> DEFINE m == Pow(2, w - 1)
           n == a * b
           p == Wrap(w, n)
           q == Quotient(p, b)
           r == Reduced(p, b)
<1>1. /\ m \in Nat \ {0} /\ Pow(2, w) = 2 * m
      /\ a \in Int /\ b \in Int /\ -m <= b /\ b < m /\ n \in Int
      /\ Fits(w, n) <=> -m <= n /\ n < m
      /\ p \in Int /\ p \in MachineInt(w) /\ -m <= p /\ p < m
  <2>1. a \in Int /\ b \in Int
    BY WidthIs
  <2>2. n \in Int
    BY <2>1, Product
  <2> HIDE DEF n
  <2>3. p \in MachineInt(w)
    BY <2>2, WrapFits
  <2> HIDE DEF p
  <2> QED BY <2>1, <2>2, <2>3, WidthIs DEF Fits
<1>2. Fits(w, n) => p = n
  <2> HIDE DEF n
  <2> QED BY <1>1, WrapIs
<1>3. \E k \in Int : p = n + (2 * m) * k
  <2> HIDE DEF n
  <2> QED BY <1>1, WrapFits
<1>4. CASE b = 0
  <2>1. n = 0
    BY <1>1, <1>4
  <2> HIDE DEF n, m
  <2>2. Fits(w, n)
    BY <1>1, <2>1
  <2> QED BY <1>1, <1>2, <1>4, <2>2 DEF LostIn, n
<1>5. CASE b # 0
  <2>1. r = p - b * q
    BY <1>5 DEF Reduced, Remainder
  <2>2. r \in Int /\ Magnitude(r) < Magnitude(b)
    <3> HIDE DEF p
    <3> QED BY <1>1, <1>5, ReducedIs
  <2>3. Magnitude(r) = (IF r < 0 THEN -r ELSE r) /\ Magnitude(b) = (IF b < 0 THEN -b ELSE b)
    BY DEF Magnitude
  <2>4. q \in Int
    <3>1. \A x \in Int : Magnitude(x) \in Int /\ (x # 0 => Magnitude(x) \in Nat \ {0})
      BY DEF Magnitude
    <3>2. Magnitude(p) \in Int /\ Magnitude(b) \in Nat \ {0}
      BY <1>1, <1>5, <3>1
    <3>3. Magnitude(p) \div Magnitude(b) \in Int
      BY <3>2, DivIs
    <3> HIDE DEF p
    <3> QED BY <3>3 DEF Quotient
  <2>5. LostIn(a, b, p) <=> q # a
    BY <1>5 DEF LostIn
  <2> HIDE DEF r, q, p
  <2>6. CASE Fits(w, n)
    <3>1. r = b * (a - q) /\ a - q \in Int
      BY <1>1, <1>2, <2>1, <2>4, <2>6
    <3> DEFINE d == a - q
    <3>2. d \in Int /\ r = b * d
      BY <3>1
    <3> HIDE DEF d, n
    <3>3. d = 0
      <4> DEFINE B == IF b < 0 THEN -b ELSE b
      <4>1. B \in Nat \ {0}
        BY <1>1, <1>5
      <4>2. ASSUME d > 0
            PROVE  FALSE
        <5>1. 1 * B <= d * B
          BY <3>2, <4>1, <4>2, Mono
        <5>2. b < 0 => r = -(d * B)
          BY <1>1, <3>2
        <5>3. ~(b < 0) => r = d * B
          BY <1>1, <3>2
        <5> DEFINE x == d * B
        <5>4. x \in Int /\ B <= x
          BY <3>2, <4>1, <5>1
        <5> HIDE DEF x
        <5> QED BY <1>1, <2>2, <2>3, <4>1, <5>2, <5>3, <5>4 DEF x
      <4>3. ASSUME d < 0
            PROVE  FALSE
        <5>1. d * B <= (-1) * B
          BY <3>2, <4>1, <4>3, Mono
        <5>2. b < 0 => r = -(d * B)
          BY <1>1, <3>2
        <5>3. ~(b < 0) => r = d * B
          BY <1>1, <3>2
        <5> DEFINE x == d * B
        <5>4. x \in Int /\ x <= -B
          BY <3>2, <4>1, <5>1
        <5> HIDE DEF x
        <5> QED BY <1>1, <2>2, <2>3, <4>1, <5>2, <5>3, <5>4 DEF x
      <4> QED BY <3>2, <4>2, <4>3
    <3>4. q = a
      BY <1>1, <2>4, <3>3 DEF d
    <3> QED BY <1>1, <1>2, <2>5, <2>6, <3>4 DEF p, n
  <2>7. CASE ~Fits(w, n)
    <3>1. q # a
      <4> SUFFICES ASSUME q = a
                   PROVE  FALSE
        OBVIOUS
      <4>1. b * q = n
        BY <1>1
      <4>2. r = p - n
        BY <1>1, <2>1, <4>1
      <4>3. PICK k \in Int : p = n + (2 * m) * k
        BY <1>3
      <4> HIDE DEF n, m
      <4>4. k # 0
        BY <1>1, <2>7, <4>3
      <4>5. r = (2 * m) * k
        BY <1>1, <4>2, <4>3
      <4>6. ASSUME k > 0
            PROVE  FALSE
        <5>1. 1 * m <= k * m
          BY <1>1, <4>6, Mono
        <5>2. r = 2 * (k * m) /\ k * m \in Int
          BY <1>1, <4>5
        <5> QED BY <1>1, <2>2, <2>3, <5>1, <5>2
      <4>7. ASSUME k < 0
            PROVE  FALSE
        <5>1. k * m <= (-1) * m
          BY <1>1, <4>7, Mono
        <5>2. r = 2 * (k * m) /\ k * m \in Int
          BY <1>1, <4>5
        <5> QED BY <1>1, <2>2, <2>3, <5>1, <5>2
      <4> QED BY <4>4, <4>6, <4>7
    <3> QED BY <1>1, <2>5, <2>7, <3>1 DEF p, n
  <2> QED BY <2>6, <2>7
<1> QED BY <1>4, <1>5

-----------------------------------------------------------------------------
(* The loop of pow. *)

LoopState(w) == [temp : MachineInt(w), iw : Nat, ix : MachineInt(w), ok : BOOLEAN]

LEMMA ReducedFits ==
    ASSUME NEW w \in Nat \ {0}, NEW n \in MachineInt(w), NEW iz \in Int
    PROVE  Reduced(n, iz) \in MachineInt(w)
<1> DEFINE m == Pow(2, w - 1)
           r == Reduced(n, iz)
<1>1. m \in Nat \ {0} /\ n \in Int /\ -m <= n /\ n < m
  BY WidthIs
<1>2. /\ r \in Int
      /\ n < 0 => n <= r /\ r <= 0
      /\ n >= 0 => 0 <= r /\ r <= n
  BY <1>1, ReducedIs
<1> HIDE DEF r, m
<1>3. r \in Int /\ -m <= r /\ r < m
  BY <1>1, <1>2
<1> QED BY <1>3, WidthIs DEF r, m

\* What is multiplied into the result in one turn, and the turn's four outcomes.
Odd(st) == st.iw % 2 = 1
Multiplied(st) == IF Odd(st) THEN st.ix * st.temp ELSE st.ix
Stops(st) == st.iw = 1 \/ (Odd(st) /\ st.temp = 0)

TurnOutcome(w, st, iz, t) ==
    \/ st.iw = 0 /\ t = st
    \/ /\ st.iw # 0 /\ t.iw = 0 /\ ~t.ok /\ t.ix = st.ix /\ t.temp = st.temp
       /\ \/ Odd(st) /\ ~Fits(w, st.ix * st.temp)
          \/ ~Stops(st) /\ Fits(w, Multiplied(st)) /\ ~Fits(w, st.temp * st.temp)
    \/ /\ st.iw # 0 /\ Stops(st) /\ Fits(w, Multiplied(st))
       /\ t.iw = 0 /\ t.ok = st.ok /\ t.ix = Multiplied(st) /\ t.temp = st.temp
    \/ /\ st.iw # 0 /\ ~Stops(st) /\ Fits(w, Multiplied(st)) /\ Fits(w, st.temp * st.temp)
       /\ t.iw = st.iw \div 2 /\ t.ok = st.ok
       /\ t.ix = Reduced(Multiplied(st), iz) /\ t.temp = Reduced(st.temp * st.temp, iz)

LEMMA TurnIs ==
    ASSUME NEW w \in Nat \ {0}, NEW st \in LoopState(w), NEW iz \in Int
    PROVE  TurnOutcome(w, st, iz, PowTurn(w, st, iz)) /\ PowTurn(w, st, iz) \in LoopState(w)
<1> DEFINE odd == st.iw % 2 = 1
           product == IF odd THEN Wrap(w, st.ix * st.temp) ELSE st.ix
           square == Wrap(w, st.temp * st.temp)
           lost == odd /\ LostIn(st.ix, st.temp, product)
           t == PowTurn(w, st, iz)
           multiplied == Multiplied(st)
           squared == st.temp * st.temp
<1>1. /\ st.temp \in MachineInt(w) /\ st.ix \in MachineInt(w) /\ st.iw \in Nat /\ st.ok \in BOOLEAN
      /\ DOMAIN st = {"temp", "iw", "ix", "ok"}
  BY DEF LoopState
<1>2. t = CASE st.iw = 0 -> st
            [] st.iw # 0 /\ lost -> [st EXCEPT !.iw = 0, !.ok = FALSE]
            [] OTHER ->
               IF st.iw = 1 \/ (odd /\ st.temp = 0) THEN [st EXCEPT !.iw = 0, !.ix = product]
               ELSE IF LostIn(st.temp, st.temp, square) THEN [st EXCEPT !.iw = 0, !.ok = FALSE]
               ELSE [st EXCEPT !.iw = @ \div 2, !.ix = Reduced(product, iz), !.temp = Reduced(square, iz)]
  BY DEF PowTurn
<1>3. Odd(st) <=> odd
  BY DEF Odd
<1>4. lost <=> odd /\ ~Fits(w, st.ix * st.temp)
  BY <1>1, LostIsOverflow
<1>5. ~lost => product = multiplied /\ product \in MachineInt(w) /\ Fits(w, multiplied)
  <2>1. CASE odd
    BY <1>1, <1>3, <1>4, <2>1, LostIsOverflow DEF Multiplied
  <2>2. CASE ~odd
    BY <1>1, <1>3, <2>2 DEF Multiplied, Fits
  <2> QED BY <2>1, <2>2
<1>6. /\ LostIn(st.temp, st.temp, square) <=> ~Fits(w, squared)
      /\ Fits(w, squared) => square = squared
      /\ square \in MachineInt(w)
  BY <1>1, LostIsOverflow
<1>7. Stops(st) <=> st.iw = 1 \/ (odd /\ st.temp = 0)
  BY <1>3 DEF Stops
<1>8. st.iw \div 2 \in Nat
  BY <1>1
<1>9. 0 \in Nat
  OBVIOUS
<1> DEFINE gone == LostIn(st.temp, st.temp, square)
<1> HIDE DEF odd, product, square, lost, multiplied, squared, t, gone
<1>10. CASE st.iw = 0
  <2>1. t = st
    BY <1>2, <1>10
  <2> QED BY <1>10, <2>1 DEF TurnOutcome, t
<1>11. CASE st.iw # 0 /\ lost
  <2>1. t = [st EXCEPT !.iw = 0, !.ok = FALSE]
    BY <1>2, <1>11
  <2>2. t.iw = 0 /\ t.ok = FALSE /\ t.ix = st.ix /\ t.temp = st.temp
    BY <1>1, <2>1
  <2>3. t \in LoopState(w)
    BY <1>1, <2>1 DEF LoopState
  <2> QED BY <1>3, <1>4, <1>11, <2>2, <2>3 DEF TurnOutcome, t
<1>12. CASE st.iw # 0 /\ ~lost /\ Stops(st)
  <2>1. t = [st EXCEPT !.iw = 0, !.ix = product]
    BY <1>2, <1>7, <1>12
  <2>2. t.iw = 0 /\ t.ok = st.ok /\ t.ix = product /\ t.temp = st.temp
    BY <1>1, <2>1
  <2>3. t \in LoopState(w)
    BY <1>1, <1>5, <1>12, <2>1 DEF LoopState
  <2> QED BY <1>5, <1>12, <2>2, <2>3 DEF TurnOutcome, t, multiplied
<1>13. CASE st.iw # 0 /\ ~lost /\ ~Stops(st) /\ gone
  <2>1. t = [st EXCEPT !.iw = 0, !.ok = FALSE]
    BY <1>2, <1>7, <1>13 DEF gone
  <2>2. t.iw = 0 /\ t.ok = FALSE /\ t.ix = st.ix /\ t.temp = st.temp
    BY <1>1, <2>1
  <2>3. t \in LoopState(w)
    BY <1>1, <2>1 DEF LoopState
  <2> QED BY <1>5, <1>6, <1>13, <2>2, <2>3 DEF TurnOutcome, t, multiplied, squared, gone
<1>14. CASE st.iw # 0 /\ ~lost /\ ~Stops(st) /\ ~gone
  <2>1. t = [st EXCEPT !.iw = st.iw \div 2, !.ix = Reduced(product, iz), !.temp = Reduced(square, iz)]
    BY <1>2, <1>7, <1>14 DEF gone
  <2>2. Reduced(product, iz) \in MachineInt(w) /\ Reduced(square, iz) \in MachineInt(w)
    BY <1>5, <1>6, <1>14, ReducedFits
  <2>3. /\ t.iw = st.iw \div 2 /\ t.ok = st.ok
        /\ t.ix = Reduced(product, iz) /\ t.temp = Reduced(square, iz)
    BY <1>1, <2>1
  <2>4. t \in LoopState(w)
    BY <1>1, <1>8, <2>1, <2>2 DEF LoopState
  <2> QED BY <1>5, <1>6, <1>14, <2>3, <2>4 DEF TurnOutcome, t, multiplied, squared, gone
<1> QED BY <1>10, <1>11, <1>12, <1>13, <1>14

FirstTurn(iv, n) == [temp |-> iv, iw |-> n, ix |-> 1, ok |-> TRUE]
IsLoop(w, iv, n, iz, turn) ==
    /\ turn[0] = FirstTurn(iv, n)
    /\ \A k \in 1 .. n : turn[k] = PowTurn(w, turn[k - 1], iz)
    /\ \A k \in 0 .. n : turn[k] \in LoopState(w)

LEMMA LoopIs ==
    ASSUME NEW w \in Nat \ {0, 1}, NEW iv \in MachineInt(w), NEW n \in Nat, NEW iz \in Int
    PROVE  \E turn : IsLoop(w, iv, n, iz, turn) /\ PowLoop(w, iv, n, iz) = turn[n]
<1> DEFINE first == FirstTurn(iv, n)
           T == LoopState(w)
           loop == CHOOSE f : f = [k \in 0 .. n |-> IF k = 0 THEN first ELSE PowTurn(w, f[k - 1], iz)]
           g == [p \in T \X (1 .. n) |-> PowTurn(w, p[1], iz)]
<1>1. PowLoop(w, iv, n, iz) = loop[n]
  BY DEF PowLoop, FirstTurn
<1>2. w \in Nat \ {0} /\ first \in T
  <2>1. 1 \in MachineInt(w)
    <3>1. w - 2 \in Nat /\ (w - 2) + 1 = w - 1 /\ w \in Nat \ {0}
      OBVIOUS
    <3>2. Pow(2, w - 1) = 2 * Pow(2, w - 2) /\ Pow(2, w - 2) \in Nat \ {0}
      <4>1. Pow(2, (w - 2) + 1) = 2 * Pow(2, w - 2) /\ Pow(2, w - 2) \in Nat \ {0}
        BY <3>1, Pow2
      <4> QED BY <3>1, <4>1
    <3>3. -Pow(2, w - 1) <= 1 /\ 1 < Pow(2, w - 1)
      BY <3>2
    <3> QED BY <3>1, <3>3, WidthIs
  <2> QED BY <2>1 DEF FirstTurn, LoopState
<1> HIDE DEF T
<1>3. \A s \in T : PowTurn(w, s, iz) \in T
  BY <1>2, TurnIs DEF T
<1>4. g \in [T \X (1 .. n) -> T]
  BY <1>3
<1>5. PICK f \in [0 .. n -> T] : IsRecursion(f, n, first, g)
  <2> HIDE DEF g, first
  <2> QED BY <1>2, <1>4, RecursiveExists
<1>6. ASSUME NEW k \in 1 .. n
      PROVE  g[<<f[k - 1], k>>] = PowTurn(w, f[k - 1], iz)
  <2>1. k - 1 \in 0 .. n
    OBVIOUS
  <2>2. <<f[k - 1], k>> \in T \X (1 .. n)
    BY <1>5, <2>1
  <2> QED BY <2>2
<1> HIDE DEF g, first
<1>7. f = [k \in 0 .. n |-> IF k = 0 THEN first ELSE PowTurn(w, f[k - 1], iz)]
  <2> DEFINE v(k) == IF k = 0 THEN first ELSE PowTurn(w, f[k - 1], iz)
  <2>1. \A k \in 0 .. n : f[k] = v(k)
    <3>1. \A k \in 0 .. n : k = 0 \/ k \in 1 .. n
      OBVIOUS
    <3> QED BY <1>5, <1>6, <3>1 DEF IsRecursion
  <2>2. f = [k \in 0 .. n |-> f[k]]
    BY <1>5
  <2> HIDE DEF v
  <2>3. f = [k \in 0 .. n |-> v(k)]
    BY <2>1, <2>2
  <2> QED BY <2>3 DEF v
<1>8. loop = [k \in 0 .. n |-> IF k = 0 THEN first ELSE PowTurn(w, loop[k - 1], iz)]
  BY <1>7
<1> HIDE DEF loop
<1>9. loop[0] = first /\ \A k \in 1 .. n : loop[k] = PowTurn(w, loop[k - 1], iz)
  <2>1. \A k \in 0 .. n : loop[k] = IF k = 0 THEN first ELSE PowTurn(w, loop[k - 1], iz)
    BY <1>8
  <2>2. 0 \in 0 .. n /\ \A k \in 1 .. n : k \in 0 .. n /\ k # 0
    OBVIOUS
  <2> QED BY <2>1, <2>2, Zenon
<1> DEFINE Holds == {k \in Nat : loop[k] \in T}
<1>10. 0 \in Holds
  BY <1>2, <1>9
<1>11. ASSUME NEW k \in 1 .. n, k - 1 \in Holds
       PROVE  k \in Holds
  <2>1. k \in Nat
    OBVIOUS
  <2> QED BY <1>3, <1>9, <1>11, <2>1
<1> HIDE DEF Holds
<1>12. \A k \in 0 .. n : k \in Holds
  BY <1>10, <1>11, Climb
<1>13. \A k \in 0 .. n : loop[k] \in T
  BY <1>12 DEF Holds
<1> QED BY <1>1, <1>9, <1>13 DEF IsLoop, first, T

\* An invariant of the turns holds at the end: Good is the set of the states that
\* have it.  And the exponent is used up by then.
LEMMA LoopKeeps ==
    ASSUME NEW w \in Nat \ {0, 1}, NEW iv \in MachineInt(w), NEW n \in Nat, NEW iz \in Int,
           NEW Keeps, FirstTurn(iv, n) \in Keeps,
           \A st \in LoopState(w), t \in LoopState(w) :
               st \in Keeps /\ TurnOutcome(w, st, iz, t) => t \in Keeps
    PROVE  /\ PowLoop(w, iv, n, iz) \in LoopState(w) /\ PowLoop(w, iv, n, iz).iw = 0
           /\ PowLoop(w, iv, n, iz) \in Keeps
<1>1. PICK turn : IsLoop(w, iv, n, iz, turn) /\ PowLoop(w, iv, n, iz) = turn[n]
  BY LoopIs
<1> DEFINE Holds == {k \in Nat : turn[k] \in Keeps /\ turn[k].iw <= n - k}
<1>2. 0 \in Holds
  BY <1>1 DEF IsLoop, FirstTurn
<1>3. ASSUME NEW k \in 1 .. n, k - 1 \in Holds
      PROVE  k \in Holds
  <2>1. k - 1 \in 0 .. n /\ k \in 0 .. n /\ k \in Nat /\ n - (k - 1) = (n - k) + 1 /\ n - k \in Nat
    OBVIOUS
  <2> DEFINE st == turn[k - 1]
             t == turn[k]
  <2>2. st \in LoopState(w) /\ t \in LoopState(w) /\ t = PowTurn(w, st, iz)
    BY <1>1, <2>1 DEF IsLoop
  <2>3. st \in Keeps /\ st.iw <= (n - k) + 1
    BY <1>3, <2>1
  <2> HIDE DEF st, t
  <2>4. TurnOutcome(w, st, iz, t)
    <3>1. w \in Nat \ {0}
      OBVIOUS
    <3> QED BY <2>2, <3>1, TurnIs
  <2>5. t \in Keeps
    BY <2>2, <2>3, <2>4
  <2>6. t.iw <= n - k
    <3>1. st.iw \in Nat
      BY <2>2 DEF LoopState
    <3>2. st.iw # 0 => st.iw \div 2 <= st.iw - 1
      BY <3>1
    <3>3. t.iw = 0 \/ (st.iw # 0 /\ t.iw = st.iw \div 2) \/ (st.iw = 0 /\ t = st)
      BY <2>4 DEF TurnOutcome
    <3>4. st.iw \div 2 \in Nat
      BY <3>1
    <3> QED BY <2>1, <2>3, <3>1, <3>2, <3>3, <3>4
  <2> QED BY <2>1, <2>5, <2>6 DEF t
<1> HIDE DEF Holds
<1>4. n \in Holds
  <2>1. \A k \in 0 .. n : k \in Holds
    BY <1>2, <1>3, Climb
  <2> QED BY <2>1
<1>5. turn[n] \in Keeps /\ turn[n].iw <= 0
  BY <1>4 DEF Holds
<1>6. turn[n] \in LoopState(w)
  <2>1. n \in 0 .. n
    OBVIOUS
  <2> QED BY <1>1, <2>1 DEF IsLoop
<1>7. turn[n].iw = 0
  BY <1>5, <1>6 DEF LoopState
<1> QED BY <1>1, <1>5, <1>6, <1>7

\* One turn multiplies the result and squares the base: their product stays.
LEMMA TurnProduct ==
    ASSUME NEW ix \in Int, NEW temp \in Int, NEW iw \in Nat
    PROVE  /\ iw \div 2 \in Nat
           /\ iw % 2 = 1 => ix * Pow(temp, iw) = (ix * temp) * Pow(temp * temp, iw \div 2)
           /\ iw % 2 # 1 => ix * Pow(temp, iw) = ix * Pow(temp * temp, iw \div 2)
<1> DEFINE h == iw \div 2
           x == Pow(temp * temp, h)
<1>1. h \in Nat /\ (iw % 2 = 1 => iw = 2 * h + 1) /\ (iw % 2 # 1 => iw = 2 * h) /\ 2 * h \in Nat
  OBVIOUS
<1> HIDE DEF h
<1>2. x = Pow(temp, 2 * h) /\ x \in Int
  <2>1. temp * temp \in Int
    BY Product
  <2> QED BY <1>1, <2>1, PowSquare, Powers
<1>3. Pow(temp, 2 * h + 1) = temp * Pow(temp, 2 * h)
  BY <1>1, Powers
<1> HIDE DEF x
<1>4. ix * (temp * x) = (ix * temp) * x
  BY <1>2
<1> QED BY <1>1, <1>2, <1>3, <1>4 DEF h, x

\* The product is congruent to the power all the time ...
LEMMA LoopCongruent ==
    ASSUME NEW w \in Nat \ {0, 1}, NEW iv \in MachineInt(w), NEW n \in Nat, NEW iz \in Int,
           PowLoop(w, iv, n, iz).ok
    PROVE  Congruent(PowLoop(w, iv, n, iz).ix, Pow(iv, n), iz)
<1> DEFINE B == Pow(iv, n)
           Left10(st) == st.ix * Pow(st.temp, st.iw)
           Keeps == {st \in LoopState(w) : st.ok => Congruent(Left10(st), B, iz)}
<1>1. w \in Nat \ {0} /\ iv \in Int /\ B \in Int /\ \A x \in MachineInt(w) : x \in Int
  <2>1. w \in Nat \ {0} /\ iv \in Int /\ \A x \in MachineInt(w) : x \in Int
    BY WidthIs
  <2> QED BY <2>1, Powers
<1>2. FirstTurn(iv, n) \in Keeps
  <2>1. PICK turn : IsLoop(w, iv, n, iz, turn)
    BY LoopIs
  <2>2. turn[0] = FirstTurn(iv, n) /\ turn[0] \in LoopState(w)
    <3>1. 0 \in 0 .. n
      OBVIOUS
    <3> QED BY <2>1, <3>1 DEF IsLoop
  <2>3. Left10(FirstTurn(iv, n)) = 1 * B
    BY DEF FirstTurn
  <2>4. Congruent(1 * B, B, iz)
    <3> HIDE DEF B
    <3>1. 1 * B = B
      BY <1>1
    <3> QED BY <1>1, <3>1, CongruentIs
  <2> QED BY <2>2, <2>3, <2>4
<1>3. ASSUME NEW st \in LoopState(w), NEW t \in LoopState(w), st \in Keeps, TurnOutcome(w, st, iz, t)
      PROVE  t \in Keeps
  <2> SUFFICES ASSUME t.ok, t # st
               PROVE  Congruent(Left10(t), B, iz)
    BY <1>3
  <2> DEFINE h == st.iw \div 2
             x == Pow(st.temp * st.temp, h)
             M == Multiplied(st)
  <2>1. /\ st.ix \in Int /\ st.temp \in Int /\ st.iw \in Nat /\ h \in Nat
        /\ t.ix \in Int /\ t.temp \in Int
        /\ st.temp * st.temp \in Int /\ M \in Int /\ x \in Int
    <3>1. st.ix \in Int /\ st.temp \in Int /\ st.iw \in Nat /\ t.ix \in Int /\ t.temp \in Int
      BY <1>1 DEF LoopState
    <3>2. h \in Nat
      BY <3>1
    <3>3. st.temp * st.temp \in Int /\ st.ix * st.temp \in Int
      BY <3>1, Product
    <3> QED BY <3>1, <3>2, <3>3, Powers DEF Multiplied
  <2>2. st.ok => Left10(st) = M * x
    <3>1. /\ st.iw % 2 = 1 => st.ix * Pow(st.temp, st.iw) = (st.ix * st.temp) * x
          /\ st.iw % 2 # 1 => st.ix * Pow(st.temp, st.iw) = st.ix * x
      <4>1. st.ix \in Int /\ st.temp \in Int /\ st.iw \in Nat
        BY <2>1
      <4> DEFINE a == st.ix
                 b == st.temp
                 i == st.iw
      <4>2. a \in Int /\ b \in Int /\ i \in Nat
        BY <4>1
      <4> HIDE DEF a, b, i
      <4>3. /\ i % 2 = 1 => a * Pow(b, i) = (a * b) * Pow(b * b, i \div 2)
            /\ i % 2 # 1 => a * Pow(b, i) = a * Pow(b * b, i \div 2)
        <5>1. \A ix \in Int, temp \in Int, iw \in Nat :
                  /\ iw % 2 = 1 => ix * Pow(temp, iw) = (ix * temp) * Pow(temp * temp, iw \div 2)
                  /\ iw % 2 # 1 => ix * Pow(temp, iw) = ix * Pow(temp * temp, iw \div 2)
          BY ONLY TurnProduct, ZenonT(30)
        <5> QED BY ONLY <4>2, <5>1, ZenonT(30)
      <4> QED BY <4>3, Zenon DEF a, b, i
    <3> HIDE DEF x, h
    <3> QED BY <3>1 DEF Multiplied, Odd
  <2>3. Left10(st) \in Int
    <3>1. Pow(st.temp, st.iw) \in Int
      BY <2>1, Powers
    <3> QED BY <2>1, <3>1, Product
  <2>4. st.ok => Congruent(Left10(st), B, iz)
    BY <1>3
  <2>5. CASE st.iw # 0 /\ Stops(st) /\ t.iw = 0 /\ t.ok = st.ok /\ t.ix = M
    <3>1. Left10(t) = M
      <4>1. Pow(t.temp, t.iw) = 1
        BY <2>1, <2>5, Powers
      <4> QED BY <2>1, <2>5, <4>1
    <3>2. M = Left10(st)
      <4>1. CASE st.iw = 1
        <5>1. Pow(st.temp, 1) = st.temp /\ 1 % 2 = 1
          <6>1. Pow(st.temp, 1) = st.temp
            BY <2>1, Powers
          <6>2. 1 % 2 = 1
            OBVIOUS
          <6> QED BY <6>1, <6>2
        <5>2. Odd(st) /\ Pow(st.temp, st.iw) = st.temp
          BY <4>1, <5>1 DEF Odd
        <5> QED BY <5>2 DEF Multiplied
      <4>2. CASE Odd(st) /\ st.temp = 0
        <5> DEFINE j == st.iw - 1
        <5>1. j \in Nat /\ j + 1 = st.iw
          BY <2>1, <2>5
        <5> HIDE DEF j
        <5>2. Pow(0, j + 1) = 0 * Pow(0, j) /\ Pow(0, j) \in Int
          <6>1. 0 \in Int
            OBVIOUS
          <6> QED BY <5>1, <6>1, Powers
        <5>3. Pow(st.temp, st.iw) = 0
          BY <4>2, <5>1, <5>2
        <5> QED BY <2>1, <4>2, <5>3 DEF Multiplied
      <4> QED BY <2>5, <4>1, <4>2 DEF Stops
    <3> QED BY <2>4, <2>5, <3>1, <3>2
  <2>6. CASE /\ t.iw = h /\ t.ok = st.ok
             /\ t.ix = Reduced(M, iz) /\ t.temp = Reduced(st.temp * st.temp, iz)
    <3> DEFINE S2 == st.temp * st.temp
    <3>1. /\ Reduced(M, iz) \in Int /\ Congruent(Reduced(M, iz), M, iz)
          /\ Reduced(S2, iz) \in Int /\ Congruent(Reduced(S2, iz), S2, iz)
      <4> HIDE DEF M, S2
      <4>1. S2 \in Int /\ M \in Int
        BY <2>1 DEF S2
      <4> QED BY <4>1, ReducedIs
    <3>2. Congruent(Pow(Reduced(S2, iz), h), x, iz) /\ Pow(Reduced(S2, iz), h) \in Int
      BY <2>1, <3>1, CongruentPower, Powers
    <3> HIDE DEF S2, M, x, h
    <3>3. Congruent(Reduced(M, iz) * Pow(Reduced(S2, iz), h), M * x, iz)
      BY <2>1, <3>1, <3>2, CongruentProduct
    <3>4. Left10(t) = Reduced(M, iz) * Pow(Reduced(S2, iz), h)
      BY <2>6 DEF S2
    <3>5. Left10(t) \in Int /\ M * x \in Int
      BY <2>1, <3>1, <3>2, <3>4, Product
    <3> HIDE DEF B
    <3> QED BY <1>1, <2>2, <2>4, <2>6, <3>3, <3>4, <3>5, CongruentIs
  <2> QED BY <1>3, <2>5, <2>6 DEF TurnOutcome
<1> HIDE DEF Keeps
<1> DEFINE r == PowLoop(w, iv, n, iz)
<1>4. r \in LoopState(w) /\ r.iw = 0 /\ r \in Keeps
  BY <1>2, <1>3, LoopKeeps
<1> HIDE DEF r
<1>5. Congruent(Left10(r), B, iz)
  BY <1>4 DEF Keeps, r
<1>6. Left10(r) = r.ix
  <2>1. r.ix \in Int /\ r.temp \in Int
    BY <1>1, <1>4 DEF LoopState
  <2>2. Pow(r.temp, r.iw) = 1
    BY <1>4, <2>1, Powers
  <2> QED BY <2>1, <2>2
<1> QED BY <1>5, <1>6 DEF r

\* An odd power of 2 is not a square.
LEMMA NoSquare ==
    ASSUME NEW n \in Nat
    PROVE  \A t \in Int : t * t # Pow(2, 2 * n + 1)
<1> DEFINE Holds == {k \in Nat : \A t \in Int : t * t # Pow(2, 2 * k + 1)}
<1>1. 0 \in Holds
  <2>1. Pow(2, 2 * 0 + 1) = 2
    <3>1. 2 \in Int /\ 2 * 0 + 1 = 1
      OBVIOUS
    <3> QED BY <3>1, Powers
  <2>2. ASSUME NEW t \in Int
        PROVE  t * t # 2
    <3>1. CASE t \in -1 .. 1
      BY <3>1
    <3>2. CASE t >= 2
      <4>1. 2 * t <= t * t
        BY <3>2, Mono
      <4> DEFINE x == t * t
      <4> HIDE DEF x
      <4>2. 2 * t <= x
        BY <4>1 DEF x
      <4>3. x # 2
        BY <3>2, <4>2
      <4> QED BY <4>3 DEF x
    <3>3. CASE t <= -2
      <4> DEFINE s == -t
      <4>1. 2 * s <= s * s
        BY <3>3, Mono
      <4>2. s * s = t * t
        OBVIOUS
      <4> DEFINE x == t * t
      <4>3. 2 * s <= x
        BY <4>1, <4>2
      <4> HIDE DEF x
      <4>4. x # 2
        BY <3>3, <4>3
      <4> QED BY <4>4 DEF x
    <3> QED BY <3>1, <3>2, <3>3
  <2> QED BY <2>1, <2>2
<1>2. ASSUME NEW k \in 1 .. n, k - 1 \in Holds
      PROVE  k \in Holds
  <2> DEFINE p == Pow(2, 2 * (k - 1) + 1)
  <2>1. Pow(2, 2 * k + 1) = 4 * p /\ p \in Int
    <3> DEFINE j == 2 * (k - 1) + 1
    <3>1. j \in Nat /\ j + 1 \in Nat /\ (j + 1) + 1 = 2 * k + 1
      OBVIOUS
    <3> HIDE DEF j
    <3>2. Pow(2, (j + 1) + 1) = 2 * Pow(2, j + 1) /\ Pow(2, j + 1) = 2 * Pow(2, j) /\ Pow(2, j) \in Nat
      BY <3>1, Pow2
    <3> QED BY <3>1, <3>2 DEF j
  <2>2. \A t \in Int : t * t # p
    BY <1>2
  <2> HIDE DEF p
  <2>3. ASSUME NEW t \in Int, t * t = 4 * p
        PROVE  FALSE
    <3> DEFINE s == t \div 2
    <3>1. s \in Int /\ (t = 2 * s \/ t = 2 * s + 1)
      OBVIOUS
    <3> HIDE DEF s
    <3> DEFINE x == s * s
    <3>2. x \in Int
      BY <3>1, Product
    <3>3. CASE t = 2 * s
      <4>1. t * t = 4 * x
        BY <3>1, <3>3
      <4> HIDE DEF x
      <4>2. x = p
        BY <2>1, <2>3, <3>2, <4>1
      <4> QED BY <2>2, <3>1, <4>2 DEF x
    <3>4. CASE t = 2 * s + 1
      <4>1. t * t = 4 * x + 4 * s + 1
        BY <3>1, <3>4
      <4> HIDE DEF x
      <4> QED BY <2>1, <2>3, <3>1, <3>2, <4>1
    <3> QED BY <3>1, <3>3, <3>4
  <2>4. k \in Nat
    OBVIOUS
  <2> QED BY <2>1, <2>3, <2>4
<1> HIDE DEF Holds
<1>3. n \in Holds
  <2>1. \A k \in 0 .. n : k \in Holds
    BY <1>1, <1>2, Climb
  <2> QED BY <2>1
<1> QED BY <1>3 DEF Holds

LEMMA NonZero ==
    ASSUME NEW a \in Int, NEW b \in Int, a # 0, b # 0
    PROVE  a * b # 0
<1>1. CASE a > 0
  <2>1. CASE b > 0
    <3>1. 1 * b <= a * b
      BY <1>1, <2>1, Mono
    <3> QED BY <2>1, <3>1
  <2>2. CASE b < 0
    <3>1. 1 * (-b) <= a * (-b) /\ a * (-b) = -(a * b)
      BY <1>1, <2>2, Mono
    <3> QED BY <2>2, <3>1
  <2> QED BY <2>1, <2>2
<1>2. CASE a < 0
  <2>1. CASE b > 0
    <3>1. 1 * b <= (-a) * b /\ (-a) * b = -(a * b)
      BY <1>2, <2>1, Mono
    <3> QED BY <2>1, <3>1
  <2>2. CASE b < 0
    <3>1. 1 * (-b) <= (-a) * (-b) /\ (-a) * (-b) = a * b
      BY <1>2, <2>2, Mono
    <3> QED BY <2>2, <3>1
  <2> QED BY <2>1, <2>2
<1> QED BY <1>1, <1>2

\* A number that does not fit does not fit either when it is multiplied by a
\* positive number.
LEMMA StillOutside ==
    ASSUME NEW w \in Nat \ {0}, NEW a \in Int, NEW x \in Nat \ {0}, ~Fits(w, a)
    PROVE  ~Fits(w, a * x)
<1> DEFINE m == Pow(2, w - 1)
<1>1. /\ m \in Nat \ {0} /\ (a < -m \/ m <= a)
      /\ \A y \in Int : Fits(w, y) <=> -m <= y /\ y < m
  BY WidthIs DEF Fits
<1> HIDE DEF m
<1>2. CASE m <= a
  <2>1. 1 * a <= x * a
    BY <1>1, <1>2, Mono
  <2> DEFINE y == a * x
  <2>2. y \in Int /\ a <= y
    BY <2>1
  <2> HIDE DEF y
  <2>3. ~Fits(w, y)
    BY <1>1, <1>2, <2>2
  <2> QED BY <2>3 DEF y
<1>3. CASE a < -m
  <2>1. 1 * (-a) <= x * (-a)
    BY <1>1, <1>3, Mono
  <2> DEFINE y == a * x
  <2>2. y \in Int /\ y <= a
    BY <2>1
  <2> HIDE DEF y
  <2>3. ~Fits(w, y)
    BY <1>1, <1>3, <2>2
  <2> QED BY <2>3 DEF y
<1> QED BY <1>1, <1>2, <1>3

\* Neither does a multiple of a square that does not fit: it is too large, and a
\* negative one is not the smallest number, which is no square.
LEMMA SquareOutside ==
    ASSUME NEW w \in Nat \ {0}, NEW u \in Nat \ {0}, u < w \/ (u = w /\ w % 2 = 0),
           NEW b \in Int, ~Fits(w, b * b), NEW p \in Int, p # 0, NEW x \in Nat \ {0}
    PROVE  ~Fits(u, p * ((b * b) * x))
<1> DEFINE m == Pow(2, w - 1)
           l == Pow(2, u - 1)
           s == b * b
           z == p * (s * x)
<1>1. /\ m \in Nat \ {0} /\ l \in Nat \ {0}
      /\ s \in Int /\ (s < -m \/ m <= s)
      /\ \A y \in Int : Fits(u, y) <=> -l <= y /\ y < l
  <2>1. s \in Int
    BY Product
  <2>2. ~Fits(w, s)
    OBVIOUS
  <2> HIDE DEF s
  <2>3. m \in Nat \ {0} /\ (s < -m \/ m <= s)
    <3>1. m \in Nat \ {0} /\ (s \in MachineInt(w) <=> s \in Int /\ -m <= s /\ s < m)
      BY ONLY w \in Nat \ {0}, WidthIs
    <3>2. s \notin MachineInt(w)
      BY ONLY <2>2 DEF Fits
    <3> HIDE DEF m
    <3> QED BY ONLY <2>1, <3>1, <3>2
  <2>4. l \in Nat \ {0} /\ \A y \in Int : Fits(u, y) <=> -l <= y /\ y < l
    BY WidthIs DEF Fits
  <2> QED BY <2>1, <2>3, <2>4
<1>2. 0 <= s
  <2>1. CASE b >= 0
    <3>1. 0 * b <= b * b
      BY <2>1, Mono
    <3> QED BY <3>1
  <2>2. CASE b < 0
    <3>1. 0 * (-b) <= (-b) * (-b)
      BY <2>2, Mono
    <3> QED BY <3>1
  <2> QED BY <2>1, <2>2
<1>3. l < s
  <2>1. CASE u < w
    <3>1. u - 1 \in Nat /\ (u - 1) + 1 = u /\ u <= w - 1 /\ w - 1 \in Nat
      BY <2>1
    <3>2. Pow(2, (u - 1) + 1) = 2 * Pow(2, u - 1) /\ Pow(2, u) <= Pow(2, w - 1)
      BY <3>1, Pow2
    <3> HIDE DEF s
    <3> QED BY <1>1, <1>2, <3>1, <3>2
  <2>2. CASE u = w /\ w % 2 = 0
    <3> DEFINE k == (w - 2) \div 2
    <3>1. k \in Nat /\ 2 * k + 1 = w - 1
      BY <2>2
    <3>2. s # m
      <4> HIDE DEF k
      <4>1. b * b # Pow(2, 2 * k + 1)
        BY <3>1, NoSquare
      <4> QED BY <3>1, <4>1
    <3> HIDE DEF s
    <3> QED BY <1>1, <1>2, <2>2, <3>2
  <2> QED BY <2>1, <2>2
<1> HIDE DEF m, l, s
<1> DEFINE y == s * x
<1>4. y \in Int /\ l < y
  <2>1. 1 * s <= x * s
    BY <1>1, <1>2, Mono
  <2> QED BY <1>1, <1>3, <2>1
<1> HIDE DEF y
<1>5. z \in Int /\ (z > l \/ z < -l)
  <2>0. z = p * y
    BY DEF y
  <2>1. CASE p > 0
    <3>1. 1 * y <= p * y
      BY <1>1, <1>4, <2>1, Mono
    <3> QED BY <1>1, <1>4, <2>0, <3>1
  <2>2. CASE p < 0
    <3>1. 1 * y <= (-p) * y
      BY <1>1, <1>4, <2>2, Mono
    <3> QED BY <1>1, <1>4, <2>0, <3>1
  <2> QED BY <2>1, <2>2
<1> HIDE DEF z
<1>6. ~Fits(u, z)
  BY <1>1, <1>5
<1> QED BY <1>6 DEF z, s

\* ... so that without a modulus the loop ends with the power, or gives up
\* because the power does not fit: not in w bits, nor in the u bits of the type.
LEMMA LoopExact ==
    ASSUME NEW w \in Nat \ {0, 1}, NEW u \in Nat \ {0}, u < w \/ (u = w /\ w % 2 = 0),
           NEW iv \in MachineInt(w), NEW n \in Nat
    PROVE  LET r == PowLoop(w, iv, n, 0)
           IN  /\ r.ok => r.ix = Pow(iv, n)
               /\ ~r.ok => ~Fits(u, Pow(iv, n))
<1> DEFINE B == Pow(iv, n)
           r == PowLoop(w, iv, n, 0)
           Keeps == {st \in LoopState(w) :
                         /\ st.ok => st.ix * Pow(st.temp, st.iw) = B /\ (st.iw # 0 => st.ix # 0)
                         /\ ~st.ok => ~Fits(u, B)}
<1>1. /\ w \in Nat \ {0} /\ iv \in Int /\ B \in Int /\ 0 \in Int /\ u <= w
      /\ \A x \in MachineInt(w) : x \in Int
  <2>1. w \in Nat \ {0} /\ iv \in Int /\ \A x \in MachineInt(w) : x \in Int
    BY WidthIs
  <2>2. B \in Int
    BY <2>1, Powers
  <2> QED BY <2>1, <2>2
<1>2. FirstTurn(iv, n) \in Keeps
  <2>1. PICK turn : IsLoop(w, iv, n, 0, turn)
    BY <1>1, LoopIs
  <2>2. turn[0] = FirstTurn(iv, n) /\ turn[0] \in LoopState(w)
    <3>1. 0 \in 0 .. n
      OBVIOUS
    <3> QED BY <2>1, <3>1 DEF IsLoop
  <2> DEFINE st == FirstTurn(iv, n)
  <2>3. st.ok = TRUE /\ st.ix = 1 /\ st.ix * Pow(st.temp, st.iw) = 1 * B
    BY DEF FirstTurn
  <2> HIDE DEF B, st
  <2>4. 1 * B = B
    BY <1>1
  <2>5. st \in LoopState(w)
    BY <2>2 DEF st
  <2> QED BY <2>3, <2>4, <2>5 DEF st
<1>3. ASSUME NEW st \in LoopState(w), NEW t \in LoopState(w), st \in Keeps, TurnOutcome(w, st, 0, t)
      PROVE  t \in Keeps
  <2> SUFFICES ASSUME t # st
               PROVE  t \in Keeps
    BY <1>3
  <2> DEFINE h == st.iw \div 2
             b == st.temp
             M == Multiplied(st)
             x == Pow(b * b, h)
  <2>1. /\ st.ix \in Int /\ b \in Int /\ st.iw \in Nat /\ h \in Nat /\ t.ix \in Int /\ t.temp \in Int
        /\ b * b \in Int /\ M \in Int /\ x \in Int
    <3>1. st.ix \in Int /\ st.temp \in Int /\ st.iw \in Nat /\ t.ix \in Int /\ t.temp \in Int
      BY <1>1 DEF LoopState
    <3>2. h \in Nat
      BY <3>1
    <3>3. st.temp * st.temp \in Int /\ st.ix * st.temp \in Int
      BY <3>1, Product
    <3> QED BY <3>1, <3>2, <3>3, Powers DEF Multiplied
  <2>2. st.ix * Pow(b, st.iw) = M * x
    <3> DEFINE a == st.ix
               i == st.iw
    <3>1. a \in Int /\ b \in Int /\ i \in Nat
      BY <2>1
    <3> HIDE DEF a, b, i
    <3>2. /\ i % 2 = 1 => a * Pow(b, i) = (a * b) * Pow(b * b, i \div 2)
          /\ i % 2 # 1 => a * Pow(b, i) = a * Pow(b * b, i \div 2)
      <4>1. \A ix \in Int, temp \in Int, iw \in Nat :
                /\ iw % 2 = 1 => ix * Pow(temp, iw) = (ix * temp) * Pow(temp * temp, iw \div 2)
                /\ iw % 2 # 1 => ix * Pow(temp, iw) = ix * Pow(temp * temp, iw \div 2)
        BY ONLY TurnProduct, ZenonT(30)
      <4> QED BY ONLY <3>1, <4>1, ZenonT(30)
    <3>3. M = IF i % 2 = 1 THEN a * b ELSE a
      BY DEF Multiplied, Odd, a, b, i
    <3> HIDE DEF M
    <3>4. i \div 2 = h
      BY DEF i
    <3> HIDE DEF h
    <3>5. a * Pow(b, i) = M * Pow(b * b, h)
      BY <3>2, <3>3, <3>4
    <3> QED BY <3>5, Zenon DEF a, i
  <2>3. /\ st.ok => st.ix * Pow(b, st.iw) = B /\ (st.iw # 0 => st.ix # 0)
        /\ ~st.ok => ~Fits(u, B)
    BY <1>3
  <2>4. st.ok => M * x = B
    BY <2>2, <2>3
  <2>5. st.iw # 0
    BY <1>3 DEF TurnOutcome
  <2>6. st.ok /\ b # 0 => M # 0
    <3>1. st.ix # 0 /\ b # 0 => st.ix * b # 0
      BY <2>1, NonZero
    <3> QED BY <2>3, <2>5, <3>1 DEF Multiplied
  <2> HIDE DEF x, h
  <2>7. CASE Odd(st) /\ ~Fits(w, st.ix * b) /\ ~t.ok
    <3> SUFFICES ASSUME st.ok
                 PROVE  ~Fits(u, B)
      BY <2>3, <2>7
    <3>1. M = st.ix * b
      BY <2>7 DEF Multiplied
    <3> HIDE DEF M
    <3>2. b # 0
      <4> SUFFICES ASSUME b = 0
                   PROVE  Fits(w, M)
        BY <2>7, <3>1
      <4>1. M = 0
        BY <2>1, <3>1
      <4>2. Pow(2, w - 1) \in Nat \ {0} /\ (0 \in MachineInt(w) <=> -Pow(2, w - 1) <= 0 /\ 0 < Pow(2, w - 1))
        BY <1>1, WidthIs
      <4> QED BY <4>1, <4>2 DEF Fits
    <3>3. x \in Nat \ {0}
      <4>1. b * b \in Nat \ {0}
        <5>1. CASE b > 0
          BY <2>1, <5>1
        <5>2. CASE b < 0
          <6>1. (-b) * (-b) > 0 /\ (-b) * (-b) = b * b
            BY <2>1, <5>2
          <6> QED BY <2>1, <6>1
        <5> QED BY <2>1, <3>2, <5>1, <5>2
      <4> HIDE DEF b
      <4> QED BY <2>1, <4>1, PowType DEF x
    <3>4. ~Fits(w, M * x)
      BY <1>1, <2>1, <2>7, <3>1, <3>3, StillOutside
    <3>5. ~Fits(u, M * x)
      BY <1>1, <3>4, Narrower
    <3> QED BY <2>4, <3>5
  <2>8. CASE ~Stops(st) /\ ~Fits(w, b * b) /\ ~t.ok
    <3> SUFFICES ASSUME st.ok
                 PROVE  ~Fits(u, B)
      BY <2>3, <2>8
    <3>1. st.iw # 1 /\ h \in Nat \ {0}
      <4>1. st.iw # 1
        BY <2>8 DEF Stops
      <4> QED BY <2>1, <2>5, <4>1 DEF h
    <3>2. M # 0
      <4>1. CASE Odd(st)
        BY <2>6, <2>8, <4>1 DEF Stops
      <4>2. CASE ~Odd(st)
        BY <2>3, <2>5, <4>2 DEF Multiplied
      <4> QED BY <4>1, <4>2
    <3>3. b # 0
      <4> SUFFICES ASSUME b = 0
                   PROVE  Fits(w, b * b)
        BY <2>8
      <4>1. b * b = 0
        BY <2>1
      <4>2. Pow(2, w - 1) \in Nat \ {0} /\ (0 \in MachineInt(w) <=> -Pow(2, w - 1) <= 0 /\ 0 < Pow(2, w - 1))
        BY <1>1, WidthIs
      <4> QED BY <4>1, <4>2 DEF Fits
    <3> DEFINE j == h - 1
               y == Pow(b * b, j)
    <3>4. y \in Nat \ {0} /\ x = (b * b) * y
      <4>1. b * b \in Nat \ {0}
        <5>1. CASE b > 0
          BY <2>1, <5>1
        <5>2. CASE b < 0
          <6>1. (-b) * (-b) > 0 /\ (-b) * (-b) = b * b
            BY <2>1, <5>2
          <6> QED BY <2>1, <6>1
        <5> QED BY <2>1, <3>3, <5>1, <5>2
      <4>2. j \in Nat /\ j + 1 = h
        BY <3>1
      <4> HIDE DEF j, b
      <4>3. Pow(b * b, j + 1) = (b * b) * Pow(b * b, j)
        BY <2>1, <4>2, Powers
      <4> QED BY <4>1, <4>2, <4>3, PowType DEF x
    <3> HIDE DEF M, b, y
    <3>5. ~Fits(u, M * ((b * b) * y))
      BY <1>1, <2>1, <2>8, <3>2, <3>4, SquareOutside
    <3> QED BY <2>4, <3>4, <3>5
  <2>9. CASE Stops(st) /\ t.iw = 0 /\ t.ok = st.ok /\ t.ix = M
    <3> SUFFICES ASSUME st.ok
                 PROVE  t.ix * Pow(t.temp, t.iw) = B
      BY <2>3, <2>9
    <3>1. t.ix * Pow(t.temp, t.iw) = M
      <4>1. Pow(t.temp, t.iw) = 1
        BY <2>1, <2>9, Powers
      <4> QED BY <2>1, <2>9, <4>1
    <3>2. M = M * x
      <4>1. CASE st.iw = 1
        <5>1. h = 0
          BY <4>1 DEF h
        <5>2. x = 1
          BY <2>1, <5>1, Powers DEF x
        <5> QED BY <2>1, <5>2
      <4>2. CASE Odd(st) /\ st.temp = 0
        <5>1. M = 0
          BY <2>1, <4>2 DEF Multiplied
        <5> QED BY <2>1, <5>1
      <4> QED BY <2>9, <4>1, <4>2 DEF Stops
    <3> QED BY <2>4, <3>1, <3>2
  <2>10. CASE /\ ~Stops(st) /\ t.iw = h /\ t.ok = st.ok
              /\ t.ix = Reduced(M, 0) /\ t.temp = Reduced(b * b, 0)
    <3>1. t.ix = M /\ t.temp = b * b
      BY <2>10 DEF Reduced
    <3> SUFFICES ASSUME st.ok
                 PROVE  t.ix * Pow(t.temp, t.iw) = B /\ t.ix # 0
      BY <2>3, <2>10
    <3>2. M # 0
      <4>1. CASE Odd(st)
        BY <2>6, <2>10, <4>1 DEF Stops
      <4>2. CASE ~Odd(st)
        BY <2>3, <2>5, <4>2 DEF Multiplied
      <4> QED BY <4>1, <4>2
    <3>3. Pow(t.temp, t.iw) = x
      BY <2>10, <3>1 DEF x
    <3> QED BY <2>4, <3>1, <3>2, <3>3
  <2> HIDE DEF M, b, Keeps
  <2> QED BY <1>3, <2>5, <2>7, <2>8, <2>9, <2>10 DEF TurnOutcome, M, b, h
<1> HIDE DEF Keeps
<1>4. r \in LoopState(w) /\ r.iw = 0 /\ r \in Keeps
  BY <1>1, <1>2, <1>3, LoopKeeps
<1> HIDE DEF r
<1>5. r.ok => r.ix = B
  <2> SUFFICES ASSUME r.ok
               PROVE  r.ix = B
    OBVIOUS
  <2>1. r.ix \in Int /\ r.temp \in Int
    BY <1>1, <1>4 DEF LoopState
  <2>2. Pow(r.temp, r.iw) = 1
    BY <1>4, <2>1, Powers
  <2>3. r.ix * Pow(r.temp, r.iw) = B
    BY <1>4 DEF Keeps
  <2> QED BY <2>1, <2>2, <2>3
<1>6. ~r.ok => ~Fits(u, B)
  BY <1>4 DEF Keeps
<1> QED BY <1>5, <1>6 DEF r

LEMMA MagnitudeIs ==
    ASSUME NEW n \in Int, NEW C \in Nat
    PROVE  /\ Magnitude(n) \in Nat
           /\ Magnitude(n) <= C <=> -C <= n /\ n <= C
           /\ Magnitude(n) < C <=> -C < n /\ n < C
BY DEF Magnitude

LEMMA MagnitudeProduct ==
    ASSUME NEW C \in Nat, NEW a \in Int, NEW b \in Int, Magnitude(a) <= C, Magnitude(b) <= C
    PROVE  Magnitude(a * b) <= C * C
<1> DEFINE A == IF a < 0 THEN -a ELSE a
           B == IF b < 0 THEN -b ELSE b
<1>1. A \in Nat /\ A <= C /\ B \in Nat /\ B <= C
  BY DEF Magnitude
<1>2. a * b = A * B \/ a * b = -(A * B)
  OBVIOUS
<1>3. a * b \in Int /\ C * C \in Nat
  BY Product
<1> HIDE DEF A, B
<1>4. A * B <= C * B /\ B * C <= C * C
  BY <1>1, Mono
<1>5. C * B = B * C /\ C * B \in Int /\ A * B \in Int
  BY <1>1
<1>6. 0 * B <= A * B
  BY <1>1, Mono
<1>7. 0 <= A * B
  BY <1>1, <1>6
<1> DEFINE x == A * B
           y == a * b
<1>8. x \in Int /\ 0 <= x /\ x <= C * C /\ (y = x \/ y = -x) /\ y \in Int /\ C * C \in Nat
  BY <1>2, <1>3, <1>4, <1>5, <1>7
<1> DEFINE D == C * C
<1> HIDE DEF x, y, D
<1>9. -D <= y /\ y <= D /\ D \in Nat
  BY <1>8 DEF D
<1>10. Magnitude(y) <= D
  BY <1>8, <1>9, MagnitudeIs
<1> QED BY <1>10 DEF y, D

\* When the modulus and the base can both be squared, no product is lost.
LEMMA LoopRoomy ==
    ASSUME NEW w \in Nat \ {0, 1}, NEW iv \in MachineInt(w), NEW n \in Nat, NEW iz \in Int, iz # 0,
           NEW C \in Nat \ {0}, Magnitude(iv) <= C, Magnitude(iz) <= C, C * C < Pow(2, w - 1)
    PROVE  LET r == PowLoop(w, iv, n, iz)
           IN  r.ok /\ Magnitude(r.ix) <= C * C
<1> DEFINE r == PowLoop(w, iv, n, iz)
           m == Pow(2, w - 1)
           D == C * C
           Keeps == {st \in LoopState(w) :
                         /\ st.ok /\ Magnitude(st.ix) <= D
                         /\ st.iw # 0 => Magnitude(st.ix) <= C /\ Magnitude(st.temp) <= C}
<1>1. /\ w \in Nat \ {0} /\ iv \in Int /\ m \in Nat \ {0} /\ D \in Nat /\ C <= D /\ D < m /\ C \in Nat
      /\ \A x \in MachineInt(w) : x \in Int
  <2>1. w \in Nat \ {0} /\ iv \in Int /\ m \in Nat \ {0} /\ \A x \in MachineInt(w) : x \in Int
    BY WidthIs
  <2>2. 1 * C <= C * C
    BY Mono
  <2>3. D \in Nat
    OBVIOUS
  <2> QED BY <2>1, <2>2, <2>3
<1>2. \A x \in Int : Magnitude(x) <= D => Fits(w, x)
  <2> HIDE DEF D, m
  <2>1. ASSUME NEW x \in Int, Magnitude(x) <= D
        PROVE  Fits(w, x)
    <3>1. -D <= x /\ x <= D
      BY <1>1, <2>1, MagnitudeIs
    <3>2. -m <= x /\ x < m
      BY <1>1, <3>1
    <3> QED BY <1>1, <3>2, WidthIs DEF Fits, m
  <2> QED BY <2>1
<1>3. FirstTurn(iv, n) \in Keeps
  <2>1. PICK turn : IsLoop(w, iv, n, iz, turn)
    BY LoopIs
  <2>2. turn[0] = FirstTurn(iv, n) /\ turn[0] \in LoopState(w)
    <3>1. 0 \in 0 .. n
      OBVIOUS
    <3> QED BY <2>1, <3>1 DEF IsLoop
  <2>3. FirstTurn(iv, n).ok = TRUE /\ FirstTurn(iv, n).ix = 1 /\ FirstTurn(iv, n).temp = iv
    BY DEF FirstTurn
  <2>4. Magnitude(1) = 1
    BY DEF Magnitude
  <2> HIDE DEF D
  <2>5. 1 <= C /\ 1 <= D
    BY <1>1
  <2> QED BY <2>2, <2>3, <2>4, <2>5
<1>4. ASSUME NEW st \in LoopState(w), NEW t \in LoopState(w), st \in Keeps, TurnOutcome(w, st, iz, t)
      PROVE  t \in Keeps
  <2> SUFFICES ASSUME t # st
               PROVE  t \in Keeps
    BY <1>4
  <2> DEFINE M == Multiplied(st)
             S2 == st.temp * st.temp
  <2>1. st.iw # 0
    BY <1>4 DEF TurnOutcome
  <2>2. st.ok /\ Magnitude(st.ix) <= C /\ Magnitude(st.temp) <= C
    BY <1>4, <2>1
  <2>3. st.ix \in Int /\ st.temp \in Int /\ S2 \in Int /\ st.ix * st.temp \in Int /\ M \in Int
    <3>1. st.ix \in Int /\ st.temp \in Int
      BY <1>1 DEF LoopState
    <3> QED BY <3>1, Product DEF Multiplied
  <2>4. Magnitude(st.ix * st.temp) <= D /\ Magnitude(S2) <= D
    BY <1>1, <2>2, <2>3, MagnitudeProduct
  <2>5. Magnitude(M) <= D
    <3>1. Magnitude(st.ix) \in Nat
      BY <2>3, <1>1, MagnitudeIs
    <3> HIDE DEF D
    <3>2. Magnitude(st.ix) <= D
      BY <1>1, <2>2, <3>1
    <3> QED BY <2>4, <3>2 DEF Multiplied
  <2>6. Fits(w, st.ix * st.temp) /\ Fits(w, S2)
    BY <1>2, <2>3, <2>4
  <2>7. \/ t.iw = 0 /\ t.ok = st.ok /\ t.ix = M
        \/ t.ok = st.ok /\ t.ix = Reduced(M, iz) /\ t.temp = Reduced(S2, iz)
    BY <1>4, <2>6 DEF TurnOutcome
  <2>8. /\ Magnitude(Reduced(M, iz)) < Magnitude(iz) /\ Reduced(M, iz) \in Int
        /\ Magnitude(Reduced(S2, iz)) < Magnitude(iz) /\ Reduced(S2, iz) \in Int
    <3> HIDE DEF M, S2
    <3> QED BY <2>3, ReducedIs
  <2>9. /\ Magnitude(Reduced(M, iz)) <= C /\ Magnitude(Reduced(M, iz)) <= D
        /\ Magnitude(Reduced(S2, iz)) <= C
    <3> HIDE DEF M, S2, D
    <3>1. Magnitude(Reduced(M, iz)) \in Nat /\ Magnitude(Reduced(S2, iz)) \in Nat /\ Magnitude(iz) \in Nat
      BY <1>1, <2>8, MagnitudeIs
    <3> QED BY <1>1, <2>8, <3>1
  <2> HIDE DEF M, S2, D
  <2> QED BY <2>2, <2>5, <2>7, <2>9
<1> HIDE DEF Keeps
<1>5. r \in Keeps
  BY <1>3, <1>4, LoopKeeps
<1> QED BY <1>5 DEF Keeps

-----------------------------------------------------------------------------
(* What the property compares the results with. *)

\* The power that stops at Beyond is the power, or both are beyond every type.
LEMMA FullPowerIs ==
    ASSUME call.iw \in Nat, call.iv \in Int
    PROVE  \/ FullPower = Pow(call.iv, call.iw)
           \/ /\ FullPower \in {Beyond, -Beyond}
              /\ Pow(call.iv, call.iw) > Beyond \/ Pow(call.iv, call.iw) < -Beyond
<1> DEFINE n == call.iw
           iv == call.iv
           power == CHOOSE f : f = [k \in 0 .. n |-> IF k = 0 THEN 1 ELSE Bounded(f[k - 1] * iv)]
           g == [p \in Int \X (1 .. n) |-> Bounded(p[1] * iv)]
           c == Beyond
<1>1. n \in Nat /\ iv \in Int /\ 1 \in Int
  OBVIOUS
<1>2. FullPower = power[n]
  BY DEF FullPower
<1>3. c \in Nat \ {0}
  BY WidthsAre, Pow2 DEF Beyond
<1>4. \A x : Bounded(x) = IF x > c THEN c ELSE IF x < -c THEN -c ELSE x
  BY DEF Bounded
<1> HIDE DEF c, n, iv
<1>5. \A x \in Int : x * iv \in Int /\ Bounded(x * iv) \in Int
  BY <1>1, <1>3, <1>4
<1>6. g \in [Int \X (1 .. n) -> Int]
  BY <1>5
<1>7. PICK f \in [0 .. n -> Int] : IsRecursion(f, n, 1, g)
  <2> HIDE DEF g
  <2> QED BY <1>1, <1>6, RecursiveExists
<1>8. ASSUME NEW k \in 1 .. n
      PROVE  g[<<f[k - 1], k>>] = Bounded(f[k - 1] * iv)
  <2>1. k - 1 \in 0 .. n
    BY <1>1
  <2>2. <<f[k - 1], k>> \in Int \X (1 .. n)
    BY <1>7, <2>1
  <2> QED BY <2>2
<1> HIDE DEF g
<1>9. f = [k \in 0 .. n |-> IF k = 0 THEN 1 ELSE Bounded(f[k - 1] * iv)]
  <2> DEFINE v(k) == IF k = 0 THEN 1 ELSE Bounded(f[k - 1] * iv)
  <2>1. \A k \in 0 .. n : f[k] = v(k)
    <3>1. \A k \in 0 .. n : k = 0 \/ k \in 1 .. n
      BY <1>1
    <3> QED BY <1>7, <1>8, <3>1 DEF IsRecursion
  <2>2. f = [k \in 0 .. n |-> f[k]]
    BY <1>7
  <2> HIDE DEF v
  <2>3. f = [k \in 0 .. n |-> v(k)]
    BY <2>1, <2>2
  <2> QED BY <2>3 DEF v
<1>10. power = [k \in 0 .. n |-> IF k = 0 THEN 1 ELSE Bounded(power[k - 1] * iv)]
  BY <1>9
<1> HIDE DEF power
<1>11. power[0] = 1 /\ \A k \in 1 .. n : power[k] = Bounded(power[k - 1] * iv)
  <2>1. \A k \in 0 .. n : power[k] = IF k = 0 THEN 1 ELSE Bounded(power[k - 1] * iv)
    BY <1>10
  <2>2. 0 \in 0 .. n /\ \A k \in 1 .. n : k \in 0 .. n /\ k # 0
    BY <1>1
  <2> QED BY <2>1, <2>2, Zenon
<1> DEFINE Same(k) == \/ power[k] = Pow(iv, k)
                      \/ power[k] \in {c, -c} /\ (Pow(iv, k) > c \/ Pow(iv, k) < -c)
           Holds == {k \in Nat : Same(k)}
<1>12. 0 \in Holds
  BY <1>1, <1>11, Powers
<1>13. ASSUME NEW k \in 1 .. n, k - 1 \in Holds
       PROVE  k \in Holds
  <2> DEFINE p == Pow(iv, k - 1)
             q == power[k - 1]
  <2>1. k - 1 \in Nat /\ k \in Nat /\ (k - 1) + 1 = k
    BY <1>1
  <2>2. p \in Int /\ Pow(iv, k) = iv * p
    <3>1. Pow(iv, (k - 1) + 1) = iv * Pow(iv, k - 1) /\ Pow(iv, k - 1) \in Int
      BY <1>1, <2>1, Powers
    <3> QED BY <2>1, <3>1
  <2>3. power[k] = IF q * iv > c THEN c ELSE IF q * iv < -c THEN -c ELSE q * iv
    BY <1>4, <1>11
  <2>4. q = p \/ (q \in {c, -c} /\ (p > c \/ p < -c))
    BY <1>13
  <2> HIDE DEF p, q
  <2>5. q \in Int
    BY <1>3, <2>2, <2>4
  <2>6. CASE q = p
    <3> DEFINE y == q * iv
    <3>1. y = iv * p /\ y \in Int
      BY <1>1, <2>2, <2>5, <2>6
    <3>2. power[k] = IF y > c THEN c ELSE IF y < -c THEN -c ELSE y
      BY <2>3
    <3> HIDE DEF y
    <3>3. Same(k)
      BY <1>3, <2>2, <3>1, <3>2
    <3> QED BY <2>1, <3>3
  <2>7. CASE iv = 0
    <3>1. q * iv = 0 /\ iv * p = 0
      BY <2>2, <2>5, <2>7
    <3>2. power[k] = 0 /\ Pow(iv, k) = 0
      BY <1>3, <2>2, <2>3, <3>1
    <3> QED BY <2>1, <3>2
  <2>8. CASE iv # 0 /\ q \in {c, -c} /\ (p > c \/ p < -c)
    <3> DEFINE d == IF iv < 0 THEN -iv ELSE iv
               A == IF p < 0 THEN -p ELSE p
    <3>1. d \in Nat \ {0} /\ A \in Nat /\ A > c
      BY <1>1, <1>3, <2>2, <2>8
    <3>2. iv * p = d * A \/ iv * p = -(d * A)
      BY <1>1, <2>2
    <3>3. q * iv = d * c \/ q * iv = -(d * c)
      <4>1. CASE q = c
        <5>1. c * iv = d * c \/ c * iv = -(d * c)
          BY <1>1, <1>3
        <5> QED BY <4>1, <5>1
      <4>2. CASE q = -c
        <5>1. (-c) * iv = d * c \/ (-c) * iv = -(d * c)
          BY <1>1, <1>3
        <5> QED BY <4>2, <5>1
      <4> QED BY <2>8, <4>1, <4>2
    <3> HIDE DEF d, A
    <3>4. 1 * A <= d * A /\ 1 * c <= d * c
      <4>1. 1 \in Int /\ d \in Int /\ 1 <= d /\ c \in Nat
        BY <1>3, <3>1
      <4> QED BY <3>1, <4>1, Mono
    <3> DEFINE x == d * A
               y == d * c
    <3>5. x \in Int /\ y \in Int /\ x > c /\ y >= c
      <4>1. x \in Int /\ y \in Int /\ A <= x /\ c <= y
        BY <1>3, <3>1, <3>4
      <4> QED BY <1>3, <3>1, <4>1
    <3> HIDE DEF x, y
    <3>6. iv * p > c \/ iv * p < -c
      BY <1>3, <3>2, <3>5 DEF x
    <3>7. power[k] \in {c, -c}
      BY <1>3, <2>3, <3>3, <3>5 DEF y
    <3> QED BY <2>1, <2>2, <3>6, <3>7
  <2> QED BY <2>4, <2>6, <2>7, <2>8
<1> HIDE DEF Holds
<1>14. n \in Holds
  <2>1. \A k \in 0 .. n : k \in Holds
    BY <1>1, <1>12, <1>13, Climb
  <2> QED BY <1>1, <2>1
<1>15. Same(n)
  BY <1>14 DEF Holds
<1> QED BY <1>2, <1>15 DEF n, iv, c

\* The remainder of Python, and the one number it can be.
InModulus(r, m) == (m > 0 /\ 0 <= r /\ r < m) \/ (m < 0 /\ m < r /\ r <= 0)

LEMMA ModuloIs ==
    ASSUME NEW x \in Int, NEW m \in Int, m # 0
    PROVE  Modulo(x, m) \in Int /\ Congruent(Modulo(x, m), x, m) /\ InModulus(Modulo(x, m), m)
<1> DEFINE q == FloorQuotient(x, m)
           r == Modulo(x, m)
<1>1. r = x - m * q
  BY DEF Modulo
<1>2. CASE m > 0
  <2>1. q = x \div m
    BY <1>2 DEF FloorQuotient
  <2>2. x \div m \in Int /\ m * (x \div m) <= x /\ x < m * (x \div m) + m
    <3>1. m \in Nat \ {0}
      BY <1>2
    <3> QED BY <3>1, DivIs
  <2> HIDE DEF q, r
  <2>3. q \in Int /\ m * q \in Int /\ m * q <= x /\ x < m * q + m
    BY <2>1, <2>2
  <2>4. r \in Int /\ 0 <= r /\ r < m
    BY <1>1, <2>3
  <2>5. r = x + m * (-q) /\ -q \in Int
    BY <1>1, <2>3
  <2>6. Congruent(r, x, m)
    BY <2>5, Zenon DEF Congruent
  <2> QED BY <1>2, <2>4, <2>6 DEF InModulus, r
<1>3. CASE m < 0
  <2>1. q = (-x) \div (-m)
    BY <1>3 DEF FloorQuotient
  <2>2. (-x) \div (-m) \in Int /\ (-m) * ((-x) \div (-m)) <= -x /\ -x < (-m) * ((-x) \div (-m)) + (-m)
    <3>1. -m \in Nat \ {0} /\ -x \in Int
      BY <1>3
    <3> QED BY <3>1, DivIs
  <2> HIDE DEF q, r
  <2>3. q \in Int /\ m * q \in Int /\ -(m * q) <= -x /\ -x < -(m * q) - m
    <3>1. (-m) * q = -(m * q)
      BY <2>1, <2>2
    <3> QED BY <2>1, <2>2, <3>1
  <2>4. r \in Int /\ m < r /\ r <= 0
    BY <1>1, <2>3
  <2>5. r = x + m * (-q) /\ -q \in Int
    BY <1>1, <2>3
  <2>6. Congruent(r, x, m)
    BY <2>5, Zenon DEF Congruent
  <2> QED BY <1>3, <2>4, <2>6 DEF InModulus, r
<1> QED BY <1>2, <1>3

LEMMA OneRemainder ==
    ASSUME NEW m \in Int, m # 0, NEW a \in Int, NEW b \in Int, Congruent(a, b, m),
           InModulus(a, m), InModulus(b, m)
    PROVE  a = b
<1>1. PICK q \in Int : a = b + m * q
  BY DEF Congruent
<1>2. CASE m > 0
  <2>1. 0 <= a /\ a < m /\ 0 <= b /\ b < m
    BY <1>2 DEF InModulus
  <2>2. q > 0 => 1 * m <= q * m
    BY <1>2, Mono
  <2>3. q < 0 => q * m <= (-1) * m
    BY <1>2, Mono
  <2> DEFINE x == q * m
  <2>4. x \in Int /\ a = b + x /\ (q = 0 => x = 0)
    BY <1>1
  <2> HIDE DEF x
  <2>5. (q > 0 => m <= x) /\ (q < 0 => x <= -m)
    BY <2>2, <2>3 DEF x
  <2> QED BY <1>2, <2>1, <2>4, <2>5
<1>3. CASE m < 0
  <2>1. m < a /\ a <= 0 /\ m < b /\ b <= 0
    BY <1>3 DEF InModulus
  <2>2. q > 0 => 1 * (-m) <= q * (-m)
    BY <1>3, Mono
  <2>3. q < 0 => q * (-m) <= (-1) * (-m)
    BY <1>3, Mono
  <2> DEFINE x == q * (-m)
  <2>4. x \in Int /\ a = b - x /\ (q = 0 => x = 0)
    BY <1>1
  <2> HIDE DEF x
  <2>5. (q > 0 => -m <= x) /\ (q < 0 => x <= m)
    BY <2>2, <2>3 DEF x
  <2> QED BY <1>3, <2>1, <2>4, <2>5
<1> QED BY <1>2, <1>3

\* ... and with a modulus, the one number in its range that is congruent to the
\* power.
LEMMA ModularPowerIs ==
    ASSUME call.iw \in Nat, call.iv \in Int, call.iz \in Int, call.iz # 0
    PROVE  /\ ModularPower \in Int /\ InModulus(ModularPower, call.iz)
           /\ Congruent(ModularPower, Pow(call.iv, call.iw), call.iz)
<1> DEFINE n == call.iw
           iv == call.iv
           m == call.iz
           power == CHOOSE f : f = [k \in 0 .. n |-> Modulo(IF k = 0 THEN 1 ELSE f[k - 1] * iv, m)]
           g == [p \in Int \X (1 .. n) |-> Modulo(p[1] * iv, m)]
           base == Modulo(1, m)
<1>1. n \in Nat /\ iv \in Int /\ m \in Int /\ m # 0 /\ 1 \in Int
  OBVIOUS
<1>2. ModularPower = power[n]
  BY DEF ModularPower
<1> HIDE DEF n, iv, m
<1>3. \A x \in Int : Modulo(x, m) \in Int /\ Congruent(Modulo(x, m), x, m) /\ InModulus(Modulo(x, m), m)
  BY <1>1, ModuloIs
<1>4. \A x \in Int : x * iv \in Int
  BY <1>1, Product
<1>5. g \in [Int \X (1 .. n) -> Int] /\ base \in Int
  BY <1>1, <1>3, <1>4
<1>6. PICK f \in [0 .. n -> Int] : IsRecursion(f, n, base, g)
  <2> HIDE DEF g, base
  <2> QED BY <1>1, <1>5, RecursiveExists
<1>7. ASSUME NEW k \in 1 .. n
      PROVE  g[<<f[k - 1], k>>] = Modulo(f[k - 1] * iv, m)
  <2>1. k - 1 \in 0 .. n
    BY <1>1
  <2>2. <<f[k - 1], k>> \in Int \X (1 .. n)
    BY <1>6, <2>1
  <2> QED BY <2>2
<1> HIDE DEF g
<1>8. f = [k \in 0 .. n |-> Modulo(IF k = 0 THEN 1 ELSE f[k - 1] * iv, m)]
  <2> DEFINE v(k) == Modulo(IF k = 0 THEN 1 ELSE f[k - 1] * iv, m)
  <2>1. \A k \in 0 .. n : f[k] = v(k)
    <3>1. \A k \in 0 .. n : k = 0 \/ (k \in 1 .. n /\ k # 0)
      BY <1>1
    <3> QED BY <1>6, <1>7, <3>1 DEF IsRecursion
  <2>2. f = [k \in 0 .. n |-> f[k]]
    BY <1>6
  <2> HIDE DEF v
  <2>3. f = [k \in 0 .. n |-> v(k)]
    BY <2>1, <2>2
  <2> QED BY <2>3 DEF v
<1>9. power = [k \in 0 .. n |-> Modulo(IF k = 0 THEN 1 ELSE power[k - 1] * iv, m)]
  BY <1>8
<1> HIDE DEF power
<1>10. power[0] = base /\ \A k \in 1 .. n : power[k] = Modulo(power[k - 1] * iv, m)
  <2>1. \A k \in 0 .. n : power[k] = Modulo(IF k = 0 THEN 1 ELSE power[k - 1] * iv, m)
    BY <1>9
  <2>2. 0 \in 0 .. n /\ \A k \in 1 .. n : k \in 0 .. n /\ k # 0
    BY <1>1
  <2> QED BY <2>1, <2>2
<1> DEFINE Same(k) == power[k] \in Int /\ InModulus(power[k], m) /\ Congruent(power[k], Pow(iv, k), m)
           Holds == {k \in Nat : Same(k)}
<1>11. 0 \in Holds
  <2>1. Pow(iv, 0) = 1
    BY <1>1, Powers
  <2>2. base \in Int /\ InModulus(base, m) /\ Congruent(base, 1, m)
    BY <1>1, <1>3
  <2> HIDE DEF base
  <2> QED BY <1>10, <2>1, <2>2
<1>12. ASSUME NEW k \in 1 .. n, k - 1 \in Holds
       PROVE  k \in Holds
  <2> DEFINE p == Pow(iv, k - 1)
             q == power[k - 1]
  <2>1. k - 1 \in Nat /\ k \in Nat /\ (k - 1) + 1 = k
    BY <1>1
  <2>2. p \in Int /\ Pow(iv, k) = iv * p
    <3>1. Pow(iv, (k - 1) + 1) = iv * Pow(iv, k - 1) /\ Pow(iv, k - 1) \in Int
      BY <1>1, <2>1, Powers
    <3> QED BY <2>1, <3>1
  <2>3. q \in Int /\ Congruent(q, p, m)
    BY <1>12
  <2>4. power[k] = Modulo(q * iv, m)
    BY <1>10
  <2> HIDE DEF p, q
  <2>5. Congruent(q * iv, p * iv, m) /\ q * iv \in Int /\ p * iv \in Int /\ p * iv = iv * p
    <3>1. Congruent(iv, iv, m)
      BY <1>1, CongruentIs
    <3>2. Congruent(q * iv, p * iv, m)
      BY <1>1, <2>2, <2>3, <3>1, CongruentProduct
    <3> QED BY <1>1, <2>2, <2>3, <3>2
  <2>6. power[k] \in Int /\ InModulus(power[k], m) /\ Congruent(power[k], q * iv, m)
    BY <1>3, <2>4, <2>5
  <2>7. Congruent(power[k], p * iv, m)
    BY <1>1, <2>5, <2>6, CongruentIs
  <2>8. Congruent(power[k], Pow(iv, k), m)
    BY <2>2, <2>5, <2>7
  <2> QED BY <2>1, <2>6, <2>8
<1> HIDE DEF Holds
<1>13. n \in Holds
  <2>1. \A k \in 0 .. n : k \in Holds
    BY <1>1, <1>11, <1>12, Climb
  <2> QED BY <1>1, <2>1
<1>14. Same(n)
  BY <1>13 DEF Holds
<1> QED BY <1>2, <1>14 DEF n, iv, m

-----------------------------------------------------------------------------
(* pow of PgInt2, in C longs, and of PgInt8, in C long longs. *)

Register(type) == IF type = "int2" THEN LONG_BIT ELSE LONG_LONG_BIT
PowResult(type, iv, iw, iz) == IF type = "int2" THEN int2_pow(iv, iw, iz) ELSE int8_pow(iv, iw, iz)

LEMMA RegisterIs ==
    ASSUME NEW type \in {"int2", "int8"}
    PROVE  LET u == Width(type)
               w == Register(type)
           IN  /\ w \in Nat \ {0, 1} /\ u \in Nat \ {0} /\ u <= w /\ u <= LONG_LONG_BIT
               /\ u < w \/ (u = w /\ w % 2 = 0)
               /\ \A n : Fits(u, n) => n \in MachineInt(w) /\ n \in Int
               /\ \A n \in MachineInt(LONG_BIT) : n \in MachineInt(w) /\ n \in Int
<1>1. LONG_LONG_BIT % 2 = 0
  BY MachineIntsAssumption
<1>2. CASE type = "int2"
  <2>1. Width(type) = SHORT_BIT /\ Register(type) = LONG_BIT
    BY <1>2 DEF Width, Register
  <2>2. /\ LONG_BIT \in Nat \ {0, 1} /\ SHORT_BIT \in Nat \ {0} /\ SHORT_BIT < LONG_BIT
        /\ SHORT_BIT <= LONG_LONG_BIT
    BY WidthsAre
  <2> QED BY <2>1, <2>2, FitWider DEF Fits
<1>3. CASE type = "int8"
  <2>1. Width(type) = LONG_LONG_BIT /\ Register(type) = LONG_LONG_BIT
    BY <1>3 DEF Width, Register
  <2>2. LONG_LONG_BIT \in Nat \ {0, 1} /\ LONG_LONG_BIT <= LONG_LONG_BIT
    BY WidthsAre
  <2> QED BY <1>1, <2>1, <2>2, FitWider DEF Fits
<1> QED BY <1>2, <1>3

\* The cases of the two functions.
LEMMA PowIsLoop ==
    ASSUME NEW type \in {"int2", "int8"}, NEW iv, NEW iw \in Int, NEW iz
    PROVE  LET w == Register(type)
               r == PowLoop(w, iv, iw, iz)
               o == PowResult(type, iv, iw, iz)
               Made(n) == IF type = "int2" THEN Narrowed(n) ELSE Int8(n)
           IN  /\ iw < 0 => o \in {Raise("ZeroDivisionError"), Raise("ValueError")}
               /\ iw >= 0 /\ ~r.ok => o = Raise("OverflowError")
               /\ iw >= 0 /\ r.ok /\ iz = 0 => o = Made(r.ix)
               /\ iw >= 0 /\ r.ok /\ iz # 0 =>
                     o = IF DivisionFails(w, r.ix, iz) THEN Raise("OverflowError")
                         ELSE Made(i_divmod(w, r.ix, iz).mod)
<1> DEFINE w == Register(type)
           r == PowLoop(w, iv, iw, iz)
           Made(n) == IF type = "int2" THEN Narrowed(n) ELSE Int8(n)
           o == PowResult(type, iv, iw, iz)
<1>1. o = CASE iw < 0 -> Raise(IF iv = 0 THEN "ZeroDivisionError" ELSE "ValueError")
            [] iw >= 0 /\ ~r.ok -> Raise("OverflowError")
            [] iw >= 0 /\ r.ok /\ iz = 0 -> Made(r.ix)
            [] OTHER -> IF DivisionFails(w, r.ix, iz) THEN DivisionError(iz)
                        ELSE Made(i_divmod(w, r.ix, iz).mod)
  <2>1. CASE type = "int2"
    <3>1. w = LONG_BIT /\ o = int2_pow(iv, iw, iz)
      BY <2>1 DEF Register, PowResult
    <3> QED BY <2>1, <3>1 DEF int2_pow
  <2>2. CASE type = "int8"
    <3>1. w = LONG_LONG_BIT /\ o = int8_pow(iv, iw, iz)
      BY <2>2 DEF Register, PowResult
    <3> QED BY <2>2, <3>1 DEF int8_pow
  <2> QED BY <2>1, <2>2
<1>2. iz # 0 => DivisionError(iz) = Raise("OverflowError")
  BY DEF DivisionError
<1>3. ~(iw < 0 /\ iw >= 0)
  OBVIOUS
<1> HIDE DEF r, o, w, Made
<1>4. /\ iw < 0 => o \in {Raise("ZeroDivisionError"), Raise("ValueError")}
      /\ iw >= 0 /\ ~r.ok => o = Raise("OverflowError")
      /\ iw >= 0 /\ r.ok /\ iz = 0 => o = Made(r.ix)
      /\ iw >= 0 /\ r.ok /\ iz # 0 =>
            o = IF DivisionFails(w, r.ix, iz) THEN Raise("OverflowError")
                ELSE Made(i_divmod(w, r.ix, iz).mod)
  BY <1>1, <1>2, <1>3
<1> QED BY <1>4 DEF r, o, w, Made

\* Every result is in the range of its type.
LEMMA LoopFits ==
    ASSUME NEW w \in Nat \ {0, 1}, NEW iv \in MachineInt(w), NEW n \in Nat, NEW iz \in Int
    PROVE  PowLoop(w, iv, n, iz).ix \in MachineInt(w)
<1>1. FirstTurn(iv, n) \in LoopState(w)
  <2>1. PICK turn : IsLoop(w, iv, n, iz, turn)
    BY LoopIs
  <2> QED BY <2>1 DEF IsLoop
<1>2. \A st \in LoopState(w), t \in LoopState(w) :
          st \in LoopState(w) /\ TurnOutcome(w, st, iz, t) => t \in LoopState(w)
  OBVIOUS
<1>3. PowLoop(w, iv, n, iz) \in LoopState(w)
  BY <1>1, <1>2, LoopKeeps
<1> QED BY <1>3 DEF LoopState

LEMMA PowInType ==
    ASSUME NEW type \in {"int2", "int8"}, NEW iv, Fits(Width(type), iv), NEW iw \in Int,
           NEW iz \in MachineInt(LONG_BIT)
    PROVE  InType(PowResult(type, iv, iw, iz))
<1> DEFINE w == Register(type)
           r == PowLoop(w, iv, iw, iz)
           Made(n) == IF type = "int2" THEN Narrowed(n) ELSE Int8(n)
           m == i_divmod(w, r.ix, iz).mod
<1>1. /\ w \in Nat \ {0, 1} /\ iv \in MachineInt(w) /\ iz \in MachineInt(w) /\ iz \in Int
  BY RegisterIs
<1>2. \A n : n \in MachineInt(w) => InType(Made(n))
  <2>1. CASE type = "int2"
    BY <2>1, RecordsAre DEF Narrowed
  <2>2. CASE type = "int8"
    BY <2>2, RecordsAre DEF Register, Fits
  <2> QED BY <2>1, <2>2
<1>3. iw >= 0 => r.ix \in MachineInt(w)
  BY <1>1, LoopFits
<1>4. iw >= 0 /\ iz # 0 /\ ~DivisionFails(w, r.ix, iz) => m \in MachineInt(w)
  <2> HIDE DEF w, r
  <2> QED BY <1>1, <1>3, DivmodFits
<1>5. \/ PowResult(type, iv, iw, iz) \in
             {Raise("ZeroDivisionError"), Raise("ValueError"), Raise("OverflowError")}
      \/ iw >= 0 /\ PowResult(type, iv, iw, iz) = Made(r.ix)
      \/ /\ iw >= 0 /\ iz # 0 /\ ~DivisionFails(w, r.ix, iz)
         /\ PowResult(type, iv, iw, iz) = Made(m)
  <2>1. iw < 0 \/ iw >= 0
    OBVIOUS
  <2>2. /\ iw < 0 => PowResult(type, iv, iw, iz) \in {Raise("ZeroDivisionError"), Raise("ValueError")}
        /\ iw >= 0 /\ ~r.ok => PowResult(type, iv, iw, iz) = Raise("OverflowError")
        /\ iw >= 0 /\ r.ok /\ iz = 0 => PowResult(type, iv, iw, iz) = Made(r.ix)
        /\ iw >= 0 /\ r.ok /\ iz # 0 =>
              PowResult(type, iv, iw, iz) =
                  IF DivisionFails(w, r.ix, iz) THEN Raise("OverflowError") ELSE Made(m)
    BY PowIsLoop
  <2> HIDE DEF w, r, m, Made
  <2> QED BY <2>1, <2>2
<1> HIDE DEF w, r, m, Made
<1> QED BY <1>2, <1>3, <1>4, <1>5, RecordsAre

LEMMA BeyondIs ==
    ASSUME NEW u \in Nat \ {0}, u <= LONG_LONG_BIT
    PROVE  Beyond \in Nat /\ \A x \in Int : x >= Beyond \/ x <= -Beyond => ~Fits(u, x)
<1> DEFINE p == Pow(2, u - 1)
           q == Pow(2, LONG_LONG_BIT - 1)
<1>1. p \in Nat \ {0} /\ \A n : n \in MachineInt(u) <=> n \in Int /\ -p <= n /\ n < p
  BY WidthIs
<1>2. q \in Nat \ {0} /\ Beyond = 2 * q
  BY WidthsAre, WidthIs DEF Beyond
<1>3. p <= q
  <2>1. u - 1 \in Nat /\ LONG_LONG_BIT - 1 \in Nat /\ u - 1 <= LONG_LONG_BIT - 1
    BY WidthsAre
  <2> QED BY <2>1, Pow2
<1> HIDE DEF p, q
<1> QED BY <1>1, <1>2, <1>3 DEF Fits

\* Without a modulus the power comes out, or an overflow when it does not fit.
LEMMA PlainPower ==
    ASSUME NEW type \in {"int2", "int8"}, Fits(Width(type), call.iv), call.iw \in Nat
    PROVE  LET o == PowResult(type, call.iv, call.iw, 0)
           IN  IF Fits(Width(type), FullPower) THEN IsNumber(o) /\ o.val = FullPower
               ELSE o.type = "OverflowError"
<1> DEFINE w == Register(type)
           u == Width(type)
           iv == call.iv
           iw == call.iw
           r == PowLoop(w, iv, iw, 0)
           Made(n) == IF type = "int2" THEN Narrowed(n) ELSE Int8(n)
           o == PowResult(type, iv, iw, 0)
           power == Pow(iv, iw)
<1>1. /\ w \in Nat \ {0, 1} /\ u \in Nat \ {0} /\ u <= LONG_LONG_BIT
      /\ u < w \/ (u = w /\ w % 2 = 0)
      /\ iv \in MachineInt(w) /\ iv \in Int /\ iw \in Int /\ iw >= 0 /\ iw \in Nat
  BY RegisterIs
<1>2. /\ ~r.ok => o = Raise("OverflowError")
      /\ r.ok => o = Made(r.ix)
  BY <1>1, PowIsLoop
<1>3. /\ r.ok => r.ix = power
      /\ ~r.ok => ~Fits(u, power)
  <2> HIDE DEF w, u, iv, iw
  <2>1. LET s == PowLoop(w, iv, iw, 0)
        IN  (s.ok => s.ix = Pow(iv, iw)) /\ (~s.ok => ~Fits(u, Pow(iv, iw)))
    BY ONLY <1>1, LoopExact
  <2> QED BY <2>1
<1>4. \A n : /\ Fits(u, n) => IsNumber(Made(n)) /\ Made(n).val = n
             /\ ~Fits(u, n) /\ n \in MachineInt(w) => Made(n).type = "OverflowError"
  <2>1. CASE type = "int2"
    BY <2>1, RecordsAre DEF Narrowed, Width
  <2>2. CASE type = "int8"
    BY <2>2, RecordsAre DEF Width, Register, Fits
  <2> QED BY <2>1, <2>2
<1>5. r.ix \in MachineInt(w)
  BY <1>1, LoopFits
<1>6. power \in Int
  BY <1>1, Powers
<1>7. \/ FullPower = power
      \/ ~Fits(u, FullPower) /\ ~Fits(u, power)
  <2>1. \/ FullPower = power
        \/ FullPower \in {Beyond, -Beyond} /\ (power > Beyond \/ power < -Beyond)
    BY <1>1, FullPowerIs
  <2>2. Beyond \in Nat /\ \A x \in Int : x >= Beyond \/ x <= -Beyond => ~Fits(u, x)
    <3> HIDE DEF u
    <3> QED BY <1>1, BeyondIs
  <2> HIDE DEF u, power
  <2>3. ASSUME FullPower \in {Beyond, -Beyond}, power > Beyond \/ power < -Beyond
        PROVE  ~Fits(u, FullPower) /\ ~Fits(u, power)
    BY <1>6, <2>2, <2>3
  <2> QED BY <2>1, <2>3
<1>8. Raise("OverflowError").type = "OverflowError"
  BY RecordsAre
<1> HIDE DEF r, Made, power
<1>9. CASE r.ok
  <2>1. o = Made(power) /\ power \in MachineInt(w)
    BY <1>2, <1>3, <1>5, <1>9
  <2>2. CASE Fits(u, power)
    <3>1. FullPower = power
      BY <1>7, <2>2
    <3> QED BY <1>4, <2>1, <2>2, <3>1
  <2>3. CASE ~Fits(u, power)
    <3>1. ~Fits(u, FullPower)
      BY <1>7, <2>3
    <3>2. o.type = "OverflowError"
      BY <1>4, <2>1, <2>3
    <3> QED BY <3>1, <3>2
  <2> QED BY <2>2, <2>3
<1>10. CASE ~r.ok
  <2>1. ~Fits(u, FullPower)
    BY <1>3, <1>7, <1>10
  <2> QED BY <1>2, <1>8, <1>10, <2>1
<1> QED BY <1>9, <1>10

\* The modulus, or the base, that takes the most room.
PowFits(type, iv, iz) ==
    IF type = "int2" THEN Fits(SHORT_BIT, iz)
    ELSE Fits(LONG_LONG_BIT, iz * iz) /\ Fits(LONG_LONG_BIT, iv * iv)

LEMMA RoomIs ==
    ASSUME NEW type \in {"int2", "int8"}, NEW iv \in Int, Fits(Width(type), iv),
           NEW iz \in Int, iz # 0, PowFits(type, iv, iz)
    PROVE  \E C \in Nat \ {0} : /\ Magnitude(iv) <= C /\ Magnitude(iz) <= C
                                /\ C * C < Pow(2, Register(type) - 1)
<1>1. CASE type = "int2"
  <2> DEFINE C == Pow(2, SHORT_BIT - 1)
  <2>1. SHORT_BIT \in Nat \ {0} /\ LONG_BIT \in Nat \ {0} /\ 2 * SHORT_BIT <= LONG_BIT
    BY WidthsAre
  <2>2. C \in Nat \ {0} /\ \A n : n \in MachineInt(SHORT_BIT) <=> n \in Int /\ -C <= n /\ n < C
    BY <2>1, WidthIs
  <2>3. C * C < Pow(2, LONG_BIT - 1)
    <3> DEFINE k == SHORT_BIT - 1
    <3>1. k \in Nat /\ k + k \in Nat /\ (k + k) + 1 \in Nat /\ LONG_BIT - 1 \in Nat /\ (k + k) + 1 <= LONG_BIT - 1
      BY <2>1
    <3> HIDE DEF k
    <3>2. Pow(2, k + k) = Pow(2, k) * Pow(2, k)
      BY <3>1, Pow2
    <3>3. Pow(2, (k + k) + 1) = 2 * Pow(2, k + k) /\ Pow(2, k + k) \in Nat \ {0}
      BY <3>1, Pow2
    <3>4. Pow(2, (k + k) + 1) <= Pow(2, LONG_BIT - 1)
      BY <3>1, Pow2
    <3>5. Pow(2, LONG_BIT - 1) \in Nat
      BY <3>1, Pow2
    <3>6. Pow(2, k + k) < Pow(2, LONG_BIT - 1)
      BY <3>3, <3>4, <3>5
    <3> QED BY <3>2, <3>6 DEF k
  <2>4. -C <= iv /\ iv < C /\ -C <= iz /\ iz < C
    BY <1>1, <2>2 DEF Fits, Width, PowFits
  <2> HIDE DEF C
  <2>5. Magnitude(iv) <= C /\ Magnitude(iz) <= C
    BY <2>2, <2>4 DEF Magnitude
  <2>6. Register(type) = LONG_BIT
    BY <1>1 DEF Register
  <2> QED BY <2>2, <2>3, <2>5, <2>6
<1>2. CASE type = "int8"
  <2> DEFINE m == Pow(2, LONG_LONG_BIT - 1)
             a == Magnitude(iv)
             b == Magnitude(iz)
  <2>1. iz * iz < m /\ iv * iv < m
    BY <1>2, WidthsAre, WidthIs DEF PowFits, Fits
  <2>2. a \in Nat /\ b \in Nat \ {0}
    BY DEF Magnitude
  <2>3. a * a = iv * iv /\ b * b = iz * iz
    BY DEF Magnitude
  <2>4. Register(type) = LONG_LONG_BIT
    BY <1>2 DEF Register
  <2> HIDE DEF a, b, m
  <2>5. a * a < m /\ b * b < m
    BY <2>1, <2>3
  <2>6. CASE a <= b
    BY <2>2, <2>4, <2>5, <2>6 DEF a, b, m
  <2>7. CASE b <= a
    <3>1. a \in Nat \ {0}
      BY <2>2, <2>7
    <3> QED BY <2>2, <2>4, <2>5, <2>7, <3>1 DEF a, b, m
  <2> QED BY <2>2, <2>6, <2>7
<1> QED BY <1>1, <1>2

\* With a modulus that can be squared, the power modulo it.
LEMMA ModulusPower ==
    ASSUME NEW type \in {"int2", "int8"}, Fits(Width(type), call.iv), call.iw \in Nat,
           call.iz \in MachineInt(LONG_BIT), call.iz # 0, PowFits(type, call.iv, call.iz)
    PROVE  LET o == PowResult(type, call.iv, call.iw, call.iz)
           IN  IsNumber(o) /\ o.val = ModularPower
<1> DEFINE w == Register(type)
           u == Width(type)
           iv == call.iv
           iw == call.iw
           iz == call.iz
           r == PowLoop(w, iv, iw, iz)
           Made(n) == IF type = "int2" THEN Narrowed(n) ELSE Int8(n)
           o == PowResult(type, iv, iw, iz)
           m == Pow(2, w - 1)
           f == FloorQuotient(r.ix, iz)
<1>1. /\ w \in Nat \ {0, 1} /\ w \in Nat \ {0}
      /\ iv \in MachineInt(w) /\ iv \in Int /\ iw \in Int /\ iw >= 0 /\ iw \in Nat
      /\ iz \in MachineInt(w) /\ iz \in Int /\ iz # 0
  BY RegisterIs
<1>2. PICK C \in Nat \ {0} : Magnitude(iv) <= C /\ Magnitude(iz) <= C /\ C * C < m
  <2>1. Fits(Width(type), iv) /\ PowFits(type, iv, iz)
    OBVIOUS
  <2> HIDE DEF iv, iz
  <2> QED BY ONLY <1>1, <2>1, type \in {"int2", "int8"}, RoomIs
<1>3. r.ok /\ Magnitude(r.ix) <= C * C
  <2> HIDE DEF w, iv, iw, iz
  <2>1. LET s == PowLoop(w, iv, iw, iz) IN s.ok /\ Magnitude(s.ix) <= C * C
    BY ONLY <1>1, <1>2, LoopRoomy
  <2> QED BY <2>1
<1>4. r.ix \in MachineInt(w) /\ r.ix \in Int
  <2> HIDE DEF w, iv, iw, iz
  <2>1. r.ix \in MachineInt(w)
    BY <1>1, LoopFits
  <2> QED BY <1>1, <2>1, WidthIs
<1>5. r.ix # Smallest(w) /\ ~DivisionFails(w, r.ix, iz)
  <2> DEFINE D == C * C
             x == r.ix
  <2>1. D \in Nat /\ m \in Nat /\ D < m /\ Magnitude(x) <= D /\ x \in Int
    BY <1>1, <1>2, <1>3, <1>4, WidthIs, Product
  <2> HIDE DEF D, x, m
  <2>2. -m < x
    BY <2>1 DEF Magnitude
  <2>3. x # -m
    BY <2>1, <2>2
  <2> QED BY <1>1, <2>3 DEF x, m, Smallest, DivisionFails
<1>6. o = Made(i_divmod(w, r.ix, iz).mod)
  BY <1>1, <1>3, <1>5, PowIsLoop
<1>7. i_divmod(w, r.ix, iz).mod = Modulo(r.ix, iz) /\ Fits(w, Modulo(r.ix, iz))
  <2> HIDE DEF w, r, iz
  <2>1. LET q == FloorQuotient(r.ix, iz)
        IN  /\ i_divmod(w, r.ix, iz) = [div |-> q, mod |-> r.ix - iz * q]
            /\ Fits(w, q) /\ Fits(w, r.ix - iz * q)
    BY ONLY <1>1, <1>4, <1>5, DivisionRoundsDown
  <2> QED BY <2>1 DEF Modulo
<1>8. Modulo(r.ix, iz) = ModularPower /\ InModulus(ModularPower, iz) /\ ModularPower \in Int
  <2>1. /\ ModularPower \in Int /\ InModulus(ModularPower, iz)
        /\ Congruent(ModularPower, Pow(iv, iw), iz)
    BY <1>1, ModularPowerIs
  <2>2. Congruent(r.ix, Pow(iv, iw), iz) /\ Pow(iv, iw) \in Int
    <3> HIDE DEF w, iv, iw, iz
    <3>1. Congruent(r.ix, Pow(iv, iw), iz)
      BY <1>1, <1>3, LoopCongruent
    <3> QED BY <1>1, <3>1, Powers
  <2> HIDE DEF r, iv, iw, iz
  <2>3. /\ Modulo(r.ix, iz) \in Int /\ Congruent(Modulo(r.ix, iz), r.ix, iz)
        /\ InModulus(Modulo(r.ix, iz), iz)
    BY <1>1, <1>4, ModuloIs
  <2>4. Congruent(Modulo(r.ix, iz), Pow(iv, iw), iz)
    BY <1>1, <1>4, <2>2, <2>3, CongruentIs
  <2>5. Congruent(Pow(iv, iw), ModularPower, iz)
    BY <1>1, <2>1, <2>2, CongruentIs
  <2>6. Congruent(Modulo(r.ix, iz), ModularPower, iz)
    BY <1>1, <2>1, <2>2, <2>3, <2>4, <2>5, CongruentIs
  <2>7. Modulo(r.ix, iz) = ModularPower
    BY <1>1, <2>1, <2>3, <2>6, OneRemainder
  <2> QED BY <2>1, <2>7
<1>9. o = Made(ModularPower) /\ Fits(w, ModularPower)
  BY <1>6, <1>7, <1>8
<1>10. CASE type = "int8"
  <2>1. o = Int8(ModularPower)
    BY <1>9, <1>10
  <2> HIDE DEF o
  <2>2. IsNumber(o) /\ o.val = ModularPower
    BY <2>1, RecordsAre
  <2> QED BY <2>2 DEF o
<1>11. CASE type = "int2"
  <2> DEFINE k == Pow(2, SHORT_BIT - 1)
  <2>1. k \in Nat \ {0} /\ \A n : n \in MachineInt(SHORT_BIT) <=> n \in Int /\ -k <= n /\ n < k
    BY WidthsAre, WidthIs
  <2>2. -k <= iz /\ iz < k
    BY <1>11, <2>1 DEF PowFits, Fits
  <2> HIDE DEF k, iz
  <2>3. -k <= ModularPower /\ ModularPower < k
    BY <1>1, <1>8, <2>1, <2>2 DEF InModulus
  <2>4. Fits(SHORT_BIT, ModularPower)
    BY <1>8, <2>1, <2>3 DEF Fits
  <2>5. o = Int2(ModularPower)
    BY <1>9, <1>11, <2>4 DEF Narrowed
  <2> HIDE DEF o
  <2>6. IsNumber(o) /\ o.val = ModularPower
    BY <2>5, RecordsAre
  <2> QED BY <2>6 DEF o, iz
<1> QED BY <1>10, <1>11

-----------------------------------------------------------------------------
PowCall(type, iv, iw, iz) == [fn |-> "pow", type |-> type, iv |-> iv, iw |-> iw, iz |-> iz]

\* A pow is described by its operands, which fit their type.
PowInv == call.fn = "pow" =>
    \E type \in {"int2", "int8"}, iv \in Bases, iw \in Exponents, iz \in Moduli :
        /\ Fits(Width(type), iv) /\ Fits(Width(type), iw)
        /\ call = PowCall(type, iv, iw, iz)
        /\ outcome = {PowResult(type, iv, iw, iz)}

LEMMA OutcomesOfPow == Spec => []PowInv
<1>1. Init => PowInv
  BY DEF Init, Idle, PowInv
<1>2. ASSUME Next
      PROVE  PowInv'
  <2> SUFFICES ASSUME call'.fn = "pow"
               PROVE  PowInv'
    BY DEF PowInv
  <2>1. Power
    BY <1>2, FnOf
  <2>2. PICK type \in {"int2", "int8"}, iv \in Bases, iw \in Exponents, iz \in Moduli :
            /\ Fits(Width(type), iv)
            /\ Fits(Width(type), iw)
            /\ Returns([fn |-> "pow", type |-> type, iv |-> iv, iw |-> iw, iz |-> iz],
                       {PowResult(type, iv, iw, iz)})
    BY ONLY <2>1, Zenon DEF Power, PowResult, Width
  <2>3. call' = PowCall(type, iv, iw, iz) /\ outcome' = {PowResult(type, iv, iw, iz)}
    BY <2>2 DEF PowCall, Returns
  <2> QED BY <2>2, <2>3 DEF PowInv
<1>3. PowInv /\ [Next]_vars => PowInv'
  <2>1. CASE UNCHANGED vars
    BY <2>1 DEF vars, PowInv
  <2> QED BY <1>2, <2>1
<1> QED BY <1>1, <1>3, PTL DEF Spec

\* pow is exact for every base, exponent and modulus: without a modulus it gives
\* the power or an overflow, and an overflow only when the power leaves the
\* type, although the loop multiplies and squares on; with a modulus whose
\* square fits no product is lost and the result is the one of Python.
THEOREM PowersAreExact == Spec => []PowersExact
<1>1. ASSUME PowInv
      PROVE  PowersExact
  <2> SUFFICES ASSUME call.fn = "pow", call.iw >= 0, NEW o \in outcome
               PROVE  /\ call.iz = 0 => IF Fits(PowBits, FullPower) THEN IsNumber(o) /\ o.val = FullPower
                                        ELSE o.type = "OverflowError"
                      /\ call.iz # 0 /\ ModulusFits => IsNumber(o) /\ o.val = ModularPower
    BY DEF PowersExact
  <2>1. PICK type \in {"int2", "int8"}, iv \in Bases, iw \in Exponents, iz \in Moduli :
            /\ Fits(Width(type), iv) /\ Fits(Width(type), iw)
            /\ call = PowCall(type, iv, iw, iz)
            /\ outcome = {PowResult(type, iv, iw, iz)}
    BY <1>1 DEF PowInv
  <2>2. /\ call.type = type /\ call.iv = iv /\ call.iw = iw /\ call.iz = iz
        /\ iv \in Int /\ iw \in Int /\ iz \in MachineInt(LONG_BIT)
        /\ o = PowResult(type, iv, iw, iz)
    BY <2>1, ValuesAssumption DEF PowCall
  <2>3. /\ Fits(Width(type), call.iv) /\ call.iw \in Nat /\ call.iz \in MachineInt(LONG_BIT)
        /\ o = PowResult(type, call.iv, call.iw, call.iz)
    BY <2>1, <2>2
  <2>4. PowBits = Width(type) /\ (ModulusFits => PowFits(type, call.iv, call.iz))
    BY <2>2 DEF PowBits, Width, ModulusFits, PowFits
  <2>5. ASSUME call.iz = 0
        PROVE  IF Fits(PowBits, FullPower) THEN IsNumber(o) /\ o.val = FullPower
               ELSE o.type = "OverflowError"
    <3>1. LET p == PowResult(type, call.iv, call.iw, 0)
          IN  IF Fits(Width(type), FullPower) THEN IsNumber(p) /\ p.val = FullPower
              ELSE p.type = "OverflowError"
      BY ONLY <2>3, type \in {"int2", "int8"}, PlainPower
    <3>2. o = PowResult(type, call.iv, call.iw, 0)
      BY <2>3, <2>5
    <3> QED BY <2>4, <3>1, <3>2
  <2>6. ASSUME call.iz # 0, ModulusFits
        PROVE  IsNumber(o) /\ o.val = ModularPower
    <3>1. LET p == PowResult(type, call.iv, call.iw, call.iz)
          IN  IsNumber(p) /\ p.val = ModularPower
      BY ONLY <2>3, <2>4, <2>6, type \in {"int2", "int8"}, ModulusPower
    <3> QED BY <2>3, <3>1
  <2> QED BY <2>5, <2>6
<1> QED BY <1>1, OutcomesOfPow, PTL

\* No operator, no pow, no conversion and no literal gives a number outside of
\* the range of its type: nothing wraps or is narrowed in silence.
THEOREM ResultsFitTheirTypes == Spec => []TypeOK
<1>1. ASSUME OperatorInv, LiteralInv, PowInv
      PROVE  TypeOK
  <2> SUFFICES ASSUME call.fn \in Numbers, NEW o \in outcome
               PROVE  InType(o)
    BY DEF TypeOK
  <2>1. CASE call.fn = "binary"
    BY <1>1, <2>1, BinaryOutcomes DEF OperatorInv
  <2>2. CASE call.fn = "unary"
    <3>1. PICK op \in {"neg", "abs", "invert"}, v \in Operands :
              /\ v.type \in {"int2", "int8"} /\ call = UnaryCall(op, v) /\ outcome = {UnaryResult(op, v)}
      BY <1>1, <2>2 DEF OperatorInv, UnaryInv
    <3>2. v \in PyIntegers /\ o = UnaryResult(op, v)
      BY <3>1, ValuesAssumption
    <3> QED BY <3>1, <3>2, UnaryIs
  <2>3. CASE call.fn = "convert"
    <3>1. PICK type \in {"int2", "int8"}, v \in Operands :
              call = ConvertCall(type, v) /\ outcome = {ConvertResult(type, v)}
      BY <1>1, <2>3 DEF OperatorInv, ConvertInv
    <3>2. v \in PyIntegers /\ o = ConvertResult(type, v)
      BY <3>1, ValuesAssumption
    <3> QED BY <3>2, ConvertIs
  <2>4. CASE call.fn = "integer"
    <3>1. PICK type \in {"int2", "int8"}, text \in Literals10 :
              call = IntegerCall(type, text) /\ outcome = {ReadResult(type, text)}
      BY <1>1, <2>4 DEF LiteralInv, IntegerInv
    <3>2. text \in Seq(STRING) /\ o = ReadResult(type, text)
      BY <3>1, ValuesAssumption
    <3>3. \/ Fits(Width(type), Denoted(text)) /\ o = Value(type, Denoted(text))
          \/ o = Raise("ValueError")
      BY <3>2, FromStringIs
    <3>4. Fits(Width(type), Denoted(text)) => InType(Value(type, Denoted(text)))
      BY RecordsAre DEF Width, Int2, Int8
    <3> QED BY <3>3, <3>4, RecordsAre
  <2>5. CASE call.fn = "pow"
    <3>1. PICK type \in {"int2", "int8"}, iv \in Bases, iw \in Exponents, iz \in Moduli :
              /\ Fits(Width(type), iv) /\ Fits(Width(type), iw)
              /\ call = PowCall(type, iv, iw, iz)
              /\ outcome = {PowResult(type, iv, iw, iz)}
      BY <1>1, <2>5 DEF PowInv
    <3>2. iw \in Int /\ iz \in MachineInt(LONG_BIT) /\ o = PowResult(type, iv, iw, iz)
      BY <3>1, ValuesAssumption
    <3> QED BY <3>1, <3>2, PowInType
  <2> QED BY <2>1, <2>2, <2>3, <2>4, <2>5 DEF Numbers
<1> QED BY <1>1, OutcomesOfOperators, OutcomesOfTexts, OutcomesOfPow, PTL

-----------------------------------------------------------------------------
(* Texts that are quoted, and read back. *)

Esc(c, escape) == IF c \in DOMAIN escape THEN <<escape[c], c>> ELSE <<c>>
IsEscaped(s, escape, f) ==
    /\ f[0] = <<>>
    /\ \A k \in 1 .. Len(s) : f[k] = f[k - 1] \o Esc(s[k], escape)
    /\ \A k \in 0 .. Len(s) : f[k] \in Seq(Characters)

LEMMA PairsAre ==
    ASSUME NEW S, NEW a \in S, NEW b \in S
    PROVE  <<a, b>> \in Seq(S) /\ <<a, b>> = <<a>> \o <<b>>
<1>1. <<a, b>> \in Seq(S) /\ Len(<<a, b>>) = 2 /\ <<a, b>>[1] = a /\ <<a, b>>[2] = b
  OBVIOUS
<1> DEFINE t == <<a>> \o <<b>>
<1>2. t \in Seq(S) /\ Len(t) = 2 /\ t[1] = a /\ t[2] = b
  OBVIOUS
<1> HIDE DEF t
<1>3. \A i \in 1 .. 2 : i = 1 \/ i = 2
  OBVIOUS
<1>4. <<a, b>> = t
  BY <1>1, <1>2, <1>3, SeqEqual
<1> QED BY <1>1, <1>4 DEF t

LEMMA EscapedIs ==
    ASSUME NEW s \in Seq(Characters), NEW escape, \A c \in DOMAIN escape : escape[c] \in Characters
    PROVE  \E f : IsEscaped(s, escape, f) /\ Escaped(s, escape) = f[Len(s)]
<1> DEFINE n == Len(s)
           x(k) == Esc(s[k], escape)
           out == CHOOSE f : f = [k \in 0 .. n |-> IF k = 0 THEN <<>> ELSE f[k - 1] \o x(k)]
           g == [p \in Seq(Characters) \X (1 .. n) |-> p[1] \o x(p[2])]
<1>1. n \in Nat /\ \A k \in 1 .. n : x(k) \in Seq(Characters)
  <2>1. \A k \in 1 .. n : s[k] \in Characters
    OBVIOUS
  <2>2. ASSUME NEW c \in Characters
        PROVE  Esc(c, escape) \in Seq(Characters)
    <3>1. <<c>> \in Seq(Characters) /\ (c \in DOMAIN escape => <<escape[c], c>> \in Seq(Characters))
      BY SinglesAre, PairsAre
    <3> QED BY <3>1, Zenon DEF Esc
  <2>3. n \in Nat
    OBVIOUS
  <2> QED BY <2>1, <2>2, <2>3
<1>2. Escaped(s, escape) = out[n]
  BY DEF Escaped, Esc
<1>3. g \in [Seq(Characters) \X (1 .. n) -> Seq(Characters)] /\ <<>> \in Seq(Characters)
  <2> HIDE DEF x, n
  <2> QED BY <1>1
<1>4. PICK f \in [0 .. n -> Seq(Characters)] : IsRecursion(f, n, <<>>, g)
  <2> HIDE DEF g, n
  <2> QED BY <1>1, <1>3, RecursiveExists
<1>5. ASSUME NEW k \in 1 .. n
      PROVE  g[<<f[k - 1], k>>] = f[k - 1] \o x(k)
  <2> HIDE DEF x, n
  <2>1. k - 1 \in 0 .. n
    BY <1>1
  <2>2. <<f[k - 1], k>> \in Seq(Characters) \X (1 .. n)
    BY <1>4, <2>1
  <2> QED BY <2>2
<1> HIDE DEF g, n, x
<1>6. f = [k \in 0 .. n |-> IF k = 0 THEN <<>> ELSE f[k - 1] \o x(k)]
  <2> DEFINE v(k) == IF k = 0 THEN <<>> ELSE f[k - 1] \o x(k)
  <2>1. \A k \in 0 .. n : f[k] = v(k)
    <3>1. \A k \in 0 .. n : k = 0 \/ k \in 1 .. n
      BY <1>1
    <3> QED BY <1>4, <1>5, <3>1 DEF IsRecursion
  <2>2. f = [k \in 0 .. n |-> f[k]]
    BY <1>4
  <2> HIDE DEF v
  <2>3. f = [k \in 0 .. n |-> v(k)]
    BY <2>1, <2>2
  <2> QED BY <2>3 DEF v
<1>7. out = [k \in 0 .. n |-> IF k = 0 THEN <<>> ELSE out[k - 1] \o x(k)]
  BY <1>6
<1> HIDE DEF out
<1>8. out[0] = <<>> /\ \A k \in 1 .. n : out[k] = out[k - 1] \o x(k)
  <2>1. \A k \in 0 .. n : out[k] = IF k = 0 THEN <<>> ELSE out[k - 1] \o x(k)
    BY <1>7
  <2>2. 0 \in 0 .. n /\ \A k \in 1 .. n : k \in 0 .. n /\ k # 0
    BY <1>1
  <2> QED BY <2>1, <2>2, Zenon
<1> DEFINE Holds == {k \in Nat : out[k] \in Seq(Characters)}
<1>9. 0 \in Holds
  <2>1. <<>> \in Seq(Characters) /\ 0 \in Nat
    OBVIOUS
  <2> QED BY <1>8, <2>1
<1>10. ASSUME NEW k \in 1 .. n, k - 1 \in Holds
       PROVE  k \in Holds
  <2>1. out[k - 1] \in Seq(Characters) /\ x(k) \in Seq(Characters) /\ k \in Nat
    BY <1>1, <1>10
  <2>2. out[k] \in Seq(Characters)
    <3>1. out[k - 1] \o x(k) \in Seq(Characters)
      BY <2>1, ConcatProperties
    <3> QED BY <1>8, <3>1
  <2> QED BY <2>1, <2>2
<1> HIDE DEF Holds
<1>11. \A k \in 0 .. n : k \in Holds
  BY <1>1, <1>9, <1>10, Climb
<1>12. \A k \in 0 .. n : out[k] \in Seq(Characters)
  BY <1>11 DEF Holds
<1>13. IsEscaped(s, escape, out)
  BY <1>8, <1>12 DEF IsEscaped, n, x
<1> QED BY <1>2, <1>13 DEF n

LEMMA EscapedStep ==
    ASSUME NEW escape, \A c \in DOMAIN escape : escape[c] \in Characters
    PROVE  /\ Escaped(<<>>, escape) = <<>>
           /\ \A s \in Texts, x \in Characters :
                 /\ Escaped(s, escape) \in Texts
                 /\ Escaped(s \o <<x>>, escape) = Escaped(s, escape) \o Esc(x, escape)
<1>1. Escaped(<<>>, escape) = <<>>
  <2>1. <<>> \in Seq(Characters) /\ Len(<<>>) = 0
    OBVIOUS
  <2>2. PICK f : IsEscaped(<<>>, escape, f) /\ Escaped(<<>>, escape) = f[Len(<<>>)]
    BY <2>1, EscapedIs
  <2> QED BY <2>1, <2>2 DEF IsEscaped
<1>2. ASSUME NEW s \in Texts, NEW x \in Characters
      PROVE  /\ Escaped(s, escape) \in Texts
             /\ Escaped(s \o <<x>>, escape) = Escaped(s, escape) \o Esc(x, escape)
  <2> DEFINE t == s \o <<x>>
             n == Len(s)
  <2>0. s \in Seq(Characters)
    BY DEF Texts
  <2>1. t \in Seq(Characters) /\ Len(t) = n + 1 /\ n \in Nat /\ t[n + 1] = x /\ \A i \in 1 .. n : t[i] = s[i]
    <3>1. /\ s \o <<x>> \in Seq(Characters) /\ Len(s \o <<x>>) = Len(s) + 1 /\ Len(s) \in Nat
          /\ \A i \in 1 .. Len(s) : (s \o <<x>>)[i] = s[i]
          /\ (s \o <<x>>)[Len(s) + 1] = x
      BY <2>0, AppendIs
    <3> QED BY <3>1, Zenon
  <2> HIDE DEF t, n
  <2>2. PICK f : IsEscaped(s, escape, f) /\ Escaped(s, escape) = f[Len(s)]
    BY <2>0, EscapedIs
  <2>3. PICK h : IsEscaped(t, escape, h) /\ Escaped(t, escape) = h[Len(t)]
    BY <2>1, EscapedIs
  <2>4. /\ f[0] = <<>> /\ h[0] = <<>> /\ h[n] \in Seq(Characters)
        /\ \A k \in 1 .. n : f[k] = f[k - 1] \o Esc(s[k], escape)
        /\ \A k \in 1 .. n : h[k] = h[k - 1] \o Esc(s[k], escape)
        /\ h[n + 1] = h[n] \o Esc(x, escape)
    <3>1. n + 1 \in 1 .. n + 1 /\ (n + 1) - 1 = n /\ n \in 0 .. n + 1 /\ \A k \in 1 .. n : k \in 1 .. n + 1
      BY <2>1
    <3> QED BY <2>1, <2>2, <2>3, <3>1 DEF IsEscaped, n
  <2> DEFINE Holds == {k \in Nat : f[k] = h[k]}
  <2>5. 0 \in Holds
    BY <2>4
  <2>6. ASSUME NEW k \in 1 .. n, k - 1 \in Holds
        PROVE  k \in Holds
    <3>1. k \in Nat /\ f[k - 1] = h[k - 1]
      BY <2>6
    <3> QED BY <2>4, <3>1
  <2> HIDE DEF Holds
  <2>7. n \in Holds
    <3>1. \A k \in 0 .. n : k \in Holds
      BY <2>1, <2>5, <2>6, Climb
    <3> QED BY <2>1, <3>1
  <2>8. f[n] = h[n]
    BY <2>7 DEF Holds
  <2>9. Escaped(s, escape) = f[n] /\ Escaped(t, escape) = h[n + 1]
    BY <2>1, <2>2, <2>3 DEF n
  <2> QED BY <2>4, <2>8, <2>9 DEF t, Texts
<1> QED BY <1>1, <1>2

\* A literal without its quotes, read to its end.
ReadState == [out : Texts, held : BOOLEAN]
ReadText(body, escapes) ==
    LET read[k \in 0 .. Len(body)] ==
            IF k = 0 THEN [out |-> <<>>, held |-> FALSE] ELSE ReadCharacter(read[k - 1], body[k], escapes)
    IN read[Len(body)]

IsRead(body, escapes, f) ==
    /\ f[0] = [out |-> <<>>, held |-> FALSE]
    /\ \A k \in 1 .. Len(body) : f[k] = ReadCharacter(f[k - 1], body[k], escapes)
    /\ \A k \in 0 .. Len(body) : f[k] \in ReadState

LEMMA ReadCharacterIs ==
    ASSUME NEW st \in ReadState, NEW c \in Characters, NEW escapes
    PROVE  LET r == ReadCharacter(st, c, escapes)
           IN  /\ r \in ReadState
               /\ c \in escapes /\ ~st.held => r.out = st.out /\ r.held = TRUE
               /\ ~(c \in escapes /\ ~st.held) => r.out = st.out \o <<c>> /\ r.held = FALSE
<1> DEFINE r == ReadCharacter(st, c, escapes)
<1>1. st.out \in Texts /\ st.held \in BOOLEAN
  BY DEF ReadState
<1>2. CASE c \in escapes /\ ~st.held
  <2>1. r = [st EXCEPT !.held = TRUE]
    BY <1>2 DEF ReadCharacter
  <2>2. r \in ReadState /\ r.out = st.out /\ r.held = TRUE
    BY <2>1 DEF ReadState
  <2> QED BY <1>2, <2>2
<1>3. CASE ~(c \in escapes /\ ~st.held)
  <2>1. r = [out |-> Append(st.out, c), held |-> FALSE]
    BY <1>3 DEF ReadCharacter
  <2>2. Append(st.out, c) = st.out \o <<c>> /\ Append(st.out, c) \in Texts
    BY <1>1, AppendProperties, AppendIs DEF Texts
  <2>3. r \in ReadState /\ r.out = st.out \o <<c>> /\ r.held = FALSE
    BY <2>1, <2>2 DEF ReadState
  <2> QED BY <1>3, <2>3
<1> QED BY <1>2, <1>3

LEMMA ReadIs ==
    ASSUME NEW s \in Seq(Characters), NEW escapes
    PROVE  \E f : IsRead(s, escapes, f) /\ ReadText(s, escapes) = f[Len(s)]
<1> DEFINE n == Len(s)
           x(st, k) == ReadCharacter(st, s[k], escapes)
           first == [out |-> <<>>, held |-> FALSE]
           read == CHOOSE f : f = [k \in 0 .. n |-> IF k = 0 THEN first ELSE x(f[k - 1], k)]
           g == [p \in ReadState \X (1 .. n) |-> x(p[1], p[2])]
<1>1. n \in Nat /\ first \in ReadState /\ \A k \in 1 .. n : \A st \in ReadState : x(st, k) \in ReadState
  <2>1. n \in Nat /\ \A k \in 1 .. n : s[k] \in Characters
    OBVIOUS
  <2>2. first \in ReadState
    <3>1. <<>> \in Texts
      BY EmptySeq DEF Texts
    <3> QED BY <3>1 DEF ReadState
  <2>3. \A k \in 1 .. n : \A st \in ReadState : ReadCharacter(st, s[k], escapes) \in ReadState
    <3> HIDE DEF n
    <3> QED BY <2>1, ReadCharacterIs
  <2> QED BY <2>1, <2>2, <2>3
<1>2. ReadText(s, escapes) = read[n]
  BY DEF ReadText
<1>3. g \in [ReadState \X (1 .. n) -> ReadState] /\ first \in ReadState
  <2> HIDE DEF x, n, first
  <2> QED BY <1>1
<1>4. PICK f \in [0 .. n -> ReadState] : IsRecursion(f, n, first, g)
  <2> HIDE DEF g, n, first
  <2> QED BY <1>1, <1>3, RecursiveExists
<1>5. ASSUME NEW k \in 1 .. n
      PROVE  g[<<f[k - 1], k>>] = x(f[k - 1], k)
  <2> HIDE DEF x, n, first
  <2>1. k - 1 \in 0 .. n
    BY <1>1
  <2>2. <<f[k - 1], k>> \in ReadState \X (1 .. n)
    BY <1>4, <2>1
  <2> QED BY <2>2
<1> HIDE DEF g, n, x, first
<1>6. f = [k \in 0 .. n |-> IF k = 0 THEN first ELSE x(f[k - 1], k)]
  <2> DEFINE v(k) == IF k = 0 THEN first ELSE x(f[k - 1], k)
  <2>1. \A k \in 0 .. n : f[k] = v(k)
    <3>1. \A k \in 0 .. n : k = 0 \/ k \in 1 .. n
      BY <1>1
    <3> QED BY <1>4, <1>5, <3>1 DEF IsRecursion
  <2>2. f = [k \in 0 .. n |-> f[k]]
    BY <1>4
  <2> HIDE DEF v
  <2>3. f = [k \in 0 .. n |-> v(k)]
    BY <2>1, <2>2
  <2> QED BY <2>3 DEF v
<1>7. read = [k \in 0 .. n |-> IF k = 0 THEN first ELSE x(read[k - 1], k)]
  BY <1>6
<1> HIDE DEF read
<1>8. read[0] = first /\ \A k \in 1 .. n : read[k] = x(read[k - 1], k)
  <2>1. \A k \in 0 .. n : read[k] = IF k = 0 THEN first ELSE x(read[k - 1], k)
    BY <1>7
  <2>2. 0 \in 0 .. n /\ \A k \in 1 .. n : k \in 0 .. n /\ k # 0
    BY <1>1
  <2> QED BY <2>1, <2>2, Zenon
<1> DEFINE Holds == {k \in Nat : read[k] \in ReadState}
<1>9. 0 \in Holds
  BY <1>1, <1>8
<1>10. ASSUME NEW k \in 1 .. n, k - 1 \in Holds
       PROVE  k \in Holds
  <2>1. read[k - 1] \in ReadState /\ k \in Nat
    BY <1>1, <1>10
  <2>2. read[k] \in ReadState
    BY <1>1, <1>8, <2>1
  <2> QED BY <2>1, <2>2
<1> HIDE DEF Holds
<1>11. \A k \in 0 .. n : k \in Holds
  BY <1>1, <1>9, <1>10, Climb
<1>12. \A k \in 0 .. n : read[k] \in ReadState
  BY <1>11 DEF Holds
<1>13. IsRead(s, escapes, read)
  BY <1>8, <1>12 DEF IsRead, n, x, first
<1> QED BY <1>2, <1>13 DEF n

LEMMA ReadStep ==
    ASSUME NEW escapes
    PROVE  /\ ReadText(<<>>, escapes) = [out |-> <<>>, held |-> FALSE]
           /\ \A s \in Texts, x \in Characters :
                 /\ ReadText(s, escapes) \in ReadState
                 /\ ReadText(s \o <<x>>, escapes) = ReadCharacter(ReadText(s, escapes), x, escapes)
<1>1. ReadText(<<>>, escapes) = [out |-> <<>>, held |-> FALSE]
  <2>1. <<>> \in Seq(Characters) /\ Len(<<>>) = 0
    OBVIOUS
  <2>2. PICK f : IsRead(<<>>, escapes, f) /\ ReadText(<<>>, escapes) = f[Len(<<>>)]
    BY <2>1, ReadIs
  <2> QED BY <2>1, <2>2 DEF IsRead
<1>2. ASSUME NEW s \in Texts, NEW x \in Characters
      PROVE  /\ ReadText(s, escapes) \in ReadState
             /\ ReadText(s \o <<x>>, escapes) = ReadCharacter(ReadText(s, escapes), x, escapes)
  <2> DEFINE t == s \o <<x>>
             n == Len(s)
  <2>0. s \in Seq(Characters)
    BY DEF Texts
  <2>1. t \in Seq(Characters) /\ Len(t) = n + 1 /\ n \in Nat /\ t[n + 1] = x /\ \A i \in 1 .. n : t[i] = s[i]
    <3>1. /\ s \o <<x>> \in Seq(Characters) /\ Len(s \o <<x>>) = Len(s) + 1 /\ Len(s) \in Nat
          /\ \A i \in 1 .. Len(s) : (s \o <<x>>)[i] = s[i]
          /\ (s \o <<x>>)[Len(s) + 1] = x
      BY <2>0, AppendIs
    <3> QED BY <3>1, Zenon
  <2> HIDE DEF t, n
  <2>2. PICK f : IsRead(s, escapes, f) /\ ReadText(s, escapes) = f[Len(s)]
    BY <2>0, ReadIs
  <2>3. PICK h : IsRead(t, escapes, h) /\ ReadText(t, escapes) = h[Len(t)]
    BY <2>1, ReadIs
  <2>4. /\ f[0] = h[0] /\ h[n] \in ReadState
        /\ \A k \in 1 .. n : f[k] = ReadCharacter(f[k - 1], s[k], escapes)
        /\ \A k \in 1 .. n : h[k] = ReadCharacter(h[k - 1], s[k], escapes)
        /\ h[n + 1] = ReadCharacter(h[n], x, escapes)
    <3>1. n + 1 \in 1 .. n + 1 /\ (n + 1) - 1 = n /\ n \in 0 .. n + 1 /\ \A k \in 1 .. n : k \in 1 .. n + 1
      BY <2>1
    <3> QED BY <2>1, <2>2, <2>3, <3>1 DEF IsRead, n
  <2> DEFINE Holds == {k \in Nat : f[k] = h[k]}
  <2>5. 0 \in Holds
    BY <2>4
  <2>6. ASSUME NEW k \in 1 .. n, k - 1 \in Holds
        PROVE  k \in Holds
    <3>1. k \in Nat /\ f[k - 1] = h[k - 1]
      BY <2>6
    <3> QED BY <2>4, <3>1
  <2> HIDE DEF Holds
  <2>7. n \in Holds
    <3>1. \A k \in 0 .. n : k \in Holds
      BY <2>1, <2>5, <2>6, Climb
    <3> QED BY <2>1, <3>1
  <2>8. f[n] = h[n]
    BY <2>7 DEF Holds
  <2>9. ReadText(s, escapes) = f[n] /\ ReadText(t, escapes) = h[n + 1]
    BY <2>1, <2>2, <2>3 DEF n
  <2> QED BY <2>4, <2>8, <2>9 DEF t
<1> QED BY <1>1, <1>2

\* What is escaped is read as it was, after a prefix that is read as it is, when
\* the characters that are escaped are the ones that escape.
IsReadAs(body, escapes, text) ==
    ReadText(body, escapes).out = text /\ ReadText(body, escapes).held = FALSE

LEMMA PlainRead ==
    ASSUME NEW escapes, NEW body \in Texts, NEW text \in Texts, IsReadAs(body, escapes, text),
           NEW x \in Characters, x \notin escapes
    PROVE  IsReadAs(body \o <<x>>, escapes, text \o <<x>>)
<1> DEFINE st == ReadText(body, escapes)
<1>1. st \in ReadState /\ ReadText(body \o <<x>>, escapes) = ReadCharacter(st, x, escapes)
  BY ReadStep
<1>2. st.out = text
  BY DEF IsReadAs
<1> HIDE DEF st
<1>3. LET r == ReadCharacter(st, x, escapes) IN r.out = st.out \o <<x>> /\ r.held = FALSE
  BY <1>1, ReadCharacterIs
<1> QED BY <1>1, <1>2, <1>3 DEF IsReadAs

LEMMA EscapedRead ==
    ASSUME NEW escapes, NEW body \in Texts, NEW text \in Texts, IsReadAs(body, escapes, text),
           NEW e \in Characters, e \in escapes, NEW x \in Characters
    PROVE  IsReadAs((body \o <<e>>) \o <<x>>, escapes, text \o <<x>>)
<1> DEFINE st == ReadText(body, escapes)
           half == body \o <<e>>
           su == ReadText(half, escapes)
<1>1. st \in ReadState /\ su = ReadCharacter(st, e, escapes)
  BY ReadStep
<1>2. st.out = text /\ ~st.held
  BY DEF IsReadAs
<1>3. half \in Texts
  BY AppendIs DEF Texts
<1>4. su \in ReadState /\ ReadText(half \o <<x>>, escapes) = ReadCharacter(su, x, escapes)
  <2> HIDE DEF half
  <2> QED BY <1>3, ReadStep
<1> HIDE DEF st, su, half
<1>5. su.out = st.out /\ su.held = TRUE
  <2>1. LET r == ReadCharacter(st, e, escapes)
        IN  e \in escapes /\ ~st.held => r.out = st.out /\ r.held = TRUE
    BY <1>1, ReadCharacterIs
  <2> QED BY <1>1, <1>2, <2>1
<1>6. LET r == ReadCharacter(su, x, escapes)
      IN  ~(x \in escapes /\ ~su.held) => r.out = su.out \o <<x>> /\ r.held = FALSE
  BY <1>4, ReadCharacterIs
<1> QED BY <1>2, <1>4, <1>5, <1>6 DEF IsReadAs, half

LEMMA ReadsBack ==
    ASSUME NEW escape, NEW escapes, DOMAIN escape \subseteq escapes, escapes \subseteq DOMAIN escape,
           \A c \in DOMAIN escape : escape[c] \in escapes /\ escape[c] \in Characters,
           NEW p \in Texts, IsReadAs(p, escapes, p), NEW s \in Texts
    PROVE  IsReadAs(p \o Escaped(s, escape), escapes, p \o s)
<1> DEFINE Holds == {t \in Texts : IsReadAs(p \o Escaped(t, escape), escapes, p \o t)}
<1>1. <<>> \in Holds
  <2>1. Escaped(<<>>, escape) = <<>> /\ <<>> \in Texts
    BY EscapedStep, EmptySeq DEF Texts
  <2>2. p \o <<>> = p
    BY ConcatEmptySeq DEF Texts
  <2> QED BY <2>1, <2>2
<1>2. ASSUME NEW t \in Texts, NEW x \in Characters, t \in Holds
      PROVE  t \o <<x>> \in Holds
  <2> DEFINE E == Escaped(t, escape)
             b == p \o E
             q == p \o t
  <2>1. /\ E \in Texts /\ Escaped(t \o <<x>>, escape) = E \o Esc(x, escape)
        /\ t \o <<x>> \in Texts
    BY EscapedStep, AppendIs DEF Texts
  <2> HIDE DEF E
  <2>2. b \in Texts /\ q \in Texts
    BY <2>1, ConcatProperties DEF Texts
  <2>3. IsReadAs(b, escapes, q)
    BY <1>2 DEF E
  <2>4. q \o <<x>> = p \o (t \o <<x>>)
    <3>1. <<x>> \in Texts
      BY SinglesAre DEF Texts
    <3> QED BY <3>1, ConcatAssociative DEF Texts
  <2>5. CASE x \in DOMAIN escape
    <3> DEFINE e == escape[x]
    <3>1. e \in escapes /\ e \in Characters
      BY <2>5
    <3> HIDE DEF e
    <3>2. Esc(x, escape) = <<e>> \o <<x>> /\ <<e>> \in Texts /\ <<x>> \in Texts /\ <<e>> \o <<x>> \in Texts
      BY <2>5, <3>1, PairsAre, SinglesAre DEF Esc, e, Texts
    <3>3. p \o (E \o (<<e>> \o <<x>>)) = (b \o <<e>>) \o <<x>>
      <4>1. p \o (E \o (<<e>> \o <<x>>)) = (p \o E) \o (<<e>> \o <<x>>)
        <5>1. /\ p \in Seq(Characters) /\ E \in Seq(Characters)
              /\ <<e>> \o <<x>> \in Seq(Characters)
          BY <2>1, <3>2 DEF Texts
        <5> QED BY ONLY <5>1, ConcatAssociative
      <4>2. b \o (<<e>> \o <<x>>) = (b \o <<e>>) \o <<x>>
        <5> HIDE DEF b
        <5> QED BY <2>2, <3>2, ConcatAssociative DEF Texts
      <4> QED BY <4>1, <4>2
    <3> HIDE DEF b, q
    <3>4. IsReadAs((b \o <<e>>) \o <<x>>, escapes, q \o <<x>>)
      BY <2>2, <2>3, <3>1, EscapedRead
    <3> QED BY <2>1, <2>4, <3>2, <3>3, <3>4
  <2>6. CASE x \notin DOMAIN escape
    <3>1. Esc(x, escape) = <<x>> /\ x \notin escapes
      BY <2>6 DEF Esc
    <3>2. p \o (E \o <<x>>) = b \o <<x>>
      <4>1. <<x>> \in Texts
        BY SinglesAre DEF Texts
      <4> QED BY <2>1, <4>1, ConcatAssociative DEF Texts
    <3> HIDE DEF b, q
    <3>3. IsReadAs(b \o <<x>>, escapes, q \o <<x>>)
      BY <2>2, <2>3, <3>1, PlainRead
    <3> QED BY <2>1, <2>4, <3>1, <3>2, <3>3
  <2> QED BY <2>5, <2>6
<1> HIDE DEF Holds
<1>3. s \in Holds
  BY <1>1, <1>2, TextStep
<1> QED BY <1>3 DEF Holds

\* The parts of a literal.
LEMMA Middle ==
    ASSUME NEW p \in Texts, p # <<>>, NEW b \in Texts, NEW x \in Characters
    PROVE  LET t == (p \o b) \o <<x>>
           IN  /\ t \in Texts /\ t[1] = p[1] /\ SubSeq(t, Len(p) + 1, Len(t) - 1) = b
<1> DEFINE u == p \o b
           t == u \o <<x>>
           m == Len(p)
           n == Len(b)
           r == SubSeq(t, m + 1, Len(t) - 1)
<1>1. /\ p \in Seq(Characters) /\ b \in Seq(Characters) /\ m \in Nat /\ n \in Nat /\ m # 0
      /\ \A i \in 1 .. n : b[i] \in Characters
  BY EmptySeq DEF Texts
<1>2. /\ u \in Seq(Characters) /\ Len(u) = m + n
      /\ \A i \in 1 .. m + n : u[i] = IF i <= m THEN p[i] ELSE b[i - m]
  BY <1>1, ConcatProperties
<1> HIDE DEF u
<1>3. t \in Seq(Characters) /\ Len(t) = (m + n) + 1 /\ \A i \in 1 .. m + n : t[i] = u[i]
  BY <1>2, AppendIs
<1> HIDE DEF t, m, n
<1>4. t[1] = p[1]
  <2>1. 1 \in 1 .. m + n /\ 1 <= m
    BY <1>1
  <2> QED BY <1>2, <1>3, <2>1
<1>5. /\ Len(t) - 1 = m + n /\ m + 1 \in Int /\ m + n \in Int
      /\ \A i \in m + 1 .. m + n : t[i] \in Characters
  <2>1. Len(t) - 1 = m + n /\ \A i \in m + 1 .. m + n : i \in 1 .. Len(t)
    BY <1>1, <1>3
  <2>2. \A i \in 1 .. Len(t) : t[i] \in Characters
    BY <1>3
  <2> QED BY <1>1, <2>1, <2>2
<1>6. /\ r \in Seq(Characters)
      /\ Len(r) = IF m + 1 <= m + n THEN (m + n) - (m + 1) + 1 ELSE 0
      /\ \A i \in 1 .. (m + n) - (m + 1) + 1 : r[i] = t[(m + 1) + i - 1]
  BY <1>5, SubSeqProperties
<1> HIDE DEF r
<1>7. Len(r) = n /\ \A i \in 1 .. n : r[i] = t[m + i] /\ m + i \in 1 .. m + n /\ ~(m + i <= m) /\ (m + i) - m = i
  <2>1. (m + n) - (m + 1) + 1 = n /\ (m + 1 <= m + n <=> n # 0)
    BY <1>1
  <2>2. \A i \in 1 .. n : /\ (m + 1) + i - 1 = m + i /\ m + i \in 1 .. m + n
                          /\ ~(m + i <= m) /\ (m + i) - m = i
    BY <1>1
  <2> QED BY <1>1, <1>6, <2>1, <2>2
<1>8. \A i \in 1 .. n : r[i] = b[i]
  <2> SUFFICES ASSUME NEW i \in 1 .. n
               PROVE  r[i] = b[i]
    OBVIOUS
  <2>1. r[i] = t[m + i] /\ t[m + i] = u[m + i]
    BY <1>3, <1>7
  <2>2. u[m + i] = b[(m + i) - m] /\ (m + i) - m = i
    BY <1>2, <1>7
  <2> QED BY <2>1, <2>2
<1>9. r = b
  BY <1>1, <1>6, <1>7, <1>8, SeqEqual DEF n
<1> QED BY <1>3, <1>4, <1>9 DEF t, u, m, r, Texts

LEMMA QuotesAre ==
    /\ Apostrophe \in Characters /\ DoubleQuote \in Characters /\ Backslash \in Characters
    /\ "E" \in Characters /\ "NUL" \in Characters /\ "oct" \in Characters
    /\ Apostrophe # Backslash /\ Apostrophe # DoubleQuote /\ Backslash # DoubleQuote
    /\ Apostrophe # "E"
<1>1. /\ Apostrophe \in Characters /\ DoubleQuote \in Characters /\ Backslash \in Characters
      /\ "E" \in Characters /\ "NUL" \in Characters /\ "oct" \in Characters
  BY Zenon DEF Characters
<1>2. /\ Apostrophe # Backslash /\ Apostrophe # DoubleQuote /\ Backslash # DoubleQuote
      /\ Apostrophe # "E"
  BY Zenon DEF Apostrophe, DoubleQuote, Backslash
<1> QED BY <1>1, <1>2

Escaping(E, std) == {Apostrophe} \cup (IF E \/ ~std THEN {Backslash} ELSE {})

LEMMA LiteralIs ==
    ASSUME NEW b \in Texts, NEW x \in Characters, NEW std \in BOOLEAN
    PROVE  /\ ReadLiteral((<<Apostrophe>> \o b) \o <<x>>, std) = ReadText(b, Escaping(FALSE, std)).out
           /\ ReadLiteral((<<"E", Apostrophe>> \o b) \o <<x>>, std) = ReadText(b, Escaping(TRUE, std)).out
<1>1. \A t : ReadLiteral(t, std) =
          ReadText(SubSeq(t, IF t[1] = "E" THEN 3 ELSE 2, Len(t) - 1), Escaping(t[1] = "E", std)).out
  BY Zenon DEF ReadLiteral, ReadText, Escaping
<1>2. ASSUME NEW p \in Texts, p # <<>>, NEW n \in Nat, Len(p) + 1 = n, n = IF p[1] = "E" THEN 3 ELSE 2,
             NEW E \in BOOLEAN, E <=> p[1] = "E"
      PROVE  ReadLiteral((p \o b) \o <<x>>, std) = ReadText(b, Escaping(E, std)).out
  <2> DEFINE t == (p \o b) \o <<x>>
  <2>1. t[1] = p[1] /\ SubSeq(t, n, Len(t) - 1) = b
    <3>1. t[1] = p[1] /\ SubSeq(t, Len(p) + 1, Len(t) - 1) = b
      BY <1>2, Middle
    <3> QED BY <1>2, <3>1
  <2> HIDE DEF t
  <2>2. (t[1] = "E") = E
    BY <1>2, <2>1
  <2>3. SubSeq(t, IF t[1] = "E" THEN 3 ELSE 2, Len(t) - 1) = b
    BY <1>2, <2>1
  <2>4. ReadLiteral(t, std) = ReadText(b, Escaping(E, std)).out
    BY <1>1, <2>2, <2>3
  <2> QED BY <2>4 DEF t
<1>3. ReadLiteral((<<Apostrophe>> \o b) \o <<x>>, std) = ReadText(b, Escaping(FALSE, std)).out
  <2> DEFINE p == <<Apostrophe>>
  <2>1. p \in Texts /\ p # <<>> /\ Len(p) + 1 = 2 /\ p[1] = Apostrophe /\ p[1] # "E"
    BY QuotesAre, SinglesAre DEF Texts
  <2> HIDE DEF p
  <2>2. 2 \in Nat /\ 2 = (IF p[1] = "E" THEN 3 ELSE 2) /\ FALSE \in BOOLEAN /\ (FALSE <=> p[1] = "E")
    BY <2>1
  <2>3. ReadLiteral((p \o b) \o <<x>>, std) = ReadText(b, Escaping(FALSE, std)).out
    BY ONLY <1>2, <2>1, <2>2, Zenon
  <2> QED BY <2>3 DEF p
<1>4. ReadLiteral((<<"E", Apostrophe>> \o b) \o <<x>>, std) = ReadText(b, Escaping(TRUE, std)).out
  <2> DEFINE p == <<"E", Apostrophe>>
  <2>1. p \in Texts /\ p # <<>> /\ Len(p) + 1 = 3 /\ p[1] = "E"
    BY QuotesAre, PairsAre DEF Texts
  <2> HIDE DEF p
  <2>2. 3 \in Nat /\ 3 = (IF p[1] = "E" THEN 3 ELSE 2) /\ TRUE \in BOOLEAN /\ (TRUE <=> p[1] = "E")
    BY <2>1
  <2>3. ReadLiteral((p \o b) \o <<x>>, std) = ReadText(b, Escaping(TRUE, std)).out
    BY ONLY <1>2, <2>1, <2>2, Zenon
  <2> QED BY <2>3 DEF p
<1> QED BY <1>3, <1>4

\* The text that PQescapeString makes, read by a server whose literals have the
\* same characters that escape; between double quotes, too.
LEMMA StringRead ==
    ASSUME NEW s \in Texts, NEW std \in BOOLEAN, NEW E \in BOOLEAN, E => ~std
    PROVE  LET b == PQescapeString(s, std)
               D == <<DoubleQuote>>
           IN  /\ b \in Texts /\ ReadText(b, Escaping(E, std)).out = s
               /\ (D \o b) \o D \in Texts
               /\ ReadText((D \o b) \o D, Escaping(E, std)).out = (D \o s) \o D
<1> DEFINE escape == [c \in {Apostrophe} \cup (IF std THEN {} ELSE {Backslash}) |-> c]
           escapes == Escaping(E, std)
           b == PQescapeString(s, std)
           D == <<DoubleQuote>>
<1>1. b = Escaped(s, escape)
  BY DEF PQescapeString
<1>2. /\ DOMAIN escape \subseteq escapes /\ escapes \subseteq DOMAIN escape
      /\ \A c \in DOMAIN escape : escape[c] \in escapes /\ escape[c] \in Characters
      /\ DoubleQuote \notin escapes
  BY QuotesAre DEF Escaping
<1> HIDE DEF escape, escapes
<1>3. b \in Texts
  <2>1. Apostrophe \in Characters
    BY QuotesAre
  <2>2. Escaped(s, escape) \in Texts
    BY ONLY <1>2, <2>1, s \in Texts, EscapedStep
  <2> QED BY <1>1, <2>2
<1>4. D \in Texts /\ <<>> \in Texts
  BY QuotesAre, SinglesAre DEF Texts
<1>5. IsReadAs(<<>>, escapes, <<>>)
  <2>1. ReadText(<<>>, escapes) = [out |-> <<>>, held |-> FALSE]
    BY ReadStep
  <2> QED BY <2>1 DEF IsReadAs
<1>6. IsReadAs(D, escapes, D)
  <2>1. IsReadAs(<<>> \o <<DoubleQuote>>, escapes, <<>> \o <<DoubleQuote>>)
    BY <1>2, <1>4, <1>5, QuotesAre, PlainRead
  <2>2. <<>> \o D = D
    BY <1>4, ConcatEmptySeq DEF Texts
  <2> QED BY <2>1, <2>2
<1>7. IsReadAs(b, escapes, s)
  <2>1. IsReadAs(<<>> \o b, escapes, <<>> \o s)
    BY <1>1, <1>2, <1>4, <1>5, ReadsBack
  <2>2. <<>> \o b = b /\ <<>> \o s = s
    BY <1>3, ConcatEmptySeq DEF Texts
  <2> QED BY <2>1, <2>2
<1>8. IsReadAs((D \o b) \o D, escapes, (D \o s) \o D)
  <2>1. IsReadAs(D \o b, escapes, D \o s)
    BY <1>1, <1>2, <1>4, <1>6, ReadsBack
  <2>2. D \o b \in Texts /\ D \o s \in Texts
    BY <1>3, <1>4, ConcatProperties DEF Texts
  <2> QED BY <1>2, <2>1, <2>2, QuotesAre, PlainRead
<1>9. (D \o b) \o D \in Texts
  BY <1>3, <1>4, ConcatProperties DEF Texts
<1> QED BY <1>3, <1>7, <1>8, <1>9 DEF IsReadAs, escapes

LEMMA PrefixIs ==
    ASSUME NEW E \in BOOLEAN
    PROVE  /\ Prefix(TRUE, E) = <<DoubleQuote>> /\ Delimiter(TRUE) = DoubleQuote
           /\ Prefix(FALSE, E) = IF E THEN <<"E", Apostrophe>> ELSE <<Apostrophe>>
           /\ Delimiter(FALSE) = Apostrophe
           /\ Prefix(FALSE, E) \in Texts /\ <<Apostrophe>> \in Texts /\ <<DoubleQuote>> \in Texts
<1>1. Delimiter(TRUE) = DoubleQuote /\ Delimiter(FALSE) = Apostrophe
  BY DEF Delimiter
<1>2. /\ <<DoubleQuote>> \in Seq(Characters) /\ <<Apostrophe>> \in Seq(Characters)
      /\ <<"E", Apostrophe>> \in Seq(Characters) /\ <<"E", Apostrophe>> = <<"E">> \o <<Apostrophe>>
  BY QuotesAre, SinglesAre, PairsAre
<1>3. <<>> \o <<DoubleQuote>> = <<DoubleQuote>> /\ <<>> \o <<Apostrophe>> = <<Apostrophe>>
  BY <1>2, ConcatEmptySeq
<1>4. Prefix(TRUE, E) = <<DoubleQuote>>
  BY <1>1, <1>3 DEF Prefix
<1>5. Prefix(FALSE, E) = IF E THEN <<"E", Apostrophe>> ELSE <<Apostrophe>>
  BY <1>1, <1>2, <1>3 DEF Prefix
<1> QED BY <1>1, <1>2, <1>4, <1>5 DEF Texts

LEMMA EscapedTexts ==
    ASSUME NEW s \in Texts
    PROVE  ForArray(s) \in Texts /\ ByteaText(s) \in Texts
<1>1. ASSUME NEW escape, \A c \in DOMAIN escape : escape[c] \in Characters
      PROVE  Escaped(s, escape) \in Texts
  <2>1. Apostrophe \in Characters
    BY QuotesAre
  <2> QED BY ONLY <1>1, <2>1, s \in Texts, EscapedStep
<1>2. ForArray(s) \in Texts
  <2> DEFINE escape == [c \in {Backslash, DoubleQuote} |-> Backslash]
  <2>1. \A c \in DOMAIN escape : escape[c] \in Characters
    BY QuotesAre
  <2> HIDE DEF escape
  <2>2. Escaped(s, escape) \in Texts
    BY <1>1, <2>1
  <2> QED BY <2>2 DEF ForArray, escape
<1>3. ByteaText(s) \in Texts
  <2> DEFINE escape == [c \in {Backslash} |-> c]
             doubled == Escaped(s, escape)
             t == [i \in 1 .. Len(doubled) |-> IF doubled[i] = "NUL" THEN "oct" ELSE doubled[i]]
  <2>1. \A c \in DOMAIN escape : escape[c] \in Characters
    BY QuotesAre
  <2> HIDE DEF escape
  <2>2. doubled \in Texts
    BY <1>1, <2>1
  <2>3. ByteaText(s) = t
    BY DEF ByteaText, escape
  <2> HIDE DEF doubled
  <2>4. Len(doubled) \in Nat /\ \A i \in 1 .. Len(doubled) : doubled[i] \in Characters
    BY <2>2 DEF Texts
  <2>5. "oct" \in Characters
    BY QuotesAre
  <2>6. t \in Seq(Characters)
    <3> DEFINE c(i) == IF doubled[i] = "NUL" THEN "oct" ELSE doubled[i]
    <3>1. \A i \in 1 .. Len(doubled) : c(i) \in Characters
      BY <2>4, <2>5, Zenon
    <3> HIDE DEF c
    <3>2. [i \in 1 .. Len(doubled) |-> c(i)] \in Seq(Characters)
      BY <2>4, <3>1
    <3> QED BY <3>2 DEF c
  <2> QED BY <2>3, <2>6 DEF Texts
<1> QED BY <1>2, <1>3

\* A quoted text is read as it was, alone or, with the quotes of the array, in
\* the literal of an array.
LEMMA QuoteStringRead ==
    ASSUME NEW s \in Texts, NEW std \in BOOLEAN, NEW E \in BOOLEAN, E => ~std
    PROVE  /\ ReadLiteral(QuoteString(s, FALSE, std, E), std) = s
           /\ ReadLiteral(<<Apostrophe>> \o QuoteString(s, TRUE, std, E) \o <<Apostrophe>>, std)
                 = <<DoubleQuote>> \o ForArray(s) \o <<DoubleQuote>>
<1>1. ReadLiteral(QuoteString(s, FALSE, std, E), std) = s
  <2> DEFINE b == PQescapeString(s, std)
  <2>1. b \in Texts /\ ReadText(b, Escaping(E, std)).out = s
    BY StringRead
  <2>2. QuoteString(s, FALSE, std, E)
            = ((IF E THEN <<"E", Apostrophe>> ELSE <<Apostrophe>>) \o b) \o <<Apostrophe>>
    BY PrefixIs DEF QuoteString
  <2> HIDE DEF b
  <2>3. Apostrophe \in Characters
    BY QuotesAre
  <2>4. /\ ReadLiteral((<<Apostrophe>> \o b) \o <<Apostrophe>>, std) = ReadText(b, Escaping(FALSE, std)).out
        /\ ReadLiteral((<<"E", Apostrophe>> \o b) \o <<Apostrophe>>, std) = ReadText(b, Escaping(TRUE, std)).out
    BY <2>1, <2>3, LiteralIs
  <2>5. CASE E
    BY <2>1, <2>2, <2>4, <2>5
  <2>6. CASE ~E
    <3>1. E = FALSE
      BY <2>6
    <3> QED BY <2>1, <2>2, <2>4, <3>1
  <2> QED BY <2>5, <2>6
<1>2. ReadLiteral(<<Apostrophe>> \o QuoteString(s, TRUE, std, E) \o <<Apostrophe>>, std)
          = <<DoubleQuote>> \o ForArray(s) \o <<DoubleQuote>>
  <2> DEFINE x == ForArray(s)
             b == PQescapeString(x, std)
             D == <<DoubleQuote>>
             q == (D \o b) \o D
  <2>1. x \in Texts
    BY EscapedTexts
  <2>2. QuoteString(s, TRUE, std, E) = q
    BY PrefixIs DEF QuoteString
  <2> HIDE DEF x
  <2>3. FALSE \in BOOLEAN /\ (FALSE => ~std)
    OBVIOUS
  <2>4. q \in Texts /\ ReadText(q, Escaping(FALSE, std)).out = (D \o x) \o D
    BY <2>1, <2>3, StringRead
  <2> HIDE DEF q
  <2>5. ReadLiteral((<<Apostrophe>> \o q) \o <<Apostrophe>>, std) = ReadText(q, Escaping(FALSE, std)).out
    BY <2>4, QuotesAre, LiteralIs
  <2> QED BY <2>2, <2>4, <2>5 DEF x
<1> QED BY <1>1, <1>2

\* A bytea is quoted as its text is, with the NUL at its end overwritten.
LEMMA ClosedIs ==
    ASSUME NEW b \in Texts
    PROVE  Closed(b \o <<"NUL">>, FALSE) = b \o <<Apostrophe>>
<1> DEFINE t == b \o <<"NUL">>
           u == b \o <<Apostrophe>>
           n == Len(b) + 1
           v == [t EXCEPT ![n] = Apostrophe]
<1>1. /\ t \in Seq(Characters) /\ Len(t) = n /\ n \in Nat \ {0} /\ \A i \in 1 .. Len(b) : t[i] = b[i]
      /\ u \in Seq(Characters) /\ Len(u) = n /\ u[n] = Apostrophe
      /\ \A i \in 1 .. Len(b) : u[i] = b[i]
  BY QuotesAre, AppendIs DEF Texts
<1>2. Closed(t, FALSE) = v
  BY <1>1, PrefixIs DEF Closed
<1> HIDE DEF t, u
<1>3. \A i \in 1 .. n : i = n \/ i \in 1 .. Len(b)
  BY <1>1 DEF n
<1>4. Apostrophe \in Characters
  BY QuotesAre
<1> HIDE DEF n
<1>5. v \in Seq(Characters) /\ Len(v) = n /\ v[n] = Apostrophe /\ \A i \in 1 .. n : i # n => v[i] = t[i]
  BY <1>1, <1>4, ExceptSeq
<1> HIDE DEF v
<1>6. \A i \in 1 .. n : v[i] = u[i]
  BY <1>1, <1>3, <1>5
<1>7. v = u
  BY <1>1, <1>5, <1>6, SeqEqual
<1> QED BY <1>2, <1>7 DEF t, u

LEMMA ByteaRead ==
    ASSUME NEW s \in Texts, NEW std \in BOOLEAN, NEW E \in BOOLEAN, E => ~std
    PROVE  ReadLiteral(Prefix(FALSE, E) \o Closed(PQescapeBytea(s, std), FALSE), std) = ByteaText(s)
<1> DEFINE x == ByteaText(s)
           b == PQescapeString(x, std)
           p == Prefix(FALSE, E)
<1>1. x \in Texts
  BY EscapedTexts
<1>2. PQescapeBytea(s, std) = b \o <<"NUL">>
  BY DEF PQescapeBytea
<1> HIDE DEF x
<1>3. b \in Texts /\ ReadLiteral(QuoteString(x, FALSE, std, E), std) = x
  BY <1>1, StringRead, QuoteStringRead
<1>4. QuoteString(x, FALSE, std, E) = (p \o b) \o <<Apostrophe>>
  BY PrefixIs DEF QuoteString
<1> HIDE DEF b, p
<1>5. Closed(b \o <<"NUL">>, FALSE) = b \o <<Apostrophe>>
  BY <1>3, ClosedIs
<1>6. p \o (b \o <<Apostrophe>>) = (p \o b) \o <<Apostrophe>>
  <2>1. p \in Seq(Characters)
    BY ONLY PrefixIs, E \in BOOLEAN DEF p, Texts
  <2>2. b \in Seq(Characters) /\ <<Apostrophe>> \in Seq(Characters)
    BY <1>3, QuotesAre DEF Texts
  <2> QED BY <2>1, <2>2, ConcatAssociative
<1> QED BY <1>2, <1>3, <1>4, <1>5, <1>6 DEF x, p

-----------------------------------------------------------------------------
QuoteCall(s, std, forArray) == [fn |-> "quote", text |-> s, std |-> std, forArray |-> forArray]
ByteaCall(s, std) == [fn |-> "bytea", text |-> s, std |-> std]
QuoteResult(s, std, forArray) ==
    [string |-> PgQuoteString(s, forArray, std), deprecated |-> libPQquoteString(s, forArray, FALSE)]
ByteaResult(s, std) ==
    [string |-> PgQuoteBytea(s, FALSE, std), deprecated |-> libPQquoteBytea(s, FALSE, FALSE)]

\* The two texts of a quoting, with E for a server without standard strings.
LEMMA QuoteResultIs ==
    ASSUME NEW s, NEW std \in BOOLEAN, NEW forArray \in BOOLEAN
    PROVE  /\ QuoteResult(s, std, forArray).string = QuoteString(s, forArray, std, ~std)
           /\ QuoteResult(s, std, forArray).deprecated = QuoteString(s, forArray, FALSE, TRUE)
<1>1. /\ QuoteResult(s, std, forArray).string = PgQuoteString(s, forArray, std)
      /\ QuoteResult(s, std, forArray).deprecated = libPQquoteString(s, forArray, FALSE)
  BY DEF QuoteResult
<1>2. /\ PgQuoteString(s, forArray, std) = QuoteString(s, forArray, std, ~std)
      /\ libPQquoteString(s, forArray, FALSE) = QuoteString(s, forArray, FALSE, TRUE)
  BY DEF PgQuoteString, libPQquoteString
<1> QED BY ONLY <1>1, <1>2

LEMMA ByteaResultIs ==
    ASSUME NEW s, NEW std \in BOOLEAN
    PROVE  /\ ByteaResult(s, std).string = Prefix(FALSE, ~std) \o Closed(PQescapeBytea(s, std), FALSE)
           /\ ByteaResult(s, std).deprecated = Prefix(FALSE, TRUE) \o Closed(PQescapeBytea(s, FALSE), FALSE)
<1>1. /\ ByteaResult(s, std).string = PgQuoteBytea(s, FALSE, std)
      /\ ByteaResult(s, std).deprecated = libPQquoteBytea(s, FALSE, FALSE)
  BY DEF ByteaResult
<1>2. /\ PgQuoteBytea(s, FALSE, std) = Prefix(FALSE, ~std) \o Closed(PQescapeBytea(s, std), FALSE)
      /\ libPQquoteBytea(s, FALSE, FALSE) = Prefix(FALSE, TRUE) \o Closed(PQescapeBytea(s, FALSE), FALSE)
  BY DEF PgQuoteBytea, libPQquoteBytea
<1> QED BY ONLY <1>1, <1>2

\* A quoting is described by the text and the server's setting.
QuoteInv == call.fn = "quote" => \E s \in Strings, std \in BOOLEAN, forArray \in BOOLEAN :
    call = QuoteCall(s, std, forArray) /\ outcome = {QuoteResult(s, std, forArray)}
ByteaInv == call.fn = "bytea" => \E s \in Strings, std \in BOOLEAN :
    call = ByteaCall(s, std) /\ outcome = {ByteaResult(s, std)}

LEMMA OutcomesOfQuoting == Spec => [](QuoteInv /\ ByteaInv)
<1>1. Init => QuoteInv /\ ByteaInv
  BY DEF Init, Idle, QuoteInv, ByteaInv
<1>2. ASSUME Next
      PROVE  QuoteInv'
  <2> SUFFICES ASSUME call'.fn = "quote"
               PROVE  QuoteInv'
    BY DEF QuoteInv
  <2>1. Quote
    BY <1>2, FnOf
  <2>2. PICK s \in Strings, std \in BOOLEAN, forArray \in BOOLEAN :
            /\ "NUL" \notin ToSet(s)
            /\ Returns([fn |-> "quote", text |-> s, std |-> std, forArray |-> forArray],
                       {QuoteResult(s, std, forArray)})
    BY ONLY <2>1, Zenon DEF Quote, QuoteResult
  <2> QED BY <2>2 DEF QuoteInv, QuoteCall, Returns
<1>3. ASSUME Next
      PROVE  ByteaInv'
  <2> SUFFICES ASSUME call'.fn = "bytea"
               PROVE  ByteaInv'
    BY DEF ByteaInv
  <2>1. QuoteBytea
    BY <1>3, FnOf
  <2>2. PICK s \in Strings, std \in BOOLEAN :
            Returns([fn |-> "bytea", text |-> s, std |-> std], {ByteaResult(s, std)})
    BY ONLY <2>1, Zenon DEF QuoteBytea, ByteaResult
  <2> QED BY <2>2 DEF ByteaInv, ByteaCall, Returns
<1>4. QuoteInv /\ ByteaInv /\ [Next]_vars => QuoteInv' /\ ByteaInv'
  <2>1. CASE UNCHANGED vars
    BY <2>1 DEF vars, QuoteInv, ByteaInv
  <2> QED BY <1>2, <1>3, <2>1
<1> QED BY <1>1, <1>4, PTL DEF Spec

\* Whatever the text, a server reads what PgQuoteString, PgQuoteBytea and the
\* deprecated functions wrote as the text it was, with its own setting of the
\* standard strings; in an array it reads the text escaped for the array.
THEOREM WhatIsQuotedIsReadBack == Spec => []QuotesReadBack
<1>1. ASSUME QuoteInv, ByteaInv
      PROVE  QuotesReadBack
  <2>1. \A s \in Strings : s \in Texts
    <3>1. STRING \subseteq Characters
      BY DEF Characters
    <3> QED BY <3>1, ValuesAssumption, SeqMonotonic DEF Texts
  <2>2. FALSE \in BOOLEAN /\ TRUE \in BOOLEAN /\ (TRUE => ~FALSE)
    OBVIOUS
  <2>3. ASSUME NEW o \in outcome, call.fn = "quote"
        PROVE  IF call.forArray
               THEN /\ ReadLiteral(<<Apostrophe>> \o o.string \o <<Apostrophe>>, call.std)
                         = <<DoubleQuote>> \o ForArray(call.text) \o <<DoubleQuote>>
                    /\ ReadLiteral(<<Apostrophe>> \o o.deprecated \o <<Apostrophe>>, FALSE)
                         = <<DoubleQuote>> \o ForArray(call.text) \o <<DoubleQuote>>
               ELSE /\ ReadLiteral(o.string, call.std) = call.text
                    /\ ReadLiteral(o.deprecated, FALSE) = call.text
    <3>1. PICK s \in Strings, std \in BOOLEAN, forArray \in BOOLEAN :
              call = QuoteCall(s, std, forArray) /\ outcome = {QuoteResult(s, std, forArray)}
      BY <1>1, <2>3 DEF QuoteInv
    <3>2. /\ call.text = s /\ call.std = std /\ call.forArray = forArray /\ s \in Texts
          /\ o.string = QuoteString(s, forArray, std, ~std)
          /\ o.deprecated = QuoteString(s, forArray, FALSE, TRUE)
      <4>1. call.text = s /\ call.std = std /\ call.forArray = forArray
        BY ONLY <3>1 DEF QuoteCall
      <4>2. o = QuoteResult(s, std, forArray)
        BY <2>3, <3>1
      <4> QED BY <2>1, <4>1, <4>2, QuoteResultIs
    <3>3. (~std) \in BOOLEAN /\ (~std => ~std)
      OBVIOUS
    <3>4. /\ ReadLiteral(QuoteString(s, FALSE, std, ~std), std) = s
          /\ ReadLiteral(<<Apostrophe>> \o QuoteString(s, TRUE, std, ~std) \o <<Apostrophe>>, std)
                = <<DoubleQuote>> \o ForArray(s) \o <<DoubleQuote>>
      BY <3>2, <3>3, QuoteStringRead
    <3>5. /\ ReadLiteral(QuoteString(s, FALSE, FALSE, TRUE), FALSE) = s
          /\ ReadLiteral(<<Apostrophe>> \o QuoteString(s, TRUE, FALSE, TRUE) \o <<Apostrophe>>, FALSE)
                = <<DoubleQuote>> \o ForArray(s) \o <<DoubleQuote>>
      BY <2>2, <3>2, QuoteStringRead
    <3>6. CASE forArray
      <4>1. forArray = TRUE
        BY <3>6
      <4> QED BY <3>2, <3>4, <3>5, <4>1
    <3>7. CASE ~forArray
      <4>1. forArray = FALSE
        BY <3>7
      <4> QED BY <3>2, <3>4, <3>5, <4>1
    <3> QED BY <3>6, <3>7
  <2>4. ASSUME NEW o \in outcome, call.fn = "bytea"
        PROVE  /\ ReadLiteral(o.string, call.std) = ByteaText(call.text)
               /\ ReadLiteral(o.deprecated, FALSE) = ByteaText(call.text)
    <3>1. PICK s \in Strings, std \in BOOLEAN :
              call = ByteaCall(s, std) /\ outcome = {ByteaResult(s, std)}
      BY <1>1, <2>4 DEF ByteaInv
    <3>2. /\ call.text = s /\ call.std = std /\ s \in Texts
          /\ o.string = Prefix(FALSE, ~std) \o Closed(PQescapeBytea(s, std), FALSE)
          /\ o.deprecated = Prefix(FALSE, TRUE) \o Closed(PQescapeBytea(s, FALSE), FALSE)
      <4>1. call.text = s /\ call.std = std
        BY ONLY <3>1 DEF ByteaCall
      <4>2. o = ByteaResult(s, std)
        BY <2>4, <3>1
      <4> QED BY <2>1, <4>1, <4>2, ByteaResultIs
    <3>3. (~std) \in BOOLEAN /\ (~std => ~std)
      OBVIOUS
    <3>4. ReadLiteral(Prefix(FALSE, ~std) \o Closed(PQescapeBytea(s, std), FALSE), std) = ByteaText(s)
      BY <3>2, <3>3, ByteaRead
    <3>5. ReadLiteral(Prefix(FALSE, TRUE) \o Closed(PQescapeBytea(s, FALSE), FALSE), FALSE) = ByteaText(s)
      BY <2>2, <3>2, ByteaRead
    <3> QED BY <3>2, <3>4, <3>5
  <2> QED BY <2>3, <2>4 DEF QuotesReadBack
<1> QED BY <1>1, OutcomesOfQuoting, PTL

-----------------------------------------------------------------------------
(* Versions. *)

LEMMA NonEmpty ==
    ASSUME NEW S, NEW s \in Seq(S), s # <<>>
    PROVE  Len(s) \in Nat \ {0} /\ 1 \in 1 .. Len(s) /\ s[1] \in S
<1>1. Len(s) \in Nat \ {0}
  BY EmptySeq
<1> QED BY <1>1

\* Two texts behind each other.
LEMMA PartsAre ==
    ASSUME NEW S, NEW a \in Seq(S), NEW r \in Seq(S)
    PROVE  /\ a \o r \in Seq(S) /\ Len(a \o r) = Len(a) + Len(r) /\ Len(a) \in Nat /\ Len(r) \in Nat
           /\ \A i \in 1 .. Len(a) : (a \o r)[i] = a[i]
           /\ \A i \in 1 .. Len(r) : (a \o r)[Len(a) + i] = r[i]
           /\ SubSeq(a \o r, 1, Len(a)) = a
           /\ Rest(a \o r, Len(a)) = r
<1> DEFINE t == a \o r
           m == Len(a)
           n == Len(r)
<1>1. m \in Nat /\ n \in Nat
  OBVIOUS
<1>2. /\ t \in Seq(S) /\ Len(t) = m + n
      /\ \A i \in 1 .. m + n : t[i] = IF i <= m THEN a[i] ELSE r[i - m]
  BY ConcatProperties
<1> HIDE DEF t
<1>3. \A i \in 1 .. m : t[i] = a[i]
  BY <1>1, <1>2
<1>4. \A i \in 1 .. n : t[m + i] = r[i]
  <2> SUFFICES ASSUME NEW i \in 1 .. n
               PROVE  t[m + i] = r[i]
    OBVIOUS
  <2>1. m + i \in 1 .. m + n /\ ~(m + i <= m) /\ (m + i) - m = i
    BY <1>1
  <2> QED BY <1>2, <2>1
<1>5. SubSeq(t, 1, m) = a
  <2>1. 1 \in Nat \ {0} /\ 1 <= m + 1 /\ m <= Len(t) /\ m - 1 + 1 = m /\ \A i \in 1 .. m : 1 + i - 1 = i
    BY <1>1, <1>2
  <2> DEFINE u == SubSeq(t, 1, m)
  <2>2. u \in Seq(S) /\ Len(u) = m - 1 + 1 /\ \A i \in 1 .. m - 1 + 1 : u[i] = t[1 + i - 1]
    BY <1>1, <1>2, <2>1, SubSeqIs
  <2> HIDE DEF u
  <2>3. Len(u) = m /\ \A i \in 1 .. m : u[i] = a[i]
    BY <1>3, <2>1, <2>2
  <2>4. u = a
    BY <2>2, <2>3, SeqEqual
  <2> QED BY <2>4 DEF u
<1>6. Rest(t, m) = r
  <2> DEFINE u == Rest(t, m)
  <2>1. m \in 0 .. Len(t) /\ Len(t) - m = n
    BY <1>1, <1>2
  <2>2. u \in Seq(S) /\ Len(u) = Len(t) - m /\ \A i \in 1 .. Len(t) - m : u[i] = t[m + i]
    BY <1>2, <2>1, RestIs
  <2> HIDE DEF u
  <2>3. Len(u) = n /\ \A i \in 1 .. n : u[i] = r[i]
    BY <1>4, <2>1, <2>2
  <2>4. u = r
    BY <2>2, <2>3, SeqEqual
  <2> QED BY <2>4 DEF u
<1> QED BY <1>1, <1>2, <1>3, <1>4, <1>5, <1>6 DEF t

LEMMA FirstOf ==
    ASSUME NEW S, NEW a \in Seq(S), NEW r \in Seq(S), a # <<>>
    PROVE  (a \o r)[1] = a[1] /\ a \o r # <<>>
<1>1. 1 \in 1 .. Len(a) /\ Len(a) \in Nat \ {0}
  BY NonEmpty
<1>2. (a \o r)[1] = a[1] /\ Len(a \o r) = Len(a) + Len(r) /\ Len(r) \in Nat
  BY <1>1, PartsAre
<1>3. Len(a \o r) # 0
  BY <1>1, <1>2
<1> QED BY <1>2, <1>3

LEMMA StrtokIs ==
    ASSUME NEW s, NEW delim
    PROVE  LET k == Rest(s, Span(s, delim))
               n == Span(k, ToSet(k) \ delim)
           IN  pg_strtok_r(s, delim) =
                   IF s = None \/ k = <<>> THEN [token |-> None, last |-> None]
                   ELSE [token |-> SubSeq(k, 1, n),
                         last |-> IF n = Len(k) THEN None ELSE Rest(k, n + 1)]
<1> DEFINE k == Rest(s, Span(s, delim))
           n == Span(k, ToSet(k) \ delim)
<1>1. pg_strtok_r(s, delim) = IF s = None \/ k = <<>> THEN NoToken ELSE Token(k, n)
  BY DEF pg_strtok_r
<1> HIDE DEF k, n
<1>2. NoToken = [token |-> None, last |-> None]
  BY DEF NoToken
<1>3. Token(k, n) = [token |-> SubSeq(k, 1, n), last |-> IF n = Len(k) THEN None ELSE Rest(k, n + 1)]
  BY DEF Token
<1>4. pg_strtok_r(s, delim) =
          IF s = None \/ k = <<>> THEN [token |-> None, last |-> None]
          ELSE [token |-> SubSeq(k, 1, n), last |-> IF n = Len(k) THEN None ELSE Rest(k, n + 1)]
  BY <1>1, <1>2, <1>3
<1> QED BY <1>4 DEF k, n

LEMMA NoneIs ==
    /\ \A s : s[1] \in Digits => s # None
    /\ \A delim : pg_strtok_r(None, delim) = [token |-> None, last |-> None]
<1>1. None[1] = "none" /\ "none" \notin {"0", "1", "2", "3", "4", "5", "6", "7", "8", "9"}
  BY DEF None
<1>2. Digits \subseteq {"0", "1", "2", "3", "4", "5", "6", "7", "8", "9"}
  BY DEF Digits, DigitSeq
<1>3. \A delim : pg_strtok_r(None, delim) = [token |-> None, last |-> None]
  BY StrtokIs
<1> QED BY <1>1, <1>2, <1>3

\* A token ends where the first delimiter behind it is.
LEMMA TokenIs ==
    ASSUME NEW S, NEW a \in Seq(S), NEW r \in Seq(S), NEW delim, a # <<>>, a[1] \in Digits,
           \A i \in 1 .. Len(a) : a[i] \notin delim, r = <<>> \/ r[1] \in delim
    PROVE  pg_strtok_r(a \o r, delim) = [token |-> a, last |-> IF r = <<>> THEN None ELSE Tail(r)]
<1> DEFINE s == a \o r
           m == Len(a)
           n == Len(r)
           k == Rest(s, Span(s, delim))
           end == Span(s, ToSet(s) \ delim)
<1>1. /\ s \in Seq(S) /\ Len(s) = m + n /\ m \in Nat /\ n \in Nat
      /\ \A i \in 1 .. m : s[i] = a[i]
      /\ \A i \in 1 .. n : s[m + i] = r[i]
      /\ SubSeq(s, 1, m) = a
      /\ Rest(s, m) = r
  BY PartsAre
<1>2. m \in Nat \ {0} /\ s[1] = a[1] /\ s # <<>>
  BY NonEmpty, FirstOf
<1>3. s # None
  BY <1>2, NoneIs
<1> HIDE DEF s
<1>4. k = s
  <2>1. 0 \in 0 .. Len(s) /\ \A i \in 1 .. 0 : s[i] \in delim
    BY <1>1
  <2>2. 0 < Len(s) => s[0 + 1] \notin delim
    BY <1>1, <1>2
  <2>3. Span(s, delim) = 0
    BY <1>1, <2>1, <2>2, SpanOf
  <2>4. SubSeq(s, 1, Len(s)) = s
    BY <1>1, SubSeqFull
  <2> QED BY <2>3, <2>4 DEF Rest
<1>5. pg_strtok_r(s, delim) =
          [token |-> SubSeq(s, 1, end), last |-> IF end = Len(s) THEN None ELSE Rest(s, end + 1)]
  BY <1>2, <1>3, <1>4, StrtokIs
<1> HIDE DEF k
<1>6. end = m
  <2>1. \A i \in 1 .. m : s[i] \in ToSet(s) \ delim
    <3>1. DOMAIN s = 1 .. m + n
      BY <1>1
    <3>2. \A i \in 1 .. m : i \in DOMAIN s
      BY <1>1, <3>1
    <3> QED BY <1>1, <3>2 DEF ToSet
  <2>2. m < Len(s) => s[m + 1] \notin ToSet(s) \ delim
    <3> SUFFICES ASSUME m < Len(s)
                 PROVE  s[m + 1] \in delim
      OBVIOUS
    <3>1. 1 \in 1 .. n /\ r # <<>>
      BY <1>1
    <3> QED BY <1>1, <3>1
  <2>3. m \in 0 .. Len(s)
    BY <1>1
  <2> QED BY ONLY <1>1, <2>1, <2>2, <2>3, SpanOf
<1> HIDE DEF end
<1>7. CASE r = <<>>
  <2>1. end = Len(s)
    BY <1>1, <1>6, <1>7
  <2>2. pg_strtok_r(s, delim) = [token |-> a, last |-> None]
    BY <1>1, <1>5, <1>6, <2>1
  <2> QED BY <1>7, <2>2 DEF s
<1>8. CASE r # <<>>
  <2>1. n \in Nat \ {0}
    BY <1>8, NonEmpty
  <2>2. end # Len(s)
    <3> HIDE DEF m, n
    <3> QED BY ONLY <1>1, <1>6, <2>1
  <2>3. Rest(s, end + 1) = Tail(r)
    <3> DEFINE d == end + 1
               u == Rest(s, d)
               v == Tail(r)
    <3>1. d \in 0 .. Len(s) /\ Len(s) - d = n - 1
      BY <1>1, <1>6, <2>1
    <3>2. \A i \in 1 .. n - 1 : d + i = m + (i + 1) /\ i + 1 \in 1 .. n
      BY <1>1, <1>6, <2>1
    <3> HIDE DEF d
    <3>3. u \in Seq(S) /\ Len(u) = Len(s) - d /\ \A i \in 1 .. Len(s) - d : u[i] = s[d + i]
      BY ONLY <1>1, <3>1, RestIs, ZenonT(40)
    <3>4. v \in Seq(S) /\ Len(v) = n - 1 /\ \A i \in 1 .. Len(v) : v[i] = r[i + 1]
      BY <1>8, HeadTailProperties
    <3> HIDE DEF u, v
    <3>5. ASSUME NEW i \in 1 .. n - 1
          PROVE  u[i] = v[i]
      <4>1. u[i] = s[m + (i + 1)] /\ v[i] = r[i + 1]
        BY ONLY <3>1, <3>2, <3>3, <3>4, i \in 1 .. n - 1
      <4>2. s[m + (i + 1)] = r[i + 1]
        BY ONLY <1>1, <3>2, i \in 1 .. n - 1
      <4> QED BY ONLY <4>1, <4>2
    <3>6. u = v
      BY ONLY <3>1, <3>3, <3>4, <3>5, SeqEqual
    <3> QED BY <3>6 DEF u, v, d
  <2>4. pg_strtok_r(s, delim) = [token |-> a, last |-> Tail(r)]
    BY <1>1, <1>5, <1>6, <2>2, <2>3
  <2> QED BY <1>8, <2>4 DEF s
<1> QED BY <1>7, <1>8

\* A component: one or two digits, and no zero before another digit.
Numerals == {c \in Seq(Digits) : Len(c) \in 1 .. 2 /\ (Len(c) = 2 => c[1] # "0")}

LEMMA NumeralIs ==
    ASSUME NEW c \in Numerals
    PROVE  /\ c \in Seq(Digits) /\ c # <<>> /\ ~Octal(c) /\ c[1] \in Digits
           /\ \A i \in 1 .. Len(c) : c[i] \in Digits
           /\ ReadDigits(c, 10) \in 0 .. 99
<1>1. c \in Seq(Digits) /\ (Len(c) = 1 \/ Len(c) = 2) /\ (Len(c) = 2 => c[1] # "0")
  BY DEF Numerals
<1>2. c # <<>> /\ c[1] \in Digits /\ \A i \in 1 .. Len(c) : c[i] \in Digits
  BY <1>1
<1>3. ~Octal(c)
  BY <1>1 DEF Octal
<1>4. ReadDigits(c, 10) \in 0 .. 99
  <2>1. PICK value : IsDecimal(c, value) /\ ReadDigits(c, 10) = value[Len(c)]
    BY <1>1, ReadDigitsIs
  <2>2. \A i \in 1 .. Len(c) : DigitValue(c[i]) \in 0 .. 9
    BY <1>2, DigitValueIs
  <2>3. value[0] = 0 /\ \A k \in 1 .. Len(c) : value[k] = value[k - 1] * 10 + DigitValue(c[k])
    BY <2>1 DEF IsDecimal
  <2>4. value[1] \in 0 .. 9
    <3>1. 1 \in 1 .. Len(c) /\ 1 - 1 = 0
      BY <1>1
    <3>2. value[1] = value[0] * 10 + DigitValue(c[1])
      BY <2>3, <3>1
    <3> QED BY <2>2, <2>3, <3>1, <3>2
  <2>5. CASE Len(c) = 2
    <3>1. 2 \in 1 .. Len(c) /\ 2 - 1 = 1
      BY <2>5
    <3>2. value[2] = value[1] * 10 + DigitValue(c[2])
      BY <2>3, <3>1
    <3> QED BY <2>1, <2>2, <2>4, <2>5, <3>1, <3>2
  <2>6. CASE Len(c) = 1
    <3>1. value[Len(c)] = value[1] /\ \A d \in 0 .. 9 : d \in 0 .. 99
      BY <2>6
    <3> QED BY ONLY <2>1, <2>4, <3>1
  <2> QED BY <1>1, <2>5, <2>6
<1> QED BY <1>1, <1>2, <1>3, <1>4

\* parseToken looks at the digits that its token begins with.
LEMMA ParseIs ==
    ASSUME NEW S, Digits \subseteq S, NEW c \in Numerals, NEW V \in Seq(S), V = <<>> \/ V[1] \notin Digits
    PROVE  parseToken(c \o V) = [ok |-> TRUE, val |-> ReadDigits(c, 10)]
<1> DEFINE t == c \o V
           m == Len(c)
<1>1. c \in Seq(S) /\ c # <<>> /\ ~Octal(c) /\ \A i \in 1 .. m : c[i] \in Digits
  BY NumeralIs, SeqMonotonic
<1>2. /\ t \in Seq(S) /\ Len(t) = m + Len(V) /\ m \in Nat /\ Len(V) \in Nat
      /\ \A i \in 1 .. m : t[i] = c[i]
      /\ \A i \in 1 .. Len(V) : t[m + i] = V[i]
      /\ SubSeq(t, 1, m) = c
  BY <1>1, PartsAre
<1> HIDE DEF t, m
<1>3. Span(t, Digits) = m
  <2>1. m \in 0 .. Len(t) /\ \A i \in 1 .. m : t[i] \in Digits
    BY <1>1, <1>2
  <2>2. m < Len(t) => t[m + 1] \notin Digits
    <3> SUFFICES ASSUME m < Len(t)
                 PROVE  t[m + 1] \notin Digits
      OBVIOUS
    <3>1. 1 \in 1 .. Len(V)
      BY <1>2
    <3>2. V # <<>>
      BY <3>1
    <3> QED BY <1>2, <3>1, <3>2
  <2> QED BY ONLY <1>2, <2>1, <2>2, SpanOf
<1> DEFINE digits == SubSeq(t, 1, Span(t, Digits))
<1>4. digits = c
  BY <1>2, <1>3
<1>5. parseToken(t) = IF digits = <<>> \/ (Octal(digits) /\ {"8", "9"} \cap ToSet(digits) # {})
                      THEN [ok |-> FALSE, val |-> 0]
                      ELSE [ok |-> TRUE, val |-> ReadDigits(digits, IF Octal(digits) THEN 8 ELSE 10)]
  BY DEF parseToken
<1> HIDE DEF digits
<1> QED BY <1>1, <1>4, <1>5 DEF t

\* What is read of a text that has no dash.
ReadVersion(kept) ==
    LET t1 == pg_strtok_r(kept, {"."})
        t2 == pg_strtok_r(t1.last, {"."})
        t3 == pg_strtok_r(t2.last, {".", "-"})
        major == parseToken(t1.token)
        minor == Component(t2.token)
        patch == Component(t3.token)
    IN CASE t1.token = None -> Raise("Crash")
         [] t1.token # None /\ ~(major.ok /\ minor.ok /\ patch.ok) -> Raise("ValueError")
         [] OTHER -> Value("version", Weighed(major.val, minor.val, patch.val))

LEMMA NewIs == \A s : PgVersion_New(s) = ReadVersion(pg_strtok_r(s, {"-"}).token)
BY DEF PgVersion_New, ReadVersion

LEMMA BehindDot ==
    ASSUME NEW S, "." \in S, NEW x \in Seq(S)
    PROVE  LET r == <<".">> \o x
           IN  r \in Seq(S) /\ r # <<>> /\ r[1] = "." /\ Tail(r) = x
<1> DEFINE d == <<".">>
           r == d \o x
<1>1. d \in Seq(S) /\ d # <<>> /\ Len(d) = 1 /\ d[1] = "."
  OBVIOUS
<1> HIDE DEF d
<1>2. /\ r \in Seq(S) /\ Len(r) = 1 + Len(x) /\ Len(x) \in Nat
      /\ \A i \in 1 .. Len(x) : r[1 + i] = x[i]
  BY <1>1, PartsAre
<1>3. r # <<>> /\ r[1] = "."
  BY <1>1, FirstOf
<1> HIDE DEF r
<1>4. Tail(r) = x
  <2> DEFINE v == Tail(r)
  <2>1. v \in Seq(S) /\ Len(v) = Len(r) - 1 /\ \A i \in 1 .. Len(v) : v[i] = r[i + 1]
    BY <1>2, <1>3, HeadTailProperties
  <2> HIDE DEF v
  <2>2. Len(v) = Len(x) /\ \A i \in 1 .. Len(x) : i + 1 = 1 + i
    BY <1>2, <2>1
  <2>3. \A i \in 1 .. Len(v) : v[i] = x[i]
    BY ONLY <1>2, <2>1, <2>2
  <2>4. v = x
    BY ONLY <2>1, <2>2, <2>3, x \in Seq(S), SeqEqual
  <2> QED BY <2>4 DEF v
<1> QED BY <1>2, <1>3, <1>4 DEF r, d

LEMMA NoDotIsDigit == \A c \in Digits : c # "." /\ c # "-"
<1>1. Digits \subseteq {"0", "1", "2", "3", "4", "5", "6", "7", "8", "9"}
  BY DEF Digits, DigitSeq
<1> QED BY <1>1

\* What may follow the last component when the dash and what is behind it are gone.
Loose(V) == V = <<>> \/ (V[1] \notin Digits /\ \A i \in 1 .. Len(V) : V[i] # "." /\ V[i] # "-")

\* The last component is the last token.
LEMMA LastIs ==
    ASSUME NEW S, Digits \subseteq S, NEW c \in Numerals, NEW V \in Seq(S), Loose(V)
    PROVE  /\ c \o V \in Seq(S) /\ c \o V # None
           /\ \A delim \in {{"."}, {".", "-"}} :
                  pg_strtok_r(c \o V, delim) = [token |-> c \o V, last |-> None]
           /\ parseToken(c \o V) = [ok |-> TRUE, val |-> ReadDigits(c, 10)]
<1> DEFINE a == c \o V
           m == Len(c)
           n == Len(V)
<1>1. c \in Seq(S) /\ c # <<>> /\ c[1] \in Digits /\ \A i \in 1 .. m : c[i] \in Digits
  BY NumeralIs, SeqMonotonic
<1>2. /\ a \in Seq(S) /\ Len(a) = m + n /\ m \in Nat /\ n \in Nat
      /\ \A i \in 1 .. m : a[i] = c[i]
      /\ \A i \in 1 .. n : a[m + i] = V[i]
      /\ a[1] = c[1] /\ a # <<>>
  BY <1>1, PartsAre, FirstOf
<1>3. parseToken(a) = [ok |-> TRUE, val |-> ReadDigits(c, 10)]
  <2>1. V = <<>> \/ V[1] \notin Digits
    BY DEF Loose
  <2> QED BY <2>1, ParseIs
<1> HIDE DEF a, m
<1>4. \A i \in 1 .. n : V[i] # "." /\ V[i] # "-"
  BY DEF Loose
<1> HIDE DEF n
<1>5. \A i \in 1 .. Len(a) : a[i] # "." /\ a[i] # "-"
  <2> SUFFICES ASSUME NEW i \in 1 .. Len(a)
               PROVE  a[i] # "." /\ a[i] # "-"
    OBVIOUS
  <2>1. CASE i <= m
    <3>1. i \in 1 .. m
      BY <1>2, <2>1
    <3> QED BY <1>1, <1>2, <3>1, NoDotIsDigit
  <2>2. CASE i > m
    <3>1. i - m \in 1 .. n /\ m + (i - m) = i
      BY <1>2, <2>2
    <3>2. a[i] = V[i - m]
      BY <1>2, <3>1
    <3> QED BY <1>4, <3>1, <3>2
  <2> QED BY <1>2, <2>1, <2>2
<1>6. a # None
  BY <1>1, <1>2, NoneIs
<1>7. ASSUME NEW delim \in {{"."}, {".", "-"}}
      PROVE  pg_strtok_r(a, delim) = [token |-> a, last |-> None]
  <2>1. \A i \in 1 .. Len(a) : a[i] \notin delim
    BY <1>5
  <2>2. a \o <<>> = a /\ <<>> \in Seq(S)
    BY <1>2, ConcatEmptySeq, EmptySeq
  <2>3. a[1] \in Digits
    BY <1>1, <1>2
  <2>4. pg_strtok_r(a \o <<>>, delim) = [token |-> a, last |-> IF <<>> = <<>> THEN None ELSE Tail(<<>>)]
    BY ONLY <1>2, <2>1, <2>2, <2>3, TokenIs
  <2> QED BY <2>2, <2>4
<1> QED BY <1>2, <1>3, <1>6, <1>7 DEF a

\* The first of several components ends at the dot.
LEMMA NextIs ==
    ASSUME NEW S, Digits \subseteq S, "." \in S, NEW c \in Numerals, NEW x \in Seq(S)
    PROVE  /\ c \o (<<".">> \o x) \in Seq(S)
           /\ pg_strtok_r(c \o (<<".">> \o x), {"."}) = [token |-> c, last |-> x]
           /\ parseToken(c) = [ok |-> TRUE, val |-> ReadDigits(c, 10)] /\ c # None
<1> DEFINE r == <<".">> \o x
<1>1. c \in Seq(S) /\ c # <<>> /\ c[1] \in Digits /\ \A i \in 1 .. Len(c) : c[i] \in Digits
  BY NumeralIs, SeqMonotonic
<1>2. r \in Seq(S) /\ r # <<>> /\ r[1] = "." /\ Tail(r) = x
  BY BehindDot
<1> HIDE DEF r
<1>3. \A i \in 1 .. Len(c) : c[i] \notin {"."}
  BY <1>1, NoDotIsDigit
<1>4. pg_strtok_r(c \o r, {"."}) = [token |-> c, last |-> IF r = <<>> THEN None ELSE Tail(r)]
  BY <1>1, <1>2, <1>3, TokenIs
<1>5. c \o r \in Seq(S)
  BY <1>1, <1>2, ConcatProperties
<1>6. c \o <<>> = c /\ <<>> \in Seq(S)
  BY <1>1, ConcatEmptySeq, EmptySeq
<1>7. parseToken(c \o <<>>) = [ok |-> TRUE, val |-> ReadDigits(c, 10)]
  BY <1>6, ParseIs
<1>8. c # None
  BY <1>1, NoneIs
<1> QED BY <1>2, <1>4, <1>5, <1>6, <1>7, <1>8 DEF r

LEMMA ReadFrom ==
    ASSUME NEW kept, NEW t1, NEW t2, NEW t3, NEW M, NEW m, NEW p,
           pg_strtok_r(kept, {"."}) = t1, pg_strtok_r(t1.last, {"."}) = t2,
           pg_strtok_r(t2.last, {".", "-"}) = t3, t1.token # None,
           parseToken(t1.token) = [ok |-> TRUE, val |-> M],
           Component(t2.token) = [ok |-> TRUE, val |-> m],
           Component(t3.token) = [ok |-> TRUE, val |-> p]
    PROVE  ReadVersion(kept) = Value("version", Weighed(M, m, p))
BY DEF ReadVersion

LEMMA MissingIs ==
    /\ \A delim : pg_strtok_r(None, delim).token = None /\ pg_strtok_r(None, delim).last = None
    /\ Component(None) = [ok |-> TRUE, val |-> 0]
BY NoneIs DEF Component

LEMMA ReadOne ==
    ASSUME NEW S, Digits \subseteq S, "." \in S, NEW c \in Numerals, NEW V \in Seq(S), Loose(V)
    PROVE  ReadVersion(c \o V) = Value("version", Weighed(ReadDigits(c, 10), 0, 0))
<1> DEFINE a == c \o V
           t1 == [token |-> a, last |-> None]
           t2 == [token |-> None, last |-> None]
           v == ReadDigits(c, 10)
<1>1. /\ a # None /\ pg_strtok_r(a, {"."}) = t1
      /\ parseToken(a) = [ok |-> TRUE, val |-> v]
  BY LastIs
<1> HIDE DEF a, v
<1>2. t1.token = a /\ t1.last = None /\ t2.token = None /\ t2.last = None
  OBVIOUS
<1>3. \A delim : pg_strtok_r(None, delim) = t2
  BY NoneIs
<1> HIDE DEF t1, t2
<1>4. ReadVersion(a) = Value("version", Weighed(v, 0, 0))
  <2>1. /\ pg_strtok_r(a, {"."}) = t1 /\ pg_strtok_r(t1.last, {"."}) = t2
        /\ pg_strtok_r(t2.last, {".", "-"}) = t2 /\ t1.token # None
        /\ parseToken(t1.token) = [ok |-> TRUE, val |-> v]
        /\ Component(t2.token) = [ok |-> TRUE, val |-> 0]
    BY <1>1, <1>2, <1>3, MissingIs
  <2> QED BY ONLY <2>1, ReadFrom
<1> QED BY <1>4 DEF a, v

LEMMA ReadTwo ==
    ASSUME NEW S, Digits \subseteq S, "." \in S, NEW c \in Numerals, NEW d \in Numerals,
           NEW V \in Seq(S), Loose(V)
    PROVE  ReadVersion(c \o (<<".">> \o (d \o V)))
               = Value("version", Weighed(ReadDigits(c, 10), ReadDigits(d, 10), 0))
<1> DEFINE b == d \o V
           a == c \o (<<".">> \o b)
           t1 == [token |-> c, last |-> b]
           t2 == [token |-> b, last |-> None]
           t3 == [token |-> None, last |-> None]
           v == ReadDigits(c, 10)
           w == ReadDigits(d, 10)
<1>1. /\ b \in Seq(S) /\ b # None /\ pg_strtok_r(b, {"."}) = t2
      /\ parseToken(b) = [ok |-> TRUE, val |-> w]
  BY LastIs
<1> HIDE DEF b, w
<1>2. /\ c # None /\ pg_strtok_r(a, {"."}) = t1
      /\ parseToken(c) = [ok |-> TRUE, val |-> v]
  BY <1>1, NextIs
<1> HIDE DEF a, v
<1>3. /\ t1.token = c /\ t1.last = b /\ t2.token = b /\ t2.last = None
      /\ t3.token = None /\ t3.last = None
  OBVIOUS
<1>4. \A delim : pg_strtok_r(None, delim) = t3
  BY NoneIs
<1>5. Component(b) = [ok |-> TRUE, val |-> w]
  BY <1>1 DEF Component
<1> HIDE DEF t1, t2, t3
<1>6. ReadVersion(a) = Value("version", Weighed(v, w, 0))
  <2>1. /\ pg_strtok_r(a, {"."}) = t1 /\ pg_strtok_r(t1.last, {"."}) = t2
        /\ pg_strtok_r(t2.last, {".", "-"}) = t3 /\ t1.token # None
        /\ parseToken(t1.token) = [ok |-> TRUE, val |-> v]
        /\ Component(t2.token) = [ok |-> TRUE, val |-> w]
        /\ Component(t3.token) = [ok |-> TRUE, val |-> 0]
    BY <1>1, <1>2, <1>3, <1>4, <1>5, MissingIs
  <2> QED BY ONLY <2>1, ReadFrom
<1> QED BY <1>6 DEF a, b, v, w

LEMMA ReadThree ==
    ASSUME NEW S, Digits \subseteq S, "." \in S, NEW c \in Numerals, NEW d \in Numerals,
           NEW e \in Numerals, NEW V \in Seq(S), Loose(V)
    PROVE  ReadVersion(c \o (<<".">> \o (d \o (<<".">> \o (e \o V)))))
               = Value("version", Weighed(ReadDigits(c, 10), ReadDigits(d, 10), ReadDigits(e, 10)))
<1> DEFINE f == e \o V
           b == d \o (<<".">> \o f)
           a == c \o (<<".">> \o b)
           t1 == [token |-> c, last |-> b]
           t2 == [token |-> d, last |-> f]
           t3 == [token |-> f, last |-> None]
           v == ReadDigits(c, 10)
           w == ReadDigits(d, 10)
           x == ReadDigits(e, 10)
<1>1. /\ f \in Seq(S) /\ f # None /\ pg_strtok_r(f, {".", "-"}) = t3
      /\ parseToken(f) = [ok |-> TRUE, val |-> x]
  BY LastIs
<1> HIDE DEF f, x
<1>2. /\ b \in Seq(S) /\ d # None /\ pg_strtok_r(b, {"."}) = t2
      /\ parseToken(d) = [ok |-> TRUE, val |-> w]
  BY <1>1, NextIs
<1> HIDE DEF b, w
<1>3. /\ c # None /\ pg_strtok_r(a, {"."}) = t1
      /\ parseToken(c) = [ok |-> TRUE, val |-> v]
  BY <1>2, NextIs
<1> HIDE DEF a, v
<1>4. /\ t1.token = c /\ t1.last = b /\ t2.token = d /\ t2.last = f /\ t3.token = f
  OBVIOUS
<1>5. Component(d) = [ok |-> TRUE, val |-> w] /\ Component(f) = [ok |-> TRUE, val |-> x]
  BY <1>1, <1>2 DEF Component
<1> HIDE DEF t1, t2, t3
<1>6. ReadVersion(a) = Value("version", Weighed(v, w, x))
  <2>1. /\ pg_strtok_r(a, {"."}) = t1 /\ pg_strtok_r(t1.last, {"."}) = t2
        /\ pg_strtok_r(t2.last, {".", "-"}) = t3 /\ t1.token # None
        /\ parseToken(t1.token) = [ok |-> TRUE, val |-> v]
        /\ Component(t2.token) = [ok |-> TRUE, val |-> w]
        /\ Component(t3.token) = [ok |-> TRUE, val |-> x]
    BY <1>1, <1>2, <1>3, <1>4, <1>5
  <2> QED BY ONLY <2>1, ReadFrom
<1> QED BY <1>6 DEF a, b, f, v, w, x

LEMMA SpanSplit ==
    ASSUME NEW S, NEW s \in Seq(S), NEW set
    PROVE  LET n == Span(s, set)
               h == SubSeq(s, 1, n)
               r == Rest(s, n)
           IN  /\ s = h \o r /\ h \in Seq(S) /\ r \in Seq(S)
               /\ Len(h) = n /\ n \in Nat /\ \A i \in 1 .. n : h[i] \in set
               /\ r = <<>> \/ r[1] \notin set
<1> DEFINE n == Span(s, set)
           h == SubSeq(s, 1, n)
           r == Rest(s, n)
<1>1. n \in 0 .. Len(s) /\ (\A i \in 1 .. n : s[i] \in set) /\ (n < Len(s) => s[n + 1] \notin set) /\ Len(s) \in Nat
  BY SpanIs
<1> HIDE DEF n
<1>2. h \o r = s
  <2>1. 1 \in 1 .. Len(s) + 1 /\ n \in 1 - 1 .. Len(s) /\ Len(s) \in n .. Len(s)
    BY <1>1
  <2>2. SubSeq(s, 1, n) \o SubSeq(s, n + 1, Len(s)) = SubSeq(s, 1, Len(s))
    BY <2>1, ConcatAdjacentSubSeq
  <2> QED BY <2>2, SubSeqFull DEF Rest
<1>3. h \in Seq(S) /\ Len(h) = n /\ \A i \in 1 .. n : h[i] = s[i]
  <2>1. 1 \in Nat \ {0} /\ 1 <= n + 1 /\ n <= Len(s) /\ n \in Nat /\ n - 1 + 1 = n /\ \A i \in 1 .. n : 1 + i - 1 = i
    BY <1>1
  <2>2. h \in Seq(S) /\ Len(h) = n - 1 + 1 /\ \A i \in 1 .. n - 1 + 1 : h[i] = s[1 + i - 1]
    BY <2>1, SubSeqIs
  <2> HIDE DEF h
  <2> QED BY <2>1, <2>2
<1>4. r \in Seq(S) /\ Len(r) = Len(s) - n /\ \A i \in 1 .. Len(s) - n : r[i] = s[n + i]
  BY <1>1, RestIs
<1> HIDE DEF h, r
<1>5. r = <<>> \/ r[1] \notin set
  <2> SUFFICES ASSUME r # <<>>
               PROVE  r[1] \notin set
    OBVIOUS
  <2>1. Len(r) \in Nat \ {0}
    BY <1>4, NonEmpty
  <2>2. 1 \in 1 .. Len(s) - n /\ n < Len(s)
    BY <1>1, <1>4, <2>1
  <2> QED BY <1>1, <1>4, <2>2
<1> QED BY <1>1, <1>2, <1>3, <1>4, <1>5 DEF h, r, n

\* The dash, and what is behind it, is cut off.
LEMMA DashIs ==
    ASSUME NEW S, NEW head \in Seq(S), head # <<>>, head[1] \in Digits, \A i \in 1 .. Len(head) : head[i] # "-",
           NEW V \in Seq(S), V = <<>> \/ V[1] = "-" \/ (V[1] \notin Digits /\ \A i \in 1 .. Len(V) : V[i] # ".")
    PROVE  \E W \in Seq(S) : Loose(W) /\ pg_strtok_r(head \o V, {"-"}).token = head \o W
<1> DEFINE n == Span(V, S \ {"-"})
           W == SubSeq(V, 1, n)
           R == Rest(V, n)
           a == head \o W
<1>1. /\ V = W \o R /\ W \in Seq(S) /\ R \in Seq(S) /\ Len(W) = n /\ n \in Nat
      /\ \A i \in 1 .. n : W[i] \in S \ {"-"}
      /\ R = <<>> \/ R[1] \notin S \ {"-"}
  BY SpanSplit, SMTT(30)
<1> HIDE DEF n, W, R
<1> DEFINE m == Len(head)
<1>2. /\ a \in Seq(S) /\ Len(a) = m + n /\ m \in Nat /\ a # <<>> /\ a[1] = head[1]
      /\ \A i \in 1 .. m : a[i] = head[i]
      /\ \A i \in 1 .. n : a[m + i] = W[i]
  <2>1. head \in Seq(S) /\ head # <<>> /\ W \in Seq(S) /\ Len(W) = n
    BY <1>1
  <2>2. /\ a \in Seq(S) /\ Len(a) = m + Len(W) /\ m \in Nat
        /\ \A i \in 1 .. m : a[i] = head[i]
        /\ \A i \in 1 .. Len(W) : a[m + i] = W[i]
    BY ONLY <2>1, PartsAre, ZenonT(40)
  <2>3. a[1] = head[1] /\ a # <<>>
    BY ONLY <2>1, FirstOf
  <2> HIDE DEF a, m, n
  <2> QED BY ONLY <2>1, <2>2, <2>3
<1>3. head \o V = a \o R
  <2>1. head \in Seq(S) /\ W \in Seq(S) /\ R \in Seq(S)
    BY <1>1
  <2>2. (head \o W) \o R = head \o (W \o R)
    BY ONLY <2>1, ConcatAssociative
  <2> QED BY ONLY <1>1, <2>2
<1>9. \A i \in 1 .. m : head[i] # "-"
  OBVIOUS
<1> HIDE DEF a, m
<1>4. \A i \in 1 .. Len(a) : a[i] \notin {"-"}
  <2> SUFFICES ASSUME NEW i \in 1 .. Len(a)
               PROVE  a[i] # "-"
    OBVIOUS
  <2>1. CASE i <= m
    <3>1. i \in 1 .. m
      BY <1>2, <2>1
    <3> QED BY <1>2, <1>9, <3>1
  <2>2. CASE i > m
    <3>1. i - m \in 1 .. n /\ m + (i - m) = i
      BY ONLY <1>1, <1>2, <2>2, i \in 1 .. Len(a)
    <3>2. a[i] = W[i - m]
      BY <1>2, <3>1
    <3> QED BY <1>1, <3>1, <3>2
  <2> QED BY <1>2, <2>1, <2>2
<1>5. R = <<>> \/ R[1] \in {"-"}
  <2> SUFFICES ASSUME R # <<>>
               PROVE  R[1] = "-"
    OBVIOUS
  <2>1. R[1] \in S
    BY <1>1, NonEmpty
  <2> QED BY <1>1, <2>1
<1>6. pg_strtok_r(a \o R, {"-"}) = [token |-> a, last |-> IF R = <<>> THEN None ELSE Tail(R)]
  <2>1. a[1] \in Digits
    BY <1>2
  <2>2. a \in Seq(S) /\ R \in Seq(S) /\ a # <<>> /\ \A i \in 1 .. Len(a) : a[i] \notin {"-"}
    BY <1>1, <1>2, <1>4
  <2> DEFINE delim == {"-"}
  <2> HIDE DEF delim
  <2>3. (\A i \in 1 .. Len(a) : a[i] \notin delim) /\ (R = <<>> \/ R[1] \in delim)
    BY <1>5, <2>2 DEF delim
  <2>4. pg_strtok_r(a \o R, delim) = [token |-> a, last |-> IF R = <<>> THEN None ELSE Tail(R)]
    BY ONLY <2>1, <2>2, <2>3, TokenIs
  <2> QED BY <2>4 DEF delim
<1>7. Loose(W)
  <2> SUFFICES ASSUME W # <<>>
               PROVE  W[1] \notin Digits /\ \A i \in 1 .. Len(W) : W[i] # "." /\ W[i] # "-"
    BY DEF Loose
  <2>1. 1 \in 1 .. n /\ V[1] = W[1] /\ V # <<>>
    BY <1>1, NonEmpty, FirstOf
  <2>2. W[1] # "-"
    BY <1>1, <2>1
  <2>3. V[1] \notin Digits /\ \A i \in 1 .. Len(V) : V[i] # "."
    BY <2>1, <2>2
  <2>4. \A i \in 1 .. n : V[i] = W[i] /\ i \in 1 .. Len(V)
    <3>1. W \in Seq(S) /\ R \in Seq(S)
      BY <1>1
    <3>2. /\ \A i \in 1 .. Len(W) : (W \o R)[i] = W[i]
          /\ Len(W \o R) = Len(W) + Len(R) /\ Len(R) \in Nat
      BY ONLY <3>1, PartsAre
    <3>3. /\ \A i \in 1 .. n : V[i] = W[i]
          /\ Len(V) = n + Len(R)
      BY ONLY <1>1, <3>2
    <3> HIDE DEF n
    <3> QED BY ONLY <1>1, <3>2, <3>3
  <2> QED BY <1>1, <2>1, <2>3, <2>4
<1>8. pg_strtok_r(head \o V, {"-"}).token = head \o W
  BY <1>3, <1>6 DEF a
<1> QED BY <1>1, <1>7, <1>8

\* What a vendor may add to a version.
Foreign(V) == V = <<>> \/ V[1] = "-" \/ (V[1] \notin Digits /\ \A i \in 1 .. Len(V) : V[i] # ".")
Dashless(s) == \A i \in 1 .. Len(s) : s[i] # "-"

LEMMA CutIs ==
    ASSUME NEW S, NEW front \in Seq(S), front # <<>>, front[1] \in Digits, Dashless(front),
           NEW V \in Seq(S), Foreign(V)
    PROVE  \E W \in Seq(S) : Loose(W) /\ PgVersion_New(front \o V) = ReadVersion(front \o W)
<1>1. \A i \in 1 .. Len(front) : front[i] # "-"
  BY DEF Dashless
<1>2. V = <<>> \/ V[1] = "-" \/ (V[1] \notin Digits /\ \A i \in 1 .. Len(V) : V[i] # ".")
  BY DEF Foreign
<1>3. PICK W \in Seq(S) : Loose(W) /\ pg_strtok_r(front \o V, {"-"}).token = front \o W
  BY <1>1, <1>2, DashIs
<1> QED BY <1>3, NewIs

LEMMA NumeralFront ==
    ASSUME NEW S, Digits \subseteq S, NEW c \in Numerals
    PROVE  c \in Seq(S) /\ c # <<>> /\ c[1] \in Digits /\ Dashless(c)
<1>1. c \in Seq(S) /\ c # <<>> /\ c[1] \in Digits /\ \A i \in 1 .. Len(c) : c[i] \in Digits
  BY NumeralIs, SeqMonotonic
<1> QED BY <1>1, NoDotIsDigit DEF Dashless

LEMMA DottedFront ==
    ASSUME NEW S, Digits \subseteq S, "." \in S, NEW c \in Numerals, NEW x \in Seq(S), Dashless(x)
    PROVE  LET h == c \o (<<".">> \o x)
           IN  /\ h \in Seq(S) /\ Dashless(h)
               /\ \A V \in Seq(S) : h \o V = c \o (<<".">> \o (x \o V))
<1> DEFINE d == <<".">>
           r == d \o x
           h == c \o r
<1>1. c \in Seq(S) /\ c # <<>> /\ c[1] \in Digits /\ Dashless(c)
  BY NumeralFront
<1>2. d \in Seq(S) /\ Len(d) = 1 /\ d[1] = "."
  OBVIOUS
<1> HIDE DEF d
<1>3. /\ r \in Seq(S) /\ Len(r) = 1 + Len(x) /\ Len(x) \in Nat
      /\ \A i \in 1 .. 1 : r[i] = d[i]
      /\ \A i \in 1 .. Len(x) : r[1 + i] = x[i]
  <2>1. d \in Seq(S) /\ x \in Seq(S)
    BY <1>2
  <2>2. /\ r \in Seq(S) /\ Len(r) = Len(d) + Len(x) /\ Len(x) \in Nat
        /\ \A i \in 1 .. Len(d) : r[i] = d[i]
        /\ \A i \in 1 .. Len(x) : r[Len(d) + i] = x[i]
    BY ONLY <2>1, PartsAre
  <2> HIDE DEF r
  <2> QED BY ONLY <1>2, <2>2
<1>4. \A V \in Seq(S) : r \o V = d \o (x \o V)
  <2>1. d \in Seq(S) /\ x \in Seq(S)
    BY <1>2
  <2> QED BY ONLY <2>1, ConcatAssociative
<1> HIDE DEF r
<1>5. Dashless(r)
  <2>1. \A i \in 1 .. Len(x) : x[i] # "-"
    BY DEF Dashless
  <2> HIDE DEF h
  <2>2. \A i \in 1 .. Len(r) : i \in 1 .. 1 \/ (i - 1 \in 1 .. Len(x) /\ 1 + (i - 1) = i)
    BY ONLY <1>3
  <2>3. \A i \in 1 .. 1 : r[i] # "-"
    BY <1>2, <1>3
  <2> SUFFICES ASSUME NEW i \in 1 .. Len(r)
               PROVE  r[i] # "-"
    BY DEF Dashless
  <2>4. CASE i \in 1 .. 1
    BY <2>3, <2>4
  <2>5. CASE i - 1 \in 1 .. Len(x) /\ 1 + (i - 1) = i
    <3>1. r[1 + (i - 1)] = x[i - 1]
      BY <1>3, <2>5
    <3>2. r[i] = x[i - 1]
      BY <2>5, <3>1
    <3> QED BY <2>1, <2>5, <3>2
  <2> QED BY <2>2, <2>4, <2>5
<1>20. c \in Seq(S) /\ c # <<>> /\ r \in Seq(S)
  BY <1>1, <1>3
<1>6. /\ h \in Seq(S) /\ Len(h) = Len(c) + Len(r) /\ Len(c) \in Nat /\ Len(r) \in Nat
      /\ \A i \in 1 .. Len(c) : h[i] = c[i]
      /\ \A i \in 1 .. Len(r) : h[Len(c) + i] = r[i]
  BY ONLY <1>20, PartsAre
<1>8. \A V \in Seq(S) : h \o V = c \o (r \o V)
  BY ONLY <1>20, ConcatAssociative
<1> HIDE DEF h
<1>9. Dashless(h)
  <2>1. /\ \A i \in 1 .. Len(c) : c[i] # "-"
        /\ \A i \in 1 .. Len(r) : r[i] # "-"
    BY <1>1, <1>5 DEF Dashless
  <2> SUFFICES ASSUME NEW i \in 1 .. Len(h)
               PROVE  h[i] # "-"
    BY DEF Dashless
  <2>2. CASE i <= Len(c)
    <3>1. i \in 1 .. Len(c)
      BY <1>6, <2>2
    <3> QED BY <1>6, <2>1, <3>1
  <2>3. CASE i > Len(c)
    <3>1. i - Len(c) \in 1 .. Len(r) /\ Len(c) + (i - Len(c)) = i
      BY <1>6, <2>3
    <3>2. h[i] = r[i - Len(c)]
      BY <1>6, <3>1
    <3> QED BY <2>1, <3>1, <3>2
  <2> QED BY <1>6, <2>2, <2>3
<1>10. \A V \in Seq(S) : h \o V = c \o (d \o (x \o V))
  BY <1>4, <1>8
<1> QED BY <1>6, <1>9, <1>10 DEF h, r, d

LEMMA DottedStart ==
    ASSUME NEW S, Digits \subseteq S, "." \in S, NEW c \in Numerals, NEW x \in Seq(S)
    PROVE  LET h == c \o (<<".">> \o x)
           IN  h # <<>> /\ h[1] \in Digits
<1> DEFINE d == <<".">>
           r == d \o x
<1>1. c \in Seq(S) /\ c # <<>> /\ c[1] \in Digits
  BY NumeralFront
<1>2. d \in Seq(S) /\ x \in Seq(S)
  OBVIOUS
<1> HIDE DEF d
<1>3. r \in Seq(S)
  BY ONLY <1>2, PartsAre
<1> HIDE DEF r
<1>4. c \in Seq(S) /\ c # <<>> /\ r \in Seq(S)
  BY <1>1, <1>3
<1>5. c \o r # <<>> /\ (c \o r)[1] = c[1]
  BY ONLY <1>4, FirstOf
<1> QED BY <1>1, <1>5 DEF r, d

\* The number of a version with one, two or three components.
LEMMA NewOne ==
    ASSUME NEW S, Digits \subseteq S, "." \in S, NEW c \in Numerals, NEW V \in Seq(S), Foreign(V)
    PROVE  PgVersion_New(c \o V) = Value("version", Weighed(ReadDigits(c, 10), 0, 0))
<1>1. c \in Seq(S) /\ c # <<>> /\ c[1] \in Digits /\ Dashless(c)
  BY NumeralFront
<1>2. PICK W \in Seq(S) : Loose(W) /\ PgVersion_New(c \o V) = ReadVersion(c \o W)
  BY <1>1, CutIs
<1> QED BY <1>2, ReadOne

LEMMA NewTwo ==
    ASSUME NEW S, Digits \subseteq S, "." \in S, NEW c \in Numerals, NEW d \in Numerals,
           NEW V \in Seq(S), Foreign(V)
    PROVE  PgVersion_New(c \o (<<".">> \o (d \o V)))
               = Value("version", Weighed(ReadDigits(c, 10), ReadDigits(d, 10), 0))
<1> DEFINE h == c \o (<<".">> \o d)
<1>1. d \in Seq(S) /\ Dashless(d)
  BY NumeralFront
<1>2. h \in Seq(S) /\ Dashless(h) /\ \A W \in Seq(S) : h \o W = c \o (<<".">> \o (d \o W))
  BY <1>1, DottedFront
<1>3. h # <<>> /\ h[1] \in Digits
  BY <1>1, DottedStart
<1> HIDE DEF h
<1>4. PICK W \in Seq(S) : Loose(W) /\ PgVersion_New(h \o V) = ReadVersion(h \o W)
  BY <1>2, <1>3, CutIs
<1>5. ReadVersion(c \o (<<".">> \o (d \o W)))
          = Value("version", Weighed(ReadDigits(c, 10), ReadDigits(d, 10), 0))
  BY <1>4, ReadTwo
<1> QED BY <1>2, <1>4, <1>5

LEMMA NewThree ==
    ASSUME NEW S, Digits \subseteq S, "." \in S, NEW c \in Numerals, NEW d \in Numerals,
           NEW e \in Numerals, NEW V \in Seq(S), Foreign(V)
    PROVE  PgVersion_New(c \o (<<".">> \o (d \o (<<".">> \o (e \o V)))))
               = Value("version", Weighed(ReadDigits(c, 10), ReadDigits(d, 10), ReadDigits(e, 10)))
<1> DEFINE x == d \o (<<".">> \o e)
           h == c \o (<<".">> \o x)
<1>1. e \in Seq(S) /\ Dashless(e)
  BY NumeralFront
<1>2. x \in Seq(S) /\ Dashless(x) /\ \A W \in Seq(S) : x \o W = d \o (<<".">> \o (e \o W))
  BY <1>1, DottedFront, SMTT(30)
<1> HIDE DEF x
<1>3. h \in Seq(S) /\ Dashless(h) /\ \A W \in Seq(S) : h \o W = c \o (<<".">> \o (x \o W))
  <2>1. x \in Seq(S) /\ Dashless(x) /\ Digits \subseteq S /\ "." \in S /\ c \in Numerals
    BY <1>2
  <2> QED BY ONLY <2>1, DottedFront, SMTT(30)
<1>4. h # <<>> /\ h[1] \in Digits
  BY <1>2, DottedStart
<1> HIDE DEF h
<1>5. PICK W \in Seq(S) : Loose(W) /\ PgVersion_New(h \o V) = ReadVersion(h \o W)
  BY <1>3, <1>4, CutIs
<1>6. \A U \in Seq(S) : h \o U = c \o (<<".">> \o (d \o (<<".">> \o (e \o U))))
  BY <1>2, <1>3
<1>7. ReadVersion(c \o (<<".">> \o (d \o (<<".">> \o (e \o W)))))
          = Value("version", Weighed(ReadDigits(c, 10), ReadDigits(d, 10), ReadDigits(e, 10)))
  BY <1>5, ReadThree
<1> QED BY <1>5, <1>6, <1>7

\* The digits a text starts with, what follows them, and the next component.
LEMMA PieceIs ==
    ASSUME NEW S, NEW t \in Seq(S)
    PROVE  /\ t = Numeral(t) \o After(t) /\ Numeral(t) \in Seq(Digits) /\ After(t) \in Seq(S)
           /\ After(t) = <<>> \/ After(t)[1] \notin Digits
           /\ Further(t) \in Seq(S)
           /\ Continues(t) => After(t) = <<".">> \o Further(t)
           /\ ~Continues(t) => Further(t) = <<>>
<1> DEFINE h == Numeral(t)
           a == After(t)
<1>1. /\ t = h \o a /\ h \in Seq(S) /\ a \in Seq(S)
      /\ \A i \in 1 .. Len(h) : h[i] \in Digits
      /\ a = <<>> \/ a[1] \notin Digits
  BY SpanSplit DEF Numeral, After
<1> HIDE DEF h, a
<1>2. h \in Seq(Digits)
  <2>1. DOMAIN h = 1 .. Len(h) /\ Len(h) \in Nat /\ h = [i \in 1 .. Len(h) |-> h[i]]
    BY <1>1
  <2> QED BY <1>1, <2>1
<1>3. CASE Continues(t)
  <2>1. a # <<>> /\ a[1] = "." /\ Further(t) = Tail(a)
    BY <1>3 DEF Continues, Further, a
  <2>2. Tail(a) \in Seq(S) /\ a = <<a[1]>> \o Tail(a)
    BY <1>1, <2>1
  <2>3. a = <<".">> \o Tail(a)
    BY <2>1, <2>2
  <2> QED BY <1>1, <1>2, <1>3, <2>1, <2>2, <2>3 DEF h, a
<1>4. CASE ~Continues(t)
  <2>1. Further(t) = <<>>
    BY <1>4 DEF Further
  <2> QED BY <1>1, <1>2, <1>4, <2>1 DEF h, a
<1> QED BY <1>3, <1>4

\* The number that a component of no, one or two digits denotes.
LEMMA DigitsDenote ==
    ASSUME NEW c \in Seq(Digits)
    PROVE  /\ Len(c) = 0 => ReadDigits(c, 10) = 0
           /\ Len(c) = 1 => ReadDigits(c, 10) = DigitValue(c[1])
           /\ Len(c) = 2 => ReadDigits(c, 10) = DigitValue(c[1]) * 10 + DigitValue(c[2])
<1>1. PICK value : IsDecimal(c, value) /\ ReadDigits(c, 10) = value[Len(c)]
  BY ReadDigitsIs
<1>2. value[0] = 0 /\ \A k \in 1 .. Len(c) : value[k] = value[k - 1] * 10 + DigitValue(c[k])
  BY <1>1 DEF IsDecimal
<1>3. ASSUME Len(c) \in 1 .. 2
      PROVE  value[1] = DigitValue(c[1])
  <2>1. 1 \in 1 .. Len(c) /\ 1 - 1 = 0
    BY <1>3
  <2>2. value[1] = value[0] * 10 + DigitValue(c[1]) /\ DigitValue(c[1]) \in 0 .. 9
    BY <1>2, <2>1, DigitValueIs
  <2> QED BY <1>2, <2>2
<1>4. ASSUME Len(c) = 2
      PROVE  value[2] = value[1] * 10 + DigitValue(c[2])
  <2>1. 2 \in 1 .. Len(c) /\ 2 - 1 = 1
    BY <1>4
  <2> QED BY <1>2, <2>1
<1> QED BY <1>1, <1>2, <1>3, <1>4

LEMMA TwoDigitsIs ==
    ASSUME NEW S, NEW t \in Seq(S), TwoDigits(Numeral(t))
    PROVE  Numeral(t) \in Numerals
BY PieceIs DEF TwoDigits, Numerals

LEMMA EmptyPiece == Numeral(<<>>) = <<>> /\ Further(<<>>) = <<>> /\ ~Continues(<<>>) /\ ReadDigits(<<>>, 10) = 0
<1>1. <<>> \in Seq({}) /\ <<>> \in Seq(Digits)
  OBVIOUS
<1>2. <<>> = Numeral(<<>>) \o After(<<>>) /\ Numeral(<<>>) \in Seq(Digits) /\ After(<<>>) \in Seq({})
  BY <1>1, PieceIs
<1> DEFINE h == Numeral(<<>>)
           a == After(<<>>)
<1>3. a = <<>>
  <2> SUFFICES ASSUME a # <<>>
               PROVE  FALSE
    OBVIOUS
  <2>1. a[1] \in {}
    BY <1>2, NonEmpty
  <2> QED BY <2>1
<1>4. h = <<>>
  <2> HIDE DEF h, a
  <2>1. h \in Seq(Digits) /\ <<>> = h \o <<>>
    BY <1>2, <1>3 DEF h, a
  <2>2. h \o <<>> = h
    BY <2>1, ConcatEmptySeq
  <2> QED BY <2>1, <2>2
<1>5. ~Continues(<<>>)
  BY <1>3 DEF Continues
<1>6. Further(<<>>) = <<>>
  BY <1>5 DEF Further
<1>7. ReadDigits(<<>>, 10) = 0
  BY <1>1, DigitsDenote
<1> QED BY <1>4, <1>5, <1>6, <1>7

\* What is added to a plain version is foreign to it.
LEMMA AddedIs ==
    ASSUME NEW S, NEW t \in Seq(S), After(t) = <<>> \/ After(t)[1] = "-" \/ "." \notin ToSet(After(t))
    PROVE  Foreign(After(t))
<1> DEFINE a == After(t)
<1>1. a \in Seq(S) /\ (a = <<>> \/ a[1] \notin Digits) /\ (a = <<>> \/ a[1] = "-" \/ "." \notin ToSet(a))
  BY PieceIs
<1> HIDE DEF a
<1>2. \A i \in 1 .. Len(a) : a[i] \in ToSet(a)
  <2>1. DOMAIN a = 1 .. Len(a)
    BY <1>1
  <2> QED BY <2>1 DEF ToSet
<1>3. Foreign(a)
  BY <1>1, <1>2 DEF Foreign
<1> QED BY <1>3 DEF a

\* A plain version is the number of its components.
LEMMA PlainIs ==
    ASSUME NEW S, Digits \subseteq S, "." \in S, NEW t \in Seq(S), Plain(t)
    PROVE  /\ PgVersion_New(t)
                  = Value("version", Weighed(ComponentOf(t, 1), ComponentOf(t, 2), ComponentOf(t, 3)))
           /\ \A n \in 1 .. 3 : ComponentOf(t, n) \in 0 .. 99
<1> DEFINE u == Further(t)
           v == Further(u)
           c == Numeral(t)
           d == Numeral(u)
           e == Numeral(v)
<1>1. /\ t = c \o After(t) /\ u \in Seq(S) /\ After(t) \in Seq(S)
      /\ Continues(t) => After(t) = <<".">> \o u
      /\ ~Continues(t) => u = <<>>
  BY PieceIs
<1>2. /\ u = d \o After(u) /\ v \in Seq(S) /\ After(u) \in Seq(S)
      /\ Continues(u) => After(u) = <<".">> \o v
      /\ ~Continues(u) => v = <<>>
  <2> HIDE DEF u
  <2> QED BY <1>1, PieceIs
<1>3. v = e \o After(v) /\ After(v) \in Seq(S)
  <2> HIDE DEF v
  <2> QED BY <1>2, PieceIs
<1>4. /\ ComponentOf(t, 1) = ReadDigits(c, 10)
      /\ ComponentOf(t, 2) = ReadDigits(d, 10)
      /\ ComponentOf(t, 3) = ReadDigits(e, 10)
  BY DEF ComponentOf, Components
<1>5. /\ TwoDigits(c) /\ (Continues(t) => TwoDigits(d)) /\ (Continues(u) => TwoDigits(e))
      /\ Added(t) = <<>> \/ Added(t)[1] = "-" \/ "." \notin ToSet(Added(t))
      /\ Added(t) = After(IF Continues(u) THEN v ELSE IF Continues(t) THEN u ELSE t)
  BY DEF Plain, Added
<1>6. /\ c \in Numerals
      /\ Continues(t) => d \in Numerals
      /\ Continues(u) => e \in Numerals
  <2>1. c \in Numerals
    BY <1>5, TwoDigitsIs
  <2>2. TwoDigits(d) => d \in Numerals
    <3> HIDE DEF u
    <3> QED BY <1>1, TwoDigitsIs
  <2>3. TwoDigits(e) => e \in Numerals
    <3> HIDE DEF v
    <3> QED BY <1>2, TwoDigitsIs
  <2> QED BY <1>5, <2>1, <2>2, <2>3
<1>7. Continues(u) => Continues(t)
  BY <1>1, EmptyPiece
<1> HIDE DEF u, v, c, d, e
<1>8. CASE ~Continues(t)
  <2>1. u = <<>> /\ ~Continues(u) /\ v = <<>> /\ d = <<>> /\ e = <<>>
    BY <1>1, <1>2, <1>7, <1>8, EmptyPiece DEF d, e
  <2>2. Foreign(After(t))
    BY <1>5, <1>8, <2>1, AddedIs
  <2>3. PgVersion_New(c \o After(t)) = Value("version", Weighed(ReadDigits(c, 10), 0, 0))
    BY <1>1, <1>6, <2>2, NewOne
  <2>4. ReadDigits(d, 10) = 0 /\ ReadDigits(e, 10) = 0 /\ ReadDigits(c, 10) \in 0 .. 99
    BY <1>6, <2>1, EmptyPiece, NumeralIs
  <2>5. t = c \o After(t)
    BY <1>1
  <2>6. PgVersion_New(t) = Value("version", Weighed(ReadDigits(c, 10), ReadDigits(d, 10), ReadDigits(e, 10)))
    BY ONLY <2>3, <2>4, <2>5
  <2> QED BY ONLY <1>4, <2>4, <2>6
<1>9. CASE Continues(t) /\ ~Continues(u)
  <2>1. v = <<>> /\ e = <<>>
    BY <1>2, <1>9, EmptyPiece DEF e
  <2>2. Foreign(After(u))
    BY <1>1, <1>5, <1>9, AddedIs
  <2>3. PgVersion_New(c \o (<<".">> \o (d \o After(u))))
            = Value("version", Weighed(ReadDigits(c, 10), ReadDigits(d, 10), 0))
    BY <1>2, <1>6, <1>9, <2>2, NewTwo
  <2>4. ReadDigits(d, 10) \in 0 .. 99 /\ ReadDigits(e, 10) = 0 /\ ReadDigits(c, 10) \in 0 .. 99
    BY <1>6, <1>9, <2>1, EmptyPiece, NumeralIs
  <2>5. t = c \o (<<".">> \o (d \o After(u)))
    BY <1>1, <1>2, <1>9
  <2> QED BY <1>4, <2>3, <2>4, <2>5
<1>10. CASE Continues(u)
  <2>1. Continues(t)
    BY <1>7, <1>10
  <2>2. Foreign(After(v))
    BY <1>2, <1>5, <1>10, AddedIs
  <2>3. PgVersion_New(c \o (<<".">> \o (d \o (<<".">> \o (e \o After(v))))))
            = Value("version", Weighed(ReadDigits(c, 10), ReadDigits(d, 10), ReadDigits(e, 10)))
    BY <1>3, <1>6, <1>10, <2>1, <2>2, NewThree
  <2>4. ReadDigits(d, 10) \in 0 .. 99 /\ ReadDigits(e, 10) \in 0 .. 99 /\ ReadDigits(c, 10) \in 0 .. 99
    BY <1>6, <1>10, <2>1, NumeralIs
  <2>5. t = c \o (<<".">> \o (d \o (<<".">> \o (e \o After(v)))))
    BY <1>1, <1>2, <1>3, <1>10, <2>1
  <2> QED BY <1>4, <2>3, <2>4, <2>5
<1> QED BY <1>8, <1>9, <1>10

\* Numbers with components below 100 are ordered as their components are.
LEMMA BeforeIs ==
    ASSUME NEW s, NEW t, \A n \in 1 .. 3 : ComponentOf(s, n) \in 0 .. 99 /\ ComponentOf(t, n) \in 0 .. 99
    PROVE  Before(s, t) <=> Weighed(ComponentOf(s, 1), ComponentOf(s, 2), ComponentOf(s, 3))
                              < Weighed(ComponentOf(t, 1), ComponentOf(t, 2), ComponentOf(t, 3))
<1> DEFINE a(n) == ComponentOf(s, n)
           b(n) == ComponentOf(t, n)
<1>1. Before(s, t) <=> \E n \in 1 .. 3 : a(n) < b(n) /\ \A k \in 1 .. n - 1 : a(k) = b(k)
  BY DEF Before
<1> HIDE DEF a, b
<1>2. (\E n \in 1 .. 3 : a(n) < b(n) /\ \A k \in 1 .. n - 1 : a(k) = b(k))
          <=> (a(1) < b(1) \/ (a(1) = b(1) /\ (a(2) < b(2) \/ (a(2) = b(2) /\ a(3) < b(3)))))
  <2>1. 1 .. 3 = {1, 2, 3} /\ 1 .. 1 - 1 = {} /\ 1 .. 2 - 1 = {1} /\ 1 .. 3 - 1 = {1, 2}
    OBVIOUS
  <2> QED BY <2>1
<1>3. /\ a(1) \in 0 .. 99 /\ a(2) \in 0 .. 99 /\ a(3) \in 0 .. 99
      /\ b(1) \in 0 .. 99 /\ b(2) \in 0 .. 99 /\ b(3) \in 0 .. 99
  <2>1. 1 \in 1 .. 3 /\ 2 \in 1 .. 3 /\ 3 \in 1 .. 3
    OBVIOUS
  <2> QED BY <2>1 DEF a, b
<1>4. (Weighed(a(1), a(2), a(3)) < Weighed(b(1), b(2), b(3)))
          <=> (a(1) < b(1) \/ (a(1) = b(1) /\ (a(2) < b(2) \/ (a(2) = b(2) /\ a(3) < b(3)))))
  <2> DEFINE a1 == a(1)
             a2 == a(2)
             a3 == a(3)
             b1 == b(1)
             b2 == b(2)
             b3 == b(3)
  <2>1. a1 \in 0 .. 99 /\ a2 \in 0 .. 99 /\ a3 \in 0 .. 99 /\ b1 \in 0 .. 99 /\ b2 \in 0 .. 99 /\ b3 \in 0 .. 99
    BY <1>3
  <2> HIDE DEF a1, a2, a3, b1, b2, b3
  <2>2. (Weighed(a1, a2, a3) < Weighed(b1, b2, b3)) <=> (a1 < b1 \/ (a1 = b1 /\ (a2 < b2 \/ (a2 = b2 /\ a3 < b3))))
    BY ONLY <2>1 DEF Weighed, HUNDRED
  <2> QED BY <2>2 DEF a1, a2, a3, b1, b2, b3
<1> QED BY <1>1, <1>2, <1>4 DEF a, b

\* The digits, each standing for its number.
LEMMA DigitSeqIs ==
    /\ \A k \in 0 .. 9 : DigitSeq[k + 1] \in Digits /\ DigitValue(DigitSeq[k + 1]) = k
    /\ \A k \in 1 .. 9 : DigitSeq[k + 1] # "0"
<1>1. \A i \in 1 .. 10 : DigitSeq[i] \in Digits
  BY DEF Digits
<1>2. \A i, j \in 1 .. 10 : DigitSeq[i] = DigitSeq[j] => i = j
  BY DEF DigitSeq
<1>3. DigitSeq[1] = "0"
  BY DEF DigitSeq
<1>4. \A k \in 0 .. 9 : k + 1 \in 1 .. 10 /\ (k + 1) - 1 = k
  OBVIOUS
<1>5. ASSUME NEW i \in 1 .. 10
      PROVE  DigitValue(DigitSeq[i]) = i - 1
  <2>1. (CHOOSE j \in 1 .. 10 : DigitSeq[j] = DigitSeq[i]) = i
    BY <1>2
  <2> QED BY <2>1 DEF DigitValue
<1>6. \A k \in 1 .. 9 : k + 1 \in 1 .. 10 /\ k + 1 # 1 /\ 1 \in 1 .. 10
  OBVIOUS
<1> QED BY ONLY <1>1, <1>2, <1>3, <1>4, <1>5, <1>6

\* One digit, and two.
LEMMA OneDigit ==
    ASSUME NEW k \in 0 .. 9
    PROVE  <<DigitSeq[k + 1]>> \in Numerals /\ ReadDigits(<<DigitSeq[k + 1]>>, 10) = k
<1> DEFINE x == DigitSeq[k + 1]
           c == <<x>>
<1>1. x \in Digits /\ DigitValue(x) = k
  BY DigitSeqIs
<1> HIDE DEF x
<1>2. c \in Seq(Digits) /\ Len(c) = 1 /\ c[1] = x
  BY <1>1
<1> HIDE DEF c
<1>3. c \in Numerals
  BY <1>2 DEF Numerals
<1>4. ReadDigits(c, 10) = k
  <2>1. ReadDigits(c, 10) = DigitValue(c[1])
    BY <1>2, DigitsDenote
  <2> QED BY ONLY <1>1, <1>2, <2>1
<1> QED BY <1>3, <1>4 DEF c, x

LEMMA TwoDigitsOf ==
    ASSUME NEW j \in 1 .. 9, NEW k \in 0 .. 9
    PROVE  /\ <<DigitSeq[j + 1], DigitSeq[k + 1]>> \in Numerals
           /\ ReadDigits(<<DigitSeq[j + 1], DigitSeq[k + 1]>>, 10) = j * 10 + k
<1> DEFINE x == DigitSeq[j + 1]
           y == DigitSeq[k + 1]
           c == <<x, y>>
<1>1. x \in Digits /\ DigitValue(x) = j /\ x # "0" /\ y \in Digits /\ DigitValue(y) = k
  <2>1. j \in 0 .. 9
    OBVIOUS
  <2> QED BY <2>1, DigitSeqIs
<1> HIDE DEF x, y
<1>2. c \in Seq(Digits) /\ Len(c) = 2 /\ c[1] = x /\ c[2] = y
  BY <1>1
<1> HIDE DEF c
<1>3. c \in Numerals
  BY <1>1, <1>2 DEF Numerals
<1>4. ReadDigits(c, 10) = j * 10 + k
  <2>1. ReadDigits(c, 10) = DigitValue(c[1]) * 10 + DigitValue(c[2])
    BY <1>2, DigitsDenote
  <2> QED BY ONLY <1>1, <1>2, <2>1
<1> QED BY <1>3, <1>4 DEF c, x, y

\* What a number below 100 is written as.
LEMMA DecimalIs ==
    ASSUME NEW n \in 0 .. 99
    PROVE  Decimal(n) \in Numerals /\ ReadDigits(Decimal(n), 10) = n
<1> DEFINE D(k) == DigitSeq[k + 1]
           body(f, k) == (IF k < 10 THEN <<>> ELSE f[k \div 10]) \o <<D(k % 10)>>
           text == CHOOSE f : f = [k \in 0 .. n |-> body(f, k)]
           g == [k \in 0 .. n |-> IF k < 10 THEN <<D(k)>> ELSE <<D(k \div 10), D(k % 10)>>]
<1>1. Decimal(n) = text[n]
  <2>1. ~(n < 0) /\ (IF n < 0 THEN -n ELSE n) = n
    OBVIOUS
  <2> QED BY <2>1 DEF Decimal
<1>2. \A k \in 0 .. n : /\ k % 10 \in 0 .. 9 /\ k = (k \div 10) * 10 + (k % 10)
                        /\ k < 10 => k % 10 = k /\ k \in 0 .. 9
                        /\ ~(k < 10) => k \div 10 \in 1 .. 9 /\ k \div 10 \in 0 .. n /\ k \div 10 < 10
  OBVIOUS
<1>3. \A x : <<>> \o <<x>> = <<x>>
  OBVIOUS
<1>4. \A x, y : <<x>> \o <<y>> = <<x, y>>
  <2> SUFFICES ASSUME NEW x, NEW y
               PROVE  <<x>> \o <<y>> = <<x, y>>
    OBVIOUS
  <2> DEFINE a == <<x>>
             b == <<y>>
             w == <<x, y>>
             u == a \o b
  <2>1. a \in Seq({x, y}) /\ b \in Seq({x, y}) /\ Len(a) = 1 /\ Len(b) = 1 /\ a[1] = x /\ b[1] = y
    OBVIOUS
  <2>2. w \in Seq({x, y}) /\ Len(w) = 2 /\ w[1] = x /\ w[2] = y
    OBVIOUS
  <2> HIDE DEF a, b, w
  <2>3. a \in Seq({x, y}) /\ b \in Seq({x, y})
    BY <2>1
  <2>4. /\ u \in Seq({x, y}) /\ Len(u) = Len(a) + Len(b)
        /\ \A i \in 1 .. Len(a) : u[i] = a[i]
        /\ \A i \in 1 .. Len(b) : u[Len(a) + i] = b[i]
    BY ONLY <2>3, PartsAre
  <2> HIDE DEF u
  <2>5. Len(u) = 2 /\ u[1] = x /\ u[2] = y /\ u \in Seq({x, y})
    <3>1. 1 \in 1 .. 1 /\ 1 + 1 = 2
      OBVIOUS
    <3> QED BY ONLY <2>1, <2>4, <3>1
  <2>6. \A i \in 1 .. Len(u) : u[i] = w[i]
    BY ONLY <2>2, <2>5
  <2>7. u = w
    BY ONLY <2>2, <2>5, <2>6, SeqEqual
  <2> QED BY <2>7 DEF u, w, a, b
<1> HIDE DEF D
<1>5. g = [k \in 0 .. n |-> body(g, k)]
  <2> SUFFICES ASSUME NEW k \in 0 .. n
               PROVE  g[k] = body(g, k)
    OBVIOUS
  <2>1. CASE k < 10
    <3>1. g[k] = <<D(k)>>
      BY <2>1
    <3>2. body(g, k) = <<>> \o <<D(k % 10)>>
      BY <2>1
    <3> QED BY <1>2, <1>3, <2>1, <3>1, <3>2
  <2>2. CASE ~(k < 10)
    <3>1. g[k] = <<D(k \div 10), D(k % 10)>>
      BY <2>2
    <3>2. g[k \div 10] = <<D(k \div 10)>>
      BY <1>2, <2>2
    <3>3. body(g, k) = g[k \div 10] \o <<D(k % 10)>>
      BY <2>2
    <3> QED BY ONLY <1>4, <3>1, <3>2, <3>3
  <2> QED BY <2>1, <2>2
<1>6. text = [k \in 0 .. n |-> body(text, k)]
  <2> HIDE DEF body, g
  <2> QED BY <1>5
<1> HIDE DEF text
<1>7. \A k \in 0 .. n : text[k] = body(text, k)
  BY <1>6
<1>8. ASSUME NEW k \in 0 .. n, k < 10
      PROVE  text[k] = <<D(k)>>
  <2>1. text[k] = <<>> \o <<D(k % 10)>> /\ k % 10 = k
    BY <1>2, <1>7, <1>8
  <2> QED BY <1>3, <2>1
<1>9. n \in 0 .. n
  OBVIOUS
<1>10. CASE n < 10
  <2>1. text[n] = <<DigitSeq[n + 1]>> /\ n \in 0 .. 9
    BY <1>2, <1>8, <1>9, <1>10 DEF D
  <2> QED BY <1>1, <2>1, OneDigit
<1>11. CASE ~(n < 10)
  <2> DEFINE j == n \div 10
             k == n % 10
  <2>1. j \in 1 .. 9 /\ j \in 0 .. n /\ j < 10 /\ k \in 0 .. 9 /\ n = j * 10 + k
    BY <1>2, <1>9, <1>11
  <2>2. text[n] = text[j] \o <<D(k)>>
    BY <1>7, <1>9, <1>11
  <2> HIDE DEF j, k
  <2>3. text[j] = <<D(j)>>
    BY <1>8, <2>1
  <2>4. text[n] = <<DigitSeq[j + 1], DigitSeq[k + 1]>>
    BY <1>4, <2>2, <2>3 DEF D
  <2>5. text[n] \in Numerals /\ ReadDigits(text[n], 10) = j * 10 + k
    BY <2>1, <2>4, TwoDigitsOf
  <2> QED BY ONLY <1>1, <2>1, <2>5
<1> QED BY <1>10, <1>11

\* The components that ver_coerce takes a number apart into.
LEMMA Apart ==
    ASSUME NEW n \in Nat, NEW q \in Nat, NEW h \in Nat, NEW k \in Nat, n <= 999999,
           10000 * q <= n, n < 10000 * q + 10000, 100 * h <= n, n < 100 * h + 100,
           100 * k <= h, h < 100 * k + 100
    PROVE  /\ q \in 0 .. 99 /\ h - 100 * k \in 0 .. 99 /\ n - 100 * h \in 0 .. 99
           /\ (q * 100 + (h - 100 * k)) * 100 + (n - 100 * h) = n
<1>1. k = q
  BY SMT
<1>2. q \in 0 .. 99
  BY SMT
<1>3. h - 100 * k \in 0 .. 99 /\ n - 100 * h \in 0 .. 99
  BY SMT
<1>4. (k * 100 + (h - 100 * k)) = h /\ h * 100 + (n - 100 * h) = n
  BY SMT
<1> QED BY <1>1, <1>2, <1>3, <1>4, SMT

LEMMA HundredIs ==
    HUNDRED = 100 /\ HUNDRED * HUNDRED = 10000
<1>1. HUNDRED = 100
  BY DEF HUNDRED
<1>2. HUNDRED * HUNDRED = 10000
  BY ONLY <1>1, SMT
<1> QED BY <1>1, <1>2, SMT

LEMMA MillionIs == HUNDRED * HUNDRED * HUNDRED - 1 = 999999
<1>1. HUNDRED = 100
  BY DEF HUNDRED
<1> QED BY ONLY <1>1, SMT

BelowMillion == {n \in Nat : n <= 999999}
LEMMA BelowMillionIs ==
    ASSUME NEW n \in 0 .. HUNDRED * HUNDRED * HUNDRED - 1
    PROVE  n \in BelowMillion
<1>1. n \in Nat /\ n <= 999999
  BY MillionIs, SMT
<1> QED BY ONLY <1>1, SMT DEF BelowMillion

LEMMA WeighedIs ==
    ASSUME NEW c \in Int, NEW d \in Int, NEW e \in Int
    PROVE  Weighed(c, d, e) = (c * 100 + d) * 100 + e
BY SMT DEF Weighed, HUNDRED

LEMMA TakenApart ==
    ASSUME NEW n \in BelowMillion
    PROVE  LET c == Quotient(n, HUNDRED * HUNDRED)
               d == Remainder(Quotient(n, HUNDRED), HUNDRED)
               e == Remainder(n, HUNDRED)
           IN  c \in 0 .. 99 /\ d \in 0 .. 99 /\ e \in 0 .. 99 /\ Weighed(c, d, e) = n
<1>1. n \in Nat /\ n <= 999999
  BY SMT DEF BelowMillion
<1>2. HUNDRED = 100 /\ HUNDRED * HUNDRED = 10000
  BY ONLY HundredIs, SMT
<1>3. ASSUME NEW a \in Nat, NEW b \in Nat \ {0}
      PROVE  Quotient(a, b) = a \div b
  <2>1. Magnitude(a) = a /\ Magnitude(b) = b
    BY DEF Magnitude
  <2> QED BY <2>1 DEF Quotient
<1> DEFINE q == n \div 10000
           h == n \div 100
           k == h \div 100
<1>4. q \in Nat /\ 10000 * q <= n /\ n < 10000 * q + 10000
  BY <1>1, SMT
<1>5. h \in Nat /\ 100 * h <= n /\ n < 100 * h + 100
  BY <1>1, SMT
<1>6. k \in Nat /\ 100 * k <= h /\ h < 100 * k + 100
  <2> HIDE DEF h
  <2> QED BY <1>5, SMT
<1>7. Quotient(n, 10000) = q /\ Quotient(n, 100) = h
  <2>1. 10000 \in Nat \ {0} /\ 100 \in Nat \ {0} /\ n \in Nat
    BY <1>1, SMT
  <2> QED BY <1>3, <2>1, SMT
<1>8. Quotient(h, 100) = k
  <2> HIDE DEF h
  <2> QED BY <1>3, <1>5, SMT
<1> HIDE DEF q, h, k
<1>9. /\ q \in 0 .. 99 /\ h - 100 * k \in 0 .. 99 /\ n - 100 * h \in 0 .. 99
      /\ (q * 100 + (h - 100 * k)) * 100 + (n - 100 * h) = n
  BY ONLY <1>1, <1>4, <1>5, <1>6, Apart
<1>10. Remainder(h, 100) = h - 100 * k /\ Remainder(n, 100) = n - 100 * h
  BY ONLY <1>7, <1>8, SMT DEF Remainder
<1>11. Weighed(q, h - 100 * k, n - 100 * h) = n
  <2> DEFINE d == h - 100 * k
             e == n - 100 * h
  <2>1. q \in 0 .. 99 /\ d \in 0 .. 99 /\ e \in 0 .. 99 /\ (q * 100 + d) * 100 + e = n
    BY ONLY <1>9, SMT
  <2> HIDE DEF d, e
  <2>2. Weighed(q, d, e) = (q * 100 + d) * 100 + e
    BY ONLY <2>1, WeighedIs, SMT
  <2> QED BY ONLY <2>1, <2>2, SMT DEF d, e
<1> QED BY ONLY <1>2, <1>7, <1>9, <1>10, <1>11, SMT

\* A number below a million that is taken for a version stands for itself.
LEMMA CoercedIs ==
    ASSUME NEW n \in BelowMillion
    PROVE  PgVersion_New(ver_coerce(n)) = Value("version", n)
<1> DEFINE S == Digits \cup {"."}
           q == Quotient(n, HUNDRED * HUNDRED)
           r == Remainder(Quotient(n, HUNDRED), HUNDRED)
           s == Remainder(n, HUNDRED)
           c == Decimal(q)
           d == Decimal(r)
           e == Decimal(s)
           dot == <<".">>
<1>1. q \in 0 .. 99 /\ r \in 0 .. 99 /\ s \in 0 .. 99 /\ Weighed(q, r, s) = n
  BY TakenApart
<1>2. ver_coerce(n) = (((c \o dot) \o d) \o dot) \o e
  BY DEF ver_coerce
<1> HIDE DEF q, r, s
<1>3. /\ c \in Numerals /\ ReadDigits(c, 10) = q
      /\ d \in Numerals /\ ReadDigits(d, 10) = r
      /\ e \in Numerals /\ ReadDigits(e, 10) = s
  BY <1>1, DecimalIs
<1> HIDE DEF c, d, e
<1>4. /\ Digits \subseteq S /\ "." \in S
  OBVIOUS
<1> HIDE DEF S
<1>5. c \in Seq(S) /\ d \in Seq(S) /\ e \in Seq(S)
  BY <1>3, <1>4, NumeralFront
<1>6. dot \in Seq(S) /\ <<>> \in Seq(S) /\ Foreign(<<>>)
  BY <1>4 DEF Foreign
<1>7. (((c \o dot) \o d) \o dot) \o e = c \o (dot \o (d \o (dot \o (e \o <<>>))))
  <2> HIDE DEF dot
  <2>1. \A x, y, z \in Seq(S) : (x \o y) \o z = x \o (y \o z) /\ x \o y \in Seq(S)
    BY ConcatAssociative
  <2>2. c \o dot \in Seq(S) /\ (c \o dot) \o d \in Seq(S) /\ dot \o e \in Seq(S) /\ d \o (dot \o e) \in Seq(S)
    BY <1>5, <1>6, <2>1
  <2> DEFINE u == c \o dot
             v == u \o d
             w == dot \o e
             x == d \o w
  <2>7. /\ c \in Seq(S) /\ d \in Seq(S) /\ e \in Seq(S) /\ dot \in Seq(S)
        /\ u \in Seq(S) /\ v \in Seq(S) /\ w \in Seq(S) /\ x \in Seq(S)
    BY <1>5, <1>6, <2>2
  <2>8. u \o x = c \o (dot \o x)
    <3> HIDE DEF x
    <3>1. c \in Seq(S) /\ dot \in Seq(S) /\ x \in Seq(S)
      BY <2>7
    <3> QED BY ONLY <3>1, ConcatAssociative DEF u
  <2>9. v \o w = u \o x
    <3> HIDE DEF u, w
    <3>1. u \in Seq(S) /\ d \in Seq(S) /\ w \in Seq(S)
      BY <2>7
    <3> QED BY ONLY <3>1, ConcatAssociative DEF v, x
  <2>10. (v \o dot) \o e = v \o w
    <3> HIDE DEF v
    <3>1. v \in Seq(S) /\ dot \in Seq(S) /\ e \in Seq(S)
      BY <2>7
    <3> QED BY ONLY <3>1, ConcatAssociative DEF w
  <2>6. e \o <<>> = e
    BY <1>5, ConcatEmptySeq
  <2> QED BY ONLY <2>6, <2>8, <2>9, <2>10
<1>8. PgVersion_New(c \o (dot \o (d \o (dot \o (e \o <<>>)))))
          = Value("version", Weighed(ReadDigits(c, 10), ReadDigits(d, 10), ReadDigits(e, 10)))
  <2>1. /\ Digits \subseteq S /\ "." \in S /\ c \in Numerals /\ d \in Numerals /\ e \in Numerals
        /\ <<>> \in Seq(S) /\ Foreign(<<>>)
    BY <1>3, <1>4, <1>6
  <2> DEFINE nil == <<>>
  <2>2. nil \in Seq(S) /\ Foreign(nil)
    BY <2>1
  <2> HIDE DEF nil
  <2>3. PgVersion_New(c \o (<<".">> \o (d \o (<<".">> \o (e \o nil)))))
            = Value("version", Weighed(ReadDigits(c, 10), ReadDigits(d, 10), ReadDigits(e, 10)))
    BY ONLY <2>1, <2>2, NewThree, ZenonT(90)
  <2> QED BY ONLY <2>3 DEF nil
<1> QED BY ONLY <1>1, <1>2, <1>3, <1>7, <1>8

\* A comparison and a coercion are described by their operands.
VersionResult(s, t) ==
    LET a == PgVersion_New(s)
        b == PgVersion_New(t)
    IN [s |-> a, t |-> b, cmp |-> PgVersion_cmp(a.val, b.val)]
VersionInv == call.fn = "version" => \E s, t \in VersionTexts :
    call = [fn |-> "version", s |-> s, t |-> t] /\ outcome = {VersionResult(s, t)}
CoerceInv == call.fn = "coerce" => \E n \in VersionNumbers :
    call = [fn |-> "coerce", n |-> n] /\ outcome = {PgVersion_New(ver_coerce(n))}

LEMMA OutcomesOfVersions == Spec => [](VersionInv /\ CoerceInv)
<1>1. Init => VersionInv /\ CoerceInv
  BY DEF Init, Idle, VersionInv, CoerceInv
<1>2. ASSUME Next
      PROVE  VersionInv'
  <2> SUFFICES ASSUME call'.fn = "version"
               PROVE  VersionInv'
    BY DEF VersionInv
  <2>1. CompareVersions
    BY <1>2, FnOf
  <2>2. PICK s, t \in VersionTexts :
            Returns([fn |-> "version", s |-> s, t |-> t], {VersionResult(s, t)})
    BY ONLY <2>1, Zenon DEF CompareVersions, VersionResult
  <2> QED BY <2>2 DEF VersionInv, Returns
<1>3. ASSUME Next
      PROVE  CoerceInv'
  <2> SUFFICES ASSUME call'.fn = "coerce"
               PROVE  CoerceInv'
    BY DEF CoerceInv
  <2>1. CoerceVersion
    BY <1>3, FnOf
  <2>2. PICK n \in VersionNumbers : Returns([fn |-> "coerce", n |-> n], {PgVersion_New(ver_coerce(n))})
    BY ONLY <2>1, Zenon DEF CoerceVersion
  <2> QED BY <2>2 DEF CoerceInv, Returns
<1>4. VersionInv /\ CoerceInv /\ [Next]_vars => VersionInv' /\ CoerceInv'
  <2>1. CASE UNCHANGED vars
    BY <2>1 DEF vars, VersionInv, CoerceInv
  <2> QED BY <1>2, <1>3, <2>1
<1> QED BY <1>1, <1>4, PTL DEF Spec

\* Two versions compare as their components do, whatever vendors added to them,
\* and a number that PgVersion compares with stands for itself.
THEOREM VersionsAreOrdered == Spec => []VersionsOrdered
<1>1. ASSUME VersionInv, CoerceInv
      PROVE  VersionsOrdered
  <2>1. ASSUME call.fn = "version", Plain(call.s), Plain(call.t), NEW o \in outcome
        PROVE  /\ o.s.type = "version" /\ o.t.type = "version"
               /\ (o.cmp = -1) = Before(call.s, call.t)
               /\ (o.cmp = 1) = Before(call.t, call.s)
    <3>1. PICK s, t \in VersionTexts :
              call = [fn |-> "version", s |-> s, t |-> t] /\ outcome = {VersionResult(s, t)}
      BY <1>1, <2>1 DEF VersionInv
    <3>2. call.s = s /\ call.t = t /\ o = VersionResult(s, t)
      BY <2>1, <3>1
    <3> DEFINE S == STRING \cup Digits \cup {"."}
    <3>3. Digits \subseteq S /\ "." \in S /\ s \in Seq(S) /\ t \in Seq(S)
      <4>1. s \in Seq(STRING) /\ t \in Seq(STRING) /\ STRING \subseteq S
        BY ValuesAssumption
      <4> QED BY <4>1, SeqMonotonic
    <3> HIDE DEF S
    <3> DEFINE a == Weighed(ComponentOf(s, 1), ComponentOf(s, 2), ComponentOf(s, 3))
               b == Weighed(ComponentOf(t, 1), ComponentOf(t, 2), ComponentOf(t, 3))
    <3>4. /\ PgVersion_New(s) = Value("version", a)
          /\ \A n \in 1 .. 3 : ComponentOf(s, n) \in 0 .. 99
      BY <2>1, <3>2, <3>3, PlainIs
    <3>5. /\ PgVersion_New(t) = Value("version", b)
          /\ \A n \in 1 .. 3 : ComponentOf(t, n) \in 0 .. 99
      BY <2>1, <3>2, <3>3, PlainIs
    <3>6. (Before(s, t) <=> a < b) /\ (Before(t, s) <=> b < a)
      BY <3>4, <3>5, BeforeIs
    <3>7. a \in Int /\ b \in Int
      <4>1. 1 \in 1 .. 3 /\ 2 \in 1 .. 3 /\ 3 \in 1 .. 3 /\ \A k \in 0 .. 99 : k \in Int
        OBVIOUS
      <4>2. \A x, y, z \in Int : Weighed(x, y, z) \in Int
        BY DEF Weighed, HUNDRED
      <4> QED BY <3>4, <3>5, <4>1, <4>2
    <3> HIDE DEF a, b
    <3>8. o.s = Value("version", a) /\ o.t = Value("version", b) /\ o.cmp = PgVersion_cmp(a, b)
      BY <3>2, <3>4, <3>5 DEF VersionResult, Value
    <3>9. o.s.type = "version" /\ o.t.type = "version"
      BY <3>8 DEF Value
    <3>10. /\ o.cmp = -1 <=> a < b
           /\ o.cmp = 1 <=> b < a
      BY <3>7, <3>8 DEF PgVersion_cmp
    <3>11. Before(s, t) \in BOOLEAN /\ Before(t, s) \in BOOLEAN
      BY DEF Before
    <3> QED BY <3>2, <3>6, <3>9, <3>10, <3>11
  <2>2. ASSUME call.fn = "coerce", call.n \in 0 .. HUNDRED * HUNDRED * HUNDRED - 1, NEW o \in outcome
        PROVE  o = Value("version", call.n)
    <3>1. PICK n \in VersionNumbers :
              call = [fn |-> "coerce", n |-> n] /\ outcome = {PgVersion_New(ver_coerce(n))}
      BY <1>1, <2>2 DEF CoerceInv
    <3>2. call.n \in BelowMillion
      BY <2>2, BelowMillionIs
    <3>3. call.n = n /\ o = PgVersion_New(ver_coerce(n))
      BY <2>2, <3>1
    <3>4. n \in BelowMillion
      BY ONLY <3>2, <3>3
    <3> QED BY <3>3, <3>4, CoercedIs
  <2> QED BY <2>1, <2>2 DEF VersionsOrdered
<1> QED BY <1>1, OutcomesOfVersions, PTL
=============================================================================
