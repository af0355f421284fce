-------------------------------- MODULE PgInt8 --------------------------------
(***************************************************************************)
(* PgInt8 (pgint8object.c): the PostgreSQL INT8 as a Python number on a C  *)
(* long long.  Each operator is one function of the file; the mixed-mode   *)
(* prologue that the arithmetic functions share is AsInt8 (both operands   *)
(* become PgInt8) and Mixed (another type takes over).                     *)
(***************************************************************************)
EXTENDS MachineInts

LL(n) == Wrap(LONG_LONG_BIT, n)
LLONG_MIN == Smallest(LONG_LONG_BIT)
LLONG_MAX == Largest(LONG_LONG_BIT)
Half == Pow(2, LONG_LONG_BIT \div 2)

\* int8_coerce: with an int the int becomes a PgInt8, with a long the PgInt8
\* becomes a long, and a PgInt2 is left to the PgInt2 side.
AsInt8(v, w) == {v.type, w.type} \in {{"int8"}, {"int8", "int"}}
Mixed(op, v, w) ==
    IF {v.type, w.type} = {"int8", "long"} THEN PyNumber(op, v, w) ELSE NotImplemented

\* The overflow tests of addition and subtraction compare an unsigned
\* expression with zero: (unsigned)(x ^ a) < 0.
BelowZero(x, a) == Unsigned(LONG_LONG_BIT, BitXor(LONG_LONG_BIT, x, a)) < 0

int8_add(v, w) ==
    LET x == LL(v.val + w.val)
    IN CASE ~AsInt8(v, w) -> Mixed("add", v, w)
         [] AsInt8(v, w) /\ BelowZero(x, v.val) /\ BelowZero(x, w.val) -> Raise("OverflowError")
         [] OTHER -> Int8(x)

int8_sub(v, w) ==
    LET x == LL(v.val - w.val)
    IN CASE ~AsInt8(v, w) -> Mixed("sub", v, w)
         [] AsInt8(v, w) /\ BelowZero(x, v.val) /\ BelowZero(x, w.val) -> Raise("OverflowError")
         [] OTHER -> Int8(x)

\* Mutant of HighLimit: off by one.
HighLimitStrict == Half \div 2 - 1

\* The product by halves: of two magnitudes only one may have a high half,
\* whose product with the other must stay below half of Half.
HighLimit == Half \div 2

ProductOverflows(a, b) ==
    LET large == IF a < b THEN b ELSE a
        small == IF a < b THEN a ELSE b
        y == (large \div Half) * small
    IN IF large < Half THEN LL(a * b) < 0
       ELSE \/ small >= Half
            \/ y >= HighLimit
            \/ LL((large % Half) * small) < 0
            \/ LL((large % Half) * small + y * Half) < 0

int8_mul(v, w) ==
    LET a == v.val
        b == w.val
        \* The most negative number has no magnitude.
        withMin == \/ a = LLONG_MIN /\ b \in {0, 1}
                   \/ b = LLONG_MIN /\ a \in {0, 1}
    IN IF ~AsInt8(v, w) THEN Mixed("mul", v, w)
       ELSE IF LLONG_MIN \in {a, b}
            THEN IF withMin THEN Int8(a * b) ELSE Raise("OverflowError")
            ELSE IF ProductOverflows(Magnitude(a), Magnitude(b)) THEN Raise("OverflowError")
                 ELSE Int8(a * b)

\* i_divmod on numbers of w bits: the quotient from magnitudes, which wrap
\* around for the most negative number, then one less where the remainder has
\* the wrong sign.
i_divmod(w, xi, yi) ==
    LET q == CASE yi < 0 /\ xi < 0 -> Quotient(Wrap(w, -xi), Wrap(w, -yi))
               [] yi < 0 /\ xi >= 0 -> Wrap(w, -Quotient(xi, Wrap(w, -yi)))
               [] yi > 0 /\ xi < 0 -> Wrap(w, -Quotient(Wrap(w, -xi), yi))
               [] OTHER -> Quotient(xi, yi)
        m == Wrap(w, xi - Wrap(w, q * yi))
        adjust == m # 0 /\ (m < 0) # (yi < 0)
    IN IF adjust THEN [div |-> Wrap(w, q - 1), mod |-> Wrap(w, m + yi)]
       ELSE [div |-> q, mod |-> m]

DivisionFails(w, xi, yi) == yi = 0 \/ (yi = -1 /\ xi = Smallest(w))
DivisionError(yi) == Raise(IF yi = 0 THEN "ZeroDivisionError" ELSE "OverflowError")

int8_div(v, w) ==
    CASE ~AsInt8(v, w) -> Mixed("div", v, w)
      [] AsInt8(v, w) /\ DivisionFails(LONG_LONG_BIT, v.val, w.val) -> DivisionError(w.val)
      [] OTHER -> Int8(i_divmod(LONG_LONG_BIT, v.val, w.val).div)

int8_mod(v, w) ==
    CASE ~AsInt8(v, w) -> Mixed("mod", v, w)
      [] AsInt8(v, w) /\ DivisionFails(LONG_LONG_BIT, v.val, w.val) -> DivisionError(w.val)
      [] OTHER -> Int8(i_divmod(LONG_LONG_BIT, v.val, w.val).mod)

\* divmod builds its pair with the format "(oo)", which Py_BuildValue refuses.
int8_divmod(v, w) ==
    CASE ~AsInt8(v, w) -> Mixed("divmod", v, w)
      [] AsInt8(v, w) /\ DivisionFails(LONG_LONG_BIT, v.val, w.val) -> DivisionError(w.val)
      [] OTHER -> Raise("SystemError")

\* Mutant of Reduced: the modulus only counts at the end.
ReducedNever(n, iz) == n

\* The loop of int8_pow on a register of w bits: ix collects the result, temp
\* the squares of the base, and a product is checked by dividing it again.
Reduced(n, iz) == IF iz = 0 THEN n ELSE Remainder(n, iz)
LostIn(prev, temp, product) == temp # 0 /\ Quotient(product, temp) # prev

\* One turn of the loop; it stops, here with iw = 0, when no bit of the
\* exponent is left, when the base is 0 and when a product is lost.
PowTurn(w, st, iz) ==
    LET odd == st.iw % 2 = 1
        product == IF odd THEN Wrap(w, st.ix * st.temp) ELSE st.ix
        square == Wrap(w, st.temp * st.temp)
        lost == odd /\ LostIn(st.ix, st.temp, product)
    IN CASE st.iw = 0 -> st
         [] st.iw # 0 /\ lost -> [st EXCEPT !.iw = 0, !.ok = FALSE]
         [] OTHER ->
            IF st.iw = 1 \/ (odd /\ st.temp = 0) THEN [st EXCEPT !.iw = 0, !.ix = product]
            ELSE IF LostIn(st.temp, st.temp, square) THEN [st EXCEPT !.iw = 0, !.ok = FALSE]
            ELSE [st EXCEPT !.iw = @ \div 2, !.ix = Reduced(product, iz), !.temp = Reduced(square, iz)]

\* The exponent is halved, so that it is 0 after at most iw turns.
PowLoop(w, iv, iw, iz) ==
    LET turn[k \in 0 .. iw] ==
            IF k = 0 THEN [temp |-> iv, iw |-> iw, ix |-> 1, ok |-> TRUE] ELSE PowTurn(w, turn[k - 1], iz)
    IN turn[iw]

\* iz = 0 stands for the missing third argument.
int8_pow(iv, iw, iz) ==
    LET power == PowLoop(LONG_LONG_BIT, iv, iw, iz)
    IN CASE iw < 0 -> Raise(IF iv = 0 THEN "ZeroDivisionError" ELSE "ValueError")
         [] iw >= 0 /\ ~power.ok -> Raise("OverflowError")
         [] iw >= 0 /\ power.ok /\ iz = 0 -> Int8(power.ix)
         [] OTHER -> IF DivisionFails(LONG_LONG_BIT, power.ix, iz) THEN DivisionError(iz)
                     ELSE Int8(i_divmod(LONG_LONG_BIT, power.ix, iz).mod)

int8_neg(v) == IF v.val = LLONG_MIN THEN Raise("OverflowError") ELSE Int8(-v.val)
int8_abs(v) == IF v.val >= 0 THEN v ELSE int8_neg(v)
int8_invert(v) == Int8(LL(-v.val - 1))

\* convert_binop: a PgInt8, an int, or a long that fits.
Converts(v) == v.type \in {"int8", "int"} \/ (v.type = "long" /\ Fits(LONG_LONG_BIT, v.val))
ConvertBinop(v, w) == Converts(v) /\ Converts(w)

int8_lshift(v, w) ==
    CASE ~ConvertBinop(v, w) -> NotImplemented
      [] ConvertBinop(v, w) /\ w.val < 0 -> Raise("ValueError")
      [] ConvertBinop(v, w) /\ w.val >= 0 /\ 0 \in {v.val, w.val} -> v
      [] OTHER -> IF w.val >= LONG_LONG_BIT THEN Int8(0)
                  ELSE Int8(LL(Unsigned(LONG_LONG_BIT - w.val, v.val) * Pow(2, w.val)))

int8_rshift(v, w) ==
    CASE ~ConvertBinop(v, w) -> NotImplemented
      [] ConvertBinop(v, w) /\ w.val < 0 -> Raise("ValueError")
      [] ConvertBinop(v, w) /\ w.val >= 0 /\ 0 \in {v.val, w.val} -> v
      [] OTHER -> IF w.val >= LONG_LONG_BIT THEN Int8(IF v.val < 0 THEN -1 ELSE 0)
                  ELSE Int8(v.val \div Pow(2, w.val))

int8_and(v, w) ==
    IF ConvertBinop(v, w) THEN Int8(BitAnd(LONG_LONG_BIT, v.val, w.val)) ELSE NotImplemented
int8_xor(v, w) ==
    IF ConvertBinop(v, w) THEN Int8(BitXor(LONG_LONG_BIT, v.val, w.val)) ELSE NotImplemented
int8_or(v, w) ==
    IF ConvertBinop(v, w) THEN Int8(BitOr(LONG_LONG_BIT, v.val, w.val)) ELSE NotImplemented

int8_compare(a, b) == IF a < b THEN -1 ELSE IF a > b THEN 1 ELSE 0

\* A number outside of a C long, LONG_MIN included, is hashed by halves.
int8_hash(x) ==
    LET folded == Unsigned(LONG_LONG_BIT \div 2 - 1,
                           Unsigned(LONG_LONG_BIT, x) \div Half + Unsigned(LONG_LONG_BIT, x))
        h == IF Smallest(LONG_BIT) < x /\ x <= Largest(LONG_BIT) THEN x ELSE folded
    IN IF h = -1 THEN -2 ELSE h

\* The functions of a PgInt8 in its number methods.
Int8Slot(op, v, w) ==
    CASE op = "add" -> int8_add(v, w)
      [] op = "sub" -> int8_sub(v, w)
      [] op = "mul" -> int8_mul(v, w)
      [] op = "div" -> int8_div(v, w)
      [] op = "mod" -> int8_mod(v, w)
      [] op = "divmod" -> int8_divmod(v, w)
      [] op = "lshift" -> int8_lshift(v, w)
      [] op = "rshift" -> int8_rshift(v, w)
      [] op = "and" -> int8_and(v, w)
      [] op = "xor" -> int8_xor(v, w)
      [] op = "or" -> int8_or(v, w)
==============================================================================
