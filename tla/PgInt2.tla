-------------------------------- MODULE PgInt2 --------------------------------
(***************************************************************************)
(* PgInt2 (pgint2object.c): the PostgreSQL INT2 as a Python number on a C  *)
(* short, computed in a C long and narrowed at the end.  With an operand   *)
(* of another type both are converted to that type (int2_coerce) and its   *)
(* function is called; the shifts and the bit operations convert their     *)
(* operands to C longs instead (convert_binop).  Binary is what Python     *)
(* does with v op w: the function of v, then the one of w.                 *)
(***************************************************************************)
EXTENDS PgInt8

\* Mutant of PgInt2_FromLong: the range is not looked at.
PgInt2_FromLongUnchecked(n) == Int2(n)

\* A C long that must be a short.
PgInt2_FromLong(n) == IF Fits(SHORT_BIT, n) THEN Int2(n) ELSE Raise("ValueError")

\* Mutant of Narrowed: the cast is not checked.
NarrowedBlindly(x) == Int2(Wrap(SHORT_BIT, x))

\* The result of the arithmetic functions: x is a C long.
Narrowed(x) == IF Fits(SHORT_BIT, x) THEN Int2(x) ELSE Raise("OverflowError")

\* int2_coerce: the PgInt2 becomes an int, a PgInt8 or a long, whichever the
\* other operand is.
int2_coerce(v, w) ==
    LET other == IF v.type = "int2" THEN w.type ELSE v.type
        As(x) == IF x.type = "int2" THEN Value(other, x.val) ELSE x
    IN <<As(v), As(w)>>

AreInt2(v, w) == v.type = "int2" /\ w.type = "int2"
Delegated(op, v, w) ==
    LET c == int2_coerce(v, w)
    IN IF c[1].type = "int8" THEN Int8Slot(op, c[1], c[2]) ELSE PyNumber(op, c[1], c[2])

int2_add(v, w) == IF AreInt2(v, w) THEN Narrowed(v.val + w.val) ELSE Delegated("add", v, w)
int2_sub(v, w) == IF AreInt2(v, w) THEN Narrowed(v.val - w.val) ELSE Delegated("sub", v, w)
int2_mul(v, w) == IF AreInt2(v, w) THEN Narrowed(v.val * w.val) ELSE Delegated("mul", v, w)

\* The divisions divide in C longs.
int2_div(v, w) ==
    CASE ~AreInt2(v, w) -> Delegated("div", v, w)
      [] AreInt2(v, w) /\ DivisionFails(LONG_BIT, v.val, w.val) -> DivisionError(w.val)
      [] OTHER -> PgInt2_FromLong(i_divmod(LONG_BIT, v.val, w.val).div)

int2_mod(v, w) ==
    CASE ~AreInt2(v, w) -> Delegated("mod", v, w)
      [] AreInt2(v, w) /\ DivisionFails(LONG_BIT, v.val, w.val) -> DivisionError(w.val)
      [] OTHER -> PgInt2_FromLong(i_divmod(LONG_BIT, v.val, w.val).mod)

\* divmod builds its pair with the format "(oo)", which Py_BuildValue refuses.
int2_divmod(v, w) ==
    CASE ~AreInt2(v, w) -> Delegated("divmod", v, w)
      [] AreInt2(v, w) /\ DivisionFails(LONG_BIT, v.val, w.val) -> DivisionError(w.val)
      [] OTHER -> Raise("SystemError")

\* pow of two PgInt2 and a modulus, 0 for none; the loop runs in C longs.
int2_pow(iv, iw, iz) ==
    LET power == PowLoop(LONG_BIT, iv, iw, iz)
    IN CASE iw < 0 -> Raise(IF iv = 0 THEN "ZeroDivisionError" ELSE "ValueError")
         [] iw >= 0 /\ ~power.ok -> Raise("OverflowError")
         [] iw >= 0 /\ power.ok /\ iz = 0 -> Narrowed(power.ix)
         [] OTHER -> IF DivisionFails(LONG_BIT, power.ix, iz) THEN DivisionError(iz)
                     ELSE Narrowed(i_divmod(LONG_BIT, power.ix, iz).mod)

int2_neg(v) == PgInt2_FromLong(-v.val)
int2_abs(v) == IF v.val >= 0 THEN v ELSE PgInt2_FromLong(-v.val)
int2_invert(v) == PgInt2_FromLong(-v.val - 1)

\* convert_binop: v must be a PgInt2, an int or a long that fits.  A second
\* operand of another type (a PgInt8) is not refused: b is then read without
\* having been written.  An operand that is no short leaves a ValueError
\* pending and the function goes on.
IntoLong(v) == v.type \in {"int2", "int"} \/ (v.type = "long" /\ Fits(LONG_BIT, v.val))
SecondOperand(w) == IF w.type = "int8" THEN MachineInt(LONG_BIT) ELSE {w.val}
LeftPending(a, b, result) ==
    IF result.type = "ValueError" THEN result
    ELSE [result EXCEPT !.pending = ~(Fits(SHORT_BIT, a) /\ Fits(SHORT_BIT, b))]

convert_binop(v, w) == IntoLong(v) /\ (w.type = "int8" \/ IntoLong(w))

\* The shifts and the bit operations, as the sets of their possible results.
int2_lshift(v, w) ==
    LET Shifted(a, b) ==
            CASE b < 0 -> Raise("ValueError")
              [] b >= 0 /\ 0 \in {a, b} -> v
              [] OTHER -> IF b >= SHORT_BIT THEN Int2(0)
                          ELSE PgInt2_FromLong(Unsigned(SHORT_BIT, a * Pow(2, b)))
    IN IF ~convert_binop(v, w) THEN {NotImplemented}
       ELSE {LeftPending(v.val, b, Shifted(v.val, b)) : b \in SecondOperand(w)}

int2_rshift(v, w) ==
    LET Shifted(a, b) ==
            CASE b < 0 -> Raise("ValueError")
              [] b >= 0 /\ 0 \in {a, b} -> v
              [] OTHER -> IF b >= SHORT_BIT THEN Int2(IF a < 0 THEN -1 ELSE 0)
                          ELSE PgInt2_FromLong(a \div Pow(2, b))
    IN IF ~convert_binop(v, w) THEN {NotImplemented}
       ELSE {LeftPending(v.val, b, Shifted(v.val, b)) : b \in SecondOperand(w)}

int2_and(v, w) ==
    IF ~convert_binop(v, w) THEN {NotImplemented}
    ELSE {LeftPending(v.val, b, PgInt2_FromLong(BitAnd(LONG_BIT, v.val, b))) : b \in SecondOperand(w)}
int2_xor(v, w) ==
    IF ~convert_binop(v, w) THEN {NotImplemented}
    ELSE {LeftPending(v.val, b, PgInt2_FromLong(BitXor(LONG_BIT, v.val, b))) : b \in SecondOperand(w)}
int2_or(v, w) ==
    IF ~convert_binop(v, w) THEN {NotImplemented}
    ELSE {LeftPending(v.val, b, PgInt2_FromLong(BitOr(LONG_BIT, v.val, b))) : b \in SecondOperand(w)}

int2_compare(a, b) == IF a < b THEN -1 ELSE IF a > b THEN 1 ELSE 0
int2_hash(x) == IF x = -1 THEN -2 ELSE x

\* The functions of a PgInt2 in its number methods.
Int2Slot(op, v, w) ==
    CASE op = "add" -> {int2_add(v, w)}
      [] op = "sub" -> {int2_sub(v, w)}
      [] op = "mul" -> {int2_mul(v, w)}
      [] op = "div" -> {int2_div(v, w)}
      [] op = "mod" -> {int2_mod(v, w)}
      [] op = "divmod" -> {int2_divmod(v, w)}
      [] op = "lshift" -> int2_lshift(v, w)
      [] op = "rshift" -> int2_rshift(v, w)
      [] op = "and" -> int2_and(v, w)
      [] op = "xor" -> int2_xor(v, w)
      [] op = "or" -> int2_or(v, w)

\* Python's dispatch of a binary operation: the operands' functions in turn,
\* and a TypeError when neither implements it.
Slot(x, op, v, w) ==
    CASE x.type = "int2" -> Int2Slot(op, v, w)
      [] x.type = "int8" -> {Int8Slot(op, v, w)}
      [] OTHER -> {NotImplemented}

Binary(op, v, w) ==
    LET first == Slot(v, op, v, w)
        second == IF v.type = w.type THEN {NotImplemented} ELSE Slot(w, op, v, w)
        tried == (first \ {NotImplemented})
                 \cup (IF NotImplemented \in first THEN second ELSE {})
    IN {IF o = NotImplemented THEN Raise("TypeError") ELSE o : o \in tried}

\* PgInt2(object) and PgInt8(object) of a number; neither takes a number that
\* already has its type.
libPQint2_FromObject(v) ==
    CASE v.type = "int2" -> Raise("TypeError")
      [] v.type \in {"int8", "long"} /\ ~Fits(LONG_BIT, v.val) -> Raise("OverflowError")
      [] OTHER -> PgInt2_FromLong(v.val)
libPQint8_FromObject(v) ==
    CASE v.type = "int8" -> Raise("TypeError")
      [] v.type = "long" /\ ~Fits(LONG_LONG_BIT, v.val) -> Raise("OverflowError")
      [] OTHER -> Int8(v.val)
==============================================================================
