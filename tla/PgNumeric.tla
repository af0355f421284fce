------------------------------- MODULE PgNumeric ------------------------------
(***************************************************************************)
(* PgNumeric (PgSQL.py): decimal numbers as a Python long v with a scale s *)
(* (digits after the point) and a precision p (digits in all).  The number *)
(* is v / 10^s.  An overflow error is the number with the error field set. *)
(* The precision is only ever checked, never padded, so the radix may be   *)
(* any number; RADIX is the 10 of the code.                                *)
(***************************************************************************)
EXTENDS PyLong

CONSTANT RADIX

Scaled(v, n) == v * Pow(RADIX, n)
Abs(v) == IF v < 0 THEN -v ELSE v
MaxOf(a, b) == IF a < b THEN b ELSE a

Numeric(v, p, s) == [v |-> v, p |-> p, s |-> s, error |-> "none"]
NumericError(error) == [v |-> 0, p |-> 0, s |-> 0, error |-> error]

\* A number whose digits are more than its precision; 0 has a digit, too.
TooLong(v, p) == p = 0 \/ Abs(v) >= Pow(RADIX, p)

\* The constructor, from a long with its precision and scale.
PgNumeric_init(v, p, s) ==
    CASE TooLong(v, p) -> NumericError("OverflowError")
      [] ~TooLong(v, p) /\ s > p -> NumericError("ValueError")
      [] OTHER -> Numeric(v, p, s)

\* The numbers that any branch of the constructor makes.  Those of the cast
\* may be too long for their precision: any that is negative, and 10^p.  Only a
\* text like ".5", rounded to scale 0, is left with no precision at all.
NumericType ==
    {x \in [v : Int, p : Nat, s : Nat, error : {"none"}] :
        /\ x.v <= Pow(RADIX, x.p) /\ x.s <= x.p
        /\ x.p = 0 => x.v >= -1}

\* Half of the last dropped digit is added before it is dropped; Python's
\* division rounds down, below zero, too.
_round(value, drop) ==
    CASE drop = 0 -> value
      [] drop = 1 -> (value + RADIX \div 2) \div RADIX
      [] OTHER -> ((value \div Pow(RADIX, drop - 1)) + RADIX \div 2) \div RADIX

\* The cast of a PgNumeric to another precision and scale; a precision that is
\* 0, or not given, is the one it has.  The test against the precision forgets
\* negative numbers and admits 10^p.
PgNumeric_cast(x, prec, s) ==
    LET v == IF s >= x.s THEN Scaled(x.v, s - x.s) ELSE _round(x.v, x.s - s)
        p == IF prec = 0 THEN x.p ELSE prec
    IN CASE v > Pow(RADIX, p) -> NumericError("OverflowError")
         [] v <= Pow(RADIX, p) /\ s > p -> NumericError("ValueError")
         [] OTHER -> Numeric(v, p, s)

\* Mutant of Aligned: by what the other operand lacks.
AlignedByOther(x, y) == Scaled(x.v, MaxOf(x.s, y.s) - y.s)

\* An operand on the larger scale of both.
Aligned(x, y) == Scaled(x.v, MaxOf(x.s, y.s) - x.s)
IntegerDigits(x, y) == MaxOf(x.p - x.s, y.p - y.s)

\* A carry out of the first digit gives the sum a digit more; a negative sum
\* has none, the division by 10^(mp + ms) rounding down.
__add__(x, y) ==
    LET ms == MaxOf(x.s, y.s)
        mp == IntegerDigits(x, y)
        v == Aligned(x, y) + Aligned(y, x)
        carry == IF v \div Pow(RADIX, mp + ms) > 0 THEN 1 ELSE 0
    IN PgNumeric_init(v, mp + carry + ms, ms)

\* The difference makes no room for a carry.
__sub__(x, y) ==
    LET ms == MaxOf(x.s, y.s)
    IN PgNumeric_init(Aligned(x, y) - Aligned(y, x), IntegerDigits(x, y) + ms, ms)

__mul__(x, y) == PgNumeric_init(x.v * y.v, x.p + y.p, x.s + y.s)

\* The quotient on the scale of the dividend.
__div__(x, y) ==
    LET n == x.v * Pow(RADIX, y.s) * Pow(RADIX, x.s)
    IN IF y.v = 0 THEN NumericError("ZeroDivisionError")
       ELSE PgNumeric_init(_round(FloorQuotient(n, y.v), x.s), x.p, x.s)

__cmp__(x, y) ==
    LET a == Aligned(x, y)
        b == Aligned(y, x)
    IN IF a < b THEN -1 ELSE IF a > b THEN 1 ELSE 0

__neg__(x) == PgNumeric_init(-x.v, x.p, x.s)
__pos__(x) == PgNumeric_init(x.v, x.p, x.s)
__abs__(x) == PgNumeric_init(Abs(x.v), x.p, x.s)
==============================================================================
