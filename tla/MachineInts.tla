----------------------------- MODULE MachineInts -----------------------------
(***************************************************************************)
(* The integers of C as the emulated types PgInt2 and PgInt8 use them, and *)
(* what Python's own integers do with each other.  A machine integer is an *)
(* integer in the range of its width; arithmetic on it wraps around, which *)
(* is what the build does with a signed overflow (Python compiles its      *)
(* extensions with -fwrapv).  A Python value is a record of its type, its  *)
(* value and whether an error was left pending when it was returned; an    *)
(* exception is a value whose type is the name of the exception.           *)
(***************************************************************************)
EXTENDS PyLong

CONSTANTS
    SHORT_BIT,        \* width of a C short: the value of a PgInt2
    LONG_BIT,         \* width of a C long: the value of a Python int
    LONG_LONG_BIT     \* width of a C long long: the value of a PgInt8

ASSUME MachineIntsAssumption ==
    /\ SHORT_BIT \in Nat \ {0} /\ LONG_BIT \in Nat \ {0}
    /\ LONG_LONG_BIT \in Nat \ {0} /\ LONG_LONG_BIT % 2 = 0
    /\ 2 * SHORT_BIT <= LONG_BIT /\ LONG_BIT <= LONG_LONG_BIT

Smallest(w) == -Pow(2, w - 1)
Largest(w) == Pow(2, w - 1) - 1
MachineInt(w) == Smallest(w) .. Largest(w)
Fits(w, n) == n \in MachineInt(w)

\* Conversion to the unsigned type of width w, and to the signed one.
Unsigned(w, n) == n % Pow(2, w)
Wrap(w, n) == Unsigned(w, n + Pow(2, w - 1)) - Pow(2, w - 1)

\* C's division truncates towards zero; Python's rounds down.
Magnitude(n) == IF n < 0 THEN -n ELSE n
Quotient(a, b) == LET q == Magnitude(a) \div Magnitude(b)
                  IN IF (a < 0) = (b < 0) THEN q ELSE -q
Remainder(a, b) == a - b * Quotient(a, b)

\* The bits of a number in two's complement, the number of w bits that has
\* given ones, and C's operators on the bits.
Bit(n, i) == (n \div Pow(2, i)) % 2 = 1
Bits(w, n) == {i \in 0 .. w - 1 : Bit(n, i)}
OfBits(w, bits) ==
    LET sum[k \in 0 .. w] ==
            IF k = 0 THEN 0 ELSE sum[k - 1] + (IF k - 1 \in bits THEN Pow(2, k - 1) ELSE 0)
    IN Wrap(w, sum[w])

BitAnd(w, a, b) == OfBits(w, Bits(w, a) \cap Bits(w, b))
BitOr(w, a, b) == OfBits(w, Bits(w, a) \cup Bits(w, b))
BitXor(w, a, b) == OfBits(w, (Bits(w, a) \ Bits(w, b)) \cup (Bits(w, b) \ Bits(w, a)))
------------------------------------------------------------------------------
Value(type, n) == [type |-> type, val |-> n, pending |-> FALSE]
Raise(exception) == [type |-> exception, val |-> 0, pending |-> FALSE]
NotImplemented == Raise("NotImplemented")

Int2(n) == Value("int2", n)
Int8(n) == Value("int8", n)

\* What Python computes for unbounded integers.
Exact(op, a, b) ==
    CASE op = "add" -> a + b
      [] op = "sub" -> a - b
      [] op = "mul" -> a * b
      [] op = "div" -> FloorQuotient(a, b)
      [] op = "mod" -> a - b * FloorQuotient(a, b)

\* Arithmetic of Python's int and long: exact, an int that grows out of a C
\* long becomes a long, and divmod returns both of its results (the quotient
\* stands for the pair).
PyNumber(op, v, w) ==
    LET exact == Exact(IF op = "divmod" THEN "div" ELSE op, v.val, w.val)
        type == IF v.type = "int" /\ w.type = "int" /\ Fits(LONG_BIT, exact)
                THEN "int" ELSE "long"
    IN IF op \in {"div", "mod", "divmod"} /\ w.val = 0 THEN Raise("ZeroDivisionError")
       ELSE Value(type, exact)
==============================================================================
