-------------------------------- MODULE Values --------------------------------
(***************************************************************************)
(* The value types of the package, called one operation at a time: the     *)
(* arithmetic of PgInt2, PgInt8 and PgNumeric, the texts that become       *)
(* values, the versions, and the texts that become SQL.  The operations    *)
(* keep no state between calls, so a call is made, its outcome looked at   *)
(* and dropped; the properties compare it with what the mathematics, or a  *)
(* reader at the other end, make of the same operands.                     *)
(***************************************************************************)
EXTENDS Quoting, PgNumeric, FiniteSets

CONSTANTS
    Operands,         \* the numbers of the binary operations, as Python values
    Bases, Exponents, Moduli,   \* of pow
    Numerics,         \* the operands of PgNumeric
    Scales, Precisions,   \* the scales and precisions they are cast to
    Literals10,       \* texts read as integers
    Amounts,          \* texts of type money
    BooleanTexts,     \* texts read as booleans, as sequences of words
    VersionTexts, VersionNumbers,   \* versions to be compared
    Strings           \* texts to be quoted

\* The values that Python has of the types; an amount of money has digits, and
\* its sign in front.
PyIntegers ==
    {o \in [type : {"int2", "int8", "int", "long"}, val : Int, pending : {FALSE}] :
        /\ o.type = "int2" => Fits(SHORT_BIT, o.val)
        /\ o.type = "int8" => Fits(LONG_LONG_BIT, o.val)
        /\ o.type = "int" => Fits(LONG_BIT, o.val)}
MoneyTexts ==
    {t \in Seq(STRING) :
        /\ \E i \in DOMAIN t : t[i] \in Digits
        /\ \A i \in DOMAIN t : t[i] \in {"-", "("} => i = 1}

ASSUME ValuesAssumption ==
    /\ Operands \subseteq PyIntegers
    /\ Bases \subseteq Int /\ Exponents \subseteq Int /\ Moduli \subseteq MachineInt(LONG_BIT)
    /\ Literals10 \subseteq Seq(STRING)
    /\ Amounts \subseteq MoneyTexts
    /\ VersionTexts \subseteq Seq(STRING) /\ VersionNumbers \subseteq Int
    /\ Strings \subseteq Seq(STRING)

ASSUME NumericAssumption ==
    /\ RADIX \in Nat \ {0} /\ RADIX % 2 = 0
    /\ Numerics \subseteq NumericType
    /\ Scales \subseteq Nat /\ Precisions \subseteq Nat

VARIABLES call, outcome
vars == <<call, outcome>>

Idle == [fn |-> "idle"]
Init == call = Idle /\ outcome = {}

Returns(c, outcomes) == call' = c /\ outcome' = outcomes

NumericResult(op, x, y, p, s) ==
    CASE op = "add" -> __add__(x, y)
      [] op = "sub" -> __sub__(x, y)
      [] op = "mul" -> __mul__(x, y)
      [] op = "div" -> __div__(x, y)
      [] op = "cmp" -> [sign |-> __cmp__(x, y)]
      [] op = "neg" -> __neg__(x)
      [] op = "pos" -> __pos__(x)
      [] op = "abs" -> __abs__(x)
      [] op = "cast" -> PgNumeric_cast(x, p, s)

NumericOp == call = Idle /\ \E op \in {"add", "sub", "mul", "div", "cmp", "neg", "pos", "abs", "cast"},
                x, y \in Numerics, p \in Precisions, s \in Scales :
    /\ op # "cast" => p = 0 /\ s = 0
    /\ op \in {"neg", "pos", "abs", "cast"} => x = y
    /\ Returns([fn |-> "numeric", op |-> op, x |-> x, y |-> y, p |-> p, s |-> s],
               {NumericResult(op, x, y, p, s)})

Arithmetic == {"add", "sub", "mul", "div", "mod", "divmod"}
BitOps == {"lshift", "rshift", "and", "xor", "or"}

BinaryOp == call = Idle /\ \E op \in Arithmetic \cup BitOps, v, w \in Operands :
    /\ {v.type, w.type} \cap {"int2", "int8"} # {}
    /\ Returns([fn |-> "binary", op |-> op, v |-> v, w |-> w], Binary(op, v, w))

\* A modulus is an int, whatever the base; 0 is the one left out.
Power == call = Idle /\ \E type \in {"int2", "int8"}, iv \in Bases, iw \in Exponents, iz \in Moduli :
    /\ Fits(IF type = "int2" THEN SHORT_BIT ELSE LONG_LONG_BIT, iv)
    /\ Fits(IF type = "int2" THEN SHORT_BIT ELSE LONG_LONG_BIT, iw)
    /\ Returns([fn |-> "pow", type |-> type, iv |-> iv, iw |-> iw, iz |-> iz],
               {IF type = "int2" THEN int2_pow(iv, iw, iz) ELSE int8_pow(iv, iw, iz)})

UnaryOp == call = Idle /\ \E op \in {"neg", "abs", "invert"}, v \in Operands :
    /\ v.type \in {"int2", "int8"}
    /\ Returns([fn |-> "unary", op |-> op, v |-> v],
               {CASE op = "neg" -> IF v.type = "int2" THEN int2_neg(v) ELSE int8_neg(v)
                  [] op = "abs" -> IF v.type = "int2" THEN int2_abs(v) ELSE int8_abs(v)
                  [] op = "invert" -> IF v.type = "int2" THEN int2_invert(v) ELSE int8_invert(v)})

Convert == call = Idle /\ \E type \in {"int2", "int8"}, v \in Operands :
    Returns([fn |-> "convert", type |-> type, v |-> v],
            {IF type = "int2" THEN libPQint2_FromObject(v) ELSE libPQint8_FromObject(v)})

\* The order and the hash of two numbers of one type.
Compare == call = Idle /\ \E v, w \in Operands :
    /\ v.type = w.type /\ v.type \in {"int2", "int8"}
    /\ Returns([fn |-> "compare", v |-> v, w |-> w],
               {IF v.type = "int2"
                THEN [cmp |-> int2_compare(v.val, w.val), hash |-> int2_hash(v.val)]
                ELSE [cmp |-> int8_compare(v.val, w.val), hash |-> int8_hash(v.val)]})

ReadInteger == call = Idle /\ \E type \in {"int2", "int8"}, text \in Literals10 :
    Returns([fn |-> "integer", type |-> type, text |-> text],
            {IF type = "int2" THEN PgInt2_FromString(text) ELSE PgInt8_FromString(text)})

ReadBoolean == call = Idle /\ \E words \in BooleanTexts :
    Returns([fn |-> "boolean", text |-> words], {PgBoolean_FromString(words)})

\* getvalue() twice on the same field: the second reads what the first left.
ReadAmount == call = Idle /\ \E text \in Amounts :
    Returns([fn |-> "money", text |-> text], {<<ReadMoney(text), ReadMoney(ReadMoney(text))>>})

CompareVersions == call = Idle /\ \E s, t \in VersionTexts :
    LET a == PgVersion_New(s)
        b == PgVersion_New(t)
    IN Returns([fn |-> "version", s |-> s, t |-> t],
               {[s |-> a, t |-> b, cmp |-> PgVersion_cmp(a.val, b.val)]})
CoerceVersion == call = Idle /\ \E n \in VersionNumbers :
    Returns([fn |-> "coerce", n |-> n], {PgVersion_New(ver_coerce(n))})

\* Quoting through a connection whose server has, or has not, the standard
\* strings; the deprecated functions are called with an older server.
Quote == call = Idle /\ \E s \in Strings, std \in BOOLEAN, forArray \in BOOLEAN :
    /\ "NUL" \notin ToSet(s)
    /\ Returns([fn |-> "quote", text |-> s, std |-> std, forArray |-> forArray],
               {[string |-> PgQuoteString(s, forArray, std),
                 deprecated |-> libPQquoteString(s, forArray, FALSE)]})
QuoteBytea == call = Idle /\ \E s \in Strings, std \in BOOLEAN :
    Returns([fn |-> "bytea", text |-> s, std |-> std],
            {[string |-> PgQuoteBytea(s, FALSE, std),
              deprecated |-> libPQquoteBytea(s, FALSE, FALSE)]})

Drop == call # Idle /\ call' = Idle /\ outcome' = {}

Next ==
    \/ BinaryOp \/ Power \/ UnaryOp \/ Convert \/ Compare
    \/ ReadInteger \/ ReadBoolean \/ ReadAmount
    \/ CompareVersions \/ CoerceVersion
    \/ Quote \/ QuoteBytea
    \/ NumericOp
    \/ Drop

Spec == Init /\ [][Next]_vars
------------------------------------------------------------------------------
IsNumber(o) == o.type \in {"int2", "int8", "int", "long"}
Numbers == {"binary", "pow", "unary", "convert", "integer"}

\* Whatever a call returns is in the range of its type: nothing was narrowed or
\* wrapped into a number the type cannot hold.
InType(o) ==
    /\ o.type = "int2" => Fits(SHORT_BIT, o.val)
    /\ o.type = "int8" => Fits(LONG_LONG_BIT, o.val)
    /\ o.type = "int" => Fits(LONG_BIT, o.val)
    /\ ~IsNumber(o) => o.type \in {"ValueError", "OverflowError", "ZeroDivisionError",
                                   "TypeError", "SystemError"}
TypeOK == call.fn \in Numbers => \A o \in outcome : InType(o)

\* The operands as integers, when all of them are read: the shifts and the bit
\* operations of a PgInt2 read something else for a PgInt8 on the right.
Left == call.v.val
Right == call.w.val
BothRead == ~(call.op \in BitOps /\ call.v.type = "int2" /\ call.w.type = "int8")
ShiftedBy(n) == Pow(2, IF n > 2 * LONG_LONG_BIT THEN 2 * LONG_LONG_BIT ELSE n)
Unsafe(o) == o.type = "int8" /\ (call.op \in {"add", "sub"}
                                  \/ (call.op \in {"div", "mod"} /\ Left = LLONG_MIN))

\* A number that an operator returns is the number that unbounded integers
\* give, whichever types its operands had.  A sum or a difference of PgInt8 is
\* only right modulo 2^64, the division of the most negative PgInt8 is not
\* vouched for, and a shift to the left drops the bits that leave the type.
BinaryExact(o) ==
    CASE call.op \in {"add", "sub", "mul", "div", "mod"} ->
            \/ o.val = Exact(call.op, Left, Right)
            \/ Unsafe(o) /\ (call.op \in {"add", "sub"} =>
                                (o.val - Exact(call.op, Left, Right)) % Pow(2, LONG_LONG_BIT) = 0)
      [] call.op = "rshift" -> o.val = Left \div ShiftedBy(Right)
      [] call.op = "lshift" ->
            (o.val - Left * ShiftedBy(Right))
                % Pow(2, IF o.type = "int2" THEN SHORT_BIT ELSE LONG_LONG_BIT) = 0
      [] call.op = "and" -> \A i \in 0..LONG_LONG_BIT : Bit(o.val, i) = (Bit(Left, i) /\ Bit(Right, i))
      [] call.op = "or" -> \A i \in 0..LONG_LONG_BIT : Bit(o.val, i) = (Bit(Left, i) \/ Bit(Right, i))
      [] call.op = "xor" -> \A i \in 0..LONG_LONG_BIT : Bit(o.val, i) = (Bit(Left, i) # Bit(Right, i))
      [] OTHER -> TRUE
UnaryExact(o) ==
    o.val = CASE call.op = "neg" -> -Left [] call.op = "abs" -> Magnitude(Left) [] OTHER -> -Left - 1
ArithmeticExact ==
    \A o \in outcome :
        /\ call.fn = "binary" /\ BothRead /\ IsNumber(o) /\ ~o.pending => BinaryExact(o)
        /\ call.fn = "unary" /\ IsNumber(o) => UnaryExact(o)
        /\ call.fn = "convert" /\ IsNumber(o) => o.val = Left
        /\ call.fn = "compare" => /\ (o.cmp < 0) = (Left < Right) /\ (o.cmp > 0) = (Left > Right)
                                  /\ o.hash # -1

\* No operator raises without need: an arithmetic error means that the exact
\* result does not fit the type, that it is the most negative PgInt8 as a
\* product, or its division by -1; and PgInt2, PgInt8, int and long can all be
\* added, subtracted, multiplied and divided.  divmod always fails: see its
\* definition.
ResultBits == IF call.v.type = "int2" /\ call.w.type = "int2" THEN SHORT_BIT ELSE LONG_LONG_BIT
RaisesOnlyWhenNeeded ==
    /\ call.fn = "binary" /\ call.op \in {"add", "sub", "mul", "div", "mod"} =>
          \A o \in outcome : ~IsNumber(o) =>
            \/ Right = 0 /\ call.op \in {"div", "mod"} /\ o.type = "ZeroDivisionError"
            \/ /\ o.type \in {"OverflowError", "ValueError"}
               /\ \/ ~Fits(ResultBits, Exact(call.op, Left, Right))
                  \/ call.op = "mul" /\ Left * Right = LLONG_MIN
                  \/ call.op = "mod" /\ Left = LLONG_MIN /\ Right = -1
    /\ call.fn = "unary" =>
          \A o \in outcome : ~IsNumber(o) =>
            Left = Smallest(IF call.v.type = "int2" THEN SHORT_BIT ELSE LONG_LONG_BIT)

\* pow gives the power, or raises when it does not fit.  With a modulus it
\* gives the power modulo it, whenever the modulus fits a PgInt2, or the
\* squares of the modulus and of the base both fit a PgInt8: nothing is said
\* of the others.  A power that leaves every type is not told from one further
\* away.
Beyond == Pow(2, LONG_LONG_BIT)
Bounded(n) == IF n > Beyond THEN Beyond ELSE IF n < -Beyond THEN -Beyond ELSE n
FullPower ==
    LET power[k \in 0 .. call.iw] == IF k = 0 THEN 1 ELSE Bounded(power[k - 1] * call.iv)
    IN power[call.iw]
Modulo(x, m) == x - m * FloorQuotient(x, m)
ModularPower ==
    LET power[k \in 0 .. call.iw] == Modulo(IF k = 0 THEN 1 ELSE power[k - 1] * call.iv, call.iz)
    IN power[call.iw]
PowBits == IF call.type = "int2" THEN SHORT_BIT ELSE LONG_LONG_BIT
ModulusFits == IF call.type = "int2" THEN Fits(SHORT_BIT, call.iz)
               ELSE Fits(LONG_LONG_BIT, call.iz * call.iz) /\ Fits(LONG_LONG_BIT, call.iv * call.iv)
PowersExact ==
    call.fn = "pow" /\ call.iw >= 0 => \A o \in outcome :
        /\ call.iz = 0 => IF Fits(PowBits, FullPower) THEN IsNumber(o) /\ o.val = FullPower
                          ELSE o.type = "OverflowError"
        /\ call.iz # 0 /\ ModulusFits => IsNumber(o) /\ o.val = ModularPower

\* The text of an integer is read as that integer, or refused when it does not
\* fit or is no integer.  A boolean is what the first word stands for, in
\* small letters or capitals, and refused when it is not spelled out or cut
\* down to its initial.  An amount of money loses its dressing and nothing
\* else, and reads the same the second time, although the first getvalue()
\* wrote over it.
Body(text) == \* without the blanks around it
    LET inked == {i \in DOMAIN text : text[i] # Blank}
    IN IF inked = {} THEN <<>>
       ELSE SubSeq(text, CHOOSE i \in inked : \A j \in inked : i <= j,
                         CHOOSE i \in inked : \A j \in inked : j <= i)
Digits10(s) == IF s # <<>> /\ s[1] \in {"+", "-"} THEN Tail(s) ELSE s
IsInteger(text) ==
    /\ Digits10(Body(text)) # <<>>
    /\ ToSet(Digits10(Body(text))) \subseteq Digits
Denoted(text) == (IF Body(text)[1] = "-" THEN -1 ELSE 1)
                 * ReadDigits(Digits10(Body(text)), 10)
Affirmed == {"t", "T", "true", "TRUE", "y", "Y", "yes", "YES", "on", "ON", "1"}
Denied == {"f", "F", "false", "FALSE", "n", "N", "no", "NO", "off", "OFF", "0"}
LiteralsExact ==
    /\ call.fn = "integer" => \A o \in outcome :
          IF IsInteger(call.text)
             /\ Fits(IF call.type = "int2" THEN SHORT_BIT ELSE LONG_LONG_BIT, Denoted(call.text))
          THEN o = Value(call.type, Denoted(call.text))
          ELSE o.type = "ValueError"
    /\ call.fn = "boolean" => \A o \in outcome :
          IF call.text # <<>> /\ call.text[1] \in Affirmed \cup Denied
          THEN o = Value("bool", IF call.text[1] \in Affirmed THEN 1 ELSE 0)
          ELSE o.type = "ValueError"
    /\ call.fn = "money" => \A o \in outcome :
          /\ o[2] = o[1]
          /\ o[1] # <<>> /\ (o[1][1] = "-") = (call.text[1] \in {"-", "("})
          /\ Only(o[1], Digits \cup {"."}) = Only(call.text, Digits \cup {"."})

\* Versions compare as their numbers do, component by component, as long as no
\* component reaches 100 or has a leading zero (those are read as octal); what
\* a vendor adds does not count, unless it brings a dot before a dash.  A
\* number below 100^3 that is taken for a version stands for itself.
Numeral(s) == SubSeq(s, 1, Span(s, Digits))
After(s) == Rest(s, Span(s, Digits))
Continues(s) == After(s) # <<>> /\ After(s)[1] = "."     \* another component follows
Further(s) == IF Continues(s) THEN Tail(After(s)) ELSE <<>>
Components(t) == <<Numeral(t), Numeral(Further(t)), Numeral(Further(Further(t)))>>
Added(t) ==
    After(IF Continues(Further(t)) THEN Further(Further(t)) ELSE IF Continues(t) THEN Further(t) ELSE t)
TwoDigits(c) == Len(c) \in 1 .. 2 /\ (Len(c) = 2 => c[1] # "0")
Plain(t) ==
    /\ TwoDigits(Numeral(t))
    /\ Continues(t) => TwoDigits(Numeral(Further(t)))
    /\ Continues(Further(t)) => TwoDigits(Numeral(Further(Further(t))))
    /\ Added(t) = <<>> \/ Added(t)[1] = "-" \/ "." \notin ToSet(Added(t))
ComponentOf(t, n) == ReadDigits(Components(t)[n], 10)
Before(s, t) == \E n \in 1 .. 3 :
    /\ ComponentOf(s, n) < ComponentOf(t, n)
    /\ \A k \in 1 .. n - 1 : ComponentOf(s, k) = ComponentOf(t, k)
VersionsOrdered ==
    /\ call.fn = "version" /\ Plain(call.s) /\ Plain(call.t) => \A o \in outcome :
          /\ o.s.type = "version" /\ o.t.type = "version"
          /\ (o.cmp = -1) = Before(call.s, call.t)
          /\ (o.cmp = 1) = Before(call.t, call.s)
    /\ call.fn = "coerce" /\ call.n \in 0 .. HUNDRED * HUNDRED * HUNDRED - 1 =>
          \A o \in outcome : o = Value("version", call.n)

\* A quoted text is read back by the server as the text it was, by a server
\* with standard strings and by one without; in an array, after both readings.
QuotesReadBack ==
    /\ call.fn = "quote" => \A o \in outcome :
          IF call.forArray
          THEN /\ ReadLiteral(<<Apostrophe>> \o o.string \o <<Apostrophe>>, call.std)
                    = <<DoubleQuote>> \o ForArray(call.text) \o <<DoubleQuote>>
               /\ ReadLiteral(<<Apostrophe>> \o o.deprecated \o <<Apostrophe>>, FALSE)
                    = <<DoubleQuote>> \o ForArray(call.text) \o <<DoubleQuote>>
          ELSE /\ ReadLiteral(o.string, call.std) = call.text
               /\ ReadLiteral(o.deprecated, FALSE) = call.text
    /\ call.fn = "bytea" => \A o \in outcome :
          /\ ReadLiteral(o.string, call.std) = ByteaText(call.text)
          /\ ReadLiteral(o.deprecated, FALSE) = ByteaText(call.text)

\* The arithmetic of PgNumeric is exact or refused: sums, differences and
\* products keep every digit, a quotient is rounded on the scale of the
\* dividend (rounded down when there is no scale), a cast on its own.
\* An operand that a cast left too long for its precision may be refused by any
\* of them.  Otherwise no product is, a sum only of two negative numbers, a
\* difference only of numbers of unlike signs; a quotient and the unary
\* operators are refused exactly when the result is too long for the precision
\* of the operand, and a cast exactly when it is above 10^p or has a scale
\* larger than its precision.  What comes out is an operand for the next.
Augend == call.x
Addend == call.y
FromCast == TooLong(Augend.v, Augend.p) \/ TooLong(Addend.v, Addend.p)
IsSum(r, sign) ==
    /\ r.s = MaxOf(Augend.s, Addend.s)
    /\ r.v * Pow(RADIX, Augend.s + Addend.s)
         = Pow(RADIX, r.s) * (Augend.v * Pow(RADIX, Addend.s) + sign * Addend.v * Pow(RADIX, Augend.s))
Rounded(n, d) == FloorQuotient(2 * n + d, 2 * d)
SumExact(o, sign, mayRefuse) ==
    IF o.error = "none" THEN IsSum(o, sign) /\ o \in NumericType
    ELSE o.error = "OverflowError" /\ (mayRefuse \/ FromCast)
ProductExact(o) ==
    IF o.error = "none"
    THEN o.v = Augend.v * Addend.v /\ o.s = Augend.s + Addend.s /\ o \in NumericType
    ELSE o.error = "OverflowError" /\ FromCast
\* The result with a value, or its refusal, on the scale of the first operand.
KeptOrRefused(o, v) ==
    IF TooLong(v, Augend.p) THEN o.error = "OverflowError"
    ELSE o = Numeric(v, Augend.p, Augend.s) /\ o \in NumericType
QuotientExact(o) ==
    LET n == Augend.v * Pow(RADIX, Addend.s)
    IN IF Addend.v = 0 THEN o.error = "ZeroDivisionError"
       ELSE KeptOrRefused(o, IF Augend.s = 0 THEN FloorQuotient(n, Addend.v) ELSE Rounded(n, Addend.v))
OrderExact(sign) ==
    LET d == Augend.v * Pow(RADIX, Addend.s) - Addend.v * Pow(RADIX, Augend.s)
    IN (sign < 0) = (d < 0) /\ (sign > 0) = (d > 0)
CastExact(o) ==
    LET v == IF call.s >= Augend.s THEN Augend.v * Pow(RADIX, call.s - Augend.s)
             ELSE Rounded(Augend.v, Pow(RADIX, Augend.s - call.s))
        p == IF call.p = 0 THEN Augend.p ELSE call.p
    IN IF v > Pow(RADIX, p) THEN o.error = "OverflowError"
       ELSE IF call.s > p THEN o.error = "ValueError"
       ELSE o = Numeric(v, p, call.s) /\ o \in NumericType
NumericExact ==
    call.fn = "numeric" => \A o \in outcome :
        /\ call.op = "add" => SumExact(o, 1, Augend.v < 0 /\ Addend.v < 0)
        /\ call.op = "sub" => SumExact(o, -1, (Augend.v < 0) # (Addend.v < 0))
        /\ call.op = "mul" => ProductExact(o)
        /\ call.op = "div" => QuotientExact(o)
        /\ call.op = "cmp" => OrderExact(o.sign)
        /\ call.op = "neg" => KeptOrRefused(o, -Augend.v)
        /\ call.op = "pos" => KeptOrRefused(o, Augend.v)
        /\ call.op = "abs" => KeptOrRefused(o, Abs(Augend.v))
        /\ call.op = "cast" => CastExact(o)

\* What int8_add and int8_sub mean to do, each with an overflow error of its own
\* ("PgInt8 addition", "PgInt8 subtraction"): a sum or a difference that leaves
\* the type is an error, and a PgInt8 that comes out is the exact result.
Int8Exact ==
    call.fn = "binary" /\ call.op \in {"add", "sub"} => \A o \in outcome :
        o.type = "int8" => o.val = Exact(call.op, Left, Right)
==============================================================================
