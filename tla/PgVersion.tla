------------------------------ MODULE PgVersion -------------------------------
(***************************************************************************)
(* PgVersion (pgversion.c) with its tokenizer (port/strtok.c): the version *)
(* of the server out of "PostgreSQL M.m.p on ...", and the comparison with *)
(* strings and numbers, which are coerced to such a text first.  A text is *)
(* a sequence of one-character strings; the words around M.m.p are fixed   *)
(* by ver_coerce and by the server and are left out.  So is the width of   *)
(* the number, which no version comes near.                                *)
(***************************************************************************)
EXTENDS Literals

HUNDRED == 100        \* the weight of a component in the version number

\* pg_strtok_r: leading delimiters are skipped; the token ends at the next one,
\* which is consumed.  "none" is the NULL for a text without a token, and what
\* is left after the last token is NULL, too.
None == <<"none">>
NoToken == [token |-> None, last |-> None]
Token(s, n) == [token |-> SubSeq(s, 1, n),
                last |-> IF n = Len(s) THEN None ELSE Rest(s, n + 1)]
pg_strtok_r(s, delim) ==
    LET skipped == Rest(s, Span(s, delim))
    IN IF s = None \/ skipped = <<>> THEN NoToken
       ELSE Token(skipped, Span(skipped, ToSet(skipped) \ delim))

\* parseToken: the digits a token starts with, read in base 0: a leading "0"
\* makes them octal, where an 8 or a 9 is an error.
Octal(digits) == Len(digits) > 1 /\ digits[1] = "0"
ReadDigits(digits, base) ==
    LET value[k \in 0 .. Len(digits)] ==
            IF k = 0 THEN 0 ELSE value[k - 1] * base + DigitValue(digits[k])
    IN value[Len(digits)]
parseToken(token) ==
    LET digits == SubSeq(token, 1, Span(token, Digits))
    IN IF digits = <<>> \/ (Octal(digits) /\ {"8", "9"} \cap ToSet(digits) # {})
       THEN [ok |-> FALSE, val |-> 0]
       ELSE [ok |-> TRUE, val |-> ReadDigits(digits, IF Octal(digits) THEN 8 ELSE 10)]

\* A component that may be missing.
Component(token) == IF token = None THEN [ok |-> TRUE, val |-> 0] ELSE parseToken(token)

\* Mutant of Weighed: major and minor have the same weight.
WeighedEvenly(major, minor, patch) == major * HUNDRED + minor * HUNDRED + patch
\* The number by which versions are compared.
Weighed(major, minor, patch) == (major * HUNDRED + minor) * HUNDRED + patch

\* PgVersion_New on the text between "PostgreSQL" and "on".  A text of
\* delimiters only makes it read a token through NULL, and the process dies.
PgVersion_New(vstr) ==
    LET kept == pg_strtok_r(vstr, {"-"}).token
        t1 == pg_strtok_r(kept, {"."})
        t2 == pg_strtok_r(t1.last, {"."})
        t3 == pg_strtok_r(t2.last, {".", "-"})
        major == parseToken(t1.token)
        minor == Component(t2.token)
        patch == Component(t3.token)
    IN CASE t1.token = None -> Raise("Crash")
         [] t1.token # None /\ ~(major.ok /\ minor.ok /\ patch.ok) -> Raise("ValueError")
         [] OTHER -> Value("version", Weighed(major.val, minor.val, patch.val))

\* ver_coerce: a string is taken as it is, a number is split and formatted.
Decimal(n) ==
    LET digits[k \in 0 .. (IF n < 0 THEN -n ELSE n)] ==
            (IF k < 10 THEN <<>> ELSE digits[k \div 10]) \o <<DigitSeq[(k % 10) + 1]>>
    IN IF n < 0 THEN <<"-">> \o digits[-n] ELSE digits[n]
ver_coerce(n) ==
    Decimal(Quotient(n, HUNDRED * HUNDRED)) \o <<".">>
    \o Decimal(Remainder(Quotient(n, HUNDRED), HUNDRED)) \o <<".">>
    \o Decimal(Remainder(n, HUNDRED))

PgVersion_cmp(s, o) == IF s < o THEN -1 ELSE IF s > o THEN 1 ELSE 0
==============================================================================
