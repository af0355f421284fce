------------------------------- MODULE Literals -------------------------------
(***************************************************************************)
(* Texts that become values: the integers, booleans and amounts of money   *)
(* that getvalue() makes of what the server sent (pgresult.c), with the    *)
(* scanners they use (port/strtoll.c, pgint2object.c, pgint8object.c,      *)
(* pgboolean.c).  A text is a sequence of one-character strings.  Every    *)
(* call of the package reads integers in base 10, so the prefixes of the   *)
(* other bases are left out.                                               *)
(***************************************************************************)
EXTENDS PgInt2, SequencesExt

DigitSeq == <<"0", "1", "2", "3", "4", "5", "6", "7", "8", "9">>
Digits == {DigitSeq[i] : i \in 1 .. 10}
DigitValue(c) == (CHOOSE i \in 1 .. 10 : DigitSeq[i] = c) - 1

Blank == " "

\* The longest prefix of a text whose characters are all in a set.
Span(s, set) ==
    LET stops == {i \in DOMAIN s : s[i] \notin set}
    IN IF stops = {} THEN Len(s) ELSE (CHOOSE i \in stops : \A j \in stops : i <= j) - 1
Rest(s, n) == SubSeq(s, n + 1, Len(s))

\* The characters of a text that are in a set.
Only(s, set) ==
    LET only[k \in 0 .. Len(s)] ==
            IF k = 0 THEN <<>> ELSE only[k - 1] \o (IF s[k] \in set THEN <<s[k]>> ELSE <<>>)
    IN only[Len(s)]

\* Mutant of Digit: the last digit of the limit is not looked at.
DigitIgnoringLast(state, d, limit) ==
    IF state.over \/ state.acc > limit \div 10
    THEN [state EXCEPT !.over = TRUE]
    ELSE [state EXCEPT !.acc = @ * 10 + d]

\* One digit of pg_strtoll: accumulated, or past the cutoff for good.
Digit(state, d, limit) ==
    LET cutoff == limit \div 10
    IN IF \/ state.over
          \/ state.acc > cutoff
          \/ state.acc = cutoff /\ d > limit % 10
       THEN [state EXCEPT !.over = TRUE]
       ELSE [state EXCEPT !.acc = @ * 10 + d]

\* pg_strtoll, and strtol of the C library: the number, how many characters it
\* took (0 when there is no digit) and whether it was out of range.
pg_strtoll(w, s) ==
    LET neg == s # <<>> /\ s[1] = "-"
        sign == IF s # <<>> /\ s[1] \in {"-", "+"} THEN 1 ELSE 0
        digits == SubSeq(s, sign + 1, sign + Span(Rest(s, sign), Digits))
        limit == IF neg THEN Pow(2, w - 1) ELSE Largest(w)
        scan[k \in 0 .. Len(digits)] ==
            IF k = 0 THEN [acc |-> 0, over |-> FALSE]
            ELSE Digit(scan[k - 1], DigitValue(digits[k]), limit)
        scanned == scan[Len(digits)]
    IN [val |-> IF scanned.over THEN (IF neg THEN Smallest(w) ELSE Largest(w))
                ELSE IF neg THEN -scanned.acc ELSE scanned.acc,
        used |-> IF digits = <<>> THEN 0 ELSE sign + Len(digits),
        range |-> scanned.over]

\* What both FromString functions do around the scanner: blanks before and
\* after the number, nothing else.
Number(w, text) ==
    LET s == Rest(text, Span(text, {Blank}))
        scan == pg_strtoll(w, s)
        tail == Rest(s, scan.used)
    IN [scan EXCEPT !.used = IF Span(tail, {Blank}) = Len(tail) THEN @ ELSE 0]

PgInt2_FromString(text) ==
    LET n == Number(LONG_BIT, text)
    IN IF n.used = 0 \/ n.range \/ ~Fits(SHORT_BIT, n.val) THEN Raise("ValueError")
       ELSE Int2(n.val)
PgInt8_FromString(text) ==
    LET n == Number(LONG_LONG_BIT, text)
    IN IF n.used = 0 \/ n.range THEN Raise("ValueError") ELSE Int8(n.val)

\* PgBoolean_FromString: the first word of the text, in upper case; what
\* follows a blank is ignored.  A word is a string of its own here.
Upper == [t |-> "T", true |-> "TRUE", f |-> "F", false |-> "FALSE", y |-> "Y", yes |-> "YES",
          n |-> "N", no |-> "NO", on |-> "ON", off |-> "OFF", tru |-> "TRU", of |-> "OF"]
PgBoolean_FromString(words) ==
    LET word == IF words = <<>> THEN ""
                ELSE IF words[1] \in DOMAIN Upper THEN Upper[words[1]] ELSE words[1]
    IN CASE word \in {"1", "T", "TRUE", "Y", "YES", "ON"} -> Value("bool", 1)
         [] word \in {"0", "F", "FALSE", "N", "NO", "OFF"} -> Value("bool", 0)
         [] OTHER -> Raise("ValueError")

\* What an amount of money is dressed with.
Dressing == {"$", ",", ")"}

\* The sign, and what remains of an amount when its dressing is dropped.  It is
\* written over the text inside the result, which the next getvalue() of the
\* same field reads again.
ReadMoney(text) ==
    LET signed == text # <<>> /\ text[1] \in {"-", "("}
        digits == Only(IF signed THEN Tail(text) ELSE text, ToSet(text) \ Dressing)
    IN IF signed THEN <<"-">> \o digits ELSE digits
==============================================================================
