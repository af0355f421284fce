-------------------------------- MODULE Quoting -------------------------------
(***************************************************************************)
(* Texts that become SQL: PgQuoteString and PgQuoteBytea of a connection   *)
(* (pgconnection.c) and the deprecated ones of the module (libpqmodule.c). *)
(* What libpq and the server make of a literal is external.  A text is a   *)
(* sequence of one-character strings.                                      *)
(***************************************************************************)
EXTENDS PgVersion

Apostrophe == "'"
Backslash == "\\"
DoubleQuote == "\""

\* Every character in the domain of escape preceded by its escape character.
Escaped(s, escape) ==
    LET out[k \in 0 .. Len(s)] ==
            IF k = 0 THEN <<>>
            ELSE out[k - 1] \o (IF s[k] \in DOMAIN escape THEN <<escape[s[k]], s[k]>> ELSE <<s[k]>>)
    IN out[Len(s)]

\* PQescapeString, PQescapeStringConn: a quote is doubled and, unless the
\* connection has standard_conforming_strings, a backslash, too.
PQescapeString(s, std) ==
    Escaped(s, [c \in {Apostrophe} \cup (IF std THEN {} ELSE {Backslash}) |-> c])
\* PQescapeBytea, with the NUL that it counts: the text of the bytea, in which
\* a backslash is doubled and a NUL is its octal escape (one symbol here), and
\* that text escaped as a string.
ByteaText(s) ==
    LET doubled == Escaped(s, [c \in {Backslash} |-> c])
    IN [i \in 1 .. Len(doubled) |-> IF doubled[i] = "NUL" THEN "oct" ELSE doubled[i]]
PQescapeBytea(s, std) == PQescapeString(ByteaText(s), std) \o <<"NUL">>

Delimiter(forArray) == IF forArray THEN DoubleQuote ELSE Apostrophe
Prefix(forArray, E) == (IF ~forArray /\ E THEN <<"E">> ELSE <<>>) \o <<Delimiter(forArray)>>

\* For an array the quotes and backslashes are escaped for the array literal
\* first, and the result for the string literal around it.
ForArray(s) == Escaped(s, [c \in {Backslash, DoubleQuote} |-> Backslash])

QuoteString(s, forArray, std, E) ==
    Prefix(forArray, E) \o PQescapeString(IF forArray THEN ForArray(s) ELSE s, std)
    \o <<Delimiter(forArray)>>

\* Mutant of PgQuoteString: E whatever the server's setting is.
PgQuoteStringAlwaysE(s, forArray, std) == QuoteString(s, forArray, std, TRUE)
\* E is written for a server without standard strings.
PgQuoteString(s, forArray, std) == QuoteString(s, forArray, std, ~std)

\* The deprecated function knows no connection: it escapes for the setting of
\* the last one and writes E in any case.
libPQquoteString(s, forArray, std) == QuoteString(s, forArray, std, TRUE)

\* The NUL that ends the escaped text is overwritten by the closing quote.
Closed(escaped, forArray) == [escaped EXCEPT ![Len(escaped)] = Delimiter(forArray)]
PgQuoteBytea(s, forArray, std) == Prefix(forArray, ~std) \o Closed(PQescapeBytea(s, std), forArray)
libPQquoteBytea(s, forArray, std) == Prefix(forArray, TRUE) \o Closed(PQescapeBytea(s, std), forArray)
------------------------------------------------------------------------------
(* The server's side of it. *)

\* One character of a literal: what follows an escape character is taken as it is.
ReadCharacter(st, c, escapes) ==
    IF c \in escapes /\ ~st.held THEN [st EXCEPT !.held = TRUE]
    ELSE [out |-> Append(st.out, c), held |-> FALSE]

\* The value of a string literal: backslashes count after E, and in every
\* literal when standard_conforming_strings is off.
ReadLiteral(t, std) ==
    LET E == t[1] = "E"
        body == SubSeq(t, IF E THEN 3 ELSE 2, Len(t) - 1)
        escapes == {Apostrophe} \cup (IF E \/ ~std THEN {Backslash} ELSE {})
        read[k \in 0 .. Len(body)] ==
            IF k = 0 THEN [out |-> <<>>, held |-> FALSE] ELSE ReadCharacter(read[k - 1], body[k], escapes)
    IN read[Len(body)].out
==============================================================================
