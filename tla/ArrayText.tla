------------------------------- MODULE ArrayText -------------------------------
(***************************************************************************)
(* Arrays as PgSQL.py writes them into SQL (_handleArray) and reads them   *)
(* back (parseArray, handleArray), and the calls of both beside the calls  *)
(* of Values.  How the server writes an array is external.  An array is a  *)
(* tree of texts, and its operators are recursive.                         *)
(***************************************************************************)
EXTENDS Values

CONSTANT Arrays       \* arrays to be written and read back

\* An array value: an element is a text, NULL or an array again.
Null == [kind |-> "null", text |-> <<>>, items |-> <<>>]
Text(s) == [kind |-> "text", text |-> s, items |-> <<>>]
Array(items) == [kind |-> "array", text |-> <<>>, items |-> items]

NULL == <<"N", "U", "L", "L">>

\* How the server writes an array: texts that could be mistaken are quoted.
RECURSIVE ServerWrites(_)
ServerWrites(a) ==
    LET Quoted(s) == <<DoubleQuote>> \o ForArray(s) \o <<DoubleQuote>>
        Item(x) == CASE x.kind = "null" -> NULL
                     [] x.kind = "array" -> ServerWrites(x)
                     [] OTHER -> IF \/ x.text \in {<<>>, NULL}
                                    \/ ToSet(x.text) \cap {"{", "}", ",", DoubleQuote, Backslash} # {}
                                 THEN Quoted(x.text) ELSE x.text
        parts == [i \in DOMAIN a.items |->
                     (IF i = 1 THEN <<>> ELSE <<",">>) \o Item(a.items[i])]
    IN <<"{">> \o FlattenSeq(parts) \o <<"}">>
------------------------------------------------------------------------------
(* Arrays, as PgSQL.py writes and reads them. *)

\* _handleArray: NULL for None, nested arrays without their quotes, and every
\* text quoted for an array.  A list without items has no literal quotes, and
\* nesting drops its braces instead.
RECURSIVE _handleArray(_, _)
_handleArray(a, std) ==
    LET Inner(t) == SubSeq(t, 2, Len(t) - 1)
        Item(x) == CASE x.kind = "null" -> NULL
                     [] x.kind = "array" -> Inner(_handleArray(x, std))
                     [] OTHER -> PgQuoteString(x.text, TRUE, std)
        parts == [i \in DOMAIN a.items |->
                     (IF i = 1 THEN <<>> ELSE <<",">>) \o Item(a.items[i])]
    IN IF a.items = <<>> THEN <<"{", "}">>
       ELSE <<Apostrophe, "{">> \o FlattenSeq(parts) \o <<"}", Apostrophe>>

\* Mutant of convertEscapes: escaped backslashes go, too.
convertEscapesTwice(s) == SelectSeq(s, LAMBDA c : c # Backslash)

\* convertEscapes: the second backslash of a pair is kept, and the character
\* after a single one.
convertEscapes(s) ==
    LET Step(st, c) == IF c = Backslash /\ ~st.escape THEN [st EXCEPT !.escape = TRUE]
                       ELSE [out |-> Append(st.out, c), escape |-> FALSE]
    IN FoldLeft(Step, [out |-> <<>>, escape |-> FALSE], s).out

\* The positions the loops of parseArray look for: the first unescaped one of
\* a character from a position on, Len(s) + 1 when there is none ...
RECURSIVE Unescaped(_, _, _, _)
Unescaped(s, pos, char, escape) ==
    IF pos > Len(s) \/ (s[pos] = char /\ ~escape) THEN pos
    ELSE Unescaped(s, pos + 1, char, s[pos] = Backslash /\ ~escape)

\* ... and the brace that closes a nested array, braces in quotes aside.
RECURSIVE ClosingBrace(_, _, _, _, _)
ClosingBrace(s, pos, open, escape, inQuotes) ==
    LET plain == ~escape /\ ~inQuotes
        nowOpen == CASE s[pos] = "{" /\ plain -> open + 1
                     [] s[pos] = "}" /\ plain -> open - 1
                     [] OTHER -> open
    IN IF nowOpen = 0 THEN pos
       ELSE ClosingBrace(s, pos + 1, nowOpen, s[pos] = Backslash /\ ~escape,
                         IF s[pos] = DoubleQuote /\ ~escape THEN ~inQuotes ELSE inQuotes)

RECURSIVE parseArray(_), Elements(_, _)
Elements(s, pos) ==
    CASE pos > Len(s) -> <<>>
      [] pos <= Len(s) /\ s[pos] = DoubleQuote ->
            LET end == Unescaped(s, pos + 1, DoubleQuote, FALSE)
            IN <<Text(convertEscapes(SubSeq(s, pos + 1, end - 1)))>> \o Elements(s, end + 2)
      [] pos <= Len(s) /\ s[pos] = "{" ->
            LET end == ClosingBrace(s, pos + 1, 1, FALSE, FALSE)
            IN <<parseArray(SubSeq(s, pos, end))>> \o Elements(s, end + 2)
      [] OTHER ->
            LET end == Unescaped(s, pos + 1, ",", FALSE)
            IN <<Text(convertEscapes(SubSeq(s, pos, end - 1)))>> \o Elements(s, end + 1)
parseArray(s) == Array(Elements(SubSeq(s, 2, Len(s) - 1), 1))

\* handleArray on an array of texts: the text NULL, quoted or not, is None.
RECURSIVE handleArray(_)
handleArray(a) ==
    LET Item(x) == CASE x.kind = "array" -> handleArray(x)
                     [] x.kind = "text" /\ x.text = NULL -> Null
                     [] OTHER -> x
    IN Array([i \in DOMAIN a.items |-> Item(a.items[i])])
------------------------------------------------------------------------------
SendArray == call = Idle /\ \E a \in Arrays, std \in BOOLEAN :
    Returns([fn |-> "send", array |-> a, std |-> std], {_handleArray(a, std)})
ReceiveArray == call = Idle /\ \E a \in Arrays :
    Returns([fn |-> "receive", array |-> a], {handleArray(parseArray(ServerWrites(a)))})

\* The calls of Values, and those on arrays.
ArrayNext == Next \/ SendArray \/ ReceiveArray
ArraySpec == Init /\ [][ArrayNext]_vars
------------------------------------------------------------------------------
\* An array arrives at the server with the items it had, every text quoted,
\* and one the server writes is read back with its items, except that the text
\* NULL becomes None.
RECURSIVE Spelled(_)
Spelled(x) == CASE x.kind = "null" -> NULL
                [] x.kind = "text" -> <<DoubleQuote>> \o ForArray(x.text) \o <<DoubleQuote>>
                [] OTHER -> <<"{">> \o FlattenSeq([i \in DOMAIN x.items |->
                                (IF i = 1 THEN <<>> ELSE <<",">>) \o Spelled(x.items[i])]) \o <<"}">>
RECURSIVE SameItems(_, _)
SameItems(sent, got) ==
    CASE sent.kind = "array" -> /\ got.kind = "array" /\ DOMAIN got.items = DOMAIN sent.items
                                /\ \A i \in DOMAIN sent.items : SameItems(sent.items[i], got.items[i])
      [] sent.kind = "text" /\ sent.text # NULL -> got = sent
      [] OTHER -> got = Null
ArraysReadBack ==
    /\ call.fn = "send" => \A o \in outcome : ReadLiteral(o, call.std) = Spelled(call.array)
    /\ call.fn = "receive" => \A o \in outcome : SameItems(call.array, o)
================================================================================
