------------------------------- MODULE MCValues -------------------------------
(* The value types on small machine integers, and the texts and numbers that *)
(* are given to them.                                                        *)
EXTENDS ArrayText

MCOperands ==
    {Int2(n) : n \in MachineInt(SHORT_BIT)} \cup {Int8(n) : n \in MachineInt(LONG_LONG_BIT)}
    \cup {Value("int", n) : n \in {-32, -5, -1, 0, 1, 3, 4, 9, 31}}
    \cup {Value("long", n) : n \in {-33, -2, 0, 5, 32}}
MCBases == MachineInt(LONG_LONG_BIT)
MCExponents == -1..31
MCModuli == {-20, -4, -3, -1, 0, 1, 2, 3, 5, 20}

MCLiterals10 ==
    {sign \o digits \o tail :
        sign \in {<<>>, <<"-">>, <<" ", "-">>, <<"+">>},
        digits \in UNION {[1..n -> {"0", "1", "2", "3", "4", "9"}] : n \in 0..3},
        tail \in {<<>>, <<" ">>}}
    \cup {<<"1", "x">>, <<"x">>, <<"-", "-", "1">>, <<"0", "x", "1">>}
MCAmounts ==
    {o \o <<"$">> \o n \o c :
        o \in {<<>>, <<"-">>, <<"(">>},
        n \in {<<"0", ".", "5">>, <<"7">>, <<"1", ",", "2", ".", "3">>, <<"9", ",", "8", ",", "7">>},
        c \in {<<>>, <<")">>}}
MCBooleanTexts ==
    {<<>>} \cup {<<w>> : w \in {"t", "true", "TRUE", "NO", "tru", "f", "false", "1", "0", "yes", "on", "off", "of", "n"}}
    \cup {<<"t", "x">>, <<"x", "t">>}
MCVersionTexts ==
    {M \o m \o p \o v :
        M \in {<<"7">>, <<"1", "0">>},
        m \in {<<>>, <<".", "1">>, <<".", "9", "9">>, <<".", "0", "1", "0">>, <<".", "1", "0", "0">>},
        p \in {<<>>, <<".", "0">>, <<".", "4">>},
        v \in {<<>>, <<"b", "2">>, <<"-", "v", ".", "3">>}}
    \cup {<<"-">>, <<"b">>, <<"0", "8">>}
MCVersionNumbers == {0, 7, 99, 100, 9999, 10000, 70100, 70103, 80205, 90624, 100010, 999999}
MCStrings == UNION {[1..n -> {"a", "'", "\\", "\"", "NUL"}] : n \in 0..4}
MCTexts == {Text(s) : s \in UNION {[1..n -> {"a", "\\", "\"", ",", "}", "'"}] : n \in 0..2}}
              \cup {Text(NULL), Null}
MCItems == MCTexts \cup {Array(<<t>>) : t \in MCTexts}
              \cup {Array(<<Text(<<"{">>), t>>) : t \in MCTexts}
MCArrays ==
    {Array(<<i>>) : i \in MCItems}
    \cup {Array(<<i, j>>) : i \in MCItems, j \in {Text(<<"a">>), Text(<<>>), Array(<<Text(<<"\"">>)>>)}}
    \cup {Array(<<Text(<<"a">>), j>>) : j \in MCItems}
\* Numbers in the middle, and at and beyond the limits of their precision.
MCNumerics ==
    {x \in {Numeric(v, p, s) : v \in -5..5 \cup {15, 16, -15, -16, -17, 63, 64, -63, -64, -65},
                              p \in 0..3, s \in 0..2} :
        x \in NumericType}
==============================================================================
