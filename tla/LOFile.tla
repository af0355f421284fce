------------------------------- MODULE LOFile -------------------------------
(***************************************************************************)
(* A file of bytes with one current position: what an open PgLargeObject   *)
(* promises ("access to the LO using Python's File Object semantics").     *)
(* Nothing is said of buffers or of the server's own position.             *)
(***************************************************************************)
EXTENDS Integers, Sequences

VARIABLES
    contents,   \* the bytes of the large object
    pos,        \* where the next byte is read or written
    mode,       \* the rights it is open with, {} when it is closed
    call,       \* the latest call and its arguments
    result      \* what that call returned or raised

vars == <<contents, pos, mode, call, result>>

Newline == 10

Greatest(a, b) == IF a >= b THEN a ELSE b
Least(a, b) == IF a <= b THEN a ELSE b

\* A call: number, whence and text are what it was given, if it takes them.
Call(o, n, w, s) == [op |-> o, number |-> n, whence |-> w, text |-> s]
NoCall == Call("none", 0, "none", <<>>)

Value(s) == [exc |-> "none", value |-> s]
None == Value(<<>>)
Raised(e) == [exc |-> e, value |-> <<>>]

\* The bytes of c from offset a up to offset b.
Slice(c, a, b) == SubSeq(c, a + 1, Least(b, Len(c)))

\* c after s was written over it at offset p; a gap is filled with zeros.
Overwritten(c, p, s) ==
    IF s = <<>> THEN c
    ELSE [i \in 1 .. Greatest(Len(c), p + Len(s)) |->
             IF p < i /\ i <= p + Len(s) THEN s[i - p] ELSE IF i <= Len(c) THEN c[i] ELSE 0]

\* The offsets after p at which a line ends.
LineEnds(p) == {e \in p + 1 .. Len(contents) : contents[e] = Newline \/ e = Len(contents)}

\* The first offset of S, or p when there is none.
FirstOr(S, p) == IF S = {} THEN p ELSE CHOOSE e \in S : \A f \in S : e <= f

-----------------------------------------------------------------------------

Init ==
    /\ contents \in Seq(Int)
    /\ pos = 0
    /\ mode = {}
    /\ call = NoCall
    /\ result = None

Open ==
    /\ mode = {}
    /\ mode' # {}
    /\ pos' = 0
    /\ result' = None
    /\ UNCHANGED contents

Close ==
    /\ mode # {}
    /\ mode' = {}
    /\ pos' = 0
    /\ result' = None
    /\ UNCHANGED contents

\* The bytes up to e are handed out.
ReadTo(e) ==
    /\ "INV_READ" \in mode
    /\ pos' = e
    /\ result' = Value(Slice(contents, pos, e))
    /\ UNCHANGED <<contents, mode>>

Read(n) == ReadTo(Greatest(pos, Least(pos + n, Len(contents))))
ReadAll == pos <= Len(contents) /\ ReadTo(Len(contents))
ReadLine == ReadTo(FirstOr(LineEnds(pos), pos))

\* A line of at most n bytes, filled up with anything to n bytes.
ReadLineOf(n) ==
    /\ "INV_READ" \in mode
    /\ pos' = Least(pos + n, FirstOr(LineEnds(pos), pos))
    /\ result'.exc = "none"
    /\ Len(result'.value) = n
    /\ SubSeq(result'.value, 1, pos' - pos) = Slice(contents, pos, pos')
    /\ UNCHANGED <<contents, mode>>

\* Whole lines, of more than hint bytes together if there are as many.
ReadLines(hint) ==
    LET enough == {e \in LineEnds(pos) : hint > 0 /\ e - pos > hint}
    IN ReadTo(FirstOr(enough, Greatest(pos, Len(contents))))

Write(s) ==
    /\ "INV_WRITE" \in mode
    /\ contents' = Overwritten(contents, pos, s)
    /\ pos' = pos + Len(s)
    /\ result' = None
    /\ UNCHANGED mode

\* fseek()
SeekTarget(off, whence) ==
    CASE whence = "SEEK_SET" -> off
      [] whence = "SEEK_CUR" -> pos + off
      [] whence = "SEEK_END" -> Len(contents) + off

Seek(off, whence) ==
    /\ mode # {}
    /\ pos' = SeekTarget(off, whence)
    /\ result' = None
    /\ UNCHANGED <<contents, mode>>

Tell ==
    /\ mode # {}
    /\ result' = Value(<<pos>>)
    /\ UNCHANGED <<contents, pos, mode>>

\* A call that is refused: the file does not allow it, or it reads past the end.
Refuse(rights) ==
    /\ mode = {} \/ ~(rights \subseteq mode)
    /\ result' = Raised("InterfaceError")
    /\ UNCHANGED <<contents, pos, mode>>

RefuseOpen ==
    /\ result'.exc \in {"InterfaceError", "ValueError"}
    /\ UNCHANGED <<contents, pos, mode>>

\* read() of all past the end raises, instead of giving nothing.
RefusePastEnd ==
    /\ pos > Len(contents)
    /\ result' = Raised(IF pos = Len(contents) + 1 THEN "SystemError" ELSE "MemoryError")
    /\ UNCHANGED <<contents, pos, mode>>

Answer ==
    /\ mode # {}
    /\ result' \in {None, Value(<<0>>)}
    /\ UNCHANGED <<contents, pos, mode>>

\* Every call does what it is asked for, or is refused for a reason.
Next ==
    \/ call'.op = "open" /\ (Open \/ RefuseOpen)
    \/ call'.op = "close" /\ (Close \/ Refuse({}))
    \/ /\ call'.op \in {"read", "readline", "readlines"}
       /\ \/ call'.op = "read" /\ call'.number > 0 /\ Read(call'.number)
          \/ call'.op = "read" /\ call'.number = 0 /\ (ReadAll \/ RefusePastEnd)
          \/ call'.op = "readline" /\ call'.number > 0 /\ ReadLineOf(call'.number)
          \/ call'.op = "readline" /\ call'.number = 0 /\ ReadLine
          \/ call'.op = "readlines" /\ ReadLines(call'.number)
          \/ Refuse({"INV_READ"})
    \/ call'.op = "write" /\ (Write(call'.text) \/ Refuse({"INV_WRITE"}))
    \/ call'.op = "seek" /\ (Seek(call'.number, call'.whence) \/ Refuse({}))
    \/ call'.op = "tell" /\ (Tell \/ Refuse({}))
    \/ call'.op = "attribute" /\ (Answer \/ Refuse({"INV_WRITE"}))

Spec == Init /\ [][Next]_vars

=============================================================================
