----------------------------- MODULE LargeObject -----------------------------
(***************************************************************************)
(* The read-ahead buffer of a PgLargeObject (pglargeobject.c) between its  *)
(* caller and the large object on the server.  The descriptor works, as it *)
(* does inside one transaction: LOSession is about the others.  lo_dirty   *)
(* is never set, so lo_flush does nothing wherever it is called.           *)
(***************************************************************************)
EXTENDS Integers, Sequences, SequencesExt

CONSTANTS
    MAX_BUFFER_SIZE,   \* the size of lo_buf
    Bytes,             \* the bytes that occur; those from 128 on, which lo_getch takes
                       \* for negative chars and so for an end, are left out
    MaxLen,            \* a bound on the length of the large object
    Sizes,             \* arguments of read, readline and readlines
    Offsets,           \* offsets given to seek
    Whences,           \* values of whence given to seek
    Holes              \* whether a write may begin past the end

ASSUME LargeObjectAssumption ==
    /\ MAX_BUFFER_SIZE \in Nat \ {0}
    /\ MaxLen \in Nat
    /\ Bytes \subseteq 1 .. 127
    /\ Sizes \subseteq Nat
    /\ Offsets \subseteq Int
    /\ Whences \subseteq {"SEEK_SET", "SEEK_CUR", "SEEK_END"}
    /\ Holes \in BOOLEAN

Rights == {"INV_READ", "INV_WRITE"}

VARIABLES
    contents,   \* server: the bytes of the large object
    lo,         \* the PgLargeObject, and the server's position of its descriptor
    call,       \* the latest call and its arguments
    result      \* what that call returned or raised

vars == <<contents, lo, call, result>>

\* Where the next byte is: past what was read of the buffer, or where the
\* descriptor is.
Current(h) == IF h.lo_offset # -1 THEN h.lo_offset + h.lo_idx ELSE h.lo_tell

\* What the caller is promised.
File == INSTANCE LOFile WITH
    pos <- IF lo.lo_fd < 0 THEN 0 ELSE Current(lo),
    mode <- lo.lo_mode

Returns(s) == result' = File!Value(s)
Raises(e) == result' = File!Raised(e)

-----------------------------------------------------------------------------
(* libpq: lo_tell is the position that lo_read, lo_write and lo_lseek move. *)

\* The bytes that lo_read gives for n bytes at p.
BytesAt(p, n) == File!Slice(contents, p, p + n)

\* The contents after lo_write of s at p.
Written(p, s) == File!Overwritten(contents, p, s)

\* Where lo_lseek moves the descriptor.
SeekTarget(off, whence) ==
    CASE whence = "SEEK_SET" -> off
      [] whence = "SEEK_CUR" -> lo.lo_tell + off
      [] whence = "SEEK_END" -> Len(contents) + off

-----------------------------------------------------------------------------
(* The buffer. *)

\* MAX_BUFFER_SIZE bytes from p on are read into the buffer.
Filled(h, p) ==
    LET b == BytesAt(p, MAX_BUFFER_SIZE)
    IN [h EXCEPT !.lo_offset = p, !.lo_buf = b, !.lo_size = Len(b), !.lo_idx = 0,
                 !.lo_tell = p + Len(b)]

\* Mutants: the buffer is given up, but for its index or its offset.
EmptiedKeepsIndex(h, p) == [h EXCEPT !.lo_offset = -1, !.lo_size = 0, !.lo_tell = p]
EmptiedKeepsOffset(h, p) == [h EXCEPT !.lo_size = 0, !.lo_idx = 0, !.lo_tell = p]

\* The buffer is given up; the descriptor is at p.
Emptied(h, p) ==
    [h EXCEPT !.lo_offset = -1, !.lo_size = 0, !.lo_idx = 0, !.lo_tell = p]

EOF == -1

\* lo_getch, called where the earlier calls left a: the object and the char
\* afterwards, and the bytes among the chars so far.
Getch(a) ==
    LET h == IF a.lo.lo_idx >= a.lo.lo_size THEN Filled(a.lo, a.lo.lo_tell) ELSE a.lo
        c == h.lo_buf[h.lo_idx + 1]
    IN IF h.lo_size = 0 THEN [a EXCEPT !.lo = h, !.c = EOF]
       ELSE [lo |-> [h EXCEPT !.lo_idx = @ + 1],
             c |-> c,
             text |-> IF c > 0 THEN Append(a.text, c) ELSE a.text]

\* What each of the first n calls of lo_getch leaves.
Getchs(n) ==
    LET After[k \in 0 .. n] ==
            IF k = 0 THEN [lo |-> lo, c |-> 0, text |-> <<>>] ELSE Getch(After[k - 1])
    IN After

-----------------------------------------------------------------------------

ClosedObject ==
    [lo_fd |-> -1, lo_mode |-> {}, lo_offset |-> 0, lo_size |-> -1,
     lo_idx |-> MAX_BUFFER_SIZE, lo_buf |-> <<>>, lo_tell |-> 0]

Init ==
    /\ contents \in BoundedSeq(Bytes, MaxLen)
    /\ lo = ClosedObject
    /\ call = File!NoCall
    /\ result = File!None

\* PgLargeObject_check for an object that must be open with the rights r.
Checks(r) == lo.lo_fd >= 0 /\ r \subseteq lo.lo_mode

Refused(r) == ~Checks(r) /\ Raises("InterfaceError") /\ UNCHANGED <<contents, lo>>

\* PgLo_open with a mode that stands for m; the strings and numbers that are no
\* mode stand for {}.
Open(m) ==
    \/ lo.lo_fd >= 0 /\ Raises("InterfaceError") /\ UNCHANGED <<contents, lo>>
    \/ lo.lo_fd < 0 /\ m = {} /\ Raises("ValueError") /\ UNCHANGED <<contents, lo>>
    \/ /\ lo.lo_fd < 0
       /\ m # {}
       /\ lo' = [lo EXCEPT !.lo_fd = 0, !.lo_mode = m, !.lo_idx = 0, !.lo_size = 0, !.lo_tell = 0]
       /\ Returns(<<>>)
       /\ UNCHANGED contents

Close ==
    \/ Refused({})
    \/ Checks({}) /\ lo' = ClosedObject /\ Returns(<<>>) /\ UNCHANGED contents

\* The bytes left in the buffer.
Remaining == IF lo.lo_offset # -1 THEN lo.lo_size - lo.lo_idx ELSE 0

\* read(n): out of the buffer when it has n bytes left, else from the server,
\* and then ahead unless that was a big read.
ReadBytes(h, n) ==
    IF n <= Remaining
    THEN /\ lo' = [h EXCEPT !.lo_idx = @ + n]
         /\ Returns(SubSeq(h.lo_buf, h.lo_idx + 1, h.lo_idx + n))
    ELSE LET b == BytesAt(Current(lo), n)
             p == Current(lo) + Len(b)
         IN /\ lo' = IF Len(b) < MAX_BUFFER_SIZE THEN Filled(h, p) ELSE Emptied(h, p)
            /\ Returns(b)

\* Mutant: read() asks for what is left.
UnreadExactly == Len(contents) - Current(lo)

\* read() asks for one byte more than are left, having moved the descriptor.
Unread == Len(contents) - Current(lo) + 1

\* Past the end there is no string to read into: the one of no bytes is shared
\* and cannot be resized (728), and none is of fewer.
PastEnd(size) == IF size = 0 THEN "SystemError" ELSE "MemoryError"

Read(n) ==
    \/ Refused({"INV_READ"})
    \/ /\ Checks({"INV_READ"})
       /\ UNCHANGED contents
       /\ \/ n > 0 /\ ReadBytes(lo, n)
          \/ /\ n = 0 /\ Unread > 0
             /\ ReadBytes([lo EXCEPT !.lo_tell = Current(lo)], Unread)
          \/ /\ n = 0 /\ Unread <= 0
             /\ lo' = [lo EXCEPT !.lo_tell = Current(lo)]
             /\ Raises(PastEnd(Unread))

\* The chars that end an unsized line: a newline, and those that are no byte of
\* it, which are the end of the object and a zero.
EndsLine(c) == c <= 0 \/ c = 10

\* readline() without a size; MaxLen + 1 calls are enough.
Readline ==
    \/ Refused({"INV_READ"})
    \/ /\ Checks({"INV_READ"})
       /\ LET after == Getchs(MaxLen + 1)
              k == Min({i \in 1 .. MaxLen + 1 : EndsLine(after[i].c)})
          IN lo' = after[k].lo /\ Returns(after[k].text)
       /\ UNCHANGED contents

\* readline(n) returns n bytes: what was read and whatever is in the memory that
\* was allocated for the rest.
ReadlineOf(n) ==
    \/ Refused({"INV_READ"})
    \/ /\ Checks({"INV_READ"})
       /\ LET after == Getchs(n)
              k == Min({n} \cup {i \in 1 .. n : after[i].c \in {EOF, 10}})
              m == IF after[k].c = EOF THEN k - 1 ELSE k
          IN /\ lo' = after[k].lo
             /\ \E rest \in [1 .. n - m -> Bytes] :
                   Returns([i \in 1 .. m |-> after[i].c] \o rest)
       /\ UNCHANGED contents

\* readlines(hint) calls readline() until it gives nothing, or all lines together
\* have more than hint bytes.  Its value here is the lines joined.
Readlines(hint) ==
    \/ Refused({"INV_READ"})
    \/ /\ Checks({"INV_READ"})
       /\ LET after == Getchs(MaxLen + 2)
              empty == {i \in 1 .. MaxLen + 2 :
                          after[i].c <= 0 /\ (i = 1 \/ EndsLine(after[i - 1].c))}
              enough == {i \in 1 .. MaxLen + 2 :
                          hint > 0 /\ EndsLine(after[i].c) /\ Len(after[i].text) > hint}
              k == Min(empty \cup enough)
          IN lo' = after[k].lo /\ Returns(after[k].text)
       /\ UNCHANGED contents

\* Mutant: a write keeps the buffer.
PositionedKeepsBuffer == [lo EXCEPT !.lo_tell = Current(lo)]

\* write and writelines: the descriptor is moved to where the caller is.
Positioned == IF lo.lo_offset # -1 THEN Emptied(lo, lo.lo_offset + lo.lo_idx) ELSE lo

Write(s) ==
    \/ Refused({"INV_WRITE"})
    \/ /\ Checks({"INV_WRITE"})
       /\ LET p == Positioned.lo_tell
          IN /\ p + Len(s) <= MaxLen          \* bound
             /\ Holes \/ p <= Len(contents)   \* bound
             /\ contents' = Written(p, s)
             /\ lo' = [Positioned EXCEPT !.lo_tell = p + Len(s)]
       /\ Returns(<<>>)

\* An offset in the buffer only moves lo_idx, whatever whence is.
Lseek(off, whence) ==
    \/ Refused({})
    \/ /\ Checks({})
       /\ IF lo.lo_offset # -1 /\ off >= lo.lo_offset /\ off < lo.lo_offset + lo.lo_size
          THEN lo' = [lo EXCEPT !.lo_idx = off - lo.lo_offset]
          ELSE /\ SeekTarget(off, whence) \in 0 .. MaxLen + 2   \* bound
               /\ lo' = Emptied(lo, SeekTarget(off, whence))
       /\ Returns(<<>>)
       /\ UNCHANGED contents

Tell ==
    \/ Refused({})
    \/ Checks({}) /\ Returns(<<Current(lo)>>) /\ UNCHANGED <<contents, lo>>

\* flush(), isatty() and fileno() want the right to write.
Attribute ==
    \/ Refused({"INV_WRITE"})
    \/ /\ Checks({"INV_WRITE"})
       /\ result' \in {File!None, File!Value(<<0>>)}
       /\ UNCHANGED <<contents, lo>>

Called(o, n, w, s) == call' = File!Call(o, n, w, s)

Next ==
    \/ \E m \in SUBSET Rights : Called("open", 0, "none", <<>>) /\ Open(m)
    \/ Called("close", 0, "none", <<>>) /\ Close
    \/ \E n \in Sizes : Called("read", n, "none", <<>>) /\ Read(n)
    \/ Called("readline", 0, "none", <<>>) /\ Readline
    \/ \E n \in Sizes \ {0} : Called("readline", n, "none", <<>>) /\ ReadlineOf(n)
    \/ \E n \in Sizes : Called("readlines", n, "none", <<>>) /\ Readlines(n)
    \/ \E s \in BoundedSeq(Bytes, 2) : Called("write", 0, "none", s) /\ Write(s)
    \/ \E n \in Offsets, w \in Whences : Called("seek", n, w, <<>>) /\ Lseek(n, w)
    \/ Called("tell", 0, "none", <<>>) /\ Tell
    \/ Called("attribute", 0, "none", <<>>) /\ Attribute

Spec == Init /\ [][Next]_vars

-----------------------------------------------------------------------------
(* Properties. *)

\* The types; an open object has a buffer that it uses within its bounds.
TypeOK ==
    /\ contents \in Seq(Bytes \cup {0})
    /\ lo.lo_fd \in {-1, 0}
    /\ lo.lo_mode \in SUBSET Rights
    /\ lo.lo_tell \in Nat /\ lo.lo_offset \in Nat \cup {-1}
    /\ lo.lo_fd >= 0 => /\ lo.lo_size \in 0 .. MAX_BUFFER_SIZE
                        /\ lo.lo_idx \in 0 .. lo.lo_size

\* While the buffer is in use the server's position is at its end: lo_getch
\* refills it from wherever the descriptor is, without seeking.
BufferAligned ==
    lo.lo_fd >= 0 /\ lo.lo_offset # -1 => lo.lo_tell = lo.lo_offset + lo.lo_size

\* The bytes of the buffer are the ones of the large object it stands for: a
\* write through the object never leaves a buffer behind that is out of date.
BufferCoherent ==
    lo.lo_fd >= 0 /\ lo.lo_offset # -1 =>
        SubSeq(lo.lo_buf, 1, lo.lo_size) = BytesAt(lo.lo_offset, lo.lo_size)

\* A PgLargeObject is a file with one position: no sequence of reads, lines,
\* writes and seeks shows that there is a buffer.
IsFile == File!Spec
=============================================================================
