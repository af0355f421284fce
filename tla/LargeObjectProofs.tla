-------------------------- MODULE LargeObjectProofs --------------------------
(***************************************************************************)
(* Theorems about LargeObject, for every size of the buffer and of the     *)
(* large object: the buffer stays in step with the descriptor and with the *)
(* bytes on the server, and an object without holes on which seek() is     *)
(* given absolute offsets implements the file of LOFile.                   *)
(***************************************************************************)
EXTENDS LargeObject, SequenceTheorems, WellFoundedInduction, TLAPS

Byte == Bytes \cup {0}

Object ==
    [lo_fd : {-1, 0}, lo_mode : SUBSET Rights, lo_offset : Nat \cup {-1}, lo_size : Int,
     lo_idx : Nat, lo_buf : Seq(Byte), lo_tell : Nat]

\* The buffer of h holds the lo_size bytes from lo_offset on, and the descriptor
\* is behind them.
InStep(h) ==
    /\ h.lo_size \in 0 .. MAX_BUFFER_SIZE
    /\ h.lo_idx \in 0 .. h.lo_size
    /\ h.lo_offset = -1 => h.lo_size = 0
    /\ h.lo_offset # -1 => h.lo_tell = h.lo_offset + h.lo_size
    /\ h.lo_size > 0 => h.lo_offset + h.lo_size <= Len(contents)
    /\ h.lo_size <= Len(h.lo_buf)
    /\ \A i \in 1 .. h.lo_size : h.lo_buf[i] = contents[h.lo_offset + i]

Typed ==
    /\ contents \in Seq(Byte)
    /\ Len(contents) <= MaxLen

\* The inductive invariant.
Sound ==
    /\ Typed
    /\ lo \in Object
    /\ lo.lo_fd < 0 => lo = ClosedObject
    /\ lo.lo_fd >= 0 => lo.lo_mode # {} /\ InStep(lo)

-----------------------------------------------------------------------------
(* Pieces of the contents. *)

LEMMA SliceIs ==
    ASSUME NEW S, NEW c \in Seq(S), NEW a \in Nat, NEW b \in Nat
    PROVE  /\ File!Slice(c, a, b) \in Seq(S)
           /\ Len(File!Slice(c, a, b)) =
                  IF a < File!Least(b, Len(c)) THEN File!Least(b, Len(c)) - a ELSE 0
           /\ \A i \in 1 .. Len(File!Slice(c, a, b)) : File!Slice(c, a, b)[i] = c[a + i]
<1> DEFINE e == File!Least(b, Len(c))
<1>1. e \in Nat /\ e <= Len(c)
  BY LenProperties DEF File!Least
<1>2. a + 1 \in 1 .. Len(c) + 1 \/ a + 1 > e
  BY <1>1, LenProperties
<1> HIDE DEF e
<1>3. /\ SubSeq(c, a + 1, e) \in Seq(S)
      /\ Len(SubSeq(c, a + 1, e)) = IF a < e THEN e - a ELSE 0
      /\ \A i \in 1 .. Len(SubSeq(c, a + 1, e)) : SubSeq(c, a + 1, e)[i] = c[a + i]
  BY <1>1, <1>2, LenProperties, SubSeqProperties
<1> QED BY <1>3 DEF File!Slice, e

\* Filling the buffer at p, wherever h was.
LEMMA FilledInStep ==
    ASSUME Typed, NEW h \in Object, NEW p \in Nat
    PROVE  /\ Filled(h, p) \in Object
           /\ InStep(Filled(h, p))
           /\ Current(Filled(h, p)) = p
           /\ Filled(h, p).lo_idx = 0
           /\ Filled(h, p).lo_fd = h.lo_fd
           /\ Filled(h, p).lo_mode = h.lo_mode
           /\ Filled(h, p).lo_size = 0 <=> p >= Len(contents)
<1> DEFINE b == BytesAt(p, MAX_BUFFER_SIZE)
           r == Filled(h, p)
<1>1. /\ b \in Seq(Byte)
      /\ Len(b) = IF p < File!Least(p + MAX_BUFFER_SIZE, Len(contents))
                  THEN File!Least(p + MAX_BUFFER_SIZE, Len(contents)) - p ELSE 0
      /\ \A i \in 1 .. Len(b) : b[i] = contents[p + i]
  <2>1. p + MAX_BUFFER_SIZE \in Nat /\ contents \in Seq(Byte)
    BY LargeObjectAssumption DEF Typed
  <2> QED BY <2>1, SliceIs DEF BytesAt
<1>2. /\ Len(b) \in 0 .. MAX_BUFFER_SIZE
      /\ Len(b) > 0 => p + Len(b) <= Len(contents)
      /\ Len(b) = 0 <=> p >= Len(contents)
  <2> HIDE DEF b
  <2> QED BY <1>1, LargeObjectAssumption, LenProperties DEF Typed, File!Least
<1>3. r = [h EXCEPT !.lo_offset = p, !.lo_buf = b, !.lo_size = Len(b), !.lo_idx = 0,
                    !.lo_tell = p + Len(b)]
  BY DEF Filled
<1> HIDE DEF b, r
<1>4. /\ r.lo_offset = p /\ r.lo_buf = b /\ r.lo_size = Len(b) /\ r.lo_idx = 0
      /\ r.lo_tell = p + Len(b) /\ r.lo_fd = h.lo_fd /\ r.lo_mode = h.lo_mode
      /\ r \in Object
  <2>1. h = [lo_fd |-> h.lo_fd, lo_mode |-> h.lo_mode, lo_offset |-> h.lo_offset,
             lo_size |-> h.lo_size, lo_idx |-> h.lo_idx, lo_buf |-> h.lo_buf,
             lo_tell |-> h.lo_tell]
        /\ h.lo_fd \in {-1, 0} /\ h.lo_mode \in SUBSET Rights
    BY DEF Object
  <2>2. r = [lo_fd |-> h.lo_fd, lo_mode |-> h.lo_mode, lo_offset |-> p,
             lo_size |-> Len(b), lo_idx |-> 0, lo_buf |-> b, lo_tell |-> p + Len(b)]
    BY <1>3, <2>1
  <2>3. Len(b) \in Nat
    BY <1>1, LenProperties
  <2>4. p + Len(b) \in Nat /\ Len(b) \in Int
    BY <2>3
  <2>5. r \in Object
    BY <1>1, <2>1, <2>2, <2>4 DEF Object
  <2> QED BY <2>2, <2>5
<1>5. InStep(r)
  BY <1>1, <1>2, <1>4, LargeObjectAssumption DEF InStep
<1>6. Current(r) = p
  BY <1>4 DEF Current
<1> QED BY <1>2, <1>4, <1>5, <1>6 DEF r

LEMMA EmptiedInStep ==
    ASSUME NEW h \in Object, NEW p \in Nat
    PROVE  /\ Emptied(h, p) \in Object
           /\ InStep(Emptied(h, p))
           /\ Current(Emptied(h, p)) = p
           /\ Emptied(h, p).lo_tell = p
           /\ Emptied(h, p).lo_offset = -1
           /\ Emptied(h, p).lo_fd = h.lo_fd
           /\ Emptied(h, p).lo_mode = h.lo_mode
<1> DEFINE r == Emptied(h, p)
<1>1. r = [h EXCEPT !.lo_offset = -1, !.lo_size = 0, !.lo_idx = 0, !.lo_tell = p]
  BY DEF Emptied
<1> HIDE DEF r
<1>2. /\ r.lo_offset = -1 /\ r.lo_buf = h.lo_buf /\ r.lo_size = 0 /\ r.lo_idx = 0
      /\ r.lo_tell = p /\ r.lo_fd = h.lo_fd /\ r.lo_mode = h.lo_mode
      /\ r \in Object
  <2>1. r = [lo_fd |-> h.lo_fd, lo_mode |-> h.lo_mode, lo_offset |-> -1,
             lo_size |-> 0, lo_idx |-> 0, lo_buf |-> h.lo_buf, lo_tell |-> p]
    BY <1>1 DEF Object
  <2>2. h.lo_fd \in {-1, 0} /\ h.lo_mode \in SUBSET Rights /\ h.lo_buf \in Seq(Byte)
    BY DEF Object
  <2>3. r \in Object
    BY <2>1, <2>2 DEF Object
  <2> QED BY <2>1, <2>3
<1>3. Len(h.lo_buf) \in Nat
  BY LenProperties DEF Object
<1>4. InStep(r)
  BY <1>2, <1>3, LargeObjectAssumption DEF InStep
<1>5. Current(r) = p
  BY <1>2 DEF Current
<1> QED BY <1>2, <1>4, <1>5 DEF r

\* Moving the index only.
Advanced(h, n) == [h EXCEPT !.lo_idx = @ + n]

LEMMA IndexMoved ==
    ASSUME NEW h \in Object, NEW n \in Nat
    PROVE  LET m == Advanced(h, n)
           IN  /\ m \in Object
               /\ m.lo_idx = h.lo_idx + n /\ m.lo_offset = h.lo_offset
               /\ m.lo_size = h.lo_size /\ m.lo_buf = h.lo_buf /\ m.lo_tell = h.lo_tell
               /\ m.lo_fd = h.lo_fd /\ m.lo_mode = h.lo_mode
<1> DEFINE m == Advanced(h, n)
<1>1. /\ h.lo_fd \in {-1, 0} /\ h.lo_mode \in SUBSET Rights /\ h.lo_buf \in Seq(Byte)
      /\ h.lo_offset \in Nat \cup {-1} /\ h.lo_size \in Int /\ h.lo_idx \in Nat
      /\ h.lo_tell \in Nat
  BY DEF Object
<1>2. m = [lo_fd |-> h.lo_fd, lo_mode |-> h.lo_mode, lo_offset |-> h.lo_offset,
           lo_size |-> h.lo_size, lo_idx |-> h.lo_idx + n, lo_buf |-> h.lo_buf,
           lo_tell |-> h.lo_tell]
  BY DEF Object, Advanced
<1>3. h.lo_idx + n \in Nat
  BY <1>1
<1> HIDE DEF m
<1>4. m \in Object
  BY <1>1, <1>2, <1>3 DEF Object
<1>5. /\ m.lo_idx = h.lo_idx + n /\ m.lo_offset = h.lo_offset
      /\ m.lo_size = h.lo_size /\ m.lo_buf = h.lo_buf /\ m.lo_tell = h.lo_tell
      /\ m.lo_fd = h.lo_fd /\ m.lo_mode = h.lo_mode
  BY <1>2
<1> QED BY <1>4, <1>5 DEF m

-----------------------------------------------------------------------------
(* lo_getch. *)

LEMMA CurrentType ==
    ASSUME NEW h \in Object, InStep(h)
    PROVE  Current(h) \in Nat
BY DEF Object, InStep, Current

\* One call: the next byte, or the end.
LEMMA GetchStep ==
    ASSUME Typed, NEW a, a.lo \in Object, InStep(a.lo), 
           a = [lo |-> a.lo, c |-> a.c, text |-> a.text]
    PROVE  LET p == Current(a.lo)
               b == Getch(a)
           IN  /\ b = [lo |-> b.lo, c |-> b.c, text |-> b.text]
               /\ b.lo \in Object /\ InStep(b.lo)
               /\ b.lo.lo_fd = a.lo.lo_fd /\ b.lo.lo_mode = a.lo.lo_mode
               /\ p < Len(contents) => /\ Current(b.lo) = p + 1
                                       /\ b.c = contents[p + 1]
                                       /\ b.text = IF b.c > 0 THEN Append(a.text, b.c)
                                                   ELSE a.text
               /\ p >= Len(contents) => /\ Current(b.lo) = p
                                        /\ b.c = EOF
                                        /\ b.text = a.text
<1> DEFINE p == Current(a.lo)
           h == IF a.lo.lo_idx >= a.lo.lo_size THEN Filled(a.lo, a.lo.lo_tell) ELSE a.lo
           c == h.lo_buf[h.lo_idx + 1]
           b == Getch(a)
<1>1. p \in Nat
  BY CurrentType
<1>2. /\ h \in Object /\ InStep(h) /\ Current(h) = p
      /\ h.lo_fd = a.lo.lo_fd /\ h.lo_mode = a.lo.lo_mode
      /\ h.lo_size = 0 <=> p >= Len(contents)
      /\ h.lo_size # 0 => h.lo_idx < h.lo_size
  <2>1. CASE a.lo.lo_idx >= a.lo.lo_size
    <3>1. a.lo.lo_tell \in Nat /\ a.lo.lo_tell = p
      BY <2>1 DEF Object, InStep, Current
    <3>2. h = Filled(a.lo, a.lo.lo_tell)
      BY <2>1
    <3>3. /\ h \in Object /\ InStep(h) /\ Current(h) = p /\ h.lo_idx = 0
          /\ h.lo_fd = a.lo.lo_fd /\ h.lo_mode = a.lo.lo_mode
          /\ h.lo_size = 0 <=> p >= Len(contents)
      <4> HIDE DEF h, p
      <4> QED BY <3>1, <3>2, FilledInStep
    <3>4. h.lo_size # 0 => h.lo_idx < h.lo_size
      <4> HIDE DEF h
      <4> QED BY <3>3, LargeObjectAssumption DEF InStep
    <3> QED BY <3>3, <3>4
  <2>2. CASE ~(a.lo.lo_idx >= a.lo.lo_size)
    <3>1. h = a.lo
      BY <2>2
    <3>2. a.lo.lo_idx < a.lo.lo_size /\ a.lo.lo_size # 0 /\ p < Len(contents)
      BY <2>2, LargeObjectAssumption, LenProperties DEF Typed, Object, InStep, Current
    <3>3. Len(contents) \in Nat
      BY LenProperties DEF Typed
    <3> HIDE DEF h, p
    <3>4. h.lo_size = 0 <=> p >= Len(contents)
      BY <1>1, <3>1, <3>2, <3>3
    <3>5. Current(h) = p
      BY <3>1 DEF p
    <3> QED BY <3>1, <3>2, <3>4, <3>5
  <2> QED BY <2>1, <2>2
<1>3. b = IF h.lo_size = 0 THEN [a EXCEPT !.lo = h, !.c = EOF]
          ELSE [lo |-> Advanced(h, 1), c |-> c,
                text |-> IF c > 0 THEN Append(a.text, c) ELSE a.text]
  BY DEF Getch, Advanced
<1>4. Len(contents) \in Nat
  BY LenProperties DEF Typed
<1>5. CASE h.lo_size = 0
  <2>1. p >= Len(contents) /\ ~(p < Len(contents))
    <3> HIDE DEF h, p
    <3> QED BY <1>1, <1>2, <1>4, <1>5
  <2>2. b.lo = h /\ b.c = EOF /\ b.text = a.text
        /\ b = [lo |-> b.lo, c |-> b.c, text |-> b.text]
    <3> HIDE DEF h, b
    <3> QED BY <1>3, <1>5
  <2> HIDE DEF h, b, p
  <2>3. b.lo \in Object /\ InStep(b.lo) /\ Current(b.lo) = p
        /\ b.lo.lo_fd = a.lo.lo_fd /\ b.lo.lo_mode = a.lo.lo_mode
    BY <1>2, <2>2
  <2> USE DEF b, p
  <2> QED BY <2>1, <2>2, <2>3
<1>6. CASE h.lo_size # 0
  <2> DEFINE m == Advanced(h, 1)
  <2> HIDE DEF b, c, h, p
  <2>1. p < Len(contents) /\ ~(p >= Len(contents))
    BY <1>1, <1>2, <1>4, <1>6
  <2>2. b.lo = m /\ b.c = c /\ b.text = (IF c > 0 THEN Append(a.text, c) ELSE a.text)
        /\ b = [lo |-> b.lo, c |-> b.c, text |-> b.text]
    BY <1>3, <1>6
  <2>3. h.lo_size > 0 /\ h.lo_idx < h.lo_size /\ h.lo_idx \in Nat /\ h.lo_offset \in Nat
        /\ h.lo_size \in Nat
    <3>1. h.lo_size \in Int /\ h.lo_idx \in Nat /\ h.lo_offset \in Nat \cup {-1}
      BY <1>2 DEF Object
    <3>2. h.lo_size >= 0 /\ (h.lo_offset = -1 => h.lo_size = 0)
      BY <1>2, LargeObjectAssumption DEF InStep
    <3>3. h.lo_idx < h.lo_size
      BY <1>2, <1>6
    <3> QED BY <1>6, <3>1, <3>2, <3>3
  <2>4. /\ m \in Object
        /\ m.lo_idx = h.lo_idx + 1 /\ m.lo_offset = h.lo_offset /\ m.lo_size = h.lo_size
        /\ m.lo_buf = h.lo_buf /\ m.lo_tell = h.lo_tell
        /\ m.lo_fd = h.lo_fd /\ m.lo_mode = h.lo_mode
    <3>1. h \in Object /\ 1 \in Nat
      BY <1>2
    <3> QED BY ONLY <3>1, IndexMoved DEF m
  <2> HIDE DEF m
  <2>5. InStep(m)
    <3>1. m.lo_idx \in 0 .. m.lo_size
      BY <2>3, <2>4
    <3> QED BY <1>2, <2>3, <2>4, <3>1 DEF InStep
  <2>6. Current(m) = p + 1
    BY <1>2, <2>3, <2>4 DEF Current
  <2>7. c = contents[p + 1]
    <3>1. p = h.lo_offset + h.lo_idx
      BY <1>2, <2>3 DEF Current
    <3>2. h.lo_idx + 1 \in 1 .. h.lo_size
      BY <2>3
    <3>3. c = contents[h.lo_offset + (h.lo_idx + 1)]
      BY <1>2, <3>2 DEF InStep, c
    <3>4. h.lo_offset + (h.lo_idx + 1) = p + 1
      BY <2>3, <3>1
    <3> QED BY <3>3, <3>4
  <2>8. /\ b.lo \in Object /\ InStep(b.lo) /\ Current(b.lo) = p + 1
        /\ b.lo.lo_fd = a.lo.lo_fd /\ b.lo.lo_mode = a.lo.lo_mode
    BY <1>2, <2>2, <2>4, <2>5, <2>6
  <2> USE DEF b, p
  <2> QED BY <2>1, <2>2, <2>7, <2>8
<1> QED BY <1>5, <1>6

-----------------------------------------------------------------------------
(* A run of calls of lo_getch. *)

\* The least element of a set of naturals.
LEMMA MinIs ==
    ASSUME NEW S \in SUBSET Nat, S # {}
    PROVE  Min(S) \in S /\ \A y \in S : Min(S) <= y
<1> DEFINE Below == {p \in Nat \X Nat : p[1] < p[2]}
<1>1. IsWellFoundedOn(Below, Nat)
  BY NatLessThanWellFounded DEF OpToRel
<1>2. PICK x \in S : \A y \in S : ~(<<y, x>> \in Below)
  <2> HIDE DEF Below
  <2> QED BY <1>1, WFMin
<1>3. ASSUME NEW y \in S
      PROVE  ~(y < x)
  <2>1. ~(<<y, x>> \in Below)
    BY <1>2
  <2>2. <<y, x>> \in Nat \X Nat /\ <<y, x>>[1] = y /\ <<y, x>>[2] = x
    OBVIOUS
  <2> QED BY <2>1, <2>2
<1>4. \A y \in S : x <= y
  BY <1>3
<1> QED BY <1>4 DEF Min

Start == [lo |-> lo, c |-> 0, text |-> <<>>]
IsRun(f, n) == f = [k \in 0 .. n |-> IF k = 0 THEN Start ELSE Getch(f[k - 1])]

LEMMA RunExists ==
    ASSUME NEW n \in Nat
    PROVE  \E f : IsRun(f, n)
<1> DEFINE Without == {m \in Nat : ~\E f : IsRun(f, m)}
<1> SUFFICES ASSUME Without # {}
             PROVE  FALSE
  OBVIOUS
<1>1. PICK m \in Without : \A j \in Without : m <= j
  <2>1. Without \in SUBSET Nat
    OBVIOUS
  <2> HIDE DEF Without
  <2> QED BY <2>1, MinIs
<1>2. CASE m = 0
  <2>1. IsRun([k \in 0 .. 0 |-> Start], 0)
    BY DEF IsRun
  <2> QED BY <1>2, <2>1
<1>3. CASE m # 0
  <2>1. m - 1 \in Nat /\ ~(m - 1 \in Without)
    BY <1>1, <1>3
  <2>2. PICK f : IsRun(f, m - 1)
    BY <2>1
  <2> DEFINE g == [k \in 0 .. m |-> IF k = 0 THEN Start ELSE Getch(f[k - 1])]
  <2>3. \A k \in 1 .. m : k - 1 \in 0 .. m - 1 /\ g[k - 1] = f[k - 1]
    <3> SUFFICES ASSUME NEW k \in 1 .. m
                 PROVE  k - 1 \in 0 .. m - 1 /\ g[k - 1] = f[k - 1]
      OBVIOUS
    <3> DEFINE j == k - 1
    <3>1. j \in 0 .. m - 1 /\ j \in 0 .. m
      BY <2>1
    <3> HIDE DEF j
    <3>2. f[j] = IF j = 0 THEN Start ELSE Getch(f[j - 1])
      <4>1. f = [i \in 0 .. m - 1 |-> IF i = 0 THEN Start ELSE Getch(f[i - 1])]
        BY <2>2 DEF IsRun
      <4> QED BY <3>1, <4>1
    <3>3. g[j] = f[j]
      BY <3>1, <3>2
    <3> QED BY <3>1, <3>3 DEF j
  <2>4. g = [k \in 0 .. m |-> IF k = 0 THEN Start ELSE Getch(g[k - 1])]
    <3> DEFINE e(k) == IF k = 0 THEN Start ELSE Getch(f[k - 1])
               d(k) == IF k = 0 THEN Start ELSE Getch(g[k - 1])
    <3>1. \A k \in 0 .. m : e(k) = d(k)
      <4> SUFFICES ASSUME NEW k \in 0 .. m
                   PROVE  e(k) = d(k)
        OBVIOUS
      <4>1. CASE k = 0
        BY <4>1
      <4>2. CASE k # 0
        <5>1. k \in 1 .. m
          BY <4>2
        <5>2. g[k - 1] = f[k - 1]
          BY <2>3, <5>1
        <5> HIDE DEF g
        <5> QED BY <4>2, <5>2
      <4> QED BY <4>1, <4>2
    <3>2. g = [k \in 0 .. m |-> e(k)]
      OBVIOUS
    <3> HIDE DEF e, d, g
    <3>3. g = [k \in 0 .. m |-> d(k)]
      BY <3>1, <3>2
    <3> QED BY <3>3 DEF d
  <2>5. IsRun(g, m)
    <3> HIDE DEF g
    <3> QED BY <2>4 DEF IsRun
  <2> QED BY <2>5
<1> QED BY <1>2, <1>3

LEMMA GetchsIsRun ==
    ASSUME NEW n \in Nat
    PROVE  IsRun(Getchs(n), n)
<1>1. \E f : f = [k \in 0 .. n |-> IF k = 0 THEN Start ELSE Getch(f[k - 1])]
  BY RunExists DEF IsRun
<1> QED BY <1>1 DEF IsRun, Getchs, Start

\* Where k calls of lo_getch lead, and the char that the k-th gives.
Reached(k) == File!Least(Current(lo) + k, File!Greatest(Current(lo), Len(contents)))
Char(k) == IF Current(lo) + k <= Len(contents) THEN contents[Current(lo) + k] ELSE EOF

Positive == \A i \in 1 .. Len(contents) : contents[i] > 0

\* What k calls leave.
After(a, k) ==
    /\ a = [lo |-> a.lo, c |-> a.c, text |-> a.text]
    /\ a.lo \in Object /\ InStep(a.lo)
    /\ a.lo.lo_fd = lo.lo_fd /\ a.lo.lo_mode = lo.lo_mode
    /\ Current(a.lo) = Reached(k)
    /\ k > 0 => a.c = Char(k)
    /\ Positive => a.text = File!Slice(contents, Current(lo), Reached(k))

LEMMA ReachedIs ==
    ASSUME Typed, lo \in Object, InStep(lo), NEW k \in Nat
    PROVE  /\ Current(lo) \in Nat /\ Len(contents) \in Nat
           /\ Reached(k) \in Nat /\ Reached(k) >= Current(lo)
           /\ Current(lo) + k <= Len(contents) => Reached(k) = Current(lo) + k
           /\ Current(lo) + k > Len(contents) /\ Current(lo) <= Len(contents) =>
                  Reached(k) = Len(contents)
           /\ Current(lo) > Len(contents) => Reached(k) = Current(lo)
           /\ Reached(0) = Current(lo)
<1>1. Current(lo) \in Nat /\ Len(contents) \in Nat
  BY CurrentType, LenProperties DEF Typed
<1> QED BY <1>1 DEF Reached, File!Least, File!Greatest

\* One byte more.
LEMMA SliceAppend ==
    ASSUME NEW S, NEW c \in Seq(S), NEW a \in Nat, NEW b \in Nat, a <= b, b < Len(c)
    PROVE  File!Slice(c, a, b + 1) = Append(File!Slice(c, a, b), c[b + 1])
<1> DEFINE s == File!Slice(c, a, b)
           t == File!Slice(c, a, b + 1)
<1>1. Len(c) \in Nat /\ b + 1 \in Nat
  BY LenProperties
<1>2. /\ File!Least(b, Len(c)) = b
      /\ File!Least(b + 1, Len(c)) = b + 1
  BY <1>1 DEF File!Least
<1>3. /\ s \in Seq(S) /\ Len(s) = b - a
      /\ \A i \in 1 .. b - a : s[i] = c[a + i]
  <2> HIDE DEF s
  <2>1. /\ s \in Seq(S)
        /\ Len(s) = IF a < b THEN b - a ELSE 0
        /\ \A i \in 1 .. Len(s) : s[i] = c[a + i]
    BY <1>2, SliceIs DEF s
  <2>2. Len(s) = b - a
    BY <2>1
  <2> QED BY <2>1, <2>2
<1>4. /\ t \in Seq(S) /\ Len(t) = b + 1 - a
      /\ \A i \in 1 .. b + 1 - a : t[i] = c[a + i]
  <2> HIDE DEF t
  <2>1. /\ t \in Seq(S)
        /\ Len(t) = IF a < b + 1 THEN b + 1 - a ELSE 0
        /\ \A i \in 1 .. Len(t) : t[i] = c[a + i]
    BY <1>1, <1>2, SliceIs DEF t
  <2>2. Len(t) = b + 1 - a
    BY <2>1
  <2> QED BY <2>1, <2>2
<1>5. c[b + 1] \in S
  <2>1. b + 1 \in 1 .. Len(c)
    BY <1>1
  <2> QED BY <2>1, ElementOfSeq
<1> DEFINE u == Append(s, c[b + 1])
<1> HIDE DEF s, t
<1>6. /\ u \in Seq(S) /\ Len(u) = b - a + 1
      /\ \A i \in 1 .. b - a : u[i] = s[i]
      /\ u[b - a + 1] = c[b + 1]
  BY <1>3, <1>5, AppendProperties
<1>7. \A i \in 1 .. Len(t) : t[i] = u[i]
  <2> SUFFICES ASSUME NEW i \in 1 .. b + 1 - a
               PROVE  t[i] = u[i]
    BY <1>4
  <2>1. CASE i = b - a + 1
    BY <1>4, <1>6, <2>1
  <2>2. CASE i # b - a + 1
    <3>1. i \in 1 .. b - a
      BY <2>2
    <3> QED BY <1>3, <1>4, <1>6, <3>1
  <2> QED BY <2>1, <2>2
<1>8. Len(t) = Len(u)
  BY <1>4, <1>6
<1>9. t = u
  <2> HIDE DEF u
  <2> QED BY <1>4, <1>6, <1>7, <1>8, SeqEqual
<1> QED BY <1>9 DEF s, t

\* One call more.
LEMMA AfterNext ==
    ASSUME Typed, lo \in Object, InStep(lo), NEW a, NEW k \in Nat, After(a, k)
    PROVE  After(Getch(a), k + 1)
<1> DEFINE b == Getch(a)
           p == Current(a.lo)
<1>1. /\ b = [lo |-> b.lo, c |-> b.c, text |-> b.text]
      /\ b.lo \in Object /\ InStep(b.lo)
      /\ b.lo.lo_fd = a.lo.lo_fd /\ b.lo.lo_mode = a.lo.lo_mode
      /\ p < Len(contents) => /\ Current(b.lo) = p + 1
                              /\ b.c = contents[p + 1]
                              /\ b.text = IF b.c > 0 THEN Append(a.text, b.c) ELSE a.text
      /\ p >= Len(contents) => /\ Current(b.lo) = p
                               /\ b.c = EOF
                               /\ b.text = a.text
  BY GetchStep DEF After
<1>2. p = Reached(k) /\ p \in Nat
  BY ReachedIs DEF After
<1> HIDE DEF b, p
<1>3. Current(lo) \in Nat /\ Len(contents) \in Nat
  BY ReachedIs
<1>4. /\ p >= Current(lo)
      /\ Current(lo) + k <= Len(contents) => p = Current(lo) + k
      /\ Current(lo) + k > Len(contents) /\ Current(lo) <= Len(contents) => p = Len(contents)
      /\ Current(lo) > Len(contents) => p = Current(lo)
  BY <1>2, ReachedIs
<1>5. /\ Current(lo) + (k + 1) <= Len(contents) => Reached(k + 1) = Current(lo) + (k + 1)
      /\ Current(lo) + (k + 1) > Len(contents) /\ Current(lo) <= Len(contents) =>
             Reached(k + 1) = Len(contents)
      /\ Current(lo) > Len(contents) => Reached(k + 1) = Current(lo)
  <2>1. k + 1 \in Nat
    OBVIOUS
  <2> QED BY <2>1, ReachedIs
<1>6. CASE p < Len(contents)
  <2>1. p = Current(lo) + k /\ Current(lo) + (k + 1) <= Len(contents) /\ Current(lo) \in Nat
    BY <1>2, <1>6, <1>3, <1>4
  <2>2. Reached(k + 1) = p + 1
    BY <2>1, <1>5
  <2>3. b.c = Char(k + 1)
    BY <1>1, <1>6, <2>1 DEF Char
  <2>4. ASSUME Positive
        PROVE  b.text = File!Slice(contents, Current(lo), Reached(k + 1))
    <3>1. b.c > 0
      <4>1. p + 1 \in 1 .. Len(contents)
        BY <1>2, <1>6, <1>3
      <4> QED BY <1>1, <1>6, <2>4, <4>1 DEF Positive
    <3>2. b.text = Append(File!Slice(contents, Current(lo), p), contents[p + 1])
      BY <1>1, <1>2, <1>6, <2>4, <3>1 DEF After
    <3>3. Current(lo) <= p /\ contents \in Seq(Byte)
      BY <2>1 DEF Typed
    <3>4. File!Slice(contents, Current(lo), p + 1) =
              Append(File!Slice(contents, Current(lo), p), contents[p + 1])
      BY <1>2, <1>6, <2>1, <3>3, SliceAppend
    <3> QED BY <2>2, <3>2, <3>4
  <2>5. Current(b.lo) = Reached(k + 1)
    BY <1>1, <1>6, <2>2
  <2> QED BY <1>1, <2>3, <2>4, <2>5 DEF After, b
<1>7. CASE p >= Len(contents)
  <2>1. /\ Current(lo) + (k + 1) > Len(contents)
        /\ Reached(k + 1) = p
    BY <1>2, <1>7, <1>3, <1>4, <1>5
  <2>2. b.c = Char(k + 1)
    BY <1>1, <1>7, <2>1, ReachedIs DEF Char
  <2>3. Current(b.lo) = Reached(k + 1)
    BY <1>1, <1>7, <2>1
  <2>4. Positive => b.text = File!Slice(contents, Current(lo), Reached(k + 1))
    BY <1>1, <1>2, <1>7, <2>1 DEF After
  <2> QED BY <1>1, <2>2, <2>3, <2>4 DEF After, b
<1> QED BY <1>2, <1>6, <1>7, ReachedIs

LEMMA GetchsAre ==
    ASSUME Typed, lo \in Object, InStep(lo), NEW n \in Nat
    PROVE  \A k \in 0 .. n : After(Getchs(n)[k], k)
<1> DEFINE f == Getchs(n)
           Wrong == {k \in 0 .. n : ~After(f[k], k)}
<1>1. \A k \in 0 .. n : f[k] = IF k = 0 THEN Start ELSE Getch(f[k - 1])
  <2>1. f = [k \in 0 .. n |-> IF k = 0 THEN Start ELSE Getch(f[k - 1])]
    BY GetchsIsRun DEF IsRun
  <2> HIDE DEF f
  <2> QED BY <2>1
<1> HIDE DEF f
<1> SUFFICES ASSUME Wrong # {}
             PROVE  FALSE
  BY DEF f
<1>2. PICK k \in Wrong : \A j \in Wrong : k <= j
  <2>1. Wrong \in SUBSET Nat
    OBVIOUS
  <2> HIDE DEF Wrong
  <2> QED BY <2>1, MinIs
<1>3. CASE k = 0
  <2>1. f[0] = Start
    BY <1>1, <1>3
  <2>2. Start.lo = lo /\ Start.c = 0 /\ Start.text = <<>>
        /\ Start = [lo |-> Start.lo, c |-> Start.c, text |-> Start.text]
    BY DEF Start
  <2>3. Reached(0) = Current(lo) /\ Current(lo) \in Nat /\ Len(contents) \in Nat
    BY ReachedIs
  <2>4. File!Slice(contents, Current(lo), Current(lo)) = <<>>
    <3>1. contents \in Seq(Byte)
      BY DEF Typed
    <3>2. /\ File!Slice(contents, Current(lo), Current(lo)) \in Seq(Byte)
          /\ Len(File!Slice(contents, Current(lo), Current(lo))) = 0
      BY <2>3, <3>1, SliceIs DEF File!Least
    <3> QED BY <3>2, EmptySeq
  <2>5. After(Start, 0)
    BY <2>2, <2>3, <2>4 DEF After
  <2> QED BY <1>3, <2>1, <2>5
<1>4. CASE k # 0
  <2>1. k - 1 \in 0 .. n /\ k - 1 \in Nat /\ k - 1 + 1 = k /\ ~(k - 1 \in Wrong)
    BY <1>2, <1>4
  <2>2. After(f[k - 1], k - 1)
    BY <2>1
  <2>3. After(Getch(f[k - 1]), k - 1 + 1)
    BY <2>1, <2>2, AfterNext
  <2> QED BY <1>1, <1>4, <2>1, <2>3
<1> QED BY <1>3, <1>4

-----------------------------------------------------------------------------
(* Steps that move the object or leave it alone. *)

LEMMA SoundUnchanged ==
    ASSUME Sound, UNCHANGED <<contents, lo>>
    PROVE  Sound'
BY DEF Sound, Typed, InStep

\* lo' is in step, and at e.
Moved(e) ==
    /\ UNCHANGED contents
    /\ lo' \in Object /\ InStep(lo')
    /\ lo'.lo_fd = lo.lo_fd /\ lo'.lo_mode = lo.lo_mode
    /\ Current(lo') = e

\* The bytes up to e are handed out.
ReadsTo(e) == Moved(e) /\ result' = File!Value(File!Slice(contents, Current(lo), e))

LEMMA MovedSound ==
    ASSUME Sound, lo.lo_fd >= 0, NEW e, Moved(e)
    PROVE  Sound'
<1>1. InStep(lo)'
  BY DEF Moved, InStep
<1>2. lo'.lo_fd >= 0 /\ lo'.lo_mode # {} /\ ~(lo'.lo_fd < 0) /\ lo' \in Object
  <2>1. lo.lo_fd = 0
    BY DEF Sound, Object
  <2> QED BY <2>1 DEF Moved, Sound
<1>3. Typed'
  BY DEF Sound, Typed, Moved
<1> QED BY <1>1, <1>2, <1>3 DEF Sound

LEMMA ClosedType ==
    /\ ClosedObject \in Object
    /\ ClosedObject.lo_fd = -1
    /\ ClosedObject.lo_mode = {}
BY EmptySeq, LargeObjectAssumption DEF ClosedObject, Object

LEMMA SequenceOf ==
    ASSUME NEW S, NEW m \in Nat, NEW s \in [1 .. m -> S]
    PROVE  s \in Seq(S)
OBVIOUS

LEMMA InitSound == Init => Sound
<1> SUFFICES ASSUME Init
             PROVE  Sound
  OBVIOUS
<1>1. PICK m \in 0 .. MaxLen : contents \in [1 .. m -> Bytes]
  BY DEF Init, BoundedSeq, SeqOf
<1>2. m \in Nat /\ contents \in Seq(Byte) /\ Len(contents) = m
  <2>1. m \in Nat
    BY LargeObjectAssumption
  <2>2. contents \in [1 .. m -> Byte]
    BY <1>1 DEF Byte
  <2> QED BY <2>1, <2>2, IsASeq
<1>3. Typed
  BY <1>2, LargeObjectAssumption DEF Typed
<1> QED BY <1>3, ClosedType DEF Init, Sound

LEMMA OpenSound ==
    ASSUME Sound, NEW m \in SUBSET Rights, Open(m)
    PROVE  Sound'
<1>1. CASE UNCHANGED <<contents, lo>>
  BY <1>1, SoundUnchanged
<1>2. CASE /\ lo.lo_fd < 0
           /\ m # {}
           /\ lo' = [lo EXCEPT !.lo_fd = 0, !.lo_mode = m, !.lo_idx = 0, !.lo_size = 0,
                               !.lo_tell = 0]
           /\ UNCHANGED contents
  <2>1. lo = ClosedObject
    BY <1>2 DEF Sound
  <2>2. lo' = [lo_fd |-> 0, lo_mode |-> m, lo_offset |-> 0, lo_size |-> 0, lo_idx |-> 0,
               lo_buf |-> <<>>, lo_tell |-> 0]
    BY <1>2, <2>1 DEF ClosedObject
  <2>3. <<>> \in Seq(Byte) /\ Len(<<>>) = 0
    BY EmptySeq
  <2>4. lo' \in Object
    BY <2>2, <2>3 DEF Object
  <2>5. InStep(lo)'
    BY <2>2, <2>3, LargeObjectAssumption DEF InStep
  <2>6. ~(lo'.lo_fd < 0) /\ lo'.lo_mode # {}
    BY <1>2, <2>2
  <2>7. Typed'
    BY <1>2 DEF Sound, Typed
  <2> QED BY <2>4, <2>5, <2>6, <2>7 DEF Sound
<1> QED BY <1>1, <1>2 DEF Open

LEMMA CloseSound ==
    ASSUME Sound, Close
    PROVE  Sound'
<1>1. CASE UNCHANGED <<contents, lo>>
  BY <1>1, SoundUnchanged
<1>2. CASE lo' = ClosedObject /\ UNCHANGED contents
  <2>1. Typed'
    BY <1>2 DEF Sound, Typed
  <2>2. ClosedObject' = ClosedObject
    BY DEF ClosedObject
  <2> QED BY <1>2, <2>1, <2>2, ClosedType DEF Sound
<1> QED BY <1>1, <1>2 DEF Close, Refused

-----------------------------------------------------------------------------
(* read(). *)

LEMMA SliceSame ==
    ASSUME NEW c \in Seq(Byte), NEW a \in Nat, NEW b \in Nat
    PROVE  LET e == a + Len(File!Slice(c, a, b))
           IN  /\ e = File!Greatest(a, File!Least(b, Len(c)))
               /\ File!Slice(c, a, e) = File!Slice(c, a, b)
<1> DEFINE s == File!Slice(c, a, b)
           e == a + Len(s)
<1>1. Len(c) \in Nat
  BY LenProperties
<1>2. /\ s \in Seq(Byte)
      /\ Len(s) = IF a < File!Least(b, Len(c)) THEN File!Least(b, Len(c)) - a ELSE 0
  BY SliceIs
<1>3. File!Least(b, Len(c)) \in Nat /\ File!Least(b, Len(c)) <= Len(c)
  BY <1>1 DEF File!Least
<1>4. e \in Nat /\ e = File!Greatest(a, File!Least(b, Len(c)))
  <2> HIDE DEF s
  <2> QED BY <1>2, <1>3 DEF File!Greatest
<1>5. CASE a < File!Least(b, Len(c))
  <2>1. e = File!Least(b, Len(c)) /\ File!Least(e, Len(c)) = File!Least(b, Len(c))
    <3>1. e = File!Least(b, Len(c))
      <4> HIDE DEF s
      <4> QED BY <1>2, <1>3, <1>5
    <3> HIDE DEF e
    <3> QED BY <1>1, <1>3, <3>1 DEF File!Least
  <2> HIDE DEF e
  <2>2. File!Slice(c, a, e) = s
    BY <2>1 DEF File!Slice
  <2> QED BY <1>4, <2>2 DEF e
<1>6. CASE ~(a < File!Least(b, Len(c)))
  <2>1. e = a /\ Len(s) = 0 /\ s = <<>>
    <3> HIDE DEF s
    <3> QED BY <1>2, <1>6, EmptySeq
  <2>2. /\ File!Slice(c, a, a) \in Seq(Byte)
        /\ Len(File!Slice(c, a, a)) = 0
    BY <1>1, SliceIs DEF File!Least
  <2>3. File!Slice(c, a, a) = <<>>
    BY <2>2, EmptySeq
  <2> HIDE DEF e
  <2> QED BY <1>4, <2>1, <2>3 DEF e
<1> QED BY <1>5, <1>6

\* What is not in the buffer is read from the server.
LEMMA ReadAround ==
    ASSUME Sound, lo.lo_fd >= 0, NEW n \in Nat, NEW h \in Object,
           h.lo_fd = lo.lo_fd, h.lo_mode = lo.lo_mode,
           ReadBytes(h, n), n > Remaining, UNCHANGED contents
    PROVE  ReadsTo(File!Greatest(Current(lo), File!Least(Current(lo) + n, Len(contents))))
<1> DEFINE b == BytesAt(Current(lo), n)
           p == Current(lo) + Len(b)
<1>1. ~(n <= Remaining)
  BY DEF Remaining, Sound, Object
<1>2. /\ lo' = IF Len(b) < MAX_BUFFER_SIZE THEN Filled(h, p) ELSE Emptied(h, p)
      /\ result' = File!Value(b)
  BY <1>1 DEF ReadBytes, Returns
<1>3. Current(lo) \in Nat /\ contents \in Seq(Byte) /\ Current(lo) + n \in Nat
  BY CurrentType DEF Sound, Typed
<1>4. /\ p = File!Greatest(Current(lo), File!Least(Current(lo) + n, Len(contents)))
      /\ File!Slice(contents, Current(lo), p) = b
  BY <1>3, SliceSame DEF BytesAt
<1>5. p \in Nat
  <2>1. b \in Seq(Byte)
    BY <1>3, SliceIs DEF BytesAt
  <2> HIDE DEF b
  <2> QED BY <1>3, <2>1, LenProperties
<1> HIDE DEF b, p
<1>6. Moved(p)
  <2>1. CASE Len(b) < MAX_BUFFER_SIZE
    BY <1>2, <1>5, <2>1, FilledInStep DEF Moved, Sound
  <2>2. CASE ~(Len(b) < MAX_BUFFER_SIZE)
    BY <1>2, <1>5, <2>2, EmptiedInStep DEF Moved, Sound
  <2> QED BY <2>1, <2>2
<1> QED BY <1>2, <1>4, <1>6 DEF ReadsTo

\* What is in the buffer is taken from it.
LEMMA ReadFromBuffer ==
    ASSUME Sound, lo.lo_fd >= 0, NEW n \in Nat, n > 0,
           ReadBytes(lo, n), n <= Remaining, UNCHANGED contents
    PROVE  ReadsTo(File!Greatest(Current(lo), File!Least(Current(lo) + n, Len(contents))))
<1> DEFINE m == Advanced(lo, n)
           s == SubSeq(lo.lo_buf, lo.lo_idx + 1, lo.lo_idx + n)
           p == Current(lo) + n
<1>1. lo' = m /\ result' = File!Value(s)
  BY DEF ReadBytes, Returns, Advanced
<1>2. /\ lo \in Object /\ InStep(lo) /\ Typed
      /\ lo.lo_offset \in Nat /\ lo.lo_idx \in Nat /\ lo.lo_size \in Nat /\ lo.lo_tell \in Nat
      /\ lo.lo_buf \in Seq(Byte)
      /\ lo.lo_idx + n <= lo.lo_size /\ lo.lo_size > 0
      /\ lo.lo_offset + lo.lo_size <= Len(contents)
      /\ lo.lo_size <= Len(lo.lo_buf)
      /\ \A i \in 1 .. lo.lo_size : lo.lo_buf[i] = contents[lo.lo_offset + i]
      /\ Current(lo) = lo.lo_offset + lo.lo_idx
      /\ contents \in Seq(Byte)
  <2>1. lo \in Object /\ InStep(lo) /\ Typed
    BY DEF Sound
  <2>2. lo.lo_offset # -1 /\ n <= lo.lo_size - lo.lo_idx
    BY <2>1 DEF Remaining, Object
  <2> QED BY <2>1, <2>2, LargeObjectAssumption DEF Object, InStep, Current, Typed
<1>3. Len(contents) \in Nat /\ Len(lo.lo_buf) \in Nat
  BY <1>2, LenProperties
<1>4. /\ p \in Nat /\ p <= Len(contents)
      /\ p = File!Greatest(Current(lo), File!Least(Current(lo) + n, Len(contents)))
  BY <1>2, <1>3 DEF File!Greatest, File!Least
<1>5. s = File!Slice(contents, Current(lo), p)
  <2> DEFINE t == File!Slice(contents, Current(lo), p)
  <2>1. /\ t \in Seq(Byte) /\ Len(t) = n
        /\ \A i \in 1 .. n : t[i] = contents[Current(lo) + i]
    <3>1. File!Least(p, Len(contents)) = p
      BY <1>3, <1>4 DEF File!Least
    <3>2. Current(lo) \in Nat /\ Current(lo) < p /\ p - Current(lo) = n
      BY <1>2
    <3> HIDE DEF p, t
    <3>3. contents \in Seq(Byte) /\ p \in Nat
      BY <1>2, <1>4
    <3>4. /\ t \in Seq(Byte)
          /\ Len(t) = IF Current(lo) < File!Least(p, Len(contents))
                      THEN File!Least(p, Len(contents)) - Current(lo) ELSE 0
          /\ \A i \in 1 .. Len(t) : t[i] = contents[Current(lo) + i]
      BY ONLY SliceIs, <3>2, <3>3 DEF t
    <3>5. Len(t) = p - Current(lo)
      BY <3>1, <3>2, <3>4
    <3> QED BY <3>2, <3>4, <3>5
  <2>2. /\ s \in Seq(Byte) /\ Len(s) = n
        /\ \A i \in 1 .. n : s[i] = lo.lo_buf[lo.lo_idx + i]
    <3> DEFINE a == lo.lo_idx + 1
               z == lo.lo_idx + n
               q == lo.lo_buf
    <3>1. /\ z - a + 1 = n /\ a <= z
          /\ q \in Seq(Byte) /\ z \in Int /\ a \in Int
          /\ 1 <= a /\ z <= Len(q) /\ Len(q) \in Nat
      <4>1. q \in Seq(Byte) /\ Len(q) \in Nat
        BY <1>2, <1>3
      <4>2. z <= Len(q)
        BY <1>2, <1>3
      <4> HIDE DEF q
      <4>3. lo.lo_idx \in Nat /\ n \in Nat /\ n > 0
        BY <1>2
      <4>4. z \in Int /\ a \in Int /\ 1 <= a /\ a <= z /\ z - a + 1 = n
        BY ONLY <4>3
      <4> HIDE DEF a, z
      <4> QED BY <4>1, <4>2, <4>4
    <3> HIDE DEF a, z, q
    <3>2. \A i \in a .. z : q[i] \in Byte
      <4>1. \A i \in a .. z : i \in 1 .. Len(q)
        BY <3>1
      <4> QED BY <3>1, <4>1, ElementOfSeq
    <3>3. /\ SubSeq(q, a, z) \in Seq(Byte)
          /\ Len(SubSeq(q, a, z)) = z - a + 1
          /\ \A i \in 1 .. z - a + 1 : SubSeq(q, a, z)[i] = q[a + i - 1]
      BY <3>1, <3>2, SubSeqProperties
    <3>4. \A i \in 1 .. n : a + i - 1 = lo.lo_idx + i
      BY <1>2 DEF a
    <3>5. s = SubSeq(q, a, z)
      BY DEF q, a, z
    <3> HIDE DEF s
    <3> QED BY <3>1, <3>3, <3>4, <3>5 DEF q
  <2>3. \A i \in 1 .. n : s[i] = t[i]
    <3> SUFFICES ASSUME NEW i \in 1 .. n
                 PROVE  s[i] = t[i]
      OBVIOUS
    <3>1. lo.lo_idx + i \in 1 .. lo.lo_size /\ i \in Nat
      BY <1>2
    <3>2. lo.lo_buf[lo.lo_idx + i] = contents[lo.lo_offset + (lo.lo_idx + i)]
      BY <1>2, <3>1
    <3>3. lo.lo_offset + (lo.lo_idx + i) = Current(lo) + i
      BY <1>2, <3>1
    <3> HIDE DEF s, t
    <3> QED BY <2>1, <2>2, <3>2, <3>3
  <2> HIDE DEF s, t
  <2>4. s = t
    BY <2>1, <2>2, <2>3, SeqEqual
  <2> QED BY <2>4 DEF t
<1>6. Moved(p)
  <2>1. /\ m \in Object
        /\ m.lo_idx = lo.lo_idx + n /\ m.lo_offset = lo.lo_offset
        /\ m.lo_size = lo.lo_size /\ m.lo_buf = lo.lo_buf /\ m.lo_tell = lo.lo_tell
        /\ m.lo_fd = lo.lo_fd /\ m.lo_mode = lo.lo_mode
    BY <1>2, IndexMoved
  <2> HIDE DEF m
  <2>2. InStep(m)
    <3>1. m.lo_idx \in 0 .. m.lo_size
      BY <1>2, <2>1
    <3> QED BY <1>2, <2>1, <3>1 DEF InStep
  <2>3. Current(m) = p
    BY <1>2, <2>1 DEF Current
  <2> QED BY <1>1, <2>1, <2>2, <2>3 DEF Moved
<1> HIDE DEF p, s
<1> QED BY <1>1, <1>4, <1>5, <1>6 DEF ReadsTo

\* The descriptor is moved to where the caller is.
LEMMA DescriptorMoved ==
    ASSUME Sound, lo.lo_fd >= 0
    PROVE  LET h == [lo EXCEPT !.lo_tell = Current(lo)]
           IN  /\ h \in Object
               /\ h.lo_fd = lo.lo_fd /\ h.lo_mode = lo.lo_mode /\ h.lo_offset = lo.lo_offset
               /\ h.lo_size = lo.lo_size /\ h.lo_idx = lo.lo_idx /\ h.lo_buf = lo.lo_buf
               /\ Current(h) = Current(lo)
               /\ lo.lo_size = 0 => InStep(h)
<1> DEFINE h == [lo EXCEPT !.lo_tell = Current(lo)]
<1>1. lo \in Object /\ InStep(lo) /\ Current(lo) \in Nat
  BY CurrentType DEF Sound
<1>2. h = [lo_fd |-> lo.lo_fd, lo_mode |-> lo.lo_mode, lo_offset |-> lo.lo_offset,
           lo_size |-> lo.lo_size, lo_idx |-> lo.lo_idx, lo_buf |-> lo.lo_buf,
           lo_tell |-> Current(lo)]
  BY <1>1 DEF Object
<1> HIDE DEF h
<1>3. h \in Object
  BY <1>1, <1>2 DEF Object
<1>4. Current(h) = Current(lo)
  BY <1>2 DEF Current
<1>5. ASSUME lo.lo_size = 0
      PROVE  InStep(h)
  <2>1. lo.lo_idx = 0 /\ lo.lo_offset # -1 => Current(lo) = lo.lo_offset + lo.lo_size
    BY <1>1, <1>5 DEF InStep, Object, Current
  <2> QED BY <1>1, <1>2, <1>5, <2>1 DEF InStep
<1> QED BY <1>2, <1>3, <1>4, <1>5 DEF h

\* read() finds its bytes in the buffer only where there is nothing to read.
LEMMA UnreadIsAround ==
    ASSUME Sound, lo.lo_fd >= 0
    PROVE  /\ Unread \in Int /\ Remaining \in Nat
           /\ Unread > 0 => Unread > Remaining /\ Current(lo) <= Len(contents)
           /\ Unread <= 0 => lo.lo_size = 0 /\ Current(lo) > Len(contents)
           /\ Current(lo) + Unread = Len(contents) + 1
<1>1. /\ lo \in Object /\ InStep(lo) /\ Current(lo) \in Nat /\ Len(contents) \in Nat
  BY CurrentType, LenProperties DEF Sound, Typed
<1>2. /\ lo.lo_size \in Nat /\ lo.lo_idx \in Nat /\ lo.lo_idx <= lo.lo_size
      /\ lo.lo_offset \in Nat \cup {-1}
      /\ lo.lo_size > 0 => lo.lo_offset + lo.lo_size <= Len(contents) /\ lo.lo_offset # -1
      /\ lo.lo_offset = -1 => lo.lo_size = 0 /\ Remaining = 0
      /\ lo.lo_offset # -1 => /\ Remaining = lo.lo_size - lo.lo_idx
                              /\ Current(lo) = lo.lo_offset + lo.lo_idx
  BY <1>1, LargeObjectAssumption DEF InStep, Object, Remaining, Current
<1>3. CASE lo.lo_offset = -1
  <2>1. Remaining = 0 /\ lo.lo_size = 0 /\ Unread = Len(contents) + 1 - Current(lo)
    BY <1>1, <1>2, <1>3 DEF Unread
  <2> QED BY <1>1, <2>1
<1>4. CASE lo.lo_offset # -1
  <2>1. Remaining = lo.lo_size - lo.lo_idx /\ Current(lo) = lo.lo_offset + lo.lo_idx
    BY <1>2, <1>4
  <2>2. Unread = Len(contents) + 1 - Current(lo)
    BY <1>1 DEF Unread
  <2>3. CASE lo.lo_size = 0
    <3>1. lo.lo_idx = 0
      BY <1>2, <2>3
    <3>2. Remaining = 0
      BY <1>1, <2>1, <2>3, <3>1
    <3> QED BY ONLY <1>1, <2>2, <2>3, <3>2
  <2>4. CASE lo.lo_size > 0
    <3>1. lo.lo_offset \in Nat /\ lo.lo_offset + lo.lo_size <= Len(contents)
      BY <1>2, <1>4, <2>4
    <3>2. Remaining \in Nat /\ Unread \in Int /\ Unread > Remaining
      <4>1. /\ Len(contents) \in Nat /\ lo.lo_size \in Nat /\ lo.lo_idx \in Nat
            /\ lo.lo_idx <= lo.lo_size
        BY <1>1, <1>2
      <4> QED BY ONLY <2>1, <2>2, <3>1, <4>1
    <3> QED BY ONLY <1>1, <2>2, <3>2
  <2> QED BY <1>2, <2>3, <2>4
<1> QED BY <1>3, <1>4

LEMMA ReadIs ==
    ASSUME Sound, NEW n \in Nat, Read(n), ~Refused({"INV_READ"})
    PROVE  /\ Checks({"INV_READ"})
           /\ \/ /\ n > 0
                 /\ ReadsTo(File!Greatest(Current(lo),
                                          File!Least(Current(lo) + n, Len(contents))))
              \/ /\ n = 0
                 /\ Current(lo) <= Len(contents)
                 /\ ReadsTo(Len(contents))
              \/ /\ n = 0
                 /\ Current(lo) > Len(contents)
                 /\ Moved(Current(lo))
                 /\ Raises(PastEnd(Len(contents) + 1 - Current(lo)))
<1> DEFINE h == [lo EXCEPT !.lo_tell = Current(lo)]
<1>1. /\ Checks({"INV_READ"}) /\ lo.lo_fd >= 0
      /\ UNCHANGED contents
      /\ \/ n > 0 /\ ReadBytes(lo, n)
         \/ n = 0 /\ Unread > 0 /\ ReadBytes(h, Unread)
         \/ n = 0 /\ Unread <= 0 /\ lo' = h /\ Raises(PastEnd(Unread))
  BY DEF Read, Checks
<1>2. /\ h \in Object
      /\ h.lo_fd = lo.lo_fd /\ h.lo_mode = lo.lo_mode /\ h.lo_offset = lo.lo_offset
      /\ h.lo_size = lo.lo_size /\ h.lo_idx = lo.lo_idx /\ h.lo_buf = lo.lo_buf
      /\ Current(h) = Current(lo)
      /\ lo.lo_size = 0 => InStep(h)
  BY <1>1, DescriptorMoved
<1>3. /\ lo \in Object /\ InStep(lo) /\ contents \in Seq(Byte)
      /\ Current(lo) \in Nat /\ Len(contents) \in Nat
  BY <1>1, CurrentType, LenProperties DEF Sound, Typed
<1> HIDE DEF h
<1>4. /\ Unread \in Int /\ Remaining \in Nat
      /\ Unread > 0 => Unread > Remaining /\ Current(lo) <= Len(contents)
      /\ Unread <= 0 => lo.lo_size = 0 /\ Current(lo) > Len(contents)
      /\ Current(lo) + Unread = Len(contents) + 1
  BY <1>1, UnreadIsAround
<1>5. CASE n > 0 /\ ReadBytes(lo, n)
  <2>1. CASE n > Remaining
    BY <1>1, <1>3, <1>5, <2>1, ReadAround
  <2>2. CASE ~(n > Remaining)
    <3>1. n <= Remaining
      BY <1>4, <2>2
    <3> QED BY <1>1, <1>5, <3>1, ReadFromBuffer
  <2> QED BY <2>1, <2>2
<1>6. CASE n = 0 /\ Unread > 0 /\ ReadBytes(h, Unread)
  <2>1. Unread \in Nat /\ Unread > Remaining /\ Current(lo) <= Len(contents)
    BY <1>4, <1>6
  <2>2. ReadsTo(File!Greatest(Current(lo),
                              File!Least(Current(lo) + Unread, Len(contents))))
    BY <1>1, <1>2, <1>6, <2>1, ReadAround
  <2>3. File!Least(Current(lo) + Unread, Len(contents)) = Len(contents)
    BY <1>3, <1>4 DEF File!Least
  <2>4. File!Greatest(Current(lo), Len(contents)) = Len(contents)
    BY <1>3, <2>1 DEF File!Greatest
  <2> QED BY <1>1, <1>6, <2>1, <2>2, <2>3, <2>4
<1>7. CASE n = 0 /\ Unread <= 0 /\ lo' = h /\ Raises(PastEnd(Unread))
  <2>1. lo.lo_size = 0 /\ Current(lo) > Len(contents)
    BY <1>4, <1>7
  <2>2. Unread = Len(contents) + 1 - Current(lo)
    BY <1>3, <1>4
  <2> QED BY <1>1, <1>2, <1>7, <2>1, <2>2 DEF Moved
<1> QED BY <1>1, <1>5, <1>6, <1>7

-----------------------------------------------------------------------------
(* readline() and readlines(). *)

LEMMA ByteType == Byte \subseteq Nat
<1>1. \A b \in 1 .. 127 : b \in Nat
  OBVIOUS
<1>2. Bytes \subseteq 1 .. 127
  BY LargeObjectAssumption
<1> QED BY <1>1, <1>2 DEF Byte

LEMMA CharIs ==
    ASSUME Typed, lo \in Object, InStep(lo), NEW i \in Nat \ {0}
    PROVE  /\ Current(lo) \in Nat /\ Len(contents) \in Nat /\ Len(contents) <= MaxLen
           /\ Char(i) \in Int
           /\ Current(lo) + i > Len(contents) => Char(i) = EOF
           /\ Current(lo) + i <= Len(contents) =>
                  /\ Char(i) = contents[Current(lo) + i]
                  /\ Char(i) >= 0
                  /\ Char(i) # EOF
                  /\ Positive => Char(i) > 0
<1>1. Current(lo) \in Nat /\ Len(contents) \in Nat /\ Len(contents) <= MaxLen
  BY CurrentType, LenProperties DEF Typed
<1>2. CASE Current(lo) + i > Len(contents)
  BY <1>1, <1>2 DEF Char, EOF
<1>3. CASE Current(lo) + i <= Len(contents)
  <2>1. Current(lo) + i \in 1 .. Len(contents) /\ contents \in Seq(Byte)
    BY <1>1, <1>3 DEF Typed
  <2>2. contents[Current(lo) + i] \in Byte
    BY <2>1, ElementOfSeq
  <2>3. contents[Current(lo) + i] \in Nat
    BY <2>2, ByteType
  <2>4. Char(i) = contents[Current(lo) + i]
    BY <1>3 DEF Char
  <2>5. Positive => Char(i) > 0
    BY <2>1, <2>4 DEF Positive
  <2> QED BY <1>1, <1>3, <2>3, <2>4, <2>5 DEF EOF
<1> QED BY <1>1, <1>2, <1>3

\* Stopping after the k-th call.
LEMMA StopsAfter ==
    ASSUME Typed, lo \in Object, InStep(lo), NEW k \in Nat, NEW a, After(a, k),
           lo' = a.lo, UNCHANGED contents
    PROVE  /\ Moved(Reached(k))
           /\ Positive /\ result' = File!Value(a.text) => ReadsTo(Reached(k))
BY DEF After, Moved, ReadsTo

LEMMA CharsAre ==
    ASSUME NEW n \in Nat, NEW f, \A i \in 0 .. n : After(f[i], i)
    PROVE  \A i \in 1 .. n :
              /\ f[i].c = Char(i)
              /\ Positive => f[i].text = File!Slice(contents, Current(lo), Reached(i))
<1> SUFFICES ASSUME NEW i \in 1 .. n
             PROVE  /\ f[i].c = Char(i)
                    /\ Positive => f[i].text = File!Slice(contents, Current(lo), Reached(i))
  OBVIOUS
<1>1. i \in 0 .. n /\ i > 0
  OBVIOUS
<1>2. After(f[i], i)
  BY <1>1
<1> QED BY <1>1, <1>2 DEF After

LEMMA ReadlineIs ==
    ASSUME Sound, Readline, ~Refused({"INV_READ"})
    PROVE  /\ Checks({"INV_READ"})
           /\ \E k \in Nat \ {0} :
                  /\ Moved(Reached(k))
                  /\ EndsLine(Char(k))
                  /\ \A j \in 1 .. k - 1 : ~EndsLine(Char(j))
                  /\ Positive => ReadsTo(Reached(k))
<1> DEFINE n == MaxLen + 1
           after == Getchs(MaxLen + 1)
           ends == {i \in 1 .. MaxLen + 1 : EndsLine(after[i].c)}
           k == Min(ends)
<1>1. /\ Checks({"INV_READ"}) /\ lo.lo_fd >= 0
      /\ UNCHANGED contents
      /\ lo' = after[k].lo /\ result' = File!Value(after[k].text)
  BY DEF Readline, Checks, Returns
<1>2. n \in Nat /\ Typed /\ lo \in Object /\ InStep(lo)
  BY <1>1, LargeObjectAssumption DEF Sound
<1>3. \A i \in 0 .. n : After(after[i], i)
  BY <1>2, GetchsAre
<1> HIDE DEF after
<1>4. \A i \in 1 .. n : after[i].c = Char(i)
  BY <1>2, <1>3, CharsAre
<1>5. n \in ends
  <2>1. n \in 1 .. n /\ n \in Nat \ {0}
    BY <1>2, LargeObjectAssumption
  <2>2. Char(n) = EOF
    BY <1>2, <2>1, CharIs, LargeObjectAssumption
  <2> QED BY <1>4, <2>1, <2>2 DEF EndsLine, EOF
<1>6. k \in ends /\ \A y \in ends : k <= y
  <2>1. ends \in SUBSET Nat
    OBVIOUS
  <2> HIDE DEF ends
  <2> QED BY <1>5, <2>1, MinIs
<1> HIDE DEF k
<1>7. k \in 1 .. n /\ k \in Nat \ {0} /\ EndsLine(Char(k))
  BY <1>2, <1>4, <1>6
<1>8. ASSUME NEW j \in 1 .. k - 1
      PROVE  ~EndsLine(Char(j))
  <2>1. j \in 1 .. n /\ ~(k <= j)
    BY <1>2, <1>7
  <2> QED BY <1>4, <1>6, <2>1
<1>9. Moved(Reached(k)) /\ (Positive => ReadsTo(Reached(k)))
  <2>1. After(after[k], k)
    BY <1>3, <1>7
  <2> QED BY <1>1, <1>2, <1>7, <2>1, StopsAfter
<1> QED BY <1>1, <1>7, <1>8, <1>9

\* The chars that are kept, and what is in the memory behind them.
LEMMA ReadlineOfIs ==
    ASSUME Sound, NEW n \in Nat \ {0}, ReadlineOf(n), ~Refused({"INV_READ"})
    PROVE  /\ Checks({"INV_READ"})
           /\ \E k \in 1 .. n, m \in 0 .. n :
                  /\ Moved(Reached(k))
                  /\ k = n \/ Char(k) \in {EOF, 10}
                  /\ \A j \in 1 .. k - 1 : Char(j) \notin {EOF, 10}
                  /\ m = IF Char(k) = EOF THEN k - 1 ELSE k
                  /\ \E rest \in [1 .. n - m -> Bytes] :
                        result' = File!Value([i \in 1 .. m |-> Char(i)] \o rest)
<1> DEFINE after == Getchs(n)
           ends == {n} \cup {i \in 1 .. n : after[i].c \in {EOF, 10}}
           k == Min(ends)
           m == IF after[k].c = EOF THEN k - 1 ELSE k
<1>1. /\ Checks({"INV_READ"}) /\ lo.lo_fd >= 0
      /\ UNCHANGED contents
      /\ lo' = after[k].lo
      /\ \E rest \in [1 .. n - m -> Bytes] :
             result' = File!Value([i \in 1 .. m |-> after[i].c] \o rest)
  BY DEF ReadlineOf, Checks, Returns
<1>2. n \in Nat /\ Typed /\ lo \in Object /\ InStep(lo)
  BY <1>1 DEF Sound
<1>3. \A i \in 0 .. n : After(after[i], i)
  BY <1>2, GetchsAre
<1> HIDE DEF after
<1>4. \A i \in 1 .. n : after[i].c = Char(i)
  BY <1>2, <1>3, CharsAre
<1>5. k \in ends /\ \A y \in ends : k <= y
  <2>1. ends \in SUBSET Nat /\ ends # {}
    OBVIOUS
  <2> HIDE DEF ends
  <2> QED BY <2>1, MinIs
<1>6. k \in 1 .. n /\ k \in Nat
  <2> HIDE DEF k
  <2> QED BY <1>5
<1>7. m = (IF Char(k) = EOF THEN k - 1 ELSE k) /\ m \in 0 .. n
  <2> HIDE DEF k
  <2> QED BY <1>4, <1>6
<1>8. k = n \/ Char(k) \in {EOF, 10}
  <2> HIDE DEF k
  <2> QED BY <1>4, <1>5, <1>6
<1>9. ASSUME NEW j \in 1 .. k - 1
      PROVE  Char(j) \notin {EOF, 10}
  <2> HIDE DEF k
  <2>1. j \in 1 .. n /\ ~(k <= j)
    BY <1>2, <1>6
  <2> QED BY <1>4, <1>5, <2>1
<1>10. Moved(Reached(k))
  <2>1. After(after[k], k)
    BY <1>3, <1>6
  <2> HIDE DEF k
  <2> QED BY <1>1, <1>2, <1>6, <2>1, StopsAfter
<1>11. [i \in 1 .. m |-> after[i].c] = [i \in 1 .. m |-> Char(i)]
  <2>1. \A i \in 1 .. m : i \in 1 .. n
    <3> HIDE DEF m
    <3> QED BY <1>2, <1>7
  <2> HIDE DEF m
  <2> QED BY <1>4, <2>1
<1> HIDE DEF k, m
<1>12. \E rest \in [1 .. n - m -> Bytes] :
           result' = File!Value([i \in 1 .. m |-> Char(i)] \o rest)
  BY <1>1, <1>11
<1>13. \A j \in 1 .. k - 1 : Char(j) \notin {EOF, 10}
  BY <1>9
<1> QED BY ONLY <1>1, <1>6, <1>7, <1>8, <1>10, <1>12, <1>13

LEMMA ReadlinesIs ==
    ASSUME Sound, NEW hint \in Nat, Readlines(hint), ~Refused({"INV_READ"})
    PROVE  /\ Checks({"INV_READ"})
           /\ \E k \in 1 .. MaxLen + 2 :
                  LET empty(i) == Char(i) <= 0 /\ (i = 1 \/ EndsLine(Char(i - 1)))
                      enough(i) == /\ hint > 0 /\ EndsLine(Char(i))
                                   /\ Len(File!Slice(contents, Current(lo), Reached(i))) > hint
                  IN  /\ Moved(Reached(k))
                      /\ Positive =>
                            /\ ReadsTo(Reached(k))
                            /\ empty(k) \/ enough(k)
                            /\ \A j \in 1 .. k - 1 : ~empty(j) /\ ~enough(j)
<1> DEFINE n == MaxLen + 2
           after == Getchs(MaxLen + 2)
           empty == {i \in 1 .. MaxLen + 2 :
                       after[i].c <= 0 /\ (i = 1 \/ EndsLine(after[i - 1].c))}
           enough == {i \in 1 .. MaxLen + 2 :
                       hint > 0 /\ EndsLine(after[i].c) /\ Len(after[i].text) > hint}
           k == Min(empty \cup enough)
           text(i) == File!Slice(contents, Current(lo), Reached(i))
<1>1. /\ Checks({"INV_READ"}) /\ lo.lo_fd >= 0
      /\ UNCHANGED contents
      /\ lo' = after[k].lo /\ result' = File!Value(after[k].text)
  BY DEF Readlines, Checks, Returns
<1>2. n \in Nat /\ Typed /\ lo \in Object /\ InStep(lo)
  BY <1>1, LargeObjectAssumption DEF Sound
<1>3. \A i \in 0 .. n : After(after[i], i)
  BY <1>2, GetchsAre
<1> HIDE DEF after
<1>4. \A i \in 1 .. n : /\ after[i].c = Char(i)
                        /\ Positive => after[i].text = text(i)
  BY <1>2, <1>3, CharsAre
<1>5. n \in empty
  <2>1. n \in 1 .. n /\ n \in Nat \ {0} /\ n - 1 \in 1 .. n /\ n - 1 \in Nat \ {0}
    BY <1>2, LargeObjectAssumption
  <2>2. Char(n) = EOF /\ Char(n - 1) = EOF
    BY <1>2, <2>1, CharIs, LargeObjectAssumption
  <2> QED BY <1>4, <2>1, <2>2 DEF EndsLine, EOF
<1>6. k \in empty \cup enough /\ \A y \in empty \cup enough : k <= y
  <2>1. empty \cup enough \in SUBSET Nat /\ empty \cup enough # {}
    BY <1>5
  <2> HIDE DEF empty, enough
  <2> QED BY <2>1, MinIs
<1> HIDE DEF k
<1>7. k \in 1 .. n /\ k \in Nat
  BY <1>2, <1>6
<1>8. ASSUME Positive
      PROVE  \A i \in 1 .. n :
                /\ i \in empty <=> Char(i) <= 0 /\ (i = 1 \/ EndsLine(Char(i - 1)))
                /\ i \in enough <=> hint > 0 /\ EndsLine(Char(i)) /\ Len(text(i)) > hint
  <2> SUFFICES ASSUME NEW i \in 1 .. n
               PROVE  /\ i \in empty <=> Char(i) <= 0 /\ (i = 1 \/ EndsLine(Char(i - 1)))
                      /\ i \in enough <=> hint > 0 /\ EndsLine(Char(i)) /\ Len(text(i)) > hint
    OBVIOUS
  <2>1. i = 1 \/ i - 1 \in 1 .. n
    BY <1>2
  <2>2. after[i].c = Char(i) /\ (i = 1 \/ after[i - 1].c = Char(i - 1))
        /\ after[i].text = text(i)
    BY <1>4, <1>8, <2>1
  <2> HIDE DEF text
  <2> QED BY <2>1, <2>2
<1>9. \A j \in 1 .. k - 1 : j \in 1 .. n /\ ~(j \in empty) /\ ~(j \in enough)
  <2> HIDE DEF empty, enough
  <2> SUFFICES ASSUME NEW j \in 1 .. k - 1
               PROVE  j \in 1 .. n /\ ~(j \in empty) /\ ~(j \in enough)
    OBVIOUS
  <2>1. j \in 1 .. n /\ ~(k <= j)
    BY <1>2, <1>7
  <2> QED BY <1>6, <2>1
<1>10. Moved(Reached(k)) /\ (Positive => ReadsTo(Reached(k)))
  <2>1. After(after[k], k)
    BY <1>3, <1>7
  <2> QED BY <1>1, <1>2, <1>7, <2>1, StopsAfter
<1> HIDE DEF empty, enough
<1> QED BY <1>1, <1>6, <1>7, <1>8, <1>9, <1>10

-----------------------------------------------------------------------------
(* Writing and seeking. *)

\* The contents after a write, which begins at p.
LEMMA WrittenIs ==
    ASSUME NEW c \in Seq(Byte), NEW p \in Nat, NEW s \in Seq(Byte)
    PROVE  /\ File!Overwritten(c, p, s) \in Seq(Byte)
           /\ Len(File!Overwritten(c, p, s)) =
                  IF s = <<>> THEN Len(c) ELSE File!Greatest(Len(c), p + Len(s))
           /\ \A i \in 1 .. Len(File!Overwritten(c, p, s)) :
                  File!Overwritten(c, p, s)[i] =
                      IF p < i /\ i <= p + Len(s) THEN s[i - p]
                      ELSE IF i <= Len(c) THEN c[i] ELSE 0
<1> DEFINE w == File!Overwritten(c, p, s)
           m == File!Greatest(Len(c), p + Len(s))
           e(i) == IF p < i /\ i <= p + Len(s) THEN s[i - p]
                   ELSE IF i <= Len(c) THEN c[i] ELSE 0
<1>1. Len(c) \in Nat /\ Len(s) \in Nat
  BY LenProperties
<1>2. m \in Nat
  BY <1>1 DEF File!Greatest
<1>3. CASE s = <<>>
  <2>1. w = c
    BY <1>3 DEF File!Overwritten
  <2>2. Len(s) = 0
    BY <1>3, EmptySeq
  <2> HIDE DEF w
  <2>3. \A i \in 1 .. Len(c) : c[i] = e(i)
    BY <1>1, <2>2
  <2> HIDE DEF e
  <2> QED BY <1>3, <2>1, <2>3 DEF e, w
<1>4. CASE s # <<>>
  <2>1. w = [i \in 1 .. m |-> e(i)]
    BY <1>4 DEF File!Overwritten
  <2> HIDE DEF m, w
  <2>2. \A i \in 1 .. m : e(i) \in Byte
    <3> SUFFICES ASSUME NEW i \in 1 .. m
                 PROVE  e(i) \in Byte
      OBVIOUS
    <3>1. CASE p < i /\ i <= p + Len(s)
      <4>1. i - p \in 1 .. Len(s)
        BY <1>1, <1>2, <3>1
      <4> QED BY <3>1, <4>1, ElementOfSeq
    <3>2. CASE ~(p < i /\ i <= p + Len(s)) /\ i <= Len(c)
      <4>1. i \in 1 .. Len(c)
        BY <1>1, <1>2, <3>2
      <4> QED BY <3>2, <4>1, ElementOfSeq
    <3>3. CASE ~(p < i /\ i <= p + Len(s)) /\ ~(i <= Len(c))
      BY <3>3 DEF Byte
    <3> QED BY <3>1, <3>2, <3>3
  <2> HIDE DEF e
  <2>3. w \in [1 .. m -> Byte]
    BY <2>1, <2>2
  <2>4. w \in Seq(Byte) /\ Len(w) = m
    BY <1>2, <2>3
  <2>5. \A i \in 1 .. m : w[i] = e(i)
    BY <2>1
  <2> QED BY <1>4, <2>4, <2>5 DEF e, m, w
<1> QED BY <1>3, <1>4

LEMMA PositionedIs ==
    ASSUME Sound, lo.lo_fd >= 0
    PROVE  /\ Positioned \in Object
           /\ Positioned.lo_offset = -1 /\ Positioned.lo_size = 0 /\ Positioned.lo_idx = 0
           /\ Positioned.lo_fd = lo.lo_fd /\ Positioned.lo_mode = lo.lo_mode
           /\ Positioned.lo_tell = Current(lo) /\ Current(lo) \in Nat
<1>1. lo \in Object /\ InStep(lo) /\ Current(lo) \in Nat
  BY CurrentType DEF Sound
<1>2. CASE lo.lo_offset # -1
  <2>1. Positioned = Emptied(lo, Current(lo))
    BY <1>2 DEF Positioned, Current
  <2>2. /\ Emptied(lo, Current(lo)) \in Object
        /\ InStep(Emptied(lo, Current(lo)))
        /\ Emptied(lo, Current(lo)).lo_tell = Current(lo)
        /\ Emptied(lo, Current(lo)).lo_offset = -1
        /\ Emptied(lo, Current(lo)).lo_fd = lo.lo_fd
        /\ Emptied(lo, Current(lo)).lo_mode = lo.lo_mode
    BY <1>1, EmptiedInStep
  <2>3. Emptied(lo, Current(lo)).lo_size = 0 /\ Emptied(lo, Current(lo)).lo_idx = 0
    BY <1>1 DEF Emptied, Object
  <2> QED BY <1>1, <2>1, <2>2, <2>3
<1>3. CASE lo.lo_offset = -1
  <2>1. Positioned = lo
    BY <1>3 DEF Positioned
  <2>2. lo.lo_size = 0 /\ lo.lo_idx = 0
    BY <1>1, <1>3 DEF InStep
  <2> QED BY <1>1, <1>3, <2>1, <2>2 DEF Current
<1> QED BY <1>2, <1>3

\* write(): the bytes are there, and the caller is behind them.
LEMMA WriteIs ==
    ASSUME Sound, NEW s \in Seq(Bytes), Write(s), ~Refused({"INV_WRITE"})
    PROVE  /\ Checks({"INV_WRITE"})
           /\ Sound'
           /\ contents' = File!Overwritten(contents, Current(lo), s)
           /\ lo'.lo_fd = lo.lo_fd /\ lo'.lo_mode = lo.lo_mode
           /\ Current(lo)' = Current(lo) + Len(s)
           /\ Holes \/ Current(lo) <= Len(contents)
           /\ result' = File!None
<1> DEFINE p == Current(lo)
           h == Positioned
           t == p + Len(s)
<1>1. /\ Checks({"INV_WRITE"}) /\ lo.lo_fd >= 0
      /\ h.lo_tell + Len(s) <= MaxLen
      /\ Holes \/ h.lo_tell <= Len(contents)
      /\ contents' = File!Overwritten(contents, h.lo_tell, s)
      /\ lo' = [h EXCEPT !.lo_tell = h.lo_tell + Len(s)]
      /\ result' = File!Value(<<>>)
  BY DEF Write, Checks, Returns, Written
<1>2. /\ h \in Object
      /\ h.lo_offset = -1 /\ h.lo_size = 0 /\ h.lo_idx = 0
      /\ h.lo_fd = lo.lo_fd /\ h.lo_mode = lo.lo_mode
      /\ h.lo_tell = p /\ p \in Nat
  BY <1>1, PositionedIs
<1>3. /\ contents \in Seq(Byte) /\ Len(contents) \in Nat /\ Len(contents) <= MaxLen
      /\ lo.lo_mode # {} /\ lo.lo_fd = 0
      /\ s \in Seq(Byte) /\ Len(s) \in Nat /\ t \in Nat
  <2>1. s \in Seq(Byte)
    <3>1. s \in [1 .. Len(s) -> Bytes] /\ Len(s) \in Nat
      BY LenProperties
    <3> QED BY <3>1 DEF Byte
  <2>2. Len(s) \in Nat /\ Len(contents) \in Nat
    BY <2>1, LenProperties DEF Sound, Typed
  <2>3. lo.lo_fd = 0
    BY <1>1 DEF Sound, Object
  <2>4. contents \in Seq(Byte) /\ Len(contents) <= MaxLen /\ lo.lo_mode # {}
    BY <1>1 DEF Sound, Typed
  <2> QED BY <1>2, <2>1, <2>2, <2>3, <2>4
<1> HIDE DEF h, p
<1>4. Typed'
  <2>1. /\ contents' \in Seq(Byte)
        /\ Len(contents') = IF s = <<>> THEN Len(contents) ELSE File!Greatest(Len(contents), t)
    BY <1>1, <1>2, <1>3, WrittenIs
  <2>2. t <= MaxLen
    BY <1>1, <1>2
  <2>3. File!Greatest(Len(contents), t) <= MaxLen
    BY <1>3, <2>2, LargeObjectAssumption DEF File!Greatest
  <2> QED BY <1>3, <2>1, <2>3 DEF Typed
<1>5. lo' = [lo_fd |-> lo.lo_fd, lo_mode |-> lo.lo_mode, lo_offset |-> -1, lo_size |-> 0,
             lo_idx |-> 0, lo_buf |-> h.lo_buf, lo_tell |-> t]
      /\ h.lo_buf \in Seq(Byte)
  BY <1>1, <1>2 DEF Object
<1> HIDE DEF t
<1>6. lo' \in Object
  BY <1>3, <1>5 DEF Object, Sound
<1>7. InStep(lo)'
  <2>1. Len(h.lo_buf) \in Nat
    BY <1>5, LenProperties
  <2> QED BY <1>5, <2>1, LargeObjectAssumption DEF InStep
<1>8. Current(lo)' = t
  BY <1>5 DEF Current
<1>9. Sound'
  <2>1. lo'.lo_fd = 0 /\ lo'.lo_mode # {}
    BY <1>3, <1>5
  <2> QED BY <1>4, <1>6, <1>7, <2>1 DEF Sound
<1> QED BY <1>1, <1>2, <1>5, <1>8, <1>9 DEF p, t, File!None

\* seek(): an offset in the buffer only moves the index.
LEMMA LseekIs ==
    ASSUME Sound, NEW off \in Int, NEW w, Lseek(off, w), ~Refused({})
    PROVE  /\ Checks({})
           /\ \/ Moved(off)
              \/ Moved(SeekTarget(off, w))
           /\ result' = File!None
<1>1. /\ Checks({}) /\ lo.lo_fd >= 0
      /\ \/ /\ lo.lo_offset # -1 /\ off >= lo.lo_offset /\ off < lo.lo_offset + lo.lo_size
            /\ lo' = [lo EXCEPT !.lo_idx = off - lo.lo_offset]
         \/ /\ SeekTarget(off, w) \in 0 .. MaxLen + 2
            /\ lo' = Emptied(lo, SeekTarget(off, w))
      /\ result' = File!Value(<<>>)
      /\ UNCHANGED contents
  BY DEF Lseek, Checks, Returns
<1>2. lo \in Object /\ InStep(lo)
  BY <1>1 DEF Sound
<1>3. CASE /\ lo.lo_offset # -1 /\ off >= lo.lo_offset /\ off < lo.lo_offset + lo.lo_size
           /\ lo' = [lo EXCEPT !.lo_idx = off - lo.lo_offset]
  <2>1. /\ lo.lo_fd \in {-1, 0} /\ lo.lo_mode \in SUBSET Rights /\ lo.lo_offset \in Nat
        /\ lo.lo_size \in Int /\ lo.lo_buf \in Seq(Byte) /\ lo.lo_tell \in Nat
    BY <1>2, <1>3 DEF Object
  <2>2. lo' = [lo_fd |-> lo.lo_fd, lo_mode |-> lo.lo_mode, lo_offset |-> lo.lo_offset,
               lo_size |-> lo.lo_size, lo_idx |-> off - lo.lo_offset,
               lo_buf |-> lo.lo_buf, lo_tell |-> lo.lo_tell]
    BY <1>2, <1>3 DEF Object
  <2>3. off - lo.lo_offset \in 0 .. lo.lo_size /\ off - lo.lo_offset \in Nat
    BY <1>3, <2>1
  <2>4. lo' \in Object
    BY <2>1, <2>2, <2>3 DEF Object
  <2>5. InStep(lo')
    BY <1>2, <2>2, <2>3 DEF InStep
  <2>6. Current(lo') = lo.lo_offset + (off - lo.lo_offset)
    BY <1>3, <2>2 DEF Current
  <2>7. Current(lo') = off
    BY <2>1, <2>6
  <2> QED BY <1>1, <2>2, <2>4, <2>5, <2>7 DEF Moved, File!None
<1>4. CASE /\ SeekTarget(off, w) \in 0 .. MaxLen + 2
           /\ lo' = Emptied(lo, SeekTarget(off, w))
  <2>1. SeekTarget(off, w) \in Nat
    BY <1>4, LargeObjectAssumption
  <2>2. Moved(SeekTarget(off, w))
    BY <1>1, <1>2, <1>4, <2>1, EmptiedInStep DEF Moved
  <2> QED BY <1>1, <2>2 DEF File!None
<1> QED BY <1>1, <1>3, <1>4

-----------------------------------------------------------------------------
(* The invariants. *)

LEMMA RefusedSound ==
    ASSUME Sound, NEW r, Refused(r)
    PROVE  Sound'
BY SoundUnchanged DEF Refused

LEMMA NextSound ==
    ASSUME Sound, [Next]_vars
    PROVE  Sound'
<1>1. ASSUME NEW m \in SUBSET Rights, Open(m)
      PROVE  Sound'
  BY <1>1, OpenSound
<1>2. ASSUME Close
      PROVE  Sound'
  BY <1>2, CloseSound
<1>3. ASSUME NEW n \in Sizes, Read(n)
      PROVE  Sound'
  <2>1. n \in Nat
    BY LargeObjectAssumption
  <2>2. CASE Refused({"INV_READ"})
    BY <2>2, RefusedSound
  <2>3. CASE ~Refused({"INV_READ"})
    <3>1. Checks({"INV_READ"}) /\ \E e : Moved(e)
      BY <1>3, <2>1, <2>3, ReadIs DEF ReadsTo
    <3> QED BY <3>1, MovedSound DEF Checks
  <2> QED BY <2>2, <2>3
<1>4. ASSUME Readline
      PROVE  Sound'
  <2>1. CASE Refused({"INV_READ"})
    BY <2>1, RefusedSound
  <2>2. CASE ~Refused({"INV_READ"})
    <3>1. Checks({"INV_READ"}) /\ \E e : Moved(e)
      BY <1>4, <2>2, ReadlineIs
    <3> QED BY <3>1, MovedSound DEF Checks
  <2> QED BY <2>1, <2>2
<1>5. ASSUME NEW n \in Sizes \ {0}, ReadlineOf(n)
      PROVE  Sound'
  <2>1. n \in Nat \ {0}
    BY LargeObjectAssumption
  <2>2. CASE Refused({"INV_READ"})
    BY <2>2, RefusedSound
  <2>3. CASE ~Refused({"INV_READ"})
    <3>1. Checks({"INV_READ"}) /\ \E e : Moved(e)
      BY <1>5, <2>1, <2>3, ReadlineOfIs
    <3> QED BY <3>1, MovedSound DEF Checks
  <2> QED BY <2>2, <2>3
<1>6. ASSUME NEW n \in Sizes, Readlines(n)
      PROVE  Sound'
  <2>1. n \in Nat
    BY LargeObjectAssumption
  <2>2. CASE Refused({"INV_READ"})
    BY <2>2, RefusedSound
  <2>3. CASE ~Refused({"INV_READ"})
    <3>1. Checks({"INV_READ"}) /\ \E e : Moved(e)
      BY <1>6, <2>1, <2>3, ReadlinesIs
    <3> QED BY <3>1, MovedSound DEF Checks
  <2> QED BY <2>2, <2>3
<1>7. ASSUME NEW s \in BoundedSeq(Bytes, 2), Write(s)
      PROVE  Sound'
  <2>1. s \in Seq(Bytes)
    <3>1. PICK m \in 0 .. 2 : s \in [1 .. m -> Bytes]
      BY DEF BoundedSeq, SeqOf
    <3>2. m \in Nat
      OBVIOUS
    <3> QED BY <3>1, <3>2, SequenceOf
  <2>2. CASE Refused({"INV_WRITE"})
    BY <2>2, RefusedSound
  <2>3. CASE ~Refused({"INV_WRITE"})
    BY <1>7, <2>1, <2>3, WriteIs
  <2> QED BY <2>2, <2>3
<1>8. ASSUME NEW n \in Offsets, NEW w \in Whences, Lseek(n, w)
      PROVE  Sound'
  <2>1. n \in Int
    BY LargeObjectAssumption
  <2>2. CASE Refused({})
    BY <2>2, RefusedSound
  <2>3. CASE ~Refused({})
    <3>1. Checks({}) /\ \E e : Moved(e)
      BY <1>8, <2>1, <2>3, LseekIs
    <3> QED BY <3>1, MovedSound DEF Checks
  <2> QED BY <2>2, <2>3
<1>9. ASSUME Tell \/ Attribute
      PROVE  Sound'
  <2>1. UNCHANGED <<contents, lo>>
    BY <1>9 DEF Tell, Attribute, Refused
  <2> QED BY <2>1, SoundUnchanged
<1>10. CASE UNCHANGED vars
  BY <1>10, SoundUnchanged DEF vars
<1>11. CASE Next
  BY <1>1, <1>2, <1>3, <1>4, <1>5, <1>6, <1>7, <1>8, <1>9, <1>11 DEF Next
<1> QED BY <1>10, <1>11

\* Sound is an invariant: whatever a caller reads, writes and seeks, with holes
\* or without, what lo_getch, PgLo_read, PgLo_write and PgLo_lseek keep of the
\* buffer is in step with the server.
THEOREM SoundInvariant == Spec => []Sound
<1>1. Init => Sound
  BY InitSound
<1>2. Sound /\ [Next]_vars => Sound'
  BY NextSound
<1> QED BY <1>1, <1>2, PTL DEF Spec

\* The fields of a PgLargeObject keep their types, and lo_size and lo_idx of an
\* open one stay within its buffer, of any size.
THEOREM ObjectTypeCorrect == Spec => []TypeOK
<1>1. Sound => TypeOK
  BY DEF Sound, Typed, TypeOK, Object, InStep, Byte
<1> QED BY <1>1, SoundInvariant, PTL

\* lo_getch refills the buffer from wherever the descriptor is, without seeking:
\* that is always right behind the buffer.
THEOREM BufferIsAligned == Spec => []BufferAligned
<1>1. Sound => BufferAligned
  BY DEF Sound, BufferAligned, InStep
<1> QED BY <1>1, SoundInvariant, PTL

LEMMA SoundCoherent == Sound => BufferCoherent
<1> SUFFICES ASSUME Sound, lo.lo_fd >= 0, lo.lo_offset # -1
             PROVE  SubSeq(lo.lo_buf, 1, lo.lo_size) = BytesAt(lo.lo_offset, lo.lo_size)
  BY DEF BufferCoherent
<1> DEFINE n == lo.lo_size
           b == lo.lo_buf
           s == SubSeq(b, 1, n)
           t == BytesAt(lo.lo_offset, n)
<1>1. /\ n \in Nat /\ b \in Seq(Byte) /\ lo.lo_offset \in Nat /\ n <= Len(b)
      /\ n > 0 => lo.lo_offset + n <= Len(contents)
      /\ \A i \in 1 .. n : b[i] = contents[lo.lo_offset + i]
      /\ contents \in Seq(Byte)
  BY LargeObjectAssumption DEF Sound, Typed, Object, InStep
<1>2. Len(b) \in Nat /\ Len(contents) \in Nat
  BY <1>1, LenProperties
<1> HIDE DEF n, b
<1>3. s \in Seq(Byte) /\ Len(s) = n /\ \A i \in 1 .. n : s[i] = b[i]
  <2>1. \A i \in 1 .. n : b[i] \in Byte
    <3>1. \A i \in 1 .. n : i \in 1 .. Len(b)
      BY <1>1, <1>2
    <3> QED BY <1>1, <3>1, ElementOfSeq
  <2>2. /\ s \in Seq(Byte)
        /\ Len(s) = IF 1 <= n THEN n - 1 + 1 ELSE 0
        /\ \A i \in 1 .. n - 1 + 1 : s[i] = b[1 + i - 1]
    <3>1. n \in Int /\ 1 \in Int
      BY <1>1
    <3> QED BY <2>1, <3>1, SubSeqProperties
  <2> HIDE DEF s
  <2>3. Len(s) = n /\ n - 1 + 1 = n /\ \A i \in 1 .. n : 1 + i - 1 = i
    BY <1>1, <2>2
  <2> QED BY <2>2, <2>3
<1>4. t \in Seq(Byte) /\ Len(t) = n /\ \A i \in 1 .. n : t[i] = contents[lo.lo_offset + i]
  <2>1. /\ t \in Seq(Byte)
        /\ Len(t) = IF lo.lo_offset < File!Least(lo.lo_offset + n, Len(contents))
                    THEN File!Least(lo.lo_offset + n, Len(contents)) - lo.lo_offset ELSE 0
        /\ \A i \in 1 .. Len(t) : t[i] = contents[lo.lo_offset + i]
    <3>1. lo.lo_offset + n \in Nat /\ lo.lo_offset \in Nat /\ contents \in Seq(Byte)
      BY <1>1
    <3>2. t = File!Slice(contents, lo.lo_offset, lo.lo_offset + n)
      BY DEF BytesAt
    <3> HIDE DEF t
    <3> QED BY ONLY <3>1, <3>2, SliceIs
  <2> HIDE DEF t
  <2>2. Len(t) = n
    BY <1>1, <1>2, <2>1 DEF File!Least
  <2> QED BY <2>1, <2>2
<1> HIDE DEF s, t
<1>5. s = t
  <2>1. \A i \in 1 .. Len(s) : s[i] = t[i]
    BY <1>1, <1>3, <1>4
  <2> QED BY <1>3, <1>4, <2>1, SeqEqual
<1> QED BY <1>5 DEF s, t, b, n

\* The bytes of the buffer are the ones of the large object it stands for.
THEOREM BufferIsCoherent == Spec => []BufferCoherent
BY SoundCoherent, SoundInvariant, PTL

-----------------------------------------------------------------------------
(* Lines, as the file of LOFile has them. *)

LEMMA CharEnds ==
    ASSUME Typed, lo \in Object, InStep(lo), Positive, NEW j \in Nat \ {0}
    PROVE  /\ Current(lo) \in Nat /\ Len(contents) \in Nat /\ Char(j) \in Int
           /\ Char(j) = EOF <=> Current(lo) + j > Len(contents)
           /\ Char(j) <= 0 <=> Char(j) = EOF
           /\ EndsLine(Char(j)) <=> Char(j) \in {EOF, 10}
           /\ Current(lo) + j <= Len(contents) => Char(j) = contents[Current(lo) + j]
<1>1. /\ Current(lo) \in Nat /\ Len(contents) \in Nat /\ Char(j) \in Int
      /\ Current(lo) + j > Len(contents) => Char(j) = EOF
      /\ Current(lo) + j <= Len(contents) =>
             /\ Char(j) = contents[Current(lo) + j]
             /\ Char(j) > 0 /\ Char(j) # EOF
  BY CharIs
<1>2. Current(lo) + j > Len(contents) \/ Current(lo) + j <= Len(contents)
  BY <1>1
<1> QED BY <1>1, <1>2 DEF EOF, EndsLine

\* The offset j bytes on ends a line when the j-th char says so or is the last.
LEMMA LineEndsAre ==
    ASSUME Typed, lo \in Object, InStep(lo), Positive
    PROVE  /\ File!LineEnds(Current(lo)) \in SUBSET Nat
           /\ \A f \in File!LineEnds(Current(lo)) :
                  /\ f - Current(lo) \in Nat \ {0} /\ f <= Len(contents)
                  /\ f = Len(contents) \/ Char(f - Current(lo)) = 10
           /\ \A j \in Nat \ {0} :
                  /\ Char(j) = 10 => Current(lo) + j \in File!LineEnds(Current(lo))
                  /\ Current(lo) + j = Len(contents) =>
                         Len(contents) \in File!LineEnds(Current(lo))
<1> DEFINE p == Current(lo)
           L == Len(contents)
           S == File!LineEnds(p)
<1>1. p \in Nat /\ L \in Nat
  BY CurrentType, LenProperties DEF Typed
<1>2. S = {e \in p + 1 .. L : contents[e] = 10 \/ e = L}
  BY DEF File!LineEnds, File!Newline
<1> HIDE DEF S
<1>3. S \in SUBSET Nat
  BY <1>1, <1>2
<1>4. ASSUME NEW f \in S
      PROVE  /\ f - p \in Nat \ {0} /\ f <= L
             /\ f = L \/ Char(f - p) = 10
  <2>1. f \in p + 1 .. L /\ (contents[f] = 10 \/ f = L)
    BY <1>2
  <2>2. f - p \in Nat \ {0} /\ f <= L /\ p + (f - p) = f
    BY <1>1, <2>1
  <2>3. Char(f - p) = contents[f]
    BY <2>2, CharEnds
  <2> QED BY <2>1, <2>2, <2>3
<1>5. ASSUME NEW j \in Nat \ {0}
      PROVE  /\ Char(j) = 10 => p + j \in S
             /\ p + j = L => L \in S
  <2>1. ASSUME Char(j) = 10
        PROVE  p + j \in S
    <3>1. p + j <= L
      BY <1>1, <2>1, CharEnds DEF EOF
    <3>2. contents[p + j] = 10
      BY <2>1, <3>1, CharEnds
    <3>3. p + j \in p + 1 .. L
      BY <1>1, <3>1
    <3> HIDE DEF p, L
    <3> QED BY <1>2, <3>2, <3>3
  <2>2. ASSUME p + j = L
        PROVE  L \in S
    <3>1. L \in p + 1 .. L
      BY <1>1, <2>2
    <3> HIDE DEF p, L
    <3> QED BY <1>2, <3>1
  <2> QED BY <2>1, <2>2
<1> QED BY <1>3, <1>4, <1>5 DEF S

LEMMA FirstOrIs ==
    ASSUME NEW S \in SUBSET Nat, NEW p
    PROVE  /\ S = {} => File!FirstOr(S, p) = p
           /\ S # {} => File!FirstOr(S, p) \in S /\ \A f \in S : File!FirstOr(S, p) <= f
           /\ \A e \in S : (\A f \in S : e <= f) => File!FirstOr(S, p) = e
<1>1. CASE S = {}
  BY <1>1 DEF File!FirstOr
<1>2. CASE S # {}
  <2>1. Min(S) \in S /\ \A y \in S : Min(S) <= y
    BY <1>2, MinIs
  <2>2. File!FirstOr(S, p) = Min(S)
    BY <1>2 DEF File!FirstOr, Min
  <2>3. ASSUME NEW e \in S, \A f \in S : e <= f
        PROVE  Min(S) = e
    <3>1. e <= Min(S) /\ Min(S) <= e /\ e \in Nat /\ Min(S) \in Nat
      BY <2>1, <2>3
    <3> QED BY <3>1
  <2> QED BY <1>2, <2>1, <2>2, <2>3
<1> QED BY <1>1, <1>2

LEMMA FirstIs ==
    ASSUME NEW S \in SUBSET Nat, NEW p, NEW e \in S, \A f \in S : e <= f
    PROVE  File!FirstOr(S, p) = e
BY FirstOrIs

\* Stopping at the first char that ends a line is stopping at the end of a line.
LEMMA FirstLineEnd ==
    ASSUME Typed, lo \in Object, InStep(lo), Positive, NEW k \in Nat \ {0},
           EndsLine(Char(k)),
           \A j \in 1 .. k - 1 : ~EndsLine(Char(j))
    PROVE  File!FirstOr(File!LineEnds(Current(lo)), Current(lo)) = Reached(k)
<1> DEFINE p == Current(lo)
           L == Len(contents)
           S == File!LineEnds(p)
<1>1. p \in Nat /\ L \in Nat
  BY CurrentType, LenProperties DEF Typed
<1>2. /\ S \in SUBSET Nat
      /\ \A f \in S : /\ f - p \in Nat \ {0} /\ f <= L
                      /\ f = L \/ Char(f - p) = 10
      /\ \A j \in Nat \ {0} : /\ Char(j) = 10 => p + j \in S
                              /\ p + j = L => L \in S
  BY LineEndsAre
<1>3. /\ p + k <= L => Reached(k) = p + k
      /\ p + k > L /\ p <= L => Reached(k) = L
      /\ p > L => Reached(k) = p
  BY ReachedIs
<1>4. Char(k) \in {EOF, 10} /\ (Char(k) = EOF <=> p + k > L)
  BY CharEnds
<1> HIDE DEF p, L, S
<1>5. CASE p >= L
  <2>1. S = {}
    BY <1>1, <1>2, <1>5
  <2>2. Reached(k) = p
    BY <1>1, <1>3, <1>5
  <2> QED BY <1>2, <2>1, <2>2, FirstOrIs DEF S, p
<1>6. CASE p < L
  <2>1. \A f \in S : f >= p + k \/ f = L
    <3> SUFFICES ASSUME NEW f \in S, f < p + k, f # L
                 PROVE  FALSE
      BY <1>1, <1>2
    <3>1. Char(f - p) = 10 /\ f \in Nat
      BY <1>2
    <3>2. f - p \in 1 .. k - 1
      BY <1>1, <1>2, <3>1
    <3> QED BY <3>1, <3>2 DEF EndsLine
  <2>2. CASE Char(k) = 10 /\ p + k <= L
    <3>1. p + k \in S /\ Reached(k) = p + k
      BY <1>2, <1>3, <2>2
    <3>2. \A f \in S : p + k <= f
      BY <1>1, <1>2, <2>1, <2>2
    <3> QED BY <1>2, <3>1, <3>2, FirstOrIs DEF S, p
  <2>3. CASE p + k > L
    <3>1. Reached(k) = L
      BY <1>1, <1>3, <1>6, <2>3
    <3>2. L \in S
      <4>1. L - p \in Nat \ {0} /\ p + (L - p) = L
        BY <1>1, <1>6
      <4> QED BY <1>2, <4>1
    <3>3. \A f \in S : L <= f
      BY <1>1, <1>2, <2>1, <2>3
    <3> QED BY <1>2, <3>1, <3>2, <3>3, FirstOrIs DEF S, p
  <2> QED BY <1>1, <1>4, <2>2, <2>3
<1> QED BY <1>1, <1>5, <1>6

\* Where readline(n) stops, and what it has read there.
LEMMA LineOfStops ==
    ASSUME Typed, lo \in Object, InStep(lo), Positive,
           NEW n \in Nat \ {0}, NEW k \in 1 .. n,
           k = n \/ Char(k) \in {EOF, 10},
           \A j \in 1 .. k - 1 : Char(j) \notin {EOF, 10}
    PROVE  /\ Reached(k) = File!Least(Current(lo) + n,
                               File!FirstOr(File!LineEnds(Current(lo)), Current(lo)))
           /\ Reached(k) - Current(lo) = IF Char(k) = EOF THEN k - 1 ELSE k
<1> DEFINE p == Current(lo)
           L == Len(contents)
           S == File!LineEnds(p)
           e == File!FirstOr(S, p)
<1>1. p \in Nat /\ L \in Nat /\ k \in Nat \ {0}
  BY CurrentType, LenProperties DEF Typed
<1>2. /\ S \in SUBSET Nat
      /\ \A f \in S : /\ f - p \in Nat \ {0} /\ f <= L
                      /\ f = L \/ Char(f - p) = 10
      /\ \A j \in Nat \ {0} : /\ Char(j) = 10 => p + j \in S
                              /\ p + j = L => L \in S
  BY LineEndsAre
<1>3. /\ p + k <= L => Reached(k) = p + k
      /\ p + k > L /\ p <= L => Reached(k) = L
      /\ p > L => Reached(k) = p
      /\ Reached(k) \in Nat
  BY <1>1, ReachedIs
<1>4. /\ EndsLine(Char(k)) <=> Char(k) \in {EOF, 10}
      /\ Char(k) = EOF <=> p + k > L
  BY <1>1, CharEnds
<1>5. \A j \in 1 .. k - 1 : ~EndsLine(Char(j)) /\ p + j <= L
  <2> SUFFICES ASSUME NEW j \in 1 .. k - 1
               PROVE  ~EndsLine(Char(j)) /\ p + j <= L
    OBVIOUS
  <2>1. j \in Nat \ {0}
    OBVIOUS
  <2>2. /\ EndsLine(Char(j)) <=> Char(j) \in {EOF, 10}
        /\ Char(j) = EOF <=> p + j > L
    BY <2>1, CharEnds
  <2>3. Char(j) # EOF
    OBVIOUS
  <2>4. p + j <= L
    <3> HIDE DEF p, L
    <3> QED BY <1>1, <2>2, <2>3
  <2> QED BY <2>2, <2>4
<1>6. Reached(k) - p = IF Char(k) = EOF THEN k - 1 ELSE k
  <2> HIDE DEF p, L, S, e
  <2>1. CASE p + k <= L
    BY <1>1, <1>3, <1>4, <2>1
  <2>2. CASE p + k > L
    <3>1. CASE k = 1
      <4>1. Reached(k) = p
        BY <1>1, <1>3, <2>2, <3>1
      <4> QED BY <1>1, <1>4, <2>2, <3>1, <4>1
    <3>2. CASE k # 1
      <4>1. k - 1 \in 1 .. k - 1
        BY <1>1, <3>2
      <4>2. p + (k - 1) <= L
        BY <1>5, <4>1
      <4>3. Reached(k) = L /\ L = p + (k - 1)
        BY <1>1, <1>3, <2>2, <4>2
      <4> QED BY <1>1, <1>4, <2>2, <4>3
    <3> QED BY <3>1, <3>2
  <2> QED BY <1>1, <2>1, <2>2
<1>7. CASE EndsLine(Char(k))
  <2>1. e = Reached(k)
    BY <1>1, <1>5, <1>7, FirstLineEnd
  <2>2. Reached(k) <= p + n
    <3> HIDE DEF p, L, S, e
    <3> QED BY <1>1, <1>3, <1>4, <1>6
  <2>3. Reached(k) = File!Least(p + n, e)
    <3> HIDE DEF p, L, S, e
    <3> QED BY <1>1, <1>3, <2>1, <2>2 DEF File!Least
  <2> QED BY <1>6, <2>3
<1>8. CASE ~EndsLine(Char(k))
  <2>1. k = n /\ Char(k) \notin {EOF, 10}
    BY <1>4, <1>8
  <2> HIDE DEF p, L, S, e
  <2>2. p + n <= L /\ Reached(k) = p + n
    BY <1>1, <1>3, <1>4, <2>1
  <2>3. S # {}
    <3>1. L - p \in Nat \ {0} /\ p + (L - p) = L
      BY <1>1, <2>2
    <3> QED BY <1>2, <3>1
  <2>4. e \in S
    BY <1>2, <2>3, FirstOrIs DEF e
  <2>5. e >= p + n
    <3> SUFFICES ASSUME e < p + n
                 PROVE  FALSE
      BY <1>1, <1>2, <2>4
    <3>1. Char(e - p) = 10 /\ e \in Nat
      BY <1>1, <1>2, <2>2, <2>4
    <3>2. e - p \in 1 .. k - 1
      BY <1>1, <1>2, <2>1, <2>4, <3>1
    <3> QED BY <3>1, <3>2
  <2>6. Reached(k) = File!Least(p + n, e)
    BY <1>1, <1>2, <2>2, <2>4, <2>5 DEF File!Least
  <2> QED BY <1>6, <2>6 DEF p, S, e
<1> QED BY <1>7, <1>8

IsSeq(c, m) == c = [i \in 1 .. m |-> c[i]]

\* The bytes that readline(n) returns begin with the line.
LEMMA LineOfText ==
    ASSUME Typed, lo \in Object, InStep(lo), Positive,
           NEW n \in Nat, NEW m \in 0 .. n, NEW k \in Nat,
           Reached(k) - Current(lo) = m,
           NEW c, IsSeq(c, m), \A i \in 1 .. m : c[i] = Char(i),
           NEW rest \in [1 .. n - m -> Bytes]
    PROVE  /\ Len(c \o rest) = n
           /\ SubSeq(c \o rest, 1, m) = File!Slice(contents, Current(lo), Reached(k))
<1> DEFINE p == Current(lo)
           L == Len(contents)
           v == c \o rest
           t == File!Slice(contents, p, Reached(k))
           s == SubSeq(v, 1, m)
<1>1. p \in Nat /\ L \in Nat /\ contents \in Seq(Byte) /\ m \in Nat /\ n - m \in Nat
  BY CurrentType, LenProperties DEF Typed
<1>2. Reached(k) = p + m /\ (m > 0 => p + m <= L) /\ p + m \in Nat
  <2>1. /\ p + k <= L => Reached(k) = p + k
        /\ p + k > L /\ p <= L => Reached(k) = L
        /\ p > L => Reached(k) = p
        /\ Reached(k) \in Nat
    BY ReachedIs
  <2> DEFINE r == Reached(k)
  <2>2. r - p = m
    OBVIOUS
  <2>3. /\ p + k <= L => r = p + k
        /\ p + k > L /\ p <= L => r = L
        /\ p > L => r = p
        /\ r \in Nat
    BY <2>1
  <2> HIDE DEF p, L, r, v, t, s
  <2>4. r = p + m
    BY <1>1, <2>2, <2>3
  <2>5. m > 0 => r <= L
    BY <1>1, <2>3, <2>4
  <2> QED BY <1>1, <2>4, <2>5 DEF r
<1>3. \A i \in 1 .. m : Char(i) = contents[p + i] /\ Char(i) \in Byte
  <2> SUFFICES ASSUME NEW i \in 1 .. m
               PROVE  Char(i) = contents[p + i] /\ Char(i) \in Byte
    OBVIOUS
  <2>1. i \in Nat \ {0}
    BY <1>1
  <2>2. p + i \in 1 .. L /\ p + i <= L
    <3> HIDE DEF p, L
    <3> QED BY <1>1, <1>2
  <2>3. Char(i) = contents[p + i]
    BY <2>1, <2>2, CharEnds
  <2> QED BY <1>1, <2>2, <2>3, ElementOfSeq
<1> HIDE DEF p, L
<1>4. c \in Seq(Byte) /\ Len(c) = m /\ \A i \in 1 .. m : c[i] = Char(i)
  <2>1. c = [i \in 1 .. m |-> c[i]] /\ \A i \in 1 .. m : c[i] \in Byte
    BY <1>3 DEF IsSeq
  <2>2. c \in [1 .. m -> Byte]
    BY <2>1
  <2> QED BY <1>1, <2>2
<1>5. rest \in Seq(Byte) /\ Len(rest) = n - m
  <2>1. rest \in [1 .. n - m -> Byte]
    BY DEF Byte
  <2> QED BY <1>1, <2>1
<1>6. /\ v \in Seq(Byte) /\ Len(v) = m + (n - m)
      /\ \A i \in 1 .. m : v[i] = c[i]
  <2>1. /\ v \in Seq(Byte) /\ Len(v) = Len(c) + Len(rest)
        /\ \A i \in 1 .. Len(c) + Len(rest) :
               v[i] = IF i <= Len(c) THEN c[i] ELSE rest[i - Len(c)]
    BY <1>4, <1>5, ConcatProperties
  <2> HIDE DEF v
  <2>2. \A i \in 1 .. m : i \in 1 .. m + (n - m) /\ i <= m
    BY <1>1
  <2> QED BY <1>4, <1>5, <2>1, <2>2
<1>7. Len(v) = n
  <2> HIDE DEF v
  <2> QED BY <1>1, <1>6
<1> HIDE DEF v
<1>8. s \in Seq(Byte) /\ Len(s) = m /\ \A i \in 1 .. m : s[i] = v[i]
  <2>1. \A i \in 1 .. m : v[i] \in Byte
    BY <1>3, <1>4, <1>6
  <2>2. /\ s \in Seq(Byte)
        /\ Len(s) = IF 1 <= m THEN m - 1 + 1 ELSE 0
        /\ \A i \in 1 .. m - 1 + 1 : s[i] = v[1 + i - 1]
    <3>1. m \in Int /\ 1 \in Int
      BY <1>1
    <3> QED BY <2>1, <3>1, SubSeqProperties
  <2> HIDE DEF s
  <2>3. Len(s) = m /\ m - 1 + 1 = m /\ \A i \in 1 .. m : 1 + i - 1 = i
    BY <1>1, <2>2
  <2> QED BY <2>2, <2>3
<1>9. t \in Seq(Byte) /\ Len(t) = m /\ \A i \in 1 .. m : t[i] = contents[p + i]
  <2>1. t = File!Slice(contents, p, p + m)
    BY <1>2
  <2> HIDE DEF t
  <2>2. /\ t \in Seq(Byte)
        /\ Len(t) = IF p < File!Least(p + m, Len(contents))
                    THEN File!Least(p + m, Len(contents)) - p ELSE 0
        /\ \A i \in 1 .. Len(t) : t[i] = contents[p + i]
    BY ONLY <1>1, <1>2, <2>1, SliceIs
  <2>3. Len(t) = m
    BY <1>1, <1>2, <2>2 DEF File!Least, L
  <2> QED BY <2>2, <2>3
<1> HIDE DEF s, t
<1>10. s = t
  <2>1. \A i \in 1 .. Len(s) : s[i] = t[i]
    BY <1>3, <1>4, <1>6, <1>8, <1>9
  <2> QED BY <1>8, <1>9, <2>1, SeqEqual
<1> QED BY <1>7, <1>10 DEF v, s, t, p

LEMMA TextLength ==
    ASSUME Typed, lo \in Object, InStep(lo), NEW k \in Nat
    PROVE  Len(File!Slice(contents, Current(lo), Reached(k))) = Reached(k) - Current(lo)
<1> DEFINE p == Current(lo)
           L == Len(contents)
           r == Reached(k)
           t == File!Slice(contents, p, r)
<1>1. p \in Nat /\ L \in Nat /\ contents \in Seq(Byte)
  BY CurrentType, LenProperties DEF Typed
<1>2. /\ p + k <= L => r = p + k
      /\ p + k > L /\ p <= L => r = L
      /\ p > L => r = p
      /\ r \in Nat
  BY ReachedIs
<1>3. Len(t) = IF p < File!Least(r, Len(contents))
               THEN File!Least(r, Len(contents)) - p ELSE 0
  <2> HIDE DEF p, r
  <2> QED BY <1>1, <1>2, SliceIs
<1> HIDE DEF p, r, t
<1>4. Len(t) = r - p
  BY <1>1, <1>2, <1>3 DEF File!Least
<1> QED BY <1>4 DEF p, r, t

\* Where readlines(hint) stops.
LEMMA LinesStop ==
    ASSUME Typed, lo \in Object, InStep(lo), Positive,
           NEW hint \in Nat, NEW k \in Nat \ {0},
           \/ Char(k) <= 0 /\ (k = 1 \/ EndsLine(Char(k - 1)))
           \/ hint > 0 /\ EndsLine(Char(k)) /\ Reached(k) - Current(lo) > hint,
           \A j \in 1 .. k - 1 :
               ~(hint > 0 /\ EndsLine(Char(j)) /\ Reached(j) - Current(lo) > hint)
    PROVE  Reached(k) =
               File!FirstOr({e \in File!LineEnds(Current(lo)) :
                                 hint > 0 /\ e - Current(lo) > hint},
                            File!Greatest(Current(lo), Len(contents)))
<1> DEFINE p == Current(lo)
           L == Len(contents)
           S == File!LineEnds(p)
           T == {e \in S : hint > 0 /\ e - p > hint}
           g == File!Greatest(p, L)
<1>1. p \in Nat /\ L \in Nat
  BY CurrentType, LenProperties DEF Typed
<1>2. /\ S \in SUBSET Nat
      /\ \A f \in S : /\ f - p \in Nat \ {0} /\ f <= L
                      /\ f = L \/ Char(f - p) = 10
      /\ \A j \in Nat \ {0} : /\ Char(j) = 10 => p + j \in S
                              /\ p + j = L => L \in S
  BY LineEndsAre
<1>3. /\ p + k <= L => Reached(k) = p + k
      /\ p + k > L /\ p <= L => Reached(k) = L
      /\ p > L => Reached(k) = p
      /\ Reached(k) \in Nat
  BY ReachedIs
<1>4. /\ EndsLine(Char(k)) <=> Char(k) \in {EOF, 10}
      /\ Char(k) = EOF <=> p + k > L
      /\ Char(k) <= 0 <=> Char(k) = EOF
  BY CharEnds
<1>5. \A j \in 1 .. k - 1 : p + j <= L => Reached(j) = p + j
  <2> SUFFICES ASSUME NEW j \in 1 .. k - 1
               PROVE  p + j <= L => Reached(j) = p + j
    OBVIOUS
  <2>1. j \in Nat
    OBVIOUS
  <2> QED BY <2>1, ReachedIs
<1>6. /\ T \in SUBSET Nat
      /\ \A f \in T : f \in S /\ hint > 0 /\ f - p > hint
      /\ \A f \in S : hint > 0 /\ f - p > hint => f \in T
  <2> HIDE DEF S
  <2> QED BY <1>2
<1> HIDE DEF T, S, p, L
\* A line that ends before, within the contents, was not enough.
<1>7. \A f \in T : f >= p + k \/ f = L
  <2> SUFFICES ASSUME NEW f \in T, f < p + k, f # L
               PROVE  FALSE
    BY <1>1, <1>6
  <2>1. f \in S /\ hint > 0 /\ f - p > hint /\ f \in Nat
    BY <1>6
  <2>2. Char(f - p) = 10 /\ f <= L /\ f - p \in Nat \ {0}
    BY <1>2, <2>1
  <2>3. f - p \in 1 .. k - 1 /\ p + (f - p) = f
    BY <1>1, <2>1, <2>2
  <2>4. Reached(f - p) = f
    BY <1>5, <2>2, <2>3
  <2> QED BY <2>1, <2>2, <2>3, <2>4 DEF EndsLine, p
<1>8. CASE p + k > L
  <2>1. Reached(k) = g
    BY <1>1, <1>3, <1>8 DEF File!Greatest
  <2>2. \A f \in T : f = L /\ f > p
    BY <1>1, <1>2, <1>6, <1>7, <1>8
  <2>3. CASE T = {}
    BY <1>6, <2>1, <2>3, FirstOrIs DEF T, S, p, L
  <2>4. CASE T # {}
    <3>1. L \in T /\ L > p
      BY <2>2, <2>4
    <3>2. g = L
      BY <1>1, <3>1 DEF File!Greatest
    <3>3. \A f \in T : L <= f
      BY <1>1, <2>2
    <3> HIDE DEF g
    <3>4. File!FirstOr(T, g) = L
      BY <1>6, <3>1, <3>3, FirstIs
    <3> QED BY <2>1, <3>2, <3>4 DEF T, S, p, L, g
  <2> QED BY <2>3, <2>4
<1>9. CASE p + k <= L
  <2>1. Char(k) # EOF /\ Reached(k) = p + k
    BY <1>1, <1>3, <1>4, <1>9
  <2>2. hint > 0 /\ EndsLine(Char(k)) /\ Reached(k) - p > hint
    BY <1>4, <2>1 DEF p
  <2>3. Char(k) = 10
    BY <1>4, <2>1, <2>2
  <2>4. p + k \in T
    BY <1>2, <1>6, <2>1, <2>2, <2>3
  <2>5. \A f \in T : p + k <= f
    BY <1>1, <1>6, <1>7, <1>9
  <2> HIDE DEF g
  <2>6. File!FirstOr(T, g) = p + k
    BY <1>6, <2>4, <2>5, FirstIs
  <2> QED BY <2>1, <2>6 DEF T, S, p, L, g
<1> QED BY <1>1, <1>8, <1>9

-----------------------------------------------------------------------------
(* Every step is one of the file's. *)

\* Where the file of a PgLargeObject is.
Pos == IF lo.lo_fd < 0 THEN 0 ELSE Current(lo)

LEMMA Standing ==
    ASSUME Sound
    PROVE  /\ lo.lo_fd < 0 => lo.lo_mode = {} /\ Pos = 0
           /\ lo.lo_fd >= 0 => /\ ~(lo.lo_fd < 0) /\ lo.lo_mode # {} /\ Pos = Current(lo)
                               /\ Typed /\ lo \in Object /\ InStep(lo)
           /\ lo.lo_fd < 0 \/ lo.lo_fd >= 0
           /\ contents \in Seq(Byte)
<1>1. lo.lo_fd \in {-1, 0}
  BY DEF Sound, Object
<1> QED BY <1>1, ClosedType DEF Sound, Pos, Typed

LEMMA MovedPos ==
    ASSUME Sound, lo.lo_fd >= 0, NEW e, Moved(e)
    PROVE  Pos' = e /\ lo'.lo_mode = lo.lo_mode /\ UNCHANGED contents
<1>1. lo'.lo_fd = lo.lo_fd /\ ~(lo.lo_fd < 0) /\ Current(lo') = e
  BY Standing DEF Moved
<1>2. ~(lo'.lo_fd < 0)
  BY <1>1
<1>3. Pos' = IF lo'.lo_fd < 0 THEN 0 ELSE Current(lo')
  BY DEF Pos, Current
<1> QED BY <1>1, <1>2, <1>3 DEF Moved

LEMMA ReadsAsFile ==
    ASSUME Sound, Checks({"INV_READ"}), NEW e, ReadsTo(e)
    PROVE  File!ReadTo(e)
<1>1. lo.lo_fd >= 0 /\ "INV_READ" \in lo.lo_mode
  BY DEF Checks
<1>2. Pos' = e /\ lo'.lo_mode = lo.lo_mode /\ UNCHANGED contents /\ Pos = Current(lo)
  BY <1>1, MovedPos, Standing DEF ReadsTo
<1>3. result' = File!Value(File!Slice(contents, Pos, e))
  BY <1>2 DEF ReadsTo
<1> QED BY <1>1, <1>2, <1>3 DEF File!ReadTo, Pos

LEMMA RefusesAsFile ==
    ASSUME Sound, NEW r, Refused(r)
    PROVE  File!Refuse(r)
<1>1. lo.lo_mode = {} \/ ~(r \subseteq lo.lo_mode)
  BY Standing DEF Refused, Checks
<1>2. UNCHANGED <<contents, lo>> /\ result' = File!Raised("InterfaceError")
  BY DEF Refused, Raises
<1>3. UNCHANGED <<contents, Pos, lo.lo_mode>>
  BY <1>2 DEF Pos, Current
<1> QED BY <1>1, <1>2, <1>3 DEF File!Refuse, Pos

LEMMA CalledIs ==
    ASSUME NEW o, NEW n, NEW w, NEW s, Called(o, n, w, s)
    PROVE  call'.op = o /\ call'.number = n /\ call'.whence = w /\ call'.text = s
BY DEF Called, File!Call

LEMMA OpenAsFile ==
    ASSUME Sound, NEW m \in SUBSET Rights, Open(m)
    PROVE  File!Open \/ File!RefuseOpen
<1>1. CASE /\ result' = File!Raised("InterfaceError") \/ result' = File!Raised("ValueError")
           /\ UNCHANGED <<contents, lo>>
  <2>1. UNCHANGED <<contents, Pos, lo.lo_mode>>
    BY <1>1 DEF Pos, Current
  <2>2. result'.exc \in {"InterfaceError", "ValueError"}
    BY <1>1 DEF File!Raised
  <2> QED BY <2>1, <2>2 DEF File!RefuseOpen, Pos
<1>2. CASE /\ lo.lo_fd < 0
           /\ m # {}
           /\ lo' = [lo EXCEPT !.lo_fd = 0, !.lo_mode = m, !.lo_idx = 0, !.lo_size = 0,
                               !.lo_tell = 0]
           /\ result' = File!Value(<<>>)
           /\ UNCHANGED contents
  <2>1. lo = ClosedObject
    BY <1>2 DEF Sound
  <2>2. lo' = [lo_fd |-> 0, lo_mode |-> m, lo_offset |-> 0, lo_size |-> 0, lo_idx |-> 0,
               lo_buf |-> <<>>, lo_tell |-> 0]
    BY <1>2, <2>1 DEF ClosedObject
  <2>3. Pos' = 0
    BY <2>2 DEF Pos, Current
  <2>4. lo.lo_mode = {} /\ lo'.lo_mode # {}
    BY <1>2, <2>2, Standing
  <2> QED BY <1>2, <2>3, <2>4 DEF File!Open, File!None, Pos
<1> QED BY <1>1, <1>2 DEF Open, Raises, Returns

LEMMA CloseAsFile ==
    ASSUME Sound, Close
    PROVE  File!Close \/ File!Refuse({})
<1>1. CASE Refused({})
  BY <1>1, RefusesAsFile
<1>2. CASE Checks({}) /\ lo' = ClosedObject /\ Returns(<<>>) /\ UNCHANGED contents
  <2>1. lo.lo_mode # {}
    BY <1>2, Standing DEF Checks
  <2>2. lo'.lo_mode = {} /\ lo'.lo_fd = -1
    BY <1>2, ClosedType
  <2>3. Pos' = 0
    BY <2>2 DEF Pos
  <2> QED BY <1>2, <2>1, <2>2, <2>3 DEF File!Close, File!None, Returns, Pos
<1> QED BY <1>1, <1>2 DEF Close

LEMMA ReadAsFile ==
    ASSUME Sound, NEW n \in Nat, Read(n)
    PROVE  \/ n > 0 /\ File!Read(n)
           \/ n = 0 /\ (File!ReadAll \/ File!RefusePastEnd)
           \/ File!Refuse({"INV_READ"})
<1>1. CASE Refused({"INV_READ"})
  BY <1>1, RefusesAsFile
<1>2. CASE ~Refused({"INV_READ"})
  <2>1. Checks({"INV_READ"}) /\ lo.lo_fd >= 0 /\ Pos = Current(lo)
    BY <1>2, ReadIs, Standing DEF Checks
  <2>2. CASE /\ n > 0
             /\ ReadsTo(File!Greatest(Current(lo),
                                      File!Least(Current(lo) + n, Len(contents))))
    <3>1. File!ReadTo(File!Greatest(Pos, File!Least(Pos + n, Len(contents))))
      BY <2>1, <2>2, ReadsAsFile
    <3> QED BY <2>2, <3>1 DEF File!Read, Pos
  <2>3. CASE n = 0 /\ Current(lo) <= Len(contents) /\ ReadsTo(Len(contents))
    <3>1. Pos <= Len(contents) /\ File!ReadTo(Len(contents))
      BY <2>1, <2>3, ReadsAsFile
    <3> QED BY <2>3, <3>1 DEF File!ReadAll, Pos
  <2>4. CASE /\ n = 0
             /\ Current(lo) > Len(contents)
             /\ Moved(Current(lo))
             /\ Raises(PastEnd(Len(contents) + 1 - Current(lo)))
    <3>1. Pos' = Pos /\ lo'.lo_mode = lo.lo_mode /\ UNCHANGED contents
      BY <2>1, <2>4, MovedPos
    <3>2. /\ Pos > Len(contents)
          /\ result' = File!Raised(IF Pos = Len(contents) + 1 THEN "SystemError" ELSE "MemoryError")
      <4>1. Pos \in Nat /\ Len(contents) \in Nat
        BY <2>1, CurrentType, LenProperties DEF Sound, Typed
      <4>2. Len(contents) + 1 - Pos = 0 <=> Pos = Len(contents) + 1
        BY <4>1
      <4> QED BY <2>1, <2>4, <4>2 DEF Raises, PastEnd
    <3> QED BY <2>4, <3>1, <3>2 DEF File!RefusePastEnd, Pos
  <2> QED BY <1>2, <2>2, <2>3, <2>4, ReadIs
<1> QED BY <1>1, <1>2

LEMMA ReadlineAsFile ==
    ASSUME Sound, Positive, Readline
    PROVE  File!ReadLine \/ File!Refuse({"INV_READ"})
<1>1. CASE Refused({"INV_READ"})
  BY <1>1, RefusesAsFile
<1>2. CASE ~Refused({"INV_READ"})
  <2>1. Checks({"INV_READ"}) /\ lo.lo_fd >= 0 /\ Pos = Current(lo)
        /\ Typed /\ lo \in Object /\ InStep(lo)
    BY <1>2, ReadlineIs, Standing DEF Checks
  <2>2. PICK k \in Nat \ {0} : /\ EndsLine(Char(k))
                               /\ \A j \in 1 .. k - 1 : ~EndsLine(Char(j))
                               /\ ReadsTo(Reached(k))
    BY <1>2, ReadlineIs
  <2>3. File!FirstOr(File!LineEnds(Current(lo)), Current(lo)) = Reached(k)
    BY <2>1, <2>2, FirstLineEnd
  <2>4. File!ReadTo(File!FirstOr(File!LineEnds(Pos), Pos))
    BY <2>1, <2>2, <2>3, ReadsAsFile
  <2> QED BY <2>4 DEF File!ReadLine, Pos
<1> QED BY <1>1, <1>2

LEMMA ReadlineOfAsFile ==
    ASSUME Sound, Positive, NEW n \in Nat \ {0}, ReadlineOf(n)
    PROVE  File!ReadLineOf(n) \/ File!Refuse({"INV_READ"})
<1>1. CASE Refused({"INV_READ"})
  BY <1>1, RefusesAsFile
<1>2. CASE ~Refused({"INV_READ"})
  <2>1. Checks({"INV_READ"})
    BY <1>2, ReadlineOfIs
  <2>2. /\ "INV_READ" \in lo.lo_mode /\ lo.lo_fd >= 0 /\ Pos = Current(lo)
        /\ Typed /\ lo \in Object /\ InStep(lo)
    BY <2>1, Standing DEF Checks
  <2>3. PICK k \in 1 .. n, m \in 0 .. n :
            /\ Moved(Reached(k))
            /\ k = n \/ Char(k) \in {EOF, 10}
            /\ \A j \in 1 .. k - 1 : Char(j) \notin {EOF, 10}
            /\ m = IF Char(k) = EOF THEN k - 1 ELSE k
            /\ \E rest \in [1 .. n - m -> Bytes] :
                   result' = File!Value([i \in 1 .. m |-> Char(i)] \o rest)
    BY <1>2, ReadlineOfIs
  <2>4. PICK rest \in [1 .. n - m -> Bytes] :
            result' = File!Value([i \in 1 .. m |-> Char(i)] \o rest)
    BY <2>3
  <2>5. /\ Reached(k) = File!Least(Current(lo) + n,
                            File!FirstOr(File!LineEnds(Current(lo)), Current(lo)))
        /\ Reached(k) - Current(lo) = IF Char(k) = EOF THEN k - 1 ELSE k
    BY <2>2, <2>3, LineOfStops
  <2>6. Reached(k) - Current(lo) = m /\ k \in Nat /\ n \in Nat
    BY <2>3, <2>5
  <2> DEFINE c == [i \in 1 .. m |-> Char(i)]
             v == c \o rest
  <2>7. Len(v) = n /\ SubSeq(v, 1, m) = File!Slice(contents, Current(lo), Reached(k))
    <3>1. IsSeq(c, m) /\ \A i \in 1 .. m : c[i] = Char(i)
      BY DEF IsSeq
    <3> HIDE DEF c
    <3> QED BY <2>2, <2>6, <3>1, LineOfText
  <2> HIDE DEF v
  <2>8. Pos' = Reached(k) /\ lo'.lo_mode = lo.lo_mode /\ UNCHANGED contents
    BY <2>2, <2>3, MovedPos
  <2>9. result'.exc = "none" /\ result'.value = v
    BY <2>4 DEF File!Value, v
  <2>10. /\ Pos' = File!Least(Pos + n, File!FirstOr(File!LineEnds(Pos), Pos))
         /\ Len(result'.value) = n
         /\ SubSeq(result'.value, 1, Pos' - Pos) = File!Slice(contents, Pos, Pos')
    BY <2>2, <2>5, <2>6, <2>7, <2>8, <2>9
  <2> QED BY <2>2, <2>8, <2>9, <2>10 DEF File!ReadLineOf, Pos
<1> QED BY <1>1, <1>2

LEMMA ReadlinesAsFile ==
    ASSUME Sound, Positive, NEW hint \in Nat, Readlines(hint)
    PROVE  File!ReadLines(hint) \/ File!Refuse({"INV_READ"})
<1>1. CASE Refused({"INV_READ"})
  BY <1>1, RefusesAsFile
<1>2. CASE ~Refused({"INV_READ"})
  <2> DEFINE len(i) == Len(File!Slice(contents, Current(lo), Reached(i)))
             empty(i) == Char(i) <= 0 /\ (i = 1 \/ EndsLine(Char(i - 1)))
             enough(i) == hint > 0 /\ EndsLine(Char(i)) /\ len(i) > hint
             far(i) == hint > 0 /\ EndsLine(Char(i)) /\ Reached(i) - Current(lo) > hint
  <2>1. Checks({"INV_READ"})
    BY <1>2, ReadlinesIs
  <2>2. /\ lo.lo_fd >= 0 /\ Pos = Current(lo)
        /\ Typed /\ lo \in Object /\ InStep(lo)
    BY <2>1, Standing DEF Checks
  <2>3. PICK k \in 1 .. MaxLen + 2 :
            /\ ReadsTo(Reached(k))
            /\ empty(k) \/ enough(k)
            /\ \A j \in 1 .. k - 1 : ~empty(j) /\ ~enough(j)
    BY <1>2, ReadlinesIs
  <2>4. k \in Nat \ {0}
    BY LargeObjectAssumption
  <2>5. \A i \in Nat : len(i) = Reached(i) - Current(lo)
    BY <2>2, TextLength
  <2> HIDE DEF len
  <2>6. \A i \in Nat : enough(i) <=> far(i)
    BY <2>5
  <2> HIDE DEF enough, far, empty
  <2>7. /\ empty(k) \/ far(k)
        /\ \A j \in 1 .. k - 1 : ~far(j)
    <3>1. \A j \in 1 .. k - 1 : j \in Nat
      OBVIOUS
    <3> QED BY <2>3, <2>4, <2>6, <3>1
  <2>8. Reached(k) =
            File!FirstOr({e \in File!LineEnds(Current(lo)) :
                              hint > 0 /\ e - Current(lo) > hint},
                         File!Greatest(Current(lo), Len(contents)))
    BY <2>2, <2>4, <2>7, LinesStop DEF far, empty
  <2>9. File!ReadTo(File!FirstOr({e \in File!LineEnds(Pos) : hint > 0 /\ e - Pos > hint},
                                 File!Greatest(Pos, Len(contents))))
    BY <2>1, <2>2, <2>3, <2>8, ReadsAsFile
  <2> QED BY <2>9 DEF File!ReadLines, Pos
<1> QED BY <1>1, <1>2

LEMMA WriteAsFile ==
    ASSUME Sound, NEW s \in Seq(Bytes), Write(s)
    PROVE  File!Write(s) \/ File!Refuse({"INV_WRITE"})
<1>1. CASE Refused({"INV_WRITE"})
  BY <1>1, RefusesAsFile
<1>2. CASE ~Refused({"INV_WRITE"})
  <2>1. /\ Checks({"INV_WRITE"})
        /\ contents' = File!Overwritten(contents, Current(lo), s)
        /\ lo'.lo_fd = lo.lo_fd /\ lo'.lo_mode = lo.lo_mode
        /\ Current(lo)' = Current(lo) + Len(s)
        /\ result' = File!None
    BY <1>2, WriteIs
  <2>2. lo.lo_fd >= 0 /\ "INV_WRITE" \in lo.lo_mode /\ Pos = Current(lo) /\ ~(lo.lo_fd < 0)
    BY <2>1, Standing DEF Checks
  <2>3. Pos' = Pos + Len(s)
    BY <2>1, <2>2 DEF Pos
  <2>4. contents' = File!Overwritten(contents, Pos, s)
    BY <2>1, <2>2
  <2> QED BY <2>1, <2>2, <2>3, <2>4 DEF File!Write, Pos
<1> QED BY <1>1, <1>2

LEMMA LseekAsFile ==
    ASSUME Sound, NEW off \in Int, Lseek(off, "SEEK_SET")
    PROVE  File!Seek(off, "SEEK_SET") \/ File!Refuse({})
<1>1. CASE Refused({})
  BY <1>1, RefusesAsFile
<1>2. CASE ~Refused({})
  <2>1. SeekTarget(off, "SEEK_SET") = off /\ File!SeekTarget(off, "SEEK_SET") = off
    BY DEF SeekTarget, File!SeekTarget
  <2>2. Checks({}) /\ Moved(off) /\ result' = File!None
    BY <1>2, <2>1, LseekIs
  <2>3. lo.lo_fd >= 0 /\ lo.lo_mode # {}
    BY <2>2, Standing DEF Checks
  <2>4. Pos' = off /\ lo'.lo_mode = lo.lo_mode /\ UNCHANGED contents
    BY <2>2, <2>3, MovedPos
  <2> QED BY <2>1, <2>2, <2>3, <2>4 DEF File!Seek, Pos
<1> QED BY <1>1, <1>2

LEMMA TellAsFile ==
    ASSUME Sound, Tell
    PROVE  File!Tell \/ File!Refuse({})
<1>1. CASE Refused({})
  BY <1>1, RefusesAsFile
<1>2. CASE Checks({}) /\ Returns(<<Current(lo)>>) /\ UNCHANGED <<contents, lo>>
  <2>1. lo.lo_mode # {} /\ Pos = Current(lo)
    BY <1>2, Standing DEF Checks
  <2>2. UNCHANGED <<contents, Pos, lo.lo_mode>>
    BY <1>2 DEF Pos, Current
  <2>3. result' = File!Value(<<Pos>>)
    BY <1>2, <2>1 DEF Returns
  <2> QED BY <2>1, <2>2, <2>3 DEF File!Tell, Pos
<1> QED BY <1>1, <1>2 DEF Tell

LEMMA AttributeAsFile ==
    ASSUME Sound, Attribute
    PROVE  File!Answer \/ File!Refuse({"INV_WRITE"})
<1>1. CASE Refused({"INV_WRITE"})
  BY <1>1, RefusesAsFile
<1>2. CASE /\ Checks({"INV_WRITE"})
           /\ result' \in {File!None, File!Value(<<0>>)}
           /\ UNCHANGED <<contents, lo>>
  <2>1. lo.lo_mode # {}
    BY <1>2, Standing DEF Checks
  <2>2. UNCHANGED <<contents, Pos, lo.lo_mode>>
    BY <1>2 DEF Pos, Current
  <2> QED BY <1>2, <2>1, <2>2 DEF File!Answer, Pos
<1> QED BY <1>1, <1>2 DEF Attribute

\* Without a hole there is no byte zero, which would end a line for lo_getch.
LEMMA PositiveKept ==
    ASSUME Holes = FALSE, Sound, Positive, [Next]_vars
    PROVE  Positive'
<1>1. CASE UNCHANGED contents
  BY <1>1 DEF Positive
<1>2. ASSUME NEW s \in BoundedSeq(Bytes, 2), Write(s), ~Refused({"INV_WRITE"})
      PROVE  Positive'
  <2>1. s \in Seq(Bytes)
    <3>1. PICK m \in 0 .. 2 : s \in [1 .. m -> Bytes]
      BY DEF BoundedSeq, SeqOf
    <3>2. m \in Nat
      OBVIOUS
    <3> QED BY <3>1, <3>2, SequenceOf
  <2> DEFINE p == Current(lo)
             w == File!Overwritten(contents, p, s)
  <2>2. contents' = w /\ p <= Len(contents) /\ lo.lo_fd >= 0
    BY <1>2, <2>1, WriteIs DEF Checks
  <2>3. p \in Nat /\ contents \in Seq(Byte) /\ Len(contents) \in Nat
    BY <2>2, Standing, CurrentType, LenProperties
  <2>4. s \in Seq(Byte) /\ Len(s) \in Nat /\ \A i \in 1 .. Len(s) : s[i] > 0
    <3>1. s \in [1 .. Len(s) -> Bytes] /\ Len(s) \in Nat
      BY <2>1, LenProperties
    <3>2. \A b \in Bytes : b > 0
      <4>1. \A b \in 1 .. 127 : b > 0
        OBVIOUS
      <4> QED BY <4>1, LargeObjectAssumption
    <3>3. s \in [1 .. Len(s) -> Byte]
      BY <3>1 DEF Byte
    <3> QED BY <3>1, <3>2, <3>3, SequenceOf
  <2> HIDE DEF p
  <2>5. /\ Len(w) = IF s = <<>> THEN Len(contents) ELSE File!Greatest(Len(contents), p + Len(s))
        /\ \A i \in 1 .. Len(w) :
              w[i] = IF p < i /\ i <= p + Len(s) THEN s[i - p]
                     ELSE IF i <= Len(contents) THEN contents[i] ELSE 0
    BY <2>3, <2>4, WrittenIs
  <2> HIDE DEF w
  <2>6. ASSUME NEW i \in 1 .. Len(w)
        PROVE  w[i] > 0
    <3>1. i \in Nat /\ i > 0 /\ (i <= Len(contents) \/ i <= p + Len(s))
      BY <2>3, <2>4, <2>5 DEF File!Greatest
    <3>2. CASE p < i /\ i <= p + Len(s)
      <4>1. i - p \in 1 .. Len(s)
        BY <2>3, <2>4, <3>1, <3>2
      <4> QED BY <2>4, <2>5, <3>2, <4>1
    <3>3. CASE ~(p < i /\ i <= p + Len(s))
      <4>1. i \in 1 .. Len(contents)
        BY <2>2, <2>3, <2>4, <3>1, <3>3
      <4>2. w[i] = contents[i]
        BY <2>5, <3>3, <4>1
      <4> QED BY <4>1, <4>2 DEF Positive
    <3> QED BY <3>2, <3>3
  <2> QED BY <2>2, <2>6 DEF Positive
<1>3. CASE ~UNCHANGED contents
  <2>1. PICK s \in BoundedSeq(Bytes, 2) : Write(s)
    BY <1>3 DEF Next, vars, Open, Close, Read, Readline, ReadlineOf, Readlines, Lseek, Tell,
                Attribute, Refused
  <2>2. ~Refused({"INV_WRITE"})
    BY <1>3 DEF Refused
  <2> QED BY <1>2, <2>1, <2>2
<1> QED BY <1>1, <1>3

LEMMA NextAsFile ==
    ASSUME Whences \subseteq {"SEEK_SET"}, Sound, Positive, [Next]_vars
    PROVE  [File!Next]_(File!vars)
<1>1. ASSUME NEW m \in SUBSET Rights, Called("open", 0, "none", <<>>), Open(m)
      PROVE  File!Next
  BY <1>1, CalledIs, OpenAsFile DEF File!Next
<1>2. ASSUME Called("close", 0, "none", <<>>), Close
      PROVE  File!Next
  BY <1>2, CalledIs, CloseAsFile DEF File!Next
<1>3. ASSUME NEW n \in Sizes, Called("read", n, "none", <<>>), Read(n)
      PROVE  File!Next
  <2>1. n \in Nat
    BY LargeObjectAssumption
  <2>2. call'.op = "read" /\ call'.number = n
    BY <1>3, CalledIs
  <2>3. \/ n > 0 /\ File!Read(n)
        \/ n = 0 /\ (File!ReadAll \/ File!RefusePastEnd)
        \/ File!Refuse({"INV_READ"})
    BY <1>3, <2>1, ReadAsFile
  <2> QED BY <2>2, <2>3 DEF File!Next
<1>4. ASSUME Called("readline", 0, "none", <<>>), Readline
      PROVE  File!Next
  <2>1. call'.op = "readline" /\ call'.number = 0
    BY <1>4, CalledIs
  <2>2. File!ReadLine \/ File!Refuse({"INV_READ"})
    BY <1>4, ReadlineAsFile
  <2> QED BY <2>1, <2>2 DEF File!Next
<1>5. ASSUME NEW n \in Sizes \ {0}, Called("readline", n, "none", <<>>), ReadlineOf(n)
      PROVE  File!Next
  <2>1. n \in Nat \ {0} /\ n > 0
    BY LargeObjectAssumption
  <2>2. call'.op = "readline" /\ call'.number = n
    BY <1>5, CalledIs
  <2>3. File!ReadLineOf(n) \/ File!Refuse({"INV_READ"})
    BY <1>5, <2>1, ReadlineOfAsFile
  <2> QED BY <2>1, <2>2, <2>3 DEF File!Next
<1>6. ASSUME NEW n \in Sizes, Called("readlines", n, "none", <<>>), Readlines(n)
      PROVE  File!Next
  <2>1. n \in Nat
    BY LargeObjectAssumption
  <2>2. call'.op = "readlines" /\ call'.number = n
    BY <1>6, CalledIs
  <2>3. File!ReadLines(n) \/ File!Refuse({"INV_READ"})
    BY <1>6, <2>1, ReadlinesAsFile
  <2> QED BY <2>2, <2>3 DEF File!Next
<1>7. ASSUME NEW s \in BoundedSeq(Bytes, 2), Called("write", 0, "none", s), Write(s)
      PROVE  File!Next
  <2>1. s \in Seq(Bytes)
    <3>1. PICK m \in 0 .. 2 : s \in [1 .. m -> Bytes]
      BY DEF BoundedSeq, SeqOf
    <3>2. m \in Nat
      OBVIOUS
    <3> QED BY <3>1, <3>2, SequenceOf
  <2>2. call'.op = "write" /\ call'.text = s
    BY <1>7, CalledIs
  <2>3. File!Write(s) \/ File!Refuse({"INV_WRITE"})
    BY <1>7, <2>1, WriteAsFile
  <2> QED BY <2>2, <2>3 DEF File!Next
<1>8. ASSUME NEW n \in Offsets, NEW w \in Whences, Called("seek", n, w, <<>>), Lseek(n, w)
      PROVE  File!Next
  <2>1. n \in Int /\ w = "SEEK_SET"
    BY LargeObjectAssumption
  <2>2. call'.op = "seek" /\ call'.number = n /\ call'.whence = "SEEK_SET"
    BY <1>8, <2>1, CalledIs
  <2>3. File!Seek(n, "SEEK_SET") \/ File!Refuse({})
    BY <1>8, <2>1, LseekAsFile
  <2> QED BY <2>2, <2>3 DEF File!Next
<1>9. ASSUME Called("tell", 0, "none", <<>>), Tell
      PROVE  File!Next
  BY <1>9, CalledIs, TellAsFile DEF File!Next
<1>10. ASSUME Called("attribute", 0, "none", <<>>), Attribute
       PROVE  File!Next
  BY <1>10, CalledIs, AttributeAsFile DEF File!Next
<1>11. CASE UNCHANGED vars
  BY <1>11 DEF vars, File!vars, Current
<1>12. CASE Next
  <2>1. File!Next
    BY <1>1, <1>2, <1>3, <1>4, <1>5, <1>6, <1>7, <1>8, <1>9, <1>10, <1>12 DEF Next
  <2> QED BY <2>1
<1> QED BY <1>11, <1>12

\* A PgLargeObject is a file with one position, one whose read() past the end
\* raises: with no hole in the object, and absolute offsets for seek(), no
\* sequence of open, close, read, readline, readlines, write, seek and tell, for
\* any size of buffer, object and request, shows that lo_getch reads ahead.
THEOREM LargeObjectIsFile ==
    ASSUME Holes = FALSE, Whences \subseteq {"SEEK_SET"}
    PROVE  Spec => IsFile
<1>1. Init => Positive /\ File!Init
  <2> SUFFICES ASSUME Init
               PROVE  Positive /\ File!Init
    OBVIOUS
  <2>1. PICK m \in 0 .. MaxLen : contents \in [1 .. m -> Bytes]
    BY DEF Init, BoundedSeq, SeqOf
  <2>2. m \in Nat
    BY LargeObjectAssumption
  <2>3. contents \in Seq(Bytes) /\ \A b \in Bytes : b \in Int /\ b > 0
    <3>1. \A b \in 1 .. 127 : b \in Int /\ b > 0
      OBVIOUS
    <3> QED BY <2>1, <2>2, <3>1, SequenceOf, LargeObjectAssumption
  <2>4. Positive
    BY <2>3, ElementOfSeq DEF Positive
  <2>5. contents \in Seq(Int)
    <3>1. contents \in [1 .. m -> Int]
      BY <2>1, <2>3
    <3> QED BY <2>2, <3>1, SequenceOf
  <2>6. lo.lo_fd < 0 /\ lo.lo_mode = {}
    BY ClosedType DEF Init
  <2>7. call = File!NoCall /\ result = File!None
    BY DEF Init
  <2> QED BY <2>4, <2>5, <2>6, <2>7 DEF File!Init
<1>2. Positive /\ Sound /\ [Next]_vars => Positive' /\ [File!Next]_(File!vars)
  BY PositiveKept, NextAsFile
<1>3. Spec => []Sound
  BY SoundInvariant
<1> QED BY <1>1, <1>2, <1>3, PTL DEF Spec, IsFile, File!Spec

=============================================================================
