--------------------------- MODULE CursorFetchProofs ---------------------------
(***************************************************************************)
(* Theorems about CursorFetch, for queries of any size and fetches of any  *)
(* number of rows: the buffered cursor implements ResultStream.            *)
(***************************************************************************)
EXTENDS CursorFetch, SequenceTheorems, TLAPS

-----------------------------------------------------------------------------
(* The operators the rows are described with. *)

LEMMA LeastProperties ==
    ASSUME NEW a \in Int, NEW b \in Int
    PROVE  /\ Least(a, b) \in {a, b}
           /\ Least(a, b) <= a
           /\ Least(a, b) <= b
BY DEF Least, Stream!Least

LEMMA RunProperties ==
    ASSUME NEW a \in Nat, NEW b \in Nat, a <= b
    PROVE  /\ Run(a, b) \in Seq(Nat)
           /\ Len(Run(a, b)) = b - a
           /\ \A i \in 1 .. b - a : Run(a, b)[i] = a + i
<1>1. Run(a, b) = [i \in 1 .. b - a |-> a + i]
  BY DEF Run, Stream!Run
<1>2. b - a \in Nat /\ Run(a, b) \in [1 .. b - a -> Nat]
  BY <1>1
<1>3. Run(a, b) \in Seq(Nat)
  BY <1>2, SeqDef
<1>4. DOMAIN Run(a, b) = 1 .. Len(Run(a, b)) /\ Len(Run(a, b)) \in Nat
  BY <1>3, LenProperties
<1>5. DOMAIN Run(a, b) = 1 .. b - a
  BY <1>1
<1>6. Len(Run(a, b)) = b - a
  BY <1>2, <1>4, <1>5
<1> QED BY <1>1, <1>3, <1>6

\* Two runs that meet make one.
LEMMA RunConcat ==
    ASSUME NEW a \in Nat, NEW b \in Nat, NEW c \in Nat, a <= b, b <= c
    PROVE  Run(a, b) \o Run(b, c) = Run(a, c)
<1>1. /\ Run(a, b) \in Seq(Nat) /\ Len(Run(a, b)) = b - a
      /\ Run(b, c) \in Seq(Nat) /\ Len(Run(b, c)) = c - b
      /\ Run(a, c) \in Seq(Nat) /\ Len(Run(a, c)) = c - a
  <2>1. a <= c
    OBVIOUS
  <2> QED BY <2>1, RunProperties
<1> DEFINE s == Run(a, b) \o Run(b, c)
<1>2. /\ s \in Seq(Nat)
      /\ Len(s) = c - a
      /\ \A i \in 1 .. c - a : s[i] = IF i <= b - a THEN Run(a, b)[i] ELSE Run(b, c)[i - (b - a)]
  <2>1. /\ s \in Seq(Nat)
        /\ Len(s) = Len(Run(a, b)) + Len(Run(b, c))
        /\ \A i \in 1 .. Len(Run(a, b)) + Len(Run(b, c)) :
              s[i] = IF i <= Len(Run(a, b)) THEN Run(a, b)[i] ELSE Run(b, c)[i - Len(Run(a, b))]
    BY <1>1, ConcatProperties
  <2>2. (b - a) + (c - b) = c - a
    OBVIOUS
  <2> QED BY <1>1, <2>1, <2>2
<1>3. \A i \in 1 .. c - a : s[i] = a + i
  <2> SUFFICES ASSUME NEW i \in 1 .. c - a
               PROVE  s[i] = a + i
    OBVIOUS
  <2>1. CASE i <= b - a
    <3>1. i \in 1 .. b - a
      BY <2>1
    <3>2. \A j \in 1 .. b - a : Run(a, b)[j] = a + j
      BY RunProperties
    <3> QED BY <1>2, <2>1, <3>1, <3>2
  <2>2. CASE ~(i <= b - a)
    <3>1. i - (b - a) \in 1 .. c - b /\ b + (i - (b - a)) = a + i
      BY <2>2
    <3>2. \A j \in 1 .. c - b : Run(b, c)[j] = b + j
      BY RunProperties
    <3> QED BY <1>2, <2>2, <3>1, <3>2
  <2> QED BY <2>1, <2>2
<1>4. \A i \in 1 .. c - a : Run(a, c)[i] = a + i
  <2>1. a <= c
    OBVIOUS
  <2> QED BY <2>1, RunProperties
<1> HIDE DEF s
<1>5. s = Run(a, c)
  BY <1>1, <1>2, <1>3, <1>4, SeqEqual
<1> QED BY <1>5 DEF s

-----------------------------------------------------------------------------
(* The inductive invariant. *)

\* What ResultInStep rests on: what a result that is not of rows looks like.
Settled ==
    /\ res = "None" => base = 0 /\ rows = 0 /\ idx = 1 /\ size = 0 /\ ~alive
    /\ res = "other" => rows = 0 /\ idx = 0
    /\ closed = "None" /\ res # "rows" => base = 0 /\ size = 0

Inv == TypeOK /\ ResultInStep /\ RowcountCountsRows /\ Settled

LEMMA OutProperties ==
    /\ Stream!Nothing.kind = "nothing" /\ Stream!Raised.kind = "raised"
    /\ \A k, s : Stream!Rows(k, s).kind = "rows" /\ Stream!Rows(k, s).rows = s
BY DEF Stream!Nothing, Stream!Raised, Stream!Rows

\* No call about statements breaks the invariant.
LEMMA StatementInv ==
    ASSUME Inv,
           \/ Reset \/ ExecuteOther \/ ExecuteFails \/ SelectFails \/ PortalLost
           \/ \E n \in Sizes : ExecuteDirect(n) \/ ExecutePortal(n)
           \/ \E n \in Counts : SetArraysize(n)
    PROVE  Inv'
<1> USE OutProperties, CursorFetchAssumption
    DEF Inv, TypeOK, ResultInStep, RowcountCountsRows, Settled, Returns, Raises, ReturnsNothing,
        client, server
<1>1. CASE Reset
  BY <1>1 DEF Reset
<1>2. CASE ExecuteOther
  BY <1>2 DEF ExecuteOther
<1>3. CASE ExecuteFails
  <2>1. UNCHANGED <<closed, res, base, rows, idx, size, pos, rowcount, arraysize>>
        /\ out'.kind = "raised"
    BY <1>3 DEF ExecuteFails
  <2>2. CASE alive' = alive
    BY <2>1, <2>2
  <2>3. CASE alive' = FALSE
    BY <2>1, <2>3
  <2> QED BY <1>3, <2>2, <2>3 DEF ExecuteFails
<1>4. CASE PortalLost
  BY <1>4 DEF PortalLost
<1>5. ASSUME NEW n \in Sizes, ExecuteDirect(n)
      PROVE  Inv'
  <2>1. n \in Nat
    OBVIOUS
  <2>2. out'.kind = "nothing"
    BY <1>5 DEF ExecuteDirect
  <2>3. /\ closed' = "None" /\ res' = "rows" /\ base' = 0 /\ rows' = n /\ idx' = 0
        /\ rowcount' = -1 /\ size' = n /\ pos' = 0 /\ alive' = FALSE /\ arraysize' = arraysize
    BY <1>5 DEF ExecuteDirect
  <2>4. TypeOK' /\ RowcountCountsRows'
    BY <2>1, <2>2, <2>3
  <2>5. ResultInStep' /\ Settled'
    BY <2>1, <2>2, <2>3
  <2> QED BY <2>4, <2>5
<1>6. ASSUME NEW n \in Sizes, ExecutePortal(n)
      PROVE  Inv'
  <2>1. Least(1, n) \in {0, 1} /\ Least(1, n) <= n /\ n \in Nat
    BY LeastProperties DEF Least, Stream!Least
  <2>2. CASE res' = "rows"
    BY <1>6, <2>1, <2>2 DEF ExecutePortal
  <2>3. CASE res' = "other"
    <3>1. out'.kind = "raised"
      BY <1>6, <2>3 DEF ExecutePortal
    <3>2. /\ closed' = "0" /\ base' = 0 /\ rows' = 0 /\ idx' = 0
          /\ rowcount' = -1 /\ size' = n /\ pos' = 0 /\ alive' = FALSE /\ arraysize' = arraysize
      BY <1>6, <2>3 DEF ExecutePortal
    <3>3. TypeOK' /\ RowcountCountsRows'
      BY <2>1, <2>3, <3>1, <3>2
    <3>4. ResultInStep' /\ Settled'
      BY <2>1, <2>3, <3>2
    <3> QED BY <3>3, <3>4
  <2> QED BY <1>6, <2>2, <2>3 DEF ExecutePortal
<1>7. ASSUME NEW n \in Counts, SetArraysize(n)
      PROVE  Inv'
  BY <1>7 DEF SetArraysize
<1>8. CASE SelectFails
  <2>1. out'.kind = "raised" /\ closed' = "0" /\ alive' = FALSE /\ arraysize' = arraysize
    BY <1>8 DEF SelectFails
  <2>2. CASE /\ res' = "None" /\ base' = 0 /\ rows' = 0 /\ idx' = 1
             /\ rowcount' = -1 /\ size' = 0 /\ pos' = 0
    <3>1. TypeOK' /\ RowcountCountsRows'
      BY <2>1, <2>2
    <3>2. ResultInStep' /\ Settled'
      BY <2>1, <2>2
    <3> QED BY <3>1, <3>2
  <2>3. CASE closed # "0" /\ pos' = rows /\ UNCHANGED <<res, base, rows, idx, rowcount, size>>
    <3>1. TypeOK' /\ RowcountCountsRows'
      BY <2>1, <2>3
    <3>2. base = 0 /\ rows <= size
      BY <2>3
    <3>3. ResultInStep' /\ Settled'
      BY <2>1, <2>3, <3>2
    <3> QED BY <3>1, <3>3
  <2> QED BY <1>8, <2>2, <2>3 DEF SelectFails
<1> QED BY <1>1, <1>2, <1>3, <1>4, <1>5, <1>6, <1>7, <1>8

\* What a fetch takes from the result in the client.
LEMMA FromResultRun ==
    ASSUME Inv, NEW b \in 0 .. Left
    PROVE  /\ base + idx \in Nat /\ base + idx + b \in Nat
           /\ Run(base + idx, base + idx + b) \in Seq(Nat)
           /\ Len(Run(base + idx, base + idx + b)) = b
<1> DEFINE x == base + idx
           y == base + idx + b
<1>1. x \in Nat /\ y \in Nat /\ x <= y /\ y - x = b
  BY DEF Inv, TypeOK, Left
<1> HIDE DEF x, y
<1>2. Run(x, y) \in Seq(Nat) /\ Len(Run(x, y)) = b
  BY <1>1, RunProperties
<1> QED BY <1>1, <1>2 DEF x, y

LEMMA FromResultInv ==
    ASSUME Inv, res # "None", NEW k, NEW b \in 0 .. Left, arraysize' \in Int, FromResult(k, b)
    PROVE  Inv'
<1>1. /\ rowcount' = b
      /\ out'.kind = "rows"
      /\ Len(out'.rows) = b
  BY FromResultRun, OutProperties DEF FromResult, Returns
<1>2. /\ idx' = idx + b
      /\ UNCHANGED <<closed, res, base, rows, size, pos, alive>>
  BY DEF FromResult, server
<1> QED BY <1>1, <1>2 DEF Inv, TypeOK, ResultInStep, RowcountCountsRows, Settled, Left

LEMMA FromPortalInv ==
    ASSUME Inv, closed = "0", res # "None", NEW k, NEW n \in 0 .. size - pos, arraysize' \in Int,
           FromPortal(k, Left, n)
    PROVE  Inv'
<1>1. Left \in Nat /\ idx + Left = rows /\ pos \in Nat /\ base + rows = pos
  BY DEF Inv, TypeOK, ResultInStep, Left
<1>2. CASE alive' = FALSE /\ Raises /\ idx' = idx + Left
           /\ rowcount' = (IF Left > 0 THEN 1 ELSE rowcount)
           /\ UNCHANGED <<closed, res, base, rows, size, pos>>
  <2>1. out'.kind = "raised"
    BY <1>2, OutProperties DEF Raises
  <2>2. idx' = rows
    BY <1>1, <1>2
  <2>3. TypeOK' /\ RowcountCountsRows'
    BY <1>1, <1>2, <2>1, <2>2 DEF Inv, TypeOK, RowcountCountsRows
  <2>4. ResultInStep' /\ Settled'
    BY <1>1, <1>2, <2>2 DEF Inv, TypeOK, ResultInStep, Settled
  <2> QED BY <2>3, <2>4 DEF Inv
<1>3. CASE /\ alive
           /\ res' = "rows" /\ base' = pos /\ rows' = n /\ idx' = n /\ pos' = pos + n
           /\ Returns(k, Run(base + idx, base + idx + Left) \o Run(pos, pos + n))
           /\ rowcount' = Left + n
           /\ UNCHANGED <<closed, size, alive>>
  <2> DEFINE s == Run(base + idx, base + idx + Left)
             u == Run(pos, pos + n)
  <2>1. s \in Seq(Nat) /\ Len(s) = Left
    <3>1. Left \in 0 .. Left
      BY <1>1
    <3> QED BY <3>1, FromResultRun
  <2>2. u \in Seq(Nat) /\ Len(u) = n
    <3>1. pos + n \in Nat /\ pos <= pos + n /\ (pos + n) - pos = n
      BY <1>1
    <3> QED BY <1>1, <3>1, RunProperties
  <2>3. out'.kind = "rows" /\ Len(out'.rows) = Left + n
    <3>1. out'.kind = "rows" /\ out'.rows = s \o u
      BY <1>3, OutProperties DEF Returns
    <3> HIDE DEF s, u
    <3> QED BY <2>1, <2>2, <3>1, ConcatProperties
  <2> HIDE DEF s, u
  <2> QED BY <1>1, <1>3, <2>3 DEF Inv, TypeOK, ResultInStep, RowcountCountsRows, Settled
<1> QED BY <1>2, <1>3 DEF FromPortal

\* A call that only raises.
LEMMA RefusalInv ==
    ASSUME Inv, Raises, UNCHANGED <<client, server, rowcount>>, arraysize' \in Int
    PROVE  Inv'
<1>1. out'.kind = "raised"
  BY OutProperties DEF Raises
<1> QED BY <1>1
        DEF Inv, TypeOK, ResultInStep, RowcountCountsRows, Settled, client, server

LEMMA FetchAllInv ==
    ASSUME Inv, FetchAll, arraysize' \in Int
    PROVE  Inv'
<1>1. HasRows => Left \in Nat /\ (closed = "0" => size - pos \in Nat)
  BY DEF Inv, TypeOK, ResultInStep, HasRows, Left
<1>2. CASE HasRows /\ closed = "0" /\ FromPortal(-1, Left, size - pos)
  BY <1>1, <1>2, FromPortalInv DEF HasRows
<1>3. CASE HasRows /\ closed # "0" /\ FromResult(-1, Left)
  BY <1>1, <1>3, FromResultInv DEF HasRows
<1>4. CASE ~HasRows /\ Raises /\ UNCHANGED <<client, server, rowcount>>
  BY <1>4, RefusalInv
<1> QED BY <1>2, <1>3, <1>4 DEF FetchAll

LEMMA FetchInv ==
    ASSUME Inv,
           \/ FetchOne \/ (FetchAll /\ UNCHANGED arraysize)
           \/ \E sz \in Counts : FetchMany(sz, TRUE)
           \/ FetchMany(arraysize, FALSE) \/ FetchManyOfNone \/ Rewind
    PROVE  Inv'
<1>0. arraysize \in Int
  BY DEF Inv, TypeOK
<1>1. CASE FetchOne
  <2>1. HasRows => Left \in Nat
    BY DEF Inv, TypeOK, ResultInStep, HasRows, Left
  <2>2. CASE HasRows /\ Left > 0 /\ FromResult(1, 1)
    <3>1. 1 \in 0 .. Left
      BY <2>1, <2>2
    <3> QED BY <1>0, <1>1, <2>2, <3>1, FromResultInv DEF HasRows, FetchOne
  <2>3. CASE HasRows /\ Left = 0 /\ closed = "0" /\ FromPortal(1, 0, Least(1, size - pos))
    <3>1. Least(1, size - pos) \in 0 .. size - pos
      BY <2>3 DEF Inv, TypeOK, ResultInStep, Least, Stream!Least
    <3> QED BY <1>0, <1>1, <2>3, <3>1, FromPortalInv DEF HasRows, FetchOne
  <2>4. CASE HasRows /\ Left = 0 /\ closed # "0" /\ FromResult(1, 0)
    <3>1. 0 \in 0 .. Left
      BY <2>4
    <3> QED BY <1>0, <1>1, <2>4, <3>1, FromResultInv DEF HasRows, FetchOne
  <2>5. CASE ~HasRows /\ Raises /\ UNCHANGED <<client, server, rowcount>>
    BY <1>0, <1>1, <2>5, RefusalInv DEF FetchOne
  <2> QED BY <1>1, <2>2, <2>3, <2>4, <2>5 DEF FetchOne
<1>2. CASE FetchAll /\ UNCHANGED arraysize
  BY <1>0, <1>2, FetchAllInv
<1>3. ASSUME NEW sz \in Int, NEW given \in BOOLEAN, FetchMany(sz, given)
      PROVE  Inv'
  <2> DEFINE b == Least(sz, Left)
  <2>1. arraysize' \in Int /\ res # "None"
    BY <1>0, <1>3 DEF FetchMany
  <2>2. Left \in Nat /\ (closed = "0" => size - pos \in Nat)
    BY <2>1 DEF Inv, TypeOK, ResultInStep, Left
  <2>3. CASE sz < 0 /\ FetchAll
    BY <2>1, <2>3, FetchAllInv
  <2>4. CASE sz >= 0 /\ closed = "0" /\ sz > b /\ FromPortal(sz, b, Least(sz - b, size - pos))
    <3>1. b = Left /\ Least(sz - b, size - pos) \in 0 .. size - pos
      BY <2>2, <2>4 DEF Least, Stream!Least
    <3> QED BY <2>1, <2>4, <3>1, FromPortalInv
  <2>5. CASE sz >= 0 /\ ~(closed = "0" /\ sz > b) /\ FromResult(sz, b)
    <3>1. b \in 0 .. Left
      BY <2>2, <2>5 DEF Least, Stream!Least
    <3> QED BY <2>1, <2>5, <3>1, FromResultInv
  <2> QED BY <1>3, <2>3, <2>4, <2>5 DEF FetchMany
<1>4. CASE FetchManyOfNone
  BY <1>0, <1>4, RefusalInv DEF FetchManyOfNone, Refuse
<1>5. CASE Rewind
  <2>1. CASE Raises /\ UNCHANGED <<client, rowcount, arraysize, size, pos>> /\ alive' = FALSE
    <3>1. out'.kind = "raised"
      BY <2>1, OutProperties DEF Raises
    <3> QED BY <2>1, <3>1
            DEF Inv, TypeOK, ResultInStep, RowcountCountsRows, Settled, client
  <2>2. CASE ~HasRows /\ Refuse
    BY <1>0, <2>2, RefusalInv DEF Refuse
  <2>3. CASE /\ HasRows /\ closed = "0" /\ alive
             /\ res' = "other" /\ base' = 0 /\ rows' = 0 /\ idx' = 0 /\ rowcount' = -1 /\ pos' = 0
             /\ ReturnsNothing /\ UNCHANGED <<closed, arraysize, size, alive>>
    <3>1. out'.kind = "nothing"
      BY <2>3, OutProperties DEF ReturnsNothing
    <3> QED BY <2>3, <3>1 DEF Inv, TypeOK, ResultInStep, RowcountCountsRows, Settled
  <2>4. CASE /\ HasRows /\ closed # "0" /\ idx' = 0 /\ rowcount' = -1
             /\ ReturnsNothing /\ UNCHANGED <<closed, res, base, rows, arraysize, server>>
    <3>1. out'.kind = "nothing"
      BY <2>4, OutProperties DEF ReturnsNothing
    <3> QED BY <2>4, <3>1
            DEF Inv, TypeOK, ResultInStep, RowcountCountsRows, Settled, server, HasRows
  <2> QED BY <1>5, <2>1, <2>2, <2>3, <2>4
        DEF Rewind, RewindPortal, RewindPortalFails, RewindResult
<1> QED BY <1>0, <1>1, <1>2, <1>3, <1>4, <1>5, CursorFetchAssumption

LEMMA InvHolds == Spec => []Inv
<1>1. Init => Inv
  <2> SUFFICES ASSUME Init
               PROVE  Inv
    OBVIOUS
  <2>1. out.kind = "nothing"
    BY OutProperties DEF Init
  <2>2. TypeOK
    <3>1. /\ closed = "None" /\ res = "None" /\ base = 0 /\ rows = 0 /\ idx = 1
          /\ rowcount = -1 /\ arraysize = 1 /\ size = 0 /\ pos = 0 /\ alive = FALSE
      BY DEF Init
    <3>2. rowcount \in Nat \cup {-1} /\ arraysize \in Int
      BY <3>1
    <3> QED BY <2>1, <3>1, <3>2 DEF TypeOK
  <2>4. RowcountCountsRows
    BY <2>1 DEF RowcountCountsRows
  <2>3. ResultInStep /\ Settled
    BY DEF Init, ResultInStep, Settled
  <2> QED BY <2>2, <2>3, <2>4 DEF Inv
<1>2. Inv /\ [Next]_vars => Inv'
  <2>1. ASSUME Inv, UNCHANGED vars
        PROVE  Inv'
    BY <2>1 DEF vars, Inv, TypeOK, ResultInStep, RowcountCountsRows, Settled
  <2>2. ASSUME Inv, Next
        PROVE  Inv'
    <3>1. \/ \/ Reset \/ ExecuteOther \/ ExecuteFails \/ SelectFails \/ PortalLost
             \/ \E n \in Sizes : ExecuteDirect(n) \/ ExecutePortal(n)
             \/ \E n \in Counts : SetArraysize(n)
          \/ \/ FetchOne \/ (FetchAll /\ UNCHANGED arraysize)
             \/ \E sz \in Counts : FetchMany(sz, TRUE)
             \/ FetchMany(arraysize, FALSE) \/ FetchManyOfNone \/ Rewind
      BY <2>2 DEF Next
    <3> QED BY <2>2, <3>1, StatementInv, FetchInv
  <2> QED BY <2>1, <2>2
<1> QED BY <1>1, <1>2, PTL DEF Spec

\* The attributes of a Cursor and the portal's position stay in their ranges: idx
\* and rows are never negative, however fetches and rewinds are mixed.
THEOREM TypeCorrect == Spec => []TypeOK
BY InvHolds, PTL DEF Inv

\* The prefetched row and the portal never drift apart: what the client holds ends
\* where the portal stands, and at most one row of it waits to be handed out.
THEOREM BufferInStep == Spec => []ResultInStep
BY InvHolds, PTL DEF Inv

\* rowcount is the number of rows a fetch returned, from the client's result and
\* from the portal together.
THEOREM RowcountIsExact == Spec => []RowcountCountsRows
BY InvHolds, PTL DEF Inv

-----------------------------------------------------------------------------
(* The refinement. *)

\* The state of ResultStream, as CursorFetch maps it.
Handed == IF res = "None" THEN 0 ELSE IF closed = "0" THEN pos - (rows - idx)
          ELSE IF res = "rows" THEN idx ELSE 0
StreamState == IF closed = "0" THEN IF alive THEN "rows" ELSE "lost"
               ELSE IF res = "rows" THEN "rows" ELSE "none"
Due(k) == IF k < 0 THEN size - Handed ELSE Least(k, size - Handed)
Reach == IF StreamState = "lost" THEN size ELSE Least(Handed + 1, size)

\* What has been handed out, when the client and the portal are in step.
LEMMA HandedOut ==
    ASSUME Inv
    PROVE  /\ Handed \in Nat /\ Handed <= size
           /\ closed = "0" /\ res # "None" =>
                 Handed = base + idx /\ Handed + Left = pos /\ Left \in Nat
           /\ closed = "0" /\ alive => Left \in {0, 1} /\ res # "None"
           /\ closed # "0" /\ res = "rows" => Handed = idx /\ base = 0 /\ Left = size - Handed
           /\ closed # "0" /\ res # "rows" => Handed = 0 /\ size = 0
BY DEF Inv, TypeOK, ResultInStep, Settled, Handed, Left

LEMMA ReachProperties ==
    ASSUME Inv
    PROVE  /\ Handed \in Handed .. Reach
           /\ closed = "0" /\ res # "None" => Handed + Left \in Handed .. Reach
<1>1. Handed \in Nat /\ Handed <= size /\ size \in Nat
  BY HandedOut DEF Inv, TypeOK
<1>2. Reach = size \/ (StreamState # "lost" /\ Reach = Handed + 1)
  BY DEF Reach, Least, Stream!Least
<1>3. closed = "0" /\ res # "None" =>
        Handed + Left <= size /\ Left \in Nat /\ (StreamState # "lost" => Left \in {0, 1})
  BY HandedOut DEF Inv, TypeOK, ResultInStep, StreamState
<1> QED BY <1>1, <1>2, <1>3

\* The steps of ResultStream, said with these.
LEMMA StreamFetch ==
    ASSUME NEW k, StreamState # "none", Handed' = Handed + Due(k),
           out' = Stream!Rows(k, Run(Handed, Handed')),
           UNCHANGED <<size, StreamState>>
    PROVE  Stream!StrictNext
<1>1. Stream!Fetch(k)
  BY DEF Stream!Fetch, Stream!Due, Due, Handed, StreamState, Run, Least
<1>2. out'.asked = k
  BY DEF Stream!Rows
<1> QED BY <1>1, <1>2 DEF Stream!StrictNext

LEMMA StreamFetchNothing ==
    ASSUME NEW k, StreamState = "none", out' = Stream!Rows(k, <<>>),
           UNCHANGED <<size, Handed, StreamState>>
    PROVE  Stream!StrictNext
<1>1. Stream!FetchNothing(k)
  BY DEF Stream!FetchNothing, Handed, StreamState
<1>2. out'.asked = k
  BY DEF Stream!Rows
<1> QED BY <1>1, <1>2 DEF Stream!StrictNext

LEMMA StreamRaise ==
    ASSUME Raises, UNCHANGED size,
           \/ UNCHANGED <<Handed, StreamState>>
           \/ /\ StreamState # "none" /\ StreamState' = "lost"
              /\ Handed' \in Handed .. Reach
    PROVE  Stream!StrictNext
<1>1. Stream!Raise
  BY DEF Stream!Raise, Raises, Stream!Reach, Reach, Handed, StreamState, Least
<1> QED BY <1>1 DEF Stream!StrictNext

LEMMA StreamQuiet ==
    ASSUME ReturnsNothing, UNCHANGED size,
           \/ UNCHANGED <<Handed, StreamState>>
           \/ StreamState = "rows" /\ Handed' = 0 /\ UNCHANGED StreamState
           \/ StreamState = "rows" /\ StreamState' = "lost" /\ UNCHANGED Handed
    PROVE  Stream!StrictNext
<1>1. Stream!Other \/ Stream!Restart \/ Stream!Lose
  BY DEF Stream!Other, Stream!Restart, Stream!Lose, ReturnsNothing, Handed, StreamState
<1> QED BY <1>1 DEF Stream!StrictNext

LEMMA StreamOpen ==
    ASSUME size' \in Nat, Handed' = 0,
           \/ StreamState' = "rows" /\ ReturnsNothing
           \/ StreamState' = "lost" /\ Raises
    PROVE  Stream!StrictNext
<1>1. Stream!Open
  BY DEF Stream!Open, ReturnsNothing, Raises, Handed, StreamState
<1> QED BY <1>1 DEF Stream!StrictNext

LEMMA StreamClose ==
    ASSUME size' = 0, Handed' = 0, StreamState' = "none", ReturnsNothing \/ Raises
    PROVE  Stream!StrictNext
<1>1. Stream!Close
  BY DEF Stream!Close, ReturnsNothing, Raises, Handed, StreamState
<1> QED BY <1>1 DEF Stream!StrictNext

\* A fetch that the result in the client serves: b rows are all that are due, or
\* there is no query and no row.
LEMMA FromResultImplements ==
    ASSUME Inv, NEW k, NEW b \in 0 .. Left, FromResult(k, b),
           StreamState = "none" \/ b = Due(k)
    PROVE  Stream!StrictNext
<1>1. /\ idx' = idx + b
      /\ out' = Stream!Rows(k, Run(base + idx, base + idx + b))
      /\ UNCHANGED <<closed, res, base, rows, size, pos, alive>>
  BY DEF FromResult, Returns, server
<1>2. /\ closed \in {"0", "None"} /\ res \in {"None", "rows", "other"}
      /\ base \in Nat /\ rows \in Nat /\ idx \in Nat /\ pos \in Nat /\ size \in Nat
  BY DEF Inv, TypeOK
<1>3. StreamState' = StreamState
  BY <1>1 DEF StreamState
<1>4. CASE StreamState # "none"
  <2>0. res # "None"
    BY <1>2, <1>4 DEF StreamState, FromResult, Left, Inv, Settled
  <2>1. Handed = base + idx /\ Handed' = base + idx + b
    BY <1>1, <1>2, <1>4, <2>0, HandedOut DEF Handed, StreamState, Left
  <2> QED BY <1>1, <1>3, <1>4, <2>1, StreamFetch
<1>5. CASE StreamState = "none"
  <2>1. Handed' = Handed
    BY <1>1, <1>5 DEF Handed, StreamState
  <2>2. b = 0
    BY <1>2, <1>5 DEF StreamState, Left, Inv, Settled
  <2>3. Run(base + idx, base + idx + b) = <<>>
    <3>1. Run(base + idx, base + idx + b) \in Seq(Nat) /\ Len(Run(base + idx, base + idx + b)) = 0
      BY <2>2, FromResultRun
    <3> HIDE DEF Run
    <3> QED BY <3>1, EmptySeq
  <2> QED BY <1>1, <1>3, <1>5, <2>1, <2>3, StreamFetchNothing
<1> QED BY <1>4, <1>5

\* A fetch that also needs n rows from the portal, as many as there still are due.
LEMMA FromPortalImplements ==
    ASSUME Inv, closed = "0", res # "None", NEW k, NEW n \in 0 .. size - pos,
           FromPortal(k, Left, n), Due(k) = Left + n
    PROVE  Stream!StrictNext
<1>1. /\ Left \in Nat /\ idx + Left = rows /\ base + rows = pos
      /\ pos \in Nat /\ rows \in Nat /\ base \in Nat /\ idx \in Nat /\ size \in Nat /\ pos <= size
      /\ Handed = base + idx /\ Handed + Left = pos
  BY HandedOut DEF Inv, TypeOK, ResultInStep, Left
<1>2. CASE alive' = FALSE /\ Raises /\ idx' = idx + Left
           /\ UNCHANGED <<closed, res, base, rows, size, pos>>
  <2>1. StreamState # "none" /\ StreamState' = "lost" /\ Handed' = pos
    BY <1>1, <1>2 DEF StreamState, Handed
  <2>2. Handed' \in Handed .. Reach
    BY <1>1, <2>1, ReachProperties
  <2> QED BY <1>2, <2>1, <2>2, StreamRaise
<1>3. CASE /\ alive
           /\ res' = "rows" /\ base' = pos /\ rows' = n /\ idx' = n /\ pos' = pos + n
           /\ Returns(k, Run(base + idx, base + idx + Left) \o Run(pos, pos + n))
           /\ UNCHANGED <<closed, size, alive>>
  <2>1. Run(Handed, pos) \o Run(pos, pos + n) = Run(Handed, pos + n)
    <3>1. /\ Handed \in Nat /\ pos \in Nat /\ pos + n \in Nat
          /\ Handed <= pos /\ pos <= pos + n
      BY <1>1
    <3> HIDE DEF Handed, Run
    <3> QED BY ONLY <3>1, RunConcat
  <2>2. Handed' = pos + n /\ StreamState # "none" /\ StreamState' = StreamState
    BY <1>1, <1>3 DEF Handed, StreamState
  <2>3. Handed + Due(k) = pos + n
    BY <1>1
  <2>4. base + idx + Left = pos
    BY <1>1
  <2>5. out' = Stream!Rows(k, Run(Handed, pos + n))
    BY <1>1, <1>3, <2>1, <2>4 DEF Returns
  <2> QED BY <1>3, <2>2, <2>3, <2>5, StreamFetch
<1> QED BY <1>2, <1>3 DEF FromPortal

LEMMA RefusalImplements ==
    ASSUME Raises, UNCHANGED <<client, server>>
    PROVE  Stream!StrictNext
<1>1. UNCHANGED <<size, Handed, StreamState>>
  BY DEF client, server, Handed, StreamState
<1> QED BY <1>1, StreamRaise

LEMMA FetchAllImplements ==
    ASSUME Inv, FetchAll
    PROVE  Stream!StrictNext
<1>1. /\ HasRows => Left \in Nat
      /\ closed = "0" => size - pos \in Nat
      /\ Handed \in Nat /\ size \in Nat /\ pos \in Nat
  BY HandedOut DEF Inv, TypeOK, ResultInStep, HasRows, Left
<1>2. Due(-1) = size - Handed
  BY DEF Due
<1>3. CASE HasRows /\ closed = "0" /\ FromPortal(-1, Left, size - pos)
  <2>1. Due(-1) = Left + (size - pos)
    BY <1>1, <1>2, <1>3, HandedOut DEF HasRows
  <2>2. size - pos \in 0 .. size - pos /\ res # "None"
    BY <1>1, <1>3 DEF HasRows
  <2> QED BY <1>3, <2>1, <2>2, FromPortalImplements
<1>4. CASE HasRows /\ closed # "0" /\ FromResult(-1, Left)
  <2>1. Left \in 0 .. Left /\ res = "rows"
    BY <1>1, <1>4 DEF HasRows, Inv, TypeOK
  <2>2. Left = Due(-1)
    BY <1>2, <1>4, <2>1, HandedOut
  <2> QED BY <1>4, <2>1, <2>2, FromResultImplements
<1>5. CASE ~HasRows /\ Raises /\ UNCHANGED <<client, server, rowcount>>
  BY <1>5, RefusalImplements
<1> QED BY <1>3, <1>4, <1>5 DEF FetchAll

LEMMA FetchOneImplements ==
    ASSUME Inv, FetchOne
    PROVE  Stream!StrictNext
<1>1. /\ HasRows => Left \in Nat
      /\ closed = "0" => size - pos \in Nat
      /\ Handed \in Nat /\ size \in Nat /\ pos \in Nat /\ Handed <= size
  BY HandedOut DEF Inv, TypeOK, ResultInStep, HasRows, Left
<1>2. Due(1) = Least(1, size - Handed)
  BY DEF Due
<1>3. HasRows /\ closed # "0" => res = "rows"
  BY DEF HasRows, Inv, TypeOK
<1>4. CASE HasRows /\ Left > 0 /\ FromResult(1, 1)
  <2>1. 1 \in 0 .. Left
    BY <1>1, <1>4
  <2>2. size - Handed >= 1
    BY <1>1, <1>3, <1>4, HandedOut DEF HasRows, Inv, TypeOK, ResultInStep
  <2>3. 1 = Due(1)
    BY <1>1, <1>2, <2>2 DEF Least, Stream!Least
  <2> QED BY <1>4, <2>1, <2>3, FromResultImplements
<1>5. CASE HasRows /\ Left = 0 /\ closed = "0" /\ FromPortal(1, 0, Least(1, size - pos))
  <2>1. Least(1, size - pos) \in 0 .. size - pos /\ Handed = pos
    BY <1>1, <1>5, HandedOut DEF HasRows, Least, Stream!Least
  <2>2. Due(1) = Left + Least(1, size - pos)
    BY <1>1, <1>2, <1>5, <2>1
  <2> QED BY <1>5, <2>1, <2>2, FromPortalImplements DEF HasRows
<1>6. CASE HasRows /\ Left = 0 /\ closed # "0" /\ FromResult(1, 0)
  <2>1. 0 \in 0 .. Left /\ size - Handed = 0
    BY <1>1, <1>3, <1>6, HandedOut
  <2>2. 0 = Due(1)
    BY <1>2, <2>1 DEF Least, Stream!Least
  <2> QED BY <1>6, <2>1, <2>2, FromResultImplements
<1>7. CASE ~HasRows /\ Raises /\ UNCHANGED <<client, server, rowcount>>
  BY <1>7, RefusalImplements
<1> QED BY <1>4, <1>5, <1>6, <1>7 DEF FetchOne

LEMMA FetchManyImplements ==
    ASSUME Inv, NEW sz \in Int, NEW given \in BOOLEAN, FetchMany(sz, given)
    PROVE  Stream!StrictNext
<1> DEFINE b == Least(sz, Left)
<1>1. /\ res # "None" /\ Left \in Nat
      /\ closed = "0" => size - pos \in Nat
      /\ Handed \in Nat /\ size \in Nat /\ pos \in Nat /\ Handed <= size
  BY HandedOut DEF FetchMany, Inv, TypeOK, ResultInStep, Left
<1>2. CASE sz < 0 /\ FetchAll
  BY <1>2, FetchAllImplements
<1>3. CASE sz >= 0 /\ closed = "0" /\ sz > b /\ FromPortal(sz, b, Least(sz - b, size - pos))
  <2>1. b = Left /\ Least(sz - Left, size - pos) \in 0 .. size - pos
    BY <1>1, <1>3 DEF Least, Stream!Least
  <2>2. size - Handed = Left + (size - pos)
    BY <1>1, <1>3, HandedOut
  <2>3. Due(sz) = Left + Least(sz - Left, size - pos)
    BY <1>1, <1>3, <2>2 DEF Due, Least, Stream!Least
  <2> QED BY <1>1, <1>3, <2>1, <2>3, FromPortalImplements
<1>4. CASE sz >= 0 /\ ~(closed = "0" /\ sz > b) /\ FromResult(sz, b)
  <2>1. b \in 0 .. Left
    BY <1>1, <1>4 DEF Least, Stream!Least
  <2>2. StreamState = "none" \/ b = Due(sz)
    <3>1. CASE closed = "0"
      <4>1. b = sz /\ sz <= size - Handed
        BY <1>1, <1>4, <3>1, HandedOut DEF Least, Stream!Least
      <4> QED BY <1>1, <1>4, <4>1 DEF Due, Least, Stream!Least
    <3>2. CASE closed # "0" /\ res = "rows"
      BY <1>1, <1>4, <3>2, HandedOut DEF Due
    <3>3. CASE closed # "0" /\ res # "rows"
      BY <3>3 DEF StreamState
    <3> QED BY <3>1, <3>2, <3>3
  <2> QED BY <1>4, <2>1, <2>2, FromResultImplements
<1> QED BY <1>2, <1>3, <1>4 DEF FetchMany

LEMMA RewindImplements ==
    ASSUME Inv, Rewind
    PROVE  Stream!StrictNext
<1>1. CASE Raises /\ closed = "0" /\ UNCHANGED <<client, size, pos>> /\ alive' = FALSE
  <2>1. StreamState # "none" /\ StreamState' = "lost" /\ Handed' = Handed
    BY <1>1 DEF StreamState, Handed, client
  <2> QED BY <1>1, <2>1, ReachProperties, StreamRaise
<1>2. CASE ~HasRows /\ Refuse
  BY <1>2, RefusalImplements DEF Refuse
<1>3. CASE /\ closed = "0" /\ alive /\ rows' = 0 /\ idx' = 0 /\ pos' = 0
           /\ ReturnsNothing /\ UNCHANGED <<closed, size, alive>>
  <2>1. StreamState = "rows" /\ StreamState' = "rows" /\ Handed' = 0
    BY <1>3 DEF StreamState, Handed
  <2> QED BY <1>3, <2>1, StreamQuiet
<1>4. CASE /\ HasRows /\ closed # "0" /\ idx' = 0
           /\ ReturnsNothing /\ UNCHANGED <<closed, res, base, rows, arraysize, server>>
  <2>1. StreamState = "rows" /\ StreamState' = "rows" /\ Handed' = 0
    BY <1>4 DEF StreamState, Handed, HasRows, Inv, TypeOK
  <2>2. UNCHANGED size
    BY <1>4 DEF server
  <2> QED BY <1>4, <2>1, <2>2, StreamQuiet
<1> QED BY <1>1, <1>2, <1>3, <1>4 DEF Rewind, RewindPortal, RewindPortalFails, RewindResult

LEMMA StatementImplements ==
    ASSUME Inv,
           \/ Reset \/ ExecuteFails \/ SelectFails \/ PortalLost
           \/ \E n \in Sizes : ExecuteDirect(n) \/ ExecutePortal(n)
           \/ \E n \in Counts : SetArraysize(n)
    PROVE  Stream!StrictNext
<1>1. CASE Reset
  <2>1. Handed' = 0 /\ StreamState' = "none" /\ size' = 0
    BY <1>1 DEF Reset, Handed, StreamState
  <2> QED BY <1>1, <2>1, StreamClose DEF Reset
<1>2. CASE ExecuteFails
  <2>1. Handed' = Handed
    BY <1>2 DEF ExecuteFails, client, Handed
  <2>2. CASE alive' = alive
    <3>1. StreamState' = StreamState
      BY <1>2, <2>2 DEF ExecuteFails, client, StreamState
    <3> QED BY <1>2, <2>1, <3>1, StreamRaise DEF ExecuteFails
  <2>3. CASE alive' = FALSE
    <3>1. StreamState' = StreamState \/ (StreamState # "none" /\ StreamState' = "lost")
      BY <1>2, <2>3 DEF ExecuteFails, client, StreamState
    <3> QED BY <1>2, <2>1, <3>1, ReachProperties, StreamRaise DEF ExecuteFails
  <2> QED BY <1>2, <2>2, <2>3 DEF ExecuteFails
<1>3. CASE PortalLost
  <2>1. Handed' = Handed /\ StreamState = "rows" /\ StreamState' = "lost"
    BY <1>3 DEF PortalLost, client, Handed, StreamState
  <2> QED BY <1>3, <2>1, StreamQuiet DEF PortalLost
<1>4. ASSUME NEW n \in Sizes, ExecuteDirect(n)
      PROVE  Stream!StrictNext
  <2>1. Handed' = 0 /\ StreamState' = "rows" /\ size' \in Nat
    BY <1>4, CursorFetchAssumption DEF ExecuteDirect, Handed, StreamState
  <2> QED BY <1>4, <2>1, StreamOpen DEF ExecuteDirect
<1>5. ASSUME NEW n \in Sizes, ExecutePortal(n)
      PROVE  Stream!StrictNext
  <2>1. n \in Nat /\ Least(1, n) \in Int /\ size' \in Nat
    BY <1>5, CursorFetchAssumption DEF ExecutePortal, Least, Stream!Least
  <2>2. CASE res' = "rows"
    <3>1. Handed' = 0 /\ StreamState' = "rows" /\ ReturnsNothing
      BY <1>5, <2>1, <2>2 DEF ExecutePortal, Handed, StreamState
    <3> QED BY <2>1, <3>1, StreamOpen
  <2>3. CASE res' = "other"
    <3>1. Handed' = 0 /\ StreamState' = "lost" /\ Raises
      BY <1>5, <2>3 DEF ExecutePortal, Handed, StreamState
    <3> QED BY <2>1, <3>1, StreamOpen
  <2> QED BY <1>5, <2>2, <2>3 DEF ExecutePortal
<1>6. ASSUME NEW n \in Counts, SetArraysize(n)
      PROVE  Stream!StrictNext
  <2>1. UNCHANGED <<size, Handed, StreamState>>
    BY <1>6 DEF SetArraysize, client, server, Handed, StreamState
  <2> QED BY <1>6, <2>1, StreamQuiet DEF SetArraysize
<1>7. CASE SelectFails
  <2>1. StreamState' = "lost" /\ Raises
    BY <1>7 DEF SelectFails, StreamState
  <2>2. CASE closed = "0"
    <3>1. Handed' = 0 /\ size' = 0
      BY <1>7, <2>2 DEF SelectFails, Handed
    <3> QED BY <2>1, <3>1, StreamOpen
  <2>3. CASE closed # "0" /\ res = "rows"
    <3>1. Handed' = Handed /\ size' = size /\ StreamState = "rows"
      BY <1>7, <2>3 DEF SelectFails, Handed, StreamState, Inv, TypeOK
    <3> QED BY <2>1, <3>1, ReachProperties, StreamRaise
  <2>4. CASE closed # "0" /\ res # "rows"
    <3>1. size' = 0 /\ Handed' = 0
      BY <1>7, <2>4 DEF SelectFails, Handed, Inv, TypeOK, Settled
    <3> QED BY <2>1, <3>1, StreamOpen
  <2> QED BY <2>2, <2>3, <2>4
<1> QED BY <1>1, <1>2, <1>3, <1>4, <1>5, <1>6, <1>7

\* A statement without rows costs at most the prefetched row.
LEMMA OtherImplements ==
    ASSUME Inv, ExecuteOther
    PROVE  Stream!Next
<1>1. CASE closed = "0"
  <2>1. Handed' = pos /\ StreamState' = StreamState /\ size' = size /\ ReturnsNothing
    BY <1>1 DEF ExecuteOther, Handed, StreamState, Inv, TypeOK
  <2>2. Handed' \in Handed .. Reach
    <3>1. CASE res = "None"
      BY <1>1, <2>1, <3>1, ReachProperties DEF Handed, Inv, ResultInStep, Settled
    <3>2. CASE res # "None"
      BY <1>1, <2>1, <3>2, HandedOut, ReachProperties
    <3> QED BY <3>1, <3>2
  <2>3. StreamState # "none"
    BY <1>1 DEF StreamState
  <2>4. Stream!Skip
    BY <2>1, <2>2, <2>3
       DEF Stream!Skip, Stream!Reach, Reach, Least, ReturnsNothing, Handed, StreamState
  <2> QED BY <2>4 DEF Stream!Next
<1>2. CASE closed # "0"
  <2>1. Handed' = 0 /\ StreamState' = "none" /\ size' = 0 /\ ReturnsNothing
    BY <1>2 DEF ExecuteOther, Handed, StreamState
  <2> QED BY <2>1, StreamClose DEF Stream!Next
<1> QED BY <1>1, <1>2

LEMMA StepImplements ==
    ASSUME Inv, Next
    PROVE  Stream!StrictNext \/ (ExecuteOther /\ Stream!Next)
<1>1. \/ \/ Reset \/ ExecuteFails \/ SelectFails \/ PortalLost
         \/ \E n \in Sizes : ExecuteDirect(n) \/ ExecutePortal(n)
         \/ \E n \in Counts : SetArraysize(n)
      \/ ExecuteOther \/ FetchOne \/ FetchAll
      \/ \E sz \in Counts : FetchMany(sz, TRUE)
      \/ FetchMany(arraysize, FALSE)
      \/ FetchManyOfNone \/ Rewind
  BY DEF Next
<1>2. arraysize \in Int
  BY DEF Inv, TypeOK
<1>3. FetchManyOfNone => Stream!StrictNext
  BY RefusalImplements DEF FetchManyOfNone, Refuse
<1>4. (\E sz \in Counts : FetchMany(sz, TRUE)) \/ FetchMany(arraysize, FALSE) => Stream!StrictNext
  BY <1>2, FetchManyImplements, CursorFetchAssumption
<1> QED BY <1>1, <1>3, <1>4, StatementImplements, OtherImplements, FetchOneImplements,
           FetchAllImplements, RewindImplements

LEMMA InitImplements ==
    ASSUME Init
    PROVE  Stream!Init
BY DEF Init, Stream!Init

LEMMA StutterImplements ==
    ASSUME UNCHANGED vars
    PROVE  UNCHANGED Stream!vars
BY DEF vars, Stream!vars

\* However portals, the prefetched row, fetches of any number and rewinds are mixed,
\* and whatever fails, a caller sees the rows of its query in order and once each, as
\* many as asked for while there are that many; only a statement without rows that
\* is executed in between may cost one row, and a fetch that raises another.
THEOREM CursorIsStream == Spec => IsStream
<1>1. Inv /\ [Next]_vars => [Stream!Next]_Stream!vars
  BY StepImplements, StutterImplements DEF Stream!Next
<1>2. Init => Stream!Init
  BY InitImplements
<1> QED BY <1>1, <1>2, InvHolds, PTL DEF Spec, IsStream, Stream!Spec

\* Without such statements no row is skipped at all.
THEOREM CursorIsStrictStream ==
    ASSUME OtherStatements = FALSE
    PROVE  Spec => IsStrictStream
<1>1. Inv /\ [Next]_vars => [Stream!StrictNext]_Stream!vars
  BY StepImplements, StutterImplements DEF ExecuteOther
<1>2. Init => Stream!Init
  BY InitImplements
<1> QED BY <1>1, <1>2, InvHolds, PTL DEF Spec, IsStrictStream, Stream!StrictSpec

=============================================================================
