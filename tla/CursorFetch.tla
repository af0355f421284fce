----------------------------- MODULE CursorFetch -----------------------------
(***************************************************************************)
(* The rows of one Cursor of pyPgSQL/PgSQL.py: the portal on the server,   *)
(* the PgResult in the client of which the first idx rows are used up, and *)
(* the calls that move rows from the one to the other and to the caller.   *)
(***************************************************************************)
EXTENDS Integers, Sequences

CONSTANTS
    Sizes,            \* how many rows a query may have
    Counts,           \* the arguments of fetchmany, and values for arraysize
    OtherStatements   \* whether statements without rows are executed in between

ASSUME CursorFetchAssumption ==
    /\ Sizes \subseteq Nat
    /\ Counts \subseteq Int
    /\ OtherStatements \in BOOLEAN

VARIABLES
    closed,      \* Cursor.closed: "0" while the cursor has a portal, or "None"
    res,         \* Cursor.res: "None", a result with "rows", or one of an "other" statement
    base,        \* how many rows of the query come before those of res
    rows,        \* Cursor._rows_
    idx,         \* Cursor._idx_
    rowcount,    \* Cursor.rowcount
    arraysize,   \* Cursor.arraysize
    size,        \* server: the number of rows of the query
    pos,         \* server: how many rows the portal has passed
    alive,       \* server: the portal can be used
    out          \* what the latest call returned

client == <<closed, res, base, rows, idx>>
server == <<size, pos, alive>>
vars == <<closed, res, base, rows, idx, rowcount, arraysize, size, pos, alive, out>>

\* What the caller is promised.
Stream == INSTANCE ResultStream WITH
    size <- size,
    next <- IF res = "None" THEN 0 ELSE IF closed = "0" THEN pos - (rows - idx)
            ELSE IF res = "rows" THEN idx ELSE 0,
    state <- IF closed = "0" THEN IF alive THEN "rows" ELSE "lost"
             ELSE IF res = "rows" THEN "rows" ELSE "none",
    out <- out

Run(a, b) == Stream!Run(a, b)
Least(a, b) == Stream!Least(a, b)

Returns(k, s) == out' = Stream!Rows(k, s)
Raises == out' = Stream!Raised
ReturnsNothing == out' = Stream!Nothing

-----------------------------------------------------------------------------

\* Cursor.__init__ and __reset: no result, and idx past rows.
Init ==
    /\ closed = "None" /\ res = "None"
    /\ base = 0 /\ rows = 0 /\ idx = 1
    /\ rowcount = -1 /\ arraysize = 1
    /\ size = 0 /\ pos = 0 /\ alive = FALSE
    /\ out = Stream!Nothing

\* __reset, by commit(), rollback(), or the recovery from an error that is raised.
Reset ==
    /\ closed' = "None" /\ res' = "None"
    /\ base' = 0 /\ rows' = 0 /\ idx' = 1
    /\ rowcount' = -1
    /\ size' = 0 /\ pos' = 0 /\ alive' = FALSE
    /\ ReturnsNothing \/ Raises
    /\ UNCHANGED arraysize

\* execute() of a SELECT with n rows.  Without a portal, res holds them all.
ExecuteDirect(n) ==
    /\ closed' = "None" /\ res' = "rows"
    /\ base' = 0 /\ rows' = n /\ idx' = 0
    /\ rowcount' = -1
    /\ size' = n /\ pos' = 0 /\ alive' = FALSE
    /\ ReturnsNothing
    /\ UNCHANGED arraysize

\* With a portal, the first row is fetched to make the description; when that
\* fails, closed is already 0 and res is the result of DECLARE.
ExecutePortal(n) ==
    /\ closed' = "0"
    /\ base' = 0 /\ idx' = 0
    /\ rowcount' = -1
    /\ \/ /\ res' = "rows" /\ rows' = Least(1, n)
          /\ size' = n /\ pos' = Least(1, n) /\ alive' = TRUE
          /\ ReturnsNothing
       \/ /\ res' = "other" /\ rows' = 0
          /\ size' = n /\ pos' = 0 /\ alive' = FALSE
          /\ Raises
    /\ UNCHANGED arraysize

\* execute() of a statement that is no SELECT keeps the portal there is, but res
\* becomes the statement's result.
ExecuteOther ==
    /\ OtherStatements
    /\ res' = "other" /\ rows' = 0 /\ idx' = 0
    /\ base' = IF closed = "0" THEN pos ELSE 0
    /\ rowcount' = 1
    /\ size' = IF closed = "0" THEN size ELSE 0
    /\ ReturnsNothing
    /\ UNCHANGED <<closed, arraysize, pos, alive>>

\* execute() that raises without the recovery that resets every cursor: the
\* cursor keeps its result, and its portal unless the transaction was aborted.
ExecuteFails ==
    /\ alive' \in {alive, FALSE}
    /\ Raises
    /\ UNCHANGED <<client, size, pos, rowcount, arraysize>>

\* execute() of a SELECT that raises before it has its portal, without the
\* recovery.  A portal the cursor had was closed first; a result it had without
\* one is still there, as if it came from the portal that now does not exist.
SelectFails ==
    /\ closed' = "0"
    /\ alive' = FALSE
    /\ \/ /\ closed = "0"
          /\ res' = "None"
          /\ base' = 0 /\ rows' = 0 /\ idx' = 1
          /\ rowcount' = -1
          /\ size' = 0 /\ pos' = 0
       \/ /\ closed # "0"
          /\ pos' = rows
          /\ UNCHANGED <<res, base, rows, idx, rowcount, size>>
    /\ Raises
    /\ UNCHANGED arraysize

-----------------------------------------------------------------------------
(* fetchone, fetchmany, fetchall, rewind *)

Left == rows - idx

\* fetchone, fetchall and rewind refuse a cursor without rows.
HasRows == res # "None" /\ (res = "other" => closed = "0")

Refuse == Raises /\ UNCHANGED <<client, server, rowcount, arraysize>>

\* Mutants of FromResult: idx moves by what was asked for; rowcount is what was
\* asked for.
FromResultOverrun(k, b) ==
    /\ idx' = idx + k
    /\ Returns(k, Run(base + idx, base + idx + b))
    /\ rowcount' = b
    /\ UNCHANGED <<closed, res, base, rows, server>>
FromResultMiscounted(k, b) ==
    /\ idx' = idx + b
    /\ Returns(k, Run(base + idx, base + idx + b))
    /\ rowcount' = k
    /\ UNCHANGED <<closed, res, base, rows, server>>

\* Of the k rows asked for, b come from res (__fetchOneRow).
FromResult(k, b) ==
    /\ idx' = idx + b
    /\ Returns(k, Run(base + idx, base + idx + b))
    /\ rowcount' = b
    /\ UNCHANGED <<closed, res, base, rows, server>>

\* Then those of a FETCH, which replaces res by a result of n rows that are all
\* handed out at once (__fetchManyRows).  When it fails the list is lost.
FromPortal(k, b, n) ==
    \/ /\ alive
       /\ res' = "rows"
       /\ base' = pos
       /\ rows' = n
       /\ idx' = n
       /\ pos' = pos + n
       /\ Returns(k, Run(base + idx, base + idx + b) \o Run(pos, pos + n))
       /\ rowcount' = b + n
       /\ UNCHANGED <<closed, size, alive>>
    \/ /\ idx' = idx + b
       /\ alive' = FALSE
       /\ Raises
       /\ rowcount' = IF b > 0 THEN 1 ELSE rowcount
       /\ UNCHANGED <<closed, res, base, rows, size, pos>>

FetchOne ==
    /\ UNCHANGED arraysize
    /\ \/ HasRows /\ Left > 0 /\ FromResult(1, 1)
       \/ HasRows /\ Left = 0 /\ closed = "0" /\ FromPortal(1, 0, Least(1, size - pos))
       \/ HasRows /\ Left = 0 /\ closed # "0" /\ FromResult(1, 0)
       \/ ~HasRows /\ Raises /\ UNCHANGED <<client, server, rowcount>>

\* Mutant of FetchAll: the prefetched row is forgotten.
FetchAllFromPortal ==
    \/ HasRows /\ closed = "0" /\ FromPortal(-1, 0, size - pos)
    \/ HasRows /\ closed # "0" /\ FromResult(-1, Left)
    \/ ~HasRows /\ Raises /\ UNCHANGED <<client, server, rowcount>>

FetchAll ==
    \/ HasRows /\ closed = "0" /\ FromPortal(-1, Left, size - pos)
    \/ HasRows /\ closed # "0" /\ FromResult(-1, Left)
    \/ ~HasRows /\ Raises /\ UNCHANGED <<client, server, rowcount>>

\* An argument that is given becomes the arraysize.  fetchmany looks at self.close
\* where the others look at self.closed: it does not refuse a result that has no
\* rows, unless there is no result at all.
FetchMany(sz, given) ==
    LET b == Least(sz, Left)
    IN  /\ arraysize' = IF ~given THEN arraysize ELSE IF sz < 0 THEN -sz ELSE sz
        /\ res # "None"
        /\ \/ sz < 0 /\ FetchAll
           \/ sz >= 0 /\ closed = "0" /\ sz > b /\ FromPortal(sz, b, Least(sz - b, size - pos))
           \/ sz >= 0 /\ ~(closed = "0" /\ sz > b) /\ FromResult(sz, b)

FetchManyOfNone == res = "None" /\ Refuse

SetArraysize(n) ==
    /\ arraysize' = n
    /\ ReturnsNothing
    /\ UNCHANGED <<client, server, rowcount>>

\* Mutant of RewindPortal: the result in the client is kept.
RewindPortalOnly ==
    /\ HasRows /\ closed = "0" /\ alive
    /\ idx' = 0 /\ pos' = 0
    /\ rowcount' = -1
    /\ ReturnsNothing
    /\ UNCHANGED <<closed, res, base, rows, arraysize, size, alive>>

\* rewind() with a portal: MOVE BACKWARD ALL, whose result becomes res.
RewindPortal ==
    /\ HasRows /\ closed = "0" /\ alive
    /\ res' = "other"
    /\ base' = 0 /\ rows' = 0 /\ idx' = 0
    /\ rowcount' = -1
    /\ pos' = 0
    /\ ReturnsNothing
    /\ UNCHANGED <<closed, arraysize, size, alive>>

RewindPortalFails ==
    /\ HasRows /\ closed = "0"
    /\ alive' = FALSE
    /\ Raises
    /\ UNCHANGED <<client, rowcount, arraysize, size, pos>>

RewindResult ==
    /\ HasRows /\ closed # "0"
    /\ idx' = 0
    /\ rowcount' = -1
    /\ ReturnsNothing
    /\ UNCHANGED <<closed, res, base, rows, arraysize, server>>

Rewind == RewindPortal \/ RewindPortalFails \/ RewindResult \/ (~HasRows /\ Refuse)

\* Another cursor of the connection made the transaction abort.
PortalLost ==
    /\ closed = "0" /\ alive
    /\ alive' = FALSE
    /\ ReturnsNothing
    /\ UNCHANGED <<client, size, pos, rowcount, arraysize>>

Next ==
    \/ Reset \/ ExecuteOther \/ ExecuteFails \/ SelectFails \/ PortalLost
    \/ \E n \in Sizes : ExecuteDirect(n) \/ ExecutePortal(n)
    \/ FetchOne
    \/ FetchAll /\ UNCHANGED arraysize
    \/ \E sz \in Counts : FetchMany(sz, TRUE)
    \/ FetchMany(arraysize, FALSE)
    \/ FetchManyOfNone
    \/ \E n \in Counts : SetArraysize(n)
    \/ Rewind

Spec == Init /\ [][Next]_vars

-----------------------------------------------------------------------------
(* Properties *)

TypeOK ==
    /\ closed \in {"None", "0"}
    /\ res \in {"None", "rows", "other"}
    /\ base \in Nat /\ rows \in Nat /\ idx \in Nat
    /\ rowcount \in Nat \cup {-1}
    /\ arraysize \in Int
    /\ size \in Nat /\ pos \in Nat
    /\ alive \in BOOLEAN
    /\ out.kind \in {"nothing", "raised", "rows"}

\* The result in the client and the portal are in step: res holds the rows just
\* before the portal's position, and at most one of them is still to be handed
\* out, so that an error of the portal costs a caller at most one row.  A result
\* without a portal is the whole query.
ResultInStep ==
    /\ idx <= rows \/ res = "None"
    /\ closed = "0" => base + rows = pos /\ pos <= size
    /\ closed = "0" /\ alive => rows - idx \in {0, 1}
    /\ closed = "None" /\ res = "rows" => base = 0 /\ rows = size

\* After a fetch, rowcount is the number of rows that it returned.
RowcountCountsRows == out.kind = "rows" => rowcount = Len(out.rows)

\* The cursor is a stream of the rows of its query: in order, none twice, none
\* left out unless another statement was executed on the cursor in between.
IsStream == Stream!Spec

\* "Fetch all (remaining) rows": without the exception.
IsStrictStream == Stream!StrictSpec

=============================================================================
