---------------------------- MODULE ResultStream ----------------------------
(***************************************************************************)
(* What a Cursor promises about the rows of one query: the calls that      *)
(* fetch hand out the rows in order, each one once, exactly as many as     *)
(* were asked for while there are that many, and an error is never a short *)
(* list.  Nothing is said of buffers or portals.                           *)
(***************************************************************************)
EXTENDS Integers, Sequences

VARIABLES
    size,    \* the number of rows of the query; a row is its position, from 1
    next,    \* how many of them have been handed out or given up
    state,   \* "none": no rows to fetch; "rows"; "lost": the server let go of them
    out      \* what the latest call returned: rows, an error, or nothing

vars == <<size, next, state, out>>

\* The rows after the first a, up to the b-th.
Run(a, b) == [i \in 1 .. b - a |-> a + i]

Least(a, b) == IF a <= b THEN a ELSE b

\* asked is the number of rows a fetch is for; a negative one stands for all.
Nothing == [kind |-> "nothing", asked |-> 0, rows |-> <<>>]
Raised == [kind |-> "raised", asked |-> 0, rows |-> <<>>]
Rows(k, s) == [kind |-> "rows", asked |-> k, rows |-> s]

Init == size = 0 /\ next = 0 /\ state = "none" /\ out = Nothing

\* A new query; its first row may fail to be computed.
Open ==
    /\ size' \in Nat
    /\ next' = 0
    /\ \/ state' = "rows" /\ out' = Nothing
       \/ state' = "lost" /\ out' = Raised

\* The query is over: commit, rollback or another statement without rows.
Close ==
    /\ size' = 0
    /\ next' = 0
    /\ state' = "none"
    /\ out' \in {Nothing, Raised}

\* How many rows a fetch of k rows returns.
Due(k) == IF k < 0 THEN size - next ELSE Least(k, size - next)

Fetch(k) ==
    /\ state # "none"
    /\ next' = next + Due(k)
    /\ out' = Rows(k, Run(next, next'))
    /\ UNCHANGED <<size, state>>

\* A fetch without a query, which does not always raise.
FetchNothing(k) ==
    /\ state = "none"
    /\ out' = Rows(k, <<>>)
    /\ UNCHANGED <<size, next, state>>

\* How far a call that does not hand out rows may get: past one row, but past
\* any number of those that are left once the server let go of the others.
Reach == IF state = "lost" THEN size ELSE Least(next + 1, size)

\* A call that raises leaves the rows as they were, or loses them, the list that
\* was being built with them.
Raise ==
    /\ out' = Raised
    /\ \/ UNCHANGED <<size, next, state>>
       \/ /\ state # "none"
          /\ state' = "lost"
          /\ next' \in next .. Reach
          /\ UNCHANGED size

\* rewind()
Restart ==
    /\ state = "rows"
    /\ next' = 0
    /\ out' = Nothing
    /\ UNCHANGED <<size, state>>

\* The server lets go of the rows.
Lose ==
    /\ state = "rows"
    /\ state' = "lost"
    /\ out' = Nothing
    /\ UNCHANGED <<size, next>>

\* A call that is not about the rows.
Other ==
    /\ out' = Nothing
    /\ UNCHANGED <<size, next, state>>

\* A statement without rows, between two fetches, may cost one row.
Skip ==
    /\ state # "none"
    /\ next' \in next .. Reach
    /\ out' = Nothing
    /\ UNCHANGED <<size, state>>

StrictNext ==
    \/ Open \/ Close \/ Raise \/ Restart \/ Lose \/ Other
    \/ Fetch(out'.asked) \/ FetchNothing(out'.asked)

Next == StrictNext \/ Skip

Spec == Init /\ [][Next]_vars

\* The promise without the exception that Skip makes.
StrictSpec == Init /\ [][StrictNext]_vars

=============================================================================
