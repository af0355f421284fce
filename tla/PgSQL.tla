-------------------------------- MODULE PgSQL --------------------------------
(***************************************************************************)
(* Connection and Cursor of pyPgSQL/PgSQL.py: how the objects of one       *)
(* connection track the transaction and the portals of the session behind  *)
(* it.  A call of the application is one action, the statements it sends   *)
(* included: the objects belong to one thread.  A call that only raises,   *)
(* because its object is closed or autocommit forbids it, changes nothing  *)
(* and is left out.  The rows that go through a cursor are in CursorFetch. *)
(***************************************************************************)
EXTENDS Backend

CONSTANTS
    Cursors,          \* Cursor objects; each also stands for its generated name
    UserNames,        \* names the application or a stored procedure chooses
    ExecuteKinds,     \* what the application passes to Cursor.execute,
    ParamsKinds,      \*   to Cursor.execute_params,
    AutocommitKinds   \*   and to either while autocommit is on

\* "select" can use a portal; "direct" is a SELECT that cannot (FOR UPDATE, INTO,
\* or noPostgresCursor is set); "begin_level" is a BEGIN with extra words.
Kinds == {"select", "direct", "write", "begin", "begin_level", "commit", "rollback"}

ASSUME PgSQLAssumption ==
    /\ Names = Cursors \cup UserNames
    /\ Cursors \cap UserNames = {}
    /\ ExecuteKinds \cup ParamsKinds \cup AutocommitKinds \subseteq Kinds

VARIABLES
    isOpen,             \* Connection._isOpen
    autocommit,         \* Connection.autocommit
    inTransaction,      \* Connection.inTransaction
    TransactionLevel,   \* Connection.TransactionLevel
    cursors,            \* the Cursor objects
    srv,                \* the session (Backend)
    last                \* the latest call, and what it raised

connection == <<isOpen, autocommit, inTransaction, TransactionLevel>>
vars == <<isOpen, autocommit, inTransaction, TransactionLevel, cursors, srv, last>>

Levels == {"", "READ COMMITTED", "SERIALIZABLE"}

\* closed is trinary in the code: None before a portal, 0 with one, 1 at the end.
Cursor == [closed : {"unborn", "None", "0", "1"}, name : Names,
           res : {"None", "rows", "other"}]

Unborn(c) == [closed |-> "unborn", name |-> c, res |-> "None"]

\* The cursors in Connection.cursors.
Live(c) == cursors[c].closed \in {"None", "0"}
AnyLeft == \E c \in Cursors : Live(c)

Calls == {"none", "cursor", "cursor.close", "execute", "callproc", "fetch", "rewind",
          "commit", "rollback", "close", "autocommit", "TransactionLevel",
          "binary", "unlink"}
Errors == Exceptions \cup {"Warning", "AttributeError", "ValueError", "BindingError"}

Returned(call, e) == last' = [call |-> call, exc |-> e]

Init ==
    /\ isOpen = TRUE
    /\ autocommit = FALSE
    /\ inTransaction = FALSE
    /\ TransactionLevel = ""
    /\ cursors = [c \in Cursors |-> Unborn(c)]
    /\ srv = FreshSession
    /\ last = [call |-> "none", exc |-> "none"]

-----------------------------------------------------------------------------
(* What the handlers share. *)

\* Connection.__setupTransaction, as a set of replies; inTransaction becomes 1
\* when nothing is raised.  A notice SET brings is raised at once, and leaves
\* the transaction begun.
SetupTransaction(s, plain) ==
    LET begun == Begin(s)
    IN  IF TransactionLevel = "" \/ ~plain \/ ~Runs(s)
        THEN begun
        ELSE UNION {{[r EXCEPT !.exc = IF @ = "none" /\ r.notice THEN "Warning" ELSE @,
                               !.notice = @ \/ b.notice] :
                        r \in SetLevel(b.srv, s.tx = "idle")} : b \in begun}

\* Mutant of Entered: inTransaction is set, but no BEGIN is sent.
EnteredWithoutBegin(s) == {Done(s)}

\* Mutant of InTransactionAfterEntry: autocommit is not looked at.
InTransactionAlways == TRUE

\* The transaction a call finds, or begins unless autocommit is on.
Entered(s) ==
    IF autocommit \/ inTransaction THEN {Done(s)} ELSE SetupTransaction(s, TRUE)
InTransactionAfterEntry == inTransaction \/ ~autocommit

\* Mutants of ResetSession: the CLOSE is forgotten, or sent without a portal.
ResetSessionKeepsPortal(s, k, t) == s
ResetSessionUnguarded(s, k, t) == IF t THEN ClosedPortal(s, k.name) ELSE s

\* Cursor.__reset: the CLOSE it sends, with inTransaction = t, and the new state.
ResetSession(s, k, t) == IF k.closed = "0" /\ t THEN ClosedPortal(s, k.name) ELSE s
Reset(k) == [k EXCEPT !.closed = "None", !.res = "None"]

\* Connection.__closeCursors.  The order is that of a dictionary and does not
\* matter: one CLOSE that fails aborts the transaction, and the others with it.
CloseCursorsSession(s, t) ==
    LET held == {c \in Cursors : cursors[c].closed = "0"}
    IN  IF ~t THEN s
        ELSE IF \A c \in held : /\ cursors[c].name \in s.portals
                                /\ \A d \in held \ {c} : cursors[d].name # cursors[c].name
        THEN [s EXCEPT !.portals = @ \ {cursors[c].name : c \in held}]
        ELSE AbortedBy(s)

\* Mutant of ResetCursors: the cursors keep closed = 0 when the transaction ends.
ResetCursorsKept == cursors

ResetCursors == [c \in Cursors |-> IF Live(c) THEN Reset(cursors[c]) ELSE cursors[c]]

\* The query functions turn a queued notice into a Warning only where they look.
Raised(r) == IF r.exc = "none" /\ r.notice THEN "Warning" ELSE r.exc

-----------------------------------------------------------------------------
(* Connection *)

\* cursor(), Cursor.__init__ and the cursor that typecast makes of a refcursor.
\* An object whose __init__ raises goes away, through its __del__, with the error.
NewCursor(c, n, isRefCursor) ==
    /\ isOpen
    /\ cursors[c].closed = "unborn"
    /\ isRefCursor => n # c
    /\ \E e \in Entered(srv) :
          \/ /\ e.exc # "none"
             /\ srv' = e.srv
             /\ Returned("cursor", e.exc)
             /\ UNCHANGED <<connection, cursors>>
          \/ /\ e.exc = "none"
             /\ ~isRefCursor
             /\ srv' = e.srv
             /\ inTransaction' = InTransactionAfterEntry
             /\ cursors' = [cursors EXCEPT ![c] = [closed |-> "None", name |-> n, res |-> "None"]]
             /\ Returned("cursor", "none")
             /\ UNCHANGED <<isOpen, autocommit, TransactionLevel>>
          \/ /\ e.exc = "none"
             /\ isRefCursor
             /\ inTransaction' = InTransactionAfterEntry
             /\ \E f \in UsePortal(e.srv, n) :
                   LET k == [closed |-> "0", name |-> n, res |-> "rows"]
                   IN  /\ srv' = IF f.exc = "none" THEN f.srv
                                 ELSE ResetSession(f.srv, k, InTransactionAfterEntry)
                       /\ cursors' = IF f.exc = "none" THEN [cursors EXCEPT ![c] = k] ELSE cursors
                       /\ Returned("cursor", f.exc)
             /\ UNCHANGED <<isOpen, autocommit, TransactionLevel>>

\* The common body of commit() and rollback(), on the session s with
\* inTransaction = t; replies are those to the statement that ends it, after
\* the cursors were closed.
EndTransaction(s, t, replies, call) ==
    /\ cursors' = ResetCursors
    /\ inTransaction' = FALSE
    /\ IF t THEN \E r \in replies :
                    srv' = r.srv /\ Returned(call, Raised(r))
            ELSE srv' = s /\ Returned(call, "none")
    /\ UNCHANGED <<isOpen, autocommit, TransactionLevel>>

ConnectionCommit ==
    /\ isOpen
    /\ ~autocommit
    /\ EndTransaction(srv, inTransaction,
                      Commit(CloseCursorsSession(srv, inTransaction)), "commit")

\* Mutant of ConnectionRollback: inTransaction is not cleared.
ConnectionRollbackKeepsFlag ==
    /\ isOpen
    /\ ~autocommit
    /\ \E r \in Rollback(CloseCursorsSession(srv, inTransaction)) :
          srv' = r.srv /\ Returned("rollback", Raised(r))
    /\ cursors' = ResetCursors
    /\ UNCHANGED connection

ConnectionRollback ==
    /\ isOpen
    /\ ~autocommit
    /\ EndTransaction(srv, inTransaction,
                      Rollback(CloseCursorsSession(srv, inTransaction)), "rollback")

\* close(): the ROLLBACK's outcome is ignored and the session ends with it.
CloseConnection ==
    /\ isOpen
    /\ isOpen' = FALSE
    /\ autocommit' = FALSE
    /\ inTransaction' = FALSE
    /\ TransactionLevel' = ""
    /\ cursors' = [c \in Cursors |-> IF Live(c) THEN [Reset(cursors[c]) EXCEPT !.closed = "1"]
                                               ELSE cursors[c]]
    /\ srv' = GoneWith(srv.durable)
    /\ Returned("close", "none")

\* Mutants of RolledBackFirst: the transaction is left open, or committed.
NothingFirst == {Done(srv)}
CommittedFirst == IF inTransaction THEN Commit(srv) ELSE {Done(srv)}

\* Assigning autocommit or TransactionLevel needs that no cursor is left, and
\* first rolls back the transaction that may still be open.
RolledBackFirst == IF inTransaction THEN Rollback(srv) ELSE {Done(srv)}

SetAutocommit(value) ==
    /\ isOpen
    /\ ~AnyLeft
    /\ \E r \in RolledBackFirst :
          /\ srv' = r.srv
          /\ inTransaction' = FALSE
          /\ autocommit' = IF Raised(r) = "none" THEN value ELSE autocommit
          /\ Returned("autocommit", Raised(r))
    /\ UNCHANGED <<isOpen, TransactionLevel, cursors>>

\* Mutant of SetTransactionLevel: any value is taken.
SetTransactionLevelUnchecked(value) ==
    /\ isOpen
    /\ ~AnyLeft
    /\ \E r \in RolledBackFirst :
          srv' = r.srv /\ Returned("TransactionLevel", Raised(r))
    /\ inTransaction' = FALSE
    /\ TransactionLevel' = value
    /\ UNCHANGED <<isOpen, autocommit, cursors>>

\* A value that is no level raises only after the roll back.
SetTransactionLevel(value) ==
    /\ isOpen
    /\ ~AnyLeft
    /\ \E r \in RolledBackFirst :
          /\ srv' = r.srv
          /\ inTransaction' = FALSE
          /\ TransactionLevel' = IF Raised(r) = "none" /\ value \in Levels
                                 THEN value ELSE TransactionLevel
          /\ Returned("TransactionLevel",
                      IF Raised(r) = "none" /\ value \notin Levels THEN "ValueError"
                      ELSE Raised(r))
    /\ UNCHANGED <<isOpen, autocommit, cursors>>

\* binary(string): lo_creat, then the string's bytes.  A notice that comes while
\* they are written makes it send ROLLBACK WORK and raise.
Binary(withString, w) ==
    /\ isOpen
    /\ ~autocommit
    /\ \E e \in Entered(srv) :
          /\ inTransaction' = (inTransaction \/ e.exc = "none")
          /\ \/ e.exc # "none" /\ srv' = e.srv /\ Returned("binary", e.exc)
             \/ /\ e.exc = "none"
                /\ \E r \in LargeObjectCall(e.srv, Changed(e.srv, w), "OperationalError") :
                      LET warned == e.notice \/ r.notice
                      IN  \/ /\ r.exc # "none" \/ warned \/ ~withString
                             /\ srv' = r.srv
                             /\ Returned("binary", IF r.exc = "none" /\ warned THEN "Warning"
                                                   ELSE r.exc)
                          \/ /\ r.exc = "none" /\ ~warned /\ withString
                             /\ \E q \in LargeObjectCall(r.srv, r.srv, "IOError") :
                                   IF Raised(q) = "Warning"
                                   THEN \E b \in Rollback(q.srv) :
                                           /\ srv' = b.srv
                                           /\ Returned("binary", IF b.exc = "none" THEN "Warning"
                                                                 ELSE b.exc)
                                   ELSE srv' = q.srv /\ Returned("binary", q.exc)
    /\ UNCHANGED <<isOpen, autocommit, TransactionLevel, cursors>>

\* unlink() works in the transaction there is, and begins none.
Unlink(w) ==
    /\ isOpen
    /\ \E r \in LargeObjectCall(srv, Changed(srv, w), "IOError") :
          srv' = r.srv /\ Returned("unlink", Raised(r))
    /\ UNCHANGED <<connection, cursors>>

-----------------------------------------------------------------------------
(* Cursor: running a statement *)

\* The replies to a statement of this kind sent as text.
Sent(s, kind, portal, n) ==
    CASE portal -> Declare(s, n)
      [] kind \in {"select", "direct"} /\ ~portal -> Query(s)
      [] kind = "write" -> UNION {Write(s, w) : w \in Unused(s)}
      [] kind \in {"begin", "begin_level"} -> Begin(s)
      [] kind = "commit" -> Commit(s)
      [] kind = "rollback" -> Rollback(s)

\* A reply that is not an error; for a portal, the first row is fetched at once
\* to make the description, outside the handlers of the errors below.
Accepted(c, k, t, call, r, portal) ==
    /\ r.exc = "none"
    /\ inTransaction' = t
    /\ IF portal
       THEN \E f \in UsePortal(r.srv, k.name) :
               /\ srv' = f.srv
               /\ cursors' = [cursors EXCEPT ![c] =
                                [k EXCEPT !.res = IF f.exc = "none" THEN "rows" ELSE "other"]]
               /\ Returned(call, f.exc)
       ELSE /\ srv' = r.srv
            /\ cursors' = [cursors EXCEPT ![c] = k]
            /\ Returned(call, "none")

\* except OperationalError: end the transaction, which gets one of replies, and
\* reset every cursor; execute looks for a notice before it says that the transaction is over.
Recovered(c, k, t, call, r, replies) ==
    /\ r.exc = "OperationalError"
    /\ IF t
       THEN \E e \in replies :
               LET failed == e.exc # "none" \/ (e.notice /\ call = "execute")
               IN  /\ srv' = e.srv
                   /\ inTransaction' = failed
                   /\ cursors' = IF failed THEN [cursors EXCEPT ![c] = k]
                                 ELSE [d \in Cursors |-> IF Live(d) THEN Reset(IF d = c THEN k ELSE cursors[d])
                                                                    ELSE cursors[d]]
                   /\ Returned(call, IF e.exc # "none" THEN e.exc
                                     ELSE IF failed THEN "Warning" ELSE "OperationalError")
       ELSE /\ srv' = r.srv
            /\ inTransaction' = t
            /\ cursors' = [cursors EXCEPT ![c] = k]
            /\ Returned(call, "OperationalError")

\* No handler catches IntegrityError.  The one of InternalError clears
\* inTransaction and stops at a method that does not exist.
Unrecovered(c, k, t, call, r) ==
    /\ r.exc \in {"IntegrityError", "InternalError"}
    /\ srv' = r.srv
    /\ inTransaction' = (t /\ r.exc = "IntegrityError")
    /\ cursors' = [cursors EXCEPT ![c] = k]
    /\ Returned(call, IF r.exc = "InternalError" THEN "AttributeError" ELSE r.exc)

\* The parameters do not fit the query: a Python error before it is sent.
Unbound(c, s, k, t, call) ==
    /\ "binding" \in Faults
    /\ srv' = s
    /\ inTransaction' = t
    /\ cursors' = [cursors EXCEPT ![c] = k]
    /\ Returned(call, "BindingError")

\* execute() and execute_params() from the transaction's start on, for a
\* statement they send as it is.  k is the cursor as the previous SELECT's reset
\* leaves it, s the session; closed is 0 before the statement is even sent.
RunStatement(c, s, k, kind) ==
    LET portal == kind = "select" /\ ~autocommit
        t == InTransactionAfterEntry
        k0 == IF portal THEN [k EXCEPT !.closed = "0"] ELSE k
        k1 == [k0 EXCEPT !.res = IF kind \in {"select", "direct"} THEN "rows" ELSE "other"]
    IN  \E e \in Entered(s) :
           \/ /\ e.exc # "none"
              /\ srv' = e.srv
              /\ cursors' = [cursors EXCEPT ![c] = k]
              /\ Returned("execute", e.exc)
              /\ UNCHANGED inTransaction
           \/ /\ e.exc = "none"
              /\ \/ Unbound(c, e.srv, k0, t, "execute")
                 \/ \E r \in Sent(e.srv, kind, portal, k.name) :
                       \/ Accepted(c, k1, t, "execute", r, portal)
                       \/ Recovered(c, k0, t, "execute", r, Rollback(r.srv))
                       \/ Unrecovered(c, k0, t, "execute", r)

\* The reset of a cursor whose previous SELECT may still have its portal.
ReselectSession(c, kind) ==
    IF kind \in {"select", "direct"} THEN ResetSession(srv, cursors[c], inTransaction) ELSE srv
Reselected(c, kind) ==
    IF kind \in {"select", "direct"} /\ cursors[c].closed = "0" THEN Reset(cursors[c])
    ELSE cursors[c]

\* execute() of what it does not recognise as the start or end of a transaction.
Execute(c, kind) ==
    /\ Live(c)
    /\ \/ kind \in AutocommitKinds /\ autocommit
       \/ kind \in ExecuteKinds \ {"begin", "begin_level", "commit", "rollback"} /\ ~autocommit
       \/ kind \in ExecuteKinds \cap {"begin", "begin_level"} /\ ~autocommit /\ inTransaction
    /\ RunStatement(c, ReselectSession(c, kind), Reselected(c, kind), kind)
    /\ UNCHANGED <<isOpen, autocommit, TransactionLevel>>

\* execute("BEGIN ..."): the start of a transaction, and nothing else.
ExecuteBegin(c, kind) ==
    /\ Live(c)
    /\ kind \in ExecuteKinds \cap {"begin", "begin_level"}
    /\ ~autocommit
    /\ ~inTransaction
    /\ \E e \in SetupTransaction(srv, kind = "begin") :
          /\ srv' = e.srv
          /\ inTransaction' = (e.exc = "none")
          /\ Returned("execute", e.exc)
    /\ UNCHANGED <<isOpen, autocommit, TransactionLevel, cursors>>

\* execute("COMMIT") and execute("ROLLBACK") call the connection's methods,
\* on a new transaction when there was none.
ExecuteEnd(c, kind) ==
    /\ Live(c)
    /\ kind \in ExecuteKinds \cap {"commit", "rollback"}
    /\ ~autocommit
    /\ \E e \in Entered(srv) :
          \/ /\ e.exc # "none"
             /\ srv' = e.srv
             /\ Returned("execute", e.exc)
             /\ UNCHANGED <<connection, cursors>>
          \/ /\ e.exc = "none"
             /\ kind = "commit"
             /\ EndTransaction(e.srv, TRUE, Commit(CloseCursorsSession(e.srv, TRUE)), "commit")
          \/ /\ e.exc = "none"
             /\ kind = "rollback"
             /\ EndTransaction(e.srv, TRUE, Rollback(CloseCursorsSession(e.srv, TRUE)), "rollback")

\* execute_params() sends every statement as it is.
ExecuteParams(c, kind) ==
    /\ Live(c)
    /\ kind \in (IF autocommit THEN AutocommitKinds ELSE ParamsKinds)
    /\ RunStatement(c, ReselectSession(c, kind), Reselected(c, kind), kind)
    /\ UNCHANGED <<isOpen, autocommit, TransactionLevel>>

\* callproc(): select proc(args), without a portal of its own; the procedure may
\* write, or open a portal for a refcursor.  It recovers with END WORK.
ProcedureReplies(s) ==
    Query(s)
    \cup (UNION {Write(s, w) : w \in Unused(s)})
    \cup (UNION {Declare(s, n) : n \in UserNames})

Callproc(c) ==
    LET t == InTransactionAfterEntry
        k == cursors[c]
    IN  /\ k.closed = "None"
        /\ \E e \in Entered(srv) :
              \/ /\ e.exc # "none"
                 /\ srv' = e.srv
                 /\ Returned("callproc", e.exc)
                 /\ UNCHANGED <<inTransaction, cursors>>
              \/ /\ e.exc = "none"
                 /\ \/ Unbound(c, e.srv, k, t, "callproc")
                    \/ \E r \in ProcedureReplies(e.srv) :
                          \/ Accepted(c, [k EXCEPT !.res = "rows"], t, "callproc", r, FALSE)
                          \/ Recovered(c, k, t, "callproc", r, Commit(r.srv))
                          \/ Unrecovered(c, k, t, "callproc", r)
        /\ UNCHANGED <<isOpen, autocommit, TransactionLevel>>

-----------------------------------------------------------------------------
(* Cursor: the portal, and the end *)

\* fetchone, fetchmany and fetchall when they need rows from the portal, and
\* rewind, whose MOVE returns none.
PortalCommand(c, call, result) ==
    /\ cursors[c].closed = "0"
    /\ cursors[c].res # "None"
    /\ \E f \in UsePortal(srv, cursors[c].name) :
          /\ srv' = f.srv
          /\ cursors' = IF f.exc = "none" THEN [cursors EXCEPT ![c].res = result] ELSE cursors
          /\ Returned(call, f.exc)
    /\ UNCHANGED connection

Fetch(c) == PortalCommand(c, "fetch", "rows")
Rewind(c) == PortalCommand(c, "rewind", "other")

\* close(), which __del__ calls on a cursor that is not closed.
CloseCursor(c) ==
    /\ Live(c)
    /\ srv' = ResetSession(srv, cursors[c], inTransaction)
    /\ cursors' = [cursors EXCEPT ![c] = [Reset(@) EXCEPT !.closed = "1"]]
    /\ Returned("cursor.close", "none")
    /\ UNCHANGED connection

DropCursor(c) ==
    /\ cursors[c].closed # "unborn"
    /\ srv' = IF Live(c) THEN ResetSession(srv, cursors[c], inTransaction) ELSE srv
    /\ cursors' = [cursors EXCEPT ![c] = Unborn(c)]
    /\ Returned("cursor.close", "none")
    /\ UNCHANGED connection

-----------------------------------------------------------------------------
(* The world *)

BackendDies ==
    /\ "lost" \in Faults
    /\ srv.tx # "down"
    /\ srv' = GoneWith(srv.durable)
    /\ Returned("none", "none")
    /\ UNCHANGED <<connection, cursors>>

Next ==
    \/ \E c \in Cursors :
          \/ \E n \in {c} \cup UserNames, isRefCursor \in BOOLEAN : NewCursor(c, n, isRefCursor)
          \/ \E kind \in Kinds : Execute(c, kind) \/ ExecuteParams(c, kind)
          \/ \E kind \in Kinds : ExecuteBegin(c, kind) \/ ExecuteEnd(c, kind)
          \/ Callproc(c) \/ Fetch(c) \/ Rewind(c) \/ CloseCursor(c) \/ DropCursor(c)
    \/ ConnectionCommit \/ ConnectionRollback \/ CloseConnection
    \/ \E value \in BOOLEAN : SetAutocommit(value)
    \/ \E value \in Levels \cup {"bogus"} : SetTransactionLevel(value)
    \/ \E w \in Unused(srv), withString \in BOOLEAN : Binary(withString, w)
    \/ \E w \in Unused(srv) : Unlink(w)
    \/ BackendDies

Spec == Init /\ [][Next]_vars

-----------------------------------------------------------------------------
(* Properties *)

\* The variables of Connection and Cursor stay in the ranges their code relies
\* on: TransactionLevel is checked before it is assigned, closed is trinary.
TypeOK ==
    /\ isOpen \in BOOLEAN
    /\ autocommit \in BOOLEAN
    /\ inTransaction \in BOOLEAN
    /\ TransactionLevel \in Levels
    /\ cursors \in [Cursors -> Cursor]
    /\ srv \in Session
    /\ last \in [call : Calls, exc : Errors]

\* While inTransaction is set the session is in a transaction (or lost), so that
\* what the cursors write can still be rolled back.
TransactionTracked == inTransaction => srv.tx # "idle"

\* While inTransaction is 0 the session is outside any transaction (or lost): the
\* next BEGIN can succeed.  An aborted transaction nobody ends is a dead end,
\* because rollback() sends nothing when inTransaction is 0.
Recoverable == isOpen /\ ~inTransaction => srv.tx \in {"idle", "down"}

\* A transaction of the connection and autocommit exclude each other, although
\* autocommit can be assigned while a transaction is open.
AutocommitExclusive == inTransaction => isOpen /\ ~autocommit

\* Every portal belongs to a cursor that will close it, or to a name that the
\* application chose: none outlives its Cursor object.
PortalsOwned ==
    \A n \in srv.portals \ UserNames : cursors[n].closed = "0" /\ cursors[n].name = n

\* A cursor with closed = 0 has its portal while the transaction lives, so that
\* the CLOSE which __reset sends, ignoring errors, does not abort it.
PortalBacked ==
    srv.tx = "trans" => \A c \in Cursors : cursors[c].closed = "0" => cursors[c].name \in srv.portals

\* With autocommit off, a change becomes durable by commit() and unlink() only:
\* no other call, and no recovery from an error, commits anything.
DurableOnlyByCommit ==
    [][~autocommit /\ last'.call \notin {"commit", "unlink"} => srv'.durable = srv.durable]_vars

\* The calls that are meant to give up the changes of the open transaction.
Discarding == {"rollback", "close", "autocommit", "TransactionLevel"}

\* The application is told, by the call that does it, when the changes its
\* transaction holds can no longer be committed: no call returns normally and
\* leaves them aborted, or gone without being durable.
LossReported ==
    [][(srv.tx = "trans" /\ srv.pending # {} /\ last'.call \notin Discarding \cup {"none"}
        /\ last'.exc = "none")
       => \/ srv'.tx = "trans" /\ srv.pending \subseteq srv'.pending
          \/ srv.pending \subseteq srv'.durable]_vars

\* "Commit any pending transactions": a commit() that returns normally has made
\* every pending change durable.
CommitDurable ==
    [][last'.call = "commit" /\ last'.exc = "none" => srv.pending \subseteq srv'.durable]_vars

\* "After a commit or rollback, a new transaction is created on the next call to
\* execute()": with autocommit off, no statement becomes durable as it runs.
StatementsInTransaction ==
    [][~autocommit /\ last'.call = "execute" => srv'.durable \subseteq srv.durable \cup srv.pending]_vars

=============================================================================
