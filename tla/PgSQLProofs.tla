----------------------------- MODULE PgSQLProofs -----------------------------
(***************************************************************************)
(* Theorems about PgSQL, for every set of cursors, names and changes: its  *)
(* type, and how inTransaction, autocommit and the session's own           *)
(* transaction hang together.  Each theorem assumes only what its property *)
(* needs; the runs that refute a property show why its theorem needs the   *)
(* assumption.                                                             *)
(***************************************************************************)
EXTENDS PgSQL, TLAPS

Replies == [srv : Session, exc : Exceptions, notice : BOOLEAN]

-----------------------------------------------------------------------------
(* What the replies of Backend are. *)

LEMMA AbortedByType ==
    ASSUME NEW s \in Session
    PROVE  AbortedBy(s) \in Session
BY DEF AbortedBy, Session, TxStatus

LEMMA ReplyType ==
    ASSUME NEW s \in Session, NEW e \in Exceptions, NEW n \in BOOLEAN
    PROVE  Reply(s, e, n) \in Replies
BY DEF Reply, Replies

LEMMA WithNoticesType ==
    ASSUME NEW R \in SUBSET Replies
    PROVE  WithNotices(R) \in SUBSET Replies
BY DEF WithNotices, When, Replies

LEMMA BasicReplyType ==
    ASSUME NEW s \in Session
    PROVE  Done(s) \in Replies /\ Refused(s) \in Replies
BY AbortedByType, ReplyType DEF Done, Refused, Exceptions

LEMMA StatementType ==
    ASSUME NEW s \in Session, NEW t \in Session, NEW a \in BOOLEAN
    PROVE  Statement(s, a, t) \in SUBSET Replies
<1>1. {Done(t)} \in SUBSET Replies /\ {Refused(s)} \in SUBSET Replies
  BY BasicReplyType
<1>2. {Reply(u, "InternalError", FALSE) : u \in {s, t}} \in SUBSET Replies
  BY ReplyType DEF Exceptions
<1> QED BY <1>1, <1>2, WithNoticesType DEF Statement, When

LEMMA ChangedType ==
    ASSUME NEW s \in Session, NEW w \in Writes
    PROVE  Changed(s, w) \in Session
BY DEF Changed, Session, TxStatus

LEMMA WriteType ==
    ASSUME NEW s \in Session, NEW w \in Writes
    PROVE  Write(s, w) \in SUBSET Replies
<1>1. Statement(s, TRUE, Changed(s, w)) \in SUBSET Replies
  BY ChangedType, StatementType
<1>2. Reply(AbortedBy(s), "IntegrityError", FALSE) \in Replies
  BY AbortedByType, ReplyType DEF Exceptions
<1> QED BY <1>1, <1>2 DEF Write, When

LEMMA LargeObjectCallType ==
    ASSUME NEW s \in Session, NEW t \in Session, NEW e \in Exceptions
    PROVE  LargeObjectCall(s, t, e) \in SUBSET Replies
<1>1. Statement(s, TRUE, t) \in SUBSET Replies
  BY StatementType
<1> QED BY <1>1 DEF LargeObjectCall, Replies

LEMMA DeclareType ==
    ASSUME NEW s \in Session, NEW n \in Names
    PROVE  Declare(s, n) \in SUBSET Replies
<1>1. [s EXCEPT !.portals = @ \cup {n}] \in Session
  BY DEF Session
<1> QED BY <1>1, StatementType DEF Declare

LEMMA UsePortalType ==
    ASSUME NEW s \in Session, NEW n \in Names
    PROVE  UsePortal(s, n) \in SUBSET Replies
<1>1. (n \in s.portals) \in BOOLEAN
  OBVIOUS
<1> QED BY <1>1, StatementType DEF UsePortal

LEMMA ClosedPortalType ==
    ASSUME NEW s \in Session, NEW n \in Names
    PROVE  ClosedPortal(s, n) \in Session
BY AbortedByType DEF ClosedPortal, Session

LEMMA BeginType ==
    ASSUME NEW s \in Session
    PROVE  Begin(s) \in SUBSET Replies
<1>1. [s EXCEPT !.tx = "trans"] \in Session
  BY DEF Session, TxStatus
<1>2. Reply([s EXCEPT !.tx = "trans"], "none", s.tx = "trans") \in Replies
  BY <1>1, ReplyType DEF Exceptions
<1>3. Refused(s) \in Replies
  BY BasicReplyType
<1> QED BY <1>2, <1>3, WithNoticesType DEF Begin

LEMMA SetLevelType ==
    ASSUME NEW s \in Session, NEW fresh \in BOOLEAN
    PROVE  SetLevel(s, fresh) \in SUBSET Replies
<1>1. Done(s) \in Replies /\ Refused(s) \in Replies
  BY BasicReplyType
<1> QED BY <1>1, WithNoticesType DEF SetLevel, When

LEMMA EndType ==
    ASSUME NEW s \in Session
    PROVE  /\ Commit(s) \in SUBSET Replies
           /\ Rollback(s) \in SUBSET Replies
<1>1. /\ EndedWith(s.durable) \in Session
      /\ EndedWith(s.durable \cup s.pending) \in Session
      /\ \A d \in {s.durable, s.durable \cup s.pending} : GoneWith(d) \in Session
  BY DEF EndedWith, GoneWith, Session, TxStatus
<1>2. /\ Done(EndedWith(s.durable)) \in Replies
      /\ Done(EndedWith(s.durable \cup s.pending)) \in Replies
      /\ Refused(s) \in Replies
      /\ Reply(s, "none", TRUE) \in Replies
      /\ Reply(EndedWith(s.durable), "OperationalError", FALSE) \in Replies
      /\ Reply(EndedWith(s.durable), "IntegrityError", FALSE) \in Replies
      /\ \A d \in {s.durable, s.durable \cup s.pending} :
            Reply(GoneWith(d), "OperationalError", FALSE) \in Replies
  BY <1>1, BasicReplyType, ReplyType DEF Exceptions
<1>3. Commit(s) \in SUBSET Replies
  <2>1. CASE s.tx = "trans"
    BY <1>2, <2>1, WithNoticesType DEF Commit, When
  <2>2. CASE s.tx = "aborted"
    BY <1>2, <2>2, WithNoticesType DEF Commit
  <2>3. CASE s.tx = "idle"
    BY <1>2, <2>3, WithNoticesType DEF Commit
  <2>4. CASE s.tx \notin {"trans", "aborted", "idle"}
    BY <1>2, <2>4, WithNoticesType DEF Commit
  <2> QED BY <2>1, <2>2, <2>3, <2>4
<1>4. Rollback(s) \in SUBSET Replies
  <2>1. CASE s.tx \in {"trans", "aborted"}
    BY <1>2, <2>1, WithNoticesType DEF Rollback
  <2>2. CASE s.tx = "idle"
    BY <1>2, <2>2, WithNoticesType DEF Rollback
  <2>3. CASE s.tx \notin {"trans", "aborted", "idle"}
    BY <1>2, <2>3, WithNoticesType DEF Rollback
  <2> QED BY <2>1, <2>2, <2>3
<1> QED BY <1>3, <1>4

-----------------------------------------------------------------------------
(* Types of what the handlers share. *)

Outcomes == [srv : Session, exc : Errors, notice : BOOLEAN]

LEMMA RepliesAreOutcomes == Replies \subseteq Outcomes
BY DEF Replies, Outcomes, Errors

LEMMA SetupTransactionType ==
    ASSUME NEW s \in Session, NEW plain \in BOOLEAN
    PROVE  SetupTransaction(s, plain) \in SUBSET Outcomes
<1>1. \A b \in Begin(s) : b \in Replies
  BY BeginType
<1>2. CASE TransactionLevel = "" \/ ~plain \/ ~Runs(s)
  <2>1. SetupTransaction(s, plain) = Begin(s)
    BY <1>2 DEF SetupTransaction
  <2>2. Begin(s) \subseteq Outcomes
    BY <1>1, RepliesAreOutcomes
  <2> QED BY <2>1, <2>2
<1>3. CASE ~(TransactionLevel = "" \/ ~plain \/ ~Runs(s))
  <2> DEFINE F(r, b) == [r EXCEPT !.exc = IF @ = "none" /\ r.notice THEN "Warning" ELSE @,
                                  !.notice = @ \/ b.notice]
             G(b) == {F(r, b) : r \in SetLevel(b.srv, s.tx = "idle")}
  <2>1. ASSUME NEW b \in Begin(s)
        PROVE  G(b) \subseteq Outcomes
    <3>1. b.srv \in Session /\ b.notice \in BOOLEAN
      BY <1>1 DEF Replies
    <3>2. (s.tx = "idle") \in BOOLEAN
      OBVIOUS
    <3>3. \A r \in SetLevel(b.srv, s.tx = "idle") : r \in Outcomes
      BY <3>1, <3>2, SetLevelType, RepliesAreOutcomes
    <3>4. \A r \in Outcomes : F(r, b) \in Outcomes
      BY <3>1 DEF Outcomes, Errors
    <3> QED BY <3>3, <3>4
  <2>2. SetupTransaction(s, plain) = UNION {G(b) : b \in Begin(s)}
    BY <1>3 DEF SetupTransaction
  <2> HIDE DEF G
  <2> QED BY <2>1, <2>2
<1> QED BY <1>2, <1>3

LEMMA EnteredType ==
    ASSUME NEW s \in Session
    PROVE  Entered(s) \in SUBSET Outcomes
BY SetupTransactionType, BasicReplyType, RepliesAreOutcomes DEF Entered

LEMMA ResetType ==
    ASSUME NEW k \in Cursor
    PROVE  Reset(k) \in Cursor
BY DEF Reset, Cursor

LEMMA ResetSessionType ==
    ASSUME NEW s \in Session, NEW k \in Cursor, NEW t
    PROVE  ResetSession(s, k, t) \in Session
<1>1. k.name \in Names
  BY DEF Cursor
<1> QED BY <1>1, ClosedPortalType DEF ResetSession

LEMMA CloseCursorsSessionType ==
    ASSUME NEW s \in Session, NEW t, cursors \in [Cursors -> Cursor]
    PROVE  CloseCursorsSession(s, t) \in Session
<1> DEFINE names == {cursors[c].name : c \in {d \in Cursors : cursors[d].closed = "0"}}
<1>1. [s EXCEPT !.portals = @ \ names] \in Session
  BY DEF Session
<1> QED BY <1>1, AbortedByType DEF CloseCursorsSession

LEMMA ResetCursorsType ==
    ASSUME cursors \in [Cursors -> Cursor]
    PROVE  ResetCursors \in [Cursors -> Cursor]
BY ResetType DEF ResetCursors

LEMMA RaisedType ==
    ASSUME NEW r \in Replies
    PROVE  Raised(r) \in Errors
BY DEF Raised, Replies, Errors

LEMMA ReturnedType ==
    ASSUME NEW call \in Calls, NEW e \in Errors, Returned(call, e)
    PROVE  last' \in [call : Calls, exc : Errors]
BY DEF Returned

-----------------------------------------------------------------------------
(* Running a statement keeps the types. *)

\* The part of TypeOK that statements change.
Mutable ==
    /\ inTransaction \in BOOLEAN
    /\ cursors \in [Cursors -> Cursor]
    /\ srv \in Session
    /\ last \in [call : Calls, exc : Errors]

LEMMA SentType ==
    ASSUME NEW s \in Session, NEW kind \in Kinds, NEW portal \in BOOLEAN, NEW n \in Names,
           portal => kind = "select"
    PROVE  Sent(s, kind, portal, n) \in SUBSET Replies
<1>1. CASE portal
  BY <1>1, DeclareType DEF Sent
<1>2. CASE ~portal /\ kind \in {"select", "direct"}
  <2>1. Sent(s, kind, portal, n) = Statement(s, TRUE, s)
    BY <1>2 DEF Sent, Query
  <2> QED BY <2>1, StatementType
<1>3. CASE ~portal /\ kind = "write"
  <2>1. Sent(s, kind, portal, n) = UNION {Write(s, w) : w \in Unused(s)}
    BY <1>3 DEF Sent
  <2>2. \A w \in Unused(s) : Write(s, w) \subseteq Replies
    BY WriteType DEF Unused
  <2> QED BY <2>1, <2>2
<1>4. CASE ~portal /\ kind \in {"begin", "begin_level"}
  BY <1>4, BeginType DEF Sent
<1>5. CASE ~portal /\ kind \in {"commit", "rollback"}
  BY <1>5, EndType DEF Sent
<1> QED BY <1>1, <1>2, <1>3, <1>4, <1>5 DEF Kinds

LEMMA AcceptedType ==
    ASSUME NEW c \in Cursors, NEW k \in Cursor, NEW t \in BOOLEAN, NEW call \in Calls,
           NEW r \in Replies, NEW portal \in BOOLEAN, cursors \in [Cursors -> Cursor],
           Accepted(c, k, t, call, r, portal)
    PROVE  Mutable'
<1>1. k.name \in Names /\ r.srv \in Session /\ Exceptions \subseteq Errors
  BY DEF Cursor, Replies, Errors
<1>2. CASE portal
  <2>1. PICK f \in UsePortal(r.srv, k.name) :
               /\ srv' = f.srv
               /\ cursors' = [cursors EXCEPT ![c] =
                                [k EXCEPT !.res = IF f.exc = "none" THEN "rows" ELSE "other"]]
               /\ Returned(call, f.exc)
    BY <1>2 DEF Accepted
  <2>2. f \in Replies
    BY <1>1, UsePortalType
  <2>3. [k EXCEPT !.res = IF f.exc = "none" THEN "rows" ELSE "other"] \in Cursor
    BY DEF Cursor
  <2> QED BY <1>1, <2>1, <2>2, <2>3, ReturnedType DEF Accepted, Mutable, Replies
<1>3. CASE ~portal
  BY <1>1, <1>3, ReturnedType DEF Accepted, Mutable, Exceptions
<1> QED BY <1>2, <1>3

LEMMA RecoveredType ==
    ASSUME NEW c \in Cursors, NEW k \in Cursor, NEW t \in BOOLEAN, NEW call \in Calls,
           NEW r \in Replies, cursors \in [Cursors -> Cursor],
           \/ Recovered(c, k, t, call, r, Commit(r.srv))
           \/ Recovered(c, k, t, call, r, Rollback(r.srv))
    PROVE  Mutable'
<1>1. r.srv \in Session
  BY DEF Replies
<1>2. CASE ~t
  BY <1>1, <1>2, ReturnedType DEF Recovered, Mutable, Errors, Exceptions
<1>3. CASE t
  <2> DEFINE failed(e) == e.exc # "none" \/ (e.notice /\ call = "execute")
  <2>1. PICK e \in Commit(r.srv) \cup Rollback(r.srv) :
               /\ srv' = e.srv
               /\ inTransaction' = failed(e)
               /\ cursors' = IF failed(e) THEN [cursors EXCEPT ![c] = k]
                             ELSE [d \in Cursors |-> IF Live(d) THEN Reset(IF d = c THEN k ELSE cursors[d])
                                                                ELSE cursors[d]]
               /\ Returned(call, IF e.exc # "none" THEN e.exc
                                 ELSE IF failed(e) THEN "Warning" ELSE "OperationalError")
    BY <1>3 DEF Recovered
  <2>2. e \in Replies
    BY <1>1, <2>1, EndType
  <2>3. cursors' \in [Cursors -> Cursor]
    BY <2>1, ResetType
  <2>4. last' \in [call : Calls, exc : Errors]
    BY <2>1, <2>2, ReturnedType DEF Replies, Errors, Exceptions
  <2> QED BY <2>1, <2>2, <2>3, <2>4 DEF Mutable, Replies
<1> QED BY <1>2, <1>3

LEMMA UnrecoveredType ==
    ASSUME NEW c \in Cursors, NEW k \in Cursor, NEW t \in BOOLEAN, NEW call \in Calls,
           NEW r \in Replies, cursors \in [Cursors -> Cursor],
           Unrecovered(c, k, t, call, r)
    PROVE  Mutable'
BY ReturnedType DEF Unrecovered, Mutable, Replies, Errors, Exceptions

LEMMA UnboundType ==
    ASSUME NEW c \in Cursors, NEW k \in Cursor, NEW t \in BOOLEAN, NEW call \in Calls,
           NEW s \in Session, cursors \in [Cursors -> Cursor],
           Unbound(c, s, k, t, call)
    PROVE  Mutable'
BY ReturnedType DEF Unbound, Mutable, Errors

LEMMA RunStatementType ==
    ASSUME TypeOK, NEW c \in Cursors, NEW s \in Session, NEW k \in Cursor, NEW kind \in Kinds,
           RunStatement(c, s, k, kind)
    PROVE  Mutable'
<1> DEFINE portal == kind = "select" /\ ~autocommit
           t == InTransactionAfterEntry
           k0 == IF portal THEN [k EXCEPT !.closed = "0"] ELSE k
           k1 == [k0 EXCEPT !.res = IF kind \in {"select", "direct"} THEN "rows" ELSE "other"]
<1>1. k0 \in Cursor /\ k1 \in Cursor /\ t \in BOOLEAN /\ portal \in BOOLEAN /\ k.name \in Names
  BY DEF Cursor, TypeOK, InTransactionAfterEntry
<1>2. PICK e \in Entered(s) :
           \/ /\ e.exc # "none"
              /\ srv' = e.srv
              /\ cursors' = [cursors EXCEPT ![c] = k]
              /\ Returned("execute", e.exc)
              /\ UNCHANGED inTransaction
           \/ /\ e.exc = "none"
              /\ \/ Unbound(c, e.srv, k0, t, "execute")
                 \/ \E r \in Sent(e.srv, kind, portal, k.name) :
                       \/ Accepted(c, k1, t, "execute", r, portal)
                       \/ Recovered(c, k0, t, "execute", r, Rollback(r.srv))
                       \/ Unrecovered(c, k0, t, "execute", r)
  BY DEF RunStatement
<1>3. e \in Outcomes /\ e.srv \in Session
  BY EnteredType DEF Outcomes
<1>4. "execute" \in Calls
  BY DEF Calls
<1>5. CASE e.exc # "none" /\ srv' = e.srv /\ cursors' = [cursors EXCEPT ![c] = k]
           /\ Returned("execute", e.exc) /\ UNCHANGED inTransaction
  BY <1>3, <1>4, <1>5, ReturnedType DEF Mutable, TypeOK, Outcomes
<1>6. CASE Unbound(c, e.srv, k0, t, "execute")
  BY <1>1, <1>3, <1>4, <1>6, UnboundType DEF TypeOK
<1>7. ASSUME NEW r \in Sent(e.srv, kind, portal, k.name),
             \/ Accepted(c, k1, t, "execute", r, portal)
             \/ Recovered(c, k0, t, "execute", r, Rollback(r.srv))
             \/ Unrecovered(c, k0, t, "execute", r)
      PROVE  Mutable'
  <2>1. r \in Replies
    BY <1>1, <1>3, SentType
  <2>2. cursors \in [Cursors -> Cursor]
    BY DEF TypeOK
  <2> HIDE DEF k0, k1, t, portal
  <2> QED BY <1>1, <1>4, <1>7, <2>1, <2>2, AcceptedType, RecoveredType, UnrecoveredType
<1> QED BY <1>2, <1>5, <1>6, <1>7

-----------------------------------------------------------------------------
(* Every call keeps the types. *)

LEMMA NewCursorType ==
    ASSUME TypeOK, NEW c \in Cursors, NEW n \in {c} \cup UserNames, NEW isRefCursor \in BOOLEAN,
           NewCursor(c, n, isRefCursor)
    PROVE  TypeOK'
<1> DEFINE t == InTransactionAfterEntry
           k == [closed |-> "0", name |-> n, res |-> "rows"]
           fresh == [closed |-> "None", name |-> n, res |-> "None"]
<1>1. t \in BOOLEAN /\ n \in Names /\ k \in Cursor /\ fresh \in Cursor /\ "cursor" \in Calls
  BY PgSQLAssumption DEF TypeOK, InTransactionAfterEntry, Cursor, Calls
<1>2. PICK e \in Entered(srv) :
          \/ /\ e.exc # "none"
             /\ srv' = e.srv
             /\ Returned("cursor", e.exc)
             /\ UNCHANGED <<connection, cursors>>
          \/ /\ e.exc = "none"
             /\ srv' = e.srv
             /\ inTransaction' = t
             /\ cursors' = [cursors EXCEPT ![c] = fresh]
             /\ Returned("cursor", "none")
             /\ UNCHANGED <<isOpen, autocommit, TransactionLevel>>
          \/ /\ e.exc = "none"
             /\ inTransaction' = t
             /\ \E f \in UsePortal(e.srv, n) :
                       /\ srv' = IF f.exc = "none" THEN f.srv ELSE ResetSession(f.srv, k, t)
                       /\ cursors' = IF f.exc = "none" THEN [cursors EXCEPT ![c] = k] ELSE cursors
                       /\ Returned("cursor", f.exc)
             /\ UNCHANGED <<isOpen, autocommit, TransactionLevel>>
  BY DEF NewCursor
<1>3. e \in Outcomes /\ e.srv \in Session /\ e.exc \in Errors
  BY EnteredType DEF TypeOK, Outcomes
<1>4. "none" \in Errors /\ Exceptions \subseteq Errors
  BY DEF Errors, Exceptions
<1>5. CASE e.exc # "none" /\ srv' = e.srv /\ Returned("cursor", e.exc)
           /\ UNCHANGED <<connection, cursors>>
  BY <1>1, <1>3, <1>5, ReturnedType DEF TypeOK, connection
<1>6. CASE /\ srv' = e.srv
           /\ inTransaction' = t
           /\ cursors' = [cursors EXCEPT ![c] = fresh]
           /\ Returned("cursor", "none")
           /\ UNCHANGED <<isOpen, autocommit, TransactionLevel>>
  <2> HIDE DEF t, fresh
  <2> QED BY <1>1, <1>3, <1>4, <1>6, ReturnedType DEF TypeOK
<1>7. ASSUME NEW f \in UsePortal(e.srv, n),
             inTransaction' = t,
             srv' = IF f.exc = "none" THEN f.srv ELSE ResetSession(f.srv, k, t),
             cursors' = IF f.exc = "none" THEN [cursors EXCEPT ![c] = k] ELSE cursors,
             Returned("cursor", f.exc),
             UNCHANGED <<isOpen, autocommit, TransactionLevel>>
      PROVE  TypeOK'
  <2> HIDE DEF t, k
  <2>1. f.srv \in Session /\ f.exc \in Exceptions
    BY <1>1, <1>3, UsePortalType DEF Replies
  <2>2. srv' \in Session
    BY <1>1, <1>7, <2>1, ResetSessionType
  <2> QED BY <1>1, <1>4, <1>7, <2>1, <2>2, ReturnedType DEF TypeOK
<1> QED BY <1>2, <1>5, <1>6, <1>7

LEMMA EndTransactionType ==
    ASSUME TypeOK, NEW s \in Session, NEW t \in BOOLEAN, NEW call \in Calls,
           \/ EndTransaction(s, t, Commit(CloseCursorsSession(s, t)), call)
           \/ EndTransaction(s, t, Rollback(CloseCursorsSession(s, t)), call)
    PROVE  TypeOK'
<1>1. CloseCursorsSession(s, t) \in Session
  BY CloseCursorsSessionType DEF TypeOK
<1>2. \A r \in Commit(CloseCursorsSession(s, t)) \cup Rollback(CloseCursorsSession(s, t)) :
         r \in Replies /\ r.srv \in Session
  BY <1>1, EndType DEF Replies
<1>3. srv' \in Session /\ last' \in [call : Calls, exc : Errors]
  BY <1>2, RaisedType, ReturnedType DEF EndTransaction, Errors, Exceptions
<1>4. cursors' \in [Cursors -> Cursor]
  BY ResetCursorsType DEF EndTransaction, TypeOK
<1> QED BY <1>3, <1>4 DEF EndTransaction, TypeOK

LEMMA CloseConnectionType ==
    ASSUME TypeOK, CloseConnection
    PROVE  TypeOK'
<1>1. GoneWith(srv.durable) \in Session
  BY DEF TypeOK, GoneWith, Session, TxStatus
<1>2. \A c \in Cursors : [Reset(cursors[c]) EXCEPT !.closed = "1"] \in Cursor
  BY ResetType DEF TypeOK, Cursor
<1>3. cursors' \in [Cursors -> Cursor]
  BY <1>2 DEF CloseConnection, TypeOK
<1>4. last' \in [call : Calls, exc : Errors]
  BY ReturnedType DEF CloseConnection, Calls, Errors, Exceptions
<1> QED BY <1>1, <1>3, <1>4 DEF CloseConnection, TypeOK, Levels

LEMMA SetAttributeType ==
    ASSUME TypeOK,
           \/ \E value \in BOOLEAN : SetAutocommit(value)
           \/ \E value \in Levels \cup {"bogus"} : SetTransactionLevel(value)
    PROVE  TypeOK'
<1>1. \A r \in RolledBackFirst : r \in Replies /\ r.srv \in Session /\ Raised(r) \in Errors
  BY EndType, BasicReplyType, RaisedType DEF RolledBackFirst, TypeOK, Replies
<1>2. {"autocommit", "TransactionLevel"} \subseteq Calls /\ "ValueError" \in Errors
  BY DEF Calls, Errors
<1>3. CASE \E value \in BOOLEAN : SetAutocommit(value)
  BY <1>1, <1>2, <1>3, ReturnedType DEF SetAutocommit, TypeOK
<1>4. CASE \E value \in Levels \cup {"bogus"} : SetTransactionLevel(value)
  BY <1>1, <1>2, <1>4, ReturnedType DEF SetTransactionLevel, TypeOK
<1> QED BY <1>3, <1>4

LEMMA LargeObjectType ==
    ASSUME TypeOK, NEW w \in Unused(srv),
           Unlink(w) \/ \E withString \in BOOLEAN : Binary(withString, w)
    PROVE  TypeOK'
<1>1. w \in Writes /\ {"binary", "unlink"} \subseteq Calls
      /\ {"IOError", "OperationalError"} \subseteq Exceptions /\ Exceptions \subseteq Errors
      /\ "Warning" \in Errors
  BY DEF Unused, Calls, Exceptions, Errors
<1>2. CASE Unlink(w)
  <2>1. \A r \in LargeObjectCall(srv, Changed(srv, w), "IOError") :
           r.srv \in Session /\ Raised(r) \in Errors
    BY <1>1, ChangedType, LargeObjectCallType, RaisedType DEF TypeOK, Replies
  <2> QED BY <1>1, <1>2, <2>1, ReturnedType DEF Unlink, TypeOK, connection
<1>3. ASSUME NEW withString \in BOOLEAN, Binary(withString, w)
      PROVE  TypeOK'
  <2>1. PICK e \in Entered(srv) :
          /\ inTransaction' = (inTransaction \/ e.exc = "none")
          /\ \/ e.exc # "none" /\ srv' = e.srv /\ Returned("binary", e.exc)
             \/ /\ e.exc = "none"
                /\ \E r \in LargeObjectCall(e.srv, Changed(e.srv, w), "OperationalError") :
                      LET warned == e.notice \/ r.notice
                      IN  \/ /\ r.exc # "none" \/ warned \/ ~withString
                             /\ srv' = r.srv
                             /\ Returned("binary", IF r.exc = "none" /\ warned THEN "Warning"
                                                   ELSE r.exc)
                          \/ /\ r.exc = "none" /\ ~warned /\ withString
                             /\ \E q \in LargeObjectCall(r.srv, r.srv, "IOError") :
                                   IF Raised(q) = "Warning"
                                   THEN \E b \in Rollback(q.srv) :
                                           /\ srv' = b.srv
                                           /\ Returned("binary", IF b.exc = "none" THEN "Warning"
                                                                 ELSE b.exc)
                                   ELSE srv' = q.srv /\ Returned("binary", q.exc)
    BY <1>3 DEF Binary
  <2>2. e.srv \in Session /\ e.exc \in Errors
    BY EnteredType DEF TypeOK, Outcomes
  <2>3. \A r \in LargeObjectCall(e.srv, Changed(e.srv, w), "OperationalError") :
           r.srv \in Session /\ r.exc \in Errors
    BY <1>1, <2>2, ChangedType, LargeObjectCallType DEF Replies
  <2>4. ASSUME NEW s \in Session, NEW q \in LargeObjectCall(s, s, "IOError")
        PROVE  /\ q.srv \in Session
               /\ q.exc \in Errors
               /\ \A b \in Rollback(q.srv) : b.srv \in Session /\ b.exc \in Errors
    <3>1. q.srv \in Session /\ q.exc \in Errors
      BY <1>1, LargeObjectCallType DEF Replies
    <3> QED BY <1>1, <3>1, EndType DEF Replies
  <2>5. srv' \in Session /\ last' \in [call : Calls, exc : Errors]
    <3>1. CASE e.exc # "none" /\ srv' = e.srv /\ Returned("binary", e.exc)
      BY <1>1, <2>2, <3>1, ReturnedType
    <3>2. ASSUME NEW r \in LargeObjectCall(e.srv, Changed(e.srv, w), "OperationalError"),
                 srv' = r.srv,
                 Returned("binary", r.exc) \/ Returned("binary", "Warning")
          PROVE  srv' \in Session /\ last' \in [call : Calls, exc : Errors]
      BY <1>1, <2>3, <3>2, ReturnedType
    <3>3. ASSUME NEW r \in LargeObjectCall(e.srv, Changed(e.srv, w), "OperationalError"),
                 NEW q \in LargeObjectCall(r.srv, r.srv, "IOError"),
                 \/ srv' = q.srv /\ Returned("binary", q.exc)
                 \/ \E b \in Rollback(q.srv) :
                       /\ srv' = b.srv
                       /\ Returned("binary", b.exc) \/ Returned("binary", "Warning")
          PROVE  srv' \in Session /\ last' \in [call : Calls, exc : Errors]
      BY <1>1, <2>3, <2>4, <3>3, ReturnedType
    <3> QED BY <2>1, <3>1, <3>2, <3>3
  <2> QED BY <1>3, <2>1, <2>5 DEF Binary, TypeOK
<1> QED BY <1>2, <1>3

LEMMA ExecuteType ==
    ASSUME TypeOK, NEW c \in Cursors, NEW kind \in Kinds,
           Execute(c, kind) \/ ExecuteParams(c, kind)
    PROVE  TypeOK'
<1>1. ReselectSession(c, kind) \in Session /\ Reselected(c, kind) \in Cursor
  BY ResetType, ResetSessionType DEF ReselectSession, Reselected, TypeOK
<1>2. RunStatement(c, ReselectSession(c, kind), Reselected(c, kind), kind)
  BY DEF Execute, ExecuteParams
<1>3. Mutable'
  BY <1>1, <1>2, RunStatementType
<1> QED BY <1>3 DEF Mutable, Execute, ExecuteParams, TypeOK

LEMMA ExecuteBeginType ==
    ASSUME TypeOK, NEW c \in Cursors, NEW kind \in Kinds, ExecuteBegin(c, kind)
    PROVE  TypeOK'
<1>1. (kind = "begin") \in BOOLEAN /\ "execute" \in Calls
  BY DEF Calls
<1>2. \A e \in SetupTransaction(srv, kind = "begin") : e.srv \in Session /\ e.exc \in Errors
  BY <1>1, SetupTransactionType DEF TypeOK, Outcomes
<1> QED BY <1>1, <1>2, ReturnedType DEF ExecuteBegin, TypeOK

LEMMA ExecuteEndType ==
    ASSUME TypeOK, NEW c \in Cursors, NEW kind \in Kinds, ExecuteEnd(c, kind)
    PROVE  TypeOK'
<1>1. {"execute", "commit", "rollback"} \subseteq Calls
  BY DEF Calls
<1>2. PICK e \in Entered(srv) :
          \/ /\ e.exc # "none"
             /\ srv' = e.srv
             /\ Returned("execute", e.exc)
             /\ UNCHANGED <<connection, cursors>>
          \/ EndTransaction(e.srv, TRUE, Commit(CloseCursorsSession(e.srv, TRUE)), "commit")
          \/ EndTransaction(e.srv, TRUE, Rollback(CloseCursorsSession(e.srv, TRUE)), "rollback")
  BY DEF ExecuteEnd
<1>3. e.srv \in Session /\ e.exc \in Errors
  BY EnteredType DEF TypeOK, Outcomes
<1>4. CASE srv' = e.srv /\ Returned("execute", e.exc) /\ UNCHANGED <<connection, cursors>>
  BY <1>1, <1>3, <1>4, ReturnedType DEF TypeOK, connection
<1> QED BY <1>1, <1>2, <1>3, <1>4, EndTransactionType

LEMMA CallprocType ==
    ASSUME TypeOK, NEW c \in Cursors, Callproc(c)
    PROVE  TypeOK'
<1> DEFINE t == InTransactionAfterEntry
           k == cursors[c]
           k1 == [k EXCEPT !.res = "rows"]
<1>1. t \in BOOLEAN /\ k \in Cursor /\ k1 \in Cursor /\ "callproc" \in Calls
  BY DEF TypeOK, InTransactionAfterEntry, Cursor, Calls
<1>2. PICK e \in Entered(srv) :
              \/ /\ e.exc # "none"
                 /\ srv' = e.srv
                 /\ Returned("callproc", e.exc)
                 /\ UNCHANGED <<inTransaction, cursors>>
              \/ /\ e.exc = "none"
                 /\ \/ Unbound(c, e.srv, k, t, "callproc")
                    \/ \E r \in ProcedureReplies(e.srv) :
                          \/ Accepted(c, k1, t, "callproc", r, FALSE)
                          \/ Recovered(c, k, t, "callproc", r, Commit(r.srv))
                          \/ Unrecovered(c, k, t, "callproc", r)
  BY DEF Callproc
<1>3. e.srv \in Session /\ e.exc \in Errors
  BY EnteredType DEF TypeOK, Outcomes
<1>4. ASSUME NEW r \in ProcedureReplies(e.srv)
      PROVE  r \in Replies
  <2>1. CASE r \in Query(e.srv)
    BY <1>3, <2>1, StatementType DEF Query
  <2>2. ASSUME NEW w \in Unused(e.srv), r \in Write(e.srv, w)
        PROVE  r \in Replies
    BY <1>3, <2>2, WriteType DEF Unused
  <2>3. ASSUME NEW n \in UserNames, r \in Declare(e.srv, n)
        PROVE  r \in Replies
    <3>1. n \in Names
      BY PgSQLAssumption
    <3> QED BY <1>3, <2>3, <3>1, DeclareType
  <2> QED BY <2>1, <2>2, <2>3 DEF ProcedureReplies
<1>5. CASE srv' = e.srv /\ Returned("callproc", e.exc) /\ UNCHANGED <<inTransaction, cursors>>
  BY <1>1, <1>3, <1>5, ReturnedType DEF Callproc, TypeOK
<1>6. CASE Unbound(c, e.srv, k, t, "callproc")
  <2>1. Mutable'
    BY <1>1, <1>3, <1>6, UnboundType DEF TypeOK
  <2> QED BY <2>1 DEF Mutable, Callproc, TypeOK
<1>7. ASSUME NEW r \in ProcedureReplies(e.srv),
             \/ Accepted(c, k1, t, "callproc", r, FALSE)
             \/ Recovered(c, k, t, "callproc", r, Commit(r.srv))
             \/ Unrecovered(c, k, t, "callproc", r)
      PROVE  TypeOK'
  <2>1. r \in Replies /\ cursors \in [Cursors -> Cursor]
    BY <1>4 DEF TypeOK
  <2> HIDE DEF k, k1, t
  <2>2. Mutable'
    BY <1>1, <1>7, <2>1, AcceptedType, RecoveredType, UnrecoveredType
  <2> QED BY <2>2 DEF Mutable, Callproc, TypeOK
<1> QED BY <1>2, <1>5, <1>6, <1>7

LEMMA PortalCommandType ==
    ASSUME TypeOK, NEW c \in Cursors, Fetch(c) \/ Rewind(c)
    PROVE  TypeOK'
<1>1. cursors[c].name \in Names /\ {"fetch", "rewind"} \subseteq Calls /\ Exceptions \subseteq Errors
  BY DEF TypeOK, Cursor, Calls, Errors
<1>2. \A f \in UsePortal(srv, cursors[c].name) : f.srv \in Session /\ f.exc \in Errors
  BY <1>1, UsePortalType DEF TypeOK, Replies
<1>3. \A result \in {"rows", "other"} :
         [cursors EXCEPT ![c].res = result] \in [Cursors -> Cursor]
  BY DEF TypeOK, Cursor
<1>4. CASE Fetch(c)
  BY <1>1, <1>2, <1>3, <1>4, ReturnedType DEF Fetch, PortalCommand, TypeOK, connection
<1>5. CASE Rewind(c)
  BY <1>1, <1>2, <1>3, <1>5, ReturnedType DEF Rewind, PortalCommand, TypeOK, connection
<1> QED BY <1>4, <1>5

LEMMA EndCursorType ==
    ASSUME TypeOK, NEW c \in Cursors, CloseCursor(c) \/ DropCursor(c)
    PROVE  TypeOK'
<1>1. /\ ResetSession(srv, cursors[c], inTransaction) \in Session
      /\ [Reset(cursors[c]) EXCEPT !.closed = "1"] \in Cursor
      /\ Unborn(c) \in Cursor
  BY ResetType, ResetSessionType, PgSQLAssumption DEF TypeOK, Cursor, Unborn
<1>2. "cursor.close" \in Calls /\ "none" \in Errors
  BY DEF Calls, Errors, Exceptions
<1> QED BY <1>1, <1>2, ReturnedType DEF CloseCursor, DropCursor, TypeOK, connection

-----------------------------------------------------------------------------

\* TypeOK is an invariant: the attributes of Connection and Cursor stay in the
\* ranges that the handlers' tests rely on, whatever goes wrong.
THEOREM TypeCorrect == Spec => []TypeOK
<1>1. Init => TypeOK
  <2>1. FreshSession \in Session
    BY DEF FreshSession, Session, TxStatus
  <2>2. \A c \in Cursors : Unborn(c) \in Cursor
    BY PgSQLAssumption DEF Unborn, Cursor
  <2>3. [call |-> "none", exc |-> "none"] \in [call : Calls, exc : Errors] /\ "" \in Levels
    BY DEF Calls, Errors, Exceptions, Levels
  <2> QED BY <2>1, <2>2, <2>3 DEF Init, TypeOK
<1>2. TypeOK /\ [Next]_vars => TypeOK'
  <2> SUFFICES ASSUME TypeOK, [Next]_vars
               PROVE  TypeOK'
    OBVIOUS
  <2>1. CASE UNCHANGED vars
    BY <2>1 DEF vars, TypeOK
  <2>2. ASSUME NEW c \in Cursors,
               \E n \in {c} \cup UserNames, isRefCursor \in BOOLEAN : NewCursor(c, n, isRefCursor)
        PROVE  TypeOK'
    BY <2>2, NewCursorType
  <2>3. ASSUME NEW c \in Cursors, NEW kind \in Kinds,
               \/ Execute(c, kind) \/ ExecuteParams(c, kind)
               \/ ExecuteBegin(c, kind) \/ ExecuteEnd(c, kind)
        PROVE  TypeOK'
    BY <2>3, ExecuteType, ExecuteBeginType, ExecuteEndType
  <2>4. ASSUME NEW c \in Cursors,
               Callproc(c) \/ Fetch(c) \/ Rewind(c) \/ CloseCursor(c) \/ DropCursor(c)
        PROVE  TypeOK'
    BY <2>4, CallprocType, PortalCommandType, EndCursorType
  <2>5. CASE ConnectionCommit \/ ConnectionRollback
    <3>1. {"commit", "rollback"} \subseteq Calls
      BY DEF Calls
    <3> QED BY <2>5, <3>1, EndTransactionType DEF ConnectionCommit, ConnectionRollback, TypeOK
  <2>6. CASE CloseConnection
    BY <2>6, CloseConnectionType
  <2>7. CASE \/ \E value \in BOOLEAN : SetAutocommit(value)
             \/ \E value \in Levels \cup {"bogus"} : SetTransactionLevel(value)
    BY <2>7, SetAttributeType
  <2>8. ASSUME NEW w \in Unused(srv),
               Unlink(w) \/ \E withString \in BOOLEAN : Binary(withString, w)
        PROVE  TypeOK'
    BY <2>8, LargeObjectType
  <2>9. CASE BackendDies
    <3>1. GoneWith(srv.durable) \in Session
      BY DEF TypeOK, GoneWith, Session, TxStatus
    <3> QED BY <2>9, <3>1, ReturnedType
            DEF BackendDies, TypeOK, connection, Calls, Errors, Exceptions
  <2> QED BY <2>1, <2>2, <2>3, <2>4, <2>5, <2>6, <2>7, <2>8, <2>9 DEF Next
<1> QED BY <1>1, <1>2, PTL DEF Spec

-----------------------------------------------------------------------------
(* What the replies do to the status of the transaction. *)

\* A statement that neither starts nor ends a transaction can only abort it.
Stays(s, u) == u.tx = s.tx \/ (s.tx = "trans" /\ u.tx = "aborted")

LEMMA AbortedByStays ==
    ASSUME NEW s \in Session
    PROVE  Stays(s, AbortedBy(s)) /\ AbortedBy(s).tx # "trans"
BY DEF Stays, AbortedBy, Session, TxStatus

LEMMA ClosedPortalStays ==
    ASSUME NEW s \in Session, NEW n
    PROVE  Stays(s, ClosedPortal(s, n))
<1>1. Stays(s, [s EXCEPT !.portals = @ \ {n}])
  BY DEF Stays, Session
<1> QED BY <1>1, AbortedByStays DEF ClosedPortal

LEMMA ResetSessionStays ==
    ASSUME NEW s \in Session, NEW k, NEW t
    PROVE  /\ Stays(s, ResetSession(s, k, t))
           /\ ~t => ResetSession(s, k, t) = s
BY ClosedPortalStays DEF ResetSession, Stays

\* Every reply to Statement leaves the session accepted, aborted or, when libpq
\* could not read it, as it was.
LEMMA StatementReplies ==
    ASSUME NEW s, NEW t, NEW a \in BOOLEAN, NEW r \in Statement(s, a, t)
    PROVE  /\ r.srv \in {s, t, AbortedBy(s)}
           /\ r.exc \in {"none", "OperationalError", "InternalError"}
           /\ r.exc = "OperationalError" => r.srv = AbortedBy(s)
           /\ r.exc = "InternalError" => "internal" \in Faults
           /\ r.notice => "notice" \in Faults
<1> DEFINE R == IF Runs(s) /\ a
                THEN {Done(t)}
                     \cup When("operational" \in Faults, {Refused(s)})
                     \cup When("internal" \in Faults, {Reply(u, "InternalError", FALSE) : u \in {s, t}})
                ELSE {Refused(s)}
           Good(q) == /\ q.srv \in {s, t, AbortedBy(s)}
                      /\ q.exc \in {"none", "OperationalError", "InternalError"}
                      /\ q.exc = "OperationalError" => q.srv = AbortedBy(s)
                      /\ q.exc = "InternalError" => "internal" \in Faults
<1>1. ASSUME NEW q \in R
      PROVE  Good(q) /\ q.notice = FALSE /\ q = [srv |-> q.srv, exc |-> q.exc, notice |-> q.notice]
  BY DEF When, Done, Refused, Reply
<1>2. r \in R \/ ("notice" \in Faults /\ \E q \in R : r = [q EXCEPT !.notice = TRUE])
  BY DEF Statement, WithNotices, When
<1> HIDE DEF R
<1>3. CASE r \in R
  BY <1>1, <1>3
<1>4. ASSUME "notice" \in Faults, NEW q \in R, r = [q EXCEPT !.notice = TRUE]
      PROVE  Good(r) /\ "notice" \in Faults
  <2>1. r.srv = q.srv /\ r.exc = q.exc
    BY <1>1, <1>4
  <2> QED BY <1>1, <1>4, <2>1
<1> QED BY <1>2, <1>3, <1>4

\* What the handlers can count on in a reply r to a statement in the session s
\* that neither starts nor ends a transaction.
Plain(s, r) ==
    /\ Stays(s, r.srv)
    /\ r.exc = "OperationalError" => r.srv.tx # "trans"
    /\ r.exc = "InternalError" => "internal" \in Faults
    /\ r.notice => "notice" \in Faults

LEMMA StatementPlain ==
    ASSUME NEW s \in Session, NEW t, NEW a \in BOOLEAN, t.tx = s.tx, NEW r \in Statement(s, a, t)
    PROVE  Plain(s, r)
BY StatementReplies, AbortedByStays DEF Plain, Stays

LEMMA ChangedTx ==
    ASSUME NEW s \in Session, NEW w
    PROVE  Changed(s, w).tx = s.tx
BY DEF Changed, Session

LEMMA WritePlain ==
    ASSUME NEW s \in Session, NEW w, NEW r \in Write(s, w)
    PROVE  Plain(s, r)
<1>1. CASE r \in Statement(s, TRUE, Changed(s, w))
  BY <1>1, ChangedTx, StatementPlain
<1>2. CASE r = Reply(AbortedBy(s), "IntegrityError", FALSE)
  BY <1>2, AbortedByStays DEF Plain, Reply
<1> QED BY <1>1, <1>2 DEF Write, When

LEMMA PortalPlain ==
    ASSUME NEW s \in Session, NEW n, NEW r \in Declare(s, n) \cup UsePortal(s, n)
    PROVE  Plain(s, r)
<1>1. [s EXCEPT !.portals = @ \cup {n}].tx = s.tx
  BY DEF Session
<1>2. (s.tx = "trans" /\ n \notin s.portals) \in BOOLEAN /\ (n \in s.portals) \in BOOLEAN
  OBVIOUS
<1> QED BY <1>1, <1>2, StatementPlain DEF Declare, UsePortal

LEMMA LargeObjectPlain ==
    ASSUME NEW s \in Session, NEW t \in Session, t.tx = s.tx, NEW e,
           NEW r \in LargeObjectCall(s, t, e)
    PROVE  Stays(s, r.srv) /\ (r.notice => "notice" \in Faults)
<1>1. PICK q \in Statement(s, TRUE, t) : r = [q EXCEPT !.exc = IF @ = "none" THEN @ ELSE e]
  BY DEF LargeObjectCall
<1>2. q \in Replies
  BY StatementType
<1>3. r.srv = q.srv /\ r.notice = q.notice
  BY <1>1, <1>2 DEF Replies
<1> QED BY <1>3, StatementPlain DEF Plain

\* BEGIN succeeds unless the transaction is aborted or the session lost.
LEMMA BeginReplies ==
    ASSUME NEW s \in Session, NEW b \in Begin(s)
    PROVE  /\ b.exc = "none" => Runs(s) /\ b.srv.tx = "trans"
           /\ b.exc # "none" => ~Runs(s) /\ b.exc = "OperationalError" /\ b.srv = s
           /\ b.notice => s.tx = "trans" \/ "notice" \in Faults
<1> DEFINE R == IF Runs(s) THEN {Reply([s EXCEPT !.tx = "trans"], "none", s.tx = "trans")}
                           ELSE {Refused(s)}
<1>1. ASSUME NEW q \in R
      PROVE  /\ q = [srv |-> q.srv, exc |-> q.exc, notice |-> q.notice]
             /\ q.exc = "none" => Runs(s) /\ q.srv.tx = "trans"
             /\ q.exc # "none" => ~Runs(s) /\ q.exc = "OperationalError" /\ q.srv = s
             /\ q.notice => s.tx = "trans"
  <2>1. CASE Runs(s)
    <3>1. q = Reply([s EXCEPT !.tx = "trans"], "none", s.tx = "trans")
      BY <1>1, <2>1
    <3>2. [s EXCEPT !.tx = "trans"].tx = "trans"
      BY DEF Session
    <3> QED BY <2>1, <3>1, <3>2 DEF Reply
  <2>2. CASE ~Runs(s)
    <3>1. q = Reply(s, "OperationalError", FALSE)
      BY <1>1, <2>2 DEF Refused, Runs, AbortedBy
    <3> QED BY <2>2, <3>1 DEF Reply
  <2> QED BY <2>1, <2>2
<1>2. b \in R \/ ("notice" \in Faults /\ \E q \in R : b = [q EXCEPT !.notice = TRUE])
  BY DEF Begin, WithNotices, When
<1> HIDE DEF R
<1>3. ASSUME "notice" \in Faults, NEW q \in R, b = [q EXCEPT !.notice = TRUE]
      PROVE  b.srv = q.srv /\ b.exc = q.exc
  BY <1>1, <1>3
<1> QED BY <1>1, <1>2, <1>3

\* COMMIT and ROLLBACK leave no transaction; on one that is aborted they fail only
\* when the session is lost, and they warn only when there is none to end.
LEMMA EndReplies ==
    ASSUME NEW s \in Session, NEW r \in Commit(s) \cup Rollback(s)
    PROVE  /\ r.srv.tx \in {"idle", "down"}
           /\ r.exc # "none" /\ s.tx \in {"aborted", "down"} => r.srv.tx = "down"
           /\ r.notice => s.tx = "idle" \/ "notice" \in Faults
           /\ r.exc # "InternalError"
<1> DEFINE Good(q) == /\ q.srv.tx \in {"idle", "down"}
                      /\ q.exc # "none" /\ s.tx \in {"aborted", "down"} => q.srv.tx = "down"
                      /\ q.notice => s.tx = "idle"
                      /\ q.exc # "InternalError"
                      /\ q = [srv |-> q.srv, exc |-> q.exc, notice |-> q.notice]
<1>1. /\ \A d : Good(Done(EndedWith(d)))
      /\ \A d : \A e \in {"OperationalError", "IntegrityError"} :
            s.tx = "trans" => /\ Good(Reply(EndedWith(d), e, FALSE))
                              /\ Good(Reply(GoneWith(d), e, FALSE))
      /\ s.tx = "idle" => Good(Reply(s, "none", TRUE))
      /\ s.tx = "down" => Good(Refused(s))
  BY DEF Done, Reply, Refused, EndedWith, GoneWith, AbortedBy
<1> HIDE DEF Good
<1>2. \E q : Good(q) /\ (r = q \/ ("notice" \in Faults /\ r = [q EXCEPT !.notice = TRUE]))
  <2>1. CASE s.tx = "trans"
    BY <1>1, <2>1 DEF Commit, Rollback, WithNotices, When
  <2>2. CASE s.tx = "aborted"
    BY <1>1, <2>2 DEF Commit, Rollback, WithNotices, When
  <2>3. CASE s.tx = "idle"
    BY <1>1, <2>3 DEF Commit, Rollback, WithNotices, When
  <2>4. CASE s.tx = "down"
    BY <1>1, <2>4 DEF Commit, Rollback, WithNotices, When
  <2> QED BY <2>1, <2>2, <2>3, <2>4 DEF Session, TxStatus
<1>3. PICK q : Good(q) /\ (r = q \/ ("notice" \in Faults /\ r = [q EXCEPT !.notice = TRUE]))
  BY <1>2
<1>4. r.srv = q.srv /\ r.exc = q.exc /\ (r.notice => q.notice \/ "notice" \in Faults)
  BY <1>3 DEF Good
<1> QED BY <1>3, <1>4 DEF Good

\* What __setupTransaction makes of the replies b to BEGIN and r to SET.
Noticed(r, b) ==
    [r EXCEPT !.exc = IF @ = "none" /\ r.notice THEN "Warning" ELSE @,
              !.notice = @ \/ b.notice]

\* e is the reply to BEGIN and then SET.
SetUp(s, e) ==
    \E b \in Begin(s) : \E r \in SetLevel(b.srv, s.tx = "idle") : e = Noticed(r, b)

LEMMA SetupIs ==
    ASSUME NEW s, NEW plain, NEW e \in SetupTransaction(s, plain),
           ~(TransactionLevel = "" \/ ~plain \/ ~Runs(s))
    PROVE  SetUp(s, e)
<1> DEFINE After(b) == {Noticed(r, b) : r \in SetLevel(b.srv, s.tx = "idle")}
<1>1. SetupTransaction(s, plain) = UNION {After(b) : b \in Begin(s)}
  BY DEF SetupTransaction, Noticed
<1> HIDE DEF After
<1>2. PICK b \in Begin(s) : e \in After(b)
  BY <1>1
<1> QED BY ONLY <1>2, Zenon DEF After, SetUp

\* __setupTransaction: when nothing is raised the session is in a transaction.
\* Without notices it raises, on a session that has none, only when the session
\* is lost.
LEMMA SetupReplies ==
    ASSUME NEW s \in Session, NEW plain \in BOOLEAN, NEW e \in SetupTransaction(s, plain)
    PROVE  /\ s.tx # "idle" => e.srv.tx # "idle"
           /\ e.exc = "none" => e.srv.tx = "trans"
           /\ /\ e.exc # "none"
              /\ s.tx \in {"idle", "down"}
              /\ "notice" \notin Faults
              => e.srv.tx = "down"
<1>1. CASE TransactionLevel = "" \/ ~plain \/ ~Runs(s)
  <2>1. e \in Begin(s)
    BY <1>1 DEF SetupTransaction
  <2> QED BY <2>1, BeginReplies DEF Runs
<1>2. CASE ~(TransactionLevel = "" \/ ~plain \/ ~Runs(s))
  <2>0. SetUp(s, e)
    BY <1>2, SetupIs
  <2>1. PICK b \in Begin(s) : \E r \in SetLevel(b.srv, s.tx = "idle") : e = Noticed(r, b)
    BY ONLY <2>0 DEF SetUp
  <2> PICK r \in SetLevel(b.srv, s.tx = "idle") :
           e = Noticed(r, b)
    BY ONLY <2>1
  <2>2. b \in Replies /\ b.srv \in Session /\ b.srv.tx = "trans"
    BY <1>2, BeginReplies, BeginType DEF Replies
  <2>3. r \in Replies
    <3>1. (s.tx = "idle") \in BOOLEAN
      OBVIOUS
    <3> QED BY <2>2, <3>1, SetLevelType
  <2>4. e.srv = r.srv /\ e.exc = IF r.exc = "none" /\ r.notice THEN "Warning" ELSE r.exc
    BY <2>3 DEF Replies, Noticed
  <2>5. /\ r.srv \in {b.srv, AbortedBy(b.srv)}
        /\ r.exc = "none" => r.srv = b.srv
        /\ s.tx = "idle" /\ "notice" \notin Faults => r.exc = "none" /\ ~r.notice
    <3> DEFINE R == {Done(b.srv)} \cup When(s.tx # "idle", {Refused(b.srv)})
    <3>1. r \in R \/ ("notice" \in Faults /\ \E q \in R : r = [q EXCEPT !.notice = TRUE])
      BY DEF SetLevel, WithNotices, When
    <3>2. ASSUME NEW q \in R
          PROVE  /\ q = [srv |-> q.srv, exc |-> q.exc, notice |-> FALSE]
                 /\ q.srv \in {b.srv, AbortedBy(b.srv)}
                 /\ q.exc = "none" => q.srv = b.srv
                 /\ s.tx = "idle" => q.exc = "none"
      BY DEF Done, Refused, Reply, When
    <3> HIDE DEF R
    <3>3. ASSUME NEW q \in R, r = [q EXCEPT !.notice = TRUE]
          PROVE  r.srv = q.srv /\ r.exc = q.exc
      BY <3>2, <3>3
    <3>4. ASSUME NEW q \in R
          PROVE  q.notice = FALSE
      BY <3>2
    <3> QED BY <3>1, <3>2, <3>3, <3>4
  <2>6. AbortedBy(b.srv).tx = "aborted"
    BY <2>2 DEF AbortedBy, Session
  <2>7. Runs(s)
    BY <1>2
  <2> QED BY <2>2, <2>4, <2>5, <2>6, <2>7 DEF Runs
<1> QED BY <1>1, <1>2

-----------------------------------------------------------------------------
(* What a statement may assume of the transaction, and keeps. *)

\* TransactionTracked and Recoverable, said of a value t of inTransaction and a
\* session s that a handler has on its way.
Tracks(t, s) == t => s.tx # "idle"
Clear(t, s) == ~t => s.tx \in {"idle", "down"}

LEMMA StaysKeeps ==
    ASSUME NEW s \in Session, NEW u, NEW t, Stays(s, u)
    PROVE  /\ Tracks(t, s) => Tracks(t, u)
           /\ Clear(t, s) => Clear(t, u)
BY DEF Stays, Tracks, Clear, Session, TxStatus

\* The transaction that a call finds or begins.
LEMMA EnteredReplies ==
    ASSUME NEW s \in Session, NEW e \in Entered(s)
    PROVE  /\ inTransaction => e.exc = "none"
           /\ Tracks(inTransaction, s) /\ e.exc = "none" => Tracks(InTransactionAfterEntry, e.srv)
           /\ Clear(inTransaction, s) /\ e.exc = "none" => Clear(InTransactionAfterEntry, e.srv)
           /\ Clear(inTransaction, s) /\ e.exc # "none" /\ "notice" \notin Faults
              => Clear(inTransaction, e.srv)
<1>1. CASE autocommit \/ inTransaction
  <2>1. e = Done(s)
    BY <1>1 DEF Entered
  <2>2. e.exc = "none" /\ e.srv = s
    BY <2>1 DEF Done, Reply
  <2> QED BY <1>1, <2>2 DEF InTransactionAfterEntry, Tracks, Clear
<1>2. CASE ~(autocommit \/ inTransaction)
  <2>1. e \in SetupTransaction(s, TRUE)
    BY <1>2 DEF Entered
  <2>2. /\ e.exc = "none" => e.srv.tx = "trans"
        /\ s.tx \in {"idle", "down"} /\ e.exc # "none" /\ "notice" \notin Faults => e.srv.tx = "down"
    BY <2>1, SetupReplies
  <2> QED BY <1>2, <2>2 DEF InTransactionAfterEntry, Tracks, Clear
<1> QED BY <1>1, <1>2

LEMMA PlainKeeps ==
    ASSUME NEW s \in Session, NEW r, NEW t, Plain(s, r)
    PROVE  /\ Tracks(t, s) => Tracks(t, r.srv)
           /\ Clear(t, s) => Clear(t, r.srv)
           /\ Tracks(t, s) /\ t /\ r.exc = "OperationalError" /\ r.srv \in Session
              => r.srv.tx \in {"aborted", "down"}
BY StaysKeeps DEF Plain, Tracks, Stays, Session, TxStatus

LEMMA SentReplies ==
    ASSUME NEW s \in Session, NEW kind \in Kinds, NEW portal \in BOOLEAN, NEW n,
           portal => kind = "select", NEW r \in Sent(s, kind, portal, n)
    PROVE  /\ kind \in {"select", "direct", "write"} => Plain(s, r)
           /\ kind \in {"begin", "begin_level"} => r \in Begin(s)
           /\ kind \in {"commit", "rollback"} => r \in Commit(s) \cup Rollback(s)
<1>1. CASE portal
  BY <1>1, PortalPlain DEF Sent
<1>2. CASE ~portal /\ kind \in {"select", "direct"}
  <2>1. r \in Statement(s, TRUE, s)
    BY <1>2 DEF Sent, Query
  <2> QED BY <1>2, <2>1, StatementPlain
<1>3. CASE ~portal /\ kind = "write"
  <2>1. PICK w \in Unused(s) : r \in Write(s, w)
    BY <1>3 DEF Sent
  <2> QED BY <1>3, <2>1, WritePlain
<1>4. CASE ~portal /\ kind \in {"begin", "begin_level"}
  BY <1>4 DEF Sent
<1>5. CASE ~portal /\ kind \in {"commit", "rollback"}
  BY <1>5 DEF Sent
<1> QED BY <1>1, <1>2, <1>3, <1>4, <1>5 DEF Kinds

LEMMA ProcedurePlain ==
    ASSUME NEW s \in Session, NEW r \in ProcedureReplies(s)
    PROVE  Plain(s, r) /\ r \in Replies
<1>1. CASE r \in Query(s)
  BY <1>1, StatementPlain, StatementType DEF Query
<1>2. ASSUME NEW w \in Unused(s), r \in Write(s, w)
      PROVE  Plain(s, r) /\ r \in Replies
  BY <1>2, WritePlain, WriteType DEF Unused
<1>3. ASSUME NEW n \in UserNames, r \in Declare(s, n)
      PROVE  Plain(s, r) /\ r \in Replies
  <2>1. n \in Names
    BY PgSQLAssumption
  <2> QED BY <1>3, <2>1, PortalPlain, DeclareType
<1> QED BY <1>1, <1>2, <1>3 DEF ProcedureReplies

\* Each way a statement ends keeps what it found of the transaction.
LEMMA AcceptedKeeps ==
    ASSUME NEW c, NEW k, NEW t, NEW call, NEW r, NEW portal \in BOOLEAN, r.srv \in Session,
           Accepted(c, k, t, call, r, portal)
    PROVE  /\ Tracks(t, r.srv) => Tracks(inTransaction', srv')
           /\ Clear(t, r.srv) => Clear(inTransaction', srv')
<1>1. CASE portal
  <2>1. PICK f \in UsePortal(r.srv, k.name) : srv' = f.srv
    BY <1>1 DEF Accepted
  <2>2. Plain(r.srv, f)
    BY PortalPlain
  <2> QED BY <2>1, <2>2, PlainKeeps DEF Accepted
<1>2. CASE ~portal
  BY <1>2 DEF Accepted
<1> QED BY <1>1, <1>2

\* The recovery from an OperationalError either ends the transaction or keeps
\* inTransaction, on a session that is then lost.
LEMMA RecoveredKeeps ==
    ASSUME NEW c, NEW k, NEW t, NEW call, NEW r, r.srv \in Session,
           \/ Recovered(c, k, t, call, r, Commit(r.srv))
           \/ Recovered(c, k, t, call, r, Rollback(r.srv))
    PROVE  /\ /\ t => r.srv.tx \in {"aborted", "down"}
              /\ "notice" \notin Faults
              => Tracks(inTransaction', srv')
           /\ Clear(t, r.srv) => Clear(inTransaction', srv')
<1>1. CASE ~t
  BY <1>1 DEF Recovered, Tracks
<1>2. CASE t
  <2>1. PICK e \in Commit(r.srv) \cup Rollback(r.srv) :
               /\ srv' = e.srv
               /\ inTransaction' = (e.exc # "none" \/ (e.notice /\ call = "execute"))
    BY <1>2 DEF Recovered
  <2>2. /\ e.srv.tx \in {"idle", "down"}
        /\ e.exc # "none" /\ r.srv.tx \in {"aborted", "down"} => e.srv.tx = "down"
        /\ e.notice => r.srv.tx = "idle" \/ "notice" \in Faults
    BY EndReplies
  <2> QED BY <1>2, <2>1, <2>2 DEF Tracks, Clear
<1> QED BY <1>1, <1>2

LEMMA UnrecoveredKeeps ==
    ASSUME NEW c, NEW k, NEW t, NEW call, NEW r, Unrecovered(c, k, t, call, r)
    PROVE  /\ Tracks(t, r.srv) => Tracks(inTransaction', srv')
           /\ Clear(t, r.srv) /\ r.exc # "InternalError" => Clear(inTransaction', srv')
BY DEF Unrecovered, Tracks, Clear

-----------------------------------------------------------------------------
(* The step that runs a statement. *)

\* A reply to any of the statements that execute() and execute_params() send as
\* they are, for inTransaction = t.
LEMMA ReplyKeeps ==
    ASSUME NEW s \in Session, NEW t \in BOOLEAN, NEW kind \in Kinds, NEW portal \in BOOLEAN,
           NEW n, portal => kind = "select", NEW r \in Sent(s, kind, portal, n), r \in Replies
    PROVE  /\ /\ Tracks(t, s)
              /\ t => kind \notin {"commit", "rollback"}
              => /\ Tracks(t, r.srv)
                 /\ t /\ r.exc = "OperationalError" => r.srv.tx \in {"aborted", "down"}
           /\ /\ Clear(t, s)
              /\ ~t => kind \notin {"begin", "begin_level"}
              => Clear(t, r.srv)
           /\ r.exc = "InternalError" => "internal" \in Faults
<1>0. r.srv \in Session
  BY DEF Replies
<1>1. CASE kind \in {"select", "direct", "write"}
  BY <1>0, <1>1, SentReplies, PlainKeeps DEF Plain
<1>2. CASE kind \in {"begin", "begin_level"}
  <2>1. /\ r.exc = "none" => r.srv.tx = "trans"
        /\ r.exc # "none" => ~Runs(s) /\ r.exc = "OperationalError" /\ r.srv = s
    BY <1>2, SentReplies, BeginReplies
  <2> QED BY <1>2, <2>1 DEF Tracks, Clear, Runs, Session, TxStatus
<1>3. CASE kind \in {"commit", "rollback"}
  <2>1. r.srv.tx \in {"idle", "down"} /\ r.exc # "InternalError"
    BY <1>3, SentReplies, EndReplies
  <2> QED BY <1>3, <2>1 DEF Tracks, Clear
<1> QED BY <1>1, <1>2, <1>3 DEF Kinds

LEMMA RunStatementKeeps ==
    ASSUME TypeOK, NEW c \in Cursors, NEW s \in Session, NEW k \in Cursor, NEW kind \in Kinds,
           RunStatement(c, s, k, kind), "notice" \notin Faults
    PROVE  /\ /\ Tracks(inTransaction, s)
              /\ InTransactionAfterEntry => kind \notin {"commit", "rollback"}
              => Tracks(inTransaction', srv')
           /\ /\ Clear(inTransaction, s)
              /\ ~InTransactionAfterEntry => kind \notin {"begin", "begin_level"}
              /\ "internal" \notin Faults
              => Clear(inTransaction', srv')
<1> DEFINE portal == kind = "select" /\ ~autocommit
           t == InTransactionAfterEntry
           k0 == IF portal THEN [k EXCEPT !.closed = "0"] ELSE k
           k1 == [k0 EXCEPT !.res = IF kind \in {"select", "direct"} THEN "rows" ELSE "other"]
<1>1. t \in BOOLEAN /\ portal \in BOOLEAN /\ k.name \in Names
  BY DEF TypeOK, InTransactionAfterEntry, Cursor
<1>2. PICK e \in Entered(s) :
           \/ e.exc # "none" /\ srv' = e.srv /\ UNCHANGED inTransaction
           \/ /\ e.exc = "none"
              /\ \/ Unbound(c, e.srv, k0, t, "execute")
                 \/ \E r \in Sent(e.srv, kind, portal, k.name) :
                       \/ Accepted(c, k1, t, "execute", r, portal)
                       \/ Recovered(c, k0, t, "execute", r, Rollback(r.srv))
                       \/ Unrecovered(c, k0, t, "execute", r)
  BY DEF RunStatement
<1>3. /\ e.srv \in Session
      /\ inTransaction => e.exc = "none"
      /\ Tracks(inTransaction, s) /\ e.exc = "none" => Tracks(t, e.srv)
      /\ Clear(inTransaction, s) /\ e.exc = "none" => Clear(t, e.srv)
      /\ Clear(inTransaction, s) /\ e.exc # "none" => Clear(inTransaction, e.srv)
  BY EnteredReplies, EnteredType DEF Outcomes
<1>4. CASE e.exc # "none" /\ srv' = e.srv /\ UNCHANGED inTransaction
  BY <1>3, <1>4 DEF Tracks
<1>5. CASE e.exc = "none" /\ Unbound(c, e.srv, k0, t, "execute")
  BY <1>3, <1>5 DEF Unbound
<1>6. ASSUME e.exc = "none", NEW r \in Sent(e.srv, kind, portal, k.name),
             \/ Accepted(c, k1, t, "execute", r, portal)
             \/ Recovered(c, k0, t, "execute", r, Rollback(r.srv))
             \/ Unrecovered(c, k0, t, "execute", r)
      PROVE  /\ /\ Tracks(inTransaction, s)
                /\ t => kind \notin {"commit", "rollback"}
                => Tracks(inTransaction', srv')
             /\ /\ Clear(inTransaction, s)
                /\ ~t => kind \notin {"begin", "begin_level"}
                /\ "internal" \notin Faults
                => Clear(inTransaction', srv')
  <2>1. portal => kind = "select"
    OBVIOUS
  <2> HIDE DEF k0, k1, t, portal
  <2>2. r \in Replies /\ r.srv \in Session
    BY <1>1, <1>3, <2>1, SentType DEF Replies
  <2>3. /\ /\ Tracks(t, e.srv)
           /\ t => kind \notin {"commit", "rollback"}
           => /\ Tracks(t, r.srv)
              /\ t /\ r.exc = "OperationalError" => r.srv.tx \in {"aborted", "down"}
        /\ /\ Clear(t, e.srv)
           /\ ~t => kind \notin {"begin", "begin_level"}
           => Clear(t, r.srv)
        /\ r.exc = "InternalError" => "internal" \in Faults
    BY <1>1, <1>3, <2>1, <2>2, ReplyKeeps
  <2>4. CASE Accepted(c, k1, t, "execute", r, portal)
    BY <1>1, <1>3, <1>6, <2>2, <2>3, <2>4, AcceptedKeeps
  <2>5. CASE Recovered(c, k0, t, "execute", r, Rollback(r.srv))
    <3>1. r.exc = "OperationalError"
      BY <2>5 DEF Recovered
    <3> QED BY <1>3, <1>6, <2>2, <2>3, <2>5, <3>1, RecoveredKeeps
  <2>6. CASE Unrecovered(c, k0, t, "execute", r)
    BY <1>3, <1>6, <2>3, <2>6, UnrecoveredKeeps
  <2> QED BY <1>6, <2>4, <2>5, <2>6
<1> QED BY <1>2, <1>4, <1>5, <1>6

LEMMA CallprocKeeps ==
    ASSUME TypeOK, NEW c \in Cursors, Callproc(c), "notice" \notin Faults
    PROVE  /\ Tracks(inTransaction, srv) => Tracks(inTransaction', srv')
           /\ Clear(inTransaction, srv) /\ "internal" \notin Faults => Clear(inTransaction', srv')
<1> DEFINE t == InTransactionAfterEntry
           k == cursors[c]
           k1 == [k EXCEPT !.res = "rows"]
<1>1. t \in BOOLEAN /\ srv \in Session
  BY DEF TypeOK, InTransactionAfterEntry
<1>2. PICK e \in Entered(srv) :
              \/ e.exc # "none" /\ srv' = e.srv /\ UNCHANGED inTransaction
              \/ /\ e.exc = "none"
                 /\ \/ Unbound(c, e.srv, k, t, "callproc")
                    \/ \E r \in ProcedureReplies(e.srv) :
                          \/ Accepted(c, k1, t, "callproc", r, FALSE)
                          \/ Recovered(c, k, t, "callproc", r, Commit(r.srv))
                          \/ Unrecovered(c, k, t, "callproc", r)
  BY DEF Callproc
<1>3. /\ e.srv \in Session
      /\ inTransaction => e.exc = "none"
      /\ Tracks(inTransaction, srv) /\ e.exc = "none" => Tracks(t, e.srv)
      /\ Clear(inTransaction, srv) /\ e.exc = "none" => Clear(t, e.srv)
      /\ Clear(inTransaction, srv) /\ e.exc # "none" => Clear(inTransaction, e.srv)
  BY <1>1, EnteredReplies, EnteredType DEF Outcomes
<1>4. CASE e.exc # "none" /\ srv' = e.srv /\ UNCHANGED inTransaction
  BY <1>3, <1>4 DEF Tracks
<1>5. CASE e.exc = "none" /\ Unbound(c, e.srv, k, t, "callproc")
  BY <1>3, <1>5 DEF Unbound
<1>6. ASSUME e.exc = "none", NEW r \in ProcedureReplies(e.srv),
             \/ Accepted(c, k1, t, "callproc", r, FALSE)
             \/ Recovered(c, k, t, "callproc", r, Commit(r.srv))
             \/ Unrecovered(c, k, t, "callproc", r)
      PROVE  /\ Tracks(inTransaction, srv) => Tracks(inTransaction', srv')
             /\ Clear(inTransaction, srv) /\ "internal" \notin Faults => Clear(inTransaction', srv')
  <2> HIDE DEF k, k1, t
  <2>1. r \in Replies /\ r.srv \in Session /\ Plain(e.srv, r)
    BY <1>3, ProcedurePlain DEF Replies
  <2>2. /\ Tracks(t, e.srv) => Tracks(t, r.srv)
        /\ Clear(t, e.srv) => Clear(t, r.srv)
        /\ Tracks(t, e.srv) /\ t /\ r.exc = "OperationalError" => r.srv.tx \in {"aborted", "down"}
        /\ r.exc = "InternalError" => "internal" \in Faults
    BY <1>3, <2>1, PlainKeeps DEF Plain
  <2>3. CASE Accepted(c, k1, t, "callproc", r, FALSE)
    BY <1>3, <1>6, <2>1, <2>2, <2>3, AcceptedKeeps
  <2>4. CASE Recovered(c, k, t, "callproc", r, Commit(r.srv))
    <3>1. r.exc = "OperationalError"
      BY <2>4 DEF Recovered
    <3> QED BY <1>3, <1>6, <2>1, <2>2, <2>4, <3>1, RecoveredKeeps
  <2>5. CASE Unrecovered(c, k, t, "callproc", r)
    BY <1>3, <1>6, <2>2, <2>5, UnrecoveredKeeps
  <2> QED BY <1>6, <2>3, <2>4, <2>5
<1> QED BY <1>2, <1>4, <1>5, <1>6

-----------------------------------------------------------------------------
(* The other steps. *)

\* The end of a transaction leaves inTransaction 0 and the session idle or lost.
LEMMA EndTransactionKeeps ==
    ASSUME NEW s \in Session, NEW t, NEW call, cursors \in [Cursors -> Cursor],
           \/ EndTransaction(s, t, Commit(CloseCursorsSession(s, t)), call)
           \/ EndTransaction(s, t, Rollback(CloseCursorsSession(s, t)), call)
    PROVE  /\ inTransaction' = FALSE
           /\ Clear(t, s) => Clear(inTransaction', srv')
<1>1. CloseCursorsSession(s, t) \in Session
  BY CloseCursorsSessionType
<1>2. CASE t
  <2>1. PICK r \in Commit(CloseCursorsSession(s, t)) \cup Rollback(CloseCursorsSession(s, t)) :
           srv' = r.srv
    BY <1>2 DEF EndTransaction
  <2>2. srv'.tx \in {"idle", "down"}
    BY <1>1, <2>1, EndReplies
  <2> QED BY <2>2 DEF EndTransaction, Clear
<1>3. CASE ~t
  BY <1>3 DEF EndTransaction, Clear
<1> QED BY <1>2, <1>3

LEMMA SetAttributeKeeps ==
    ASSUME TypeOK, \/ \E value \in BOOLEAN : SetAutocommit(value)
                   \/ \E value \in Levels \cup {"bogus"} : SetTransactionLevel(value)
    PROVE  /\ inTransaction' = FALSE
           /\ Clear(inTransaction, srv) => Clear(inTransaction', srv')
<1>1. PICK r \in RolledBackFirst : srv' = r.srv /\ inTransaction' = FALSE
  BY DEF SetAutocommit, SetTransactionLevel
<1>2. CASE inTransaction
  BY <1>1, <1>2, EndReplies DEF RolledBackFirst, Clear, TypeOK
<1>3. CASE ~inTransaction
  BY <1>1, <1>3 DEF RolledBackFirst, Done, Reply, Clear
<1> QED BY <1>2, <1>3

LEMMA PortalStepKeeps ==
    ASSUME TypeOK, NEW c \in Cursors,
           Fetch(c) \/ Rewind(c) \/ CloseCursor(c) \/ DropCursor(c)
    PROVE  /\ Tracks(inTransaction, srv) => Tracks(inTransaction', srv')
           /\ Clear(inTransaction, srv) => Clear(inTransaction', srv')
<1>1. srv \in Session
  BY DEF TypeOK
<1>2. CASE Fetch(c) \/ Rewind(c)
  <2>1. PICK f \in UsePortal(srv, cursors[c].name) : srv' = f.srv
    BY <1>2 DEF Fetch, Rewind, PortalCommand
  <2>2. inTransaction' = inTransaction
    BY <1>2 DEF Fetch, Rewind, PortalCommand, connection
  <2> QED BY <1>1, <2>1, <2>2, PortalPlain, PlainKeeps
<1>3. CASE CloseCursor(c) \/ DropCursor(c)
  <2>1. inTransaction' = inTransaction
    BY <1>3 DEF CloseCursor, DropCursor, connection
  <2>2. srv' = srv \/ srv' = ResetSession(srv, cursors[c], inTransaction)
    BY <1>3 DEF CloseCursor, DropCursor
  <2> QED BY <1>1, <2>1, <2>2, ResetSessionStays, StaysKeeps
<1> QED BY <1>2, <1>3

LEMMA NewCursorKeeps ==
    ASSUME TypeOK, NEW c \in Cursors, NEW n \in {c} \cup UserNames, NEW isRefCursor \in BOOLEAN,
           NewCursor(c, n, isRefCursor), "notice" \notin Faults
    PROVE  /\ Tracks(inTransaction, srv) => Tracks(inTransaction', srv')
           /\ Clear(inTransaction, srv) => Clear(inTransaction', srv')
<1> DEFINE t == InTransactionAfterEntry
           k == [closed |-> "0", name |-> n, res |-> "rows"]
<1>1. PICK e \in Entered(srv) :
          \/ e.exc # "none" /\ srv' = e.srv /\ UNCHANGED connection
          \/ /\ e.exc = "none"
             /\ inTransaction' = t
             /\ \/ srv' = e.srv
                \/ \E f \in UsePortal(e.srv, n) :
                      srv' = f.srv \/ srv' = ResetSession(f.srv, k, t)
  BY DEF NewCursor
<1>2. /\ e.srv \in Session
      /\ inTransaction => e.exc = "none"
      /\ Tracks(inTransaction, srv) /\ e.exc = "none" => Tracks(t, e.srv)
      /\ Clear(inTransaction, srv) /\ e.exc = "none" => Clear(t, e.srv)
      /\ Clear(inTransaction, srv) /\ e.exc # "none" => Clear(inTransaction, e.srv)
  BY EnteredReplies, EnteredType DEF Outcomes, TypeOK
<1>3. CASE e.exc # "none" /\ srv' = e.srv /\ UNCHANGED connection
  BY <1>2, <1>3 DEF Tracks, connection
<1>4. CASE e.exc = "none" /\ inTransaction' = t /\ srv' = e.srv
  BY <1>2, <1>4
<1>5. ASSUME e.exc = "none", inTransaction' = t, NEW f \in UsePortal(e.srv, n),
             srv' = f.srv \/ srv' = ResetSession(f.srv, k, t)
      PROVE  /\ Tracks(inTransaction, srv) => Tracks(inTransaction', srv')
             /\ Clear(inTransaction, srv) => Clear(inTransaction', srv')
  <2> HIDE DEF t, k
  <2>1. f.srv \in Session
    <3>1. n \in Names
      BY PgSQLAssumption
    <3> QED BY <1>2, <3>1, UsePortalType DEF Replies
  <2>2. Stays(e.srv, f.srv) /\ Stays(f.srv, ResetSession(f.srv, k, t))
    BY <1>2, <2>1, PortalPlain, ResetSessionStays DEF Plain
  <2> QED BY <1>2, <1>5, <2>1, <2>2, StaysKeeps
<1> QED BY <1>1, <1>3, <1>4, <1>5

LEMMA LargeObjectKeeps ==
    ASSUME TypeOK, NEW w \in Unused(srv), "notice" \notin Faults,
           Unlink(w) \/ \E withString \in BOOLEAN : Binary(withString, w)
    PROVE  /\ Tracks(inTransaction, srv) => Tracks(inTransaction', srv')
           /\ Clear(inTransaction, srv) => Clear(inTransaction', srv')
<1>1. srv \in Session /\ w \in Writes
  BY DEF TypeOK, Unused
<1>2. CASE Unlink(w)
  <2>1. PICK r \in LargeObjectCall(srv, Changed(srv, w), "IOError") : srv' = r.srv
    BY <1>2 DEF Unlink
  <2>2. Stays(srv, srv')
    BY <1>1, <2>1, ChangedTx, ChangedType, LargeObjectPlain
  <2> QED BY <1>1, <1>2, <2>2, StaysKeeps DEF Unlink, connection
<1>3. ASSUME NEW withString \in BOOLEAN, Binary(withString, w)
      PROVE  /\ Tracks(inTransaction, srv) => Tracks(inTransaction', srv')
             /\ Clear(inTransaction, srv) => Clear(inTransaction', srv')
  <2>1. PICK e \in Entered(srv) :
          /\ inTransaction' = (inTransaction \/ e.exc = "none")
          /\ \/ e.exc # "none" /\ srv' = e.srv
             \/ /\ e.exc = "none"
                /\ \E r \in LargeObjectCall(e.srv, Changed(e.srv, w), "OperationalError") :
                      \/ srv' = r.srv
                      \/ \E q \in LargeObjectCall(r.srv, r.srv, "IOError") :
                            srv' = q.srv \/ Raised(q) = "Warning"
    BY <1>3 DEF Binary
  <2>2. /\ e.srv \in Session
        /\ inTransaction => e.exc = "none"
        /\ Tracks(inTransaction, srv) /\ e.exc = "none" => Tracks(TRUE, e.srv)
        /\ Clear(inTransaction, srv) /\ e.exc # "none" => Clear(inTransaction, e.srv)
    <3>1. ~autocommit /\ InTransactionAfterEntry = TRUE
      BY <1>3 DEF Binary, InTransactionAfterEntry, TypeOK
    <3> QED BY <1>1, <3>1, EnteredReplies, EnteredType DEF Outcomes
  <2>3. CASE e.exc # "none" /\ srv' = e.srv
    <3>1. ~inTransaction /\ ~inTransaction'
      BY <2>1, <2>2, <2>3
    <3> QED BY <2>2, <2>3, <3>1 DEF Tracks, Clear
  <2>4. ASSUME e.exc = "none",
               NEW r \in LargeObjectCall(e.srv, Changed(e.srv, w), "OperationalError"),
               \/ srv' = r.srv
               \/ \E q \in LargeObjectCall(r.srv, r.srv, "IOError") :
                     srv' = q.srv \/ Raised(q) = "Warning"
        PROVE  Tracks(inTransaction, srv) => Tracks(TRUE, srv')
    <3>1. r \in Replies /\ Stays(e.srv, r.srv)
      <4>1. Changed(e.srv, w) \in Session /\ Changed(e.srv, w).tx = e.srv.tx
        BY <1>1, <2>2, ChangedTx, ChangedType
      <4> QED BY <2>2, <4>1, LargeObjectPlain, LargeObjectCallType DEF Exceptions
    <3>2. r.srv \in Session
      BY <3>1 DEF Replies
    <3>3. ASSUME NEW q \in LargeObjectCall(r.srv, r.srv, "IOError")
          PROVE  Stays(r.srv, q.srv) /\ Raised(q) # "Warning"
      <4>1. q \in Replies /\ Stays(r.srv, q.srv) /\ ~q.notice
        BY <3>2, LargeObjectPlain, LargeObjectCallType DEF Exceptions
      <4> QED BY <4>1 DEF Raised, Replies, Exceptions
    <3>4. Stays(e.srv, srv')
      BY <2>4, <3>1, <3>3 DEF Stays
    <3> QED BY <2>2, <2>4, <3>4, StaysKeeps
  <2> QED BY <2>1, <2>3, <2>4 DEF Tracks, Clear
<1> QED BY <1>2, <1>3

\* execute("BEGIN ...").
LEMMA ExecuteBeginKeeps ==
    ASSUME TypeOK, NEW c \in Cursors, NEW kind \in Kinds, ExecuteBegin(c, kind),
           "notice" \notin Faults
    PROVE  /\ Tracks(inTransaction', srv')
           /\ Clear(inTransaction, srv) => Clear(inTransaction', srv')
<1>1. PICK e \in SetupTransaction(srv, kind = "begin") :
         srv' = e.srv /\ inTransaction' = (e.exc = "none")
  BY DEF ExecuteBegin
<1>2. (kind = "begin") \in BOOLEAN /\ srv \in Session /\ ~inTransaction
  BY DEF ExecuteBegin, TypeOK
<1>3. /\ e.exc = "none" => e.srv.tx = "trans"
      /\ e.exc # "none" /\ srv.tx \in {"idle", "down"} => e.srv.tx = "down"
  BY <1>2, SetupReplies
<1> QED BY <1>1, <1>2, <1>3 DEF Tracks, Clear

\* execute("COMMIT") and execute("ROLLBACK").
LEMMA ExecuteEndKeeps ==
    ASSUME TypeOK, NEW c \in Cursors, NEW kind \in Kinds, ExecuteEnd(c, kind),
           "notice" \notin Faults
    PROVE  /\ Tracks(inTransaction, srv) => Tracks(inTransaction', srv')
           /\ Clear(inTransaction, srv) => Clear(inTransaction', srv')
<1>1. PICK e \in Entered(srv) :
          \/ e.exc # "none" /\ srv' = e.srv /\ UNCHANGED <<connection, cursors>>
          \/ e.exc = "none" /\ EndTransaction(e.srv, TRUE, Commit(CloseCursorsSession(e.srv, TRUE)), "commit")
          \/ e.exc = "none" /\ EndTransaction(e.srv, TRUE, Rollback(CloseCursorsSession(e.srv, TRUE)), "rollback")
  BY DEF ExecuteEnd
<1>2. e.srv \in Session /\ srv \in Session /\ cursors \in [Cursors -> Cursor]
  BY EnteredType DEF TypeOK, Outcomes
<1>3. /\ inTransaction => e.exc = "none"
      /\ Clear(inTransaction, srv) /\ e.exc # "none" => Clear(inTransaction, e.srv)
  BY <1>2, EnteredReplies
<1>4. CASE e.exc # "none" /\ srv' = e.srv /\ UNCHANGED <<connection, cursors>>
  BY <1>3, <1>4 DEF connection, Tracks
<1>5. CASE \/ EndTransaction(e.srv, TRUE, Commit(CloseCursorsSession(e.srv, TRUE)), "commit")
           \/ EndTransaction(e.srv, TRUE, Rollback(CloseCursorsSession(e.srv, TRUE)), "rollback")
  BY <1>2, <1>5, EndTransactionKeeps DEF Tracks, Clear
<1> QED BY <1>1, <1>4, <1>5

-----------------------------------------------------------------------------
(* The theorems. *)

\* What autocommit rests on: the transaction flag and autocommit exclude each
\* other, and no cursor outlives its connection.
Exclusive == AutocommitExclusive /\ (AnyLeft => isOpen)

\* A step that begins or keeps a transaction through a live cursor.
LEMMA LiveStepExclusive ==
    ASSUME Exclusive, NEW c \in Cursors, Live(c),
           UNCHANGED <<isOpen, autocommit>>, inTransaction' => InTransactionAfterEntry
    PROVE  Exclusive'
BY DEF Exclusive, AutocommitExclusive, AnyLeft, InTransactionAfterEntry

LEMMA RunStatementFlag ==
    ASSUME NEW c, NEW s, NEW k, NEW kind, RunStatement(c, s, k, kind)
    PROVE  inTransaction' => InTransactionAfterEntry
BY DEF RunStatement, Unbound, Accepted, Recovered, Unrecovered, InTransactionAfterEntry

LEMMA CallprocFlag ==
    ASSUME NEW c, Callproc(c)
    PROVE  inTransaction' => InTransactionAfterEntry
BY DEF Callproc, Unbound, Accepted, Recovered, Unrecovered, InTransactionAfterEntry

LEMMA ExclusiveStep ==
    ASSUME TypeOK, Exclusive, Next
    PROVE  Exclusive'
<1>1. ASSUME NEW c \in Cursors, NEW n, NEW isRefCursor, NewCursor(c, n, isRefCursor)
      PROVE  Exclusive'
  <2>1. isOpen /\ UNCHANGED <<isOpen, autocommit>>
    BY <1>1 DEF NewCursor, connection
  <2>2. UNCHANGED inTransaction \/ inTransaction' = InTransactionAfterEntry
    BY <1>1 DEF NewCursor, connection
  <2>3. inTransaction' => InTransactionAfterEntry
    BY <2>2 DEF InTransactionAfterEntry
  <2> QED BY <2>1, <2>3 DEF Exclusive, AutocommitExclusive, InTransactionAfterEntry
<1>2. ASSUME NEW c \in Cursors, NEW kind, Execute(c, kind) \/ ExecuteParams(c, kind)
      PROVE  Exclusive'
  BY <1>2, RunStatementFlag, LiveStepExclusive DEF Execute, ExecuteParams
<1>3. ASSUME NEW c \in Cursors, NEW kind, ExecuteBegin(c, kind)
      PROVE  Exclusive'
  BY <1>3, LiveStepExclusive DEF ExecuteBegin, InTransactionAfterEntry
<1>4. ASSUME NEW c \in Cursors, NEW kind, ExecuteEnd(c, kind)
      PROVE  Exclusive'
  BY <1>4, LiveStepExclusive DEF ExecuteEnd, EndTransaction, connection, InTransactionAfterEntry
<1>5. ASSUME NEW c \in Cursors, Callproc(c)
      PROVE  Exclusive'
  BY <1>5, CallprocFlag, LiveStepExclusive DEF Callproc, Live
<1>6. ASSUME NEW c \in Cursors, Fetch(c) \/ Rewind(c) \/ CloseCursor(c)
      PROVE  Exclusive'
  BY <1>6, LiveStepExclusive
     DEF Fetch, Rewind, PortalCommand, CloseCursor, connection, Live, InTransactionAfterEntry
<1>7. ASSUME NEW c \in Cursors, DropCursor(c)
      PROVE  Exclusive'
  <2>1. \A d \in Cursors : Live(d)' => Live(d)
    BY <1>7 DEF DropCursor, Live, Unborn, TypeOK
  <2> QED BY <1>7, <2>1 DEF DropCursor, connection, Exclusive, AutocommitExclusive, AnyLeft
<1>8. CASE ConnectionCommit \/ ConnectionRollback
  BY <1>8 DEF ConnectionCommit, ConnectionRollback, EndTransaction, Exclusive, AutocommitExclusive
<1>9. CASE CloseConnection
  <2>1. \A d \in Cursors : ~Live(d)'
    BY <1>9 DEF CloseConnection, Live, Reset, TypeOK, Cursor
  <2> QED BY <1>9, <2>1 DEF CloseConnection, Exclusive, AutocommitExclusive, AnyLeft
<1>10. CASE \/ \E value \in BOOLEAN : SetAutocommit(value)
            \/ \E value \in Levels \cup {"bogus"} : SetTransactionLevel(value)
  BY <1>10 DEF SetAutocommit, SetTransactionLevel, Exclusive, AutocommitExclusive
<1>11. ASSUME NEW w, Unlink(w) \/ \E withString \in BOOLEAN : Binary(withString, w)
       PROVE  Exclusive'
  BY <1>11 DEF Unlink, Binary, connection, Exclusive, AutocommitExclusive, AnyLeft, Live
<1>12. CASE BackendDies
  BY <1>12 DEF BackendDies, connection, Exclusive, AutocommitExclusive, AnyLeft, Live
<1> QED BY <1>1, <1>2, <1>3, <1>4, <1>5, <1>6, <1>7, <1>8, <1>9, <1>10, <1>11, <1>12 DEF Next

\* autocommit can be assigned in the middle of a transaction, and a cursor can run
\* statements under either setting, but no sequence of calls and failures leaves a
\* transaction of the connection open while autocommit is on or after close().
THEOREM AutocommitIsExclusive == Spec => []AutocommitExclusive
<1>1. Init => Exclusive
  BY DEF Init, Exclusive, AutocommitExclusive
<1>2. TypeOK /\ Exclusive /\ [Next]_vars => Exclusive'
  <2>1. ASSUME Exclusive, UNCHANGED vars
        PROVE  Exclusive'
    BY <2>1 DEF vars, Exclusive, AutocommitExclusive, AnyLeft, Live
  <2> QED BY <2>1, ExclusiveStep
<1>3. Exclusive => AutocommitExclusive
  BY DEF Exclusive
<1> QED BY <1>1, <1>2, <1>3, TypeCorrect, PTL DEF Spec

\* Execute and ExecuteParams together: the session and the cursor a reselect
\* leaves are of their types, and the session still has what it had.
LEMMA ReselectKeeps ==
    ASSUME TypeOK, NEW c \in Cursors, NEW kind
    PROVE  /\ ReselectSession(c, kind) \in Session
           /\ Reselected(c, kind) \in Cursor
           /\ Tracks(inTransaction, srv) => Tracks(inTransaction, ReselectSession(c, kind))
           /\ Clear(inTransaction, srv) => Clear(inTransaction, ReselectSession(c, kind))
<1>1. srv \in Session /\ cursors[c] \in Cursor
  BY DEF TypeOK
<1>2. ReselectSession(c, kind) \in Session /\ Reselected(c, kind) \in Cursor
  BY <1>1, ResetSessionType, ResetType DEF ReselectSession, Reselected
<1>3. Stays(srv, ReselectSession(c, kind))
  BY <1>1, ResetSessionStays DEF ReselectSession, Stays
<1> QED BY <1>1, <1>2, <1>3, StaysKeeps

LEMMA ExecuteKeeps ==
    ASSUME TypeOK, AutocommitExclusive, "notice" \notin Faults, NEW c \in Cursors,
           NEW kind \in Kinds, Execute(c, kind) \/ ExecuteParams(c, kind)
    PROVE  /\ /\ Tracks(inTransaction, srv)
              /\ ParamsKinds \cap {"commit", "rollback"} = {}
              => Tracks(inTransaction', srv')
           /\ /\ Clear(inTransaction, srv)
              /\ AutocommitKinds \cap {"begin", "begin_level"} = {}
              /\ "internal" \notin Faults
              => Clear(inTransaction', srv')
<1>1. RunStatement(c, ReselectSession(c, kind), Reselected(c, kind), kind)
  BY DEF Execute, ExecuteParams
<1>2. /\ InTransactionAfterEntry => ~autocommit
      /\ ~InTransactionAfterEntry => autocommit
  BY DEF InTransactionAfterEntry, AutocommitExclusive
<1>3. ~autocommit => kind \notin {"commit", "rollback"} \/ kind \in ParamsKinds
  BY DEF Execute, ExecuteParams
<1>4. autocommit => kind \in AutocommitKinds
  BY DEF Execute, ExecuteParams
<1> QED BY <1>1, <1>2, <1>3, <1>4, ReselectKeeps, RunStatementKeeps

LEMMA TransactionStep ==
    ASSUME TypeOK, AutocommitExclusive, "notice" \notin Faults, Next
    PROVE  /\ /\ Tracks(inTransaction, srv)
              /\ ParamsKinds \cap {"commit", "rollback"} = {}
              => Tracks(inTransaction', srv')
           /\ /\ isOpen => Clear(inTransaction, srv)
              /\ AutocommitKinds \cap {"begin", "begin_level"} = {}
              /\ "internal" \notin Faults
              => (isOpen' => Clear(inTransaction', srv'))
<1> DEFINE Keeps ==
              /\ /\ Tracks(inTransaction, srv)
                 /\ ParamsKinds \cap {"commit", "rollback"} = {}
                 => Tracks(inTransaction', srv')
              /\ /\ Clear(inTransaction, srv)
                 /\ AutocommitKinds \cap {"begin", "begin_level"} = {}
                 /\ "internal" \notin Faults
                 => Clear(inTransaction', srv')
<1>1. srv \in Session /\ cursors \in [Cursors -> Cursor]
  BY DEF TypeOK
<1>2. ASSUME NEW c \in Cursors,
             \E n \in {c} \cup UserNames, isRefCursor \in BOOLEAN : NewCursor(c, n, isRefCursor)
      PROVE  Keeps
  BY <1>2, NewCursorKeeps
<1>3. ASSUME NEW c \in Cursors, NEW kind \in Kinds, Execute(c, kind) \/ ExecuteParams(c, kind)
      PROVE  Keeps
  BY <1>3, ExecuteKeeps
<1>4. ASSUME NEW c \in Cursors, NEW kind \in Kinds,
             ExecuteBegin(c, kind) \/ ExecuteEnd(c, kind)
      PROVE  Keeps
  BY <1>4, ExecuteBeginKeeps, ExecuteEndKeeps
<1>5. ASSUME NEW c \in Cursors,
             Callproc(c) \/ Fetch(c) \/ Rewind(c) \/ CloseCursor(c) \/ DropCursor(c)
      PROVE  Keeps
  BY <1>5, CallprocKeeps, PortalStepKeeps
<1>6. ASSUME ConnectionCommit \/ ConnectionRollback
      PROVE  Keeps
  BY <1>1, <1>6, EndTransactionKeeps DEF ConnectionCommit, ConnectionRollback, Tracks
<1>7. ASSUME \/ \E value \in BOOLEAN : SetAutocommit(value)
             \/ \E value \in Levels \cup {"bogus"} : SetTransactionLevel(value)
      PROVE  Keeps
  BY <1>7, SetAttributeKeeps DEF Tracks
<1>8. ASSUME NEW w \in Unused(srv),
             Unlink(w) \/ \E withString \in BOOLEAN : Binary(withString, w)
      PROVE  Keeps
  BY <1>8, LargeObjectKeeps
<1>9. ASSUME BackendDies
      PROVE  Keeps
  BY <1>9 DEF BackendDies, GoneWith, connection, Tracks, Clear
<1>10. ASSUME CloseConnection
       PROVE  Tracks(inTransaction', srv') /\ ~isOpen'
  BY <1>10 DEF CloseConnection, Tracks
<1>11. Keeps \/ CloseConnection
  <2> HIDE DEF Keeps
  <2> QED BY <1>2, <1>3, <1>4, <1>5, <1>6, <1>7, <1>8, <1>9 DEF Next
<1>12. isOpen' => isOpen
  <2>1. ASSUME NEW c, NEW n, NEW isRefCursor, NewCursor(c, n, isRefCursor)
        PROVE  isOpen' = isOpen
    BY <2>1 DEF NewCursor, connection
  <2>2. ASSUME NEW c, NEW kind, Execute(c, kind) \/ ExecuteParams(c, kind)
        PROVE  isOpen' = isOpen
    BY <2>2 DEF Execute, ExecuteParams, EndTransaction, connection
  <2>3. ASSUME NEW c, NEW kind, ExecuteBegin(c, kind) \/ ExecuteEnd(c, kind)
        PROVE  isOpen' = isOpen
    BY <2>3 DEF ExecuteBegin, ExecuteEnd, EndTransaction, connection
  <2>4. ASSUME NEW c, Callproc(c) \/ Fetch(c) \/ Rewind(c)
        PROVE  isOpen' = isOpen
    BY <2>4 DEF Callproc, Fetch, Rewind, PortalCommand, connection
  <2>5. ASSUME NEW c, CloseCursor(c) \/ DropCursor(c)
        PROVE  isOpen' = isOpen
    BY <2>5 DEF CloseCursor, DropCursor, connection
  <2>6. ASSUME ConnectionCommit \/ ConnectionRollback
        PROVE  isOpen' = isOpen
    BY <2>6 DEF ConnectionCommit, ConnectionRollback, EndTransaction
  <2>7. ASSUME NEW value, SetAutocommit(value) \/ SetTransactionLevel(value)
        PROVE  isOpen' = isOpen
    BY <2>7 DEF SetAutocommit, SetTransactionLevel
  <2>8. ASSUME NEW w, NEW withString, Binary(withString, w) \/ Unlink(w)
        PROVE  isOpen' = isOpen
    BY <2>8 DEF Binary, Unlink, connection
  <2>9. BackendDies => isOpen' = isOpen
    BY DEF BackendDies, connection
  <2>10. CloseConnection => isOpen
    BY DEF CloseConnection
  <2> QED BY <2>1, <2>2, <2>3, <2>4, <2>5, <2>6, <2>7, <2>8, <2>9, <2>10 DEF Next
<1> QED BY <1>10, <1>11, <1>12

\* While inTransaction is set the session is in a transaction: so no change that a
\* cursor makes with autocommit off is durable before commit().  It needs that the
\* application ends transactions through commit(), rollback() or execute() rather
\* than execute_params(), which does not recognise their statements, and that no
\* notice turns the recovery from an error into a Warning after its ROLLBACK.
THEOREM TransactionIsTracked ==
    ASSUME "notice" \notin Faults, ParamsKinds \cap {"commit", "rollback"} = {}
    PROVE  Spec => []TransactionTracked
<1>1. Init => TransactionTracked
  BY DEF Init, TransactionTracked
<1>2. TypeOK /\ AutocommitExclusive /\ TransactionTracked /\ [Next]_vars => TransactionTracked'
  <2>1. ASSUME TransactionTracked, UNCHANGED vars
        PROVE  TransactionTracked'
    BY <2>1 DEF vars, TransactionTracked
  <2> QED BY <2>1, TransactionStep DEF TransactionTracked, Tracks
<1> QED BY <1>1, <1>2, TypeCorrect, AutocommitIsExclusive, PTL DEF Spec

\* An open connection whose inTransaction is 0 can begin the next transaction: its
\* session is outside any (or lost), never in an aborted transaction that rollback()
\* would not end.  It needs that no reply is one libpq cannot read, whose handler
\* clears inTransaction before it fails, and that no BEGIN is sent under autocommit.
THEOREM SessionIsRecoverable ==
    ASSUME "notice" \notin Faults, "internal" \notin Faults,
           AutocommitKinds \cap {"begin", "begin_level"} = {}
    PROVE  Spec => []Recoverable
<1>1. Init => Recoverable
  <2>1. FreshSession.tx = "idle"
    BY DEF FreshSession
  <2> QED BY <2>1 DEF Init, Recoverable
<1>2. TypeOK /\ AutocommitExclusive /\ Recoverable /\ [Next]_vars => Recoverable'
  <2>1. ASSUME Recoverable, UNCHANGED vars
        PROVE  Recoverable'
    BY <2>1 DEF vars, Recoverable
  <2> QED BY <2>1, TransactionStep DEF Recoverable, Clear
<1> QED BY <1>1, <1>2, TypeCorrect, AutocommitIsExclusive, PTL DEF Spec

=============================================================================
