-------------------------- MODULE PgSQLPortalProofs --------------------------
(***************************************************************************)
(* Theorems about a connection and its cursors, for every set of cursors,  *)
(* names and changes: first about the portals of the connection's session  *)
(* and the cursors that they belong to, then about what becomes of the     *)
(* changes that an application makes, which calls make them durable and    *)
(* which calls tell that they are lost.                                    *)
(***************************************************************************)
EXTENDS PgSQLProofs

-----------------------------------------------------------------------------
(* What the replies do to the portals. *)

\* Portals live in a transaction.
Bare(s) == s.tx # "trans" => s.portals = {}

\* A statement that opens no portal.
Within(s, u) == Bare(u) /\ u.portals \subseteq s.portals

LEMMA AbortedByBare ==
    ASSUME NEW s \in Session, Bare(s)
    PROVE  AbortedBy(s).portals = {} /\ Within(s, AbortedBy(s))
BY DEF AbortedBy, Bare, Within, Session

LEMMA ClosedPortalBare ==
    ASSUME NEW s \in Session, Bare(s), NEW n
    PROVE  Within(s, ClosedPortal(s, n)) /\ n \notin ClosedPortal(s, n).portals
           /\ (s.portals \ {n} \subseteq ClosedPortal(s, n).portals \/ ClosedPortal(s, n).portals = {})
<1>1. CASE n \in s.portals
  <2>1. ClosedPortal(s, n) = [s EXCEPT !.portals = @ \ {n}]
    BY <1>1 DEF ClosedPortal
  <2> QED BY <2>1 DEF Within, Bare, Session
<1>2. CASE n \notin s.portals
  BY <1>2, AbortedByBare DEF ClosedPortal
<1> QED BY <1>1, <1>2

LEMMA StatementBare ==
    ASSUME NEW s \in Session, Bare(s), NEW t \in Session, t.tx = s.tx, t.portals = s.portals,
           NEW a \in BOOLEAN, NEW r \in Statement(s, a, t)
    PROVE  Within(s, r.srv)
BY StatementReplies, AbortedByBare DEF Within, Bare

LEMMA ChangedPortals ==
    ASSUME NEW s \in Session, NEW w \in Writes
    PROVE  /\ Changed(s, w) \in Session
           /\ Changed(s, w).portals = s.portals /\ Changed(s, w).tx = s.tx
BY ChangedType DEF Changed, Session

LEMMA WriteBare ==
    ASSUME NEW s \in Session, Bare(s), NEW w \in Writes, NEW r \in Write(s, w)
    PROVE  Within(s, r.srv)
<1>1. CASE r \in Statement(s, TRUE, Changed(s, w))
  BY <1>1, ChangedPortals, StatementBare
<1>2. CASE r = Reply(AbortedBy(s), "IntegrityError", FALSE)
  BY <1>2, AbortedByBare DEF Reply
<1> QED BY <1>1, <1>2 DEF Write, When

LEMMA UsePortalBare ==
    ASSUME NEW s \in Session, Bare(s), NEW n, NEW r \in UsePortal(s, n)
    PROVE  Within(s, r.srv)
<1>1. (n \in s.portals) \in BOOLEAN
  OBVIOUS
<1> QED BY <1>1, StatementBare DEF UsePortal

LEMMA LargeObjectBare ==
    ASSUME NEW s \in Session, Bare(s), NEW t \in Session, t.tx = s.tx, t.portals = s.portals,
           NEW e, NEW r \in LargeObjectCall(s, t, e)
    PROVE  Within(s, r.srv)
<1>1. PICK q \in Statement(s, TRUE, t) : r = [q EXCEPT !.exc = IF @ = "none" THEN @ ELSE e]
  BY DEF LargeObjectCall
<1>2. q \in Replies
  BY StatementType
<1>3. r.srv = q.srv
  BY <1>1, <1>2 DEF Replies
<1> QED BY <1>3, StatementBare

\* Only DECLARE opens a portal, and an error leaves none.
LEMMA DeclareBare ==
    ASSUME NEW s \in Session, Bare(s), NEW n \in Names, NEW r \in Declare(s, n)
    PROVE  Bare(r.srv) /\ r.srv.portals \subseteq s.portals \cup {n}
<1> DEFINE a == s.tx = "trans" /\ n \notin s.portals
           t == [s EXCEPT !.portals = @ \cup {n}]
<1>1. t.tx = s.tx /\ t.portals = s.portals \cup {n}
  BY DEF Session
<1>2. CASE a
  <2>1. r.srv \in {s, t, AbortedBy(s)}
    BY StatementReplies DEF Declare
  <2> QED BY <1>1, <1>2, <2>1, AbortedByBare DEF Bare, Within
<1>3. CASE ~a
  <2>1. r \in WithNotices({Refused(s)})
    BY <1>3 DEF Declare, Statement
  <2>2. Refused(s) = [srv |-> AbortedBy(s), exc |-> "OperationalError", notice |-> FALSE]
    BY DEF Refused, Reply
  <2>3. r.srv = AbortedBy(s)
    BY <2>1, <2>2 DEF WithNotices, When
  <2> QED BY <2>3, AbortedByBare DEF Within
<1> QED BY <1>2, <1>3

LEMMA BeginBare ==
    ASSUME NEW s \in Session, Bare(s), NEW b \in Begin(s)
    PROVE  Within(s, b.srv)
<1> DEFINE R == IF Runs(s) THEN {Reply([s EXCEPT !.tx = "trans"], "none", s.tx = "trans")}
                           ELSE {Refused(s)}
<1>1. ASSUME NEW q \in R
      PROVE  /\ q = [srv |-> q.srv, exc |-> q.exc, notice |-> q.notice]
             /\ q.srv = [s EXCEPT !.tx = "trans"] \/ q.srv = AbortedBy(s)
  BY DEF Reply, Refused
<1>2. b \in R \/ (\E q \in R : b = [q EXCEPT !.notice = TRUE])
  BY DEF Begin, WithNotices, When
<1> HIDE DEF R
<1>3. b.srv = [s EXCEPT !.tx = "trans"] \/ b.srv = AbortedBy(s)
  BY <1>1, <1>2
<1>4. Within(s, [s EXCEPT !.tx = "trans"])
  BY DEF Within, Bare, Session
<1> QED BY <1>3, <1>4, AbortedByBare

LEMMA SetLevelReplies ==
    ASSUME NEW s \in Session, NEW fresh \in BOOLEAN, NEW r \in SetLevel(s, fresh)
    PROVE  r.srv \in {s, AbortedBy(s)}
<1> DEFINE R == {Done(s)} \cup When(~fresh, {Refused(s)})
<1>1. r \in R \/ (\E q \in R : r = [q EXCEPT !.notice = TRUE])
  BY DEF SetLevel, WithNotices, When
<1>2. ASSUME NEW q \in R
      PROVE  /\ q = [srv |-> q.srv, exc |-> q.exc, notice |-> q.notice]
             /\ q.srv \in {s, AbortedBy(s)}
  BY DEF Done, Refused, Reply, When
<1> HIDE DEF R
<1> QED BY <1>1, <1>2

\* A transaction is set up by BEGIN, and then at most SET.
LEMMA SetupSession ==
    ASSUME NEW s \in Session, NEW plain \in BOOLEAN, NEW e \in SetupTransaction(s, plain)
    PROVE  \E b \in Begin(s) : b.srv \in Session /\ e.srv \in {b.srv, AbortedBy(b.srv)}
<1>0. \A b \in Begin(s) : b.srv \in Session
  BY BeginType DEF Replies
<1>1. CASE TransactionLevel = "" \/ ~plain \/ ~Runs(s)
  BY <1>0, <1>1 DEF SetupTransaction
<1>2. CASE ~(TransactionLevel = "" \/ ~plain \/ ~Runs(s))
  <2>0. SetUp(s, e)
    BY <1>2, SetupIs
  <2>1. PICK b \in Begin(s) : \E r \in SetLevel(b.srv, s.tx = "idle") : e = Noticed(r, b)
    BY ONLY <2>0 DEF SetUp
  <2>2. PICK r \in SetLevel(b.srv, s.tx = "idle") :
           e = Noticed(r, b)
    BY ONLY <2>1
  <2>3. (s.tx = "idle") \in BOOLEAN
    OBVIOUS
  <2>4. r \in Replies /\ r.srv \in {b.srv, AbortedBy(b.srv)}
    BY <1>0, <2>3, SetLevelType, SetLevelReplies
  <2>5. e.srv = r.srv
    BY <2>2, <2>4 DEF Replies, Noticed
  <2> QED BY <1>0, <2>4, <2>5
<1> QED BY <1>1, <1>2

LEMMA SetupBare ==
    ASSUME NEW s \in Session, Bare(s), NEW plain \in BOOLEAN, NEW e \in SetupTransaction(s, plain)
    PROVE  Within(s, e.srv)
<1>1. PICK b \in Begin(s) : b.srv \in Session /\ e.srv \in {b.srv, AbortedBy(b.srv)}
  BY SetupSession
<1>2. Within(s, b.srv)
  BY BeginBare
<1> QED BY <1>1, <1>2, AbortedByBare DEF Within

LEMMA EnteredBare ==
    ASSUME NEW s \in Session, Bare(s), NEW e \in Entered(s)
    PROVE  Within(s, e.srv)
<1>1. CASE autocommit \/ inTransaction
  <2>1. e = Done(s) /\ Done(s).srv = s
    BY <1>1 DEF Entered, Done, Reply
  <2> QED BY <2>1 DEF Within
<1>2. CASE ~(autocommit \/ inTransaction)
  BY <1>2, SetupBare DEF Entered
<1> QED BY <1>1, <1>2

\* COMMIT and ROLLBACK leave no portal.
LEMMA EndBare ==
    ASSUME NEW s \in Session, Bare(s), NEW r \in Commit(s) \cup Rollback(s)
    PROVE  r.srv.portals = {}
<1> DEFINE Empty(q) == /\ q.srv.portals = {}
                       /\ q = [srv |-> q.srv, exc |-> q.exc, notice |-> q.notice]
<1>1. /\ \A d : Empty(Done(EndedWith(d)))
      /\ \A d, e : Empty(Reply(EndedWith(d), e, FALSE)) /\ Empty(Reply(GoneWith(d), e, FALSE))
      /\ s.tx = "idle" => Empty(Reply(s, "none", TRUE))
      /\ Empty(Refused(s))
  BY AbortedByBare DEF Done, Reply, Refused, EndedWith, GoneWith, Bare
<1> HIDE DEF Empty
<1>2. \E q : Empty(q) /\ (r = q \/ r = [q EXCEPT !.notice = TRUE])
  <2>1. CASE s.tx = "trans"
    <3>1. CASE r \in Commit(s)
      <4> DEFINE R == {Done(EndedWith(s.durable \cup s.pending))}
                      \cup {Reply(EndedWith(s.durable), "OperationalError", FALSE),
                            Reply(EndedWith(s.durable), "IntegrityError", FALSE)}
                      \cup {Reply(GoneWith(d), "OperationalError", FALSE) :
                                d \in {s.durable, s.durable \cup s.pending}}
      <4>1. \A q \in R : Empty(q)
        BY <1>1
      <4>2. \E q \in R : r = q \/ r = [q EXCEPT !.notice = TRUE]
        BY <2>1, <3>1 DEF Commit, WithNotices, When
      <4> HIDE DEF R
      <4> QED BY <4>1, <4>2
    <3>2. CASE r \in Rollback(s)
      <4> DEFINE q == Done(EndedWith(s.durable))
      <4>1. Rollback(s) = WithNotices({q})
        BY <2>1 DEF Rollback
      <4>2. Empty(q)
        BY <1>1
      <4> HIDE DEF q
      <4>3. r = q \/ r = [q EXCEPT !.notice = TRUE]
        BY <3>2, <4>1 DEF WithNotices, When
      <4> QED BY <4>2, <4>3
    <3> QED BY <3>1, <3>2
  <2>2. CASE s.tx = "aborted"
    BY <1>1, <2>2 DEF Commit, Rollback, WithNotices, When
  <2>3. CASE s.tx = "idle"
    BY <1>1, <2>3 DEF Commit, Rollback, WithNotices, When
  <2>4. CASE s.tx = "down"
    BY <1>1, <2>4 DEF Commit, Rollback, WithNotices, When
  <2> QED BY <2>1, <2>2, <2>3, <2>4 DEF Session, TxStatus
<1>3. PICK q : Empty(q) /\ (r = q \/ r = [q EXCEPT !.notice = TRUE])
  BY <1>2
<1>4. r.srv = q.srv
  BY <1>3 DEF Empty
<1> QED BY <1>3, <1>4 DEF Empty

-----------------------------------------------------------------------------
(* The invariant behind PortalsOwned. *)

\* A cursor has its own name, or one that the application chose.
Named(hs) == \A c \in Cursors : hs[c].name \in {c} \cup UserNames

\* The portals of the session s under generated names belong to cursors of hs that
\* will close them; with inTransaction = t = 0, when no CLOSE is sent, there are none.
Owned(s, hs, t) ==
    /\ Bare(s)
    /\ \A n \in s.portals \ UserNames : n \in Cursors /\ hs[n].closed = "0" /\ hs[n].name = n
    /\ t \/ s.portals \subseteq UserNames

Portals == Named(cursors) /\ Owned(srv, cursors, inTransaction)

LEMMA WithinOwned ==
    ASSUME NEW s, NEW u, NEW hs, NEW t, NEW t2, Owned(s, hs, t), Within(s, u), t => t2
    PROVE  Owned(u, hs, t2)
BY DEF Owned, Within

LEMMA NoPortals ==
    ASSUME NEW s, NEW hs, NEW t, s.portals = {}
    PROVE  Owned(s, hs, t)
BY DEF Owned, Bare

\* The cursor c may change in what does not matter for its portal.
LEMMA SameCursor ==
    ASSUME NEW s, NEW t, NEW c \in Cursors, NEW k \in Cursor, NEW k2 \in Cursor,
           cursors \in [Cursors -> Cursor],
           Owned(s, [cursors EXCEPT ![c] = k], t), k2.name = k.name,
           k2.closed \in {k.closed, "0"}
    PROVE  Owned(s, [cursors EXCEPT ![c] = k2], t)
<1>1. \A d \in Cursors : /\ [cursors EXCEPT ![c] = k][d] = IF d = c THEN k ELSE cursors[d]
                         /\ [cursors EXCEPT ![c] = k2][d] = IF d = c THEN k2 ELSE cursors[d]
  OBVIOUS
<1> QED BY <1>1 DEF Owned

LEMMA NamedCursor ==
    ASSUME Named(cursors), cursors \in [Cursors -> Cursor], NEW c \in Cursors, NEW k \in Cursor,
           k.name \in {c} \cup UserNames
    PROVE  Named([cursors EXCEPT ![c] = k])
BY DEF Named

LEMMA SameCursors ==
    ASSUME cursors \in [Cursors -> Cursor], NEW c \in Cursors
    PROVE  [cursors EXCEPT ![c] = cursors[c]] = cursors
OBVIOUS

\* __reset gives the portal up, whether it closes it or not.
LEMMA ResetOwned ==
    ASSUME Portals, TypeOK, NEW c \in Cursors, NEW k \in Cursor,
           k.closed # "0" \/ (cursors[c].closed = "0" => FALSE)
    PROVE  Owned(ResetSession(srv, cursors[c], inTransaction), [cursors EXCEPT ![c] = k],
                 inTransaction)
<1> DEFINE name == cursors[c].name
           u == ResetSession(srv, cursors[c], inTransaction)
           hs == [cursors EXCEPT ![c] = k]
<1>1. srv \in Session /\ cursors \in [Cursors -> Cursor] /\ Bare(srv)
  BY DEF TypeOK, Portals, Owned
<1>2. \A d \in Cursors : hs[d] = IF d = c THEN k ELSE cursors[d]
  BY <1>1
<1>3. CASE cursors[c].closed = "0" /\ inTransaction
  <2>1. u = ClosedPortal(srv, name)
    BY <1>3 DEF ResetSession
  <2>2. Within(srv, u) /\ name \notin u.portals
    BY <1>1, <2>1, ClosedPortalBare
  <2>3. ASSUME NEW n \in u.portals \ UserNames
        PROVE  n \in Cursors /\ hs[n].closed = "0" /\ hs[n].name = n
    <3>1. n \in srv.portals \ UserNames /\ n # name
      BY <2>2, <2>3 DEF Within
    <3>2. n \in Cursors /\ cursors[n].closed = "0" /\ cursors[n].name = n
      BY <3>1 DEF Portals, Owned
    <3>3. n # c
      BY <3>1, <3>2
    <3> QED BY <1>2, <3>2, <3>3
  <2> HIDE DEF u, hs
  <2>4. Owned(u, hs, inTransaction)
    BY <1>3, <2>2, <2>3 DEF Owned, Within
  <2> QED BY <2>4 DEF u, hs
<1>4. CASE ~(cursors[c].closed = "0" /\ inTransaction)
  <2>1. u = srv
    BY <1>4 DEF ResetSession
  <2>2. ASSUME NEW n \in srv.portals \ UserNames
        PROVE  n \in Cursors /\ hs[n].closed = "0" /\ hs[n].name = n
    <3>1. n \in Cursors /\ n # c /\ cursors[n].closed = "0" /\ cursors[n].name = n
      BY <1>4 DEF Portals, Owned
    <3> QED BY <1>2, <3>1
  <2> HIDE DEF u, hs
  <2>3. Owned(u, hs, inTransaction)
    BY <2>1, <2>2 DEF Portals, Owned
  <2> QED BY <2>3 DEF u, hs
<1> QED BY <1>3, <1>4

-----------------------------------------------------------------------------
(* The ways in which a statement ends. *)

LEMMA AcceptedOwned ==
    ASSUME cursors \in [Cursors -> Cursor], Named(cursors),
           NEW c \in Cursors, NEW k \in Cursor, NEW t, NEW call, NEW r, NEW portal \in BOOLEAN,
           r.srv \in Session, k.name \in {c} \cup UserNames,
           Owned(r.srv, [cursors EXCEPT ![c] = k], t), Accepted(c, k, t, call, r, portal)
    PROVE  Portals'
<1>1. inTransaction' = t
  BY DEF Accepted
<1>2. CASE portal
  <2>1. PICK f \in UsePortal(r.srv, k.name) :
               /\ srv' = f.srv
               /\ cursors' = [cursors EXCEPT ![c] =
                                [k EXCEPT !.res = IF f.exc = "none" THEN "rows" ELSE "other"]]
    BY <1>2 DEF Accepted
  <2> DEFINE k2 == [k EXCEPT !.res = IF f.exc = "none" THEN "rows" ELSE "other"]
  <2>2. k2 \in Cursor /\ k2.name = k.name /\ k2.closed = k.closed
    BY DEF Cursor
  <2>3. Within(r.srv, srv')
    BY <2>1, UsePortalBare DEF Owned
  <2> HIDE DEF k2
  <2>4. Owned(srv', [cursors EXCEPT ![c] = k2], t)
    <3>1. Owned(srv', [cursors EXCEPT ![c] = k], t)
      BY <2>3, WithinOwned
    <3> QED BY <2>2, <3>1, SameCursor
  <2>5. cursors' = [cursors EXCEPT ![c] = k2]
    BY <2>1 DEF k2
  <2> QED BY <1>1, <2>2, <2>4, <2>5, NamedCursor DEF Portals
<1>3. CASE ~portal
  BY <1>1, <1>3, NamedCursor DEF Accepted, Portals
<1> QED BY <1>2, <1>3

LEMMA RecoveredOwned ==
    ASSUME cursors \in [Cursors -> Cursor], Named(cursors),
           NEW c \in Cursors, NEW k \in Cursor, NEW t, NEW call, NEW r,
           r.srv \in Session, k.name \in {c} \cup UserNames,
           Owned(r.srv, [cursors EXCEPT ![c] = k], t),
           \/ Recovered(c, k, t, call, r, Commit(r.srv))
           \/ Recovered(c, k, t, call, r, Rollback(r.srv))
    PROVE  Portals'
<1>1. CASE ~t
  BY <1>1, NamedCursor DEF Recovered, Portals
<1>2. CASE t
  <2>1. PICK e \in Commit(r.srv) \cup Rollback(r.srv) :
               /\ srv' = e.srv
               /\ \/ cursors' = [cursors EXCEPT ![c] = k]
                  \/ cursors' = [d \in Cursors |-> IF Live(d) THEN Reset(IF d = c THEN k ELSE cursors[d])
                                                              ELSE cursors[d]]
    BY <1>2 DEF Recovered
  <2>2. srv'.portals = {}
    BY <2>1, EndBare DEF Owned
  <2>3. Named(cursors')
    <3>1. CASE cursors' = [cursors EXCEPT ![c] = k]
      BY <3>1, NamedCursor
    <3>2. CASE cursors' = [d \in Cursors |-> IF Live(d) THEN Reset(IF d = c THEN k ELSE cursors[d])
                                                        ELSE cursors[d]]
      <4>1. Reset(k).name = k.name /\ \A d \in Cursors : Reset(cursors[d]).name = cursors[d].name
        BY DEF Reset, Cursor
      <4> QED BY <3>2, <4>1 DEF Named
    <3> QED BY <2>1, <3>1, <3>2
  <2> QED BY <2>2, <2>3, NoPortals DEF Portals
<1> QED BY <1>1, <1>2

LEMMA UnrecoveredOwned ==
    ASSUME cursors \in [Cursors -> Cursor], Named(cursors),
           NEW c \in Cursors, NEW k \in Cursor, NEW t \in BOOLEAN, NEW call, NEW r,
           k.name \in {c} \cup UserNames, r.exc # "InternalError",
           Owned(r.srv, [cursors EXCEPT ![c] = k], t),
           Unrecovered(c, k, t, call, r)
    PROVE  Portals'
<1>1. inTransaction' = t /\ srv' = r.srv /\ cursors' = [cursors EXCEPT ![c] = k]
  BY DEF Unrecovered
<1> QED BY <1>1, NamedCursor DEF Portals

LEMMA UnboundOwned ==
    ASSUME cursors \in [Cursors -> Cursor], Named(cursors),
           NEW c \in Cursors, NEW k \in Cursor, NEW t, NEW call, NEW s,
           k.name \in {c} \cup UserNames,
           Owned(s, [cursors EXCEPT ![c] = k], t), Unbound(c, s, k, t, call)
    PROVE  Portals'
BY NamedCursor DEF Unbound, Portals

\* A statement that execute() sends; the portal it may open is the cursor's.
LEMMA SentOwned ==
    ASSUME NEW s \in Session, NEW kind \in Kinds, NEW portal \in BOOLEAN, portal => kind = "select",
           NEW c \in Cursors, NEW k \in Cursor, k.name \in {c} \cup UserNames,
           cursors \in [Cursors -> Cursor],
           NEW t, portal => t /\ k.closed = "0",
           Owned(s, [cursors EXCEPT ![c] = k], t),
           NEW r \in Sent(s, kind, portal, k.name)
    PROVE  Owned(r.srv, [cursors EXCEPT ![c] = k], t)
<1>0. Bare(s)
  BY DEF Owned
<1>1. CASE portal
  <2>1. r \in Declare(s, k.name) /\ k.name \in Names
    BY <1>1 DEF Sent, Cursor
  <2>2. Bare(r.srv) /\ r.srv.portals \subseteq s.portals \cup {k.name}
    BY <1>0, <2>1, DeclareBare
  <2>3. k.name \notin UserNames => [cursors EXCEPT ![c] = k][k.name] = k /\ k.name \in Cursors
    OBVIOUS
  <2> QED BY <1>1, <2>2, <2>3 DEF Owned
<1>2. CASE ~portal /\ kind \in {"select", "direct"}
  <2>1. r \in Statement(s, TRUE, s)
    BY <1>2 DEF Sent, Query
  <2>2. Within(s, r.srv)
    BY <1>0, <2>1, StatementBare
  <2> QED BY <2>2, WithinOwned
<1>3. CASE ~portal /\ kind = "write"
  <2>1. PICK w \in Unused(s) : r \in Write(s, w)
    BY <1>3 DEF Sent
  <2>2. Within(s, r.srv)
    BY <1>0, <2>1, WriteBare DEF Unused
  <2> QED BY <2>2, WithinOwned
<1>4. CASE ~portal /\ kind \in {"begin", "begin_level"}
  <2>1. Within(s, r.srv)
    BY <1>0, <1>4, BeginBare DEF Sent
  <2> QED BY <2>1, WithinOwned
<1>5. CASE ~portal /\ kind \in {"commit", "rollback"}
  <2>1. r.srv.portals = {}
    BY <1>0, <1>5, EndBare DEF Sent
  <2> QED BY <2>1, NoPortals
<1> QED BY <1>1, <1>2, <1>3, <1>4, <1>5 DEF Kinds

\* A procedure opens portals only under names that it chose.
LEMMA ProcedureOwned ==
    ASSUME NEW s \in Session, NEW hs, NEW t, Owned(s, hs, t), NEW r \in ProcedureReplies(s)
    PROVE  Owned(r.srv, hs, t)
<1>0. Bare(s)
  BY DEF Owned
<1>1. CASE r \in Query(s)
  <2>1. Within(s, r.srv)
    BY <1>0, <1>1, StatementBare DEF Query
  <2> QED BY <2>1, WithinOwned
<1>2. ASSUME NEW w \in Unused(s), r \in Write(s, w)
      PROVE  Owned(r.srv, hs, t)
  <2>1. Within(s, r.srv)
    BY <1>0, <1>2, WriteBare DEF Unused
  <2> QED BY <2>1, WithinOwned
<1>3. ASSUME NEW n \in UserNames, r \in Declare(s, n)
      PROVE  Owned(r.srv, hs, t)
  <2>1. Bare(r.srv) /\ r.srv.portals \subseteq s.portals \cup {n}
    BY <1>0, <1>3, DeclareBare, PgSQLAssumption
  <2> QED BY <2>1 DEF Owned
<1> QED BY <1>1, <1>2, <1>3 DEF ProcedureReplies

-----------------------------------------------------------------------------
(* The calls. *)

LEMMA RunStatementOwned ==
    ASSUME TypeOK, "internal" \notin Faults, Named(cursors),
           NEW c \in Cursors, NEW s \in Session, NEW k \in Cursor, NEW kind \in Kinds,
           k.name \in {c} \cup UserNames,
           Owned(s, [cursors EXCEPT ![c] = k], inTransaction),
           RunStatement(c, s, k, kind)
    PROVE  Portals'
<1> DEFINE portal == kind = "select" /\ ~autocommit
           t == InTransactionAfterEntry
           k0 == IF portal THEN [k EXCEPT !.closed = "0"] ELSE k
           k1 == [k0 EXCEPT !.res = IF kind \in {"select", "direct"} THEN "rows" ELSE "other"]
<1>1. /\ t \in BOOLEAN /\ portal \in BOOLEAN
      /\ portal => t
      /\ inTransaction => t
      /\ cursors \in [Cursors -> Cursor]
  BY DEF TypeOK, InTransactionAfterEntry
<1>2. /\ k0 \in Cursor /\ k0.name = k.name /\ k0.closed \in {k.closed, "0"}
      /\ portal => k0.closed = "0"
      /\ k1 \in Cursor /\ k1.name = k.name /\ k1.closed = k0.closed
  BY DEF Cursor
<1>3. PICK e \in Entered(s) :
           \/ /\ e.exc # "none"
              /\ srv' = e.srv
              /\ cursors' = [cursors EXCEPT ![c] = k]
              /\ UNCHANGED inTransaction
           \/ /\ e.exc = "none"
              /\ \/ Unbound(c, e.srv, k0, t, "execute")
                 \/ \E r \in Sent(e.srv, kind, portal, k.name) :
                       \/ Accepted(c, k1, t, "execute", r, portal)
                       \/ Recovered(c, k0, t, "execute", r, Rollback(r.srv))
                       \/ Unrecovered(c, k0, t, "execute", r)
  BY DEF RunStatement
<1>4. e.srv \in Session /\ Within(s, e.srv)
  BY EnteredType, EnteredBare DEF Outcomes, Owned
<1>5. CASE srv' = e.srv /\ cursors' = [cursors EXCEPT ![c] = k] /\ UNCHANGED inTransaction
  <2>1. Owned(srv', cursors', inTransaction')
    BY <1>4, <1>5, WithinOwned
  <2> QED BY <1>1, <1>5, <2>1, NamedCursor DEF Portals
<1> USE <1>1, <1>2
<1>6. portal => kind = "select"
  OBVIOUS
<1> HIDE DEF portal, t, k0, k1
<1>7. Owned(e.srv, [cursors EXCEPT ![c] = k0], t)
  <2>1. Owned(e.srv, [cursors EXCEPT ![c] = k], t)
    BY <1>4, WithinOwned
  <2> QED BY <2>1, SameCursor
<1>8. CASE Unbound(c, e.srv, k0, t, "execute")
  BY <1>7, <1>8, UnboundOwned
<1>9. ASSUME NEW r \in Sent(e.srv, kind, portal, k.name),
             \/ Accepted(c, k1, t, "execute", r, portal)
             \/ Recovered(c, k0, t, "execute", r, Rollback(r.srv))
             \/ Unrecovered(c, k0, t, "execute", r)
      PROVE  Portals'
  <2>1. r \in Replies /\ r.srv \in Session
    <3>1. k.name \in Names
      BY DEF Cursor
    <3> QED BY <1>4, <1>6, <3>1, SentType DEF Replies
  <2>2. r.exc # "InternalError"
    BY <1>4, <1>6, <2>1, ReplyKeeps
  <2>3. Owned(r.srv, [cursors EXCEPT ![c] = k0], t)
    BY <1>4, <1>6, <1>7, SentOwned
  <2>4. Owned(r.srv, [cursors EXCEPT ![c] = k1], t)
    BY <2>3, SameCursor
  <2>5. CASE Accepted(c, k1, t, "execute", r, portal)
    BY <2>1, <2>4, <2>5, AcceptedOwned
  <2>6. CASE Recovered(c, k0, t, "execute", r, Rollback(r.srv))
    BY <2>1, <2>3, <2>6, RecoveredOwned
  <2>7. CASE Unrecovered(c, k0, t, "execute", r)
    BY <2>2, <2>3, <2>7, UnrecoveredOwned
  <2> QED BY <1>9, <2>5, <2>6, <2>7
<1> QED BY <1>3, <1>5, <1>8, <1>9

LEMMA ExecuteOwned ==
    ASSUME TypeOK, "internal" \notin Faults, Portals, NEW c \in Cursors, NEW kind \in Kinds,
           Execute(c, kind) \/ ExecuteParams(c, kind)
    PROVE  Portals'
<1> DEFINE s == ReselectSession(c, kind)
           k == Reselected(c, kind)
<1>1. s \in Session /\ k \in Cursor
  BY ReselectKeeps
<1>2. srv \in Session /\ cursors \in [Cursors -> Cursor] /\ cursors[c] \in Cursor
  BY DEF TypeOK
<1>3. k.name = cursors[c].name /\ Named(cursors)
  BY <1>2 DEF Reselected, Reset, Cursor, Portals
<1>4. Owned(s, [cursors EXCEPT ![c] = k], inTransaction)
  <2>1. CASE kind \in {"select", "direct"}
    <3>1. s = ResetSession(srv, cursors[c], inTransaction)
      BY <2>1 DEF ReselectSession
    <3>2. k.closed # "0"
      BY <1>2, <2>1 DEF Reselected, Reset, Cursor
    <3> QED BY <1>1, <3>1, <3>2, ResetOwned
  <2>2. CASE kind \notin {"select", "direct"}
    <3>1. s = srv /\ k = cursors[c]
      BY <2>2 DEF ReselectSession, Reselected
    <3>2. [cursors EXCEPT ![c] = cursors[c]] = cursors
      BY <1>2, SameCursors
    <3> QED BY <3>1, <3>2 DEF Portals
  <2> QED BY <2>1, <2>2
<1>5. RunStatement(c, s, k, kind)
  BY DEF Execute, ExecuteParams
<1>6. k.name \in {c} \cup UserNames
  BY <1>3 DEF Named
<1> HIDE DEF s, k
<1> QED BY <1>1, <1>3, <1>4, <1>5, <1>6, RunStatementOwned

LEMMA CallprocOwned ==
    ASSUME TypeOK, "internal" \notin Faults, Portals, NEW c \in Cursors, Callproc(c)
    PROVE  Portals'
<1> DEFINE t == InTransactionAfterEntry
           k == cursors[c]
           k1 == [k EXCEPT !.res = "rows"]
<1>1. /\ t \in BOOLEAN
      /\ inTransaction => t
      /\ srv \in Session /\ cursors \in [Cursors -> Cursor] /\ Named(cursors)
  BY DEF TypeOK, InTransactionAfterEntry, Portals
<1>2. /\ k \in Cursor /\ k.name \in {c} \cup UserNames
      /\ k1 \in Cursor /\ k1.name = k.name /\ k1.closed = k.closed
  BY <1>1 DEF Cursor, Named
<1>3. PICK e \in Entered(srv) :
              \/ e.exc # "none" /\ srv' = e.srv /\ UNCHANGED <<inTransaction, cursors>>
              \/ /\ e.exc = "none"
                 /\ \/ Unbound(c, e.srv, k, t, "callproc")
                    \/ \E r \in ProcedureReplies(e.srv) :
                          \/ Accepted(c, k1, t, "callproc", r, FALSE)
                          \/ Recovered(c, k, t, "callproc", r, Commit(r.srv))
                          \/ Unrecovered(c, k, t, "callproc", r)
  BY DEF Callproc
<1>4. e.srv \in Session /\ Within(srv, e.srv)
  BY <1>1, EnteredType, EnteredBare DEF Outcomes, Portals, Owned
<1>5. CASE srv' = e.srv /\ UNCHANGED <<inTransaction, cursors>>
  BY <1>4, <1>5, WithinOwned DEF Portals
<1>6. Owned(e.srv, cursors, t)
  <2>1. Owned(srv, cursors, inTransaction)
    BY DEF Portals
  <2> HIDE DEF t
  <2> QED BY <1>1, <1>4, <2>1, WithinOwned
<1>7. [cursors EXCEPT ![c] = k] = cursors
  BY <1>1
<1> HIDE DEF k, k1, t
<1>8. CASE Unbound(c, e.srv, k, t, "callproc")
  BY <1>1, <1>2, <1>6, <1>7, <1>8, UnboundOwned
<1>9. ASSUME NEW r \in ProcedureReplies(e.srv),
             \/ Accepted(c, k1, t, "callproc", r, FALSE)
             \/ Recovered(c, k, t, "callproc", r, Commit(r.srv))
             \/ Unrecovered(c, k, t, "callproc", r)
      PROVE  Portals'
  <2>1. r \in Replies /\ r.srv \in Session /\ r.exc # "InternalError"
    BY <1>4, ProcedurePlain DEF Replies, Plain
  <2>2. Owned(r.srv, [cursors EXCEPT ![c] = k], t)
    BY <1>4, <1>6, <1>7, ProcedureOwned
  <2>3. Owned(r.srv, [cursors EXCEPT ![c] = k1], t)
    BY <1>1, <1>2, <2>2, SameCursor
  <2>4. CASE Accepted(c, k1, t, "callproc", r, FALSE)
    BY <1>1, <1>2, <2>1, <2>3, <2>4, AcceptedOwned
  <2>5. CASE Recovered(c, k, t, "callproc", r, Commit(r.srv))
    BY <1>1, <1>2, <2>1, <2>2, <2>5, RecoveredOwned
  <2>6. CASE Unrecovered(c, k, t, "callproc", r)
    BY <1>1, <1>2, <2>1, <2>2, <2>6, UnrecoveredOwned
  <2> QED BY <1>9, <2>4, <2>5, <2>6
<1> QED BY <1>3, <1>5, <1>8, <1>9

LEMMA NewCursorOwned ==
    ASSUME TypeOK, Portals, NEW c \in Cursors, NEW n \in {c} \cup UserNames,
           NEW isRefCursor \in BOOLEAN, NewCursor(c, n, isRefCursor)
    PROVE  Portals'
<1> DEFINE t == InTransactionAfterEntry
           k == [closed |-> "0", name |-> n, res |-> "rows"]
           fresh == [closed |-> "None", name |-> n, res |-> "None"]
<1>1. /\ inTransaction => t
      /\ srv \in Session /\ cursors \in [Cursors -> Cursor] /\ Named(cursors)
      /\ n \in Names /\ k \in Cursor /\ fresh \in Cursor
      /\ cursors[c].closed = "unborn"
  BY PgSQLAssumption DEF TypeOK, InTransactionAfterEntry, Portals, Cursor, NewCursor
<1>2. PICK e \in Entered(srv) :
          \/ e.exc # "none" /\ srv' = e.srv /\ UNCHANGED <<connection, cursors>>
          \/ /\ srv' = e.srv /\ inTransaction' = t
             /\ cursors' = [cursors EXCEPT ![c] = fresh]
          \/ /\ inTransaction' = t
             /\ \E f \in UsePortal(e.srv, n) :
                       /\ srv' = IF f.exc = "none" THEN f.srv ELSE ResetSession(f.srv, k, t)
                       /\ cursors' = IF f.exc = "none" THEN [cursors EXCEPT ![c] = k] ELSE cursors
  BY DEF NewCursor
<1>3. e.srv \in Session /\ Within(srv, e.srv)
  BY <1>1, EnteredType, EnteredBare DEF Outcomes, Portals, Owned
<1>4. CASE srv' = e.srv /\ UNCHANGED <<connection, cursors>>
  BY <1>3, <1>4, WithinOwned DEF Portals, connection
<1>5. /\ Owned(e.srv, cursors, t)
      /\ \A q \in Cursor : \A u : Owned(u, cursors, t) => Owned(u, [cursors EXCEPT ![c] = q], t)
  <2>1. Owned(e.srv, cursors, t)
    BY <1>1, <1>3, WithinOwned DEF Portals
  <2>2. ASSUME NEW q \in Cursor, NEW u, Owned(u, cursors, t)
        PROVE  Owned(u, [cursors EXCEPT ![c] = q], t)
    BY <1>1, <2>2 DEF Owned
  <2> QED BY <2>1, <2>2
<1> HIDE DEF t, k, fresh
<1>6. k.name = n /\ fresh.name = n
  BY DEF k, fresh
<1>7. CASE srv' = e.srv /\ inTransaction' = t /\ cursors' = [cursors EXCEPT ![c] = fresh]
  BY <1>1, <1>5, <1>6, <1>7, NamedCursor DEF Portals
<1>8. ASSUME inTransaction' = t, NEW f \in UsePortal(e.srv, n),
             srv' = IF f.exc = "none" THEN f.srv ELSE ResetSession(f.srv, k, t),
             cursors' = IF f.exc = "none" THEN [cursors EXCEPT ![c] = k] ELSE cursors
      PROVE  Portals'
  <2>1. f.srv \in Session /\ Within(e.srv, f.srv)
    BY <1>1, <1>3, UsePortalType, UsePortalBare DEF Within, Replies
  <2>2. Owned(f.srv, cursors, t)
    BY <1>5, <2>1, WithinOwned
  <2>3. CASE f.exc = "none"
    BY <1>1, <1>5, <1>6, <1>8, <2>2, <2>3, NamedCursor DEF Portals
  <2>4. CASE f.exc # "none"
    <3>1. ResetSession(f.srv, k, t) \in {f.srv, ClosedPortal(f.srv, k.name)}
      BY DEF ResetSession
    <3>2. Within(f.srv, ResetSession(f.srv, k, t))
      BY <2>1, <3>1, ClosedPortalBare DEF Within
    <3>3. Owned(srv', cursors', inTransaction')
      BY <1>8, <2>2, <2>4, <3>2, WithinOwned
    <3> QED BY <1>1, <1>8, <2>4, <3>3 DEF Portals
  <2> QED BY <2>3, <2>4
<1> QED BY <1>2, <1>4, <1>7, <1>8

LEMMA ResetCursorsNamed ==
    ASSUME Named(cursors), cursors \in [Cursors -> Cursor]
    PROVE  Named(ResetCursors)
<1>1. \A d \in Cursors : Reset(cursors[d]).name = cursors[d].name
  BY DEF Reset, Cursor
<1> QED BY <1>1 DEF ResetCursors, Named

LEMMA EndTransactionOwned ==
    ASSUME Named(cursors), cursors \in [Cursors -> Cursor], NEW s \in Session, NEW t \in BOOLEAN,
           NEW call, Owned(s, cursors, t),
           \/ EndTransaction(s, t, Commit(CloseCursorsSession(s, t)), call)
           \/ EndTransaction(s, t, Rollback(CloseCursorsSession(s, t)), call)
    PROVE  Portals'
<1>1. Named(cursors')
  BY ResetCursorsNamed DEF EndTransaction
<1>2. CASE t
  <2> DEFINE u == CloseCursorsSession(s, t)
             names == {cursors[c].name : c \in {d \in Cursors : cursors[d].closed = "0"}}
  <2>1. u \in Session
    BY CloseCursorsSessionType
  <2>2. Bare(u)
    <3>1. u = [s EXCEPT !.portals = @ \ names] \/ u = AbortedBy(s)
      BY <1>2 DEF CloseCursorsSession
    <3>2. Bare([s EXCEPT !.portals = @ \ names])
      BY DEF Owned, Bare, Session
    <3>3. Bare(AbortedBy(s))
      BY AbortedByBare DEF Owned, Within
    <3> QED BY <3>1, <3>2, <3>3
  <2> HIDE DEF u
  <2>3. PICK r \in Commit(u) \cup Rollback(u) : srv' = r.srv
    BY <1>2 DEF EndTransaction, u
  <2> QED BY <1>1, <2>1, <2>2, <2>3, EndBare, NoPortals DEF Portals
<1>3. CASE ~t
  BY <1>1, <1>3 DEF EndTransaction, Owned, Portals
<1> QED BY <1>2, <1>3

LEMMA ExecuteEndOwned ==
    ASSUME TypeOK, Portals, NEW c \in Cursors, NEW kind \in Kinds, ExecuteEnd(c, kind)
    PROVE  Portals'
<1>1. PICK e \in Entered(srv) :
          \/ srv' = e.srv /\ UNCHANGED <<connection, cursors>>
          \/ EndTransaction(e.srv, TRUE, Commit(CloseCursorsSession(e.srv, TRUE)), "commit")
          \/ EndTransaction(e.srv, TRUE, Rollback(CloseCursorsSession(e.srv, TRUE)), "rollback")
  BY DEF ExecuteEnd
<1>2. /\ srv \in Session /\ cursors \in [Cursors -> Cursor]
      /\ e.srv \in Session /\ Within(srv, e.srv)
  BY EnteredType, EnteredBare DEF TypeOK, Outcomes, Portals, Owned
<1>3. CASE srv' = e.srv /\ UNCHANGED <<connection, cursors>>
  BY <1>2, <1>3, WithinOwned DEF Portals, connection
<1>4. Owned(e.srv, cursors, TRUE) /\ Named(cursors)
  BY <1>2, WithinOwned DEF Portals
<1> QED BY <1>1, <1>2, <1>3, <1>4, EndTransactionOwned

LEMMA ExecuteBeginOwned ==
    ASSUME TypeOK, Portals, NEW c \in Cursors, NEW kind \in Kinds, ExecuteBegin(c, kind)
    PROVE  Portals'
<1>1. PICK e \in SetupTransaction(srv, kind = "begin") : srv' = e.srv
  BY DEF ExecuteBegin
<1>2. (kind = "begin") \in BOOLEAN /\ srv \in Session /\ ~inTransaction /\ UNCHANGED cursors
  BY DEF ExecuteBegin, TypeOK
<1>3. Within(srv, srv')
  BY <1>1, <1>2, SetupBare DEF Portals, Owned
<1> QED BY <1>2, <1>3, WithinOwned DEF Portals

LEMMA PortalStepOwned ==
    ASSUME TypeOK, Portals, NEW c \in Cursors,
           Fetch(c) \/ Rewind(c) \/ CloseCursor(c) \/ DropCursor(c)
    PROVE  Portals'
<1>1. /\ srv \in Session /\ cursors \in [Cursors -> Cursor] /\ cursors[c] \in Cursor
      /\ Named(cursors) /\ cursors[c].name \in {c} \cup UserNames
      /\ Bare(srv)
  BY DEF TypeOK, Portals, Owned, Named
<1>2. inTransaction' = inTransaction
  BY DEF Fetch, Rewind, PortalCommand, CloseCursor, DropCursor, connection
<1>3. CASE Fetch(c) \/ Rewind(c)
  <2>1. PICK f \in UsePortal(srv, cursors[c].name) :
           /\ srv' = f.srv
           /\ \/ UNCHANGED cursors
              \/ \E result \in {"rows", "other"} : cursors' = [cursors EXCEPT ![c].res = result]
    BY <1>3 DEF Fetch, Rewind, PortalCommand
  <2>2. Owned(srv', cursors, inTransaction')
    BY <1>1, <1>2, <2>1, UsePortalBare, WithinOwned DEF Portals
  <2>3. ASSUME NEW result \in {"rows", "other"}, cursors' = [cursors EXCEPT ![c].res = result]
        PROVE  Portals'
    <3> DEFINE k == [cursors[c] EXCEPT !.res = result]
    <3>1. cursors' = [cursors EXCEPT ![c] = k]
      BY <1>1, <2>3
    <3>2. k \in Cursor /\ k.name = cursors[c].name /\ k.closed = cursors[c].closed
      BY <1>1 DEF Cursor
    <3>3. [cursors EXCEPT ![c] = cursors[c]] = cursors
      BY <1>1
    <3> HIDE DEF k
    <3>4. Owned(srv', cursors', inTransaction')
      BY <1>1, <2>2, <3>1, <3>2, <3>3, SameCursor
    <3> QED BY <1>1, <3>1, <3>2, <3>4, NamedCursor DEF Portals
  <2> QED BY <1>1, <2>1, <2>2, <2>3 DEF Portals
<1>4. CASE CloseCursor(c)
  <2> DEFINE k == [Reset(cursors[c]) EXCEPT !.closed = "1"]
  <2>1. /\ srv' = ResetSession(srv, cursors[c], inTransaction)
        /\ cursors' = [cursors EXCEPT ![c] = k]
    BY <1>4 DEF CloseCursor
  <2>2. k \in Cursor /\ k.closed = "1" /\ k.name = cursors[c].name
    BY <1>1 DEF Reset, Cursor
  <2> HIDE DEF k
  <2> QED BY <1>1, <1>2, <2>1, <2>2, ResetOwned, NamedCursor DEF Portals
<1>5. CASE DropCursor(c)
  <2>1. Unborn(c) \in Cursor /\ Unborn(c).closed = "unborn" /\ Unborn(c).name = c
    BY PgSQLAssumption DEF Unborn, Cursor
  <2>2. cursors' = [cursors EXCEPT ![c] = Unborn(c)]
    BY <1>5 DEF DropCursor
  <2>3. srv' = ResetSession(srv, cursors[c], inTransaction)
    BY <1>5 DEF DropCursor, Live, ResetSession
  <2> QED BY <1>1, <1>2, <2>1, <2>2, <2>3, ResetOwned, NamedCursor DEF Portals
<1> QED BY <1>3, <1>4, <1>5

LEMMA SetAttributeOwned ==
    ASSUME TypeOK, Portals,
           \/ \E value \in BOOLEAN : SetAutocommit(value)
           \/ \E value \in Levels \cup {"bogus"} : SetTransactionLevel(value)
    PROVE  Portals'
<1>1. PICK r \in RolledBackFirst : srv' = r.srv /\ inTransaction' = FALSE /\ UNCHANGED cursors
  BY DEF SetAutocommit, SetTransactionLevel
<1>2. CASE inTransaction
  <2>1. srv'.portals = {}
    BY <1>1, <1>2, EndBare DEF RolledBackFirst, Portals, Owned, TypeOK
  <2> QED BY <1>1, <2>1, NoPortals DEF Portals
<1>3. CASE ~inTransaction
  <2>1. srv' = srv
    BY <1>1, <1>3 DEF RolledBackFirst, Done, Reply
  <2> QED BY <1>1, <1>3, <2>1 DEF Portals, Owned
<1> QED BY <1>2, <1>3

LEMMA LargeObjectOwned ==
    ASSUME TypeOK, Portals, NEW w \in Unused(srv),
           Unlink(w) \/ \E withString \in BOOLEAN : Binary(withString, w)
    PROVE  Portals'
<1>1. srv \in Session /\ w \in Writes /\ Bare(srv) /\ UNCHANGED cursors
  BY DEF TypeOK, Unused, Portals, Owned, Unlink, Binary
<1>2. CASE Unlink(w)
  <2>1. PICK r \in LargeObjectCall(srv, Changed(srv, w), "IOError") : srv' = r.srv
    BY <1>2 DEF Unlink
  <2>2. Within(srv, srv')
    BY <1>1, <2>1, ChangedPortals, LargeObjectBare
  <2> QED BY <1>1, <1>2, <2>2, WithinOwned DEF Portals, Unlink, connection
<1>3. ASSUME NEW withString \in BOOLEAN, Binary(withString, w)
      PROVE  Portals'
  <2>1. PICK e \in Entered(srv) :
          /\ inTransaction' = (inTransaction \/ e.exc = "none")
          /\ \/ e.exc # "none" /\ srv' = e.srv
             \/ /\ e.exc = "none"
                /\ \E r \in LargeObjectCall(e.srv, Changed(e.srv, w), "OperationalError") :
                      \/ srv' = r.srv
                      \/ \E q \in LargeObjectCall(r.srv, r.srv, "IOError") :
                            srv' = q.srv \/ \E b \in Rollback(q.srv) : srv' = b.srv
    BY <1>3 DEF Binary
  <2>2. e.srv \in Session /\ Within(srv, e.srv)
    BY <1>1, EnteredType, EnteredBare DEF Outcomes
  <2>3. ASSUME NEW r \in LargeObjectCall(e.srv, Changed(e.srv, w), "OperationalError")
        PROVE  r.srv \in Session /\ Within(e.srv, r.srv)
    <3>1. /\ Changed(e.srv, w) \in Session /\ Changed(e.srv, w).tx = e.srv.tx
          /\ Changed(e.srv, w).portals = e.srv.portals
      BY <1>1, <2>2, ChangedPortals
    <3>2. r \in Replies
      BY <2>2, <3>1, LargeObjectCallType DEF Exceptions
    <3> QED BY <2>2, <3>1, <3>2, LargeObjectBare DEF Within, Replies
  <2>4. ASSUME NEW s \in Session, Bare(s), NEW q \in LargeObjectCall(s, s, "IOError")
        PROVE  /\ q.srv \in Session /\ Within(s, q.srv)
               /\ \A b \in Rollback(q.srv) : b.srv.portals = {}
    <3>1. q \in Replies /\ Within(s, q.srv)
      BY <2>4, LargeObjectCallType, LargeObjectBare DEF Exceptions
    <3>2. q.srv \in Session /\ Bare(q.srv)
      BY <3>1 DEF Replies, Within
    <3> QED BY <3>1, <3>2, EndBare
  <2>5. Within(srv, srv') \/ srv'.portals = {}
    <3>1. CASE srv' = e.srv
      BY <2>2, <3>1
    <3>2. ASSUME NEW r \in LargeObjectCall(e.srv, Changed(e.srv, w), "OperationalError"),
                 \/ srv' = r.srv
                 \/ \E q \in LargeObjectCall(r.srv, r.srv, "IOError") :
                       srv' = q.srv \/ \E b \in Rollback(q.srv) : srv' = b.srv
          PROVE  Within(srv, srv') \/ srv'.portals = {}
      <4>1. r.srv \in Session /\ Within(srv, r.srv)
        BY <2>2, <2>3 DEF Within
      <4>2. CASE srv' = r.srv
        BY <4>1, <4>2
      <4>3. ASSUME NEW q \in LargeObjectCall(r.srv, r.srv, "IOError"),
                   srv' = q.srv \/ \E b \in Rollback(q.srv) : srv' = b.srv
            PROVE  Within(srv, srv') \/ srv'.portals = {}
        <5>1. Within(r.srv, q.srv) /\ \A b \in Rollback(q.srv) : b.srv.portals = {}
          BY <2>4, <4>1 DEF Within
        <5> QED BY <4>1, <4>3, <5>1 DEF Within
      <4> QED BY <3>2, <4>2, <4>3
    <3> QED BY <2>1, <3>1, <3>2
  <2> QED BY <1>1, <2>1, <2>5, WithinOwned, NoPortals DEF Portals
<1> QED BY <1>2, <1>3

LEMMA PortalsStep ==
    ASSUME TypeOK, "internal" \notin Faults, Portals, [Next]_vars
    PROVE  Portals'
<1>1. CASE UNCHANGED vars
  BY <1>1 DEF vars, Portals
<1>2. ASSUME NEW c \in Cursors,
             \E n \in {c} \cup UserNames, isRefCursor \in BOOLEAN : NewCursor(c, n, isRefCursor)
      PROVE  Portals'
  BY <1>2, NewCursorOwned
<1>3. ASSUME NEW c \in Cursors, NEW kind \in Kinds,
             \/ Execute(c, kind) \/ ExecuteParams(c, kind)
             \/ ExecuteBegin(c, kind) \/ ExecuteEnd(c, kind)
      PROVE  Portals'
  BY <1>3, ExecuteOwned, ExecuteBeginOwned, ExecuteEndOwned
<1>4. ASSUME NEW c \in Cursors,
             Callproc(c) \/ Fetch(c) \/ Rewind(c) \/ CloseCursor(c) \/ DropCursor(c)
      PROVE  Portals'
  BY <1>4, CallprocOwned, PortalStepOwned
<1>5. CASE ConnectionCommit \/ ConnectionRollback
  BY <1>5, EndTransactionOwned DEF ConnectionCommit, ConnectionRollback, TypeOK, Portals
<1>6. CASE CloseConnection \/ BackendDies
  <2>1. srv'.portals = {}
    <3>1. srv' = GoneWith(srv.durable)
      BY <1>6 DEF CloseConnection, BackendDies
    <3>2. GoneWith(srv.durable).portals = {}
      BY DEF GoneWith
    <3> QED BY <3>1, <3>2
  <2>2. Named(cursors')
    <3>1. CASE UNCHANGED cursors
      BY <3>1 DEF Portals
    <3>2. CASE CloseConnection
      <4>1. \A d \in Cursors : [Reset(cursors[d]) EXCEPT !.closed = "1"].name = cursors[d].name
        BY DEF TypeOK, Reset, Cursor
      <4> QED BY <3>2, <4>1 DEF CloseConnection, Named, Portals
    <3> QED BY <1>6, <3>1, <3>2 DEF BackendDies
  <2> QED BY <2>1, <2>2, NoPortals DEF Portals
<1>7. CASE \/ \E value \in BOOLEAN : SetAutocommit(value)
           \/ \E value \in Levels \cup {"bogus"} : SetTransactionLevel(value)
  BY <1>7, SetAttributeOwned
<1>8. ASSUME NEW w \in Unused(srv),
             Unlink(w) \/ \E withString \in BOOLEAN : Binary(withString, w)
      PROVE  Portals'
  BY <1>8, LargeObjectOwned
<1> QED BY <1>1, <1>2, <1>3, <1>4, <1>5, <1>6, <1>7, <1>8 DEF Next

LEMMA PortalsInvariant ==
    ASSUME "internal" \notin Faults
    PROVE  Spec => []Portals
<1>1. Init => Portals
  <2>1. FreshSession.portals = {}
    BY DEF FreshSession
  <2>2. \A c \in Cursors : Unborn(c).name = c
    BY DEF Unborn
  <2> QED BY <2>1, <2>2, NoPortals DEF Init, Portals, Named
<1>2. TypeOK /\ Portals /\ [Next]_vars => Portals'
  BY PortalsStep
<1> QED BY <1>1, <1>2, TypeCorrect, PTL DEF Spec

\* No portal under a generated name outlives its Cursor object or the transaction:
\* each belongs to a cursor with closed = 0, which sends CLOSE when it is reset, closed
\* or collected.  It needs that no reply is one libpq cannot read: the handler of
\* InternalError clears inTransaction, and then no CLOSE is sent.
THEOREM EveryPortalIsOwned ==
    ASSUME "internal" \notin Faults
    PROVE  Spec => []PortalsOwned
<1>1. Portals => PortalsOwned
  BY DEF Portals, Owned, PortalsOwned
<1> QED BY <1>1, PortalsInvariant, PTL

-----------------------------------------------------------------------------
(* The converse: a cursor that has a portal to close has it. *)

\* With inTransaction = t, the cursors of hs that will send a CLOSE to the session
\* s have a portal there, as long as its transaction lives.
Held(s, hs, t) ==
    \A c \in Cursors : hs[c].closed = "0" => t /\ (s.tx = "trans" => c \in s.portals)

Holding == Held(srv, cursors, inTransaction)

\* u has the portals that s has, unless its transaction is over.
Steady(s, u) == u.tx = "trans" => s.tx = "trans" /\ s.portals \subseteq u.portals

LEMMA HeldSteady ==
    ASSUME NEW s, NEW u, NEW hs, NEW t, NEW t2, Held(s, hs, t), Steady(s, u), t => t2
    PROVE  Held(u, hs, t2)
BY DEF Held, Steady

LEMMA NoneHeld ==
    ASSUME NEW s, NEW u, NEW hs, NEW t, NEW t2, Held(s, hs, t), ~t
    PROVE  Held(u, hs, t2)
BY DEF Held

LEMMA OverHeld ==
    ASSUME NEW s, NEW u, NEW hs, NEW t, NEW t2, Held(s, hs, t), t => t2, u.tx # "trans"
    PROVE  Held(u, hs, t2)
BY DEF Held

\* The cursor c may change in everything but closed.
LEMMA SameHeld ==
    ASSUME NEW s, NEW t, NEW c \in Cursors, NEW k \in Cursor, NEW k2 \in Cursor,
           cursors \in [Cursors -> Cursor],
           Held(s, [cursors EXCEPT ![c] = k], t), k2.closed = "0" => k.closed = "0"
    PROVE  Held(s, [cursors EXCEPT ![c] = k2], t)
<1>1. \A d \in Cursors : /\ [cursors EXCEPT ![c] = k][d] = IF d = c THEN k ELSE cursors[d]
                         /\ [cursors EXCEPT ![c] = k2][d] = IF d = c THEN k2 ELSE cursors[d]
  OBVIOUS
<1> QED BY <1>1 DEF Held

LEMMA AbortedBySteady ==
    ASSUME NEW s \in Session
    PROVE  Steady(s, AbortedBy(s)) /\ AbortedBy(s).tx # "trans"
BY AbortedByStays DEF Steady

LEMMA StatementSteady ==
    ASSUME NEW s \in Session, NEW t \in Session, t.tx = s.tx, s.portals \subseteq t.portals,
           NEW a \in BOOLEAN, NEW r \in Statement(s, a, t)
    PROVE  Steady(s, r.srv)
BY StatementReplies, AbortedBySteady DEF Steady

LEMMA StatementAccepts ==
    ASSUME NEW s, NEW t, NEW a \in BOOLEAN, NEW r \in Statement(s, a, t), r.exc = "none"
    PROVE  r.srv = t
<1> DEFINE R == IF Runs(s) /\ a
                THEN {Done(t)}
                     \cup When("operational" \in Faults, {Refused(s)})
                     \cup When("internal" \in Faults, {Reply(u, "InternalError", FALSE) : u \in {s, t}})
                ELSE {Refused(s)}
<1>1. ASSUME NEW q \in R
      PROVE  /\ q = [srv |-> q.srv, exc |-> q.exc, notice |-> q.notice]
             /\ q.exc = "none" => q.srv = t
  BY DEF Done, Refused, Reply, When
<1>2. r \in R \/ (\E q \in R : r = [q EXCEPT !.notice = TRUE])
  BY DEF Statement, WithNotices, When
<1> HIDE DEF R
<1> QED BY <1>1, <1>2

LEMMA WriteSteady ==
    ASSUME NEW s \in Session, NEW w \in Writes, NEW r \in Write(s, w)
    PROVE  Steady(s, r.srv)
<1>1. CASE r \in Statement(s, TRUE, Changed(s, w))
  BY <1>1, ChangedPortals, StatementSteady
<1>2. CASE r = Reply(AbortedBy(s), "IntegrityError", FALSE)
  <2>1. r.srv = AbortedBy(s)
    BY <1>2 DEF Reply
  <2> QED BY <2>1, AbortedBySteady
<1> QED BY <1>1, <1>2 DEF Write, When

LEMMA UsePortalSteady ==
    ASSUME NEW s \in Session, NEW n, NEW r \in UsePortal(s, n)
    PROVE  Steady(s, r.srv)
<1>1. (n \in s.portals) \in BOOLEAN
  OBVIOUS
<1> QED BY <1>1, StatementSteady DEF UsePortal

LEMMA LargeObjectSteady ==
    ASSUME NEW s \in Session, NEW t \in Session, t.tx = s.tx, t.portals = s.portals,
           NEW e, NEW r \in LargeObjectCall(s, t, e)
    PROVE  Steady(s, r.srv)
<1>1. PICK q \in Statement(s, TRUE, t) : r = [q EXCEPT !.exc = IF @ = "none" THEN @ ELSE e]
  BY DEF LargeObjectCall
<1>2. q \in Replies
  BY StatementType
<1>3. r.srv = q.srv
  BY <1>1, <1>2 DEF Replies
<1> QED BY <1>3, StatementSteady

\* BEGIN changes nothing in a transaction that was there before.
LEMMA BeginSteady ==
    ASSUME NEW s \in Session, s.tx # "idle", NEW b \in Begin(s)
    PROVE  Steady(s, b.srv)
<1> DEFINE R == IF Runs(s) THEN {Reply([s EXCEPT !.tx = "trans"], "none", s.tx = "trans")}
                           ELSE {Refused(s)}
<1>1. ASSUME NEW q \in R
      PROVE  /\ q = [srv |-> q.srv, exc |-> q.exc, notice |-> q.notice]
             /\ \/ q.srv = [s EXCEPT !.tx = "trans"] /\ Runs(s)
                \/ q.srv = AbortedBy(s)
  BY DEF Reply, Refused
<1>2. b \in R \/ (\E q \in R : b = [q EXCEPT !.notice = TRUE])
  BY DEF Begin, WithNotices, When
<1> HIDE DEF R
<1>3. \/ b.srv = [s EXCEPT !.tx = "trans"] /\ Runs(s)
      \/ b.srv = AbortedBy(s)
  BY <1>1, <1>2
<1>4. Runs(s) => Steady(s, [s EXCEPT !.tx = "trans"])
  BY DEF Steady, Runs, Session
<1> QED BY <1>3, <1>4, AbortedBySteady

\* In a transaction nothing is sent on entry; without one no portal is held.
LEMMA EnteredHeld ==
    ASSUME NEW s \in Session, NEW hs, Held(s, hs, inTransaction), NEW e \in Entered(s), NEW t2,
           inTransaction => t2
    PROVE  Held(e.srv, hs, t2)
<1>1. CASE inTransaction
  <2>1. e = Done(s) /\ Done(s).srv = s
    BY <1>1 DEF Entered, Done, Reply
  <2> QED BY <2>1, HeldSteady DEF Steady
<1>2. CASE ~inTransaction
  BY <1>2, NoneHeld
<1> QED BY <1>1, <1>2

\* A statement that execute() sends, on a cursor that will have its portal.
LEMMA SentHeld ==
    ASSUME NEW s \in Session, NEW kind \in Kinds, NEW portal \in BOOLEAN, portal => kind = "select",
           NEW c \in Cursors, NEW k \in Cursor, NEW k0 \in Cursor, k.name = c,
           cursors \in [Cursors -> Cursor], "internal" \notin Faults,
           NEW t, portal => t, Tracks(t, s),
           k0.closed = "0" => portal \/ k.closed = "0",
           kind \in {"commit", "rollback"} => ~t,
           Held(s, [cursors EXCEPT ![c] = k], t),
           NEW r \in Sent(s, kind, portal, k.name)
    PROVE  Held(r.srv, [cursors EXCEPT ![c] = k0], t)
<1> DEFINE hs == [cursors EXCEPT ![c] = k]
<1>1. CASE portal
  <2> DEFINE a == s.tx = "trans" /\ c \notin s.portals
             u == [s EXCEPT !.portals = @ \cup {c}]
  <2>1. /\ u \in Session /\ u.tx = s.tx /\ u.portals = s.portals \cup {c}
        /\ a \in BOOLEAN /\ r \in Statement(s, a, u)
    BY <1>1, PgSQLAssumption DEF Sent, Declare, Session
  <2> HIDE DEF a, u
  <2>2. Steady(s, r.srv)
    BY <2>1, StatementSteady
  <2>3. r.srv.tx = "trans" => c \in r.srv.portals
    <3>1. CASE r.exc = "none"
      BY <2>1, <3>1, StatementAccepts
    <3>2. CASE r.exc = "OperationalError"
      BY <2>1, <3>2, StatementReplies, AbortedBySteady
    <3> QED BY <2>1, <3>1, <3>2, StatementReplies
  <2>4. \A d \in Cursors : /\ hs[d] = IF d = c THEN k ELSE cursors[d]
                           /\ [cursors EXCEPT ![c] = k0][d] = IF d = c THEN k0 ELSE cursors[d]
    OBVIOUS
  <2>5. Held(s, hs, t)
    OBVIOUS
  <2> HIDE DEF hs
  <2> QED BY <1>1, <2>2, <2>3, <2>4, <2>5 DEF Held, Steady
<1>2. CASE ~portal
  <2>1. ASSUME Held(r.srv, hs, t)
        PROVE  Held(r.srv, [cursors EXCEPT ![c] = k0], t)
    BY <1>2, <2>1, SameHeld
  <2>2. CASE kind \in {"select", "direct"}
    <3>1. r \in Statement(s, TRUE, s)
      BY <1>2, <2>2 DEF Sent, Query
    <3>2. Steady(s, r.srv)
      BY <3>1, StatementSteady
    <3> QED BY <2>1, <3>2, HeldSteady
  <2>3. CASE kind = "write"
    <3>1. PICK w \in Unused(s) : r \in Write(s, w)
      BY <1>2, <2>3 DEF Sent
    <3>2. Steady(s, r.srv)
      BY <3>1, WriteSteady DEF Unused
    <3> QED BY <2>1, <3>2, HeldSteady
  <2>4. CASE kind \in {"begin", "begin_level"}
    <3>1. r \in Begin(s)
      BY <1>2, <2>4 DEF Sent
    <3>2. CASE t
      <4>1. Steady(s, r.srv)
        BY <3>1, <3>2, BeginSteady DEF Tracks
      <4> QED BY <2>1, <4>1, HeldSteady
    <3>3. CASE ~t
      BY <2>1, <3>3, NoneHeld
    <3> QED BY <3>2, <3>3
  <2>5. CASE kind \in {"commit", "rollback"}
    BY <2>1, <2>5, NoneHeld
  <2> QED BY <2>2, <2>3, <2>4, <2>5 DEF Kinds
<1> QED BY <1>1, <1>2

LEMMA ProcedureHeld ==
    ASSUME NEW s \in Session, UserNames = {}, NEW r \in ProcedureReplies(s)
    PROVE  Steady(s, r.srv)
<1>1. CASE r \in Query(s)
  BY <1>1, StatementSteady DEF Query
<1>2. ASSUME NEW w \in Unused(s), r \in Write(s, w)
      PROVE  Steady(s, r.srv)
  BY <1>2, WriteSteady DEF Unused
<1> QED BY <1>1, <1>2 DEF ProcedureReplies

LEMMA AcceptedHeld ==
    ASSUME cursors \in [Cursors -> Cursor], NEW c \in Cursors, NEW k \in Cursor, NEW t, NEW call,
           NEW r, NEW portal \in BOOLEAN, r.srv \in Session,
           Held(r.srv, [cursors EXCEPT ![c] = k], t), Accepted(c, k, t, call, r, portal)
    PROVE  Holding'
<1>1. inTransaction' = t
  BY DEF Accepted
<1>2. CASE portal
  <2>1. PICK f \in UsePortal(r.srv, k.name) :
               /\ srv' = f.srv
               /\ cursors' = [cursors EXCEPT ![c] =
                                [k EXCEPT !.res = IF f.exc = "none" THEN "rows" ELSE "other"]]
    BY <1>2 DEF Accepted
  <2> DEFINE k2 == [k EXCEPT !.res = IF f.exc = "none" THEN "rows" ELSE "other"]
  <2>2. k2 \in Cursor /\ k2.closed = k.closed
    BY DEF Cursor
  <2>3. Held(srv', [cursors EXCEPT ![c] = k], t)
    BY <2>1, UsePortalSteady, HeldSteady
  <2>4. cursors' = [cursors EXCEPT ![c] = k2]
    BY <2>1
  <2> HIDE DEF k2
  <2>5. Held(srv', cursors', t)
    BY <2>2, <2>3, <2>4, SameHeld
  <2> QED BY <1>1, <2>5 DEF Holding
<1>3. CASE ~portal
  BY <1>1, <1>3 DEF Accepted, Holding
<1> QED BY <1>2, <1>3

\* A recovery that succeeds resets every cursor; one that fails has lost the session.
LEMMA RecoveredHeld ==
    ASSUME cursors \in [Cursors -> Cursor], NEW c \in Cursors, NEW k \in Cursor, NEW t, NEW call,
           NEW r, r.srv \in Session, Live(c),
           Held(r.srv, [cursors EXCEPT ![c] = k], t),
           \/ Recovered(c, k, t, call, r, Commit(r.srv))
           \/ Recovered(c, k, t, call, r, Rollback(r.srv))
    PROVE  Holding'
<1>1. CASE ~t
  BY <1>1 DEF Recovered, Holding
<1>2. CASE t
  <2>1. PICK e \in Commit(r.srv) \cup Rollback(r.srv), failed \in BOOLEAN :
               /\ srv' = e.srv
               /\ inTransaction' = failed
               /\ failed => cursors' = [cursors EXCEPT ![c] = k]
               /\ ~failed => cursors' = [d \in Cursors |->
                                IF Live(d) THEN Reset(IF d = c THEN k ELSE cursors[d]) ELSE cursors[d]]
    BY <1>2 DEF Recovered
  <2>2. CASE failed
    <3>1. srv'.tx # "trans"
      BY <2>1, EndReplies
    <3>2. Held(srv', [cursors EXCEPT ![c] = k], TRUE)
      BY <3>1, OverHeld
    <3>3. inTransaction' = TRUE /\ cursors' = [cursors EXCEPT ![c] = k]
      BY <2>1, <2>2
    <3> QED BY <3>2, <3>3 DEF Holding
  <2>3. CASE ~failed
    <3>1. Reset(k).closed # "0" /\ \A d \in Cursors : Reset(cursors[d]).closed # "0"
      BY DEF Reset, Cursor
    <3>2. \A d \in Cursors : cursors'[d].closed # "0"
      BY <2>1, <2>3, <3>1 DEF Live
    <3> QED BY <3>2 DEF Holding, Held
  <2> QED BY <2>2, <2>3
<1> QED BY <1>1, <1>2

LEMMA UnrecoveredHeld ==
    ASSUME NEW c, NEW k, NEW t \in BOOLEAN, NEW call, NEW r, r.exc # "InternalError",
           Held(r.srv, [cursors EXCEPT ![c] = k], t), Unrecovered(c, k, t, call, r)
    PROVE  Holding'
<1>1. inTransaction' = t /\ srv' = r.srv /\ cursors' = [cursors EXCEPT ![c] = k]
  BY DEF Unrecovered
<1> QED BY <1>1 DEF Holding

\* __reset closes the portal of one cursor and keeps the others'.
LEMMA ResetHeld ==
    ASSUME TypeOK, Holding, Named(cursors), UserNames = {}, NEW c \in Cursors, NEW k \in Cursor,
           k.closed # "0"
    PROVE  Held(ResetSession(srv, cursors[c], inTransaction), [cursors EXCEPT ![c] = k],
                inTransaction)
<1> DEFINE u == ResetSession(srv, cursors[c], inTransaction)
           hs == [cursors EXCEPT ![c] = k]
<1>1. srv \in Session /\ cursors \in [Cursors -> Cursor] /\ cursors[c].name = c
  BY DEF TypeOK, Named
<1>2. \A d \in Cursors : hs[d] = IF d = c THEN k ELSE cursors[d]
  BY <1>1
<1>3. u.tx = "trans" => srv.tx = "trans" /\ srv.portals \ {c} \subseteq u.portals
  <2>1. [srv EXCEPT !.portals = @ \ {c}].tx = srv.tx /\ [srv EXCEPT !.portals = @ \ {c}].portals = srv.portals \ {c}
    BY <1>1 DEF Session
  <2>2. u \in {srv, [srv EXCEPT !.portals = @ \ {c}], AbortedBy(srv)}
    BY <1>1 DEF ResetSession, ClosedPortal
  <2> HIDE DEF u
  <2> QED BY <1>1, <2>1, <2>2, AbortedBySteady DEF Steady
<1> HIDE DEF u, hs
<1>4. Held(u, hs, inTransaction)
  BY <1>2, <1>3 DEF Held, Holding
<1> QED BY <1>4 DEF u, hs

-----------------------------------------------------------------------------
(* The calls, again. *)

LEMMA RunStatementHeld ==
    ASSUME TypeOK, {"internal", "binding"} \cap Faults = {},
           NEW c \in Cursors, NEW s \in Session, NEW k \in Cursor, NEW kind \in Kinds,
           k.name = c, Live(c), Tracks(inTransaction, s),
           kind \in {"commit", "rollback"} => ~InTransactionAfterEntry,
           Held(s, [cursors EXCEPT ![c] = k], inTransaction),
           RunStatement(c, s, k, kind)
    PROVE  Holding'
<1> DEFINE portal == kind = "select" /\ ~autocommit
           t == InTransactionAfterEntry
           k0 == IF portal THEN [k EXCEPT !.closed = "0"] ELSE k
           k1 == [k0 EXCEPT !.res = IF kind \in {"select", "direct"} THEN "rows" ELSE "other"]
<1>1. /\ t \in BOOLEAN /\ portal \in BOOLEAN
      /\ portal => t
      /\ portal => kind = "select"
      /\ inTransaction => t
      /\ cursors \in [Cursors -> Cursor]
  BY DEF TypeOK, InTransactionAfterEntry
<1>2. /\ k0 \in Cursor
      /\ k0.closed = "0" => portal \/ k.closed = "0"
      /\ k1 \in Cursor /\ k1.closed = k0.closed
  BY DEF Cursor
<1>3. PICK e \in Entered(s) :
           \/ /\ e.exc # "none"
              /\ srv' = e.srv
              /\ cursors' = [cursors EXCEPT ![c] = k]
              /\ UNCHANGED inTransaction
           \/ /\ e.exc = "none"
              /\ \/ Unbound(c, e.srv, k0, t, "execute")
                 \/ \E r \in Sent(e.srv, kind, portal, k.name) :
                       \/ Accepted(c, k1, t, "execute", r, portal)
                       \/ Recovered(c, k0, t, "execute", r, Rollback(r.srv))
                       \/ Unrecovered(c, k0, t, "execute", r)
  BY DEF RunStatement
<1>4. e.srv \in Session
  BY EnteredType DEF Outcomes
<1>5. CASE srv' = e.srv /\ cursors' = [cursors EXCEPT ![c] = k] /\ UNCHANGED inTransaction
  BY <1>5, EnteredHeld DEF Holding
<1>6. ASSUME e.exc = "none", NEW r \in Sent(e.srv, kind, portal, k.name),
             \/ Accepted(c, k1, t, "execute", r, portal)
             \/ Recovered(c, k0, t, "execute", r, Rollback(r.srv))
             \/ Unrecovered(c, k0, t, "execute", r)
      PROVE  Holding'
  <2>1. Tracks(t, e.srv) /\ (kind \in {"commit", "rollback"} => ~t)
    BY <1>6, EnteredReplies
  <2> HIDE DEF portal, t, k0, k1
  <2>2. Held(e.srv, [cursors EXCEPT ![c] = k], t)
    BY <1>1, EnteredHeld
  <2>3. r \in Replies /\ r.srv \in Session
    <3>1. k.name \in Names
      BY DEF Cursor
    <3> QED BY <1>1, <1>4, <3>1, SentType DEF Replies
  <2>4. r.exc # "InternalError"
    BY <1>1, <1>4, <2>3, ReplyKeeps
  <2>5. Held(r.srv, [cursors EXCEPT ![c] = k0], t)
    BY <1>1, <1>2, <1>4, <2>1, <2>2, SentHeld
  <2>6. Held(r.srv, [cursors EXCEPT ![c] = k1], t)
    BY <1>1, <1>2, <2>5, SameHeld
  <2>7. CASE Accepted(c, k1, t, "execute", r, portal)
    BY <1>1, <1>2, <2>3, <2>6, <2>7, AcceptedHeld
  <2>8. CASE Recovered(c, k0, t, "execute", r, Rollback(r.srv))
    BY <1>1, <1>2, <2>3, <2>5, <2>8, RecoveredHeld
  <2>9. CASE Unrecovered(c, k0, t, "execute", r)
    BY <1>1, <2>4, <2>5, <2>9, UnrecoveredHeld
  <2> QED BY <1>6, <2>7, <2>8, <2>9
<1> HIDE DEF portal, t, k0, k1
<1> QED BY <1>3, <1>5, <1>6 DEF Unbound

LEMMA ExecuteHeld ==
    ASSUME TypeOK, Holding, Named(cursors), UserNames = {}, {"internal", "binding"} \cap Faults = {},
           ParamsKinds \cap {"commit", "rollback"} = {}, TransactionTracked, AutocommitExclusive,
           NEW c \in Cursors, NEW kind \in Kinds, Execute(c, kind) \/ ExecuteParams(c, kind)
    PROVE  Holding'
<1> DEFINE s == ReselectSession(c, kind)
           k == Reselected(c, kind)
<1>1. s \in Session /\ k \in Cursor /\ Tracks(inTransaction, s)
  BY ReselectKeeps DEF Tracks, TransactionTracked
<1>2. srv \in Session /\ cursors \in [Cursors -> Cursor] /\ cursors[c] \in Cursor
  BY DEF TypeOK
<1>3. k.name = c
  BY <1>2 DEF Reselected, Reset, Cursor, Named
<1>4. Held(s, [cursors EXCEPT ![c] = k], inTransaction)
  <2>1. CASE kind \in {"select", "direct"}
    <3>1. s = ResetSession(srv, cursors[c], inTransaction)
      BY <2>1 DEF ReselectSession
    <3>2. k.closed # "0"
      BY <1>2, <2>1 DEF Reselected, Reset, Cursor
    <3> QED BY <1>1, <3>1, <3>2, ResetHeld
  <2>2. CASE kind \notin {"select", "direct"}
    <3>1. s = srv /\ k = cursors[c]
      BY <2>2 DEF ReselectSession, Reselected
    <3>2. [cursors EXCEPT ![c] = cursors[c]] = cursors
      BY <1>2, SameCursors
    <3> QED BY <3>1, <3>2 DEF Holding
  <2> QED BY <2>1, <2>2
<1>5. RunStatement(c, s, k, kind) /\ Live(c)
  BY DEF Execute, ExecuteParams
<1>6. kind \in {"commit", "rollback"} => autocommit
  BY DEF Execute, ExecuteParams
<1>7. kind \in {"commit", "rollback"} => ~InTransactionAfterEntry
  BY <1>6 DEF InTransactionAfterEntry, AutocommitExclusive
<1> HIDE DEF s, k
<1> QED BY <1>1, <1>3, <1>4, <1>5, <1>7, RunStatementHeld

LEMMA CallprocHeld ==
    ASSUME TypeOK, Holding, UserNames = {}, {"internal", "binding"} \cap Faults = {},
           NEW c \in Cursors, Callproc(c)
    PROVE  Holding'
<1> DEFINE t == InTransactionAfterEntry
           k == cursors[c]
           k1 == [k EXCEPT !.res = "rows"]
<1>1. /\ t \in BOOLEAN
      /\ inTransaction => t
      /\ srv \in Session /\ cursors \in [Cursors -> Cursor] /\ Live(c)
  BY DEF TypeOK, InTransactionAfterEntry, Callproc, Live
<1>2. k \in Cursor /\ k1 \in Cursor /\ k1.closed = k.closed
  BY <1>1 DEF Cursor
<1>3. PICK e \in Entered(srv) :
              \/ e.exc # "none" /\ srv' = e.srv /\ UNCHANGED <<inTransaction, cursors>>
              \/ /\ e.exc = "none"
                 /\ \/ Unbound(c, e.srv, k, t, "callproc")
                    \/ \E r \in ProcedureReplies(e.srv) :
                          \/ Accepted(c, k1, t, "callproc", r, FALSE)
                          \/ Recovered(c, k, t, "callproc", r, Commit(r.srv))
                          \/ Unrecovered(c, k, t, "callproc", r)
  BY DEF Callproc
<1>4. e.srv \in Session
  BY <1>1, EnteredType DEF Outcomes
<1>5. CASE srv' = e.srv /\ UNCHANGED <<inTransaction, cursors>>
  BY <1>1, <1>5, EnteredHeld DEF Holding
<1>6. [cursors EXCEPT ![c] = k] = cursors
  BY <1>1
<1> HIDE DEF k, k1, t
<1>7. Held(e.srv, [cursors EXCEPT ![c] = k], t)
  BY <1>1, <1>6, EnteredHeld DEF Holding
<1>8. ASSUME NEW r \in ProcedureReplies(e.srv),
             \/ Accepted(c, k1, t, "callproc", r, FALSE)
             \/ Recovered(c, k, t, "callproc", r, Commit(r.srv))
             \/ Unrecovered(c, k, t, "callproc", r)
      PROVE  Holding'
  <2>1. r \in Replies /\ r.srv \in Session /\ r.exc # "InternalError"
    BY <1>4, ProcedurePlain DEF Replies, Plain
  <2>2. Held(r.srv, [cursors EXCEPT ![c] = k], t)
    BY <1>4, <1>7, ProcedureHeld, HeldSteady
  <2>3. Held(r.srv, [cursors EXCEPT ![c] = k1], t)
    BY <1>1, <1>2, <2>2, SameHeld
  <2>4. CASE Accepted(c, k1, t, "callproc", r, FALSE)
    BY <1>1, <1>2, <2>1, <2>3, <2>4, AcceptedHeld
  <2>5. CASE Recovered(c, k, t, "callproc", r, Commit(r.srv))
    BY <1>1, <1>2, <2>1, <2>2, <2>5, RecoveredHeld
  <2>6. CASE Unrecovered(c, k, t, "callproc", r)
    BY <1>1, <2>1, <2>2, <2>6, UnrecoveredHeld
  <2> QED BY <1>8, <2>4, <2>5, <2>6
<1> QED BY <1>3, <1>5, <1>8 DEF Unbound

LEMMA NewCursorHeld ==
    ASSUME TypeOK, Holding, UserNames = {}, NEW c \in Cursors, NEW n \in {c} \cup UserNames,
           NEW isRefCursor \in BOOLEAN, NewCursor(c, n, isRefCursor)
    PROVE  Holding'
<1> DEFINE fresh == [closed |-> "None", name |-> n, res |-> "None"]
<1>1. srv \in Session /\ cursors \in [Cursors -> Cursor] /\ ~isRefCursor
  BY DEF TypeOK, NewCursor
<1>2. PICK e \in Entered(srv) :
          \/ srv' = e.srv /\ UNCHANGED <<inTransaction, cursors>>
          \/ /\ srv' = e.srv /\ inTransaction' = InTransactionAfterEntry
             /\ cursors' = [cursors EXCEPT ![c] = fresh]
  BY <1>1 DEF NewCursor, connection
<1>3. CASE srv' = e.srv /\ UNCHANGED <<inTransaction, cursors>>
  BY <1>1, <1>3, EnteredHeld DEF Holding
<1>4. CASE /\ srv' = e.srv /\ inTransaction' = InTransactionAfterEntry
           /\ cursors' = [cursors EXCEPT ![c] = fresh]
  <2>1. inTransaction => inTransaction'
    BY <1>4 DEF InTransactionAfterEntry
  <2>2. Held(srv', cursors, inTransaction')
    BY <1>1, <1>4, <2>1, EnteredHeld DEF Holding
  <2>3. \A d \in Cursors : cursors'[d].closed = "0" => cursors[d].closed = "0"
    BY <1>1, <1>4
  <2> QED BY <2>2, <2>3 DEF Holding, Held
<1> QED BY <1>2, <1>3, <1>4

LEMMA PortalStepHeld ==
    ASSUME TypeOK, Holding, Named(cursors), UserNames = {}, NEW c \in Cursors,
           Fetch(c) \/ Rewind(c) \/ CloseCursor(c) \/ DropCursor(c)
    PROVE  Holding'
<1>1. srv \in Session /\ cursors \in [Cursors -> Cursor] /\ cursors[c] \in Cursor
  BY DEF TypeOK
<1>2. inTransaction' = inTransaction
  BY DEF Fetch, Rewind, PortalCommand, CloseCursor, DropCursor, connection
<1>3. CASE Fetch(c) \/ Rewind(c)
  <2>1. PICK f \in UsePortal(srv, cursors[c].name) :
           /\ srv' = f.srv
           /\ \/ UNCHANGED cursors
              \/ \E result \in {"rows", "other"} : cursors' = [cursors EXCEPT ![c].res = result]
    BY <1>3 DEF Fetch, Rewind, PortalCommand
  <2>2. Held(srv', cursors, inTransaction')
    BY <1>1, <1>2, <2>1, UsePortalSteady, HeldSteady DEF Holding
  <2>3. \A d \in Cursors : cursors'[d].closed = cursors[d].closed
    BY <1>1, <2>1 DEF Cursor
  <2> QED BY <2>2, <2>3 DEF Holding, Held
<1>4. CASE CloseCursor(c)
  <2> DEFINE k == [Reset(cursors[c]) EXCEPT !.closed = "1"]
  <2>1. /\ srv' = ResetSession(srv, cursors[c], inTransaction)
        /\ cursors' = [cursors EXCEPT ![c] = k]
    BY <1>4 DEF CloseCursor
  <2>2. k \in Cursor /\ k.closed # "0"
    BY <1>1 DEF Reset, Cursor
  <2> HIDE DEF k
  <2> QED BY <1>2, <2>1, <2>2, ResetHeld DEF Holding
<1>5. CASE DropCursor(c)
  <2>1. Unborn(c) \in Cursor /\ Unborn(c).closed # "0"
    BY PgSQLAssumption DEF Unborn, Cursor
  <2>2. cursors' = [cursors EXCEPT ![c] = Unborn(c)]
    BY <1>5 DEF DropCursor
  <2>3. srv' = ResetSession(srv, cursors[c], inTransaction)
    BY <1>5 DEF DropCursor, Live, ResetSession
  <2> QED BY <1>2, <2>1, <2>2, <2>3, ResetHeld DEF Holding
<1> QED BY <1>3, <1>4, <1>5

LEMMA LargeObjectHeld ==
    ASSUME TypeOK, Holding, NEW w \in Unused(srv),
           Unlink(w) \/ \E withString \in BOOLEAN : Binary(withString, w)
    PROVE  Holding'
<1>1. srv \in Session /\ w \in Writes /\ UNCHANGED cursors
  BY DEF TypeOK, Unused, Unlink, Binary
<1>2. CASE Unlink(w)
  <2>1. PICK r \in LargeObjectCall(srv, Changed(srv, w), "IOError") : srv' = r.srv
    BY <1>2 DEF Unlink
  <2>2. inTransaction' = inTransaction
    BY <1>2 DEF Unlink, connection
  <2>3. Steady(srv, srv')
    BY <1>1, <2>1, ChangedPortals, LargeObjectSteady
  <2> QED BY <1>1, <2>2, <2>3, HeldSteady DEF Holding
<1>3. ASSUME NEW withString \in BOOLEAN, Binary(withString, w)
      PROVE  Holding'
  <2>1. PICK e \in Entered(srv) :
          /\ inTransaction' = (inTransaction \/ e.exc = "none")
          /\ \/ e.exc # "none" /\ srv' = e.srv
             \/ /\ e.exc = "none"
                /\ \E r \in LargeObjectCall(e.srv, Changed(e.srv, w), "OperationalError") :
                      \/ srv' = r.srv
                      \/ \E q \in LargeObjectCall(r.srv, r.srv, "IOError") :
                            srv' = q.srv \/ \E b \in Rollback(q.srv) : srv' = b.srv
    BY <1>3 DEF Binary
  <2>2. inTransaction => inTransaction'
    BY <2>1
  <2>3. e.srv \in Session /\ Held(e.srv, cursors, inTransaction')
    BY <1>1, <2>2, EnteredType, EnteredHeld DEF Outcomes, Holding
  <2>4. Steady(e.srv, srv')
    <3>1. CASE srv' = e.srv
      BY <3>1 DEF Steady
    <3>2. ASSUME NEW r \in LargeObjectCall(e.srv, Changed(e.srv, w), "OperationalError"),
                 \/ srv' = r.srv
                 \/ \E q \in LargeObjectCall(r.srv, r.srv, "IOError") :
                       srv' = q.srv \/ \E b \in Rollback(q.srv) : srv' = b.srv
          PROVE  Steady(e.srv, srv')
      <4>1. /\ Changed(e.srv, w) \in Session /\ Changed(e.srv, w).tx = e.srv.tx
            /\ Changed(e.srv, w).portals = e.srv.portals
        BY <1>1, <2>3, ChangedPortals
      <4>2. r \in Replies
        BY <2>3, <4>1, LargeObjectCallType DEF Exceptions
      <4>3. r.srv \in Session /\ Steady(e.srv, r.srv)
        BY <2>3, <4>1, <4>2, LargeObjectSteady DEF Replies
      <4>4. CASE srv' = r.srv
        BY <4>3, <4>4
      <4>5. ASSUME NEW q \in LargeObjectCall(r.srv, r.srv, "IOError"),
                   srv' = q.srv \/ \E b \in Rollback(q.srv) : srv' = b.srv
            PROVE  Steady(e.srv, srv')
        <5>1. q \in Replies /\ Steady(r.srv, q.srv)
          BY <4>3, LargeObjectCallType, LargeObjectSteady DEF Exceptions
        <5>2. q.srv \in Session
          BY <5>1 DEF Replies
        <5>3. \A b \in Rollback(q.srv) : b.srv.tx # "trans"
          BY <5>2, EndReplies
        <5> QED BY <4>3, <4>5, <5>1, <5>3 DEF Steady
      <4> QED BY <3>2, <4>4, <4>5
    <3> QED BY <2>1, <3>1, <3>2
  <2> QED BY <1>1, <2>3, <2>4, HeldSteady DEF Holding
<1> QED BY <1>2, <1>3

LEMMA HoldingStep ==
    ASSUME TypeOK, Holding, Named(cursors), UserNames = {}, {"internal", "binding"} \cap Faults = {},
           ParamsKinds \cap {"commit", "rollback"} = {}, TransactionTracked, AutocommitExclusive,
           [Next]_vars
    PROVE  Holding'
<1>0. (\A c \in Cursors : cursors'[c].closed # "0") => Holding'
  BY DEF Holding, Held
<1>1. CASE UNCHANGED vars
  BY <1>1 DEF vars, Holding
<1>2. ASSUME NEW c \in Cursors,
             \E n \in {c} \cup UserNames, isRefCursor \in BOOLEAN : NewCursor(c, n, isRefCursor)
      PROVE  Holding'
  BY <1>2, NewCursorHeld
<1>3. ASSUME NEW c \in Cursors, NEW kind \in Kinds, Execute(c, kind) \/ ExecuteParams(c, kind)
      PROVE  Holding'
  BY <1>3, ExecuteHeld
<1>4. ASSUME NEW c \in Cursors, NEW kind \in Kinds, ExecuteBegin(c, kind)
      PROVE  Holding'
  <2>1. ~inTransaction /\ UNCHANGED cursors
    BY <1>4 DEF ExecuteBegin
  <2> QED BY <1>0, <2>1 DEF Holding, Held
<1>5. ASSUME NEW c \in Cursors,
             Callproc(c) \/ Fetch(c) \/ Rewind(c) \/ CloseCursor(c) \/ DropCursor(c)
      PROVE  Holding'
  BY <1>5, CallprocHeld, PortalStepHeld
<1>6. CASE \/ ConnectionCommit \/ ConnectionRollback
           \/ \E c \in Cursors, kind \in Kinds : ExecuteEnd(c, kind)
  <2>1. CASE cursors' = ResetCursors
    <3>1. \A d \in Cursors : Reset(cursors[d]).closed # "0"
      BY DEF TypeOK, Reset, Cursor
    <3>2. \A d \in Cursors : ResetCursors[d].closed # "0"
      BY <3>1 DEF ResetCursors, Live
    <3> QED BY <1>0, <2>1, <3>2
  <2>2. ASSUME NEW e \in Entered(srv), srv' = e.srv, UNCHANGED <<connection, cursors>>
        PROVE  Holding'
    BY <2>2, EnteredHeld DEF Holding, TypeOK, connection
  <2> QED BY <1>6, <2>1, <2>2
          DEF ConnectionCommit, ConnectionRollback, ExecuteEnd, EndTransaction
<1>7. CASE CloseConnection
  <2>1. \A d \in Cursors : [Reset(cursors[d]) EXCEPT !.closed = "1"].closed # "0"
    BY DEF TypeOK, Reset, Cursor
  <2>2. \A d \in Cursors : cursors'[d].closed # "0"
    BY <1>7, <2>1 DEF CloseConnection, Live
  <2> QED BY <1>0, <2>2
<1>8. CASE BackendDies
  <2>1. srv' = GoneWith(srv.durable) /\ UNCHANGED <<inTransaction, cursors>>
    BY <1>8 DEF BackendDies, connection
  <2>2. GoneWith(srv.durable).tx # "trans"
    BY DEF GoneWith
  <2> QED BY <2>1, <2>2, OverHeld DEF Holding
<1>9. CASE \/ \E value \in BOOLEAN : SetAutocommit(value)
           \/ \E value \in Levels \cup {"bogus"} : SetTransactionLevel(value)
  <2>1. ~AnyLeft /\ UNCHANGED cursors
    BY <1>9 DEF SetAutocommit, SetTransactionLevel
  <2> QED BY <1>0, <2>1 DEF AnyLeft, Live
<1>10. ASSUME NEW w \in Unused(srv),
              Unlink(w) \/ \E withString \in BOOLEAN : Binary(withString, w)
       PROVE  Holding'
  BY <1>10, LargeObjectHeld
<1> QED BY <1>1, <1>2, <1>3, <1>4, <1>5, <1>6, <1>7, <1>8, <1>9, <1>10 DEF Next

\* A cursor with closed = 0 has its portal while the transaction lives, so the CLOSE
\* that __reset sends and whose error it ignores does not abort the transaction.  It
\* needs what the code does not ensure: names and transactions that are left to the
\* package, and no failure of the call between closed = 0 and DECLARE.
THEOREM EveryCursorIsBacked ==
    ASSUME UserNames = {}, {"notice", "internal", "binding"} \cap Faults = {},
           ParamsKinds \cap {"commit", "rollback"} = {}
    PROVE  Spec => []PortalBacked
<1>0. "notice" \notin Faults /\ "internal" \notin Faults /\ {"internal", "binding"} \cap Faults = {}
  OBVIOUS
<1>1. Init => Holding
  <2>1. \A c \in Cursors : Unborn(c).closed # "0"
    BY DEF Unborn
  <2> QED BY <2>1 DEF Init, Holding, Held
<1>2. /\ TypeOK /\ Portals /\ TransactionTracked /\ AutocommitExclusive /\ Holding
      /\ [Next]_vars
      => Holding'
  BY <1>0, HoldingStep DEF Portals
<1>3. Portals /\ Holding => PortalBacked
  BY DEF Portals, Named, Holding, Held, PortalBacked
<1>4. Spec => []Portals
  BY <1>0, PortalsInvariant
<1>5. Spec => []TransactionTracked
  BY <1>0, TransactionIsTracked
<1> QED BY <1>1, <1>2, <1>3, <1>4, <1>5, TypeCorrect, AutocommitIsExclusive, PTL DEF Spec

-----------------------------------------------------------------------------
(* What the replies leave durable. *)

LEMMA AbortedByDurable ==
    ASSUME NEW s \in Session
    PROVE  AbortedBy(s).durable = s.durable
BY DEF AbortedBy, Session

LEMMA ResetSessionDurable ==
    ASSUME NEW s \in Session, NEW k, NEW t
    PROVE  ResetSession(s, k, t).durable = s.durable
<1>1. [s EXCEPT !.portals = @ \ {k.name}].durable = s.durable
  BY DEF Session
<1> QED BY <1>1, AbortedByDurable DEF ResetSession, ClosedPortal

LEMMA CloseCursorsDurable ==
    ASSUME NEW s \in Session, NEW t
    PROVE  CloseCursorsSession(s, t).durable = s.durable
<1> DEFINE names == {cursors[c].name : c \in {d \in Cursors : cursors[d].closed = "0"}}
<1>1. CloseCursorsSession(s, t) \in {s, [s EXCEPT !.portals = @ \ names], AbortedBy(s)}
  BY DEF CloseCursorsSession
<1>2. [s EXCEPT !.portals = @ \ names].durable = s.durable
  BY DEF Session
<1> HIDE DEF names
<1> QED BY <1>1, <1>2, AbortedByDurable

\* A statement that the session does not accept can only abort it.
LEMMA StatementRefused ==
    ASSUME NEW s, NEW t, NEW a \in BOOLEAN, ~(Runs(s) /\ a), NEW r \in Statement(s, a, t)
    PROVE  r.srv = AbortedBy(s)
<1>1. r \in WithNotices({Refused(s)})
  BY DEF Statement
<1>2. Refused(s) = [srv |-> AbortedBy(s), exc |-> "OperationalError", notice |-> FALSE]
  BY DEF Refused, Reply
<1> QED BY <1>1, <1>2 DEF WithNotices, When

LEMMA StatementDurable ==
    ASSUME NEW s \in Session, NEW t, Runs(s) => t.durable = s.durable,
           NEW a \in BOOLEAN, NEW r \in Statement(s, a, t)
    PROVE  r.srv.durable = s.durable
BY StatementReplies, StatementRefused, AbortedByDurable

\* In a transaction, even one that is over, a change is not durable as it is made.
LEMMA ChangedDurable ==
    ASSUME NEW s \in Session, NEW w, s.tx # "idle"
    PROVE  Runs(s) => Changed(s, w).durable = s.durable
BY DEF Changed, Runs, Session

LEMMA WriteDurable ==
    ASSUME NEW s \in Session, NEW w, s.tx # "idle", NEW r \in Write(s, w)
    PROVE  r.srv.durable = s.durable
<1>1. CASE r \in Statement(s, TRUE, Changed(s, w))
  BY <1>1, ChangedDurable, StatementDurable
<1>2. CASE r = Reply(AbortedBy(s), "IntegrityError", FALSE)
  BY <1>2, AbortedByDurable DEF Reply
<1> QED BY <1>1, <1>2 DEF Write, When

LEMMA PortalDurable ==
    ASSUME NEW s \in Session, NEW n, NEW r \in Declare(s, n) \cup UsePortal(s, n)
    PROVE  r.srv.durable = s.durable
<1>1. [s EXCEPT !.portals = @ \cup {n}].durable = s.durable
  BY DEF Session
<1>2. (s.tx = "trans" /\ n \notin s.portals) \in BOOLEAN /\ (n \in s.portals) \in BOOLEAN
  OBVIOUS
<1>3. CASE r \in Declare(s, n)
  BY <1>1, <1>2, <1>3, StatementDurable DEF Declare
<1>4. CASE r \in UsePortal(s, n)
  BY <1>2, <1>4, StatementDurable DEF UsePortal
<1> QED BY <1>3, <1>4

LEMMA LargeObjectDurable ==
    ASSUME NEW s \in Session, NEW t \in Session, Runs(s) => t.durable = s.durable, NEW e,
           NEW r \in LargeObjectCall(s, t, e)
    PROVE  r.srv.durable = s.durable
<1>1. PICK q \in Statement(s, TRUE, t) : r = [q EXCEPT !.exc = IF @ = "none" THEN @ ELSE e]
  BY DEF LargeObjectCall
<1>2. q \in Replies
  BY StatementType
<1>3. r.srv = q.srv
  <2>1. q = [srv |-> q.srv, exc |-> q.exc, notice |-> q.notice]
    BY <1>2 DEF Replies
  <2> QED BY ONLY <1>1, <2>1
<1>4. TRUE \in BOOLEAN
  OBVIOUS
<1>5. q.srv.durable = s.durable
  BY <1>4, StatementDurable
<1> QED BY <1>3, <1>5

LEMMA BeginSessions ==
    ASSUME NEW s \in Session, NEW b \in Begin(s)
    PROVE  b.srv \in {[s EXCEPT !.tx = "trans"], AbortedBy(s)}
<1> DEFINE R == IF Runs(s) THEN {Reply([s EXCEPT !.tx = "trans"], "none", s.tx = "trans")}
                           ELSE {Refused(s)}
<1>1. ASSUME NEW q \in R
      PROVE  /\ q = [srv |-> q.srv, exc |-> q.exc, notice |-> q.notice]
             /\ q.srv \in {[s EXCEPT !.tx = "trans"], AbortedBy(s)}
  BY DEF Reply, Refused
<1>2. b \in R \/ (\E q \in R : b = [q EXCEPT !.notice = TRUE])
  BY DEF Begin, WithNotices, When
<1> HIDE DEF R
<1> QED BY <1>1, <1>2

LEMMA BeginDurable ==
    ASSUME NEW s \in Session, NEW b \in Begin(s)
    PROVE  b.srv.durable = s.durable
<1>1. [s EXCEPT !.tx = "trans"].durable = s.durable
  BY DEF Session
<1> QED BY <1>1, BeginSessions, AbortedByDurable

LEMMA SetupDurable ==
    ASSUME NEW s \in Session, NEW plain \in BOOLEAN, NEW e \in SetupTransaction(s, plain)
    PROVE  e.srv.durable = s.durable
BY SetupSession, BeginDurable, AbortedByDurable

LEMMA EnteredDurable ==
    ASSUME NEW s \in Session, NEW e \in Entered(s)
    PROVE  e.srv.durable = s.durable
<1>1. CASE autocommit \/ inTransaction
  <2>1. e = Done(s) /\ Done(s).srv = s
    BY <1>1 DEF Entered, Done, Reply
  <2> QED BY <2>1
<1>2. CASE ~(autocommit \/ inTransaction)
  BY <1>2, SetupDurable DEF Entered
<1> QED BY <1>1, <1>2

\* ROLLBACK commits nothing, and COMMIT nothing of a transaction that is over.
LEMMA EndDurable ==
    ASSUME NEW s \in Session, NEW r,
           \/ r \in Rollback(s)
           \/ r \in Commit(s) /\ s.tx # "trans"
    PROVE  r.srv.durable = s.durable
<1> DEFINE Same(q) == /\ q.srv.durable = s.durable
                      /\ q = [srv |-> q.srv, exc |-> q.exc, notice |-> q.notice]
<1>1. /\ Same(Done(EndedWith(s.durable)))
      /\ Same(Reply(s, "none", TRUE))
      /\ Same(Refused(s))
  BY AbortedByDurable DEF Done, Reply, Refused, EndedWith
<1> HIDE DEF Same
<1>2. \E q : Same(q) /\ (r = q \/ r = [q EXCEPT !.notice = TRUE])
  <2>1. CASE s.tx = "trans"
    BY <1>1, <2>1 DEF Rollback, WithNotices, When
  <2>2. CASE s.tx = "aborted"
    BY <1>1, <2>2 DEF Commit, Rollback, WithNotices, When
  <2>3. CASE s.tx = "idle"
    BY <1>1, <2>3 DEF Commit, Rollback, WithNotices, When
  <2>4. CASE s.tx = "down"
    BY <1>1, <2>4 DEF Commit, Rollback, WithNotices, When
  <2> QED BY <2>1, <2>2, <2>3, <2>4 DEF Session, TxStatus
<1>3. PICK q : Same(q) /\ (r = q \/ r = [q EXCEPT !.notice = TRUE])
  BY <1>2
<1> QED BY <1>3 DEF Same

-----------------------------------------------------------------------------
(* The ways in which a statement ends. *)

LEMMA AcceptedDurable ==
    ASSUME NEW c, NEW k, NEW t, NEW call, NEW r, NEW portal \in BOOLEAN, r.srv \in Session,
           Accepted(c, k, t, call, r, portal)
    PROVE  srv'.durable = r.srv.durable
<1>1. CASE portal
  <2>1. PICK f \in UsePortal(r.srv, k.name) : srv' = f.srv
    BY <1>1 DEF Accepted
  <2> QED BY <2>1, PortalDurable
<1>2. CASE ~portal
  BY <1>2 DEF Accepted
<1> QED BY <1>1, <1>2

LEMMA RecoveredDurable ==
    ASSUME NEW c, NEW k, NEW t \in BOOLEAN, NEW call, NEW r, r.srv \in Session,
           \/ Recovered(c, k, t, call, r, Commit(r.srv)) /\ r.srv.tx # "trans"
           \/ Recovered(c, k, t, call, r, Rollback(r.srv))
    PROVE  srv'.durable = r.srv.durable
<1>1. CASE ~t
  BY <1>1 DEF Recovered
<1>2. CASE t
  <2>1. \/ \E e \in Rollback(r.srv) : srv' = e.srv
        \/ r.srv.tx # "trans" /\ \E e \in Commit(r.srv) : srv' = e.srv
    BY <1>2 DEF Recovered
  <2> QED BY <2>1, EndDurable
<1> QED BY <1>1, <1>2

LEMMA SentDurable ==
    ASSUME NEW s \in Session, s.tx # "idle", NEW kind \in Kinds \ {"commit"},
           NEW portal \in BOOLEAN, NEW n, portal => kind = "select", NEW r \in Sent(s, kind, portal, n)
    PROVE  r.srv.durable = s.durable
<1>1. CASE portal
  BY <1>1, PortalDurable DEF Sent
<1>2. CASE ~portal /\ kind \in {"select", "direct"}
  <2>1. r \in Statement(s, TRUE, s)
    BY <1>2 DEF Sent, Query
  <2> QED BY <2>1, StatementDurable
<1>3. CASE ~portal /\ kind = "write"
  <2>1. PICK w \in Unused(s) : r \in Write(s, w)
    BY <1>3 DEF Sent
  <2> QED BY <2>1, WriteDurable
<1>4. CASE ~portal /\ kind \in {"begin", "begin_level"}
  BY <1>4, BeginDurable DEF Sent
<1>5. CASE ~portal /\ kind = "rollback"
  BY <1>5, EndDurable DEF Sent
<1> QED BY <1>1, <1>2, <1>3, <1>4, <1>5 DEF Kinds

LEMMA ProcedureDurable ==
    ASSUME NEW s \in Session, s.tx # "idle", NEW r \in ProcedureReplies(s)
    PROVE  r.srv.durable = s.durable
<1>1. CASE r \in Query(s)
  BY <1>1, StatementDurable DEF Query
<1>2. ASSUME NEW w \in Unused(s), r \in Write(s, w)
      PROVE  r.srv.durable = s.durable
  BY <1>2, WriteDurable
<1>3. ASSUME NEW n \in UserNames, r \in Declare(s, n)
      PROVE  r.srv.durable = s.durable
  BY <1>3, PortalDurable
<1> QED BY <1>1, <1>2, <1>3 DEF ProcedureReplies

-----------------------------------------------------------------------------
(* The steps, with autocommit off. *)

\* A call finds or begins a transaction: what it changes waits for commit().
LEMMA EnteredInTransaction ==
    ASSUME TypeOK, ~autocommit, NEW s \in Session, inTransaction => s.tx # "idle",
           NEW e \in Entered(s)
    PROVE  /\ e.srv \in Session /\ e.srv.durable = s.durable
           /\ e.exc = "none" => e.srv.tx # "idle"
<1>1. InTransactionAfterEntry
  BY DEF InTransactionAfterEntry
<1> QED BY <1>1, EnteredReplies, EnteredType, EnteredDurable DEF Outcomes, Tracks

LEMMA RunStatementDurable ==
    ASSUME TypeOK, ~autocommit, NEW c \in Cursors, NEW s \in Session, NEW k \in Cursor,
           NEW kind \in Kinds \ {"commit"}, inTransaction => s.tx # "idle",
           RunStatement(c, s, k, kind)
    PROVE  srv'.durable = s.durable
<1> DEFINE portal == kind = "select" /\ ~autocommit
           t == InTransactionAfterEntry
           k0 == IF portal THEN [k EXCEPT !.closed = "0"] ELSE k
           k1 == [k0 EXCEPT !.res = IF kind \in {"select", "direct"} THEN "rows" ELSE "other"]
<1>1. t \in BOOLEAN /\ portal \in BOOLEAN /\ k.name \in Names
  BY DEF TypeOK, InTransactionAfterEntry, Cursor
<1>2. PICK e \in Entered(s) :
           \/ srv' = e.srv
           \/ /\ e.exc = "none"
              /\ \E r \in Sent(e.srv, kind, portal, k.name) :
                    \/ Accepted(c, k1, t, "execute", r, portal)
                    \/ Recovered(c, k0, t, "execute", r, Rollback(r.srv))
                    \/ Unrecovered(c, k0, t, "execute", r)
  BY DEF RunStatement, Unbound
<1>3. e.srv \in Session /\ e.srv.durable = s.durable /\ (e.exc = "none" => e.srv.tx # "idle")
  BY EnteredInTransaction
<1>4. ASSUME e.exc = "none", NEW r \in Sent(e.srv, kind, portal, k.name),
             \/ Accepted(c, k1, t, "execute", r, portal)
             \/ Recovered(c, k0, t, "execute", r, Rollback(r.srv))
             \/ Unrecovered(c, k0, t, "execute", r)
      PROVE  srv'.durable = s.durable
  <2>1. portal => kind = "select"
    OBVIOUS
  <2> HIDE DEF portal, t, k0, k1
  <2>2. r.srv \in Session /\ r.srv.durable = e.srv.durable
    BY <1>1, <1>3, <1>4, <2>1, SentType, SentDurable DEF Replies
  <2>3. srv'.durable = r.srv.durable
    BY <1>1, <1>4, <2>2, AcceptedDurable, RecoveredDurable DEF Unrecovered
  <2> QED BY <1>3, <2>2, <2>3
<1> HIDE DEF portal, t, k0, k1
<1> QED BY <1>2, <1>3, <1>4

LEMMA ExecuteDurable ==
    ASSUME TypeOK, TransactionTracked, ~autocommit, ParamsKinds \cap {"commit", "rollback"} = {},
           NEW c \in Cursors, NEW kind \in Kinds, Execute(c, kind) \/ ExecuteParams(c, kind)
    PROVE  srv'.durable = srv.durable
<1> DEFINE s == ReselectSession(c, kind)
           k == Reselected(c, kind)
<1>1. srv \in Session /\ cursors[c] \in Cursor
  BY DEF TypeOK
<1>2. s \in Session /\ k \in Cursor /\ (inTransaction => s.tx # "idle")
  BY ReselectKeeps DEF Tracks, TransactionTracked
<1>3. s.durable = srv.durable
  BY <1>1, ResetSessionDurable DEF ReselectSession
<1>4. RunStatement(c, s, k, kind) /\ kind \in Kinds \ {"commit"}
  BY DEF Execute, ExecuteParams
<1> HIDE DEF s, k
<1> QED BY <1>2, <1>3, <1>4, RunStatementDurable

LEMMA CallprocDurable ==
    ASSUME TypeOK, TransactionTracked, ~autocommit, NEW c \in Cursors, Callproc(c)
    PROVE  srv'.durable = srv.durable
<1> DEFINE t == InTransactionAfterEntry
           k == cursors[c]
           k1 == [k EXCEPT !.res = "rows"]
<1>1. t \in BOOLEAN /\ srv \in Session
  BY DEF TypeOK, InTransactionAfterEntry
<1>2. PICK e \in Entered(srv) :
              \/ srv' = e.srv
              \/ /\ e.exc = "none"
                 /\ \E r \in ProcedureReplies(e.srv) :
                       \/ Accepted(c, k1, t, "callproc", r, FALSE)
                       \/ Recovered(c, k, t, "callproc", r, Commit(r.srv))
                       \/ Unrecovered(c, k, t, "callproc", r)
  BY DEF Callproc, Unbound
<1>3. /\ e.srv \in Session /\ e.srv.durable = srv.durable
      /\ e.exc = "none" => e.srv.tx # "idle"
  BY <1>1, EnteredInTransaction DEF TransactionTracked
<1>4. ASSUME e.exc = "none", NEW r \in ProcedureReplies(e.srv),
             \/ Accepted(c, k1, t, "callproc", r, FALSE)
             \/ Recovered(c, k, t, "callproc", r, Commit(r.srv))
             \/ Unrecovered(c, k, t, "callproc", r)
      PROVE  srv'.durable = srv.durable
  <2> HIDE DEF k, k1, t
  <2>1. r.srv \in Session /\ Plain(e.srv, r)
    BY <1>3, ProcedurePlain DEF Replies
  <2>2. r.srv.durable = e.srv.durable
    BY <1>3, <1>4, ProcedureDurable
  <2>3. Recovered(c, k, t, "callproc", r, Commit(r.srv)) => r.srv.tx # "trans"
    BY <2>1 DEF Recovered, Plain
  <2>4. srv'.durable = r.srv.durable
    BY <1>1, <1>4, <2>1, <2>3, AcceptedDurable, RecoveredDurable DEF Unrecovered
  <2> QED BY <1>3, <2>2, <2>4
<1> HIDE DEF k, k1, t
<1> QED BY <1>2, <1>3, <1>4

LEMMA NewCursorDurable ==
    ASSUME TypeOK, TransactionTracked, ~autocommit, NEW c \in Cursors, NEW n \in {c} \cup UserNames,
           NEW isRefCursor \in BOOLEAN, NewCursor(c, n, isRefCursor)
    PROVE  srv'.durable = srv.durable
<1> DEFINE k == [closed |-> "0", name |-> n, res |-> "rows"]
           t == InTransactionAfterEntry
<1>1. PICK e \in Entered(srv) :
          \/ srv' = e.srv
          \/ \E f \in UsePortal(e.srv, n) : srv' = f.srv \/ srv' = ResetSession(f.srv, k, t)
  BY DEF NewCursor
<1>2. e.srv \in Session /\ e.srv.durable = srv.durable /\ n \in Names
  BY EnteredInTransaction, PgSQLAssumption DEF TypeOK, TransactionTracked
<1>3. \A f \in UsePortal(e.srv, n) : f.srv \in Session /\ f.srv.durable = e.srv.durable
  BY <1>2, UsePortalType, PortalDurable DEF Replies
<1> HIDE DEF k, t
<1> QED BY <1>1, <1>2, <1>3, ResetSessionDurable

LEMMA PortalStepDurable ==
    ASSUME TypeOK, NEW c \in Cursors, Fetch(c) \/ Rewind(c) \/ CloseCursor(c) \/ DropCursor(c)
    PROVE  srv'.durable = srv.durable
<1>1. srv \in Session
  BY DEF TypeOK
<1>2. CASE Fetch(c) \/ Rewind(c)
  <2>1. PICK f \in UsePortal(srv, cursors[c].name) : srv' = f.srv
    BY <1>2 DEF Fetch, Rewind, PortalCommand
  <2> QED BY <1>1, <2>1, PortalDurable
<1>3. CASE CloseCursor(c) \/ DropCursor(c)
  <2>1. srv' = srv \/ srv' = ResetSession(srv, cursors[c], inTransaction)
    BY <1>3 DEF CloseCursor, DropCursor
  <2> QED BY <1>1, <2>1, ResetSessionDurable
<1> QED BY <1>2, <1>3

\* rollback(), and the roll back before an attribute is assigned.
LEMMA RollbackStepDurable ==
    ASSUME TypeOK, \/ ConnectionRollback
                   \/ \E value \in BOOLEAN : SetAutocommit(value)
                   \/ \E value \in Levels \cup {"bogus"} : SetTransactionLevel(value)
    PROVE  srv'.durable = srv.durable
<1>1. srv \in Session /\ cursors \in [Cursors -> Cursor]
  BY DEF TypeOK
<1>2. CASE ConnectionRollback
  <2> DEFINE u == CloseCursorsSession(srv, inTransaction)
  <2>1. u \in Session /\ u.durable = srv.durable
    BY <1>1, CloseCursorsSessionType, CloseCursorsDurable
  <2>2. srv' = srv \/ \E r \in Rollback(u) : srv' = r.srv
    BY <1>2 DEF ConnectionRollback, EndTransaction
  <2> HIDE DEF u
  <2> QED BY <2>1, <2>2, EndDurable
<1>3. CASE \E r \in RolledBackFirst : srv' = r.srv
  <2>1. srv' = srv \/ \E r \in Rollback(srv) : srv' = r.srv
    BY <1>3 DEF RolledBackFirst, Done, Reply
  <2> QED BY <1>1, <2>1, EndDurable
<1> QED BY <1>2, <1>3 DEF SetAutocommit, SetTransactionLevel

LEMMA ExecuteEndDurable ==
    ASSUME TypeOK, TransactionTracked, NEW c \in Cursors, NEW kind \in Kinds, ExecuteEnd(c, kind),
           last'.call # "commit"
    PROVE  srv'.durable = srv.durable
<1>1. PICK e \in Entered(srv) :
          \/ srv' = e.srv
          \/ EndTransaction(e.srv, TRUE, Commit(CloseCursorsSession(e.srv, TRUE)), "commit")
          \/ EndTransaction(e.srv, TRUE, Rollback(CloseCursorsSession(e.srv, TRUE)), "rollback")
  BY DEF ExecuteEnd
<1> DEFINE u == CloseCursorsSession(e.srv, TRUE)
<1>2. /\ cursors \in [Cursors -> Cursor]
      /\ e.srv \in Session /\ e.srv.durable = srv.durable
  BY EnteredInTransaction DEF TypeOK, TransactionTracked, ExecuteEnd
<1>3. u \in Session /\ u.durable = srv.durable
  BY <1>2, CloseCursorsSessionType, CloseCursorsDurable
<1> HIDE DEF u
<1>4. ~EndTransaction(e.srv, TRUE, Commit(u), "commit")
  BY DEF EndTransaction, Returned
<1>5. ASSUME EndTransaction(e.srv, TRUE, Rollback(u), "rollback")
      PROVE  \E r \in Rollback(u) : srv' = r.srv
  BY <1>5 DEF EndTransaction
<1> QED BY <1>1, <1>2, <1>3, <1>4, <1>5, EndDurable DEF u

LEMMA BinaryDurable ==
    ASSUME TypeOK, TransactionTracked, NEW w \in Writes, NEW withString \in BOOLEAN,
           Binary(withString, w)
    PROVE  srv'.durable = srv.durable
<1>1. PICK e \in Entered(srv) :
          \/ srv' = e.srv
          \/ /\ e.exc = "none"
             /\ \E r \in LargeObjectCall(e.srv, Changed(e.srv, w), "OperationalError") :
                   \/ srv' = r.srv
                   \/ \E q \in LargeObjectCall(r.srv, r.srv, "IOError") :
                         srv' = q.srv \/ \E b \in Rollback(q.srv) : srv' = b.srv
  BY DEF Binary
<1>2. /\ e.srv \in Session /\ e.srv.durable = srv.durable
      /\ e.exc = "none" => e.srv.tx # "idle"
  BY EnteredInTransaction DEF TypeOK, TransactionTracked, Binary
<1>3. ASSUME e.exc = "none",
             NEW r \in LargeObjectCall(e.srv, Changed(e.srv, w), "OperationalError")
      PROVE  r.srv \in Session /\ r.srv.durable = srv.durable
  <2>1. Changed(e.srv, w) \in Session /\ (Runs(e.srv) => Changed(e.srv, w).durable = e.srv.durable)
    BY <1>2, <1>3, ChangedType, ChangedDurable
  <2>2. r.srv \in Session
    BY <1>2, <2>1, LargeObjectCallType DEF Exceptions, Replies
  <2> QED BY <1>2, <2>1, <2>2, LargeObjectDurable
<1>4. ASSUME NEW s \in Session, NEW q \in LargeObjectCall(s, s, "IOError")
      PROVE  q.srv \in Session /\ q.srv.durable = s.durable
  BY LargeObjectCallType, LargeObjectDurable DEF Exceptions, Replies
<1> QED BY <1>1, <1>2, <1>3, <1>4, EndDurable

\* What the action of DurableOnlyByCommit says.
CommitsOnly == ~autocommit /\ last'.call \notin {"commit", "unlink"} => srv'.durable = srv.durable

LEMMA CommitsOnlyStep ==
    ASSUME TypeOK, TransactionTracked, ParamsKinds \cap {"commit", "rollback"} = {}, Next
    PROVE  CommitsOnly
<1> SUFFICES ASSUME ~autocommit, last'.call \notin {"commit", "unlink"}
             PROVE  srv'.durable = srv.durable
  BY DEF CommitsOnly
<1>1. ASSUME NEW c \in Cursors,
             \E n \in {c} \cup UserNames, isRefCursor \in BOOLEAN : NewCursor(c, n, isRefCursor)
      PROVE  srv'.durable = srv.durable
  BY <1>1, NewCursorDurable
<1>2. ASSUME NEW c \in Cursors, NEW kind \in Kinds, Execute(c, kind) \/ ExecuteParams(c, kind)
      PROVE  srv'.durable = srv.durable
  BY <1>2, ExecuteDurable
<1>3. ASSUME NEW c \in Cursors, NEW kind \in Kinds, ExecuteBegin(c, kind)
      PROVE  srv'.durable = srv.durable
  <2>1. PICK e \in SetupTransaction(srv, kind = "begin") : srv' = e.srv
    BY <1>3 DEF ExecuteBegin
  <2>2. (kind = "begin") \in BOOLEAN /\ srv \in Session
    BY DEF TypeOK
  <2> QED BY <2>1, <2>2, SetupDurable
<1>4. ASSUME NEW c \in Cursors, NEW kind \in Kinds, ExecuteEnd(c, kind)
      PROVE  srv'.durable = srv.durable
  BY <1>4, ExecuteEndDurable
<1>5. ASSUME NEW c \in Cursors,
             Callproc(c) \/ Fetch(c) \/ Rewind(c) \/ CloseCursor(c) \/ DropCursor(c)
      PROVE  srv'.durable = srv.durable
  BY <1>5, CallprocDurable, PortalStepDurable
<1>6. ~ConnectionCommit \/ srv' = srv
  BY DEF ConnectionCommit, EndTransaction, Returned
<1>7. CASE \/ ConnectionRollback
           \/ \E value \in BOOLEAN : SetAutocommit(value)
           \/ \E value \in Levels \cup {"bogus"} : SetTransactionLevel(value)
  BY <1>7, RollbackStepDurable
<1>8. CASE CloseConnection \/ BackendDies
  <2>1. srv' = GoneWith(srv.durable)
    BY <1>8 DEF CloseConnection, BackendDies
  <2> QED BY <2>1 DEF GoneWith
<1>9. ASSUME NEW w \in Unused(srv), NEW withString \in BOOLEAN, Binary(withString, w)
      PROVE  srv'.durable = srv.durable
  BY <1>9, BinaryDurable DEF Unused
<1>10. ASSUME NEW w \in Unused(srv)
       PROVE  ~Unlink(w)
  BY DEF Unlink, Returned
<1> QED BY <1>1, <1>2, <1>3, <1>4, <1>5, <1>6, <1>7, <1>8, <1>9, <1>10 DEF Next

\* With autocommit off, a change becomes durable by commit() and unlink() only: no
\* other call, no failure and no recovery from one commits anything, because whatever
\* may write has found or begun a transaction.  It needs what TransactionTracked needs,
\* which is the invariant it follows from.
THEOREM OnlyCommitIsDurable ==
    ASSUME "notice" \notin Faults, ParamsKinds \cap {"commit", "rollback"} = {}
    PROVE  Spec => DurableOnlyByCommit
<1>1. TypeOK /\ TransactionTracked /\ [Next]_vars => [CommitsOnly]_vars
  BY CommitsOnlyStep
<1>2. Spec => []TransactionTracked
  BY TransactionIsTracked
<1>3. [][CommitsOnly]_vars => DurableOnlyByCommit
  BY PTL DEF DurableOnlyByCommit, CommitsOnly
<1> QED BY <1>1, <1>2, <1>3, TypeCorrect, PTL DEF Spec

\* "After a commit or rollback, a new transaction is created on the next call to
\* execute()": with autocommit off no statement of execute(), execute_params() or
\* executemany() is durable as it runs.
THEOREM StatementsAreInTransaction ==
    ASSUME "notice" \notin Faults, ParamsKinds \cap {"commit", "rollback"} = {}
    PROVE  Spec => StatementsInTransaction
<1> DEFINE A == ~autocommit /\ last'.call = "execute"
                => srv'.durable \subseteq srv.durable \cup srv.pending
<1>1. TypeOK /\ TransactionTracked /\ [Next]_vars => [A]_vars
  <2>1. CommitsOnly => A
    BY DEF CommitsOnly
  <2> QED BY <2>1, CommitsOnlyStep
<1>2. Spec => []TransactionTracked
  BY TransactionIsTracked
<1>3. [][A]_vars => StatementsInTransaction
  BY PTL DEF StatementsInTransaction
<1> QED BY <1>1, <1>2, <1>3, TypeCorrect, PTL DEF Spec

-----------------------------------------------------------------------------
(* Calls that return normally keep the changes of the open transaction. *)

\* u still has what the open transaction of s has changed.
Spared(s, u) == s.tx = "trans" => u.tx = "trans" /\ s.pending \subseteq u.pending

LEMMA SparedTransitive ==
    ASSUME NEW s, NEW u, NEW v, Spared(s, u), Spared(u, v)
    PROVE  Spared(s, v)
BY DEF Spared

LEMMA ChangedSpared ==
    ASSUME NEW s \in Session, NEW w
    PROVE  Spared(s, Changed(s, w))
BY DEF Spared, Changed, Session

LEMMA WriteSpared ==
    ASSUME NEW s \in Session, NEW w, NEW r \in Write(s, w), r.exc = "none"
    PROVE  Spared(s, r.srv)
<1>1. CASE r \in Statement(s, TRUE, Changed(s, w))
  <2>1. r.srv = Changed(s, w)
    BY <1>1, StatementAccepts
  <2> QED BY <2>1, ChangedSpared
<1>2. CASE r = Reply(AbortedBy(s), "IntegrityError", FALSE)
  BY <1>2 DEF Reply
<1> QED BY <1>1, <1>2 DEF Write, When

LEMMA PortalSpared ==
    ASSUME NEW s \in Session, NEW n, NEW r \in Declare(s, n) \cup UsePortal(s, n), r.exc = "none"
    PROVE  Spared(s, r.srv)
<1>1. Spared(s, [s EXCEPT !.portals = @ \cup {n}]) /\ Spared(s, s)
  BY DEF Spared, Session
<1>2. (s.tx = "trans" /\ n \notin s.portals) \in BOOLEAN /\ (n \in s.portals) \in BOOLEAN
  OBVIOUS
<1>3. CASE r \in Declare(s, n)
  BY <1>1, <1>2, <1>3, StatementAccepts DEF Declare
<1>4. CASE r \in UsePortal(s, n)
  <2>1. r.srv = s
    BY <1>2, <1>4, StatementAccepts DEF UsePortal
  <2> QED BY <1>1, <2>1
<1> QED BY <1>3, <1>4

LEMMA LargeObjectSpared ==
    ASSUME NEW s \in Session, NEW t \in Session, Spared(s, t), NEW e, e # "none",
           NEW r \in LargeObjectCall(s, t, e), r.exc = "none"
    PROVE  Spared(s, r.srv)
<1>1. PICK q \in Statement(s, TRUE, t) : r = [q EXCEPT !.exc = IF @ = "none" THEN @ ELSE e]
  BY DEF LargeObjectCall
<1>2. q \in Replies
  BY StatementType
<1>3. r.srv = q.srv /\ q.exc = "none"
  BY <1>1, <1>2 DEF Replies
<1> QED BY <1>3, StatementAccepts

LEMMA BeginSpared ==
    ASSUME NEW s \in Session, NEW b \in Begin(s), b.exc = "none"
    PROVE  Spared(s, b.srv)
<1>1. b.srv = [s EXCEPT !.tx = "trans"] \/ b.srv = AbortedBy(s)
  BY BeginSessions
<1>2. b.srv.tx = "trans" /\ AbortedBy(s).tx # "trans"
  BY BeginReplies, AbortedByStays
<1>3. Spared(s, [s EXCEPT !.tx = "trans"])
  BY DEF Spared, Session
<1> QED BY <1>1, <1>2, <1>3

LEMMA SentSpared ==
    ASSUME NEW s \in Session, NEW kind \in Kinds \ {"commit", "rollback"},
           NEW portal \in BOOLEAN, NEW n, portal => kind = "select",
           NEW r \in Sent(s, kind, portal, n), r.exc = "none"
    PROVE  Spared(s, r.srv)
<1>1. CASE portal
  BY <1>1, PortalSpared DEF Sent
<1>2. CASE ~portal /\ kind \in {"select", "direct"}
  <2>1. r \in Statement(s, TRUE, s)
    BY <1>2 DEF Sent, Query
  <2> QED BY <2>1, StatementAccepts DEF Spared
<1>3. CASE ~portal /\ kind = "write"
  <2>1. PICK w \in Unused(s) : r \in Write(s, w)
    BY <1>3 DEF Sent
  <2> QED BY <2>1, WriteSpared
<1>4. CASE ~portal /\ kind \in {"begin", "begin_level"}
  BY <1>4, BeginSpared DEF Sent
<1> QED BY <1>1, <1>2, <1>3, <1>4 DEF Kinds

LEMMA ProcedureSpared ==
    ASSUME NEW s \in Session, NEW r \in ProcedureReplies(s), r.exc = "none"
    PROVE  Spared(s, r.srv)
<1>1. CASE r \in Query(s)
  BY <1>1, StatementAccepts DEF Query, Spared
<1>2. ASSUME NEW w \in Unused(s), r \in Write(s, w)
      PROVE  Spared(s, r.srv)
  BY <1>2, WriteSpared
<1>3. ASSUME NEW n \in UserNames, r \in Declare(s, n)
      PROVE  Spared(s, r.srv)
  BY <1>3, PortalSpared
<1> QED BY <1>1, <1>2, <1>3 DEF ProcedureReplies

\* COMMIT of an open transaction that raises nothing made its changes durable.
LEMMA CommitSpared ==
    ASSUME NEW s \in Session, s.tx = "trans", NEW r \in Commit(s), r.exc = "none"
    PROVE  s.pending \subseteq r.srv.durable
<1> DEFINE R == {Done(EndedWith(s.durable \cup s.pending))}
                \cup When("operational" \in Faults,
                          {Reply(EndedWith(s.durable), "OperationalError", FALSE)})
                \cup When("integrity" \in Faults,
                          {Reply(EndedWith(s.durable), "IntegrityError", FALSE)})
                \cup When("lost" \in Faults,
                          {Reply(GoneWith(d), "OperationalError", FALSE) :
                              d \in {s.durable, s.durable \cup s.pending}})
<1>1. Commit(s) = WithNotices(R)
  BY DEF Commit
<1>2. ASSUME NEW q \in R
      PROVE  /\ q = [srv |-> q.srv, exc |-> q.exc, notice |-> q.notice]
             /\ q.exc = "none" => q = Done(EndedWith(s.durable \cup s.pending))
  BY DEF Done, Reply, When
<1>3. Done(EndedWith(s.durable \cup s.pending)).srv.durable = s.durable \cup s.pending
  BY DEF Done, Reply, EndedWith
<1>4. r \in R \/ (\E q \in R : r = [q EXCEPT !.notice = TRUE])
  BY <1>1 DEF WithNotices, When
<1> HIDE DEF R
<1>5. \E q \in R : q.exc = "none" /\ r.srv = q.srv
  BY <1>2, <1>4
<1> QED BY <1>2, <1>3, <1>5

-----------------------------------------------------------------------------
(* The CLOSE that nobody looks at. *)

\* What makes a CLOSE harmless: each cursor that sends one has its own portal.
OwnPortals == \A c \in Cursors : cursors[c].name = c

LEMMA ResetSessionSpared ==
    ASSUME TypeOK, PortalBacked, NEW c \in Cursors
    PROVE  Spared(srv, ResetSession(srv, cursors[c], inTransaction))
<1> DEFINE n == cursors[c].name
<1>1. Spared(srv, srv) /\ Spared(srv, [srv EXCEPT !.portals = @ \ {n}])
  BY DEF Spared, TypeOK, Session
<1>2. CASE srv.tx = "trans" /\ cursors[c].closed = "0"
  <2>1. n \in srv.portals
    BY <1>2 DEF PortalBacked
  <2> QED BY <1>1, <2>1 DEF ResetSession, ClosedPortal
<1>3. CASE cursors[c].closed # "0"
  BY <1>1, <1>3 DEF ResetSession
<1> QED BY <1>2, <1>3 DEF Spared

LEMMA CloseCursorsSpared ==
    ASSUME TypeOK, PortalBacked, OwnPortals, NEW t \in BOOLEAN
    PROVE  Spared(srv, CloseCursorsSession(srv, t))
<1> SUFFICES ASSUME srv.tx = "trans"
             PROVE  Spared(srv, CloseCursorsSession(srv, t))
  BY DEF Spared
<1> DEFINE held == {c \in Cursors : cursors[c].closed = "0"}
           names == {cursors[c].name : c \in held}
<1>1. \A c \in held : /\ cursors[c].name \in srv.portals
                      /\ \A d \in held \ {c} : cursors[d].name # cursors[c].name
  BY DEF PortalBacked, OwnPortals
<1>2. CloseCursorsSession(srv, t) \in {srv, [srv EXCEPT !.portals = @ \ names]}
  BY <1>1 DEF CloseCursorsSession
<1>3. Spared(srv, srv) /\ Spared(srv, [srv EXCEPT !.portals = @ \ names])
  BY DEF Spared, TypeOK, Session
<1> HIDE DEF held, names
<1> QED BY <1>2, <1>3

-----------------------------------------------------------------------------
(* The steps. *)

\* What the action of LossReported says of the changes.
Survive == \/ srv'.tx = "trans" /\ srv.pending \subseteq srv'.pending
           \/ srv.pending \subseteq srv'.durable

\* An open connection whose session is in a transaction knows it, and begins none.
LEMMA OpenTransaction ==
    ASSUME TypeOK, AutocommitExclusive, Recoverable, isOpen, srv.tx = "trans"
    PROVE  /\ inTransaction = TRUE /\ autocommit = FALSE /\ InTransactionAfterEntry = TRUE
           /\ \A s : \A e \in Entered(s) : e.exc = "none" /\ e.srv = s
<1>1. inTransaction = TRUE /\ autocommit = FALSE
  BY DEF Recoverable, AutocommitExclusive, TypeOK
<1>2. \A s : Done(s).exc = "none" /\ Done(s).srv = s
  BY DEF Done, Reply
<1>3. \A s : Entered(s) = {Done(s)}
  BY <1>1 DEF Entered
<1> QED BY <1>1, <1>2, <1>3 DEF InTransactionAfterEntry

\* No failure of a statement returns normally.
LEMMA FailuresRaise ==
    ASSUME NEW c, NEW k, NEW t, NEW call, NEW r, NEW replies, last'.exc = "none"
    PROVE  /\ ~Recovered(c, k, t, call, r, replies)
           /\ ~Unrecovered(c, k, t, call, r)
           /\ ~Unbound(c, r, k, t, call)
BY DEF Recovered, Unrecovered, Unbound, Returned

LEMMA AcceptedSpared ==
    ASSUME NEW c, NEW k, NEW t, NEW call, NEW r, NEW portal \in BOOLEAN, r.srv \in Session,
           Accepted(c, k, t, call, r, portal), last'.exc = "none"
    PROVE  r.exc = "none" /\ Spared(r.srv, srv')
<1>1. CASE portal
  <2>1. PICK f \in UsePortal(r.srv, k.name) : srv' = f.srv /\ f.exc = "none" /\ r.exc = "none"
    BY <1>1 DEF Accepted, Returned
  <2> QED BY <2>1, PortalSpared
<1>2. CASE ~portal
  BY <1>2 DEF Accepted, Spared
<1> QED BY <1>1, <1>2

LEMMA ExecuteSpared ==
    ASSUME TypeOK, AutocommitExclusive, Recoverable, PortalBacked, isOpen, srv.tx = "trans",
           ParamsKinds \cap {"commit", "rollback"} = {}, last'.exc = "none",
           NEW c \in Cursors, NEW kind \in Kinds, Execute(c, kind) \/ ExecuteParams(c, kind)
    PROVE  Spared(srv, srv')
<1> DEFINE s == ReselectSession(c, kind)
           k == Reselected(c, kind)
           portal == kind = "select" /\ ~autocommit
           k0 == IF portal THEN [k EXCEPT !.closed = "0"] ELSE k
           k1 == [k0 EXCEPT !.res = IF kind \in {"select", "direct"} THEN "rows" ELSE "other"]
           t == InTransactionAfterEntry
<1>1. s \in Session /\ k \in Cursor
  BY ReselectKeeps
<1>2. Spared(srv, s)
  BY ResetSessionSpared DEF ReselectSession, Spared
<1>3. RunStatement(c, s, k, kind) /\ kind \in Kinds \ {"commit", "rollback"}
  BY OpenTransaction DEF Execute, ExecuteParams
<1>4. PICK e \in Entered(s) :
           \/ e.exc # "none"
           \/ \/ Unbound(c, e.srv, k0, t, "execute")
              \/ \E r \in Sent(e.srv, kind, portal, k.name) :
                    \/ Accepted(c, k1, t, "execute", r, portal)
                    \/ Recovered(c, k0, t, "execute", r, Rollback(r.srv))
                    \/ Unrecovered(c, k0, t, "execute", r)
  BY <1>3 DEF RunStatement
<1>5. portal \in BOOLEAN /\ (portal => kind = "select") /\ k.name \in Names
  BY <1>1 DEF Cursor
<1> HIDE DEF s, k, portal, k0, k1, t
<1>6. e.exc = "none" /\ e.srv = s
  BY <1>4, OpenTransaction
<1>7. PICK r \in Sent(s, kind, portal, k.name) : Accepted(c, k1, t, "execute", r, portal)
  BY <1>4, <1>6, FailuresRaise
<1>8. r.srv \in Session
  BY <1>1, <1>3, <1>5, <1>7, SentType DEF Replies
<1>9. r.exc = "none" /\ Spared(r.srv, srv')
  BY <1>5, <1>7, <1>8, AcceptedSpared
<1>10. Spared(s, r.srv)
  BY <1>1, <1>3, <1>5, <1>7, <1>9, SentSpared
<1> QED BY <1>2, <1>9, <1>10 DEF Spared

LEMMA CallprocSpared ==
    ASSUME TypeOK, AutocommitExclusive, Recoverable, isOpen, srv.tx = "trans",
           last'.exc = "none", NEW c \in Cursors, Callproc(c)
    PROVE  Spared(srv, srv')
<1> DEFINE t == InTransactionAfterEntry
           k == cursors[c]
           k1 == [k EXCEPT !.res = "rows"]
<1>1. PICK e \in Entered(srv) :
              \/ e.exc # "none"
              \/ \/ Unbound(c, e.srv, k, t, "callproc")
                 \/ \E r \in ProcedureReplies(e.srv) :
                       \/ Accepted(c, k1, t, "callproc", r, FALSE)
                       \/ Recovered(c, k, t, "callproc", r, Commit(r.srv))
                       \/ Unrecovered(c, k, t, "callproc", r)
  BY DEF Callproc
<1> HIDE DEF k, k1, t
<1>2. e.exc = "none" /\ e.srv = srv
  BY <1>1, OpenTransaction
<1>3. PICK r \in ProcedureReplies(srv) : Accepted(c, k1, t, "callproc", r, FALSE)
  BY <1>1, <1>2, FailuresRaise
<1>4. srv \in Session /\ r.srv \in Session
  BY <1>3, ProcedurePlain DEF Replies, TypeOK
<1>5. r.exc = "none" /\ Spared(r.srv, srv')
  BY <1>3, <1>4, AcceptedSpared
<1>6. Spared(srv, r.srv)
  BY <1>3, <1>4, <1>5, ProcedureSpared
<1> QED BY <1>5, <1>6, SparedTransitive

LEMMA NewCursorSpared ==
    ASSUME TypeOK, AutocommitExclusive, Recoverable, isOpen, srv.tx = "trans",
           last'.exc = "none", NEW c \in Cursors, NEW n, NEW isRefCursor \in BOOLEAN,
           NewCursor(c, n, isRefCursor)
    PROVE  Spared(srv, srv')
<1> DEFINE k == [closed |-> "0", name |-> n, res |-> "rows"]
           Closed(f) == ResetSession(f.srv, k, InTransactionAfterEntry)
<1>1. PICK e \in Entered(srv) :
          \/ srv' = e.srv
          \/ \E f \in UsePortal(e.srv, n) :
                /\ srv' = IF f.exc = "none" THEN f.srv ELSE Closed(f)
                /\ Returned("cursor", f.exc)
  BY DEF NewCursor
<1>2. e.exc = "none" /\ e.srv = srv
  BY <1>1, OpenTransaction
<1> HIDE DEF Closed
<1>3. srv' = srv \/ \E f \in UsePortal(srv, n) : f.exc = "none" /\ srv' = f.srv
  BY <1>1, <1>2 DEF Returned
<1>4. srv \in Session
  BY DEF TypeOK
<1>5. Spared(srv, srv)
  BY DEF Spared
<1> QED BY <1>3, <1>4, <1>5, PortalSpared

LEMMA PortalStepSpared ==
    ASSUME TypeOK, PortalBacked, last'.exc = "none", NEW c \in Cursors,
           Fetch(c) \/ Rewind(c) \/ CloseCursor(c) \/ DropCursor(c)
    PROVE  Spared(srv, srv')
<1>1. CASE Fetch(c) \/ Rewind(c)
  <2>1. PICK f \in UsePortal(srv, cursors[c].name) : srv' = f.srv /\ f.exc = "none"
    BY <1>1 DEF Fetch, Rewind, PortalCommand, Returned
  <2> QED BY <2>1, PortalSpared DEF TypeOK
<1>2. CASE CloseCursor(c) \/ DropCursor(c)
  <2>1. srv' = srv \/ srv' = ResetSession(srv, cursors[c], inTransaction)
    BY <1>2 DEF CloseCursor, DropCursor
  <2> QED BY <2>1, ResetSessionSpared DEF Spared
<1> QED BY <1>1, <1>2

\* commit(), called or executed.
LEMMA CommitStepSurvive ==
    ASSUME TypeOK, PortalBacked, OwnPortals, srv.tx = "trans", last'.exc = "none", NEW call,
           EndTransaction(srv, TRUE, Commit(CloseCursorsSession(srv, TRUE)), call)
    PROVE  Survive
<1> DEFINE u == CloseCursorsSession(srv, TRUE)
<1>1. u \in Session /\ Spared(srv, u)
  BY CloseCursorsSessionType, CloseCursorsSpared DEF TypeOK
<1> HIDE DEF u
<1>2. EndTransaction(srv, TRUE, Commit(u), call)
  BY DEF u
<1>3. PICK r \in Commit(u) : srv' = r.srv /\ Raised(r) = "none"
  BY <1>2 DEF EndTransaction, Returned
<1>4. r.exc = "none"
  BY <1>3 DEF Raised
<1>5. u.pending \subseteq srv'.durable
  BY <1>1, <1>3, <1>4, CommitSpared DEF Spared
<1> QED BY <1>1, <1>5 DEF Survive, Spared

LEMMA ExecuteEndSurvive ==
    ASSUME TypeOK, AutocommitExclusive, Recoverable, PortalBacked, OwnPortals, isOpen,
           srv.tx = "trans", last'.exc = "none", last'.call # "rollback",
           NEW c \in Cursors, NEW kind \in Kinds, ExecuteEnd(c, kind)
    PROVE  Survive
<1>1. PICK e \in Entered(srv) :
          \/ e.exc # "none"
          \/ EndTransaction(e.srv, TRUE, Commit(CloseCursorsSession(e.srv, TRUE)), "commit")
          \/ EndTransaction(e.srv, TRUE, Rollback(CloseCursorsSession(e.srv, TRUE)), "rollback")
  BY DEF ExecuteEnd
<1>2. e.exc = "none" /\ e.srv = srv
  BY <1>1, OpenTransaction
<1> DEFINE u == CloseCursorsSession(srv, TRUE)
<1> HIDE DEF u
<1>3. ASSUME EndTransaction(srv, TRUE, Rollback(u), "rollback")
      PROVE  FALSE
  <2>1. PICK r \in Rollback(u) : Returned("rollback", Raised(r))
    BY <1>3 DEF EndTransaction
  <2> QED BY <2>1 DEF Returned
<1>4. EndTransaction(srv, TRUE, Commit(CloseCursorsSession(srv, TRUE)), "commit")
  BY <1>1, <1>2, <1>3 DEF u
<1> QED BY <1>4, CommitStepSurvive

LEMMA LargeObjectStepSpared ==
    ASSUME TypeOK, AutocommitExclusive, Recoverable, isOpen, srv.tx = "trans",
           last'.exc = "none", NEW w \in Unused(srv),
           Unlink(w) \/ \E withString \in BOOLEAN : Binary(withString, w)
    PROVE  Spared(srv, srv')
<1>1. srv \in Session /\ Changed(srv, w) \in Session /\ Spared(srv, Changed(srv, w))
  BY ChangedType, ChangedSpared DEF TypeOK, Unused
<1>2. CASE Unlink(w)
  <2>1. PICK r \in LargeObjectCall(srv, Changed(srv, w), "IOError") :
           srv' = r.srv /\ Raised(r) = "none"
    BY <1>2 DEF Unlink, Returned
  <2>2. r.exc = "none"
    BY <2>1 DEF Raised
  <2> QED BY <1>1, <2>1, <2>2, LargeObjectSpared
<1>3. ASSUME NEW withString \in BOOLEAN, Binary(withString, w)
      PROVE  Spared(srv, srv')
  <2>1. PICK e \in Entered(srv) :
          \/ e.exc # "none"
          \/ \E r \in LargeObjectCall(e.srv, Changed(e.srv, w), "OperationalError") :
                /\ r.exc = "none"
                /\ \/ srv' = r.srv
                   \/ \E q \in LargeObjectCall(r.srv, r.srv, "IOError") :
                         q.exc = "none" /\ srv' = q.srv
    <3>1. PICK e \in Entered(srv) :
             \/ e.exc # "none"
             \/ \E r \in LargeObjectCall(e.srv, Changed(e.srv, w), "OperationalError") :
                   \/ srv' = r.srv /\ last'.exc = IF r.exc = "none" /\ (e.notice \/ r.notice)
                                                  THEN "Warning" ELSE r.exc
                   \/ /\ r.exc = "none"
                      /\ \E q \in LargeObjectCall(r.srv, r.srv, "IOError") :
                            IF Raised(q) = "Warning"
                            THEN \E b \in Rollback(q.srv) :
                                    last'.exc = IF b.exc = "none" THEN "Warning" ELSE b.exc
                            ELSE srv' = q.srv /\ last'.exc = q.exc
      BY <1>3 DEF Binary, Returned
    <3> QED BY <3>1
  <2>2. e.exc = "none" /\ e.srv = srv
    BY <2>1, OpenTransaction
  <2>3. PICK r \in LargeObjectCall(srv, Changed(srv, w), "OperationalError") :
                /\ r.exc = "none"
                /\ \/ srv' = r.srv
                   \/ \E q \in LargeObjectCall(r.srv, r.srv, "IOError") :
                         q.exc = "none" /\ srv' = q.srv
    BY <2>1, <2>2
  <2>4. r.srv \in Session /\ Spared(srv, r.srv)
    BY <1>1, <2>3, LargeObjectCallType, LargeObjectSpared DEF Exceptions, Replies
  <2>5. Spared(r.srv, srv')
    <3>1. Spared(r.srv, r.srv)
      BY DEF Spared
    <3> QED BY <2>3, <2>4, <3>1, LargeObjectSpared
  <2> QED BY <2>4, <2>5, SparedTransitive
<1> QED BY <1>2, <1>3

LEMMA LossStep ==
    ASSUME TypeOK, Exclusive, Recoverable, PortalBacked, OwnPortals,
           ParamsKinds \cap {"commit", "rollback"} = {}, Next,
           srv.tx = "trans", last'.call \notin Discarding \cup {"none"}, last'.exc = "none"
    PROVE  Survive
<1>0. AutocommitExclusive /\ \A c \in Cursors : Live(c) => isOpen
  BY DEF Exclusive, AnyLeft
<1>1. ASSUME NEW c \in Cursors,
             \E n \in {c} \cup UserNames, isRefCursor \in BOOLEAN : NewCursor(c, n, isRefCursor)
      PROVE  Spared(srv, srv')
  <2>1. isOpen
    BY <1>1 DEF NewCursor
  <2> QED BY <1>0, <1>1, <2>1, NewCursorSpared
<1>2. ASSUME NEW c \in Cursors, NEW kind \in Kinds, Execute(c, kind) \/ ExecuteParams(c, kind)
      PROVE  Spared(srv, srv')
  <2>1. isOpen
    BY <1>0, <1>2 DEF Execute, ExecuteParams
  <2> QED BY <1>0, <1>2, <2>1, ExecuteSpared
<1>3. ASSUME NEW c \in Cursors, NEW kind \in Kinds, ExecuteBegin(c, kind)
      PROVE  FALSE
  <2>1. isOpen /\ ~inTransaction
    BY <1>0, <1>3 DEF ExecuteBegin
  <2> QED BY <2>1 DEF Recoverable
<1>4. ASSUME NEW c \in Cursors, NEW kind \in Kinds, ExecuteEnd(c, kind)
      PROVE  Survive
  <2>1. isOpen
    BY <1>0, <1>4 DEF ExecuteEnd
  <2> QED BY <1>0, <1>4, <2>1, ExecuteEndSurvive DEF Discarding
<1>5. ASSUME NEW c \in Cursors, Callproc(c)
      PROVE  Spared(srv, srv')
  <2>1. isOpen
    BY <1>0, <1>5 DEF Callproc, Live
  <2> QED BY <1>0, <1>5, <2>1, CallprocSpared
<1>6. ASSUME NEW c \in Cursors, Fetch(c) \/ Rewind(c) \/ CloseCursor(c) \/ DropCursor(c)
      PROVE  Spared(srv, srv')
  BY <1>6, PortalStepSpared
<1>7. CASE ConnectionCommit
  <2>1. inTransaction = TRUE
    BY <1>0, <1>7, OpenTransaction DEF ConnectionCommit
  <2>2. EndTransaction(srv, TRUE, Commit(CloseCursorsSession(srv, TRUE)), "commit")
    BY <1>7, <2>1 DEF ConnectionCommit
  <2> QED BY <2>2, CommitStepSurvive
<1>8. ~ConnectionRollback
  <2> SUFFICES ASSUME ConnectionRollback
               PROVE  FALSE
    OBVIOUS
  <2>1. inTransaction = TRUE
    BY <1>0, OpenTransaction DEF ConnectionRollback
  <2> DEFINE u == CloseCursorsSession(srv, inTransaction)
  <2>2. EndTransaction(srv, TRUE, Rollback(u), "rollback")
    BY <2>1 DEF ConnectionRollback
  <2> HIDE DEF u
  <2>3. last'.call = "rollback"
    BY <2>2 DEF EndTransaction, Returned
  <2> QED BY <2>3 DEF Discarding
<1>9. ~CloseConnection /\ ~BackendDies
  <2>1. /\ CloseConnection => Returned("close", "none")
        /\ BackendDies => Returned("none", "none")
    BY DEF CloseConnection, BackendDies
  <2> QED BY <2>1 DEF Returned, Discarding
<1>10. /\ \A value : ~SetAutocommit(value)
       /\ \A value : ~SetTransactionLevel(value)
  <2>1. ASSUME NEW value, SetAutocommit(value)
        PROVE  last'.call = "autocommit"
    BY <2>1 DEF SetAutocommit, Returned
  <2>2. ASSUME NEW value, SetTransactionLevel(value)
        PROVE  last'.call = "TransactionLevel"
    BY <2>2 DEF SetTransactionLevel, Returned
  <2> QED BY <2>1, <2>2 DEF Discarding
<1>11. ASSUME NEW w \in Unused(srv),
              Unlink(w) \/ \E withString \in BOOLEAN : Binary(withString, w)
       PROVE  Spared(srv, srv')
  <2>1. isOpen
    BY <1>11 DEF Unlink, Binary
  <2> QED BY <1>0, <1>11, <2>1, LargeObjectStepSpared
<1>12. Spared(srv, srv') => Survive
  BY DEF Spared, Survive
<1> QED BY <1>1, <1>2, <1>3, <1>4, <1>5, <1>6, <1>7, <1>8, <1>9, <1>10, <1>11, <1>12 DEF Next

LEMMA ExclusiveInvariant == Spec => []Exclusive
<1>1. Init => Exclusive
  BY DEF Init, Exclusive, AutocommitExclusive
<1>2. TypeOK /\ Exclusive /\ [Next]_vars => Exclusive'
  <2>1. ASSUME Exclusive, UNCHANGED vars
        PROVE  Exclusive'
    BY <2>1 DEF vars, Exclusive, AutocommitExclusive, AnyLeft, Live
  <2> QED BY <2>1, ExclusiveStep
<1> QED BY <1>1, <1>2, TypeCorrect, PTL DEF Spec

\* The application is told of every loss of what its open transaction holds, by the
\* call that loses it: a call that is not meant to discard and raises nothing leaves the
\* changes in the transaction, or made them durable.  The hard part is the CLOSE that
\* __reset and __closeCursors send and whose error they ignore: it is harmless only
\* because the cursor has a portal of its own, so the theorem needs what PortalBacked
\* and Recoverable need.
THEOREM EveryLossIsReported ==
    ASSUME UserNames = {}, {"notice", "internal", "binding"} \cap Faults = {},
           ParamsKinds \cap {"commit", "rollback"} = {},
           AutocommitKinds \cap {"begin", "begin_level"} = {}
    PROVE  Spec => LossReported
<1> DEFINE Lossless ==
        (srv.tx = "trans" /\ srv.pending # {} /\ last'.call \notin Discarding \cup {"none"}
         /\ last'.exc = "none")
        => \/ srv'.tx = "trans" /\ srv.pending \subseteq srv'.pending
           \/ srv.pending \subseteq srv'.durable
<1>0. "notice" \notin Faults /\ "internal" \notin Faults
  OBVIOUS
<1>1. Portals => OwnPortals
  BY DEF Portals, Named, OwnPortals
<1>2. TypeOK /\ Exclusive /\ Recoverable /\ PortalBacked /\ OwnPortals /\ [Next]_vars
      => [Lossless]_vars
  <2>1. (srv.tx = "trans" /\ last'.call \notin Discarding \cup {"none"} /\ last'.exc = "none"
         => Survive) => Lossless
    BY DEF Survive
  <2> QED BY <2>1, LossStep
<1>3. Spec => []Portals
  BY <1>0, PortalsInvariant
<1>4. Spec => []PortalBacked
  BY EveryCursorIsBacked
<1>5. Spec => []Recoverable
  BY <1>0, SessionIsRecoverable
<1>6. [][Lossless]_vars => LossReported
  BY PTL DEF LossReported
<1> QED BY <1>1, <1>2, <1>3, <1>4, <1>5, <1>6, ExclusiveInvariant, TypeCorrect, PTL DEF Spec
=============================================================================
