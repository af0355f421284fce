------------------------------- MODULE Backend -------------------------------
(***************************************************************************)
(* The PostgreSQL session at the other end of one connection, as the code  *)
(* of pyPgSQL uses it.  The server is not part of the repository: a        *)
(* statement is modelled by the set of replies the session may give to it, *)
(* a reply being the session afterwards, the exception that pgconnection.c *)
(* makes of the result status, and whether a notice was queued.  The       *)
(* replies are those of the servers the package is tested with (8.2 and    *)
(* later): in an aborted transaction every statement but its end fails.    *)
(***************************************************************************)
CONSTANTS
    Names,      \* names under which a portal can be declared
    Writes,     \* tokens for the changes statements make to the database
    Faults      \* what may go wrong, a subset of FaultKinds

\* "operational": a statement fails with PGRES_FATAL_ERROR (OperationalError);
\* "integrity":   a write fails with a referential integrity violation;
\* "internal":    libpq cannot make sense of a reply (PGRES_BAD_RESPONSE);
\* "lost":        the backend goes away, alone or while it commits;
\* "notice":      a reply comes with a notice nobody asked for;
\* "binding":     the caller's parameters do not fit the query (a Python error).
FaultKinds == {"operational", "integrity", "internal", "lost", "notice", "binding"}

ASSUME BackendAssumption == Faults \subseteq FaultKinds

TxStatus == {"idle", "trans", "aborted", "down"}

\* portals: the open portals; pending: the changes of the open transaction,
\* which an aborted one keeps until it ends; durable: the committed changes.
Session == [tx : TxStatus, portals : SUBSET Names,
            pending : SUBSET Writes, durable : SUBSET Writes]

FreshSession == [tx |-> "idle", portals |-> {}, pending |-> {}, durable |-> {}]

Exceptions == {"none", "OperationalError", "IntegrityError", "InternalError", "IOError"}

-----------------------------------------------------------------------------
(* What a statement does to the session. *)

\* An error aborts the transaction it happens in, and its portals with it.
AbortedBy(s) == IF s.tx = "trans" THEN [s EXCEPT !.tx = "aborted", !.portals = {}] ELSE s

\* The transaction is over and the changes in d are what is durable.
EndedWith(d) == [tx |-> "idle", portals |-> {}, pending |-> {}, durable |-> d]

\* The backend is gone: what it had not committed is lost.
GoneWith(d) == [tx |-> "down", portals |-> {}, pending |-> {}, durable |-> d]

-----------------------------------------------------------------------------
(* Replies. *)

Reply(s, e, n) == [srv |-> s, exc |-> e, notice |-> n]
Done(s) == Reply(s, "none", FALSE)
Refused(s) == Reply(AbortedBy(s), "OperationalError", FALSE)

\* The replies R, when the condition c allows them.
When(c, R) == IF c THEN R ELSE {}

\* Any reply may bring an unsolicited notice.
WithNotices(R) ==
    R \cup When("notice" \in Faults, {[r EXCEPT !.notice = TRUE] : r \in R})

Runs(s) == s.tx \in {"idle", "trans"}

\* A statement that takes the session s to t when the session accepts it.
Statement(s, accepted, t) ==
    WithNotices(
        IF Runs(s) /\ accepted
        THEN {Done(t)}
             \cup When("operational" \in Faults, {Refused(s)})
             \cup When("internal" \in Faults, {Reply(u, "InternalError", FALSE) : u \in {s, t}})
        ELSE {Refused(s)})

Query(s) == Statement(s, TRUE, s)

\* A change is named by a token that is not in use, so Writes bounds how many
\* changes are held at a time.
Unused(s) == Writes \ (s.pending \cup s.durable)

\* A change belongs to the open transaction, or is durable at once without one.
Changed(s, w) == IF s.tx = "trans" THEN [s EXCEPT !.pending = @ \cup {w}]
                                   ELSE [s EXCEPT !.durable = @ \cup {w}]

Write(s, w) ==
    Statement(s, TRUE, Changed(s, w))
    \cup When(Runs(s) /\ "integrity" \in Faults,
              {Reply(AbortedBy(s), "IntegrityError", FALSE)})

\* The lo_ functions of libpq only tell whether they failed; their caller in
\* pgconnection.c or pglargeobject.c raises e.
LargeObjectCall(s, t, e) ==
    {[r EXCEPT !.exc = IF @ = "none" THEN @ ELSE e] : r \in Statement(s, TRUE, t)}

\* A portal lives in a transaction, under a name that is not in use.
Declare(s, n) ==
    Statement(s, s.tx = "trans" /\ n \notin s.portals, [s EXCEPT !.portals = @ \cup {n}])

\* FETCH and MOVE need the portal.
UsePortal(s, n) == Statement(s, n \in s.portals, s)

\* CLOSE, for callers that ignore its outcome.
ClosedPortal(s, n) ==
    IF n \in s.portals THEN [s EXCEPT !.portals = @ \ {n}] ELSE AbortedBy(s)

\* BEGIN inside a transaction only brings a warning.
Begin(s) ==
    WithNotices(IF Runs(s) THEN {Reply([s EXCEPT !.tx = "trans"], "none", s.tx = "trans")}
                           ELSE {Refused(s)})

\* SET TRANSACTION ISOLATION LEVEL may come too late in a transaction that was
\* open before.
SetLevel(s, fresh) == WithNotices({Done(s)} \cup When(~fresh, {Refused(s)}))

\* COMMIT of an aborted transaction succeeds and discards it; outside one, both
\* COMMIT and ROLLBACK only warn.  A constraint may fail as late as COMMIT, and
\* the backend may be lost before or after COMMIT took effect.
Commit(s) ==
    WithNotices(
        CASE s.tx = "trans" ->
                {Done(EndedWith(s.durable \cup s.pending))}
                \cup When("operational" \in Faults,
                          {Reply(EndedWith(s.durable), "OperationalError", FALSE)})
                \cup When("integrity" \in Faults,
                          {Reply(EndedWith(s.durable), "IntegrityError", FALSE)})
                \cup When("lost" \in Faults,
                          {Reply(GoneWith(d), "OperationalError", FALSE) :
                              d \in {s.durable, s.durable \cup s.pending}})
          [] s.tx = "aborted" -> {Done(EndedWith(s.durable))}
          [] s.tx = "idle" -> {Reply(s, "none", TRUE)}
          [] OTHER -> {Refused(s)})

Rollback(s) ==
    WithNotices(
        CASE s.tx \in {"trans", "aborted"} -> {Done(EndedWith(s.durable))}
          [] s.tx = "idle" -> {Reply(s, "none", TRUE)}
          [] OTHER -> {Refused(s)})

=============================================================================
