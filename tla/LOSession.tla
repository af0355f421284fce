------------------------------ MODULE LOSession ------------------------------
(***************************************************************************)
(* The PgLargeObjects of one connection, the transactions that they, or    *)
(* the application, begin and end on it, and the cache by which getvalue() *)
(* knows an OID for a large object (pglargeobject.c, pgresult.c and the    *)
(* lo_ methods of pgconnection.c).  A descriptor is a number that only     *)
(* means something in the transaction that opened it, and the server uses  *)
(* the numbers again.                                                      *)
(***************************************************************************)
EXTENDS Integers, FiniteSets, FiniteSetsExt

CONSTANTS
    Objects,     \* PgLargeObjects
    Oids,        \* OIDs above MAX_RESERVED_OID
    Careful,     \* the application ends a transaction, and unlinks a large
                 \* object, only when no PgLargeObject is open on it
    NoOid, Nobody, Application   \* "no object", and the two owners that are no PgLargeObject

ASSUME LOSessionAssumption ==
    /\ IsFiniteSet(Objects)
    /\ Careful \in BOOLEAN
    /\ NoOid \notin Oids
    /\ Nobody # Application
    /\ Objects \cap {Nobody, Application} = {}

Fds == 0 .. Cardinality(Objects) - 1

VARIABLES
    tx,          \* server: "idle", "trans" or "aborted"
    fds,         \* server: the large object each open descriptor is for
    exists,      \* server: the large objects there are, as this session sees it
    committed,   \* server: the large objects there are for everybody
    objs,        \* the PgLargeObjects: lo_oid, lo_fd and need_commit
    oidCache,    \* what getvalue remembers of an OID, of any connection
    owner,       \* who began the transaction: the application, or an object
    answer       \* what the latest getvalue took its OID for

server == <<tx, fds, exists, committed>>
vars == <<tx, fds, exists, committed, objs, oidCache, owner, answer>>

\* What getvalue has found out about an OID.
Known == {"unknown", "large object", "plain"}

NoObject == [lo_oid |-> NoOid, lo_fd |-> -1, need_commit |-> 0]

Init ==
    /\ tx = "idle"
    /\ fds = [d \in Fds |-> NoOid]
    /\ exists \in SUBSET Oids
    /\ committed = exists
    /\ objs = [o \in Objects |-> NoObject]
    /\ oidCache = [i \in Oids |-> "unknown"]
    /\ owner = Nobody
    /\ answer = "none"

IsOpen(o) == objs[o].lo_fd >= 0
OpenObjects == {o \in Objects : IsOpen(o)}

-----------------------------------------------------------------------------
(* The server. *)

NoDescriptors == [d \in Fds |-> NoOid]

\* A statement fails: the transaction it is in is aborted, and its descriptors
\* are closed.
Fails ==
    /\ tx' = IF tx = "trans" THEN "aborted" ELSE tx
    /\ fds' = IF tx = "trans" THEN NoDescriptors ELSE fds
    /\ UNCHANGED <<exists, committed, owner>>

\* COMMIT WORK, which is a ROLLBACK for an aborted transaction, and ROLLBACK WORK.
Ends(commit) ==
    /\ tx' = "idle"
    /\ fds' = NoDescriptors
    /\ owner' = Nobody
    /\ IF commit /\ tx # "aborted"
       THEN committed' = exists /\ UNCHANGED exists
       ELSE exists' = committed /\ UNCHANGED committed

\* lo_open gives the lowest descriptor that is free, in a transaction.
LoOpens(i) == tx = "trans" /\ i \in exists
FreeFd == Min({d \in Fds : fds[d] = NoOid})

\* A statement of its own outside a transaction is committed at once.
Creates(i) ==
    /\ exists' = exists \cup {i}
    /\ committed' = IF tx = "idle" THEN committed \cup {i} ELSE committed
    /\ UNCHANGED <<tx, fds, owner>>

-----------------------------------------------------------------------------
(* Making PgLargeObjects. *)

\* PgLargeObject_New
MakeObject(o, i, need) ==
    /\ objs[o] = NoObject
    /\ objs' = [objs EXCEPT ![o] = [lo_oid |-> i, lo_fd |-> -1, need_commit |-> need]]

\* PgLargeObject(conn, oid), which may begin a transaction when it is opened.
NewObject(o, i) ==
    /\ MakeObject(o, i, 0)
    /\ UNCHANGED <<server, owner, oidCache, answer>>

\* lo_creat and lo_import; they raise when the server refuses.
Creat(o, i) ==
    /\ \/ tx # "aborted" /\ i \notin exists /\ Creates(i) /\ MakeObject(o, i, -1)
       \/ Fails /\ UNCHANGED objs
    /\ UNCHANGED <<oidCache, answer>>

\* lo_unlink; the server closes the descriptors of the large object too.
Unlink(i) ==
    /\ Careful => \A o \in OpenObjects : objs[o].lo_oid # i
    /\ IF tx = "aborted" \/ i \notin exists
       THEN Fails
       ELSE /\ exists' = exists \ {i}
            /\ committed' = IF tx = "idle" THEN committed \ {i} ELSE committed
            /\ fds' = [d \in Fds |-> IF fds[d] = i THEN NoOid ELSE fds[d]]
            /\ UNCHANGED <<tx, owner>>
    /\ UNCHANGED <<objs, oidCache, answer>>

\* getvalue of a column of type OID: a PgLargeObject, or the number.
Answers(o, i, known) ==
    /\ answer' = known
    /\ IF known = "large object" THEN MakeObject(o, i, -1) ELSE UNCHANGED objs

GetvalueCached(o, i) ==
    /\ oidCache[i] # "unknown"
    /\ Answers(o, i, oidCache[i])
    /\ UNCHANGED <<server, owner, oidCache>>

\* The query that looks for the OID in pg_largeobject may itself fail.
GetvalueQueried(o, i) ==
    /\ oidCache[i] = "unknown"
    /\ IF tx = "aborted"
       THEN Fails /\ answer' = "none" /\ UNCHANGED <<objs, oidCache>>
       ELSE LET known == IF i \in exists THEN "large object" ELSE "plain"
            IN /\ Answers(o, i, known)
               /\ oidCache' = [oidCache EXCEPT ![i] = known]
               /\ UNCHANGED <<server, owner>>

-----------------------------------------------------------------------------
(* Operations of a PgLargeObject. *)

OpensAs(o, need) ==
    /\ objs' = [objs EXCEPT ![o].lo_fd = FreeFd, ![o].need_commit = need]
    /\ fds' = [fds EXCEPT ![FreeFd] = objs[o].lo_oid]
    /\ UNCHANGED <<exists, committed, oidCache, answer>>

\* open: lo_open succeeds at once.
Open(o) ==
    /\ ~IsOpen(o) /\ objs[o] # NoObject
    /\ LoOpens(objs[o].lo_oid)
    /\ OpensAs(o, objs[o].need_commit)
    /\ UNCHANGED <<tx, owner>>

\* open: it fails, and the object may not begin a transaction; the second attempt
\* of one that may is as bad in a transaction, which BEGIN WORK leaves alone.
OpenRefused(o) ==
    /\ ~IsOpen(o) /\ objs[o] # NoObject
    /\ ~LoOpens(objs[o].lo_oid)
    /\ objs[o].need_commit < 0 \/ tx # "idle"
    /\ Fails
    /\ UNCHANGED <<objs, oidCache, answer>>

\* open: it fails, BEGIN WORK is sent, and it succeeds.
OpenBegins(o) ==
    /\ ~IsOpen(o) /\ objs[o] # NoObject
    /\ tx = "idle" /\ objs[o].need_commit >= 0
    /\ objs[o].lo_oid \in exists
    /\ tx' = "trans"
    /\ owner' = o
    /\ OpensAs(o, 1)

\* open: it fails again after BEGIN WORK; nobody ends the transaction.
OpenBeginsInVain(o) ==
    /\ ~IsOpen(o) /\ objs[o] # NoObject
    /\ tx = "idle" /\ objs[o].need_commit >= 0
    /\ objs[o].lo_oid \notin exists
    /\ tx' = "aborted"
    /\ owner' = o
    /\ UNCHANGED <<fds, exists, committed, objs, oidCache, answer>>

\* read, write, seek and tell reach the server with lo_fd.
Access(o) ==
    /\ IsOpen(o)
    /\ fds[objs[o].lo_fd] = NoOid
    /\ Fails
    /\ UNCHANGED <<objs, oidCache, answer>>

\* Mutants: close forgets to reset a member.
AfterCloseKeepingFd(o) == [objs EXCEPT ![o].need_commit = IF @ > 0 THEN 0 ELSE @]
AfterCloseCountingDown(o) == [objs EXCEPT ![o].lo_fd = -1, ![o].need_commit = @ - 1]
AfterCloseKeepingNeed(o) == [objs EXCEPT ![o].lo_fd = -1]

AfterClose(o) ==
    [objs EXCEPT ![o].lo_fd = -1, ![o].need_commit = IF @ > 0 THEN 0 ELSE @]

\* Mutant: close ends whatever transaction there is.
EndsAtCloseAlways(o) == TRUE

\* close ends the transaction that open began.
EndsAtClose(o) == objs[o].need_commit > 0

\* close(rollback); when lo_close fails the object stays as it is.
Close(o, rollback) ==
    /\ IsOpen(o)
    /\ rollback => objs[o].need_commit > 0
    /\ Careful /\ EndsAtClose(o) => OpenObjects = {o}
    /\ IF fds[objs[o].lo_fd] = NoOid
       THEN Fails /\ UNCHANGED objs
       ELSE /\ objs' = AfterClose(o)
            /\ IF EndsAtClose(o)
               THEN Ends(~rollback)
               ELSE /\ fds' = [fds EXCEPT ![objs[o].lo_fd] = NoOid]
                    /\ UNCHANGED <<tx, exists, committed, owner>>
    /\ UNCHANGED <<oidCache, answer>>

\* dealloc closes the descriptor and ends no transaction.
Drop(o) ==
    /\ objs[o] # NoObject
    /\ objs' = [objs EXCEPT ![o] = NoObject]
    /\ IF ~IsOpen(o) THEN UNCHANGED <<server, owner>>
       ELSE IF fds[objs[o].lo_fd] = NoOid THEN Fails
       ELSE /\ fds' = [fds EXCEPT ![objs[o].lo_fd] = NoOid]
            /\ UNCHANGED <<tx, exists, committed, owner>>
    /\ UNCHANGED <<oidCache, answer>>

-----------------------------------------------------------------------------
(* Statements of the application. *)

Begin ==
    /\ tx = "idle"
    /\ tx' = "trans"
    /\ owner' = Application
    /\ UNCHANGED <<fds, exists, committed, objs, oidCache, answer>>

End(commit) ==
    /\ tx # "idle"
    /\ Careful => OpenObjects = {}
    /\ Ends(commit)
    /\ UNCHANGED <<objs, oidCache, answer>>

StatementFails ==
    /\ tx = "trans"
    /\ Fails
    /\ UNCHANGED <<objs, oidCache, answer>>

Next ==
    \/ \E o \in Objects, i \in Oids :
          \/ NewObject(o, i) \/ Creat(o, i)
          \/ GetvalueCached(o, i) \/ GetvalueQueried(o, i)
    \/ \E i \in Oids : Unlink(i)
    \/ \E o \in Objects :
          \/ Open(o) \/ OpenRefused(o) \/ OpenBegins(o) \/ OpenBeginsInVain(o)
          \/ Access(o)
          \/ \E rollback \in BOOLEAN : Close(o, rollback)
          \/ Drop(o)
    \/ Begin
    \/ \E commit \in BOOLEAN : End(commit)
    \/ StatementFails

Spec == Init /\ [][Next]_vars

-----------------------------------------------------------------------------
(* Properties. *)

TypeOK ==
    /\ tx \in {"idle", "trans", "aborted"}
    /\ fds \in [Fds -> Oids \cup {NoOid}]
    /\ exists \subseteq Oids /\ committed \subseteq Oids
    /\ objs \in [Objects -> [lo_oid : Oids \cup {NoOid}, lo_fd : Fds \cup {-1},
                             need_commit : {-1, 0, 1}]]
    /\ oidCache \in [Oids -> Known]
    /\ owner \in Objects \cup {Nobody, Application}
    /\ answer \in {"none", "large object", "plain"}

\* The descriptor that an open PgLargeObject holds is one for its own large
\* object, and no other object holds it; or the transaction has failed and no
\* descriptor is of use.
DescriptorsOwned ==
    \A o \in OpenObjects :
        \/ tx = "aborted"
        \/ /\ tx = "trans"
           /\ fds[objs[o].lo_fd] = objs[o].lo_oid
           /\ \A q \in OpenObjects \ {o} : objs[q].lo_fd # objs[o].lo_fd

\* A PgLargeObject that will commit when it is closed is open, and the transaction
\* it is in is the one that it began itself.
CommitsItsOwn ==
    \A o \in Objects : objs[o].need_commit > 0 => IsOpen(o) /\ owner = o /\ tx # "idle"

\* No close() and no loss of a PgLargeObject ends a transaction that the application
\* began: when one ends, no object has changed.
ApplicationEndsItsOwn ==
    [][owner = Application /\ owner' # owner => objs' = objs]_vars

\* getvalue takes an OID for a large object exactly when there is one.
AnswersAreTrue ==
    [][\A o \in Objects, i \in Oids :
          GetvalueCached(o, i) => (answer' = "large object" <=> i \in exists)]_vars

=============================================================================
