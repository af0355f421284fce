--------------------------- MODULE LOSessionProofs ---------------------------
(***************************************************************************)
(* Theorems about LOSession, for every set of PgLargeObjects and of OIDs.  *)
(***************************************************************************)
EXTENDS LOSession, FiniteSetTheorems, FunctionTheorems, WellFoundedInduction, TLAPS

Object == [lo_oid : Oids \cup {NoOid}, lo_fd : Fds \cup {-1}, need_commit : {-1, 0, 1}]

\* Every descriptor that is open on the server is known to a PgLargeObject.
Held == \A d \in Fds : fds[d] # NoOid => \E o \in Objects : objs[o].lo_fd = d

\* An open PgLargeObject is one of an OID.
OpenHasOid == \A o \in Objects : IsOpen(o) => objs[o].lo_oid \in Oids

Sound == TypeOK /\ Held /\ OpenHasOid

-----------------------------------------------------------------------------
(* The lowest free descriptor. *)

LEMMA MinType ==
    ASSUME NEW S \in SUBSET Nat, S # {}
    PROVE  Min(S) \in S
<1> DEFINE Below == {p \in Nat \X Nat : p[1] < p[2]}
<1>1. IsWellFoundedOn(Below, Nat)
  BY NatLessThanWellFounded DEF OpToRel
<1>2. PICK x \in S : \A y \in S : ~(<<y, x>> \in Below)
  <2> HIDE DEF Below
  <2> QED BY <1>1, WFMin
<1>3. ASSUME NEW y \in S
      PROVE  ~(y < x)
  <2>1. ~(<<y, x>> \in Below)
    BY <1>2
  <2>2. <<y, x>> \in Nat \X Nat /\ <<y, x>>[1] = y /\ <<y, x>>[2] = x
    OBVIOUS
  <2> QED BY <2>1, <2>2
<1>4. \A y \in S : x <= y
  BY <1>3
<1> QED BY <1>4 DEF Min

LEMMA FdsType == Cardinality(Objects) \in Nat /\ Fds \subseteq Nat /\ -1 \notin Fds
BY FS_CardinalityType, LOSessionAssumption DEF Fds

\* There are as many descriptors as PgLargeObjects: one that opens finds one free.
LEMMA FreeFdType ==
    ASSUME Sound, NEW o \in Objects, ~IsOpen(o)
    PROVE  FreeFd \in Fds /\ fds[FreeFd] = NoOid
<1> DEFINE Free == {d \in Fds : fds[d] = NoOid}
<1>1. ASSUME Free = {}
      PROVE  FALSE
  <2> DEFINE Others == Objects \ {o}
             holder == [d \in Fds |-> CHOOSE q \in Objects : objs[q].lo_fd = d]
  <2>1. \A d \in Fds : holder[d] \in Objects /\ objs[holder[d]].lo_fd = d
    BY <1>1 DEF Sound, Held
  <2>2. ~(objs[o].lo_fd \in Fds)
    <3>1. \A d \in Fds : d >= 0
      BY FdsType
    <3> QED BY <3>1 DEF IsOpen
  <2>3. holder \in [Fds -> Others]
    BY <2>1, <2>2
  <2>4. \A d, e \in Fds : holder[d] = holder[e] => d = e
    BY <2>1
  <2>5. holder \in Injection(Fds, Others)
    <3> HIDE DEF holder, Others
    <3> QED BY <2>3, <2>4, Fun_IsInj
  <2>6. /\ IsFiniteSet(Others)
        /\ Cardinality(Others) = Cardinality(Objects) - 1
    BY FS_RemoveElement, LOSessionAssumption
  <2>7. Cardinality(Fds) <= Cardinality(Others)
    <3> HIDE DEF holder, Others
    <3> QED BY <2>5, <2>6, FS_Injection
  <2>8. Cardinality(Objects) > 0
    BY FS_EmptySet, FdsType, LOSessionAssumption
  <2>9. Cardinality(Fds) = Cardinality(Objects)
    BY <2>8, FdsType, FS_Interval DEF Fds
  <2> QED BY <2>6, <2>7, <2>9, FdsType
<1>2. Free \in SUBSET Nat
  BY FdsType
<1>3. Min(Free) \in Free
  <2> HIDE DEF Free
  <2> QED BY <1>1, <1>2, MinType
<1> QED BY <1>3 DEF FreeFd

-----------------------------------------------------------------------------
(* Type correctness: what each action does to Sound. *)

\* TypeOK but for the descriptors and the PgLargeObjects.
OthersTyped ==
    /\ tx \in {"idle", "trans", "aborted"}
    /\ exists \subseteq Oids /\ committed \subseteq Oids
    /\ oidCache \in [Oids -> Known]
    /\ owner \in Objects \cup {Nobody, Application}
    /\ answer \in {"none", "large object", "plain"}

LEMMA SoundTypes ==
    ASSUME Sound
    PROVE  /\ OthersTyped
           /\ fds \in [Fds -> Oids \cup {NoOid}]
           /\ objs \in [Objects -> Object]
BY DEF Sound, TypeOK, OthersTyped, Object

\* A step that opens no descriptor, and takes no PgLargeObject away from one that
\* stays open.
LEMMA NothingOpens ==
    ASSUME Sound,
           OthersTyped',
           fds' \in [Fds -> Oids \cup {NoOid}],
           objs' \in [Objects -> Object],
           \A d \in Fds : fds'[d] # NoOid =>
               /\ fds'[d] = fds[d]
               /\ \A q \in Objects : objs[q].lo_fd = d => objs'[q].lo_fd = d,
           \A q \in Objects : IsOpen(q)' =>
               /\ IsOpen(q)
               /\ objs'[q].lo_oid = objs[q].lo_oid
    PROVE  Sound'
<1>1. TypeOK'
  BY DEF TypeOK, OthersTyped, Object
<1>2. Held'
  <2> SUFFICES ASSUME NEW d \in Fds, fds'[d] # NoOid
               PROVE  \E q \in Objects : objs'[q].lo_fd = d
    BY DEF Held
  <2>1. PICK q \in Objects : objs[q].lo_fd = d
    BY DEF Sound, Held
  <2> QED BY <2>1
<1>3. OpenHasOid'
  BY DEF Sound, OpenHasOid
<1> QED BY <1>1, <1>2, <1>3 DEF Sound

LEMMA FailsKeeps ==
    ASSUME Sound, Fails
    PROVE  /\ tx' \in {"idle", "trans", "aborted"}
           /\ fds' \in [Fds -> Oids \cup {NoOid}]
           /\ \A d \in Fds : fds'[d] \in {fds[d], NoOid}
           /\ UNCHANGED <<exists, committed, owner>>
<1>1. CASE tx = "trans"
  BY <1>1 DEF Fails, NoDescriptors
<1>2. CASE tx # "trans"
  BY <1>2 DEF Sound, TypeOK, Fails
<1> QED BY <1>1, <1>2

\* A statement that fails while no PgLargeObject changes.
LEMMA FailsSound ==
    ASSUME Sound, Fails, UNCHANGED <<objs, oidCache>>, answer' \in {"none", answer}
    PROVE  Sound'
<1>1. OthersTyped'
  BY SoundTypes, FailsKeeps DEF OthersTyped
<1>2. objs' \in [Objects -> Object]
  BY SoundTypes
<1>3. \A q \in Objects : objs'[q] = objs[q] /\ (IsOpen(q)' => IsOpen(q))
  BY DEF IsOpen
<1>4. fds' \in [Fds -> Oids \cup {NoOid}] /\ \A d \in Fds : fds'[d] \in {fds[d], NoOid}
  BY FailsKeeps
<1> QED BY <1>1, <1>2, <1>3, <1>4, NothingOpens

\* A transaction ends while no PgLargeObject opens.
LEMMA EndsSound ==
    ASSUME Sound, NEW commit \in BOOLEAN, Ends(commit),
           objs' \in [Objects -> Object],
           \A q \in Objects : IsOpen(q)' => IsOpen(q) /\ objs'[q].lo_oid = objs[q].lo_oid,
           UNCHANGED <<oidCache, answer>>
    PROVE  Sound'
<1>1. exists' \subseteq Oids /\ committed' \subseteq Oids
  BY DEF Sound, TypeOK, Ends
<1>2. OthersTyped'
  BY <1>1, SoundTypes DEF OthersTyped, Ends
<1>3. fds' \in [Fds -> Oids \cup {NoOid}] /\ \A d \in Fds : fds'[d] = NoOid
  BY DEF Ends, NoDescriptors
<1> QED BY <1>2, <1>3, NothingOpens

\* A PgLargeObject is made, or none, while the descriptors stay.
LEMMA MakesSound ==
    ASSUME Sound, OthersTyped', UNCHANGED fds,
           \/ UNCHANGED objs
           \/ \E o \in Objects, i \in Oids, need \in {-1, 0} : MakeObject(o, i, need)
    PROVE  Sound'
<1>1. CASE UNCHANGED objs
  <2>1. \A q \in Objects : objs'[q] = objs[q] /\ (IsOpen(q)' => IsOpen(q))
    BY <1>1 DEF IsOpen
  <2>2. objs' \in [Objects -> Object] /\ fds' \in [Fds -> Oids \cup {NoOid}]
    BY <1>1, SoundTypes
  <2>3. \A d \in Fds : fds'[d] = fds[d]
    OBVIOUS
  <2> QED BY <2>1, <2>2, <2>3, NothingOpens
<1>2. ASSUME NEW o \in Objects, NEW i \in Oids, NEW need \in {-1, 0}, MakeObject(o, i, need)
      PROVE  Sound'
  <2> DEFINE new == [lo_oid |-> i, lo_fd |-> -1, need_commit |-> need]
  <2>1. new \in Object /\ new.lo_fd = -1
    BY DEF Object
  <2>2. objs[o].lo_fd = -1
    BY <1>2 DEF MakeObject, NoObject
  <2>3. \A q \in Objects : objs'[q] = IF q = o THEN new ELSE objs[q]
    BY <1>2, SoundTypes DEF MakeObject
  <2>4. objs' \in [Objects -> Object]
    BY <1>2, <2>1, SoundTypes DEF MakeObject
  <2> HIDE DEF new
  <2>5. \A q \in Objects : objs'[q].lo_fd = objs[q].lo_fd
    BY <2>1, <2>2, <2>3
  <2>6. \A q \in Objects : IsOpen(q)' => IsOpen(q) /\ objs'[q].lo_oid = objs[q].lo_oid
    BY <2>1, <2>3 DEF IsOpen
  <2>7. fds' \in [Fds -> Oids \cup {NoOid}] /\ \A d \in Fds : fds'[d] = fds[d]
    BY SoundTypes
  <2> QED BY <2>4, <2>5, <2>6, <2>7, NothingOpens
<1> QED BY <1>1, <1>2

-----------------------------------------------------------------------------
(* Type correctness: what each action does. *)

LEMMA InitSound ==
    ASSUME Init
    PROVE  Sound
<1>1. OthersTyped
  BY DEF Init, OthersTyped, Known
<1>2. fds \in [Fds -> Oids \cup {NoOid}] /\ \A d \in Fds : fds[d] = NoOid
  BY DEF Init
<1>3. NoObject \in Object /\ NoObject.lo_fd = -1
  BY DEF NoObject, Object
<1>4. objs \in [Objects -> Object] /\ \A o \in Objects : objs[o].lo_fd = -1
  BY <1>3 DEF Init
<1>5. TypeOK
  BY <1>1, <1>2, <1>4 DEF TypeOK, OthersTyped, Object
<1>6. Held
  BY <1>2 DEF Held
<1>7. OpenHasOid
  BY <1>4 DEF OpenHasOid, IsOpen
<1> QED BY <1>5, <1>6, <1>7 DEF Sound

LEMMA NewObjectSound ==
    ASSUME Sound, NEW o \in Objects, NEW i \in Oids, NewObject(o, i)
    PROVE  Sound'
<1>1. OthersTyped'
  BY SoundTypes DEF NewObject, server, OthersTyped
<1> QED BY <1>1, MakesSound DEF NewObject, server

LEMMA CreatSound ==
    ASSUME Sound, NEW o \in Objects, NEW i \in Oids, Creat(o, i)
    PROVE  Sound'
<1>1. CASE Creates(i) /\ MakeObject(o, i, -1)
  <2>1. exists' \subseteq Oids /\ committed' \subseteq Oids
    BY <1>1 DEF Creates, Sound, TypeOK
  <2>2. OthersTyped'
    BY <1>1, <2>1, SoundTypes DEF Creat, Creates, OthersTyped
  <2> QED BY <1>1, <2>2, MakesSound DEF Creates
<1>2. CASE Fails /\ UNCHANGED objs
  BY <1>2, FailsSound DEF Creat
<1> QED BY <1>1, <1>2 DEF Creat

LEMMA GetvalueCachedSound ==
    ASSUME Sound, NEW o \in Objects, NEW i \in Oids, GetvalueCached(o, i)
    PROVE  Sound'
<1>1. oidCache[i] \in {"large object", "plain"}
  BY SoundTypes DEF OthersTyped, Known, GetvalueCached
<1>2. OthersTyped'
  BY <1>1, SoundTypes DEF GetvalueCached, Answers, server, OthersTyped
<1>3. UNCHANGED objs \/ MakeObject(o, i, -1)
  BY DEF GetvalueCached, Answers
<1> QED BY <1>2, <1>3, MakesSound DEF GetvalueCached, server

LEMMA GetvalueQueriedSound ==
    ASSUME Sound, NEW o \in Objects, NEW i \in Oids, GetvalueQueried(o, i)
    PROVE  Sound'
<1>1. CASE tx = "aborted"
  BY <1>1, FailsSound DEF GetvalueQueried
<1>2. CASE tx # "aborted"
  <2>1. PICK known \in {"large object", "plain"} :
            /\ Answers(o, i, known)
            /\ oidCache' = [oidCache EXCEPT ![i] = known]
            /\ UNCHANGED <<server, owner>>
    BY <1>2 DEF GetvalueQueried
  <2>2. oidCache' \in [Oids -> Known]
    BY <2>1, SoundTypes DEF OthersTyped, Known
  <2>3. OthersTyped'
    BY <2>1, <2>2, SoundTypes DEF Answers, server, OthersTyped
  <2>4. UNCHANGED objs \/ MakeObject(o, i, -1)
    BY <2>1 DEF Answers
  <2> QED BY <2>1, <2>3, <2>4, MakesSound DEF server
<1> QED BY <1>1, <1>2

LEMMA UnlinkSound ==
    ASSUME Sound, NEW i \in Oids, Unlink(i)
    PROVE  Sound'
<1>1. CASE tx = "aborted" \/ i \notin exists
  BY <1>1, FailsSound DEF Unlink
<1>2. CASE ~(tx = "aborted" \/ i \notin exists)
  <2>1. exists' \subseteq Oids /\ committed' \subseteq Oids
    BY <1>2 DEF Unlink, Sound, TypeOK
  <2>2. OthersTyped'
    BY <1>2, <2>1, SoundTypes DEF Unlink, OthersTyped
  <2>3. fds' \in [Fds -> Oids \cup {NoOid}] /\ \A d \in Fds : fds'[d] \in {fds[d], NoOid}
    BY <1>2, SoundTypes DEF Unlink
  <2>4. objs' = objs
    BY DEF Unlink
  <2>5. \A q \in Objects : IsOpen(q)' => IsOpen(q)
    BY <2>4 DEF IsOpen
  <2> QED BY <2>2, <2>3, <2>4, <2>5, SoundTypes, NothingOpens
<1> QED BY <1>1, <1>2

\* What OpensAs does to the PgLargeObjects and the descriptors.
LEMMA OpensAsEffect ==
    ASSUME Sound, NEW o \in Objects, ~IsOpen(o), NEW need \in {-1, 0, 1}, OpensAs(o, need)
    PROVE  /\ FreeFd \in Fds /\ fds[FreeFd] = NoOid
           /\ objs' \in [Objects -> Object]
           /\ objs'[o].lo_oid = objs[o].lo_oid
           /\ objs'[o].lo_fd = FreeFd
           /\ objs'[o].need_commit = need
           /\ \A q \in Objects \ {o} : objs'[q] = objs[q]
           /\ fds' \in [Fds -> Oids \cup {NoOid}]
           /\ fds'[FreeFd] = objs[o].lo_oid
           /\ \A d \in Fds \ {FreeFd} : fds'[d] = fds[d]
<1> DEFINE fd == FreeFd
           new == [objs[o] EXCEPT !.lo_fd = fd, !.need_commit = need]
<1>1. fd \in Fds /\ fds[fd] = NoOid
  BY FreeFdType
<1>2. /\ objs \in [Objects -> Object] /\ objs[o] \in Object
      /\ fds \in [Fds -> Oids \cup {NoOid}]
  BY SoundTypes
<1>3. objs' = [objs EXCEPT ![o].lo_fd = fd, ![o].need_commit = need]
  BY DEF OpensAs
<1>4. fds' = [fds EXCEPT ![fd] = objs[o].lo_oid]
  BY DEF OpensAs
<1> HIDE DEF fd
<1>5. objs' = [objs EXCEPT ![o] = new]
  BY <1>2, <1>3
<1>6. /\ new \in Object
      /\ new.lo_oid = objs[o].lo_oid /\ new.lo_fd = fd /\ new.need_commit = need
  BY <1>1, <1>2 DEF Object
<1>7. /\ fds' \in [Fds -> Oids \cup {NoOid}]
      /\ fds'[fd] = objs[o].lo_oid
      /\ \A d \in Fds \ {fd} : fds'[d] = fds[d]
  <2>1. objs[o].lo_oid \in Oids \cup {NoOid}
    BY <1>2 DEF Object
  <2> QED BY <1>1, <1>2, <1>4, <2>1
<1> HIDE DEF new
<1>8. objs' \in [Objects -> Object] /\ objs'[o] = new /\ \A q \in Objects \ {o} : objs'[q] = objs[q]
  BY <1>2, <1>5, <1>6
<1> QED BY <1>1, <1>6, <1>7, <1>8 DEF fd

LEMMA OpensSound ==
    ASSUME Sound, NEW o \in Objects, ~IsOpen(o), objs[o].lo_oid \in Oids,
           NEW need \in {-1, 0, 1}, OpensAs(o, need),
           tx' \in {"idle", "trans", "aborted"},
           owner' \in Objects \cup {Nobody, Application}
    PROVE  Sound'
<1>0. /\ FreeFd \in Fds
      /\ objs'[o].lo_oid = objs[o].lo_oid /\ objs'[o].lo_fd = FreeFd
      /\ \A q \in Objects \ {o} : objs'[q] = objs[q]
      /\ \A d \in Fds \ {FreeFd} : fds'[d] = fds[d]
  BY OpensAsEffect
<1>1. OthersTyped'
  BY SoundTypes DEF OpensAs, OthersTyped
<1>2. TypeOK'
  BY <1>1, OpensAsEffect DEF TypeOK, OthersTyped, Object
<1>3. Held'
  <2> SUFFICES ASSUME NEW d \in Fds, fds'[d] # NoOid
               PROVE  \E q \in Objects : objs'[q].lo_fd = d
    BY DEF Held
  <2>1. CASE d = FreeFd
    BY <1>0, <2>1
  <2>2. CASE d # FreeFd
    <3>1. fds'[d] = fds[d]
      BY <1>0, <2>2
    <3>2. PICK q \in Objects : objs[q].lo_fd = d
      BY <3>1 DEF Sound, Held
    <3>3. q # o
      BY <3>2, FdsType DEF IsOpen
    <3> QED BY <1>0, <3>2, <3>3
  <2> QED BY <2>1, <2>2
<1>4. OpenHasOid'
  <2> SUFFICES ASSUME NEW q \in Objects, IsOpen(q)'
               PROVE  objs'[q].lo_oid \in Oids
    BY DEF OpenHasOid
  <2>1. CASE q = o
    BY <1>0, <2>1
  <2>2. CASE q # o
    <3>1. objs'[q] = objs[q]
      BY <1>0, <2>2
    <3> QED BY <3>1 DEF Sound, OpenHasOid, IsOpen
  <2> QED BY <2>1, <2>2
<1> QED BY <1>2, <1>3, <1>4 DEF Sound

LEMMA OpenSound ==
    ASSUME Sound, NEW o \in Objects, Open(o)
    PROVE  Sound'
<1>1. objs[o].lo_oid \in Oids /\ objs[o].need_commit \in {-1, 0, 1}
  BY SoundTypes DEF Open, LoOpens, Object, OthersTyped
<1> QED BY <1>1, SoundTypes, OpensSound DEF Open, OthersTyped

LEMMA OpenBeginsSound ==
    ASSUME Sound, NEW o \in Objects, OpenBegins(o)
    PROVE  Sound'
<1>1. objs[o].lo_oid \in Oids
  BY SoundTypes DEF OpenBegins, OthersTyped
<1> QED BY <1>1, OpensSound DEF OpenBegins

LEMMA OpenRefusedSound ==
    ASSUME Sound, NEW o \in Objects, OpenRefused(o) \/ Access(o) \/ StatementFails
    PROVE  Sound'
BY FailsSound DEF OpenRefused, Access, StatementFails

\* The statements that begin a transaction and touch no PgLargeObject.
LEMMA BeginSound ==
    ASSUME Sound, Begin \/ \E o \in Objects : OpenBeginsInVain(o)
    PROVE  Sound'
<1>1. OthersTyped'
  BY SoundTypes DEF Begin, OpenBeginsInVain, OthersTyped
<1> QED BY <1>1, MakesSound DEF Begin, OpenBeginsInVain

LEMMA AfterCloseEffect ==
    ASSUME Sound, NEW o \in Objects
    PROVE  /\ AfterClose(o) \in [Objects -> Object]
           /\ AfterClose(o)[o].lo_fd = -1
           /\ AfterClose(o)[o].need_commit \in {-1, 0}
           /\ \A q \in Objects \ {o} : AfterClose(o)[q] = objs[q]
<1> DEFINE need == IF objs[o].need_commit > 0 THEN 0 ELSE objs[o].need_commit
           new == [objs[o] EXCEPT !.lo_fd = -1, !.need_commit = need]
<1>1. objs \in [Objects -> Object] /\ objs[o] \in Object
  BY SoundTypes
<1>2. need \in {-1, 0}
  BY <1>1 DEF Object
<1>3. AfterClose(o) = [objs EXCEPT ![o].lo_fd = -1, ![o].need_commit = need]
  BY <1>1 DEF AfterClose
<1> HIDE DEF need
<1>4. AfterClose(o) = [objs EXCEPT ![o] = new]
  BY <1>1, <1>3
<1>5. new \in Object /\ new.lo_fd = -1 /\ new.need_commit = need
  BY <1>1, <1>2 DEF Object
<1> HIDE DEF new
<1> QED BY <1>1, <1>2, <1>4, <1>5

\* close() and dealloc when nothing else ends: the descriptor is closed.
LEMMA GivesUpSound ==
    ASSUME Sound, NEW o \in Objects, IsOpen(o),
           fds' = [fds EXCEPT ![objs[o].lo_fd] = NoOid],
           objs' \in [Objects -> Object],
           objs'[o].lo_fd = -1,
           \A q \in Objects \ {o} : objs'[q] = objs[q],
           OthersTyped'
    PROVE  Sound'
<1> DEFINE fd == objs[o].lo_fd
<1>1. fd \in Fds
  BY SoundTypes DEF Object, IsOpen
<1>2. fds' \in [Fds -> Oids \cup {NoOid}] /\ fds'[fd] = NoOid
      /\ \A d \in Fds \ {fd} : fds'[d] = fds[d]
  BY <1>1, SoundTypes
<1>3. \A q \in Objects : IsOpen(q)' => IsOpen(q) /\ objs'[q].lo_oid = objs[q].lo_oid
  BY DEF IsOpen
<1>4. ASSUME NEW d \in Fds, fds'[d] # NoOid
      PROVE  /\ fds'[d] = fds[d]
             /\ \A q \in Objects : objs[q].lo_fd = d => objs'[q].lo_fd = d
  BY <1>2, <1>4
<1> QED BY <1>2, <1>3, <1>4, NothingOpens

LEMMA CloseSound ==
    ASSUME Sound, NEW o \in Objects, NEW rollback \in BOOLEAN, Close(o, rollback)
    PROVE  Sound'
<1>1. CASE fds[objs[o].lo_fd] = NoOid
  BY <1>1, FailsSound DEF Close
<1>2. CASE fds[objs[o].lo_fd] # NoOid
  <2>1. objs' = AfterClose(o) /\ IsOpen(o)
    BY <1>2 DEF Close
  <2>2. /\ objs' \in [Objects -> Object]
        /\ objs'[o].lo_fd = -1
        /\ \A q \in Objects \ {o} : objs'[q] = objs[q]
    BY <2>1, AfterCloseEffect
  <2>3. \A q \in Objects : IsOpen(q)' => IsOpen(q) /\ objs'[q].lo_oid = objs[q].lo_oid
    BY <2>2 DEF IsOpen
  <2>4. CASE EndsAtClose(o)
    <3>1. Ends(~rollback) /\ (~rollback) \in BOOLEAN
      BY <1>2, <2>4 DEF Close
    <3> QED BY <2>2, <2>3, <3>1, EndsSound DEF Close
  <2>5. CASE ~EndsAtClose(o)
    <3>1. OthersTyped'
      BY <1>2, <2>5, SoundTypes DEF Close, OthersTyped
    <3>2. fds' = [fds EXCEPT ![objs[o].lo_fd] = NoOid]
      BY <1>2, <2>5 DEF Close
    <3> QED BY <2>1, <2>2, <3>1, <3>2, GivesUpSound
  <2> QED BY <2>4, <2>5
<1> QED BY <1>1, <1>2

LEMMA DropEffect ==
    ASSUME Sound, NEW o \in Objects, Drop(o)
    PROVE  /\ objs' \in [Objects -> Object]
           /\ objs'[o].lo_fd = -1
           /\ objs'[o].need_commit \in {-1, 0}
           /\ \A q \in Objects \ {o} : objs'[q] = objs[q]
<1>1. NoObject \in Object /\ NoObject.lo_fd = -1 /\ NoObject.need_commit = 0
  BY DEF NoObject, Object
<1>2. objs' = [objs EXCEPT ![o] = NoObject]
  BY DEF Drop
<1> QED BY <1>1, <1>2, SoundTypes

LEMMA DropSound ==
    ASSUME Sound, NEW o \in Objects, Drop(o)
    PROVE  Sound'
<1>1. CASE ~IsOpen(o)
  <2>1. \A q \in Objects : IsOpen(q)' => IsOpen(q) /\ objs'[q].lo_oid = objs[q].lo_oid
    BY <1>1, DropEffect DEF IsOpen
  <2>2. OthersTyped' /\ fds' = fds
    BY <1>1, SoundTypes DEF Drop, server, OthersTyped
  <2>3. ASSUME NEW d \in Fds
        PROVE  \A q \in Objects : objs[q].lo_fd = d => objs'[q].lo_fd = d
    <3>1. objs[o].lo_fd # d
      BY <1>1, FdsType DEF IsOpen
    <3> QED BY <3>1, DropEffect
  <2> QED BY <2>1, <2>2, <2>3, SoundTypes, DropEffect, NothingOpens
<1>2. CASE IsOpen(o) /\ fds[objs[o].lo_fd] = NoOid
  <2>1. Fails
    BY <1>2 DEF Drop
  <2>2. OthersTyped'
    BY <2>1, SoundTypes, FailsKeeps DEF Drop, OthersTyped
  <2>3. \A q \in Objects : IsOpen(q)' => IsOpen(q) /\ objs'[q].lo_oid = objs[q].lo_oid
    BY DropEffect DEF IsOpen
  <2>4. fds' \in [Fds -> Oids \cup {NoOid}] /\ \A d \in Fds : fds'[d] \in {fds[d], NoOid}
    BY <2>1, FailsKeeps
  <2>5. ASSUME NEW d \in Fds, fds'[d] # NoOid
        PROVE  /\ fds'[d] = fds[d]
               /\ \A q \in Objects : objs[q].lo_fd = d => objs'[q].lo_fd = d
    BY <1>2, <2>4, <2>5, DropEffect
  <2> QED BY <2>2, <2>3, <2>4, <2>5, DropEffect, NothingOpens
<1>3. CASE IsOpen(o) /\ fds[objs[o].lo_fd] # NoOid
  <2>1. OthersTyped' /\ fds' = [fds EXCEPT ![objs[o].lo_fd] = NoOid]
    BY <1>3, SoundTypes DEF Drop, OthersTyped
  <2> QED BY <1>3, <2>1, DropEffect, GivesUpSound
<1> QED BY <1>1, <1>2, <1>3

LEMMA EndSound ==
    ASSUME Sound, NEW commit \in BOOLEAN, End(commit)
    PROVE  Sound'
<1>1. Ends(commit) /\ objs' \in [Objects -> Object] /\ UNCHANGED <<oidCache, answer>>
  BY SoundTypes DEF End
<1>2. \A q \in Objects : IsOpen(q)' => IsOpen(q) /\ objs'[q].lo_oid = objs[q].lo_oid
  BY DEF End, IsOpen
<1> QED BY <1>1, <1>2, EndsSound

LEMMA StutterSound ==
    ASSUME Sound, UNCHANGED vars
    PROVE  Sound'
<1>1. OthersTyped'
  BY SoundTypes DEF vars, server, OthersTyped
<1> QED BY <1>1, MakesSound DEF vars, server

LEMMA NextSound ==
    ASSUME Sound, [Next]_vars
    PROVE  Sound'
<1>1. ASSUME NEW o \in Objects, NEW i \in Oids,
             NewObject(o, i) \/ Creat(o, i) \/ GetvalueCached(o, i) \/ GetvalueQueried(o, i)
      PROVE  Sound'
  BY <1>1, NewObjectSound, CreatSound, GetvalueCachedSound, GetvalueQueriedSound
<1>2. ASSUME NEW i \in Oids, Unlink(i)
      PROVE  Sound'
  BY <1>2, UnlinkSound
<1>3. ASSUME NEW o \in Objects, Open(o) \/ OpenRefused(o) \/ OpenBegins(o) \/ OpenBeginsInVain(o)
      PROVE  Sound'
  BY <1>3, OpenSound, OpenRefusedSound, OpenBeginsSound, BeginSound
<1>4. ASSUME NEW o \in Objects, Access(o)
      PROVE  Sound'
  BY <1>4, OpenRefusedSound
<1>5. ASSUME NEW o \in Objects, NEW rollback \in BOOLEAN, Close(o, rollback)
      PROVE  Sound'
  BY <1>5, CloseSound
<1>6. ASSUME NEW o \in Objects, Drop(o)
      PROVE  Sound'
  BY <1>6, DropSound
<1>7. CASE Begin
  BY <1>7, BeginSound
<1>8. ASSUME NEW commit \in BOOLEAN, End(commit)
      PROVE  Sound'
  BY <1>8, EndSound
<1>9. CASE StatementFails
  BY <1>9, FailsSound DEF StatementFails
<1>10. CASE UNCHANGED vars
  BY <1>10, StutterSound
<1> QED BY <1>1, <1>2, <1>3, <1>4, <1>5, <1>6, <1>7, <1>8, <1>9, <1>10 DEF Next

LEMMA SoundInvariant == Spec => []Sound
<1>1. Init => Sound
  BY InitSound
<1>2. Sound /\ [Next]_vars => Sound'
  BY NextSound
<1> QED BY <1>1, <1>2, PTL DEF Spec

\* The types of LOSession: there is always a free descriptor for a PgLargeObject
\* that opens, and what it is given is in range (lo_open in pglargeobject.c).
THEOREM SessionTypeCorrect == Spec => []TypeOK
<1>1. Sound => TypeOK
  BY DEF Sound
<1> QED BY <1>1, SoundInvariant, PTL

-----------------------------------------------------------------------------
(* Descriptors and transactions belong to one PgLargeObject. *)

Owned == CommitsItsOwn /\ DescriptorsOwned

LEMMA OwnedOf ==
    ASSUME Owned, NEW o \in Objects
    PROVE  /\ objs[o].need_commit > 0 => IsOpen(o) /\ owner = o /\ tx # "idle"
           /\ IsOpen(o) /\ tx # "aborted" =>
                 /\ tx = "trans"
                 /\ fds[objs[o].lo_fd] = objs[o].lo_oid
                 /\ \A q \in Objects \ {o} : IsOpen(q) => objs[q].lo_fd # objs[o].lo_fd
           /\ tx = "idle" => ~IsOpen(o) /\ ~(objs[o].need_commit > 0)
BY DEF Owned, CommitsItsOwn, DescriptorsOwned, OpenObjects

LEMMA OwnedFrom ==
    ASSUME \A o \in Objects :
              /\ objs'[o].need_commit > 0 => IsOpen(o)' /\ owner' = o /\ tx' # "idle"
              /\ IsOpen(o)' /\ tx' # "aborted" =>
                    /\ tx' = "trans"
                    /\ fds'[objs'[o].lo_fd] = objs'[o].lo_oid
                    /\ \A q \in Objects \ {o} : IsOpen(q)' => objs'[q].lo_fd # objs'[o].lo_fd
    PROVE  Owned'
BY DEF Owned, CommitsItsOwn, DescriptorsOwned, OpenObjects

\* o is as it was, or shut and with nothing to commit.
KeptOrShut(o) ==
    \/ objs'[o] = objs[o]
    \/ objs'[o].lo_fd = -1 /\ objs'[o].need_commit \in {-1, 0}

\* A step that opens no PgLargeObject, and leaves the transaction of those that
\* are open to them.
LEMMA NothingOpensOwned ==
    ASSUME Sound, Owned,
           \A o \in Objects : KeptOrShut(o),
           tx # "idle" => tx' \in {tx, "aborted"} /\ owner' = owner,
           tx' = "trans" /\ tx # "idle" =>
               \A o \in Objects : IsOpen(o)' => fds'[objs[o].lo_fd] = fds[objs[o].lo_fd]
    PROVE  Owned'
<1>1. SUFFICES ASSUME NEW o \in Objects
      PROVE  /\ objs'[o].need_commit > 0 => IsOpen(o)' /\ owner' = o /\ tx' # "idle"
             /\ IsOpen(o)' /\ tx' # "aborted" =>
                   /\ tx' = "trans"
                   /\ fds'[objs'[o].lo_fd] = objs'[o].lo_oid
                   /\ \A q \in Objects \ {o} : IsOpen(q)' => objs'[q].lo_fd # objs'[o].lo_fd
  BY OwnedFrom
<1>2. ASSUME NEW q \in Objects, IsOpen(q)'
      PROVE  objs'[q] = objs[q] /\ IsOpen(q)
  BY <1>2 DEF KeptOrShut, IsOpen
<1>3. CASE objs'[o] # objs[o]
  BY <1>3 DEF KeptOrShut, IsOpen
<1>4. CASE objs'[o] = objs[o]
  <2>1. objs'[o].need_commit > 0 => IsOpen(o)' /\ owner' = o /\ tx' # "idle"
    BY <1>4, OwnedOf DEF IsOpen
  <2>2. ASSUME IsOpen(o)', tx' # "aborted"
        PROVE  /\ tx' = "trans"
               /\ fds'[objs'[o].lo_fd] = objs'[o].lo_oid
               /\ \A q \in Objects \ {o} : IsOpen(q)' => objs'[q].lo_fd # objs'[o].lo_fd
    <3>1. IsOpen(o) /\ tx # "idle"
      BY <1>2, <2>2, OwnedOf
    <3>2. tx = "trans" /\ tx' = "trans"
      BY <2>2, <3>1, OwnedOf
    <3>3. fds'[objs'[o].lo_fd] = objs'[o].lo_oid
      BY <1>4, <2>2, <3>1, <3>2, OwnedOf
    <3>4. \A q \in Objects \ {o} : IsOpen(q)' => objs'[q].lo_fd # objs'[o].lo_fd
      BY <1>2, <1>4, <3>1, <3>2, OwnedOf
    <3> QED BY <3>2, <3>3, <3>4
  <2> QED BY <2>1, <2>2
<1> QED BY <1>3, <1>4

\* When everything is shut nothing is owned.
LEMMA ShutOwned ==
    ASSUME \A o \in Objects : ~IsOpen(o)' /\ ~(objs'[o].need_commit > 0)
    PROVE  Owned'
BY DEF Owned, CommitsItsOwn, DescriptorsOwned, OpenObjects

LEMMA FailsOwned ==
    ASSUME Sound, Owned, Fails, \A o \in Objects : KeptOrShut(o)
    PROVE  Owned'
<1>1. tx # "idle" => tx' \in {tx, "aborted"} /\ owner' = owner
  BY DEF Fails
<1>2. tx' = "trans" => FALSE
  BY DEF Fails
<1> QED BY <1>1, <1>2, NothingOpensOwned

LEMMA MakesOwned ==
    ASSUME Sound, Owned, UNCHANGED <<tx, fds, owner>>,
           \/ UNCHANGED objs
           \/ \E o \in Objects, i \in Oids, need \in {-1, 0} : MakeObject(o, i, need)
    PROVE  Owned'
<1>1. CASE UNCHANGED objs
  <2>1. \A q \in Objects : KeptOrShut(q)
    BY <1>1 DEF KeptOrShut
  <2> QED BY <2>1, NothingOpensOwned
<1>2. ASSUME NEW o \in Objects, NEW i \in Oids, NEW need \in {-1, 0}, MakeObject(o, i, need)
      PROVE  Owned'
  <2>1. \A q \in Objects : KeptOrShut(q)
    BY <1>2, SoundTypes DEF MakeObject, KeptOrShut
  <2> QED BY <2>1, NothingOpensOwned
<1> QED BY <1>1, <1>2

LEMMA ObjectsMadeOwned ==
    ASSUME Sound, Owned, NEW o \in Objects, NEW i \in Oids,
           NewObject(o, i) \/ Creat(o, i) \/ GetvalueCached(o, i) \/ GetvalueQueried(o, i)
    PROVE  Owned'
<1> DEFINE Made == UNCHANGED objs \/ \E need \in {-1, 0} : MakeObject(o, i, need)
<1>1. CASE UNCHANGED <<tx, fds, owner>> /\ Made
  BY <1>1, MakesOwned
<1>2. CASE Fails /\ UNCHANGED objs
  BY <1>2, FailsOwned DEF KeptOrShut
<1>3. CASE NewObject(o, i)
  BY <1>1, <1>3 DEF NewObject, server
<1>4. CASE Creat(o, i)
  BY <1>1, <1>2, <1>4 DEF Creat, Creates
<1>5. CASE GetvalueCached(o, i)
  BY <1>1, <1>5 DEF GetvalueCached, Answers, server
<1>6. CASE GetvalueQueried(o, i)
  <2>1. CASE tx = "aborted"
    BY <1>2, <1>6, <2>1 DEF GetvalueQueried
  <2>2. CASE tx # "aborted"
    BY <1>1, <1>6, <2>2 DEF GetvalueQueried, Answers, server
  <2> QED BY <2>1, <2>2
<1> QED BY <1>3, <1>4, <1>5, <1>6

LEMMA UnlinkOwned ==
    ASSUME Careful, Sound, Owned, NEW i \in Oids, Unlink(i)
    PROVE  Owned'
<1>0. \A q \in Objects : KeptOrShut(q)
  BY DEF Unlink, KeptOrShut
<1>1. CASE tx = "aborted" \/ i \notin exists
  BY <1>0, <1>1, FailsOwned DEF Unlink
<1>2. CASE ~(tx = "aborted" \/ i \notin exists)
  <2>1. UNCHANGED <<tx, owner>> /\ fds' = [d \in Fds |-> IF fds[d] = i THEN NoOid ELSE fds[d]]
    BY <1>2 DEF Unlink
  <2>2. ASSUME NEW o \in Objects, IsOpen(o)', tx = "trans"
        PROVE  fds'[objs[o].lo_fd] = fds[objs[o].lo_fd]
    <3>1. IsOpen(o) /\ objs[o].lo_fd \in Fds
      BY <2>2, SoundTypes DEF Unlink, IsOpen, Object
    <3>2. objs[o].lo_oid # i
      BY <3>1 DEF Unlink, OpenObjects
    <3>3. fds[objs[o].lo_fd] = objs[o].lo_oid
      BY <2>2, <3>1, OwnedOf
    <3> QED BY <2>1, <3>1, <3>2, <3>3
  <2> QED BY <1>0, <2>1, <2>2, NothingOpensOwned
<1> QED BY <1>1, <1>2

\* o takes the lowest free descriptor while the others keep theirs.
LEMMA OpensOwned ==
    ASSUME Sound, Owned, NEW o \in Objects, ~IsOpen(o), NEW need \in {-1, 0, 1},
           OpensAs(o, need),
           tx' = "trans",
           tx = "trans" => owner' = owner,
           tx \in {"idle", "trans"},
           need > 0 => owner' = o
    PROVE  Owned'
<1>1. /\ FreeFd \in Fds /\ fds[FreeFd] = NoOid
      /\ objs'[o].lo_oid = objs[o].lo_oid
      /\ objs'[o].lo_fd = FreeFd
      /\ objs'[o].need_commit = need
      /\ \A q \in Objects \ {o} : objs'[q] = objs[q]
      /\ fds'[FreeFd] = objs[o].lo_oid
      /\ \A d \in Fds \ {FreeFd} : fds'[d] = fds[d]
  BY OpensAsEffect
<1>2. IsOpen(o)'
  BY <1>1, FdsType DEF IsOpen
<1>3. ASSUME NEW q \in Objects \ {o}, IsOpen(q)'
      PROVE  /\ tx = "trans" /\ objs'[q] = objs[q]
             /\ objs[q].lo_fd \in Fds \ {FreeFd}
             /\ fds'[objs[q].lo_fd] = objs[q].lo_oid
  <2>1. objs'[q] = objs[q] /\ IsOpen(q)
    BY <1>1, <1>3 DEF IsOpen
  <2>2. tx = "trans" /\ fds[objs[q].lo_fd] = objs[q].lo_oid
    BY <2>1, OwnedOf
  <2>3. objs[q].lo_oid \in Oids
    BY <2>1 DEF Sound, OpenHasOid
  <2>4. objs[q].lo_fd # FreeFd
    BY <1>1, <2>2, <2>3, LOSessionAssumption
  <2>5. objs[q].lo_fd \in Fds
    BY <2>1, SoundTypes DEF IsOpen, Object
  <2> QED BY <1>1, <2>1, <2>2, <2>4, <2>5
<1>4. SUFFICES ASSUME NEW p \in Objects
      PROVE  /\ objs'[p].need_commit > 0 => IsOpen(p)' /\ owner' = p /\ tx' # "idle"
             /\ IsOpen(p)' /\ tx' # "aborted" =>
                   /\ tx' = "trans"
                   /\ fds'[objs'[p].lo_fd] = objs'[p].lo_oid
                   /\ \A q \in Objects \ {p} : IsOpen(q)' => objs'[q].lo_fd # objs'[p].lo_fd
  BY OwnedFrom
<1>5. CASE p = o
  BY <1>1, <1>2, <1>3, <1>5
<1>6. CASE p # o
  <2>1. objs'[p] = objs[p]
    BY <1>1, <1>6
  <2>2. objs'[p].need_commit > 0 => IsOpen(p)' /\ owner' = p /\ tx' # "idle"
    <3>1. objs[p].need_commit > 0 => IsOpen(p) /\ owner = p /\ tx = "trans"
      BY OwnedOf
    <3> QED BY <2>1, <3>1 DEF IsOpen
  <2>3. ASSUME IsOpen(p)'
        PROVE  /\ fds'[objs'[p].lo_fd] = objs'[p].lo_oid
               /\ \A q \in Objects \ {p} : IsOpen(q)' => objs'[q].lo_fd # objs'[p].lo_fd
    <3>1. /\ tx = "trans" /\ objs[p].lo_fd \in Fds \ {FreeFd}
          /\ fds'[objs[p].lo_fd] = objs[p].lo_oid
      BY <1>3, <1>6, <2>3
    <3>2. ASSUME NEW q \in Objects \ {p}, IsOpen(q)'
          PROVE  objs'[q].lo_fd # objs'[p].lo_fd
      <4>1. CASE q = o
        BY <1>1, <2>1, <3>1, <4>1
      <4>2. CASE q # o
        <5>1. objs'[q] = objs[q] /\ IsOpen(q) /\ IsOpen(p)
          BY <1>3, <2>1, <2>3, <3>2, <4>2 DEF IsOpen
        <5> QED BY <2>1, <3>1, <5>1, OwnedOf
      <4> QED BY <4>1, <4>2
    <3> QED BY <2>1, <3>1, <3>2
  <2> QED BY <2>2, <2>3
<1> QED BY <1>5, <1>6

LEMMA OpenOwned ==
    ASSUME Sound, Owned, NEW o \in Objects,
           Open(o) \/ OpenRefused(o) \/ OpenBegins(o) \/ OpenBeginsInVain(o)
    PROVE  Owned'
<1>1. CASE Open(o)
  <2>1. ~IsOpen(o) /\ tx = "trans" /\ OpensAs(o, objs[o].need_commit) /\ UNCHANGED <<tx, owner>>
    BY <1>1 DEF Open, LoOpens
  <2>2. objs[o].need_commit \in {-1, 0}
    BY <2>1, OwnedOf, SoundTypes DEF Object
  <2> QED BY <2>1, <2>2, OpensOwned
<1>2. CASE OpenRefused(o)
  BY <1>2, FailsOwned DEF OpenRefused, KeptOrShut
<1>3. CASE OpenBegins(o)
  <2>1. ~IsOpen(o) /\ tx = "idle" /\ tx' = "trans" /\ owner' = o /\ OpensAs(o, 1)
    BY <1>3 DEF OpenBegins
  <2> QED BY <2>1, OpensOwned
<1>4. CASE OpenBeginsInVain(o)
  <2>1. \A q \in Objects : KeptOrShut(q)
    BY <1>4 DEF OpenBeginsInVain, KeptOrShut
  <2> QED BY <1>4, <2>1, NothingOpensOwned DEF OpenBeginsInVain
<1> QED BY <1>1, <1>2, <1>3, <1>4

LEMMA GivesUpOwned ==
    ASSUME Sound, Owned, NEW o \in Objects, IsOpen(o),
           fds' = [fds EXCEPT ![objs[o].lo_fd] = NoOid],
           UNCHANGED <<tx, owner>>,
           KeptOrShut(o), ~IsOpen(o)',
           \A q \in Objects \ {o} : objs'[q] = objs[q]
    PROVE  Owned'
<1>1. \A q \in Objects : KeptOrShut(q)
  BY DEF KeptOrShut
<1>2. ASSUME NEW q \in Objects, IsOpen(q)', tx = "trans"
      PROVE  fds'[objs[q].lo_fd] = fds[objs[q].lo_fd]
  <2>1. q # o /\ IsOpen(q)
    BY <1>2 DEF IsOpen
  <2>2. objs[q].lo_fd # objs[o].lo_fd
    BY <1>2, <2>1, OwnedOf
  <2>3. objs[q].lo_fd \in Fds
    BY <2>1, SoundTypes DEF IsOpen, Object
  <2> QED BY <2>2, <2>3, SoundTypes
<1> QED BY <1>1, <1>2, NothingOpensOwned

LEMMA CloseOwned ==
    ASSUME Careful, Sound, Owned, NEW o \in Objects, NEW rollback \in BOOLEAN, Close(o, rollback)
    PROVE  Owned'
<1>1. CASE fds[objs[o].lo_fd] = NoOid
  BY <1>1, FailsOwned DEF Close, KeptOrShut
<1>2. CASE fds[objs[o].lo_fd] # NoOid
  <2>1. objs' = AfterClose(o) /\ IsOpen(o)
    BY <1>2 DEF Close
  <2>2. /\ objs'[o].lo_fd = -1 /\ objs'[o].need_commit \in {-1, 0}
        /\ \A q \in Objects \ {o} : objs'[q] = objs[q]
    BY <2>1, AfterCloseEffect
  <2>3. ~IsOpen(o)' /\ KeptOrShut(o) /\ ~(objs'[o].need_commit > 0)
    BY <2>2 DEF IsOpen, KeptOrShut
  <2>4. CASE EndsAtClose(o)
    <3>1. \A q \in Objects \ {o} : ~IsOpen(q)
      BY <2>4 DEF Close, OpenObjects
    <3>2. \A q \in Objects \ {o} : ~IsOpen(q)' /\ ~(objs'[q].need_commit > 0)
      BY <2>2, <3>1, OwnedOf DEF IsOpen
    <3> QED BY <2>3, <3>2, ShutOwned
  <2>5. CASE ~EndsAtClose(o)
    <3>1. fds' = [fds EXCEPT ![objs[o].lo_fd] = NoOid] /\ UNCHANGED <<tx, owner>>
      BY <1>2, <2>5 DEF Close
    <3> QED BY <2>1, <2>2, <2>3, <3>1, GivesUpOwned
  <2> QED BY <2>4, <2>5
<1> QED BY <1>1, <1>2

LEMMA DropOwned ==
    ASSUME Sound, Owned, NEW o \in Objects, Drop(o)
    PROVE  Owned'
<1>1. /\ objs'[o].lo_fd = -1 /\ objs'[o].need_commit \in {-1, 0}
      /\ \A q \in Objects \ {o} : objs'[q] = objs[q]
  BY DropEffect
<1>2. ~IsOpen(o)' /\ KeptOrShut(o) /\ \A q \in Objects : KeptOrShut(q)
  BY <1>1 DEF IsOpen, KeptOrShut
<1>3. CASE ~IsOpen(o)
  BY <1>2, <1>3, NothingOpensOwned DEF Drop, server
<1>4. CASE IsOpen(o) /\ fds[objs[o].lo_fd] = NoOid
  BY <1>2, <1>4, FailsOwned DEF Drop
<1>5. CASE IsOpen(o) /\ fds[objs[o].lo_fd] # NoOid
  <2>1. fds' = [fds EXCEPT ![objs[o].lo_fd] = NoOid] /\ UNCHANGED <<tx, owner>>
    BY <1>5 DEF Drop
  <2> QED BY <1>1, <1>2, <1>5, <2>1, GivesUpOwned
<1> QED BY <1>3, <1>4, <1>5

LEMMA StatementsOwned ==
    ASSUME Careful, Sound, Owned,
           Begin \/ StatementFails \/ (\E commit \in BOOLEAN : End(commit)) \/ UNCHANGED vars
    PROVE  Owned'
<1>1. CASE UNCHANGED objs
  <2>1. \A q \in Objects : KeptOrShut(q)
    BY <1>1 DEF KeptOrShut
  <2>2. CASE Begin
    BY <2>1, <2>2, NothingOpensOwned DEF Begin
  <2>3. CASE StatementFails
    BY <2>1, <2>3, FailsOwned DEF StatementFails
  <2>4. ASSUME NEW commit \in BOOLEAN, End(commit)
        PROVE  Owned'
    <3>1. \A q \in Objects : ~IsOpen(q)
      BY <2>4 DEF End, OpenObjects
    <3>2. \A q \in Objects : ~IsOpen(q)' /\ ~(objs'[q].need_commit > 0)
      BY <1>1, <3>1, OwnedOf DEF IsOpen
    <3> QED BY <3>2, ShutOwned
  <2>5. CASE UNCHANGED vars
    BY <2>1, <2>5, NothingOpensOwned DEF vars, server
  <2> QED BY <2>2, <2>3, <2>4, <2>5
<1> QED BY <1>1 DEF Begin, StatementFails, End, vars

LEMMA NextOwned ==
    ASSUME Careful, Sound, Owned, [Next]_vars
    PROVE  Owned'
<1>1. ASSUME NEW o \in Objects, NEW i \in Oids,
             NewObject(o, i) \/ Creat(o, i) \/ GetvalueCached(o, i) \/ GetvalueQueried(o, i)
      PROVE  Owned'
  BY <1>1, ObjectsMadeOwned
<1>2. ASSUME NEW i \in Oids, Unlink(i)
      PROVE  Owned'
  BY <1>2, UnlinkOwned
<1>3. ASSUME NEW o \in Objects, Open(o) \/ OpenRefused(o) \/ OpenBegins(o) \/ OpenBeginsInVain(o)
      PROVE  Owned'
  BY <1>3, OpenOwned
<1>4. ASSUME NEW o \in Objects, Access(o)
      PROVE  Owned'
  BY <1>4, FailsOwned DEF Access, KeptOrShut
<1>5. ASSUME NEW o \in Objects, NEW rollback \in BOOLEAN, Close(o, rollback)
      PROVE  Owned'
  BY <1>5, CloseOwned
<1>6. ASSUME NEW o \in Objects, Drop(o)
      PROVE  Owned'
  BY <1>6, DropOwned
<1>7. CASE Begin \/ StatementFails \/ (\E commit \in BOOLEAN : End(commit)) \/ UNCHANGED vars
  BY <1>7, StatementsOwned
<1> QED BY <1>1, <1>2, <1>3, <1>4, <1>5, <1>6, <1>7 DEF Next

LEMMA InitOwned ==
    ASSUME Init
    PROVE  Owned
<1>1. \A o \in Objects : objs[o].lo_fd = -1 /\ objs[o].need_commit = 0
  BY DEF Init, NoObject
<1>2. \A o \in Objects : ~IsOpen(o) /\ ~(objs[o].need_commit > 0)
  BY <1>1 DEF IsOpen
<1> QED BY <1>2 DEF Owned, CommitsItsOwn, DescriptorsOwned, OpenObjects

LEMMA OwnedInvariant ==
    ASSUME Careful
    PROVE  Spec => []Owned
<1>1. Init => Owned
  BY InitOwned
<1>2. Sound /\ Owned /\ [Next]_vars => Owned'
  BY NextOwned
<1> QED BY <1>1, <1>2, SoundInvariant, PTL DEF Spec

\* While the application ends no transaction, and unlinks no large object, under an
\* open PgLargeObject, each open one has a descriptor of its own large object to
\* itself: a read or a write never reaches another's (lo_fd in pglargeobject.c).
THEOREM DescriptorsAreOwned ==
    ASSUME Careful
    PROVE  Spec => []DescriptorsOwned
<1>1. Owned => DescriptorsOwned
  BY DEF Owned
<1> QED BY <1>1, OwnedInvariant, PTL

\* Under the same condition a PgLargeObject with need_commit set is open in the
\* transaction it began.
THEOREM ObjectsCommitTheirOwn ==
    ASSUME Careful
    PROVE  Spec => []CommitsItsOwn
<1>1. Owned => CommitsItsOwn
  BY DEF Owned
<1> QED BY <1>1, OwnedInvariant, PTL

\* Outside a transaction nobody owns it.
IdleUnowned == tx = "idle" => owner = Nobody

LEMMA IdleUnownedInvariant == Spec => []IdleUnowned
<1>1. Init => IdleUnowned
  BY DEF Init, IdleUnowned
<1>2. IdleUnowned /\ [Next]_vars => IdleUnowned'
  <2> SUFFICES ASSUME IdleUnowned, [Next]_vars
               PROVE  IdleUnowned'
    OBVIOUS
  <2> USE DEF IdleUnowned
  <2>1. Fails => IdleUnowned'
    BY DEF Fails
  <2>2. (\E commit \in BOOLEAN : Ends(commit)) => IdleUnowned'
    BY DEF Ends
  <2>3. UNCHANGED <<tx, owner>> => IdleUnowned'
    OBVIOUS
  <2>4. ASSUME NEW o \in Objects, NEW i \in Oids,
               NewObject(o, i) \/ Creat(o, i) \/ GetvalueCached(o, i) \/ GetvalueQueried(o, i) \/ Unlink(i)
        PROVE  Fails \/ UNCHANGED <<tx, owner>>
    <3>1. GetvalueQueried(o, i) => Fails \/ UNCHANGED <<tx, owner>>
      BY DEF GetvalueQueried, server
    <3>2. Creat(o, i) \/ Unlink(i) => Fails \/ UNCHANGED <<tx, owner>>
      BY DEF Creat, Creates, Unlink
    <3> QED BY <2>4, <3>1, <3>2 DEF NewObject, GetvalueCached, server
  <2>5. ASSUME NEW i \in Oids, Unlink(i)
        PROVE  Fails \/ UNCHANGED <<tx, owner>>
    BY <2>5 DEF Unlink
  <2>6. ASSUME NEW o \in Objects, Open(o) \/ OpenRefused(o) \/ Access(o) \/ Drop(o)
        PROVE  Fails \/ UNCHANGED <<tx, owner>>
    BY <2>6 DEF Open, OpenRefused, Access, Drop, server
  <2>7. ASSUME NEW o \in Objects, OpenBegins(o) \/ OpenBeginsInVain(o)
        PROVE  tx' # "idle"
    BY <2>7 DEF OpenBegins, OpenBeginsInVain
  <2>8. ASSUME NEW o \in Objects, NEW rollback \in BOOLEAN, Close(o, rollback)
        PROVE  Fails \/ Ends(~rollback) \/ UNCHANGED <<tx, owner>>
    BY <2>8 DEF Close
  <2>9. Begin \/ StatementFails \/ (\E commit \in BOOLEAN : End(commit)) \/ UNCHANGED vars
           => tx' # "idle" \/ Fails \/ (\E commit \in BOOLEAN : Ends(commit)) \/ UNCHANGED <<tx, owner>>
    BY DEF Begin, StatementFails, End, vars, server
  <2> QED BY <2>1, <2>2, <2>3, <2>4, <2>5, <2>6, <2>7, <2>8, <2>9 DEF Next
<1> QED BY <1>1, <1>2, PTL DEF Spec

\* Under the same condition close() and dealloc never end a transaction that the
\* application began.
THEOREM ApplicationsTransactionIsKept ==
    ASSUME Careful
    PROVE  Spec => ApplicationEndsItsOwn
<1> DEFINE Kept == owner = Application /\ owner' # owner => objs' = objs
<1>1. ASSUME Owned, IdleUnowned, Next
      PROVE  Kept
  <2>1. ASSUME NEW o \in Objects, NEW rollback \in BOOLEAN, Close(o, rollback), owner = Application
        PROVE  owner' = owner \/ objs' = objs
    <3>1. ~EndsAtClose(o)
      BY <1>1, <2>1, OwnedOf, LOSessionAssumption DEF EndsAtClose
    <3> QED BY <2>1, <3>1 DEF Close, Fails
  <2>2. ASSUME NEW o \in Objects, Open(o) \/ OpenRefused(o) \/ Access(o) \/ Drop(o)
        PROVE  owner' = owner
    BY <2>2 DEF Open, OpenRefused, Access, Drop, Fails, server
  <2>3. ASSUME NEW o \in Objects, OpenBegins(o) \/ OpenBeginsInVain(o)
        PROVE  owner # Application
    BY <1>1, <2>3, LOSessionAssumption DEF OpenBegins, OpenBeginsInVain, IdleUnowned
  <2>4. ASSUME NEW o \in Objects, NEW i \in Oids,
               GetvalueCached(o, i) \/ GetvalueQueried(o, i) \/ NewObject(o, i) \/ Creat(o, i)
        PROVE  owner' = owner
    <3>1. GetvalueQueried(o, i) => owner' = owner
      BY DEF GetvalueQueried, Fails
    <3> QED BY <2>4, <3>1 DEF GetvalueCached, NewObject, Creat, Creates, Fails, server
  <2>5. (\E i \in Oids : Unlink(i)) \/ Begin \/ StatementFails \/ (\E commit \in BOOLEAN : End(commit))
           => objs' = objs
    BY DEF Unlink, Begin, StatementFails, End
  <2> QED BY <1>1, <2>1, <2>2, <2>3, <2>4, <2>5 DEF Next
<1>2. Owned /\ IdleUnowned /\ [Next]_vars => [Kept]_vars
  BY <1>1
<1> QED BY <1>2, OwnedInvariant, IdleUnownedInvariant, PTL DEF Spec, ApplicationEndsItsOwn
=============================================================================
