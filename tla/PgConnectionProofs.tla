-------------------------- MODULE PgConnectionProofs --------------------------
(***************************************************************************)
(* Theorems about PgConnection, for every set of PgResults and programs,   *)
(* and any number of notices and lines: the notices are heard in order,    *)
(* every PGresult of libpq has one owner, and lines come whole.            *)
(***************************************************************************)
EXTENDS PgConnection, SequenceTheorems, FunctionTheorems, FiniteSetTheorems,
        WellFoundedInduction, TLAPS

-----------------------------------------------------------------------------
(* The notices. *)

\* The notices that were not heard yet, the latest first.
LatestFirst == notices = [i \in 1 .. numbered - heard |-> numbered + 1 - i]

\* Once a connection is finished no call reads from it, so no notice comes.
Queue ==
    /\ numbered \in Nat /\ heard \in Nat
    /\ bePID # "None" => heard <= numbered /\ LatestFirst
    /\ bePID = "None" => notices = <<>> /\ ~conn
    /\ ~conn => call = NoCall

-----------------------------------------------------------------------------
(* The list of notices. *)

LEMMA LatestFirstIsSeq ==
    ASSUME numbered \in Nat, heard \in Nat, heard <= numbered, LatestFirst
    PROVE  /\ notices \in Seq(Nat)
           /\ Len(notices) = numbered - heard
           /\ \A i \in 1 .. numbered - heard : notices[i] = numbered + 1 - i
<1>1. numbered - heard \in Nat
  OBVIOUS
<1>2. \A i \in 1 .. numbered - heard : numbered + 1 - i \in Nat
  OBVIOUS
<1>3. notices \in [1 .. numbered - heard -> Nat]
  BY <1>2 DEF LatestFirst
<1>4. notices \in Seq(Nat)
  BY <1>1, <1>3, SeqDef
<1>5. Len(notices) = numbered - heard
  BY <1>1, <1>3, <1>4, LenProperties
<1> QED BY <1>4, <1>5 DEF LatestFirst

\* A list of that length and with those numbers is the list.
LEMMA IsLatestFirst ==
    ASSUME NEW s \in Seq(Nat), NEW n \in Nat, NEW h \in Nat, h <= n,
           Len(s) = n - h,
           \A i \in 1 .. n - h : s[i] = n + 1 - i
    PROVE  s = [i \in 1 .. n - h |-> n + 1 - i]
<1>1. DOMAIN s = 1 .. n - h /\ s = [i \in DOMAIN s |-> s[i]]
  BY LenProperties
<1> QED BY <1>1

LEMMA NoticeQueued ==
    ASSUME numbered \in Nat, heard \in Nat, heard <= numbered, LatestFirst,
           NoticeProcessed
    PROVE  LatestFirst'
<1> DEFINE s == <<numbered + 1>> \o notices
<1>1. /\ notices \in Seq(Nat) /\ Len(notices) = numbered - heard
      /\ \A i \in 1 .. numbered - heard : notices[i] = numbered + 1 - i
  BY LatestFirstIsSeq
<1>2. /\ <<numbered + 1>> \in Seq(Nat) /\ Len(<<numbered + 1>>) = 1
      /\ <<numbered + 1>>[1] = numbered + 1
  OBVIOUS
<1>3. /\ s \in Seq(Nat) /\ Len(s) = 1 + (numbered - heard)
      /\ \A i \in 1 .. 1 + (numbered - heard) :
            s[i] = IF i <= 1 THEN <<numbered + 1>>[i] ELSE notices[i - 1]
  BY <1>1, <1>2, ConcatProperties
<1>4. ASSUME NEW i \in 1 .. (numbered + 1) - heard
      PROVE  s[i] = (numbered + 1) + 1 - i
  <2>1. i \in 1 .. 1 + (numbered - heard)
    OBVIOUS
  <2>2. CASE i = 1
    BY <1>2, <1>3, <2>1, <2>2
  <2>3. CASE i # 1
    <3>1. i - 1 \in 1 .. numbered - heard
      BY <2>3
    <3>2. s[i] = notices[i - 1]
      BY <1>3, <2>1, <2>3
    <3> QED BY <1>1, <3>1, <3>2
  <2> QED BY <2>2, <2>3
<1>5. s = [i \in 1 .. (numbered + 1) - heard |-> (numbered + 1) + 1 - i]
  <2>1. Len(s) = (numbered + 1) - heard /\ heard <= numbered + 1 /\ numbered + 1 \in Nat
    BY <1>3
  <2> HIDE DEF s
  <2> QED BY <1>3, <1>4, <2>1, IsLatestFirst
<1>6. notices' = s /\ numbered' = numbered + 1 /\ heard' = heard
  BY DEF NoticeProcessed, queueNotices
<1> QED BY <1>5, <1>6 DEF LatestFirst

LEMMA NoticeTaken ==
    ASSUME numbered \in Nat, heard \in Nat, heard <= numbered, LatestFirst,
           PopNotice
    PROVE  /\ heard' \in Nat /\ heard' <= numbered
           /\ LatestFirst'
<1>1. /\ notices \in Seq(Nat) /\ Len(notices) = numbered - heard
      /\ \A i \in 1 .. numbered - heard : notices[i] = numbered + 1 - i
  BY LatestFirstIsSeq
<1>2. numbered - heard > 0
  <2>1. notices # <<>>
    BY DEF PopNotice
  <2>2. Len(notices) # 0
    BY <1>1, <2>1, EmptySeq
  <2> QED BY <1>1, <2>2
<1>3. Last(notices) = heard + 1
  <2>1. numbered - heard \in 1 .. numbered - heard
    BY <1>2
  <2>2. notices[numbered - heard] = numbered + 1 - (numbered - heard)
    BY <1>1, <2>1
  <2> QED BY <1>1, <2>2 DEF Last
<1>4. heard' = heard + 1 /\ numbered' = numbered
  BY <1>3 DEF PopNotice
<1> DEFINE s == Front(notices)
<1>5. /\ s \in Seq(Nat) /\ Len(s) = numbered - (heard + 1)
      /\ \A i \in 1 .. numbered - (heard + 1) : s[i] = numbered + 1 - i
  <2>1. s = SubSeq(notices, 1, (numbered - heard) - 1)
    BY <1>1 DEF Front
  <2>2. (numbered - heard) - 1 \in 0 .. Len(notices) /\ (numbered - heard) - 1 = numbered - (heard + 1)
    BY <1>1, <1>2
  <2>3. /\ s \in Seq(Nat) /\ Len(s) = (numbered - heard) - 1
        /\ \A i \in 1 .. (numbered - heard) - 1 : s[i] = notices[i]
    BY <1>1, <1>2, <2>1, <2>2, SubSeqProperties
  <2> QED BY <1>1, <1>2, <2>2, <2>3
<1>6. s = [i \in 1 .. numbered - (heard + 1) |-> numbered + 1 - i]
  <2>1. heard + 1 \in Nat /\ heard + 1 <= numbered
    BY <1>2
  <2> HIDE DEF s
  <2> QED BY <1>5, <2>1, IsLatestFirst
<1>7. notices' = s
  BY DEF PopNotice
<1> QED BY <1>2, <1>4, <1>6, <1>7 DEF LatestFirst

LEMMA LatestFirstInOrder ==
    ASSUME numbered \in Nat, heard \in Nat, heard <= numbered, LatestFirst
    PROVE  Reverse(notices) = [i \in 1 .. numbered - heard |-> heard + i]
<1> DEFINE n == numbered - heard
<1>1. /\ Len(notices) = n
      /\ \A i \in 1 .. n : notices[i] = numbered + 1 - i
  BY LatestFirstIsSeq
<1>2. ASSUME NEW i \in 1 .. n
      PROVE  notices[(n - i) + 1] = heard + i
  <2>1. (n - i) + 1 \in 1 .. n
    OBVIOUS
  <2>2. notices[(n - i) + 1] = numbered + 1 - ((n - i) + 1)
    BY <1>1, <2>1
  <2> QED BY <2>2
<1>3. Reverse(notices) = [i \in 1 .. n |-> notices[(n - i) + 1]]
  BY <1>1 DEF Reverse
<1> QED BY <1>2, <1>3

-----------------------------------------------------------------------------
(* What each call does to the list. *)

LEMMA Quiet ==
    ASSUME Queue, UNCHANGED <<conn, attributes>>,
           conn \/ call' = NoCall \/ UNCHANGED call
    PROVE  Queue'
<1>1. UNCHANGED <<conn, bePID, notices, numbered, heard>>
  BY DEF attributes
<1>2. LatestFirst' <=> LatestFirst
  BY <1>1 DEF LatestFirst
<1>3. ~conn' => call' = NoCall
  BY <1>1 DEF Queue
<1> QED BY <1>1, <1>2, <1>3 DEF Queue

LEMMA Processed ==
    ASSUME Queue, NoticeProcessed, conn, UNCHANGED conn
    PROVE  Queue'
<1>1. numbered \in Nat /\ heard \in Nat /\ heard <= numbered /\ LatestFirst /\ bePID # "None"
  BY DEF Queue
<1>2. numbered' = numbered + 1 /\ heard' = heard /\ bePID' = bePID
  BY DEF NoticeProcessed
<1>3. LatestFirst'
  BY <1>1, NoticeQueued
<1> QED BY <1>1, <1>2, <1>3 DEF Queue

\* The backend, whatever call is in progress.
LEMMA BackendQueue ==
    ASSUME Queue, Serve \/ SendNotice \/ Die
    PROVE  Queue'
<1>1. UNCHANGED <<conn, attributes, call>>
  BY DEF Serve, SendNotice, Die
<1> QED BY <1>1, Quiet

LEMMA TakeNoticeQueue ==
    ASSUME Queue, TakeNotice
    PROVE  Queue'
BY Processed DEF TakeNotice

LEMMA ProceedQueue ==
    ASSUME Queue, Proceed
    PROVE  Queue'
<1>1. conn
  BY DEF Queue, Proceed
<1>2. CASE TakeNotice
  BY <1>2, TakeNoticeQueue
<1>3. CASE \/ Interrupt \/ Drain \/ Send \/ Collect \/ ResultArrives
           \/ GetlineChunk \/ GetlineEnds \/ GetlineAsyncPass
  <2>1. Interrupt \/ Drain \/ Send => UNCHANGED <<conn, attributes>>
    BY DEF Interrupt, Drain, Send
  <2>2. Collect \/ ResultArrives => UNCHANGED <<conn, attributes>>
    BY DEF Collect, ResultArrives
  <2>3. GetlineChunk \/ GetlineEnds \/ GetlineAsyncPass => UNCHANGED <<conn, attributes>>
    BY DEF GetlineChunk, GetlineEnds, GetlineAsyncPass
  <2> QED BY <1>1, <1>3, <2>1, <2>2, <2>3, Quiet
<1>4. CASE EndcopyReads
  <2>1. UNCHANGED conn /\ (UNCHANGED attributes \/ NoticeProcessed)
    <3>1. UNCHANGED conn
      BY <1>4 DEF EndcopyReads
    <3>2. CASE Coming \in {"line", "copied"} \/ Coming = "COMMAND_OK"
      BY <1>4, <3>2 DEF EndcopyReads
    <3>3. CASE ~(Coming \in {"line", "copied"} \/ Coming = "COMMAND_OK")
      BY <1>4, <3>3 DEF EndcopyReads
    <3> QED BY <3>1, <3>2, <3>3
  <2> QED BY <1>1, <2>1, Quiet, Processed
<1> QED BY <1>2, <1>3, <1>4 DEF Proceed

LEMMA PopNoticeQueue ==
    ASSUME Queue, PopNotice
    PROVE  Queue'
<1>1. bePID # "None" /\ numbered \in Nat /\ heard \in Nat /\ heard <= numbered /\ LatestFirst
  BY DEF Queue, PopNotice
<1>2. UNCHANGED <<conn, bePID, numbered, call>>
  BY DEF PopNotice
<1>3. heard' \in Nat /\ heard' <= numbered /\ LatestFirst'
  BY <1>1, NoticeTaken
<1> QED BY <1>1, <1>2, <1>3 DEF Queue

LEMMA FinishQueue ==
    ASSUME Queue, Finish
    PROVE  Queue'
<1>1. /\ conn' = FALSE /\ bePID' = "None" /\ notices' = <<>> /\ call' = NoCall
      /\ UNCHANGED <<numbered, heard>>
  BY DEF Finish, Returns
<1> QED BY <1>1 DEF Queue

LEMMA ResetQueue ==
    ASSUME Queue, Reset
    PROVE  Queue'
<1>1. bePID # "None" /\ bePID' # "None" /\ call' = NoCall
  BY DEF Queue, Reset, Returns, attributes
<1>2. UNCHANGED <<notices, numbered, heard>>
  BY DEF Reset, attributes
<1>3. LatestFirst' <=> LatestFirst
  BY <1>2 DEF LatestFirst
<1> QED BY <1>1, <1>2, <1>3 DEF Queue

\* The other calls touch no notice, and only begin on an open connection.
LEMMA CallsQueue ==
    ASSUME Queue,
           \/ Query \/ (\E p \in Programs : SendQuery(p)) \/ GetResult \/ ConsumeInput
           \/ RequestCancel \/ Getline \/ GetlineAsync \/ Putline \/ Endcopy
    PROVE  Queue'
<1>1. Query \/ (\E p \in Programs : SendQuery(p)) \/ GetResult => conn /\ UNCHANGED <<conn, attributes>>
  BY DEF Query, SendQuery, GetResult
<1>2. ConsumeInput \/ RequestCancel \/ Putline => conn /\ UNCHANGED <<conn, attributes>>
  BY DEF ConsumeInput, RequestCancel, Putline
<1>3. Getline \/ GetlineAsync \/ Endcopy => conn /\ UNCHANGED <<conn, attributes>>
  BY DEF Getline, GetlineAsync, Endcopy
<1> QED BY <1>1, <1>2, <1>3, Quiet

LEMMA ResultsQueue ==
    ASSUME Queue, NEW h \in Handles, Clear(h) \/ PgResult_dealloc(h) \/ Getvalue(h)
    PROVE  Queue'
<1>1. UNCHANGED <<conn, attributes>>
  BY DEF Clear, PgResult_dealloc, Getvalue
<1>2. Clear(h) => call' = NoCall
  BY DEF Clear, Returns
<1>3. PgResult_dealloc(h) => UNCHANGED call
  BY DEF PgResult_dealloc
<1>4. Getvalue(h) => conn \/ call' = NoCall
  <2>1. CASE handles[h].type # "DQL"
    BY <2>1 DEF Getvalue, Returns
  <2>2. CASE handles[h].type = "DQL"
    BY <2>2 DEF Getvalue, Returns
  <2> QED BY <2>1, <2>2
<1> QED BY <1>1, <1>2, <1>3, <1>4, Quiet

LEMMA ClosedCallQueue ==
    ASSUME Queue, ClosedCall
    PROVE  Queue'
<1>1. UNCHANGED <<conn, attributes>> /\ call' = NoCall
  BY DEF ClosedCall, Returns
<1> QED BY <1>1, Quiet

LEMMA InitQueue ==
    ASSUME Init
    PROVE  Queue
<1>1. [i \in 1 .. 0 - 0 |-> 0 + 1 - i] = <<>>
  OBVIOUS
<1>2. /\ conn = TRUE /\ bePID = "first" /\ call = NoCall
      /\ notices = <<>> /\ numbered = 0 /\ heard = 0
  BY DEF Init
<1> QED BY <1>1, <1>2 DEF Queue, LatestFirst

LEMMA QueueInvariant == Spec => []Queue
<1>1. Init => Queue
  BY InitQueue
<1>2. ASSUME Queue, [Next]_vars
      PROVE  Queue'
  <2>1. CASE Serve \/ SendNotice \/ Die
    BY <1>2, <2>1, BackendQueue
  <2>2. CASE Proceed
    BY <1>2, <2>2, ProceedQueue
  <2>3. CASE TakeNotice
    BY <1>2, <2>3, TakeNoticeQueue
  <2>4. CASE PopNotice
    BY <1>2, <2>4, PopNoticeQueue
  <2>5. CASE \/ Query \/ (\E p \in Programs : SendQuery(p)) \/ GetResult \/ ConsumeInput
             \/ RequestCancel \/ Getline \/ GetlineAsync \/ Putline \/ Endcopy
    BY <1>2, <2>5, CallsQueue
  <2>6. CASE Finish
    BY <1>2, <2>6, FinishQueue
  <2>7. CASE Reset
    BY <1>2, <2>7, ResetQueue
  <2>8. CASE ClosedCall
    BY <1>2, <2>8, ClosedCallQueue
  <2>9. ASSUME NEW h \in Handles, Clear(h) \/ PgResult_dealloc(h) \/ Getvalue(h)
        PROVE  Queue'
    BY <1>2, <2>9, ResultsQueue
  <2>10. CASE UNCHANGED vars
    BY <1>2, <2>10, Quiet DEF vars
  <2> QED BY <1>2, <2>1, <2>2, <2>3, <2>4, <2>5, <2>6, <2>7, <2>8, <2>9, <2>10 DEF Next
<1> QED BY <1>1, <1>2, PTL DEF Spec

\* The application takes the notices off the end of the list in the order in which
\* libpq put them in front of it (queueNotices in pgconnection.c), whatever calls
\* they came in, until the connection is finished.
THEOREM NoticesAreHeardInOrder == Spec => []NoticesInOrder
<1>1. Queue => NoticesInOrder
  BY LatestFirstInOrder DEF Queue, NoticesInOrder
<1> QED BY <1>1, QueueInvariant, PTL

-----------------------------------------------------------------------------
(* The PgResults. *)

Ops == {"none", "query", "getvalue", "getResult", "getline", "getlineAsync", "endcopy"}
Exceptions == {"none", "InterfaceError", "DatabaseError", "OperationalError",
               "IntegrityError", "InternalError", "ProgrammingError", "overrun"}
HandleType == [res : Ids \cup {0}, type : {"unborn", "cleared", "DQL", "DML", "DDL", "EMPTY"}]
MemoryType == [Ids -> Statuses \cup {"free"}]

Outer ==
    /\ conn \in BOOLEAN
    /\ bePID \in {"first", "None"}
    /\ link \in {"ok", "bad"} /\ async \in {"idle", "busy"} \cup Copies

\* Only a query that was sent keeps a result from one message to the next.
InCall ==
    /\ call = [op |-> call.op, sent |-> call.sent, last |-> call.last,
               buf |-> call.buf, room |-> call.room]
    /\ call.op \in Ops /\ call.sent \in BOOLEAN /\ call.last \in Ids \cup {0}
    /\ call.last # 0 => Asking /\ call.sent

Raised == result.exc \in Exceptions

\* The memory mem is what the PgResults hs and a call that has the result i own.
OwnedBy(mem, hs, i) ==
    /\ \A h, g \in Handles : hs[h].res # 0 /\ hs[h].res = hs[g].res => h = g
    /\ \A h \in Handles : hs[h].res # 0 => hs[h].res # i
    /\ \A j \in Ids : mem[j] # "free" <=> (j = i \/ \E h \in Handles : hs[h].res = j)

Empty(hs) == \A h \in Handles : hs[h].type \in {"unborn", "cleared"} => hs[h].res = 0

Memory ==
    /\ handles \in [Handles -> HandleType]
    /\ heap \in MemoryType
    /\ Empty(handles)
    /\ OwnedBy(heap, handles, call.last)

\* The inductive invariant.
Good == Outer /\ InCall /\ Raised /\ Memory

-----------------------------------------------------------------------------
(* A result is always free when libpq needs one. *)

LEMMA IdsType ==
    /\ Cardinality(Handles) \in Nat
    /\ Ids \subseteq Nat \ {0}
    /\ IsFiniteSet(Ids)
    /\ Cardinality(Ids) = Cardinality(Handles) + 2
<1>1. Cardinality(Handles) \in Nat
  BY PgConnectionAssumption, FS_CardinalityType
<1>2. Ids \subseteq Nat \ {0}
  BY <1>1 DEF Ids
<1>3. IsFiniteSet(Ids) /\ Cardinality(Ids) = Cardinality(Handles) + 2
  BY <1>1, FS_Interval DEF Ids
<1> QED BY <1>1, <1>2, <1>3

\* The PgResults and the call own at most one result more than there are PgResults.
LEMMA NewIdIsFree ==
    ASSUME NEW i \in Ids \cup {0}, OwnedBy(heap, handles, i)
    PROVE  NewId \in Ids /\ heap[NewId] = "free"
<1>1. ASSUME \A j \in Ids : heap[j] # "free"
      PROVE  FALSE
  <2> DEFINE Taken == Ids \ {i}
             holder == [j \in Taken |-> CHOOSE h \in Handles : handles[h].res = j]
  <2>1. \A j \in Taken : holder[j] \in Handles /\ handles[holder[j]].res = j
    <3>1. \A j \in Taken : \E h \in Handles : handles[h].res = j
      BY <1>1 DEF OwnedBy
    <3> QED BY <3>1
  <2>2. holder \in [Taken -> Handles]
    BY <2>1
  <2>3. \A j, k \in Taken : holder[j] = holder[k] => j = k
    BY <2>1
  <2>4. holder \in Injection(Taken, Handles)
    <3> HIDE DEF holder, Taken
    <3> QED BY <2>2, <2>3, Fun_IsInj
  <2>5. IsFiniteSet(Handles)
    BY PgConnectionAssumption
  <2>6. Cardinality(Taken) <= Cardinality(Handles)
    <3> HIDE DEF holder, Taken
    <3> QED BY <2>4, <2>5, FS_Injection
  <2>7. \/ Cardinality(Taken) = Cardinality(Ids) - 1
        \/ Cardinality(Taken) = Cardinality(Ids)
    <3>1. Cardinality(Ids \ {i}) = IF i \in Ids THEN Cardinality(Ids) - 1 ELSE Cardinality(Ids)
      BY IdsType, FS_RemoveElement
    <3> QED BY <3>1
  <2> HIDE DEF holder, Taken
  <2> QED BY <2>6, <2>7, IdsType
<1>2. \E j \in Ids : heap[j] = "free"
  BY <1>1
<1> QED BY <1>2 DEF NewId

-----------------------------------------------------------------------------
(* What calls have in common. *)

LEMMA StartsInCall ==
    ASSUME NEW op \in Ops, Starts(Calling(op))
    PROVE  InCall' /\ Raised' /\ call'.last = 0
BY DEF Starts, Calling, NoCall, Nothing, InCall, Raised, Exceptions

LEMMA ReturnsInCall ==
    ASSUME NEW e \in Exceptions, Returns(e)
    PROVE  InCall' /\ Raised' /\ call'.last = 0
BY DEF Returns, NoCall, InCall, Raised, Ops

LEMMA NoCallLast == call = NoCall => call.last = 0
BY DEF NoCall

LEMMA SameMemory ==
    ASSUME Memory, UNCHANGED <<heap, handles>>, call'.last = call.last
    PROVE  Memory'
BY DEF Memory, Empty, OwnedBy

LEMMA ReadsAnswerOuter ==
    ASSUME Outer, ReadsAnswer, UNCHANGED <<conn, bePID>>
    PROVE  Outer'
<1>1. link' \in {"ok", "bad"}
  BY DEF Outer, ReadsAnswer, Reads
<1>2. async' \in {"idle", "busy"} \cup Copies
  BY DEF ReadsAnswer
<1> QED BY <1>1, <1>2 DEF Outer

LEMMA ExceptionType ==
    ASSUME NEW s, NEW op
    PROVE  Exception(s, op) \in Exceptions
BY DEF Exception, Exceptions

LEMMA ResultTypeType ==
    ASSUME NEW s, ~IsError(s)
    PROVE  ResultType(s) \in {"DQL", "DML", "DDL", "EMPTY"}
BY DEF IsError, ResultType

\* A result that nothing owns is freed, or goes to a PgResult that had none.
LEMMA ConcludesMemory ==
    ASSUME NEW mem \in MemoryType, NEW i \in Ids \cup {0},
           handles \in [Handles -> HandleType], Empty(handles), OwnedBy(mem, handles, i),
           Concludes(mem, i)
    PROVE  InCall' /\ Raised' /\ Memory'
<1> DEFINE freed == [mem EXCEPT ![i] = "free"]
<1>1. freed \in MemoryType /\ OwnedBy(freed, handles, 0)
  <2>1. freed \in MemoryType
    BY DEF MemoryType
  <2>2. \A j \in Ids : freed[j] = IF j = i THEN "free" ELSE mem[j]
    BY DEF MemoryType
  <2>3. \A j \in Ids : j # 0
    BY IdsType
  <2> QED BY <2>1, <2>2, <2>3 DEF OwnedBy
<1>2. CASE IsError(mem[i])
  <2>1. heap' = freed /\ UNCHANGED handles /\ Returns(Exception(mem[i], call.op))
    BY <1>2 DEF Concludes, AfterError
  <2>2. InCall' /\ Raised' /\ call'.last = 0
    BY <2>1, ExceptionType, ReturnsInCall
  <2> HIDE DEF freed
  <2> QED BY <1>1, <2>1, <2>2 DEF Memory
<1>3. CASE ~IsError(mem[i]) /\ call.op = "getvalue"
  <2>1. heap' = freed /\ UNCHANGED handles /\ Returns("none")
    BY <1>3 DEF Concludes
  <2>2. InCall' /\ Raised' /\ call'.last = 0
    BY <2>1, ReturnsInCall DEF Exceptions
  <2> HIDE DEF freed
  <2> QED BY <1>1, <2>1, <2>2 DEF Memory
<1>4. CASE ~IsError(mem[i]) /\ call.op # "getvalue"
  <2> DEFINE type == ResultType(mem[i])
  <2>1. /\ heap' = mem /\ Returns("none")
        /\ \E h \in Unborn : handles' = [handles EXCEPT ![h] = [res |-> i, type |-> type]]
    BY <1>4 DEF Concludes
  <2>2. PICK h \in Unborn : handles' = [handles EXCEPT ![h] = [res |-> i, type |-> type]]
    BY <2>1
  <2>3. h \in Handles /\ handles[h].res = 0
    BY <2>2 DEF Unborn, Empty
  <2>4. type \in {"DQL", "DML", "DDL", "EMPTY"}
    BY <1>4, ResultTypeType
  <2>5. InCall' /\ Raised' /\ call'.last = 0
    BY <2>1, ReturnsInCall DEF Exceptions
  <2> HIDE DEF type
  <2>6. [res |-> i, type |-> type] \in HandleType
    BY <2>4 DEF HandleType
  <2>7. handles' \in [Handles -> HandleType]
    BY <2>2, <2>3, <2>6
  <2>8. /\ handles'[h].res = i /\ handles'[h].type = type
        /\ \A g \in Handles \ {h} : handles'[g] = handles[g]
    BY <2>2, <2>3
  <2>9. Empty(handles')
    BY <2>4, <2>8 DEF Empty
  <2>10. OwnedBy(mem, handles', 0)
    <3>1. \A j \in Ids : j # 0
      BY IdsType
    <3>2. \A g, k \in Handles : handles'[g].res # 0 /\ handles'[g].res = handles'[k].res => g = k
      BY <2>3, <2>8 DEF OwnedBy
    <3>3. ASSUME NEW j \in Ids
          PROVE  mem[j] # "free" <=> \E g \in Handles : handles'[g].res = j
      <4>1. mem[j] # "free" <=> (j = i \/ \E g \in Handles : handles[g].res = j)
        BY DEF OwnedBy
      <4>2. (\E g \in Handles : handles'[g].res = j)
               <=> (j = i \/ \E g \in Handles : handles[g].res = j)
        BY <2>3, <2>8, <3>1
      <4> QED BY <4>1, <4>2
    <3> QED BY <3>1, <3>2, <3>3 DEF OwnedBy
  <2> QED BY <2>1, <2>5, <2>7, <2>9, <2>10 DEF Memory
<1> QED BY <1>2, <1>3, <1>4

\* A new result takes the place of the one before.
LEMMA HeldMemory ==
    ASSUME Memory, InCall
    PROVE  /\ Held \in MemoryType
           /\ OwnedBy(Held, handles, 0)
           /\ NewId \in Ids
           /\ \A s \in Statuses : /\ [Held EXCEPT ![NewId] = s] \in MemoryType
                                  /\ OwnedBy([Held EXCEPT ![NewId] = s], handles, NewId)
<1>1. heap \in [Ids -> Statuses \cup {"free"}] /\ call.last \in Ids \cup {0}
  BY DEF Memory, InCall, MemoryType
<1>2. NewId \in Ids /\ heap[NewId] = "free"
  BY <1>1, NewIdIsFree DEF Memory
<1>3. \A j \in Ids : j # 0
  BY IdsType
<1>4. /\ Held \in [Ids -> Statuses \cup {"free"}]
      /\ \A j \in Ids : Held[j] = IF j = call.last THEN "free" ELSE heap[j]
  BY <1>1, <1>3 DEF Held
<1>5. OwnedBy(Held, handles, 0)
  BY <1>3, <1>4 DEF Memory, OwnedBy
<1>6. Held[NewId] = "free"
  BY <1>2, <1>4
<1>7. ASSUME NEW s \in Statuses
      PROVE  /\ [Held EXCEPT ![NewId] = s] \in MemoryType
             /\ OwnedBy([Held EXCEPT ![NewId] = s], handles, NewId)
  <2> DEFINE m == [Held EXCEPT ![NewId] = s]
  <2>1. m \in [Ids -> Statuses \cup {"free"}]
    BY <1>4
  <2>2. \A j \in Ids : m[j] = IF j = NewId THEN s ELSE Held[j]
    BY <1>4
  <2>3. s # "free"
    BY DEF Statuses, Errors, Copies
  <2>4. \A h \in Handles : handles[h].res # NewId
    BY <1>2, <1>5, <1>6 DEF OwnedBy
  <2> HIDE DEF m
  <2>5. OwnedBy(m, handles, NewId)
    BY <1>3, <1>5, <2>2, <2>3, <2>4 DEF OwnedBy
  <2> QED BY <2>1, <2>5 DEF MemoryType, m
<1> QED BY <1>2, <1>4, <1>5, <1>7 DEF MemoryType

\* A call that concludes with a new result.
LEMMA ConcludesNew ==
    ASSUME Memory, InCall, NEW s \in Statuses,
           Concludes([Held EXCEPT ![NewId] = s], NewId)
    PROVE  InCall' /\ Raised' /\ Memory'
<1> DEFINE mem == [Held EXCEPT ![NewId] = s]
<1>1. mem \in MemoryType /\ OwnedBy(mem, handles, NewId) /\ NewId \in Ids \cup {0}
  BY HeldMemory
<1>2. handles \in [Handles -> HandleType] /\ Empty(handles)
  BY DEF Memory
<1> HIDE DEF mem
<1>3. Concludes(mem, NewId)
  BY DEF mem
<1> QED BY <1>1, <1>2, <1>3, ConcludesMemory

-----------------------------------------------------------------------------
(* The actions. *)

LEMMA BackendGood ==
    ASSUME Good, Serve \/ SendNotice \/ Die
    PROVE  Good'
<1>1. UNCHANGED <<conn, bePID, link, async, call, result, heap, handles>>
  BY DEF Serve, SendNotice, Die, attributes
<1>2. Outer' /\ InCall' /\ Raised'
  BY <1>1 DEF Good, Outer, InCall, Asking, Raised
<1> QED BY <1>1, <1>2, SameMemory DEF Good

LEMMA NoticeGood ==
    ASSUME Good, TakeNotice \/ PopNotice \/ UNCHANGED vars
    PROVE  Good'
<1>1. UNCHANGED <<conn, bePID, link, async, call, result, heap, handles>>
  BY DEF TakeNotice, NoticeProcessed, PopNotice, vars, attributes, libpq
<1>2. Outer' /\ InCall' /\ Raised'
  BY <1>1 DEF Good, Outer, InCall, Asking, Raised
<1> QED BY <1>1, <1>2, SameMemory DEF Good

LEMMA InterruptGood ==
    ASSUME Good, Interrupt
    PROVE  Good'
<1>1. UNCHANGED <<conn, bePID, link, call, result, heap, handles>> /\ async' = "busy"
  BY DEF Interrupt, attributes
<1>2. Outer' /\ InCall' /\ Raised'
  BY <1>1 DEF Good, Outer, InCall, Asking, Raised
<1> QED BY <1>1, <1>2, SameMemory DEF Good

LEMMA DrainGood ==
    ASSUME Good, Drain
    PROVE  Good'
<1>1. UNCHANGED <<conn, bePID, call, result, heap, handles>> /\ ReadsAnswer
  BY DEF Drain, attributes
<1>2. Outer'
  BY <1>1, ReadsAnswerOuter DEF Good
<1>3. InCall' /\ Raised'
  BY <1>1 DEF Good, InCall, Asking, Raised
<1> QED BY <1>1, <1>2, <1>3, SameMemory DEF Good

LEMMA SendGood ==
    ASSUME Good, Send
    PROVE  Good'
<1>1. UNCHANGED <<conn, bePID, link, heap, handles>> /\ call.last = 0 /\ Asking
  BY DEF Send, attributes, Good, InCall
<1>2. CASE link = "ok"
  <2>1. async' = "busy" /\ call' = [call EXCEPT !.sent = TRUE] /\ UNCHANGED result
    BY <1>2 DEF Send
  <2>2. /\ call'.op = call.op /\ call'.sent = TRUE /\ call'.last = call.last
        /\ call'.buf = call.buf /\ call'.room = call.room
    BY <2>1 DEF Good, InCall
  <2>3. InCall'
    BY <1>1, <2>1, <2>2 DEF Good, InCall, Asking
  <2>4. Outer' /\ Raised'
    BY <1>1, <2>1 DEF Good, Outer, Raised
  <2> QED BY <1>1, <2>2, <2>3, <2>4, SameMemory DEF Good
<1>3. CASE link # "ok"
  <2>1. Returns("OperationalError") /\ UNCHANGED async
    BY <1>3 DEF Send
  <2>2. InCall' /\ Raised' /\ call'.last = 0
    BY <2>1, ReturnsInCall DEF Exceptions
  <2>3. Outer'
    BY <1>1, <2>1 DEF Good, Outer
  <2> QED BY <1>1, <2>2, <2>3, SameMemory DEF Good
<1> QED BY <1>2, <1>3

LEMMA StatusOfType ==
    ASSUME NEW k \in Statuses \cup {"eof"}
    PROVE  StatusOf(k) \in Statuses
BY DEF StatusOf, Statuses, Errors

LEMMA CollectGood ==
    ASSUME Good, Collect
    PROVE  Good'
<1>1. UNCHANGED <<conn, bePID>> /\ ReadsAnswer /\ Asking /\ call.sent
  BY DEF Collect, attributes
<1>2. Outer'
  BY <1>1, ReadsAnswerOuter DEF Good
<1>3. Memory /\ InCall /\ handles \in [Handles -> HandleType] /\ Empty(handles)
  BY DEF Good, Memory
<1>4. CASE Concludes(heap, call.last)
  <2>1. heap \in MemoryType /\ OwnedBy(heap, handles, call.last) /\ call.last \in Ids \cup {0}
    BY <1>3 DEF Memory, InCall
  <2> QED BY <1>2, <1>3, <1>4, <2>1, ConcludesMemory DEF Good
<1>5. CASE /\ Coming \in Copies \cup {"eof"}
           /\ Concludes([Held EXCEPT ![NewId] = StatusOf(Coming)], NewId)
  <2>1. StatusOf(Coming) \in Statuses
    BY <1>5, StatusOfType DEF Statuses
  <2> QED BY <1>2, <1>3, <1>5, <2>1, ConcludesNew DEF Good
<1>6. CASE /\ Coming \in Statuses \ Copies
           /\ heap' = [Held EXCEPT ![NewId] = Coming]
           /\ call' = [call EXCEPT !.last = NewId]
           /\ UNCHANGED <<handles, result>>
  <2>1. heap' \in MemoryType /\ OwnedBy(heap', handles, NewId) /\ NewId \in Ids
    BY <1>3, <1>6, HeldMemory
  <2>2. /\ call'.op = call.op /\ call'.sent = call.sent /\ call'.last = NewId
        /\ call'.buf = call.buf /\ call'.room = call.room
    BY <1>3, <1>6 DEF InCall
  <2>3. InCall'
    BY <1>1, <1>3, <1>6, <2>1, <2>2 DEF InCall, Asking
  <2>4. Raised'
    BY <1>6 DEF Good, Raised
  <2>5. Memory'
    BY <1>3, <1>6, <2>1, <2>2 DEF Memory
  <2> QED BY <1>2, <2>3, <2>4, <2>5 DEF Good
<1> QED BY <1>4, <1>5, <1>6 DEF Collect

LEMMA ResultArrivesGood ==
    ASSUME Good, ResultArrives
    PROVE  Good'
<1>1. UNCHANGED <<conn, bePID>> /\ ReadsAnswer /\ call.last = 0
  BY DEF ResultArrives, attributes, Good, InCall, Asking
<1>2. Outer'
  BY <1>1, ReadsAnswerOuter DEF Good
<1>3. CASE Returns("none") /\ UNCHANGED <<heap, handles>>
  <2>1. InCall' /\ Raised' /\ call'.last = 0
    BY <1>3, ReturnsInCall DEF Exceptions
  <2> QED BY <1>1, <1>2, <1>3, <2>1, SameMemory DEF Good
<1>4. CASE /\ Coming \in Statuses \cup {"eof"}
           /\ Concludes([heap EXCEPT ![NewId] = StatusOf(Coming)], NewId)
  <2>1. StatusOf(Coming) \in Statuses
    BY <1>4, StatusOfType
  <2>2. Held = heap
    BY <1>1 DEF Held
  <2> QED BY <1>2, <1>4, <2>1, <2>2, ConcludesNew DEF Good
<1> QED BY <1>3, <1>4 DEF ResultArrives

LEMMA ReturnsLineInCall ==
    ASSUME NEW text, ReturnsLine(text)
    PROVE  InCall' /\ Raised' /\ call'.last = 0
BY DEF ReturnsLine, NoCall, InCall, Raised, Ops, Exceptions

LEMMA LongerInCall ==
    ASSUME InCall, call.op = "getline", NEW chunk, call' = Longer(chunk)
    PROVE  InCall' /\ call'.last = call.last
<1>1. /\ call'.op = call.op /\ call'.sent = call.sent /\ call'.last = call.last
      /\ call'.buf = call.buf \o chunk /\ call'.room = MAX_BUFFER_SIZE + 1
  BY DEF InCall, Longer
<1>2. call' = [op |-> call'.op, sent |-> call'.sent, last |-> call'.last,
               buf |-> call'.buf, room |-> call'.room]
  BY <1>1 DEF InCall, Longer
<1> QED BY <1>1, <1>2 DEF InCall, Asking

LEMMA GetlineGood ==
    ASSUME Good, GetlineChunk \/ GetlineEnds
    PROVE  Good'
<1>1. /\ UNCHANGED <<conn, bePID, heap, handles, async>>
      /\ call.op = "getline" /\ call.last = 0
      /\ link' \in {"ok", "bad"}
  BY DEF GetlineChunk, GetlineEnds, attributes, Good, Outer, InCall, Asking
<1>2. Outer'
  BY <1>1 DEF Good, Outer
<1>3. \/ \E text : ReturnsLine(text)
      \/ Returns("none")
      \/ (\E chunk : call' = Longer(chunk)) /\ UNCHANGED result
  BY DEF GetlineChunk, GetlineEnds
<1>4. InCall' /\ Raised' /\ call'.last = 0
  <2>1. CASE \E text : ReturnsLine(text)
    BY <2>1, ReturnsLineInCall
  <2>2. CASE Returns("none")
    BY <2>2, ReturnsInCall DEF Exceptions
  <2>3. CASE (\E chunk : call' = Longer(chunk)) /\ UNCHANGED result
    BY <1>1, <2>3, LongerInCall DEF Good, Raised
  <2> QED BY <1>3, <2>1, <2>2, <2>3
<1> QED BY <1>1, <1>2, <1>4, SameMemory DEF Good

LEMMA AsyncGood ==
    ASSUME Good, GetlineAsyncPass
    PROVE  Good'
<1>1. /\ UNCHANGED <<conn, bePID, heap, handles, async>>
      /\ call.op = "getlineAsync" /\ call.last = 0
      /\ link' \in {"ok", "bad"}
  BY DEF GetlineAsyncPass, AsyncEnds, AsyncPiece, InputFails, InputConsumed, attributes, Good,
         Outer, InCall, Asking
<1>2. Outer'
  BY <1>1 DEF Good, Outer
<1> DEFINE Grown(c) == /\ c.op = call.op /\ c.sent = call.sent /\ c.last = call.last
                       /\ c = [op |-> c.op, sent |-> c.sent, last |-> c.last,
                               buf |-> c.buf, room |-> c.room]
<1>3. \/ \E text : ReturnsLine(text)
      \/ Returns("none") \/ Returns("InternalError")
      \/ call' = NoCall /\ result'.exc = "overrun"
      \/ Grown(call') /\ UNCHANGED result
  <2>1. CASE AsyncEnds
    BY <2>1 DEF AsyncEnds
  <2>2. CASE AsyncPiece
    <3>1. ASSUME NEW piece, call' = Fuller(piece)
          PROVE  Grown(call')
      BY <3>1 DEF Good, InCall, Fuller
    <3> HIDE DEF Grown
    <3>2. \/ \E text : ReturnsLine(text)
          \/ call' = NoCall /\ result'.exc = "overrun"
          \/ (\E piece : call' = Fuller(piece)) /\ UNCHANGED result
      BY <2>2 DEF AsyncPiece
    <3> QED BY <3>1, <3>2
  <2> QED BY <2>1, <2>2 DEF GetlineAsyncPass
<1>4. InCall' /\ Raised' /\ call'.last = 0
  <2>1. CASE \E text : ReturnsLine(text)
    BY <2>1, ReturnsLineInCall
  <2>2. CASE Returns("none") \/ Returns("InternalError")
    BY <2>2, ReturnsInCall DEF Exceptions
  <2>3. CASE call' = NoCall /\ result'.exc = "overrun"
    BY <2>3 DEF NoCall, InCall, Raised, Ops, Exceptions
  <2>4. CASE Grown(call') /\ UNCHANGED result
    BY <1>1, <2>4 DEF Good, InCall, Raised, Asking
  <2> QED BY <1>3, <2>1, <2>2, <2>3, <2>4
<1> QED BY <1>1, <1>2, <1>4, SameMemory DEF Good

LEMMA EndcopyReadsGood ==
    ASSUME Good, EndcopyReads
    PROVE  Good'
<1>1. UNCHANGED <<conn, heap, handles>> /\ ReadsAnswer /\ call.last = 0
  BY DEF EndcopyReads, Good, InCall, Asking
<1>2. UNCHANGED bePID
  BY DEF EndcopyReads, NoticeProcessed, attributes
<1>3. Outer'
  BY <1>1, <1>2, ReadsAnswerOuter DEF Good
<1>4. \/ UNCHANGED <<call, result>> \/ Returns("none") \/ Returns("InternalError")
  BY DEF EndcopyReads
<1>5. InCall' /\ Raised' /\ call'.last = 0
  <2>1. CASE UNCHANGED <<call, result>>
    BY <1>1, <2>1 DEF Good, InCall, Asking, Raised
  <2>2. CASE Returns("none") \/ Returns("InternalError")
    BY <2>2, ReturnsInCall DEF Exceptions
  <2> QED BY <1>4, <2>1, <2>2
<1> QED BY <1>1, <1>3, <1>5, SameMemory DEF Good

LEMMA ProceedGood ==
    ASSUME Good, Proceed
    PROVE  Good'
BY NoticeGood, InterruptGood, DrainGood, SendGood, CollectGood, ResultArrivesGood,
   GetlineGood, AsyncGood, EndcopyReadsGood DEF Proceed

\* A call that starts another, or returns at once, and leaves the memory alone.
LEMMA OutsideGood ==
    ASSUME Good, Outer', call = NoCall, UNCHANGED <<heap, handles>>,
           \/ \E op \in Ops : Starts(Calling(op))
           \/ \E e \in Exceptions : Returns(e)
    PROVE  Good'
<1>1. InCall' /\ Raised' /\ call'.last = 0
  BY StartsInCall, ReturnsInCall
<1> QED BY <1>1, NoCallLast, SameMemory DEF Good

LEMMA QueryGood ==
    ASSUME Good, Query \/ (\E p \in Programs : SendQuery(p))
    PROVE  Good'
<1>1. call = NoCall /\ UNCHANGED <<conn, bePID, heap, handles, link>>
  BY DEF Query, SendQuery, attributes, libpq
<1>2. UNCHANGED async \/ async' = "busy"
  BY DEF Query, SendQuery, libpq
<1>3. Outer'
  BY <1>1, <1>2 DEF Good, Outer
<1>4. Starts(Calling("query")) \/ Returns("none") \/ Returns("InternalError")
  BY DEF Query, SendQuery
<1> QED BY <1>1, <1>3, <1>4, OutsideGood DEF Ops, Exceptions

LEMMA GetResultGood ==
    ASSUME Good, GetResult
    PROVE  Good'
<1>1. call = NoCall /\ UNCHANGED <<conn, bePID, link, async>>
  BY DEF GetResult, attributes, libpq
<1>2. Outer'
  BY <1>1 DEF Good, Outer
<1>3. async = "idle" \/ async = "busy" \/ async \in Copies
  BY DEF Good, Outer
<1>4. CASE async \in {"idle", "busy"}
  <2>1. /\ Starts(Calling("getResult")) \/ Returns("none")
        /\ UNCHANGED <<heap, handles>>
    BY <1>4 DEF GetResult, Copies
  <2> QED BY <1>1, <1>2, <2>1, OutsideGood DEF Ops, Exceptions
<1>5. CASE async \in Copies
  <2>1. Concludes([heap EXCEPT ![NewId] = async], NewId)
    BY <1>5 DEF GetResult, Copies
  <2>2. Held = heap
    BY <1>1, NoCallLast DEF Held
  <2>3. async \in Statuses
    BY <1>5 DEF Statuses
  <2> QED BY <1>2, <2>1, <2>2, <2>3, ConcludesNew DEF Good
<1> QED BY <1>3, <1>4, <1>5

LEMMA CallsGood ==
    ASSUME Good, ConsumeInput \/ RequestCancel \/ Getline \/ GetlineAsync \/ Putline \/ Endcopy
                 \/ ClosedCall
    PROVE  Good'
<1>1. call = NoCall /\ UNCHANGED <<conn, bePID, heap, handles>>
  BY DEF ConsumeInput, RequestCancel, Getline, GetlineAsync, Putline, Endcopy, ClosedCall, attributes
<1>2. UNCHANGED link \/ link' = "bad"
  BY DEF ConsumeInput, InputFails, InputConsumed, RequestCancel, Getline, GetlineAsync, Putline,
         Endcopy, ClosedCall, libpq
<1>3. UNCHANGED async \/ async' = "busy"
  BY DEF ConsumeInput, RequestCancel, Getline, GetlineAsync, Putline, Endcopy, ClosedCall, libpq
<1>4. Outer'
  BY <1>1, <1>2, <1>3 DEF Good, Outer
<1>5. CASE ConsumeInput \/ RequestCancel \/ Putline \/ ClosedCall
  <2>1. Returns("none") \/ Returns("InternalError") \/ Returns("InterfaceError")
    BY <1>5 DEF ConsumeInput, RequestCancel, Putline, ClosedCall
  <2> QED BY <1>1, <1>4, <2>1, OutsideGood DEF Exceptions
<1>6. CASE GetlineAsync
  <2>1. Starts([Calling("getlineAsync") EXCEPT !.room = MAX_BUFFER_SIZE])
    BY <1>6 DEF GetlineAsync
  <2>2. InCall' /\ Raised' /\ call'.last = 0
    BY <2>1 DEF Starts, Calling, NoCall, Nothing, InCall, Raised, Exceptions, Ops
  <2> QED BY <1>1, <1>4, <2>2, NoCallLast, SameMemory DEF Good
<1>7. CASE Endcopy
  <2>1. Returns("InternalError") \/ Starts(Calling("endcopy"))
    BY <1>7 DEF Endcopy
  <2> QED BY <1>1, <1>4, <2>1, OutsideGood DEF Exceptions, Ops
<1>8. CASE Getline
  <2>1. CASE Returns("none")
    BY <1>1, <1>4, <2>1, OutsideGood DEF Exceptions
  <2>2. CASE Starts([Calling("getline") EXCEPT !.room = MAX_BUFFER_SIZE])
    <3>1. InCall' /\ Raised' /\ call'.last = 0
      BY <2>2 DEF Starts, Calling, NoCall, Nothing, InCall, Raised, Exceptions, Ops
    <3> QED BY <1>1, <1>4, <3>1, NoCallLast, SameMemory DEF Good
  <2> QED BY <1>8, <2>1, <2>2 DEF Getline
<1> QED BY <1>5, <1>6, <1>7, <1>8

LEMMA EndGood ==
    ASSUME Good, Finish \/ Reset
    PROVE  Good'
<1>1. call = NoCall /\ UNCHANGED <<heap, handles>>
  BY DEF Finish, Reset
<1>2. Outer'
  BY DEF Finish, Reset, Good, Outer, attributes
<1>3. Returns("none") \/ Returns("DatabaseError")
  BY DEF Finish, Reset
<1> QED BY <1>1, <1>2, <1>3, OutsideGood DEF Exceptions

\* A PgResult gives its result back, if it has one.
LEMMA FreedMemory ==
    ASSUME Memory, NEW h \in Handles, NEW new \in HandleType, new.res = 0,
           heap' = Freed(h), handles' = [handles EXCEPT ![h] = new],
           call.last = 0, call'.last = 0
    PROVE  Memory'
<1>1. heap \in [Ids -> Statuses \cup {"free"}] /\ handles \in [Handles -> HandleType]
  BY DEF Memory, MemoryType
<1>2. /\ handles' \in [Handles -> HandleType]
      /\ handles'[h] = new /\ \A g \in Handles \ {h} : handles'[g] = handles[g]
  BY <1>1
<1>3. Empty(handles')
  BY <1>2 DEF Memory, Empty
<1>4. \A j \in Ids : j # 0
  BY IdsType
<1>5. handles[h].res \in Ids \cup {0}
  BY <1>1 DEF HandleType
<1>6. /\ heap' \in [Ids -> Statuses \cup {"free"}]
      /\ \A j \in Ids : heap'[j] = IF j = handles[h].res THEN "free" ELSE heap[j]
  BY <1>1, <1>4, <1>5 DEF Freed
<1>7. OwnedBy(heap', handles', 0)
  <2>1. \A g, k \in Handles : handles'[g].res # 0 /\ handles'[g].res = handles'[k].res => g = k
    BY <1>2 DEF Memory, OwnedBy
  <2>2. ASSUME NEW j \in Ids
        PROVE  heap'[j] # "free" <=> \E g \in Handles : handles'[g].res = j
    <3>1. heap[j] # "free" <=> \E g \in Handles : handles[g].res = j
      BY <1>4 DEF Memory, OwnedBy
    <3>2. CASE j = handles[h].res
      <4>1. \A g \in Handles \ {h} : handles[g].res # j
        BY <1>4, <3>2 DEF Memory, OwnedBy
      <4> QED BY <1>2, <1>4, <1>6, <3>2, <4>1
    <3>3. CASE j # handles[h].res
      <4>1. (\E g \in Handles : handles'[g].res = j) <=> \E g \in Handles : handles[g].res = j
        BY <1>2, <1>4, <3>3
      <4> QED BY <1>6, <3>1, <3>3, <4>1
    <3> QED BY <3>2, <3>3
  <2> QED BY <1>4, <2>1, <2>2 DEF OwnedBy
<1> QED BY <1>2, <1>3, <1>6, <1>7 DEF Memory, MemoryType

LEMMA ResultsGood ==
    ASSUME Good, NEW h \in Handles, Clear(h) \/ PgResult_dealloc(h) \/ Getvalue(h)
    PROVE  Good'
<1>1. call = NoCall /\ call.last = 0 /\ Outer'
  <2>1. UNCHANGED <<conn, bePID, link, async>> /\ call = NoCall
    BY DEF Clear, PgResult_dealloc, Getvalue, attributes, libpq
  <2> QED BY <2>1, NoCallLast DEF Good, Outer
<1>2. CASE Clear(h)
  <2>1. CASE Returns("InterfaceError") /\ UNCHANGED <<heap, handles>>
    BY <1>1, <2>1, OutsideGood DEF Exceptions
  <2>2. CASE Returns("none") /\ heap' = Freed(h) /\ handles' = [handles EXCEPT ![h] = Cleared(h)]
    <3>1. InCall' /\ Raised' /\ call'.last = 0
      BY <2>2, ReturnsInCall DEF Exceptions
    <3>2. Cleared(h) \in HandleType /\ Cleared(h).res = 0
      BY DEF Cleared, HandleType
    <3> QED BY <1>1, <2>2, <3>1, <3>2, FreedMemory DEF Good
  <2> QED BY <1>2, <2>1, <2>2 DEF Clear
<1>3. CASE PgResult_dealloc(h)
  <2>1. /\ heap' = Freed(h) /\ handles' = [handles EXCEPT ![h] = NoHandle]
        /\ UNCHANGED <<call, result>>
    BY <1>3 DEF PgResult_dealloc
  <2>2. InCall' /\ Raised'
    BY <2>1 DEF Good, InCall, Asking, Raised
  <2>3. NoHandle \in HandleType /\ NoHandle.res = 0
    BY DEF NoHandle, HandleType
  <2> QED BY <1>1, <2>1, <2>2, <2>3, FreedMemory DEF Good
<1>4. CASE Getvalue(h)
  <2>1. UNCHANGED <<heap, handles>>
    BY <1>4 DEF Getvalue
  <2>2. Returns("InterfaceError") \/ Starts(Calling("getvalue")) \/ Returns("none")
    BY <1>4 DEF Getvalue
  <2> QED BY <1>1, <2>1, <2>2, OutsideGood DEF Exceptions, Ops
<1> QED BY <1>2, <1>3, <1>4

-----------------------------------------------------------------------------
(* The invariant. *)

LEMMA InitGood ==
    ASSUME Init
    PROVE  Good
<1>1. Outer /\ InCall /\ Raised
  BY DEF Init, Outer, InCall, Raised, NoCall, Nothing, Ops, Exceptions
<1>2. NoHandle \in HandleType /\ NoHandle.res = 0
  BY DEF NoHandle, HandleType
<1>3. /\ handles \in [Handles -> HandleType] /\ heap \in MemoryType
      /\ \A h \in Handles : handles[h].res = 0
      /\ \A j \in Ids : heap[j] = "free" /\ j # 0
      /\ call.last = 0
  BY <1>2, IdsType DEF Init, MemoryType, NoCall
<1>4. Memory
  BY <1>3 DEF Memory, Empty, OwnedBy
<1> QED BY <1>1, <1>4 DEF Good

LEMMA GoodInvariant == Spec => []Good
<1>1. Init => Good
  BY InitGood
<1>2. ASSUME Good, [Next]_vars
      PROVE  Good'
  <2>1. CASE Serve \/ SendNotice \/ Die
    BY <1>2, <2>1, BackendGood
  <2>2. CASE Proceed
    BY <1>2, <2>2, ProceedGood
  <2>3. CASE TakeNotice \/ PopNotice \/ UNCHANGED vars
    BY <1>2, <2>3, NoticeGood
  <2>4. CASE Query \/ \E p \in Programs : SendQuery(p)
    BY <1>2, <2>4, QueryGood
  <2>5. CASE GetResult
    BY <1>2, <2>5, GetResultGood
  <2>6. CASE ConsumeInput \/ RequestCancel \/ Getline \/ GetlineAsync \/ Putline \/ Endcopy
             \/ ClosedCall
    BY <1>2, <2>6, CallsGood
  <2>7. CASE Finish \/ Reset
    BY <1>2, <2>7, EndGood
  <2>8. ASSUME NEW h \in Handles, Clear(h) \/ PgResult_dealloc(h) \/ Getvalue(h)
        PROVE  Good'
    BY <1>2, <2>8, ResultsGood
  <2> QED BY <1>2, <2>1, <2>2, <2>3, <2>4, <2>5, <2>6, <2>7, <2>8 DEF Next
<1> QED BY <1>1, <1>2, PTL DEF Spec

\* The members of a PgConnection and of its PgResults keep their types; in
\* particular no PgResult is made of an error (PgResult_New in pgresult.c is only
\* called for the other results).
THEOREM ConnectionTypeCorrect == Spec => []TypeOK
<1>1. Good => TypeOK
  BY DEF Good, Outer, InCall, Raised, Memory, TypeOK, Ops, Exceptions, HandleType, MemoryType
<1> QED BY <1>1, GoodInvariant, PTL

\* Whatever calls are made and whatever the backend answers, each PGresult that
\* libpq gave belongs to one PgResult or to the call in progress, until PQclear.
THEOREM EveryResultIsOwned == Spec => []ResultsOwned
<1>1. ASSUME Good
      PROVE  ResultsOwned
  <2> DEFINE owned == {h \in Handles : handles[h].res # 0}
  <2>1. OwnedBy(heap, handles, call.last) /\ call.last \in Ids \cup {0}
    BY <1>1 DEF Good, Memory, InCall
  <2>2. \A h \in Handles : handles[h].res \in Ids \cup {0}
    BY <1>1 DEF Good, Memory, HandleType
  <2>3. \A j \in Ids : j # 0
    BY IdsType
  <2>4. \A h, g \in owned : handles[h].res = handles[g].res => h = g
    BY <2>1 DEF OwnedBy
  <2>5. \A h \in owned : handles[h].res # call.last
    BY <2>1 DEF OwnedBy
  <2>6. ASSUME NEW i
        PROVE  i \in {j \in Ids : heap[j] # "free"}
                  <=> i \in {handles[h].res : h \in owned} \cup ({call.last} \ {0})
    BY <2>1, <2>2, <2>3 DEF OwnedBy
  <2>7. {j \in Ids : heap[j] # "free"} = {handles[h].res : h \in owned} \cup ({call.last} \ {0})
    BY <2>6
  <2> QED BY <2>4, <2>5, <2>7 DEF ResultsOwned
<1> QED BY <1>1, GoodInvariant, PTL

-----------------------------------------------------------------------------
(* The messages. *)

Kinds == Statuses \cup {"line", "copied", "ready", "notice", "eof", "wait"}
MessageType == [kind : Kinds, number : Nat, text : Seq(Nat)]

\* A line is sent in one message, whole.
Sendable == {m \in MessageType :
    m.kind = "line" => m.number \in DOMAIN Lines /\ m.text = Append(Lines[m.number], Newline)}

\* The least element of a set of numbers, for proofs by a least counterexample.
LEMMA MinIs ==
    ASSUME NEW S \in SUBSET Nat, S # {}
    PROVE  Min(S) \in S /\ \A y \in S : Min(S) <= y
<1> DEFINE Below == {p \in Nat \X Nat : p[1] < p[2]}
<1>1. IsWellFoundedOn(Below, Nat)
  BY NatLessThanWellFounded DEF OpToRel
<1>2. PICK x \in S : \A y \in S : ~(<<y, x>> \in Below)
  <2> HIDE DEF Below
  <2> QED BY <1>1, WFMin
<1>3. ASSUME NEW y \in S
      PROVE  ~(y < x)
  <2>1. ~(<<y, x>> \in Below)
    BY <1>2
  <2>2. <<y, x>> \in Nat \X Nat /\ <<y, x>>[1] = y /\ <<y, x>>[2] = x
    OBVIOUS
  <2> QED BY <2>1, <2>2
<1>4. \A y \in S : x <= y
  BY <1>3
<1> QED BY <1>4 DEF Min

\* The first n of the sequences ss, joined one by one.
IsJoined(f, ss, n) == f = [i \in 1 .. n |-> IF i = 1 THEN ss[i] ELSE f[i - 1] \o ss[i]]

LEMMA JoinedExists ==
    ASSUME NEW ss, NEW n \in Nat
    PROVE  \E f : IsJoined(f, ss, n)
<1> DEFINE Without == {m \in Nat : ~\E f : IsJoined(f, ss, m)}
<1> SUFFICES ASSUME Without # {}
             PROVE  FALSE
  OBVIOUS
<1>1. PICK m \in Without : \A j \in Without : m <= j
  <2>1. Without \in SUBSET Nat
    OBVIOUS
  <2> HIDE DEF Without
  <2> QED BY <2>1, MinIs
<1>2. CASE m = 0
  <2> DEFINE none == [i \in 1 .. 0 |-> ss[i]]
  <2>1. none = [i \in 1 .. 0 |-> IF i = 1 THEN ss[i] ELSE none[i - 1] \o ss[i]]
    OBVIOUS
  <2>2. IsJoined(none, ss, 0)
    <3> HIDE DEF none
    <3> QED BY <2>1 DEF IsJoined
  <2> QED BY <1>2, <2>2
<1>3. CASE m # 0
  <2>1. m - 1 \in Nat /\ ~(m - 1 \in Without)
    BY <1>1, <1>3
  <2>2. PICK f : IsJoined(f, ss, m - 1)
    BY <2>1
  <2> DEFINE g == [i \in 1 .. m |-> IF i = 1 THEN ss[i] ELSE f[i - 1] \o ss[i]]
  <2>3. ASSUME NEW j \in 1 .. m - 1
        PROVE  g[j] = f[j]
    <3>1. f = [i \in 1 .. m - 1 |-> IF i = 1 THEN ss[i] ELSE f[i - 1] \o ss[i]]
      BY <2>2 DEF IsJoined
    <3>2. f[j] = IF j = 1 THEN ss[j] ELSE f[j - 1] \o ss[j]
      BY <3>1
    <3>3. j \in 1 .. m
      BY <2>1
    <3> QED BY <3>2, <3>3
  <2>4. g = [i \in 1 .. m |-> IF i = 1 THEN ss[i] ELSE g[i - 1] \o ss[i]]
    <3> DEFINE e(i) == IF i = 1 THEN ss[i] ELSE f[i - 1] \o ss[i]
               d(i) == IF i = 1 THEN ss[i] ELSE g[i - 1] \o ss[i]
    <3>1. \A i \in 1 .. m : e(i) = d(i)
      <4> SUFFICES ASSUME NEW i \in 1 .. m
                   PROVE  e(i) = d(i)
        OBVIOUS
      <4>1. CASE i = 1
        BY <4>1
      <4>2. CASE i # 1
        <5>1. i - 1 \in 1 .. m - 1
          BY <4>2, <2>1
        <5>2. g[i - 1] = f[i - 1]
          BY <2>3, <5>1
        <5> HIDE DEF g
        <5> QED BY <4>2, <5>2
      <4> QED BY <4>1, <4>2
    <3>2. g = [i \in 1 .. m |-> e(i)]
      OBVIOUS
    <3> HIDE DEF e, d, g
    <3>3. g = [i \in 1 .. m |-> d(i)]
      BY <3>1, <3>2
    <3> QED BY <3>3 DEF d
  <2>5. IsJoined(g, ss, m)
    <3> HIDE DEF g
    <3> QED BY <2>4 DEF IsJoined
  <2> QED BY <2>5
<1> QED BY <1>2, <1>3

LEMMA JoinedType ==
    ASSUME NEW S, NEW ss \in Seq(Seq(S)), NEW f, IsJoined(f, ss, Len(ss)), NEW n \in 1 .. Len(ss)
    PROVE  f[n] \in Seq(S)
<1> DEFINE Wrong == {i \in 1 .. Len(ss) : f[i] \notin Seq(S)}
<1>1. \A i \in 1 .. Len(ss) : f[i] = IF i = 1 THEN ss[i] ELSE f[i - 1] \o ss[i]
  BY DEF IsJoined
<1>2. \A i \in 1 .. Len(ss) : ss[i] \in Seq(S)
  BY ElementOfSeq
<1>3. Len(ss) \in Nat
  BY LenProperties
<1> SUFFICES ASSUME Wrong # {}
             PROVE  FALSE
  OBVIOUS
<1>4. PICK m \in Wrong : \A j \in Wrong : m <= j
  <2>1. Wrong \in SUBSET Nat
    OBVIOUS
  <2> HIDE DEF Wrong
  <2> QED BY <2>1, MinIs
<1>5. m # 1
  BY <1>1, <1>2
<1>6. m - 1 \in 1 .. Len(ss) /\ ~(m - 1 \in Wrong)
  BY <1>3, <1>4, <1>5
<1>7. f[m] = f[m - 1] \o ss[m] /\ f[m - 1] \in Seq(S) /\ ss[m] \in Seq(S)
  BY <1>1, <1>2, <1>5, <1>6
<1>8. f[m] \in Seq(S)
  BY <1>7, ConcatProperties
<1> QED BY <1>8

LEMMA FlattenType ==
    ASSUME NEW S, NEW ss \in Seq(Seq(S))
    PROVE  FlattenSeq(ss) \in Seq(S)
<1>1. CASE Len(ss) = 0
  <2>1. ss = <<>>
    BY <1>1, EmptySeq
  <2> QED BY <1>1, <2>1, EmptySeq DEF FlattenSeq
<1>2. CASE Len(ss) # 0
  <2> DEFINE f == CHOOSE f : IsJoined(f, ss, Len(ss))
  <2>1. Len(ss) \in Nat /\ Len(ss) \in 1 .. Len(ss)
    BY <1>2, LenProperties
  <2>2. IsJoined(f, ss, Len(ss))
    BY <2>1, JoinedExists
  <2>3. f[Len(ss)] \in Seq(S)
    <3> HIDE DEF f
    <3> QED BY <2>1, <2>2, JoinedType
  <2>4. FlattenSeq(ss) = f[Len(ss)]
    BY <1>2 DEF FlattenSeq, IsJoined
  <2> QED BY <2>3, <2>4
<1> QED BY <1>1, <1>2

LEMMA MessageSendable ==
    ASSUME NEW k \in Kinds, k # "line"
    PROVE  Message(k) \in Sendable
<1>1. Message(k) = [kind |-> k, number |-> 0, text |-> <<>>]
  BY DEF Message
<1>2. <<>> \in Seq(Nat)
  OBVIOUS
<1> QED BY <1>1, <1>2 DEF Sendable, MessageType

LEMMA LinesType ==
    /\ Lines \in Seq(Seq(Nat)) /\ DOMAIN Lines = 1 .. Len(Lines) /\ Len(Lines) \in Nat
    /\ \A k \in DOMAIN Lines : /\ k \in Nat \ {0}
                               /\ Lines[k] \in Seq(Nat)
                               /\ \A i \in 1 .. Len(Lines[k]) :
                                     Lines[k][i] # 0 /\ Lines[k][i] # Newline
<1> DEFINE Char == Nat \ {0, 10}
<1>1. Lines \in Seq(Seq(Char))
  BY PgConnectionAssumption
<1>2. DOMAIN Lines = 1 .. Len(Lines) /\ Len(Lines) \in Nat
  BY <1>1, LenProperties
<1>3. ASSUME NEW k \in DOMAIN Lines
      PROVE  /\ Lines[k] \in Seq(Nat)
             /\ \A i \in 1 .. Len(Lines[k]) : Lines[k][i] # 0 /\ Lines[k][i] # Newline
  <2>1. Lines[k] \in Seq(Char)
    BY <1>1, <1>2, <1>3, ElementOfSeq
  <2>2. \A i \in 1 .. Len(Lines[k]) : Lines[k][i] \in Char
    BY <2>1, ElementOfSeq
  <2>3. Seq(Char) \subseteq Seq(Nat)
    BY SeqMonotonic
  <2> QED BY <2>1, <2>2, <2>3 DEF Newline
<1>4. Seq(Char) \subseteq Seq(Nat)
  BY SeqMonotonic
<1>5. Lines \in Seq(Seq(Nat))
  <2> HIDE DEF Char
  <2>1. Seq(Seq(Char)) \subseteq Seq(Seq(Nat))
    BY <1>4, SeqMonotonic
  <2> QED BY <1>1, <2>1
<1> QED BY <1>2, <1>3, <1>5

LEMMA IsSeq ==
    ASSUME NEW S, NEW n \in Nat, NEW f \in [1 .. n -> S]
    PROVE  f \in Seq(S)
BY SeqDef

LEMMA MessagesSendable ==
    ASSUME NEW s \in Statuses
    PROVE  Messages(s) \in Seq(Sendable)
<1>1. CASE s = "COPY_OUT"
  <2> DEFINE sent(k) == [kind |-> "line", number |-> k, text |-> Append(Lines[k], Newline)]
             lines == [k \in 1 .. Len(Lines) |-> sent(k)]
  <2>1. ASSUME NEW k \in 1 .. Len(Lines)
        PROVE  sent(k) \in Sendable
    <3>1. Append(Lines[k], Newline) \in Seq(Nat)
      BY LinesType, AppendProperties DEF Newline
    <3> QED BY <3>1, LinesType DEF Sendable, MessageType, Kinds
  <2>2. lines \in Seq(Sendable)
    <3>1. lines \in [1 .. Len(Lines) -> Sendable]
      BY <2>1
    <3> HIDE DEF lines
    <3> QED BY <3>1, LinesType, IsSeq
  <2>3. /\ Message("COPY_OUT") \in Sendable /\ Message("copied") \in Sendable
        /\ Message("COMMAND_OK") \in Sendable
    BY MessageSendable DEF Kinds, Statuses, Copies
  <2> DEFINE first == <<Message("COPY_OUT")>>
             end == <<Message("copied"), Message("COMMAND_OK")>>
  <2>4. first \in Seq(Sendable) /\ end \in Seq(Sendable)
    BY <2>3
  <2>5. Messages(s) = first \o lines \o end
    BY <1>1, LinesType DEF Messages
  <2> HIDE DEF first, end, lines
  <2>6. first \o lines \in Seq(Sendable)
    BY <2>2, <2>4, ConcatProperties
  <2>7. first \o lines \o end \in Seq(Sendable)
    BY <2>4, <2>6, ConcatProperties
  <2> QED BY <2>5, <2>7
<1>2. CASE s = "COPY_IN"
  <2>1. /\ Message("COPY_IN") \in Sendable /\ Message("wait") \in Sendable
        /\ Message("COMMAND_OK") \in Sendable
    BY MessageSendable DEF Kinds, Statuses, Copies
  <2>2. Messages(s) = <<Message("COPY_IN"), Message("wait"), Message("COMMAND_OK")>>
    BY <1>2 DEF Messages
  <2> QED BY <2>1, <2>2
<1>3. CASE s # "COPY_OUT" /\ s # "COPY_IN"
  <2>1. s # "line"
    BY DEF Statuses, Errors, Copies
  <2>2. Message(s) \in Sendable
    BY <2>1, MessageSendable DEF Kinds
  <2>3. Messages(s) = <<Message(s)>>
    BY <1>3 DEF Messages
  <2> QED BY <2>2, <2>3
<1> QED BY <1>1, <1>2, <1>3

LEMMA AnswerSendable ==
    ASSUME NEW p \in Seq(Statuses)
    PROVE  Answer(p) \in Seq(Sendable)
<1> DEFINE parts == [i \in DOMAIN p |-> Messages(p[i])]
<1>1. parts \in Seq(Seq(Sendable))
  <2>1. DOMAIN p = 1 .. Len(p) /\ Len(p) \in Nat
    BY LenProperties
  <2>2. \A i \in 1 .. Len(p) : Messages(p[i]) \in Seq(Sendable)
    BY ElementOfSeq, MessagesSendable
  <2>3. parts \in [1 .. Len(p) -> Seq(Sendable)]
    BY <2>1, <2>2
  <2> HIDE DEF parts
  <2> QED BY <2>1, <2>3, IsSeq
<1> HIDE DEF parts
<1>2. FlattenSeq(parts) \in Seq(Sendable)
  BY <1>1, FlattenType
<1>3. <<Message("ready")>> \in Seq(Sendable) /\ <<>> \in Seq(Sendable)
  <2>1. Message("ready") \in Sendable
    BY MessageSendable DEF Kinds, Statuses, Errors, Copies
  <2> QED BY <2>1
<1>4. FlattenSeq(parts) \o <<Message("ready")>> \in Seq(Sendable)
  BY <1>2, <1>3, ConcatProperties
<1> QED BY <1>3, <1>4 DEF Answer, parts

LEMMA FailureSendable == Failure \in Seq(Sendable)
<1>1. <<"FATAL_ERROR">> \in Seq(Statuses)
  BY DEF Statuses, Errors
<1> QED BY <1>1, AnswerSendable DEF Failure

-----------------------------------------------------------------------------
(* The lines of a COPY TO STDOUT. *)

\* Only getline and getlineAsync keep something in a buffer: the beginning of the
\* line whose end is what libpq reads next.  That of getlineAsync is full.
Reading ==
    /\ call.op \notin {"getline", "getlineAsync"} => call.buf = <<>>
    /\ call.op = "getline" => call.room \in Nat \ {0, 1} /\ call.buf \in Seq(Nat) /\ link = "ok"
    /\ call.op = "getlineAsync" =>
          /\ call.buf \in Seq(Nat)
          /\ call.room = MAX_BUFFER_SIZE + Len(call.buf)
          /\ call.buf = <<>> \/ (Len(call.buf) >= MAX_BUFFER_SIZE /\ async = "COPY_OUT")

\* Over a broken link no line is read, and one may lack its beginning.
Unbroken == link = "ok" =>
    IF call.buf = <<>> THEN wire \in Seq(Sendable)
    ELSE /\ wire \in Seq(MessageType) \ {<<>>} /\ Tail(wire) \in Seq(Sendable)
         /\ Head(wire).kind = "line" /\ Head(wire).number \in DOMAIN Lines
         /\ Head(wire).text # <<>>
         /\ call.buf \o Head(wire).text = Append(Lines[Head(wire).number], Newline)

\* The inductive invariant, beside Good.
InPieces == todo \in Seq(Sendable) /\ Reading /\ Unbroken /\ LinesWhole

\* What getline makes of a line and its newline.
LEMMA FrontOfLine ==
    ASSUME NEW k \in DOMAIN Lines, NEW b \in Seq(Nat), NEW t \in Seq(Nat), t # <<>>,
           b \o t = Append(Lines[k], Newline)
    PROVE  b \o Front(t) = Lines[k] /\ CString(b \o Front(t)) = Lines[k]
<1> DEFINE l == Lines[k]
           s == Append(l, Newline)
           u == b \o Front(t)
<1>1. l \in Seq(Nat) /\ Len(l) \in Nat /\ \A i \in 1 .. Len(l) : l[i] # 0
  BY LinesType, LenProperties
<1>2. /\ s \in Seq(Nat) /\ Len(s) = Len(l) + 1
      /\ \A i \in 1 .. Len(l) : s[i] = l[i]
  <2> HIDE DEF l
  <2>1. Newline \in Nat
    BY DEF Newline
  <2> QED BY <1>1, <2>1, AppendProperties
<1>3. Len(b) \in Nat /\ Len(t) \in Nat \ {0}
  BY EmptySeq, LenProperties
<1>4. /\ Len(b \o t) = Len(b) + Len(t)
      /\ \A i \in 1 .. Len(b) + Len(t) : (b \o t)[i] = IF i <= Len(b) THEN b[i] ELSE t[i - Len(b)]
  BY ConcatProperties
<1>5. /\ Front(t) \in Seq(Nat) /\ Len(Front(t)) = Len(t) - 1
      /\ \A i \in 1 .. Len(t) - 1 : Front(t)[i] = t[i]
  <2>1. \A i \in 1 .. Len(t) - 1 : t[i] \in Nat
    BY <1>3, ElementOfSeq
  <2>2. Len(t) - 1 \in Nat /\ (Len(t) - 1) - 1 + 1 = Len(t) - 1
    BY <1>3
  <2> DEFINE f == SubSeq(t, 1, Len(t) - 1)
  <2>3. /\ f \in Seq(Nat) /\ Len(f) = IF 1 <= Len(t) - 1 THEN (Len(t) - 1) - 1 + 1 ELSE 0
        /\ \A i \in 1 .. (Len(t) - 1) - 1 + 1 : f[i] = t[1 + i - 1]
    <3> HIDE DEF f
    <3>1. Len(t) - 1 \in Int
      BY <2>2
    <3> QED BY <2>1, <3>1, SubSeqProperties DEF f
  <2>4. f = Front(t)
    BY DEF Front
  <2> HIDE DEF f
  <2>5. Len(f) = Len(t) - 1
    <3> DEFINE n == Len(t) - 1
    <3>1. n \in Nat /\ Len(f) = IF 1 <= n THEN n - 1 + 1 ELSE 0
      BY <2>2, <2>3
    <3> HIDE DEF n
    <3>2. Len(f) = n
      BY <3>1
    <3> QED BY <3>2 DEF n
  <2>6. ASSUME NEW i \in 1 .. Len(t) - 1
        PROVE  f[i] = t[i]
    <3>1. i \in 1 .. (Len(t) - 1) - 1 + 1 /\ 1 + i - 1 = i
      BY <2>2
    <3>2. f[i] = t[1 + i - 1]
      BY <2>3, <3>1
    <3> QED BY <3>1, <3>2
  <2> QED BY <2>3, <2>4, <2>5, <2>6
<1>6. /\ u \in Seq(Nat) /\ Len(u) = Len(b) + (Len(t) - 1)
      /\ \A i \in 1 .. Len(b) + (Len(t) - 1) :
            u[i] = IF i <= Len(b) THEN b[i] ELSE Front(t)[i - Len(b)]
  <2> DEFINE f == Front(t)
  <2> HIDE DEF f
  <2>1. f \in Seq(Nat) /\ Len(f) = Len(t) - 1
    BY <1>5 DEF f
  <2>2. /\ b \o f \in Seq(Nat) /\ Len(b \o f) = Len(b) + Len(f)
        /\ \A i \in 1 .. Len(b) + Len(f) : (b \o f)[i] = IF i <= Len(b) THEN b[i] ELSE f[i - Len(b)]
    BY <2>1, ConcatProperties
  <2> QED BY <2>1, <2>2 DEF f
<1>7. Len(u) = Len(l)
  BY <1>1, <1>2, <1>3, <1>4, <1>6
<1>8. ASSUME NEW i \in 1 .. Len(l)
      PROVE  u[i] = l[i]
  <2>1. i \in 1 .. Len(b) + (Len(t) - 1) /\ i \in 1 .. Len(b) + Len(t)
    BY <1>3, <1>6, <1>7
  <2>2. l[i] = IF i <= Len(b) THEN b[i] ELSE t[i - Len(b)]
    BY <1>2, <1>4, <2>1
  <2>3. CASE i <= Len(b)
    BY <1>6, <2>1, <2>2, <2>3
  <2>4. CASE ~(i <= Len(b))
    <3>1. i - Len(b) \in 1 .. Len(t) - 1
      BY <1>3, <2>1, <2>4
    <3> QED BY <1>5, <1>6, <2>1, <2>2, <2>4, <3>1
  <2> QED BY <2>3, <2>4
<1>9. u = l
  <2> HIDE DEF u, l
  <2> QED BY <1>1, <1>6, <1>7, <1>8, SeqEqual
<1>10. CString(l) = l
  BY <1>1 DEF CString, Contains
<1> QED BY <1>9, <1>10

\* Nothing is in a buffer unless the rest of a line is what comes.
LEMMA NoBuffer ==
    ASSUME InPieces,
           \/ link = "ok" /\ Coming # "line"
           \/ call.op \notin {"getline", "getlineAsync"}
           \/ call = NoCall
    PROVE  call.buf = <<>>
<1>1. CASE call.op \notin {"getline", "getlineAsync"} \/ call = NoCall
  BY <1>1 DEF InPieces, Reading, NoCall
<1>2. CASE link = "ok" /\ Coming # "line"
  <2> SUFFICES ASSUME call.buf # <<>>
               PROVE  FALSE
    OBVIOUS
  <2>1. wire # <<>> /\ Head(wire).kind = "line"
    BY <1>2 DEF InPieces, Unbroken
  <2> QED BY <1>2, <2>1 DEF Coming
<1> QED BY <1>1, <1>2

LEMMA ReturnsReading ==
    ASSUME NEW e, Returns(e)
    PROVE  call'.buf = <<>> /\ Reading' /\ LinesWhole'
BY DEF Returns, NoCall, Reading, LinesWhole, NoLine

LEMMA StartsReading ==
    ASSUME NEW op, op \notin {"getline", "getlineAsync"}, Starts(Calling(op))
    PROVE  call'.buf = <<>> /\ Reading' /\ LinesWhole'
BY DEF Starts, Calling, NoCall, Nothing, Reading, LinesWhole, NoLine

\* A step of a call that has nothing in a buffer.
LEMMA PlainStep ==
    ASSUME InPieces, call.buf = <<>>, call'.buf = <<>>, Reading', LinesWhole',
           link' = "ok" => link = "ok" \/ wire' = <<>>,
           \/ wire' = wire \/ wire' = <<>>
           \/ wire # <<>> /\ wire' = Tail(wire),
           \/ UNCHANGED todo \/ todo' = <<>> \/ todo' = Failure
           \/ todo # <<>> /\ todo' = Tail(todo)
           \/ \E p \in Seq(Statuses) : todo' = Answer(p)
    PROVE  InPieces'
<1>1. (link = "ok" => wire \in Seq(Sendable)) /\ todo \in Seq(Sendable)
  BY DEF InPieces, Unbroken
<1>2. link' = "ok" => wire' \in Seq(Sendable)
  <2>1. link = "ok" /\ wire # <<>> => Tail(wire) \in Seq(Sendable)
    BY <1>1, HeadTailProperties
  <2>2. <<>> \in Seq(Sendable)
    OBVIOUS
  <2> QED BY <1>1, <2>1, <2>2
<1>3. todo' \in Seq(Sendable)
  <2>1. todo # <<>> => Tail(todo) \in Seq(Sendable)
    BY <1>1, HeadTailProperties
  <2>2. <<>> \in Seq(Sendable)
    OBVIOUS
  <2>3. \A p \in Seq(Statuses) : Answer(p) \in Seq(Sendable)
    BY AnswerSendable
  <2> QED BY <1>1, <2>1, <2>2, <2>3, FailureSendable
<1> QED BY <1>2, <1>3 DEF InPieces, Unbroken

\* The link breaks, or is broken: no line is to be read any more.
LEMMA BrokenStep ==
    ASSUME InPieces, Reading', LinesWhole', link' # "ok", UNCHANGED todo
    PROVE  InPieces'
BY DEF InPieces, Unbroken

\* The backend sends a message more.
LEMMA SentStep ==
    ASSUME InPieces, NEW m \in Sendable, wire' = Append(wire, m),
           UNCHANGED <<call, result, link, async>>,
           todo' \in Seq(Sendable)
    PROVE  InPieces'
<1>1. Reading' /\ LinesWhole'
  BY DEF InPieces, Reading, LinesWhole
<1> SUFFICES ASSUME link = "ok"
             PROVE  InPieces'
  BY <1>1 DEF InPieces, Unbroken
<1>2. CASE call.buf = <<>>
  <2>1. wire' \in Seq(Sendable)
    BY <1>2, AppendProperties DEF InPieces, Unbroken
  <2> QED BY <1>1, <1>2, <2>1 DEF InPieces, Unbroken
<1>3. CASE call.buf # <<>>
  <2>1. wire \in Seq(MessageType) /\ wire # <<>> /\ Tail(wire) \in Seq(Sendable)
    BY <1>3 DEF InPieces, Unbroken
  <2>2. m \in MessageType
    BY DEF Sendable
  <2>3. wire' \in Seq(MessageType) /\ wire' # <<>>
    BY <2>1, <2>2, AppendProperties
  <2>4. Head(wire') = Head(wire) /\ Tail(wire') = Append(Tail(wire), m)
    BY <2>1, HeadTailAppend
  <2>5. Tail(wire') \in Seq(Sendable)
    BY <2>1, <2>4, AppendProperties
  <2>6. Unbroken'
    BY <1>3, <2>3, <2>4, <2>5 DEF InPieces, Unbroken
  <2> QED BY <1>1, <2>6 DEF InPieces
<1> QED BY <1>2, <1>3

LEMMA BackendInPieces ==
    ASSUME InPieces, Serve \/ SendNotice \/ Die
    PROVE  InPieces'
<1>1. /\ Message("ready") \in Sendable /\ Message("notice") \in Sendable
      /\ Message("eof") \in Sendable
  BY MessageSendable DEF Kinds
<1>2. todo \in Seq(Sendable)
  BY DEF InPieces
<1>3. CASE Serve
  <2>1. todo # <<>> /\ wire' = Append(wire, Head(todo)) /\ UNCHANGED <<call, result, link, async>>
    BY <1>3 DEF Serve
  <2>2. Head(todo) \in Sendable /\ Tail(todo) \in Seq(Sendable)
    BY <1>2, <2>1, HeadTailProperties
  <2>3. <<Message("ready")>> \in Seq(Sendable)
    BY <1>1
  <2>4. todo' \in Seq(Sendable)
    BY <1>3, <2>2, <2>3 DEF Serve
  <2> QED BY <2>1, <2>2, <2>4, SentStep
<1>4. CASE SendNotice
  <2>1. wire' = Append(wire, Message("notice")) /\ UNCHANGED <<call, result, link, async, todo>>
    BY <1>4 DEF SendNotice, server
  <2> QED BY <1>1, <1>2, <2>1, SentStep
<1>5. CASE Die
  <2>1. wire' = Append(wire, Message("eof")) /\ UNCHANGED <<call, result, link, async>> /\ todo' = <<>>
    BY <1>5 DEF Die
  <2>2. todo' \in Seq(Sendable)
    BY <2>1
  <2> QED BY <1>1, <2>1, <2>2, SentStep
<1> QED BY <1>3, <1>4, <1>5

LEMMA ArrivedNotEmpty ==
    ASSUME Arrived
    PROVE  wire # <<>>
BY DEF Arrived, Coming

LEMMA ReadsTakes ==
    ASSUME Arrived, ReadsAnswer
    PROVE  /\ wire' = wire \/ (wire # <<>> /\ wire' = Tail(wire))
           /\ link' = "ok" => link = "ok"
BY ArrivedNotEmpty DEF ReadsAnswer, Reads

LEMMA SameCall ==
    ASSUME InPieces, UNCHANGED <<call, result>>,
           UNCHANGED <<link, async>> \/ call.op \notin {"getline", "getlineAsync"}
    PROVE  Reading' /\ LinesWhole' /\ call'.buf = call.buf
BY DEF InPieces, Reading, LinesWhole

LEMMA NoticeInPieces ==
    ASSUME InPieces, TakeNotice \/ PopNotice \/ UNCHANGED vars
    PROVE  InPieces'
<1>1. UNCHANGED <<call, result, link, async, todo>>
  BY DEF TakeNotice, PopNotice, vars, libpq, server
<1>2. Reading' /\ LinesWhole' /\ call'.buf = call.buf
  BY <1>1, SameCall
<1>3. CASE TakeNotice
  <2>1. Coming = "notice" /\ wire' = Tail(wire)
    BY <1>3 DEF TakeNotice
  <2>2. wire # <<>>
    BY <2>1 DEF Coming
  <2>3. CASE link = "ok"
    <3>1. call.buf = <<>>
      BY <2>1, <2>3, NoBuffer
    <3> QED BY <1>1, <1>2, <2>1, <2>2, <3>1, PlainStep
  <2>4. CASE link # "ok"
    BY <1>1, <1>2, <2>4, BrokenStep
  <2> QED BY <2>3, <2>4
<1>4. CASE PopNotice \/ UNCHANGED vars
  <2>1. UNCHANGED wire
    BY <1>4 DEF PopNotice, vars, libpq
  <2> QED BY <1>1, <1>2, <2>1 DEF InPieces, Unbroken
<1> QED BY <1>3, <1>4

LEMMA InterruptInPieces ==
    ASSUME InPieces, Interrupt \/ Drain
    PROVE  InPieces'
<1>1. UNCHANGED <<call, result>> /\ call.op \notin {"getline", "getlineAsync"}
  BY DEF Interrupt, Drain, Asking
<1>2. Reading' /\ LinesWhole' /\ call'.buf = call.buf
  BY <1>1, SameCall
<1>3. call.buf = <<>>
  BY <1>1, NoBuffer
<1>4. /\ wire' = wire \/ (wire # <<>> /\ wire' = Tail(wire))
      /\ link' = "ok" => link = "ok"
  BY ReadsTakes DEF Interrupt, Drain
<1>5. UNCHANGED todo \/ todo' = Failure
  BY DEF Interrupt, Drain, server
<1> QED BY <1>2, <1>3, <1>4, <1>5, PlainStep

\* The call goes on, with more known about it.
LEMMA GoesOn ==
    ASSUME InPieces, InCall, call.op \notin {"getline", "getlineAsync"}, UNCHANGED result,
           \/ call' = [call EXCEPT !.sent = TRUE]
           \/ \E i : call' = [call EXCEPT !.last = i]
    PROVE  call'.buf = <<>> /\ Reading' /\ LinesWhole'
<1>1. call.buf = <<>>
  BY NoBuffer
<1>2. call'.op = call.op /\ call'.buf = call.buf
  BY DEF InCall
<1> QED BY <1>1, <1>2 DEF InPieces, Reading, LinesWhole

LEMMA ProgramsType ==
    /\ \A p \in Programs : p \in Seq(Statuses)
    /\ \A p \in Lookups : p \in Seq(Statuses)
<1>1. \A p \in Programs : p \in Seq(Statuses)
  BY PgConnectionAssumption
<1>2. <<"TUPLES_OK">> \in Seq(Statuses) /\ <<"FATAL_ERROR">> \in Seq(Statuses)
  BY DEF Statuses, Errors
<1> QED BY <1>1, <1>2 DEF Lookups

LEMMA SendInPieces ==
    ASSUME InPieces, InCall, Send
    PROVE  InPieces'
<1>1. call.op \notin {"getline", "getlineAsync"} /\ UNCHANGED <<wire, link>>
  BY DEF Send, Asking
<1>2. call.buf = <<>>
  BY <1>1, NoBuffer
<1>3. CASE link = "ok"
  <2>1. PICK p \in IF call.op = "query" THEN Programs ELSE Lookups : todo' = Answer(p)
    BY <1>3 DEF Send
  <2>2. p \in Seq(Statuses)
    BY <2>1, ProgramsType
  <2>3. call' = [call EXCEPT !.sent = TRUE] /\ UNCHANGED result
    BY <1>3 DEF Send
  <2>4. call'.buf = <<>> /\ Reading' /\ LinesWhole'
    BY <1>1, <2>3, GoesOn
  <2> QED BY <1>1, <1>2, <2>1, <2>2, <2>4, PlainStep
<1>4. CASE link # "ok"
  <2>1. Returns("OperationalError") /\ UNCHANGED todo
    BY <1>4 DEF Send
  <2>2. call'.buf = <<>> /\ Reading' /\ LinesWhole'
    BY <2>1, ReturnsReading
  <2> QED BY <1>1, <1>2, <2>1, <2>2, PlainStep
<1> QED BY <1>3, <1>4

LEMMA ConcludesReading ==
    ASSUME NEW mem, NEW i, Concludes(mem, i)
    PROVE  call'.buf = <<>> /\ Reading' /\ LinesWhole'
<1>1. \E e : Returns(e)
  BY DEF Concludes
<1> QED BY <1>1, ReturnsReading

LEMMA CollectInPieces ==
    ASSUME InPieces, InCall, Collect \/ ResultArrives
    PROVE  InPieces'
<1>1. call.op \notin {"getline", "getlineAsync"} /\ UNCHANGED todo
  BY DEF Collect, ResultArrives, Asking, server
<1>2. call.buf = <<>>
  BY <1>1, NoBuffer
<1>3. /\ wire' = wire \/ (wire # <<>> /\ wire' = Tail(wire))
      /\ link' = "ok" => link = "ok"
  BY ReadsTakes DEF Collect, ResultArrives
<1>4. \/ \E mem, i : Concludes(mem, i)
      \/ Returns("none")
      \/ call' = [call EXCEPT !.last = NewId] /\ UNCHANGED result
  BY DEF Collect, ResultArrives
<1>5. call'.buf = <<>> /\ Reading' /\ LinesWhole'
  BY <1>1, <1>4, ConcludesReading, ReturnsReading, GoesOn
<1> QED BY <1>1, <1>2, <1>3, <1>5, PlainStep

LEMMA EndcopyInPieces ==
    ASSUME InPieces, EndcopyReads
    PROVE  InPieces'
<1>1. call.op \notin {"getline", "getlineAsync"} /\ UNCHANGED todo
  BY DEF EndcopyReads, server
<1>2. call.buf = <<>>
  BY <1>1, NoBuffer
<1>3. /\ wire' = wire \/ (wire # <<>> /\ wire' = Tail(wire))
      /\ link' = "ok" => link = "ok"
  BY ReadsTakes DEF EndcopyReads
<1>4. \/ UNCHANGED <<call, result>> \/ Returns("none") \/ Returns("InternalError")
  BY DEF EndcopyReads
<1>5. call'.buf = <<>> /\ Reading' /\ LinesWhole'
  BY <1>1, <1>2, <1>4, ReturnsReading, SameCall
<1> QED BY <1>1, <1>2, <1>3, <1>5, PlainStep

\* The line that libpq reads next is the rest of one whose beginning is in the buffer.
LEMMA LineComing ==
    ASSUME InPieces, link = "ok", Coming = "line", call.op \in {"getline", "getlineAsync"}
    PROVE  /\ wire \in Seq(MessageType) /\ wire # <<>>
           /\ Tail(wire) \in Seq(Sendable)
           /\ Head(wire) \in MessageType /\ Head(wire).kind = "line"
           /\ Head(wire).number \in DOMAIN Lines
           /\ call.buf \in Seq(Nat)
           /\ Head(wire).text # <<>>
           /\ call.buf \o Head(wire).text = Append(Lines[Head(wire).number], Newline)
<1>1. wire # <<>> /\ Head(wire).kind = "line"
  BY DEF Coming
<1>2. CASE call.buf = <<>>
  <2>1. wire \in Seq(Sendable)
    BY <1>2 DEF InPieces, Unbroken
  <2>2. Seq(Sendable) \subseteq Seq(MessageType)
    <3>1. Sendable \subseteq MessageType
      BY DEF Sendable
    <3> QED BY <3>1, SeqMonotonic
  <2>3. Head(wire) \in Sendable /\ Tail(wire) \in Seq(Sendable)
    BY <1>1, <2>1, HeadTailProperties
  <2>4. /\ Head(wire) \in MessageType /\ Head(wire).number \in DOMAIN Lines
        /\ Head(wire).text = Append(Lines[Head(wire).number], Newline)
    BY <1>1, <2>3 DEF Sendable
  <2>5. Head(wire).text \in Seq(Nat)
    BY <2>4 DEF MessageType
  <2>6. Head(wire).text # <<>>
    <3>1. Lines[Head(wire).number] \in Seq(Nat) /\ Newline \in Nat
      BY <2>4, LinesType DEF Newline
    <3> QED BY <2>4, <3>1, AppendProperties
  <2>7. call.buf \o Head(wire).text = Head(wire).text /\ call.buf \in Seq(Nat)
    BY <1>2, <2>5, ConcatEmptySeq
  <2> QED BY <1>1, <2>1, <2>2, <2>3, <2>4, <2>6, <2>7
<1>3. CASE call.buf # <<>>
  <2>2. call.buf \in Seq(Nat)
    BY DEF InPieces, Reading
  <2>3. /\ wire \in Seq(MessageType) /\ Tail(wire) \in Seq(Sendable)
        /\ Head(wire).number \in DOMAIN Lines
        /\ Head(wire).text # <<>>
        /\ call.buf \o Head(wire).text = Append(Lines[Head(wire).number], Newline)
    BY <1>3 DEF InPieces, Unbroken
  <2>4. Head(wire) \in MessageType
    BY <1>1, <2>3, HeadTailProperties
  <2> QED BY <1>1, <2>2, <2>3, <2>4
<1> QED BY <1>2, <1>3

LEMMA ConcatOfBytes ==
    ASSUME NEW b \in Seq(Nat), NEW c \in Seq(Nat), NEW r \in Seq(Nat)
    PROVE  (b \o c) \o r = b \o (c \o r)
BY SMTT(40)

\* The first message is replaced.
LEMMA HeadReplaced ==
    ASSUME NEW S, NEW s \in Seq(S), s # <<>>, NEW e \in S
    PROVE  LET t == [s EXCEPT ![1] = e]
           IN t \in Seq(S) /\ t # <<>> /\ Head(t) = e /\ Tail(t) = Tail(s)
<1> DEFINE t == [s EXCEPT ![1] = e]
<1>1. Len(s) \in Nat \ {0} /\ 1 \in 1 .. Len(s)
  <2>1. Len(s) \in Nat \ {0}
    BY EmptySeq
  <2> QED BY <2>1
<1>2. /\ t \in Seq(S) /\ Len(t) = Len(s)
      /\ \A j \in 1 .. Len(s) : t[j] = IF j = 1 THEN e ELSE s[j]
  BY <1>1, ExceptSeq
<1> HIDE DEF t
<1>3. t # <<>> /\ Head(t) = e
  BY <1>1, <1>2
<1>4. /\ Tail(s) \in Seq(S) /\ Len(Tail(s)) = Len(s) - 1
      /\ \A i \in 1 .. Len(Tail(s)) : Tail(s)[i] = s[i + 1]
  BY HeadTailProperties
<1>5. /\ Tail(t) \in Seq(S) /\ Len(Tail(t)) = Len(t) - 1
      /\ \A i \in 1 .. Len(Tail(t)) : Tail(t)[i] = t[i + 1]
  BY <1>2, <1>3, HeadTailProperties
<1>6. ASSUME NEW i \in 1 .. Len(Tail(t))
      PROVE  Tail(t)[i] = Tail(s)[i]
  <2>1. i \in 1 .. Len(Tail(s)) /\ i + 1 \in 1 .. Len(s) /\ i + 1 # 1
    BY <1>1, <1>2, <1>4, <1>5
  <2> QED BY <1>2, <1>4, <1>5, <2>1
<1>7. Tail(t) = Tail(s)
  <2>1. Len(Tail(t)) = Len(Tail(s))
    BY <1>2, <1>4, <1>5
  <2> QED BY <1>4, <1>5, <1>6, <2>1, SeqEqual
<1> QED BY <1>2, <1>3, <1>7 DEF t

\* A part of a line that is not all of it leaves a rest.
LEMMA ChunkAndRest ==
    ASSUME NEW t \in Seq(Nat), t # <<>>, NEW r \in Nat \ {0}
    PROVE  LET m == Min({Len(t), r})
               chunk == SubSeq(t, 1, m)
               rest == SubSeq(t, m + 1, Len(t))
           IN chunk # t => /\ chunk \in Seq(Nat) \ {<<>>} /\ rest \in Seq(Nat) \ {<<>>}
                           /\ Len(chunk) = m
                           /\ chunk \o rest = t
<1> DEFINE m == Min({Len(t), r})
           chunk == SubSeq(t, 1, m)
           rest == SubSeq(t, m + 1, Len(t))
<1>1. Len(t) \in Nat \ {0}
  BY EmptySeq
<1>2. m \in {Len(t), r} /\ m <= Len(t) /\ m <= r
  <2> DEFINE S == {Len(t), r}
  <2>1. S \in SUBSET Nat /\ S # {} /\ Len(t) \in S /\ r \in S
    BY <1>1
  <2>2. Min(S) \in S /\ \A y \in S : Min(S) <= y
    <3> HIDE DEF S
    <3> QED BY <2>1, MinIs
  <2> QED BY <2>1, <2>2
<1> SUFFICES ASSUME chunk # t
             PROVE  /\ chunk \in Seq(Nat) \ {<<>>} /\ rest \in Seq(Nat) \ {<<>>}
                    /\ Len(chunk) = m
                    /\ chunk \o rest = t
  OBVIOUS
<1> HIDE DEF m
<1>3. m # Len(t)
  BY SubSeqFull
<1>4. m \in Nat \ {0} /\ m < Len(t)
  BY <1>1, <1>2, <1>3
<1>5. \A i \in 1 .. Len(t) : t[i] \in Nat
  BY ElementOfSeq
<1>6. chunk \in Seq(Nat) /\ Len(chunk) = m
  <2>1. \A i \in 1 .. m : t[i] \in Nat
    BY <1>1, <1>4, <1>5
  <2>2. m \in Int /\ 1 \in Int /\ 1 <= m /\ m - 1 + 1 = m
    BY <1>4
  <2> QED BY <2>1, <2>2, SubSeqProperties
<1>7. rest \in Seq(Nat) /\ Len(rest) # 0
  <2> DEFINE a == m + 1
             b == Len(t)
  <2>1. \A i \in a .. b : t[i] \in Nat
    BY <1>1, <1>4, <1>5
  <2>2. a \in Int /\ b \in Int /\ a <= b /\ b - a + 1 # 0
    BY <1>1, <1>4
  <2> HIDE DEF a, b
  <2>3. SubSeq(t, a, b) \in Seq(Nat) /\ Len(SubSeq(t, a, b)) = b - a + 1
    BY <2>1, <2>2, SubSeqProperties
  <2> QED BY <2>2, <2>3 DEF a, b
<1>8. chunk # <<>> /\ rest # <<>>
  BY <1>4, <1>6, <1>7, EmptySeq
<1>9. chunk \o rest = t
  <2>1. 1 \in 1 .. Len(t) + 1 /\ m \in 1 - 1 .. Len(t) /\ Len(t) \in m .. Len(t)
    BY <1>1, <1>4
  <2>2. SubSeq(t, 1, m) \o SubSeq(t, m + 1, Len(t)) = SubSeq(t, 1, Len(t))
    BY <2>1, ConcatAdjacentSubSeq
  <2> QED BY <2>2, SubSeqFull
<1> QED BY <1>6, <1>7, <1>8, <1>9

LEMMA ReturnsLineReading ==
    ASSUME NEW text, ReturnsLine(text),
           text = Lines[Head(wire).number]
    PROVE  call'.buf = <<>> /\ Reading' /\ LinesWhole'
BY DEF ReturnsLine, NoCall, Reading, LinesWhole

LEMMA TextReplaced ==
    ASSUME NEW m \in MessageType, m.kind = "line", NEW r
    PROVE  [m EXCEPT !.text = r] = [kind |-> "line", number |-> m.number, text |-> r]
BY DEF MessageType

\* A piece of the line goes to the buffer, and the rest is what comes next.
LEMMA PieceTaken ==
    ASSUME InPieces, link = "ok", Coming = "line", call.op \in {"getline", "getlineAsync"},
           NEW piece \in Seq(Nat) \ {<<>>}, NEW rest \in Seq(Nat) \ {<<>>},
           piece \o rest = Head(wire).text,
           wire' = [wire EXCEPT ![1].text = rest],
           call'.buf = call.buf \o piece
    PROVE  call'.buf \in Seq(Nat) \ {<<>>} /\ Unbroken'
<1> DEFINE k == Head(wire).number
           h == [kind |-> "line", number |-> k, text |-> rest]
<1>1. /\ wire \in Seq(MessageType) /\ wire # <<>> /\ Tail(wire) \in Seq(Sendable)
      /\ Head(wire) \in MessageType /\ Head(wire).kind = "line"
      /\ k \in DOMAIN Lines /\ call.buf \in Seq(Nat)
      /\ call.buf \o Head(wire).text = Append(Lines[k], Newline)
  BY LineComing
<1>2. h \in MessageType
  <2>1. k \in Nat
    BY <1>1, LinesType
  <2> HIDE DEF k
  <2> QED BY <2>1 DEF MessageType, Kinds
<1>3. wire' = [wire EXCEPT ![1] = h]
  <2>1. wire[1] = Head(wire)
    BY <1>1
  <2>2. Head(wire) \in MessageType /\ Head(wire).kind = "line"
    BY <1>1
  <2>3. [Head(wire) EXCEPT !.text = rest] = h
    BY ONLY <2>2, TextReplaced
  <2>4. wire' = [wire EXCEPT ![1] = [wire[1] EXCEPT !.text = rest]]
    OBVIOUS
  <2> QED BY <2>1, <2>3, <2>4
<1>4. /\ wire' \in Seq(MessageType) /\ wire' # <<>>
      /\ Head(wire') = h /\ Tail(wire') = Tail(wire)
  <2> HIDE DEF h
  <2>1. wire \in Seq(MessageType) /\ wire # <<>> /\ h \in MessageType
    BY <1>1, <1>2
  <2>2. LET s == [wire EXCEPT ![1] = h]
        IN s \in Seq(MessageType) /\ s # <<>> /\ Head(s) = h /\ Tail(s) = Tail(wire)
    BY ONLY <2>1, HeadReplaced
  <2> QED BY ONLY <1>3, <2>2
<1>5. call'.buf \in Seq(Nat) /\ call'.buf # <<>>
  <2>1. call.buf \o piece \in Seq(Nat)
    BY <1>1, ConcatProperties
  <2>2. call.buf \o piece # <<>>
    BY <1>1, ConcatEqualIffEmpty
  <2> QED BY <2>1, <2>2
<1>6. call'.buf \o rest = Append(Lines[k], Newline)
  <2>1. (call.buf \o piece) \o rest = call.buf \o (piece \o rest)
    <3>1. call.buf \in Seq(Nat) /\ piece \in Seq(Nat) /\ rest \in Seq(Nat)
      BY <1>1
    <3> QED BY ONLY <3>1, ConcatOfBytes
  <2> QED BY <1>1, <2>1
<1>7. Unbroken'
  <2>1. /\ Head(wire').kind = "line" /\ Head(wire').number = k /\ Head(wire').text = rest
    BY <1>4
  <2>2. Head(wire').text # <<>> /\ Tail(wire') \in Seq(Sendable)
    BY <1>1, <1>4, <2>1
  <2> HIDE DEF h, k
  <2> QED BY <1>1, <1>4, <1>5, <1>6, <2>1, <2>2 DEF Unbroken
<1> QED BY <1>5, <1>7

LEMMA GetlineChunkInPieces ==
    ASSUME InPieces, InCall, GetlineChunk
    PROVE  InPieces'
<1> DEFINE t == Head(wire).text
           k == Head(wire).number
           m == Min({Len(t), call.room - 1})
           chunk == SubSeq(t, 1, m)
           rest == SubSeq(t, m + 1, Len(t))
<1>1. /\ call.op = "getline" /\ Coming = "line" /\ UNCHANGED <<todo, link>>
      /\ link = "ok"
  BY DEF GetlineChunk, server, InPieces, Reading
<1>2. /\ wire \in Seq(MessageType) /\ wire # <<>> /\ Tail(wire) \in Seq(Sendable)
      /\ Head(wire) \in MessageType /\ Head(wire).kind = "line"
      /\ k \in DOMAIN Lines /\ call.buf \in Seq(Nat) /\ t # <<>>
      /\ call.buf \o t = Append(Lines[k], Newline)
  BY <1>1, LineComing
<1>3. t \in Seq(Nat)
  BY <1>2 DEF MessageType
<1>4. todo' \in Seq(Sendable)
  BY <1>1 DEF InPieces
<1>5. CASE chunk = t
  <2>1. wire' = Tail(wire) /\ ReturnsLine(CString(call.buf \o Front(t)))
    BY <1>5 DEF GetlineChunk
  <2>2. CString(call.buf \o Front(t)) = Lines[k]
    <3> HIDE DEF t, k
    <3> QED BY <1>2, <1>3, FrontOfLine
  <2>3. call'.buf = <<>> /\ Reading' /\ LinesWhole'
    BY <2>1, <2>2, ReturnsLineReading
  <2> QED BY <1>2, <1>4, <2>1, <2>3 DEF InPieces, Unbroken
<1>6. CASE chunk # t
  <2>1. call.room - 1 \in Nat \ {0}
    BY <1>1 DEF InPieces, Reading
  <2>2. /\ chunk \in Seq(Nat) \ {<<>>} /\ rest \in Seq(Nat) \ {<<>>}
        /\ Len(chunk) = m /\ chunk \o rest = t
    <3> HIDE DEF t
    <3> QED BY <1>2, <1>3, <1>6, <2>1, ChunkAndRest
  <2>3. wire' = [wire EXCEPT ![1].text = rest] /\ call' = Longer(chunk) /\ UNCHANGED result
    <3>1. /\ wire' = [wire EXCEPT ![1].text = SubSeq(t, Len(chunk) + 1, Len(t))]
          /\ call' = Longer(chunk) /\ UNCHANGED result
      BY <1>6 DEF GetlineChunk
    <3> QED BY <2>2, <3>1
  <2>4. /\ call'.op = "getline" /\ call'.buf = call.buf \o chunk
        /\ call'.room = MAX_BUFFER_SIZE + 1
    BY <1>1, <2>3 DEF InCall, Longer
  <2>5. call'.buf \in Seq(Nat) \ {<<>>} /\ Unbroken'
    <3> HIDE DEF m, chunk, rest
    <3> QED BY <1>1, <2>2, <2>3, <2>4, PieceTaken
  <2>6. MAX_BUFFER_SIZE + 1 \in Nat \ {0, 1}
    BY PgConnectionAssumption
  <2>7. Reading' /\ LinesWhole'
    BY <1>1, <2>3, <2>4, <2>5, <2>6 DEF InPieces, Reading, LinesWhole
  <2> QED BY <1>4, <2>5, <2>7 DEF InPieces
<1> QED BY <1>5, <1>6

LEMMA GetlineEndsInPieces ==
    ASSUME InPieces, GetlineEnds
    PROVE  InPieces'
<1>1. /\ Coming # "line" /\ UNCHANGED <<wire, todo>>
      /\ link = "ok"
  BY DEF GetlineEnds, server, InPieces, Reading
<1>2. call.buf = <<>>
  BY <1>1, NoBuffer
<1>3. Returns("none")
  BY DEF GetlineEnds, LoopEnds
<1>4. call'.buf = <<>> /\ Reading' /\ LinesWhole'
  BY <1>3, ReturnsReading
<1> QED BY <1>1, <1>2, <1>4, PlainStep

\* The only newline of a line is its last character.
LEMMA NewlineIsLast ==
    ASSUME NEW k \in DOMAIN Lines, NEW b \in Seq(Nat), NEW t \in Seq(Nat), t # <<>>,
           b \o t = Append(Lines[k], Newline), NEW m \in 1 .. Len(t)
    PROVE  /\ Len(b) + Len(t) = Len(Lines[k]) + 1
           /\ t[m] = Newline <=> m = Len(t)
<1> DEFINE l == Lines[k]
           s == Append(l, Newline)
<1>1. /\ l \in Seq(Nat) /\ Len(l) \in Nat
      /\ \A i \in 1 .. Len(l) : l[i] # Newline
  BY LinesType, LenProperties
<1>2. /\ Len(s) = Len(l) + 1 /\ s[Len(l) + 1] = Newline
      /\ \A i \in 1 .. Len(l) : s[i] = l[i]
  <2> HIDE DEF l
  <2>1. Newline \in Nat
    BY DEF Newline
  <2> QED BY <1>1, <2>1, AppendProperties
<1>3. Len(b) \in Nat /\ Len(t) \in Nat \ {0}
  BY EmptySeq, LenProperties
<1>4. /\ Len(b \o t) = Len(b) + Len(t)
      /\ \A i \in 1 .. Len(b) + Len(t) : (b \o t)[i] = IF i <= Len(b) THEN b[i] ELSE t[i - Len(b)]
  BY ConcatProperties
<1>5. b \o t = s
  OBVIOUS
<1>6. Len(b) + Len(t) = Len(l) + 1
  BY <1>2, <1>4, <1>5
<1>7. t[m] = s[Len(b) + m]
  <2> HIDE DEF s
  <2>1. Len(b) + m \in 1 .. Len(b) + Len(t) /\ ~(Len(b) + m <= Len(b)) /\ (Len(b) + m) - Len(b) = m
    BY <1>3
  <2> QED BY <1>4, <1>5, <2>1
<1>8. CASE m = Len(t)
  <2>1. Len(b) + m = Len(l) + 1
    BY <1>6, <1>8
  <2> QED BY <1>2, <1>6, <1>7, <1>8, <2>1
<1>9. CASE m # Len(t)
  <2>1. Len(b) + m \in 1 .. Len(l)
    BY <1>1, <1>3, <1>6, <1>9
  <2>2. t[m] # Newline
    <3> HIDE DEF l, s
    <3> QED BY <1>1, <1>2, <1>7, <2>1
  <2> QED BY <1>6, <1>9, <2>2
<1> QED BY <1>8, <1>9

\* The last character of a piece.
LEMMA LastOfPiece ==
    ASSUME NEW t \in Seq(Nat), t # <<>>, NEW r \in Nat \ {0}
    PROVE  LET m == Min({Len(t), r})
               piece == SubSeq(t, 1, m)
           IN /\ m \in 1 .. Len(t) /\ m <= r /\ (m = Len(t) \/ m = r)
              /\ Len(piece) = m /\ Last(piece) = t[m]
<1> DEFINE m == Min({Len(t), r})
<1>1. Len(t) \in Nat \ {0}
  BY EmptySeq
<1>2. m \in {Len(t), r} /\ m <= Len(t) /\ m <= r
  <2> DEFINE S == {Len(t), r}
  <2>1. S \in SUBSET Nat /\ S # {} /\ Len(t) \in S /\ r \in S
    BY <1>1
  <2>2. Min(S) \in S /\ \A y \in S : Min(S) <= y
    <3> HIDE DEF S
    <3> QED BY <2>1, MinIs
  <2> QED BY <2>1, <2>2
<1> HIDE DEF m
<1>3. m \in 1 .. Len(t)
  BY <1>1, <1>2
<1>4. \A i \in 1 .. m : t[i] \in Nat
  BY <1>1, <1>3, ElementOfSeq
<1>5. m \in Int /\ 1 \in Int /\ 1 <= m /\ m - 1 + 1 = m /\ 1 + m - 1 = m /\ m \in 1 .. m
  BY <1>1, <1>3
<1>6. Len(SubSeq(t, 1, m)) = m /\ SubSeq(t, 1, m)[m] = t[m]
  BY <1>4, <1>5, SubSeqProperties
<1> QED BY <1>2, <1>3, <1>6 DEF Last, m

LEMMA AsyncPieceInPieces ==
    ASSUME InPieces, InCall, call.op = "getlineAsync", UNCHANGED <<todo, async>>, AsyncPiece
    PROVE  InPieces'
<1> DEFINE t == Head(wire).text
           k == Head(wire).number
           m == Min({Len(t), call.room})
           piece == SubSeq(t, 1, m)
           rest == SubSeq(t, m + 1, Len(t))
<1>1. Coming = "line" /\ link = "ok" /\ UNCHANGED link
  BY DEF AsyncPiece, InputConsumed
<1>2. /\ wire \in Seq(MessageType) /\ wire # <<>> /\ Tail(wire) \in Seq(Sendable)
      /\ Head(wire) \in MessageType /\ Head(wire).kind = "line"
      /\ k \in DOMAIN Lines /\ call.buf \in Seq(Nat) /\ t # <<>>
      /\ call.buf \o t = Append(Lines[k], Newline)
  BY <1>1, LineComing
<1>3. t \in Seq(Nat)
  BY <1>2 DEF MessageType
<1>4. todo' \in Seq(Sendable)
  BY DEF InPieces
<1>5. /\ MAX_BUFFER_SIZE \in Nat \ {0} /\ Len(call.buf) \in Nat
      /\ call.room = MAX_BUFFER_SIZE + Len(call.buf)
      /\ Len(call.buf) = 0 \/ Len(call.buf) >= MAX_BUFFER_SIZE
      /\ async = "COPY_OUT"
  BY <1>2, LenProperties, PgConnectionAssumption DEF InPieces, Reading, AsyncPiece
<1>6. call.room \in Nat \ {0}
  BY <1>5
<1>7. /\ m \in 1 .. Len(t) /\ m <= call.room /\ (m = Len(t) \/ m = call.room)
      /\ Len(piece) = m /\ Last(piece) = t[m]
  <2> HIDE DEF t
  <2> QED BY <1>2, <1>3, <1>6, LastOfPiece
<1>8. Len(t) \in Nat \ {0}
  <2> HIDE DEF t
  <2> QED BY <1>2, <1>3, EmptySeq
<1>9. /\ Len(call.buf) + Len(t) = Len(Lines[k]) + 1
      /\ t[m] = Newline <=> m = Len(t)
  <2> HIDE DEF t, k, m
  <2> QED BY <1>2, <1>3, <1>7, NewlineIsLast
<1>10. CASE /\ Len(piece) > MAX_BUFFER_SIZE
            /\ wire' = Tail(wire)
            /\ call' = NoCall
            /\ result' = [exc |-> "overrun", line |-> [number |-> k, text |-> <<>>]]
  <2>1. Len(Lines[k]) + 1 > 2 * MAX_BUFFER_SIZE
    <3>1. Len(Lines[k]) \in Nat
      BY <1>2, LinesType, LenProperties
    <3> HIDE DEF t, k, m, piece
    <3> QED BY <1>5, <1>7, <1>8, <1>9, <1>10, <3>1
  <2>2. call'.buf = <<>> /\ Reading' /\ LinesWhole'
    BY <1>10, <2>1 DEF NoCall, Reading, LinesWhole
  <2> QED BY <1>2, <1>4, <1>10, <2>2 DEF InPieces, Unbroken
<1>11. CASE /\ Last(piece) = Newline
            /\ wire' = Tail(wire)
            /\ ReturnsLine(CString(call.buf \o Front(piece)))
  <2>1. m = Len(t)
    BY <1>7, <1>9, <1>11
  <2>2. piece = t
    <3>1. SubSeq(t, 1, Len(t)) = t
      <4> HIDE DEF t
      <4> QED BY <1>3, SubSeqFull
    <3> HIDE DEF t, m
    <3> QED BY <2>1, <3>1
  <2>3. CString(call.buf \o Front(piece)) = Lines[k]
    <3>1. CString(call.buf \o Front(t)) = Lines[k]
      <4> HIDE DEF t, k
      <4> QED BY <1>2, <1>3, FrontOfLine
    <3> QED BY <2>2, <3>1
  <2>4. call'.buf = <<>> /\ Reading' /\ LinesWhole'
    BY <1>11, <2>3, ReturnsLineReading
  <2> QED BY <1>2, <1>4, <1>11, <2>4 DEF InPieces, Unbroken
<1>12. CASE /\ Len(piece) <= MAX_BUFFER_SIZE /\ Last(piece) # Newline
            /\ wire' = [wire EXCEPT ![1].text = SubSeq(t, Len(piece) + 1, Len(t))]
            /\ call' = Fuller(piece)
            /\ UNCHANGED result
  <2>1. m # Len(t) /\ m = call.room /\ Len(call.buf) = 0 /\ m = MAX_BUFFER_SIZE
    <3> HIDE DEF t, m, piece
    <3> QED BY <1>5, <1>7, <1>8, <1>9, <1>12
  <2>2. piece # t
    BY <1>7, <2>1
  <2>3. /\ piece \in Seq(Nat) \ {<<>>} /\ rest \in Seq(Nat) \ {<<>>}
        /\ piece \o rest = t
    <3> HIDE DEF t
    <3> QED BY <1>2, <1>3, <1>6, <2>2, ChunkAndRest
  <2>4. wire' = [wire EXCEPT ![1].text = rest]
    BY <1>7, <1>12
  <2>5. /\ call'.op = "getlineAsync" /\ call'.buf = call.buf \o piece
        /\ call'.room = call.room + MAX_BUFFER_SIZE
    BY <1>12 DEF InCall, Fuller
  <2>6. call'.buf \in Seq(Nat) \ {<<>>} /\ Unbroken'
    <3> HIDE DEF m, piece, rest
    <3> QED BY <1>1, <2>3, <2>4, <2>5, PieceTaken
  <2>7. Len(call'.buf) = MAX_BUFFER_SIZE
    <3>1. Len(call.buf \o piece) = Len(call.buf) + Len(piece)
      <4> HIDE DEF piece
      <4> QED BY <1>2, <2>3, ConcatProperties
    <3> HIDE DEF t, m, piece
    <3> QED BY <1>5, <1>7, <2>1, <2>5, <3>1
  <2>8. call'.room = MAX_BUFFER_SIZE + Len(call'.buf)
    BY <1>5, <2>1, <2>5, <2>7
  <2>9. Reading' /\ LinesWhole'
    <3>1. UNCHANGED result
      BY <1>12
    <3>2. Len(call'.buf) >= MAX_BUFFER_SIZE
      BY <1>5, <2>7
    <3>3. Reading'
      BY <1>5, <2>5, <2>6, <2>8, <3>2 DEF Reading
    <3> QED BY <3>1, <3>3 DEF InPieces, LinesWhole
  <2> QED BY <1>4, <2>6, <2>9 DEF InPieces
<1> QED BY <1>10, <1>11, <1>12 DEF AsyncPiece

LEMMA AsyncInPieces ==
    ASSUME InPieces, InCall, GetlineAsyncPass
    PROVE  InPieces'
<1>1. call.op = "getlineAsync" /\ UNCHANGED <<todo, async>>
  BY DEF GetlineAsyncPass, server
<1>2. CASE InputFails /\ Returns("InternalError")
  <2>1. link' # "ok" /\ Reading' /\ LinesWhole'
    BY <1>2, ReturnsReading DEF InputFails
  <2> QED BY <1>1, <2>1, BrokenStep
<1>3. CASE InputConsumed /\ (async # "COPY_OUT" \/ Coming # "line") /\ Returns("none") /\ UNCHANGED wire
  <2>1. call'.buf = <<>> /\ Reading' /\ LinesWhole'
    BY <1>3, ReturnsReading
  <2>2. call.buf = <<>>
    <3>1. link = "ok"
      BY <1>3 DEF InputConsumed
    <3>2. CASE Coming # "line"
      BY <3>1, <3>2, NoBuffer
    <3>3. CASE async # "COPY_OUT"
      BY <1>1, <3>3 DEF InPieces, Reading
    <3> QED BY <1>3, <3>2, <3>3
  <2>3. UNCHANGED link
    BY <1>3 DEF InputConsumed
  <2> QED BY <1>1, <1>3, <2>1, <2>2, <2>3, PlainStep
<1>4. CASE AsyncPiece
  BY <1>1, <1>4, AsyncPieceInPieces
<1> QED BY <1>2, <1>3, <1>4 DEF GetlineAsyncPass, AsyncEnds

LEMMA ProceedInPieces ==
    ASSUME InPieces, InCall, Proceed
    PROVE  InPieces'
BY NoticeInPieces, InterruptInPieces, SendInPieces, CollectInPieces, GetlineChunkInPieces,
   GetlineEndsInPieces, AsyncInPieces, EndcopyInPieces DEF Proceed

\* A call that is not in progress starts, or returns at once.
LEMMA OutsideInPieces ==
    ASSUME InPieces, call = NoCall,
           \/ \E op : op \notin {"getline", "getlineAsync"} /\ Starts(Calling(op))
           \/ \E e : Returns(e),
           link' = "ok" => link = "ok" \/ wire' = <<>>,
           UNCHANGED wire \/ wire' = <<>>,
           \/ UNCHANGED todo \/ todo' = <<>> \/ todo' = Failure
           \/ todo # <<>> /\ todo' = Tail(todo)
           \/ \E p \in Seq(Statuses) : todo' = Answer(p)
    PROVE  InPieces'
<1>1. call.buf = <<>>
  BY NoBuffer
<1>2. call'.buf = <<>> /\ Reading' /\ LinesWhole'
  BY ReturnsReading, StartsReading
<1> QED BY <1>1, <1>2, PlainStep

LEMMA QueryInPieces ==
    ASSUME InPieces, Query \/ \E p \in Programs : SendQuery(p)
    PROVE  InPieces'
<1>1. call = NoCall /\ UNCHANGED <<wire, link>>
  BY DEF Query, SendQuery, libpq
<1>2. UNCHANGED todo \/ \E p \in Seq(Statuses) : todo' = Answer(p)
  BY ProgramsType DEF Query, SendQuery, server
<1>3. Starts(Calling("query")) \/ Returns("none") \/ Returns("InternalError")
  BY DEF Query, SendQuery
<1> QED BY <1>1, <1>2, <1>3, OutsideInPieces

LEMMA GetResultInPieces ==
    ASSUME InPieces, GetResult, async \in {"idle", "busy"} \cup Copies
    PROVE  InPieces'
<1>1. call = NoCall /\ UNCHANGED <<wire, link, todo>>
  BY DEF GetResult, libpq, server
<1>2. \/ Starts(Calling("getResult")) \/ Returns("none")
      \/ Concludes([heap EXCEPT ![NewId] = async], NewId)
  BY DEF GetResult, Copies
<1>3. CASE Starts(Calling("getResult")) \/ Returns("none")
  BY <1>1, <1>3, OutsideInPieces
<1>4. CASE Concludes([heap EXCEPT ![NewId] = async], NewId)
  <2>1. call.buf = <<>>
    BY <1>1, NoBuffer
  <2>2. call'.buf = <<>> /\ Reading' /\ LinesWhole'
    BY <1>4, ConcludesReading
  <2> QED BY <1>1, <2>1, <2>2, PlainStep
<1> QED BY <1>2, <1>3, <1>4

LEMMA GetlineInPieces ==
    ASSUME InPieces, Getline
    PROVE  InPieces'
<1>1. call = NoCall /\ UNCHANGED <<wire, link, todo>>
  BY DEF Getline, libpq, server
<1>2. CASE Returns("none")
  BY <1>1, <1>2, OutsideInPieces
<1>3. CASE Starts([Calling("getline") EXCEPT !.room = MAX_BUFFER_SIZE])
  <2>1. call.buf = <<>>
    BY <1>1, NoBuffer
  <2>2. /\ call' = [op |-> "getline", sent |-> FALSE, last |-> 0, buf |-> <<>>,
                    room |-> MAX_BUFFER_SIZE]
        /\ result'.line.number = 0
    BY <1>3 DEF Starts, Calling, NoCall, Nothing, NoLine
  <2>3. MAX_BUFFER_SIZE \in Nat \ {0, 1} /\ <<>> \in Seq(Nat)
    BY PgConnectionAssumption
  <2>4. link = "ok"
    BY <1>3, <2>2 DEF Getline, Returns, NoCall
  <2>5. call'.buf = <<>> /\ Reading' /\ LinesWhole'
    BY <1>1, <2>2, <2>3, <2>4 DEF Reading, LinesWhole
  <2> QED BY <1>1, <2>1, <2>5, PlainStep
<1> QED BY <1>2, <1>3 DEF Getline

LEMMA GetlineAsyncInPieces ==
    ASSUME InPieces, GetlineAsync
    PROVE  InPieces'
<1>1. call = NoCall /\ UNCHANGED <<wire, link, todo>>
  BY DEF GetlineAsync, libpq, server
<1>2. call.buf = <<>>
  BY <1>1, NoBuffer
<1>3. /\ call' = [op |-> "getlineAsync", sent |-> FALSE, last |-> 0, buf |-> <<>>,
                  room |-> MAX_BUFFER_SIZE]
      /\ result'.line.number = 0
  BY DEF GetlineAsync, Starts, Calling, NoCall, Nothing, NoLine
<1>4. MAX_BUFFER_SIZE \in Nat /\ <<>> \in Seq(Nat) /\ Len(<<>>) = 0
  BY PgConnectionAssumption
<1>5. call'.buf = <<>> /\ Reading' /\ LinesWhole'
  BY <1>3, <1>4 DEF Reading, LinesWhole
<1> QED BY <1>1, <1>2, <1>5, PlainStep

LEMMA CallsInPieces ==
    ASSUME InPieces, ConsumeInput \/ RequestCancel \/ Putline \/ Endcopy \/ ClosedCall
                     \/ Finish \/ Reset
    PROVE  InPieces'
<1>1. /\ call = NoCall /\ (UNCHANGED wire \/ wire' = <<>>)
      /\ link' = "ok" => link = "ok" \/ wire' = <<>>
  BY DEF ConsumeInput, InputFails, InputConsumed, RequestCancel, Putline, Endcopy, ClosedCall,
         Finish, Reset, libpq
<1>2. \/ UNCHANGED todo \/ todo' = <<>> \/ todo' = Failure
      \/ todo # <<>> /\ todo' = Tail(todo)
  BY DEF ConsumeInput, RequestCancel, Putline, Endcopy, ClosedCall, Finish, Reset, libpq, server, Waiting
<1>3. (\E e : Returns(e)) \/ Starts(Calling("endcopy"))
  BY DEF ConsumeInput, RequestCancel, Putline, Endcopy, ClosedCall, Finish, Reset
<1> QED BY <1>1, <1>2, <1>3, OutsideInPieces

LEMMA ResultsInPieces ==
    ASSUME InPieces, NEW h \in Handles, Clear(h) \/ PgResult_dealloc(h) \/ Getvalue(h)
    PROVE  InPieces'
<1>1. call = NoCall /\ UNCHANGED <<wire, link, todo>>
  BY DEF Clear, PgResult_dealloc, Getvalue, libpq, server
<1>2. CASE Clear(h) \/ Getvalue(h)
  <2>1. (\E e : Returns(e)) \/ Starts(Calling("getvalue"))
    BY <1>2 DEF Clear, Getvalue
  <2> QED BY <1>1, <2>1, OutsideInPieces
<1>3. CASE PgResult_dealloc(h)
  <2>1. UNCHANGED <<call, result, async>>
    BY <1>3 DEF PgResult_dealloc, libpq
  <2> QED BY <1>1, <2>1, SameCall DEF InPieces, Unbroken
<1> QED BY <1>2, <1>3

\* COPY TO STDOUT through getline and getlineAsync: a line of any length comes out
\* as it was sent, however many chunks it takes, whatever arrives in between and
\* whatever was called before.  The one exception is getlineAsync's own: it
\* overruns its buffer, but only for lines that with their newline are longer
\* than two buffers.
THEOREM LinesComeWhole == Spec => []LinesWhole
<1>1. Init => InPieces
  <2> SUFFICES ASSUME Init
               PROVE  InPieces
    OBVIOUS
  <2>1. <<>> \in Seq(Sendable)
    OBVIOUS
  <2> QED BY <2>1 DEF Init, InPieces, Reading, Unbroken, LinesWhole, NoCall, Nothing, NoLine
<1>2. ASSUME InPieces, Good, [Next]_vars
      PROVE  InPieces'
  <2>1. InCall /\ async \in {"idle", "busy"} \cup Copies
    BY <1>2 DEF Good, Outer
  <2>2. CASE Serve \/ SendNotice \/ Die
    BY <1>2, <2>2, BackendInPieces
  <2>3. CASE Proceed
    BY <1>2, <2>1, <2>3, ProceedInPieces
  <2>4. CASE TakeNotice \/ PopNotice \/ UNCHANGED vars
    BY <1>2, <2>4, NoticeInPieces
  <2>5. CASE Query \/ \E p \in Programs : SendQuery(p)
    BY <1>2, <2>5, QueryInPieces
  <2>6. CASE GetResult
    BY <1>2, <2>1, <2>6, GetResultInPieces
  <2>7. CASE ConsumeInput \/ RequestCancel \/ Putline \/ Endcopy \/ ClosedCall \/ Finish \/ Reset
    BY <1>2, <2>7, CallsInPieces
  <2>8. CASE Getline
    BY <1>2, <2>8, GetlineInPieces
  <2>9. CASE GetlineAsync
    BY <1>2, <2>9, GetlineAsyncInPieces
  <2>10. ASSUME NEW h \in Handles, Clear(h) \/ PgResult_dealloc(h) \/ Getvalue(h)
         PROVE  InPieces'
    BY <1>2, <2>10, ResultsInPieces
  <2> QED BY <1>2, <2>2, <2>3, <2>4, <2>5, <2>6, <2>7, <2>8, <2>9, <2>10 DEF Next
<1>3. InPieces => LinesWhole
  BY DEF InPieces
<1> QED BY <1>1, <1>2, <1>3, GoodInvariant, PTL DEF Spec

=============================================================================
