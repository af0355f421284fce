---------------------------- MODULE PgConnection ----------------------------
(***************************************************************************)
(* A PgConnection (pgconnection.c) and the PgResults made by it            *)
(* (pgresult.c), over libpq and a backend that answers in its own time and *)
(* may go away: queries that wait, queries that do not, COPY, notices,     *)
(* reset and finish.  One thread uses a connection at a time (threadsafety *)
(* is 1).                                                                  *)
(***************************************************************************)
EXTENDS Integers, Sequences, SequencesExt, FiniteSets

CONSTANTS
    Handles,           \* PgResults
    Programs,          \* query strings: what each of its statements comes to
    Lines,             \* the lines that a COPY TO STDOUT sends
    MAX_BUFFER_SIZE,   \* how much getline allocates at a time
    MaxNotices         \* a bound on the notices of a run

Errors == {"NONFATAL_ERROR", "FATAL_ERROR", "INTEGRITY_ERROR", "BAD_RESPONSE"}
Copies == {"COPY_OUT", "COPY_IN"}
Statuses == Errors \cup Copies \cup {"TUPLES_OK", "COMMAND_OK", "DML_OK", "EMPTY_QUERY"}

ASSUME PgConnectionAssumption ==
    /\ IsFiniteSet(Handles)
    /\ Programs \subseteq Seq(Statuses) \ {<<>>}
    /\ Lines \in Seq(Seq(Nat \ {0, 10}))
    /\ MAX_BUFFER_SIZE \in Nat \ {0, 1}
    /\ MaxNotices \in Nat

VARIABLES
    conn,       \* whether there is a PGconn
    bePID,      \* the backendPID attribute: the "first" backend, to which the
                \* connection was made, or "None", as are then all the others
    notices,    \* the notices attribute
    numbered,   \* how many notices there have been
    heard,      \* the number of the latest notice that the application took
    handles,    \* the PgResults: the PGresult of each, and its type
    heap,       \* libpq: the status of each PGresult, or "free"
    link,       \* libpq: PQstatus, "ok" or "bad"
    async,      \* libpq: "idle", "busy", "COPY_OUT" or "COPY_IN"
    wire,       \* what the backend has sent and libpq has not parsed
    alive,      \* whether there is a backend
    todo,       \* what the backend will send
    call,       \* the call in progress
    result      \* what the latest call raised, and the line that it returned

attributes == <<bePID, notices, numbered, heard>>
libpq == <<link, async, wire>>
server == <<alive, todo>>
vars == <<conn, attributes, handles, heap, libpq, server, call, result>>

NoHandle == [res |-> 0, type |-> "unborn"]
NoCall == [op |-> "none", sent |-> FALSE, last |-> 0, buf |-> <<>>, room |-> 0]
Calling(op) == [NoCall EXCEPT !.op = op]
NoLine == [number |-> 0, text |-> <<>>]
Nothing == [exc |-> "none", line |-> NoLine]

Message(kind) == [kind |-> kind, number |-> 0, text |-> <<>>]
Newline == 10

Ids == 1 .. Cardinality(Handles) + 2
NewId == CHOOSE i \in Ids : heap[i] = "free"
Unborn == {h \in Handles : handles[h].type = "unborn"}

\* PgConnection_New
Init ==
    /\ conn = TRUE
    /\ bePID = "first" /\ alive = TRUE
    /\ notices = <<>> /\ numbered = 0 /\ heard = 0
    /\ handles = [h \in Handles |-> NoHandle]
    /\ heap = [i \in Ids |-> "free"]
    /\ link = "ok" /\ async = "idle" /\ wire = <<>> /\ todo = <<>>
    /\ call = NoCall
    /\ result = Nothing

-----------------------------------------------------------------------------
(* The backend. *)

\* What is sent for a statement.  A COPY FROM STDIN waits for the client.
Messages(status) ==
    CASE status = "COPY_OUT" ->
           <<Message("COPY_OUT")>>
           \o [k \in DOMAIN Lines |->
                  [kind |-> "line", number |-> k, text |-> Append(Lines[k], Newline)]]
           \o <<Message("copied"), Message("COMMAND_OK")>>
      [] status = "COPY_IN" -> <<Message("COPY_IN"), Message("wait"), Message("COMMAND_OK")>>
      [] OTHER -> <<Message(status)>>

Answer(p) ==
    IF alive THEN FlattenSeq([i \in DOMAIN p |-> Messages(p[i])]) \o <<Message("ready")>>
    ELSE <<>>
Failure == Answer(<<"FATAL_ERROR">>)

\* The next message is sent; a statement that fails is the last.
Serve ==
    /\ todo # <<>> /\ Head(todo).kind # "wait"
    /\ wire' = Append(wire, Head(todo))
    /\ todo' = IF Head(todo).kind \in Errors THEN <<Message("ready")>> ELSE Tail(todo)
    /\ UNCHANGED <<conn, attributes, handles, heap, link, async, alive, call, result>>

Notices(s) == SelectSeq(s, LAMBDA m : m.kind = "notice")

SendNotice ==
    /\ alive
    /\ numbered + Len(Notices(wire)) < MaxNotices   \* bound
    /\ wire' = Append(wire, Message("notice"))
    /\ UNCHANGED <<conn, attributes, handles, heap, link, async, server, call, result>>

Die ==
    /\ alive
    /\ alive' = FALSE
    /\ todo' = <<>>
    /\ wire' = Append(wire, Message("eof"))
    /\ UNCHANGED <<conn, attributes, handles, heap, link, async, call, result>>

-----------------------------------------------------------------------------
(* What every call has in common. *)

\* Mutant: the new notice goes to the end that notices are taken from.
queueNoticesLast(n) == Append(notices, n)

\* The notice processor puts the new notice in front.
queueNotices(n) == <<n>> \o notices

NoticeProcessed ==
    /\ notices' = queueNotices(numbered + 1)
    /\ numbered' = numbered + 1
    /\ UNCHANGED <<bePID, heard>>

\* PgSQL.py takes the notices from the end, one by one.
PopNotice ==
    /\ call = NoCall
    /\ notices # <<>>
    /\ heard' = Last(notices)
    /\ notices' = Front(notices)
    /\ UNCHANGED <<conn, bePID, numbered, handles, heap, libpq, server, call, result>>

\* What libpq reads next.
Coming == IF wire = <<>> THEN "nothing" ELSE Head(wire).kind
Arrived == Coming \notin {"nothing", "notice"}

\* libpq comes across a notice in any call that reads, isBusy and notifies too.
TakeNotice ==
    /\ conn
    /\ Coming = "notice"
    /\ wire' = Tail(wire)
    /\ NoticeProcessed
    /\ UNCHANGED <<conn, handles, heap, link, async, server, call, result>>

\* A message is read; there is nothing after the end of the link.
Reads ==
    /\ wire' = IF Coming = "eof" THEN wire ELSE Tail(wire)
    /\ link' = IF Coming = "eof" THEN "bad" ELSE link

\* While it reads the answer to a query libpq follows where the backend is in it.
ReadsAnswer ==
    /\ Reads
    /\ async' = IF Coming \in {"ready", "eof"} THEN "idle"
                ELSE IF Coming \in Copies THEN Coming ELSE "busy"

\* The status of the PGresult that a message is made into.
StatusOf(kind) == IF kind = "eof" THEN "FATAL_ERROR" ELSE kind

Starts(c) == call' = c /\ result' = Nothing
Returns(e) == call' = NoCall /\ result' = [exc |-> e, line |-> NoLine]

\* PgConnection_check: every call on a closed connection raises.
ClosedCall ==
    /\ ~conn /\ call = NoCall
    /\ Returns("InterfaceError")
    /\ UNCHANGED <<conn, attributes, handles, heap, libpq, server>>

\* getResultType
ResultType(status) ==
    CASE status = "TUPLES_OK" -> "DQL"
      [] status \in {"COMMAND_OK"} \cup Copies -> "DDL"
      [] status = "DML_OK" -> "DML"
      [] status = "EMPTY_QUERY" -> "EMPTY"
      [] OTHER -> "ERROR"

\* Only query() tells violated references from other errors; of two errors that
\* libpq calls fatal it is the message that says which.
Exception(status, op) ==
    CASE status = "NONFATAL_ERROR" -> "ProgrammingError"
      [] status = "INTEGRITY_ERROR" /\ op # "getResult" -> "IntegrityError"
      [] status \in {"INTEGRITY_ERROR", "FATAL_ERROR"} -> "OperationalError"
      [] OTHER -> "InternalError"

\* Mutant: only what libpq calls fatal without more is an error.
IsFatal(status) == status = "FATAL_ERROR"

IsError(status) == ResultType(status) = "ERROR"

\* Mutant: a result that is an error is not freed.
AfterErrorKept(mem, i) == mem

\* PQclear of a result that is an error.
AfterError(mem, i) == [mem EXCEPT ![i] = "free"]

\* The call ends with the PGresult i of the memory mem: it raises, or makes a
\* PgResult.  getvalue looks at the result of its query and drops it.
Concludes(mem, i) ==
    IF IsError(mem[i])
    THEN /\ heap' = AfterError(mem, i)
         /\ Returns(Exception(mem[i], call.op))
         /\ UNCHANGED handles
    ELSE IF call.op = "getvalue"
    THEN heap' = [mem EXCEPT ![i] = "free"] /\ Returns("none") /\ UNCHANGED handles
    ELSE /\ heap' = mem
         /\ \E h \in Unborn : handles' = [handles EXCEPT ![h] = [res |-> i, type |-> ResultType(mem[i])]]
         /\ Returns("none")

-----------------------------------------------------------------------------
(* query, query_params and the query of getvalue: PQexec. *)

Query ==
    /\ conn /\ call = NoCall
    /\ Unborn # {}   \* bound
    /\ Starts(Calling("query"))
    /\ UNCHANGED <<conn, attributes, handles, heap, libpq, server>>

\* getvalue looks for an OID in pg_largeobject.
Lookups == {<<"TUPLES_OK">>, <<"FATAL_ERROR">>}

Asking == call.op \in {"query", "getvalue"}

\* The backend waits for the lines of the COPY FROM STDIN that libpq is in; it
\* may wait for those of a later one while libpq is still in a COPY TO STDOUT.
Waiting == async = "COPY_IN" /\ todo # <<>> /\ Head(todo).kind = "wait"

\* What was going on is ended first, and its results are lost.
Interrupt ==
    /\ Asking /\ ~call.sent
    /\ async \in Copies
    /\ async' = "busy"
    /\ todo' = IF Waiting THEN Failure ELSE todo
    /\ UNCHANGED <<conn, attributes, handles, heap, link, wire, alive, call, result>>

Drain ==
    /\ Asking /\ ~call.sent
    /\ async = "busy"
    /\ Arrived
    /\ ReadsAnswer
    /\ UNCHANGED <<conn, attributes, handles, heap, server, call, result>>

\* Nothing can be sent over a broken link: there is no PGresult then.
Send ==
    /\ Asking /\ ~call.sent
    /\ async = "idle"
    /\ IF link = "ok"
       THEN /\ async' = "busy"
            /\ \E p \in IF call.op = "query" THEN Programs ELSE Lookups : todo' = Answer(p)
            /\ call' = [call EXCEPT !.sent = TRUE]
            /\ UNCHANGED result
       ELSE Returns("OperationalError") /\ UNCHANGED <<async, todo>>
    /\ UNCHANGED <<conn, attributes, handles, heap, link, wire, alive>>

\* The last result counts.
Held == IF call.last = 0 THEN heap ELSE [heap EXCEPT ![call.last] = "free"]

Collect ==
    /\ Asking /\ call.sent
    /\ Arrived
    /\ ReadsAnswer
    /\ \/ Coming = "ready" /\ Concludes(heap, call.last)
       \/ /\ Coming \in Copies \cup {"eof"}
          /\ Concludes([Held EXCEPT ![NewId] = StatusOf(Coming)], NewId)
       \/ /\ Coming \in Statuses \ Copies
          /\ heap' = [Held EXCEPT ![NewId] = Coming]
          /\ call' = [call EXCEPT !.last = NewId]
          /\ UNCHANGED <<handles, result>>
    /\ UNCHANGED <<conn, attributes, server>>

-----------------------------------------------------------------------------
(* Queries that do not wait. *)

SendQuery(p) ==
    /\ conn /\ call = NoCall
    /\ IF link = "ok" /\ async = "idle"
       THEN Returns("none") /\ async' = "busy" /\ todo' = Answer(p)
       ELSE Returns("InternalError") /\ UNCHANGED <<async, todo>>
    /\ UNCHANGED <<conn, attributes, handles, heap, link, wire, alive>>

GetResult ==
    /\ conn /\ call = NoCall
    /\ Unborn # {}   \* bound
    /\ CASE async = "idle" -> Returns("none") /\ UNCHANGED <<heap, handles>>
         [] async = "busy" -> Starts(Calling("getResult")) /\ UNCHANGED <<heap, handles>>
         [] async \in Copies -> Concludes([heap EXCEPT ![NewId] = async], NewId)
    /\ UNCHANGED <<conn, attributes, libpq, server>>

ResultArrives ==
    /\ call.op = "getResult"
    /\ Arrived
    /\ ReadsAnswer
    /\ \/ Coming = "ready" /\ Returns("none") /\ UNCHANGED <<heap, handles>>
       \/ /\ Coming \in Statuses \cup {"eof"}
          /\ Concludes([heap EXCEPT ![NewId] = StatusOf(Coming)], NewId)
    /\ UNCHANGED <<conn, attributes, server>>

\* PQconsumeInput fails at the end of the link, which it may come to while there
\* are messages that libpq has not parsed, and ever after.
InputFails == (\E i \in DOMAIN wire : wire[i].kind = "eof") /\ link' = "bad"
InputConsumed == link = "ok" /\ Coming # "eof" /\ UNCHANGED link

\* consumeInput, flush and setnonblocking
ConsumeInput ==
    /\ conn /\ call = NoCall
    /\ \/ InputFails /\ Returns("InternalError")
       \/ InputConsumed /\ Returns("none")
    /\ UNCHANGED <<conn, attributes, handles, heap, async, wire, server>>

\* The request may come too late; the last message says that the answer is complete.
RequestCancel ==
    /\ conn /\ call = NoCall
    /\ IF link = "ok"
       THEN Returns("none") /\ (UNCHANGED todo \/ (Len(todo) > 1 /\ todo' = Failure))
       ELSE Returns("InternalError") /\ UNCHANGED todo
    /\ UNCHANGED <<conn, attributes, handles, heap, libpq, alive>>

-----------------------------------------------------------------------------
(* COPY. *)

\* Without a COPY there is an end of file at once.
Getline ==
    /\ conn /\ call = NoCall
    /\ IF async = "COPY_OUT" /\ link = "ok"
       THEN Starts([Calling("getline") EXCEPT !.room = MAX_BUFFER_SIZE])
       ELSE Returns("none")
    /\ UNCHANGED <<conn, attributes, handles, heap, libpq, server>>

\* Mutant: the zero at the end of a chunk stays in the buffer.
LongerAfterZero(chunk) ==
    [call EXCEPT !.buf = @ \o chunk \o <<0>>, !.room = MAX_BUFFER_SIZE]

\* The buffer after a chunk, without the zero that the next one overwrites.  The
\* third and later chunks have as much room as the second.
Longer(chunk) == [call EXCEPT !.buf = @ \o chunk, !.room = MAX_BUFFER_SIZE + 1]

\* What a C string has before its zero.
CString(s) == IF Contains(s, 0) THEN SubSeq(s, 1, SelectInSeq(s, LAMBDA c : c = 0) - 1) ELSE s

ReturnsLine(text) ==
    /\ call' = NoCall
    /\ result' = [exc |-> "none", line |-> [number |-> Head(wire).number, text |-> text]]

GetlineChunk ==
    /\ call.op = "getline"
    /\ Coming = "line"
    /\ LET text == Head(wire).text
           chunk == SubSeq(text, 1, Min({Len(text), call.room - 1}))
       IN IF chunk = text
          THEN /\ wire' = Tail(wire)
               /\ ReturnsLine(CString(call.buf \o Front(text)))
          ELSE /\ wire' = [wire EXCEPT ![1].text = SubSeq(text, Len(chunk) + 1, Len(text))]
               /\ call' = Longer(chunk)
               /\ UNCHANGED result
    /\ UNCHANGED <<conn, attributes, handles, heap, link, async, server>>

\* Mutant: only an entire line ends the loop.
LoopEndsWithLine(res) == res = 0

\* 0 for an entire line, the marker of the end included, and -1 for an end of file.
LoopEnds(res) == res <= 0

GetlineEnds ==
    /\ call.op = "getline"
    /\ Arrived /\ Coming # "line"
    /\ LET res == IF Coming = "eof" THEN -1 ELSE 0
       IN /\ link' = IF res = -1 THEN "bad" ELSE link
          /\ IF LoopEnds(res) THEN Returns("none") ELSE call' = Longer(<<>>) /\ UNCHANGED result
    /\ UNCHANGED <<conn, attributes, handles, heap, async, wire, server>>

GetlineAsync ==
    /\ conn /\ call = NoCall
    /\ Starts([Calling("getlineAsync") EXCEPT !.room = MAX_BUFFER_SIZE])
    /\ UNCHANGED <<conn, attributes, handles, heap, libpq, server>>

\* The end of the copy, or nothing yet; and an error, which drops what was read.
AsyncEnds ==
    /\ \/ InputFails /\ Returns("InternalError")
       \/ InputConsumed /\ (async # "COPY_OUT" \/ Coming # "line") /\ Returns("none")
    /\ UNCHANGED wire

Fuller(piece) == [call EXCEPT !.buf = @ \o piece, !.room = @ + MAX_BUFFER_SIZE]

\* Every pass allocates MAX_BUFFER_SIZE more behind the buffer, but offers libpq
\* the size of all of it (1139), so that a piece may not fit.  What becomes of the
\* process is then undefined: the call ends here, with no line and without the
\* rest of it.
AsyncPiece ==
    /\ InputConsumed /\ async = "COPY_OUT" /\ Coming = "line"
    /\ LET text == Head(wire).text
           piece == SubSeq(text, 1, Min({Len(text), call.room}))
       IN \/ /\ Len(piece) > MAX_BUFFER_SIZE
             /\ wire' = Tail(wire)
             /\ call' = NoCall
             /\ result' = [exc |-> "overrun", line |-> [number |-> Head(wire).number, text |-> <<>>]]
          \/ /\ Len(piece) <= MAX_BUFFER_SIZE /\ Last(piece) = Newline
             /\ wire' = Tail(wire)
             /\ ReturnsLine(CString(call.buf \o Front(piece)))
          \/ /\ Len(piece) <= MAX_BUFFER_SIZE /\ Last(piece) # Newline
             /\ wire' = [wire EXCEPT ![1].text = SubSeq(text, Len(piece) + 1, Len(text))]
             /\ call' = Fuller(piece)
             /\ UNCHANGED result

GetlineAsyncPass ==
    /\ call.op = "getlineAsync"
    /\ Coming # "notice"   \* TakeNotice comes first
    /\ AsyncEnds \/ AsyncPiece
    /\ UNCHANGED <<conn, attributes, handles, heap, async, server>>

Putline ==
    /\ conn /\ call = NoCall
    /\ Returns(IF async = "COPY_IN" /\ link = "ok" THEN "none" ELSE "InternalError")
    /\ UNCHANGED <<conn, attributes, handles, heap, libpq, server>>

Endcopy ==
    /\ conn /\ call = NoCall
    /\ numbered + Len(Notices(wire)) < MaxNotices   \* bound
    /\ IF async \in Copies
       THEN /\ Starts(Calling("endcopy"))
            /\ async' = "busy"
            /\ todo' = IF Waiting THEN Tail(todo) ELSE todo
       ELSE Returns("InternalError") /\ UNCHANGED <<async, todo>>
    /\ UNCHANGED <<conn, attributes, handles, heap, link, wire, alive>>

\* Lines that nobody read are skipped; libpq reports an error as a notice.
EndcopyReads ==
    /\ call.op = "endcopy"
    /\ Arrived
    /\ ReadsAnswer
    /\ CASE Coming \in {"line", "copied"} -> UNCHANGED <<attributes, call, result>>
         [] Coming = "COMMAND_OK" -> Returns("none") /\ UNCHANGED attributes
         [] OTHER -> Returns("InternalError") /\ NoticeProcessed
    /\ UNCHANGED <<conn, handles, heap, server>>

-----------------------------------------------------------------------------
(* The end of a session. *)

Finish ==
    /\ conn /\ call = NoCall
    /\ conn' = FALSE
    /\ bePID' = "None" /\ notices' = <<>>
    /\ Returns("none")
    /\ wire' = <<>> /\ todo' = <<>> /\ async' = "idle"
    /\ alive' = FALSE
    /\ UNCHANGED <<numbered, heard, handles, heap, link>>

\* reset: a new backend, or none and an exception.  No attribute is changed.
Reset ==
    /\ conn /\ call = NoCall
    /\ wire' = <<>> /\ todo' = <<>> /\ async' = "idle"
    /\ \/ /\ alive' = TRUE
          /\ link' = "ok"
          /\ Returns("none")
          /\ UNCHANGED conn
       \/ /\ alive' = FALSE
          /\ link' = "bad"
          /\ Returns("DatabaseError")
          /\ conn' = FALSE
    /\ UNCHANGED <<attributes, handles, heap>>

-----------------------------------------------------------------------------
(* PgResults. *)

\* Mutant: clear() leaves the pointer behind.
ClearedKeepsResult(h) == [handles[h] EXCEPT !.type = "cleared"]

Cleared(h) == [res |-> 0, type |-> "cleared"]

Freed(h) == IF handles[h].res = 0 THEN heap ELSE [heap EXCEPT ![handles[h].res] = "free"]

\* clear(); a second one raises.
Clear(h) ==
    /\ call = NoCall
    /\ handles[h].type # "unborn"
    /\ IF handles[h].type = "cleared"
       THEN Returns("InterfaceError") /\ UNCHANGED <<heap, handles>>
       ELSE Returns("none") /\ heap' = Freed(h) /\ handles' = [handles EXCEPT ![h] = Cleared(h)]
    /\ UNCHANGED <<conn, attributes, libpq, server>>

PgResult_dealloc(h) ==
    /\ call = NoCall
    /\ handles[h].type # "unborn"
    /\ heap' = Freed(h)
    /\ handles' = [handles EXCEPT ![h] = NoHandle]
    /\ UNCHANGED <<conn, attributes, libpq, server, call, result>>

\* getvalue, on an OID that it knows nothing of, asks the connection if it is open.
Getvalue(h) ==
    /\ call = NoCall
    /\ handles[h].type # "unborn"
    /\ IF handles[h].type # "DQL"
       THEN Returns("InterfaceError")
       ELSE IF conn THEN Starts(Calling("getvalue"))
       ELSE Returns("none")
    /\ UNCHANGED <<conn, attributes, handles, heap, libpq, server>>

-----------------------------------------------------------------------------

\* What goes on in a call.
Proceed ==
    /\ call # NoCall
    /\ \/ TakeNotice
       \/ Interrupt \/ Drain \/ Send \/ Collect
       \/ ResultArrives
       \/ GetlineChunk \/ GetlineEnds \/ GetlineAsyncPass
       \/ EndcopyReads

Next ==
    \/ Serve \/ SendNotice \/ Die
    \/ Proceed
    \/ call = NoCall /\ TakeNotice
    \/ PopNotice
    \/ Query
    \/ \E p \in Programs : SendQuery(p)
    \/ GetResult \/ ConsumeInput \/ RequestCancel
    \/ Getline \/ GetlineAsync \/ Putline \/ Endcopy
    \/ Finish \/ Reset \/ ClosedCall
    \/ \E h \in Handles :
          Clear(h) \/ PgResult_dealloc(h) \/ Getvalue(h)

\* A backend that is alive goes on with its answer, and libpq with its reading.
Spec == Init /\ [][Next]_vars /\ WF_vars(Serve) /\ WF_vars(Proceed)

-----------------------------------------------------------------------------
(* Properties. *)

\* The types; no PgResult is made of an error.
TypeOK ==
    /\ conn \in BOOLEAN
    /\ bePID \in {"first", "None"}
    /\ handles \in [Handles -> [res : Ids \cup {0},
                                type : {"unborn", "cleared", "DQL", "DML", "DDL", "EMPTY"}]]
    /\ heap \in [Ids -> Statuses \cup {"free"}]
    /\ link \in {"ok", "bad"} /\ async \in {"idle", "busy"} \cup Copies
    /\ call.op \in {"none", "query", "getvalue", "getResult", "getline", "getlineAsync", "endcopy"}
    /\ call.last \in Ids \cup {0}
    /\ result.exc \in {"none", "InterfaceError", "DatabaseError", "OperationalError",
                       "IntegrityError", "InternalError", "ProgrammingError", "overrun"}

\* The application gets every notice, those of libpq included, in the order in
\* which they were raised, whatever calls they were raised in.
NoticesInOrder ==
    bePID # "None" => Reverse(notices) = [i \in 1 .. numbered - heard |-> heard + i]

\* Every PGresult that libpq has given belongs to one PgResult, or to the call in
\* progress, or was freed; and none is used after that.
ResultsOwned ==
    LET owned == {h \in Handles : handles[h].res # 0}
    IN /\ \A h, g \in owned : handles[h].res = handles[g].res => h = g
       /\ {i \in Ids : heap[i] # "free"}
             = {handles[h].res : h \in owned} \cup ({call.last} \ {0})
       /\ \A h \in owned : handles[h].res # call.last

\* A line comes out of getline and of getlineAsync as it was sent, however many
\* chunks it takes; but getlineAsync writes behind its buffer, which it does for no
\* line that with its newline fits two buffers.
LinesWhole ==
    LET line == result.line
    IN line.number # 0 =>
          IF result.exc = "overrun" THEN Len(Lines[line.number]) + 1 > 2 * MAX_BUFFER_SIZE
          ELSE line.text = Lines[line.number]

\* Every call returns, even if the backend goes away in the middle of it.
CallsReturn == call # NoCall ~> call = NoCall

=============================================================================
