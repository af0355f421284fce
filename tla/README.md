# A verification project for pyPgSQL

pyPgSQL is a DB-API 2.0 interface to PostgreSQL.  A C extension (`libpqmodule.c`
and the `pg*.c` files) wraps libpq; `pyPgSQL/PgSQL.py` builds `Connection`,
`Cursor` and the Python types on top of it.  This directory holds TLA+ modules
translated from that code, TLC configurations that check them on small instances,
and theorems about them that TLAPS proves for every instance.

## 1. Inventory

| component | code | state | operations | correct when |
|---|---|---|---|---|
| Connection | `PgSQL.py` 2320-2629 | `_isOpen`, `autocommit`, `inTransaction`, `TransactionLevel`, `cursors`, `notices` | `cursor`, `commit`, `rollback`, `close`, `binary`, `unlink`, assigning `autocommit` and `TransactionLevel` | `inTransaction` says what the session is in; nothing is committed but by `commit()`; nothing is lost silently |
| Cursor | 2638-3530 | `closed` (trinary), `name`, `res`, `_rows_`, `_idx_`, `rowcount`, `arraysize` | `execute`, `execute_params`, `executemany`, `callproc`, `fetchone/many/all`, `rewind`, `close`, `__del__` | a portal on the server belongs to a cursor that closes it; rows come in order, each once |
| PgConnection, PgResult | `pgconnection.c`, `pgresult.c` | `conn`, `notices`, `backendPID`; `res`, `type`; libpq's state behind them | `query`, `query_params`, `sendQuery`/`getResult`, COPY, `reset`, `finish`; `clear`, `getvalue` | results become the right exceptions and are freed once; notices are heard in order; every call returns |
| PgLargeObject | `pglargeobject.c` | `lo_fd`, buffer (`lo_buf`, `lo_idx`, `lo_size`, `lo_offset`, `lo_dirty`), `need_commit` | `open`, `close`, `read`, `readline`, `write`, `seek`, `tell`, ... | buffered access is the same as access to a file; its own transaction does not touch the connection's |
| PgInt2, PgInt8 | `pgint2object.c`, `pgint8object.c` | a 16 or 64 bit integer | arithmetic, bit operations, `pow`, coercion, comparison | the exact result or an exception |
| PgNumeric, PgMoney | `PgSQL.py` 1485-2030 | a long integer and its scale | arithmetic, comparison, rounding | exact decimals |
| texts to values | `pgresult.c`, `port/strtoll.c`, `pgboolean.c` | `oidCache` | `getvalue`, `PgBoolean`, `PgInt2`, `PgInt8` | a text is read as what it denotes, or refused |
| PgVersion | `pgversion.c`, `port/strtok.c` | the version and its number | construction, coercion, comparison | versions are ordered |
| quoting, `_handleArray`, TypeCache | `libpqmodule.c`, `pgconnection.c`, `PgSQL.py` 652-1085, 2242 | | `PgQuoteString`, `PgQuoteBytea`, `_quote`, `parseArray`, `typecast` | what one quotes the other reads back |
| PgArray, PgOther, PgBytea, PgResultSet | 1099-1475, 2043-2180 | items | list and dictionary access | not modelled |
| connect(), DBAPITypeObject, PgNotify, the rest of libpqmodule | 549-600, 2192 | | construction | not modelled |
| tests, examples, build | | | | not modelled |

**How they interact.**  The application holds Connection and Cursor objects.  Every
call may send statements through `Connection.conn` (a PgConnection) to the one session
of that connection; libpq returns a result whose status becomes an exception, and calls
back with notices, which are queued in a list that `PgSQL.py` looks at before and after a
call.  The connection keeps weak references to its cursors: ending a transaction resets
all of them.  Each cursor keeps a proxy of the connection and reads and writes its
`inTransaction`.  `typecast` of a refcursor makes another Cursor.

**Where it is hard.**  Two views of one transaction (`inTransaction` and the session's)
are kept equal by convention only, over error handlers that themselves fail.  The
portals exist twice as well (`closed = 0` and the server's).  `CLOSE` is sent with its
error ignored, but an error aborts the transaction.  The first row of a query is
prefetched, so the rows of one query lie on two sides.  A large object's position exists
twice too (the buffer's and the descriptor's), and so does the transaction it began.  The
backend may go away in the middle of any call of `libpq`, notices arrive in all of them, and
`getvalue` sends a query of its own.  The emulated integers test for overflow in C, after
the fact.  The hazards, each at its line, are in `PROJECT.json`.

## 2. Modules

| module | what it is |
|---|---|
| `Backend` | the session on the server, external to the repository: for each statement, the set of replies (new state, exception, notice) it may give |
| `PgSQL` | Connection and Cursor as one state machine over `Backend` |
| `ResultStream` | what a cursor promises about its rows, without buffers and portals |
| `CursorFetch` | the rows of one cursor: prefetch, FETCH, MOVE; implements `ResultStream` |
| `PgConnection` | a PgConnection and its PgResults, with libpq and the backend message by message |
| `LOFile` | a file with one position: what an open PgLargeObject promises |
| `LargeObject` | its read-ahead buffer; implements `LOFile` |
| `LOSession` | several PgLargeObjects, their descriptors and transactions, and `oidCache` |
| `PyLong` | Python's power and division of long |
| `MachineInts` | integers of a width, their bits, and Python's numbers |
| `PgInt8`, `PgInt2` | the emulated integers; `PgInt2` also has Python's dispatch of an operator |
| `PgNumeric` | decimals |
| `Literals`, `PgVersion`, `Quoting` | texts read as values, versions, texts written as SQL |
| `Values` | the calls of all of these, with the properties of their results |
| `ArrayText` | arrays written as SQL and parsed, beside the calls of `Values` |
| `MCPgSQL`, `MCCursorFetch`, `MCPgConnection`, `MCLargeObject`, `MCLOSession`, `MCValues` | small instances for TLC |
| `PgSQLProofs`, `PgSQLPortalProofs`, `CursorFetchProofs`, `LargeObjectProofs`, `LOSessionProofs`, `PgConnectionProofs`, `ArithmeticProofs`, `ValuesProofs` | theorems |

### Backend

`srv` has the transaction's status (`idle`, `trans`, `aborted`, or `down` once the backend
is gone), the names of open portals, and two sets of changes: `pending`, made in
the open transaction, and `durable`.  The changes are tokens; `Writes` bounds how many
exist at a time.  `Faults` selects what may go wrong (`FaultKinds` explains each).  An
operator such as `Declare(s, n)` is the set of replies, from which an action of `PgSQL`
chooses.  The mapping from result status to exception is that of `libPQexec`
(`pgconnection.c` 384-407); the rest is how PostgreSQL answers, as the code relies on it.
The `NOTICE` that old servers gave for statements in an aborted transaction is an error
here, as it is since PostgreSQL 7.4.

### PgSQL

Each call of the application is one action with all the statements it sends: the code
runs a call in one thread, and DB-API thread safety for these objects is not claimed.
The variables are the attributes of the same names; a cursor is a record of `closed`,
`name` and the kind of `res`, and `closed = "unborn"` stands for no object.  `last` holds
the call made and what it raised, for the properties.  Calls that only raise because
the object is closed, because `autocommit` forbids them, or because a cursor is active
(`__anyLeft`) change nothing and are left out.

| code | actions and helpers |
|---|---|
| `__setupTransaction`, the blocks that call it | `SetupTransaction`, `Entered` |
| `__reset`, `__closeCursors` | `ResetSession`, `Reset`; `CloseCursorsSession`, `ResetCursors` |
| `commit`, `rollback`, `close` | `ConnectionCommit`, `ConnectionRollback`, `CloseConnection` |
| `__setattr__` | `SetAutocommit`, `SetTransactionLevel` |
| `binary`, `unlink` | `Binary`, `Unlink` |
| `Cursor.__init__`, the refcursor | `NewCursor` |
| `execute` | `Execute`; `ExecuteBegin` and `ExecuteEnd` for the statements that it recognises |
| `execute_params` | `ExecuteParams` |
| their exception handlers | `Recovered` (OperationalError), `Unrecovered`, `Unbound` |
| `callproc` | `Callproc` |
| FETCH and MOVE | `Fetch`, `Rewind` |
| `Cursor.close`, `__del__` | `CloseCursor`, `DropCursor` |

A query text is one of the `Kinds` that the regular expressions (484-511) tell apart.

### CursorFetch and ResultStream

A row is its position in the query, so that "in order, each once" can be said.  `rows` and
`idx` are `_rows_` and `_idx_`; `base` is how many rows of the query come before those of
`res`; `pos` is where the portal stands.  `alive` is whether the portal can be used: it
becomes false when the transaction aborts, by this cursor's error or another's.
Fetches call `FromResult` and `FromPortal`, as the code calls `__fetchOneRow` and sends
FETCH.  `SelectFails` is an execute that fails after it set `closed`: rows of an older
result may then still be fetched.  The refinement mapping (`Stream`) derives the position
in the stream from these.  `ResultStream` allows one row to be lost when a call raises while
the portal is alive, any number once it is lost, and, by `Skip`, one row for a statement
without rows in between; `StrictSpec` is without `Skip`.

### PgConnection

Here a call is not one step: `call` is the call in progress, and between its steps the
backend sends (`Serve`), raises a notice or dies.  `wire` is what was sent and not yet
parsed; libpq's own state is `link` (PQstatus) and `async` (PGASYNC_IDLE, busy, or in a
COPY).  libpq and the backend are external; their actions are what the calls in `src/`
need of them.  `heap` is the memory of PGresults, so that a result freed twice, or never,
can be seen.  A backend's answer is a list of messages; which statuses it may have is the constant `Programs`.

| code | actions |
|---|---|
| `queueNotices`, `PgSQL.py` taking from the end | `TakeNotice`, `EndcopyReads` (libpq reports errors of a COPY that way); `PopNotice` |
| `libPQexec`, `query`, `query_params`, the query of `getvalue` | `Query`, `Getvalue`; `Interrupt` and `Drain` (PQexec first ends what was going on), `Send`, `Collect` |
| `sendQuery`, `getResult`, `consumeInput`, `requestCancel` | `SendQuery`, `GetResult` and `ResultArrives`, `ConsumeInput`, `RequestCancel` |
| `getline`, `getlineAsync`, `putline`, `endcopy` | `Getline`, `GetlineChunk`, `GetlineEnds`; `GetlineAsync`, `GetlineAsyncPass`; `Putline`; `Endcopy`, `EndcopyReads` |
| `finish`, `reset`, `PgConnection_check` | `Finish`, `Reset`, `ClosedCall` |
| `PgResult_New`, `clear`, `dealloc` | `Concludes`, `Clear`, `PgResult_dealloc` |

`getlineAsync` makes its buffer `MAX_BUFFER_SIZE` larger in every pass of its loop, but offers libpq the
size of all of it for what comes behind the pieces it has (1139, `size` where `size - idx` is left).  A line
that with its newline does not fit two buffers may so be written past the end of the memory, and what the
program does after that is undefined: in the model the call ends with `"overrun"` and no line.

`reset` leaves every attribute as it is, the PID of the backend that is gone included.  A cancel
request may come too late.  A query made while asynchronous results wait drops them, also
when it is the hidden one of `getvalue`.

### LargeObject, LOFile and LOSession

`LargeObject` is one object within one transaction.  `lo` holds the members of the same
names, and `lo_tell`, the server's position.  Each method of the object is an action of the
same name, refusals (closed, or not open for it) included; `Getch` is `lo_getch`, and
`Getchs` gives the object, and the bytes read, after each of a number of calls of it, out
of which the loops of `readline` and `readlines` take the one where they stop.  `lo_flush` only does
something when `lo_dirty` is set, which it never is, so it is left out.  What surprises in
the code is in the model: `readline(n)` returns n bytes, of which those that were not read are
uninitialised; `read()` past the end raises: one byte past it SystemError, because the string of size 0 is the
one that Python shares and cannot be resized (728), and further out MemoryError, because the
size is negative; `isatty`, `flush` and `fileno` want the right to write.  `LOFile` knows of no
buffer; its `pos` is derived from `lo` (`Current`).

`LOSession` is about which descriptor belongs to whom.  The server gives the lowest free one
and closes all when a transaction ends.  `owner` records who began the transaction.

| code | actions |
|---|---|
| `PgLargeObject_New`, `lo_creat`, `lo_import`, `lo_unlink` | `NewObject`, `Creat`, `Unlink` |
| `getvalue` of an OID | `GetvalueCached`, `GetvalueQueried` |
| `open`: at once, refused, with its own BEGIN, with a BEGIN that does not help | `Open`, `OpenRefused`, `OpenBegins`, `OpenBeginsInVain` |
| `read`, `write`, `seek`, `tell` with a descriptor that is gone | `Access` |
| `close`, `dealloc` | `Close`, `Drop` |
| the application's own statements | `Begin`, `End`, `StatementFails` |

The constant `Careful` says that the application ends no transaction, and unlinks no large
object, under an open PgLargeObject.  Without it `DescriptorsOwned` and `CommitsItsOwn` do not
hold, nor does the code try to make them: after COMMIT the server uses a descriptor again.

### Values and the modules it calls

These types keep no state: `Values` makes one call (`call`), keeps what it may return
(`outcome`, a set) and drops it.  `ArrayText` is apart because its operators are `RECURSIVE`, with
which the prover loses its main backend: an array is a tree.  Its `ArraySpec`, which the runs check, makes
every call of `Values`, and those on arrays.  The operators have the names of the C and Python
functions they translate.  The widths are constants; a C operation that leaves its type wraps
around, as Python builds its extensions with `-fwrapv`.  `Binary` is Python's dispatch
(`nb_add` of the left operand, then of the right, with coercion).  What the code does and a
reader would not expect is kept, and the properties are stated around it:

* `int8_add` and `int8_sub` never raise (see the run `int8_overflow`); the division of the
  smallest PgInt8 has the wrong sign; `divmod` of both types always ends in a SystemError.
* The shifts and bit operations of a PgInt2 with a PgInt8 read an uninitialised long: `SecondOperand`
  is any long then.  An int outside of a short leaves an exception pending: such results
  (`pending`) are not vouched for.
* `pow` with a modulus multiplies before it reduces: it is right when the modulus fits a PgInt2, or
  when the squares of the modulus and of the base fit a PgInt8. A negative power or shift is not a
  property's business.
* PgVersion reads components with a leading zero as octal, weighs each by 100, and reads through
  a null pointer for `"-"` (an outcome of its own).
* A text `NULL` in an array comes back as None.  The deprecated quoting functions write `E''`
  whatever the server does; for them only servers without standard strings are considered.
  `parseArray`'s branch for octal escapes (779-788) is left out: no text that the server writes here has any.
* PgNumeric raises OverflowError for some sums of negative numbers and some differences of numbers
  of unlike signs, and rounds a quotient of scale 0 down.  Its cast tests `v > 10^p` without the sign
  (1632): it admits 10^p, and any negative number.  `NumericType` has such numbers, the cast is made
  of them and they are operands of the other operators, which may refuse them.

## 3. What the runs check

| run | configuration | shows | distinct states |
|---|---|---|---|
| `connection` | `MCPgSQL.cfg` | the transaction and portal properties below but `AutocommitExclusive` and `StatementsInTransaction`, under errors, constraint violations and a lost backend | |
| `shared_names` | `MCSharedNames.cfg` | what still holds when cursors share names and parameters may not fit | |
| `unrestricted` | `MCUnrestricted.cfg` | `AutocommitExclusive`, whatever happens | |
| `fetch` | `MCCursorFetch.cfg` | `ResultInStep`, `RowcountCountsRows`, the refinement `IsStream` | |
| `large_object` | `MCLargeObject.cfg` | `BufferAligned`, `BufferCoherent`, the refinement `IsFile` | 36 932 |
| `lo_session` | `MCLOSession.cfg` | `DescriptorsOwned`, `CommitsItsOwn`, `ApplicationEndsItsOwn` | 180 546 |
| `pg_connection` | `MCPgConnection.cfg` | `NoticesInOrder`, `ResultsOwned`, `LinesWhole`, and `CallsReturn` under fairness | 1.76 million |
| `values` | `MCValues.cfg` | the nine properties of the value types | 246 135 |

The properties of `PgSQL` and `CursorFetch`:

* `TransactionTracked`: while `inTransaction` is set, the session is in a transaction, so
  what is written can be rolled back.  `Recoverable`: while it is clear the session is in
  none, so the next BEGIN works.  Both break by one forgotten assignment in one of a dozen
  handlers.
* `AutocommitExclusive`: autocommit and a transaction of the connection exclude each other.  It is checked
  under every fault in `unrestricted`, which is more than the other runs of `PgSQL` have.
* `PortalsOwned`: each portal under a generated name belongs to a cursor that will close it.
  `PortalBacked`: a cursor that will send CLOSE has the portal, so that the CLOSE whose
  error is ignored does not abort the transaction.
* `DurableOnlyByCommit`: with autocommit off, only `commit()` and `unlink()` make changes durable.
  (`unlink` begins no transaction of its own, so without one its change is durable at once.)
* `LossReported`: no call returns normally and leaves pending changes lost.
* `StatementsInTransaction`: no statement is durable as it runs.
* `ResultInStep`, `RowcountCountsRows`, `IsStream`: see section 2.

Of `LargeObject` and `LOSession`:

* `BufferAligned`: the position the application sees and the descriptor's position differ by exactly
  what is left in the read-ahead buffer.  `BufferCoherent`: the buffer holds what the object holds
  there, also after a write.
* `IsFile`: whatever `read`, `readline`, `readlines`, `write`, `seek` and `tell` do with the
  buffer, the answers are those of a file with one position (`LOFile`).
* `DescriptorsOwned`: two open objects never use one descriptor of the server, although the server
  gives numbers out again when a transaction has ended and closed them.
* `CommitsItsOwn`: an object that will send COMMIT when it is closed is open in the very transaction it
  began.  `ApplicationEndsItsOwn`: closing or losing an object never ends a transaction that the
  application began.

Of `PgConnection`:

* `NoticesInOrder`: notices reach the application in the order in which the backend raised them,
  although C inserts them at one end of a list that Python empties from the other.
* `ResultsOwned`: each `PGresult` of libpq has one owner, which clears it: none leaks on an error path
  and none is cleared twice.
* `LinesWhole`: `getline` and `getlineAsync` return whole lines, put together from buffers that end at
  any byte.  The exception is the overrun of `getlineAsync`, a defect: the property says that it
  befalls no line that with its newline fits two buffers.  The run has a line that it befalls.
* `CallsReturn`: a blocking call returns, also if the backend dies while it waits.

Of `Values`:

* `ArithmeticExact`: what `PgInt2` and `PgInt8` answer is the mathematical result (division floors, as
  Python's does).  `RaisesOnlyWhenNeeded`: they raise `OverflowError` only if the result does not fit.
  Exceptions to the two are named in the properties (`PgInt8` addition, subtraction and its kin: see
  `int8_overflow`).
* `PowersExact`, `LiteralsExact`: the same for `pow`, with and without a modulus, and for texts of integers,
  booleans and money.
* `VersionsOrdered`: `PgVersion`s compare component by component, for components below 100 and without a
  leading zero (others are read as octal, or weigh more than they should), whatever a vendor adds without a
  dot in front of its dash; and a number below 100^3 that a version is compared with stands for itself.
* `QuotesReadBack`, `ArraysReadBack`: what `PgQuoteString` and `_handleArray` write is, once the server's
  rules or `parseArray` have read it, what was given.
* `NumericExact`: sums, differences and products of `PgNumeric` keep every digit, and quotients and
  casts are rounded at their scale (quotients of scale 0 down); what comes out is again a number
  that the constructor makes.  It also says what may be refused: with an operand that a cast left too
  long for its precision any sum, difference or product; otherwise no product, only a sum of two
  negative numbers and only a difference of numbers of unlike signs.  The unary operators and the
  quotient raise `OverflowError` exactly when the result is too long for the precision of the
  operand, the cast exactly when it is above 10^p.

That a property can fail is shown for each of them: a definition whose comment starts with "Mutant"
is a version of another definition with a plausible mistake, such as a dropped
assignment, and the property is violated when it takes the place of that definition.

Which property holds under which faults is itself a result.  `Recoverable` needs that
neither internal errors nor unsolicited notices happen; `TransactionTracked` needs that
COMMIT and ROLLBACK go through `execute` and no notice comes at the wrong place;
`PortalBacked` and `LossReported` need that cursors do not share names; the properties of
`LOSession` need a careful application, which ends no transaction under an open object.

Four runs are meant to find a violation, where the code does other than its documentation says:

| run | violates | because |
|---|---|---|
| `commit_aborted` | `CommitDurable` | `execute` has no handler for the IntegrityError of a statement that violates a constraint, so the transaction stays aborted, and COMMIT of an aborted transaction is answered like a success (`PgSQL.py:2533`): what was written before is lost |
| `lo_seek` | `IsFile` | `seek` compares the offset with the buffer before it looks at `whence` (`pglargeobject.c:815`) |
| `stale_oid` | `AnswersAreTrue` | `oidCache` keeps its first answer for an OID for ever (`pgresult.c:670`) |
| `int8_overflow` | `Int8Exact` | the overflow test compares an unsigned value with 0 (`pgint8object.c:436`) |

The models hold further disagreements that no run is spent on.  In `PgSQL.py`: `closed` is set to 0
before parameters are bound (3168, 3199), so a query that does not bind leaves a cursor that
believes it has a portal; the handler of an internal error calls a method that does not exist
(3227); `execute_params("COMMIT")` leaves `inTransaction` set; two cursors with one name take each
other's portal; `binary()` rolls back after a notice without clearing `inTransaction` (2601); a
statement without rows discards the prefetched row of the query before it (3200), which is why
`IsStream` lets a row be left out and only `IsStrictStream` does not; `fetchmany` tests
`self.close`, a method, for `self.closed` (3425).  In `PgNumeric`: a cast to precision p may give
10^p, or a negative number of any length (1632).  In `pgconnection.c`: `getlineAsync` writes behind
its buffer when a line needs a third piece (1139).  In `pglargeobject.c`: `read()` past the end
raises SystemError or MemoryError (728).

**Bounds.**

* `PgSQL`: two cursors: every hazard found is about one cursor, or one cursor and the effect of another
  on the shared transaction, and cursors are symmetric.  Two changes: one that is held by the
  transaction while another is made, or is already durable.  One application chosen name, which two
  cursors can share.  `unrestricted` has one change, as its property is not about them.  No state is
  cut off: `Writes` bounds the changes, and everything else is finite.
* `CursorFetch`: queries of 0 to 4 rows and counts from -1 to 3: a fetch then ends before, at and after
  the prefetched row and the end of the query; -1 is `fetchall`.
* `LargeObject`: a buffer of two bytes and objects of up to four (`MaxLen`), so that a read or a
  line ends before, at and after the buffer and may need to fill it twice.  The bytes are one letter
  and the newline; the model is of bytes 1 to 127 (a zero byte, or one that C reads as negative, is
  left out).  Sizes 0 to 3. The passing run seeks to 0 to 5, past the end too, with `SEEK_SET`;
  `lo_seek` takes all three and -1 to 3. A seek to a negative position, which the server refuses, is
  left out, and so is a write after a gap (`Holes`).
* `LOSession`: three objects on two OIDs: two on one OID, and a third whose open or close meets the
  descriptors of both.  `Careful` is `TRUE`.
* `PgConnection`: two result handles, so that one is read while the next comes, and one that was
  cleared is given out again; two notices, the least that can be out of order; three programs
  of the backend (rows followed by an error, COPY in each direction); a line of three characters, which with
  its newline fills two buffers of two characters, and one of four, for which `getlineAsync` has no room.
* `Values`: `SHORT_BIT` 3, `LONG_BIT` and `LONG_LONG_BIT` 6, `RADIX` 4, where the program has 16,
  64, 64 and 10: the arithmetic is the same at any width, the relation of the widths (twice the
  narrow one fits in the wide one, a C long is as wide as a long long) is kept, and all pairs of
  operands are tried.  Numerics have values -5 to 5 and those at and beyond the limits (15 to 17, and
  63 to 65, of either sign), 0 to 3 digits and 0 to 2 decimals, as far as the constructor makes
  them, and casts go to precisions and scales 0 to 3; texts have at most four characters out of
  those that quoting tells apart.

`SYMMETRY` permutes cursors and changes, and objects and OIDs; the run with a liveness property
has none.

**Deadlock.**  The `PgSQL` runs say `CHECK_DEADLOCK FALSE`: after `close()` a connection has no
call left, once its cursors are dropped and the backend is gone.  In the other runs TLC
also shows that no state is stuck; in `pg_connection` this says that no call waits for something that
nobody will send.

**Fairness.**  `PgConnection` assumes `WF(Serve)`, a backend that lives goes on with its answer, and
`WF(Proceed)`, libpq goes on reading while a call is in progress: it runs a loop around `select()`,
and the call holds the interpreter's thread.  Nothing is assumed of the application, which may make
no further call, nor of notices, cancellation or the death of the backend.  The other modules assume
no fairness: the application decides which call comes next, each call is one step, and nothing must
eventually happen.

## 4. What is proved

The theorems hold for all values of the constants, unless an assumption is named.

* `PgSQLProofs!TypeCorrect`: `TypeOK` is inductive.  Each action has its lemma; the replies of
  `Backend` are shown to be well typed first.
* `AutocommitIsExclusive`: `TypeOK` and the property are inductive together: every action that
  sets `inTransaction` reaches it through `Entered` with autocommit off, and the one that
  sets `autocommit` clears `inTransaction` first.
* `TransactionIsTracked`, assuming that `Faults` has no `"notice"` and `ParamsKinds` has no COMMIT
  or ROLLBACK: lemmas say of each statement whether it can leave the session idle.
* `SessionIsRecoverable`, assuming that `Faults` has neither `"notice"` nor `"internal"` and that
  no BEGIN is sent under autocommit.  Without the assumptions TLC finds both false.
* `PgSQLPortalProofs!EveryPortalIsOwned`, assuming that `Faults` has no `"internal"` (the handler
  of that error clears `inTransaction`, and no CLOSE is sent after that).  `Portals` strengthens
  `PortalsOwned`: a session outside a transaction has no portals (`Bare`), with `inTransaction` clear there
  are none under generated names, and a cursor has its own name or one that was chosen for it (`Named`).
  `Within` and the lemmas on it say that only DECLARE opens a portal.
* `EveryCursorIsBacked`, the converse, assuming `UserNames = {}`, none of `"notice"`, `"internal"`
  and `"binding"` in `Faults`, and no COMMIT or ROLLBACK through `execute_params`: two cursors with
  one name, or a call that fails between `closed = 0` and DECLARE, do break it.  `Holding` adds to
  `PortalBacked` that a cursor with a portal has `inTransaction` set: hence no portal is there when
  a BEGIN starts another transaction.  It rests on `TransactionIsTracked` and
  `AutocommitIsExclusive`: a COMMIT that is sent as text under autocommit finds no cursor with a
  portal.
* `OnlyCommitIsDurable` and `StatementsAreInTransaction`, under the assumptions of
  `TransactionIsTracked`, which they rest on: with autocommit off a statement that may change something
  has found a transaction, because `inTransaction` was set and the session is where it says, or
  has begun one; and in a transaction a change only joins `pending`.  What is sent to recover
  from an error, a ROLLBACK or a COMMIT of a transaction that is over, leaves `durable` as it is.
* `EveryLossIsReported`, assuming also `UserNames = {}`, none of `"internal"` and `"binding"` in
  `Faults`, and no BEGIN under autocommit: `Spared(s, u)` says that what `s` has pending in a
  transaction `u` has, too, and is shown of every statement whose error is not raised.  The hard one
  is the CLOSE of `__reset` and `__closeCursors`, which ignore its error: it spares the transaction
  because the portal is there (`PortalBacked`) and is closed once, each cursor having its own
  (`OwnPortals`).  The one assumption that `PortalBacked` does without is that of
  `SessionIsRecoverable`, which is needed, too: a session in a transaction has `inTransaction` set,
  so that no call sends a BEGIN of its own.
* `CursorFetchProofs`: `Inv` is `TypeOK`, `ResultInStep`, `RowcountCountsRows` and `Settled`, which
  says what a result without rows looks like; without `Settled`, `idx` after a reset would not be
  tied to anything.  `TypeCorrect`, `BufferInStep` and `RowcountIsExact` are parts of it.
* `CursorIsStream`, and `CursorIsStrictStream` when `OtherStatements` is `FALSE`: with `Inv`, each
  action maps to a step of `ResultStream`; `RunConcat` (two runs of rows that meet make one) is
  the lemma for a fetch that takes rows from both sides.
* `LargeObjectProofs!SoundInvariant`: `TypeOK`, `BufferAligned` and `BufferCoherent` are not
  inductive, alone or together.  `Sound` says where the bytes of the buffer come from (`InStep`:
  `lo_size` bytes of the contents from `lo_offset` on, and the descriptor right behind them), that a
  closed object is as `close` leaves it, and that the contents stay within `MaxLen`.
  `ObjectTypeCorrect`, `BufferIsAligned` and `BufferIsCoherent` follow, for any size of buffer and
  object, any `Whences`, and with `Holes` too.  A seek with the wrong `whence`, which `lo_seek`
  shows, moves to the wrong place, but leaves the buffer in step.
* `LargeObjectIsFile`, assuming `Holes = FALSE` and `Whences \subseteq {"SEEK_SET"}`, as in the run:
  with `Sound`, and with no zero byte in the contents (`Positive`, where C's strings would end),
  each operation is the file's; the file's `read()` past the end raises, too (`RefusePastEnd`).
  `read` and `write` are followed through the buffer by positions in the contents (`ReadIs`,
  `WriteIs`).  The loops of `readline` and `readlines` are runs of `lo_getch`: that the recursive
  function `Getchs` exists, and what its n-th element is (`GetchsAre`), is proved by a least
  counterexample, since natural numbers are well-founded.
* `LOSessionProofs!SessionTypeCorrect`: not inductive alone, since a server with no free number would
  have no descriptor to give.  `Sound` adds `Held` (each descriptor open in the server is the one of
  some object) and `OpenHasOid`: with fewer held descriptors than numbers, a pigeonhole
  argument on the cardinalities (`FreeFdType`) shows one to be free.
* `DescriptorsAreOwned`, `ObjectsCommitTheirOwn` and `ApplicationsTransactionIsKept`, assuming
  `Careful`: `Owned`, the two invariants together, is inductive over `Sound`, and needs
  `IdleUnowned`: outside a transaction no object owns one.  Neither invariant is
  inductive without the other: a COMMIT by an object whose transaction is another's would
  close descriptors that are in use.
* `PgConnectionProofs!NoticesAreHeardInOrder`: `Queue` says that the numbers in the list fall from front
  to back, that all of them are above those already heard and none above the last one
  raised, and that a finished connection is closed and holds no notices.
* `EveryResultIsOwned` and `ConnectionTypeCorrect`: `Good` is the types with `OwnedBy` (a
  result is in use exactly if a PgResult or the call has it, and not two of them), `Empty`
  (a PgResult that was cleared, or does not exist, has none: the one that takes the next result
  then loses nothing), and the shape of a call: only a query that was sent keeps a result from one
  message to the next.  Since PgResults and call own at most one result more than there are PgResults,
  a free one is left whenever libpq needs one (`NewIdIsFree`, by the pigeonhole principle).
* `LinesComeWhole`: `InPieces` says of everything that is still to be sent, or was sent and not
  read, that its lines are whole (`Sendable`), except for the one that such a call is in: what is in
  its buffer and what is left on the wire are that line together (`Unbroken`).  A notice or the end
  of the link can only come behind it.  Nothing but `getline` and `getlineAsync` has a buffer, and
  between calls it is empty.  `getlineAsync` is shown to have read its first buffer whole when it
  reads the second; lines may have any length, and the overrun is shown to befall only those too
  long for two buffers.  That `FlattenSeq`, with which a program's answer is put together, gives a
  sequence of such messages is, again, proved by a least counterexample.

* `ArithmeticProofs!NumericIsExact`: `NumericExact` for any even `RADIX`, and all numbers that any
  branch of `__init__` makes (`NumericType`), those of its cast included; the results are in
  `NumericType` again.  Each operator has its lemma.  `AlignedIs` brings both operands to the larger
  scale and bounds them by the digits that the sum will have; `RoundIs` and `RoundOfQuotient` say
  that dropping digits, adding half the radix and dropping one more is rounding once, also when the
  digits come out of a quotient.  An odd radix has no half.
* `ResultsAreExact` (`ArithmeticExact`) and `ErrorsAreNeeded` (`RaisesOnlyWhenNeeded`): all
  operators of `PgInt2` and `PgInt8`, with any two operands of the four types, for widths of any
  size that stand to each other as in `MachineIntsAssumption`.  `OperatorInv`, which
  `OutcomesOfOperators` proves, describes a call by its operands, and its outcome as what the
  operator makes of them.  What that is, is a lemma for each operator; the dispatch and the coercions
  come before them.  Of the lemmas on C's arithmetic these carry the most:
  `Int8MultiplicationIsExact`, the test of `int8_mul` by halves finds every product that leaves the
  type (of two magnitudes below `2^(w-1)` the partial products stay below `2^w`, where the sign bit
  still tells); `DivisionRoundsDown` and `Int8DivisionIsExact`, the truncated quotient of the
  magnitudes, adjusted, is the one rounded down, also when the divisor is the most negative number,
  whose magnitude wraps around; and the laws of the bits of a number, by which `&`, `|` and `^` at a
  width have the bits that Python's have, and by which the overflow test of `int8_add`, on an
  unsigned value, never fires.
* `ValuesProofs!LiteralsAreExact` (integers, booleans and money), `PowersAreExact`, and
  `ResultsFitTheirTypes` (`TypeOK`), by the invariants `LiteralInv` and `PowInv`, for every text,
  base, exponent and modulus.  `pg_strtoll` goes through the digits with a limit that the value must
  not pass: climbed digit by digit, it has overflown exactly if the number denoted has passed the
  limit at some digit, and then it never comes back.  `pow` squares for each bit of the exponent: the
  result so far, times the square to the power of the bits that are left, is the power (modulo the
  modulus); in the loop without a modulus the two functions must also raise at the right turn.
* `WhatIsQuotedIsReadBack` (`QuotesReadBack`), by `QuoteInv` and `ByteaInv`: every text, either
  setting of the server.  Each character is written as a piece that the reader takes in one go,
  whatever comes behind it; the texts are put together from pieces, and read piece by piece.  In an
  array the server reads twice.
* `VersionsAreOrdered` (`VersionsOrdered`), by `VersionInv` and `CoerceInv`: every plain version,
  with any text behind it.  `TokenIs` says what `pg_strtok_r` cuts off, `DashIs` that nothing behind
  the dash is read, and `NewOne` to `NewThree` what number comes of one, two and three components;
  `DecimalIs` that a number below 100 is written as it is read.
* The assumptions are on constants only: that a short fits twice in a long, and a long in a long
  long of an even number of bits (`MachineIntsAssumption`); that the inputs are of their types
  (`ValuesAssumption`, `NumericAssumption`).
* Loops, and C's powers, are recursive functions on naturals (`Pow`, since the backends know nothing
  of `^` with an exponent that is not a number).  That there is such a function, and only one, and
  its laws are proved by least counterexamples; `Climb` and `TextClimb` then go from one turn of a
  loop to the next.  These theorems are of `Values!Spec`; `ArraySpec` makes the same calls, and
  others that no part of the properties is about.

Only model-checked:

* `ArraysReadBack`: arrays are trees, and the operators that go through them `RECURSIVE`, with which
  the prover loses its main backend; and what they make of every tree is an induction over data;
* `CallsReturn`, since liveness under fairness is out of the prover's reach.

The induction theorems of the library cannot be used, as they take an operator as a parameter; a
least counterexample (`MinIs`, `LeastOf`) does their work for functions on numbers.

## 5. What is not modelled

* `PgSQL.py`: servers before 7.1 (`_badQuery`) and Pythons without weak references (`noWeakRef`,
  `__gcCursors`): the tests run with neither.  The description of a result, `setinputsizes` and
  `setoutputsize` (they do nothing).  Threads that share a connection.
* `PgConnection`: `notifies`, `trace`, `connectPoll`, `lo_export`, the attributes, `debugQuery`; an error
  in a COPY that is seen before `endcopy`.
* Connection and PgConnection together: they are modelled apart, so that what
  `reset()` does to the `inTransaction` of a Connection is listed among the hazards and not checked.
* `PgLargeObject`: pickling, `export`; `lo_flush` (no call reaches it).  Objects with gaps and zero bytes.
* Values: conversions to float, octal and hexadecimal, texts in bases other than 10; the parsing of
  `PgNumeric` from text and floats, null values and negative scales, and hashes; `PgMoney`,
  `PgOther`, `PgBytea`, and the parts of `PgArray` that only forward to a list; bytea in arrays,
  empty arrays and empty arrays in arrays.
* `TypeCache`'s interpretation of dates, numbers and the other built-in types, and `PgResultSet`: forwarding
  and wording, with little state.
* Generated and ported code (`port/`), examples and build files.

The status of each component is in `PROJECT.json`.

## 6. Plan

1. The composition of Connection and PgConnection, for `reset()`.
2. `TypeCache`'s interpretation of values, and `PgResultSet`.
3. `ArraysReadBack` for every array, with trees as functions on paths instead of `RECURSIVE` operators.
