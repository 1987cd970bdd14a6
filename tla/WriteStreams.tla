---------------------------- MODULE WriteStreams ----------------------------
(***************************************************************************)
(* The Storage Write API of the emulator: explicit write streams and the   *)
(* `_default` stream (src/src/grpc-impl/bigQueryWrite.ts and               *)
(* writeStreamStore.ts) over the one DuckDB connection and its cache of    *)
(* prepared statements (src/src/storage/db.ts).                            *)
(*                                                                         *)
(* The process is single-threaded JavaScript, so what lies between two     *)
(* awaits is one action, and every await is a point where another handler  *)
(* may run.  Inserting one row takes three of them: the handler asks for   *)
(* the prepared statement; when it has it, it binds the row and starts the *)
(* statement; a worker thread executes it; and the handler continues.      *)
(*                                                                         *)
(* Row number p of the client's data for target s is the pair <<s, p>>; a  *)
(* client that sets offsets sends row lo + j at offset lo + j - 1.         *)
(***************************************************************************)
EXTENDS Integers, Sequences, FiniteSets

CONSTANTS
  Targets,    \* write streams the clients address
  Defaults,   \* those of them that are the `_default` stream of a table
  TableOf,    \* TableOf[s]: the destination table of stream s
  Conns,      \* AppendRows calls (one bidirectional gRPC call each)
  Uses,       \* bound: Uses[c]: the streams the client of call c writes to
  Calls,      \* FlushRows and BatchCommitWriteStreams calls, one call each
  LogLen,     \* bound: rows of data the client has for each stream
  Batches,    \* bound: numbers of rows in one AppendRows message
  Unchecked,  \* streams whose clients leave `offset` unset
  BadRows,    \* rows the table rejects (a NULL in a REQUIRED column, a cast)
  MaxCopies,  \* bound: a client stops resending a row found so many times
  OneWriter,  \* TRUE: clients keep at most one inserting call per table open
  NoStream,   \* not a stream
  NoRow       \* `undefined`; what a statement holds before its first bind

Steps == {"idle", "meta", "counted", "preparing", "running", "ran", "threw", "done"}
Types == {"COMMITTED", "BUFFERED", "PENDING"}
Handlers == Conns \cup Calls
Row == Targets \X (1..LogLen)

ASSUME ParametersAssumption ==
  /\ Defaults \subseteq Targets
  /\ Uses \in [Conns -> SUBSET Targets]
  /\ LogLen \in Nat
  /\ Batches \subseteq Nat \ {0}
  /\ Unchecked \subseteq Targets
  /\ BadRows \subseteq Row
  /\ MaxCopies \in Nat
  /\ OneWriter \in BOOLEAN
  /\ Conns \cap Calls = {}
  /\ NoRow \notin Row
  /\ NoStream \notin Targets

VARIABLES
  type,     \* [s]: the type CreateWriteStream gave the stream
  state,    \* [s]: "NONE" before CreateWriteStream, then the stream's state
  offset,   \* [s]: rows appended so far
  flushed,  \* [s]: flushedOffset, how many of them count as visible
  buffer,   \* [s]: rows waiting for FlushRows or BatchCommitWriteStreams
  copies,   \* [r]: how many times row r is in its destination table
  bound,    \* [t]: the row bound to the cached INSERT statement of table t
  arg,      \* [h]: the row handler h has passed to exec() and not yet bound
  pc,       \* [h]: where handler h waits
  dest,     \* [h]: the stream the handler is working on
  rowNo,    \* [h]: index of the row the handler bound last
  msg,      \* [c]: the message being handled: rows lo + 1 .. lo + n
  ctx,      \* [c]: the streams connection c has a context for
  closed,   \* the connections that failed or that the client left
  upto,     \* [k]: targetCount of a FlushRows call
  size,     \* [k]: toFlush of a FlushRows call
  todo,     \* [k]: streams a BatchCommitWriteStreams call has yet to flush
  held,     \* [k]: << >> while call k iterates its stream's current buffer,
            \*      <<array>> once that buffer was replaced under it
  acked     \* history: rows some AppendRows response acknowledged as written

streamVars == <<type, state, offset, flushed, buffer>>
dbVars     == <<copies, bound, arg>>
connVars   == <<msg, ctx, closed>>
callVars   == <<upto, size, todo, held>>
vars == <<streamVars, dbVars, pc, dest, rowNo, connVars, callVars, acked>>

-----------------------------------------------------------------------------
Explicit(s)  == s \notin Defaults
Immediate(s) == s \in Defaults \/ type[s] = "COMMITTED"

\* The rows between two positions of the client's data for s.
RowsOf(s, lo, hi) == [j \in 1..(hi - lo) |-> <<s, lo + j>>]
RowSet(s, lo, hi) == {<<s, p>> : p \in (lo + 1)..hi}

Active(h) == pc[h] \notin {"idle", "done"}

\* The tables handler h inserts into before it ends.
WritesTo(h) ==
  IF h \in Calls
    THEN IF Active(h) THEN {TableOf[s] : s \in {dest[h]} \cup todo[h]} ELSE {}
    ELSE IF Active(h) /\ Immediate(dest[h]) THEN {TableOf[dest[h]]} ELSE {}

\* The client discipline selected by OneWriter.
Alone(h, S) ==
  OneWriter =>
    \A g \in Handlers \ {h} : WritesTo(g) \cap {TableOf[s] : s \in S} = {}

\* stmt.exec(rows[j]), up to its await for the prepared statement.  Reading
\* past the end of a buffer gives `undefined`.
Exec(h, rows, j) ==
  /\ arg' = [arg EXCEPT ![h] = IF j \in 1..Len(rows) THEN rows[j] ELSE NoRow]
  /\ rowNo' = [rowNo EXCEPT ![h] = j]
  /\ pc' = [pc EXCEPT ![h] = "preparing"]

\* The handler returns, its locals are gone; a connection waits for the next
\* message and a call is over.
NoMsg == [lo |-> 0, n |-> 0]
EndMessage(c) ==
  /\ pc' = [pc EXCEPT ![c] = "idle"]
  /\ dest' = [dest EXCEPT ![c] = NoStream]
  /\ rowNo' = [rowNo EXCEPT ![c] = 0]
  /\ msg' = [msg EXCEPT ![c] = NoMsg]
EndCall(k) ==
  /\ pc' = [pc EXCEPT ![k] = "done"]
  /\ dest' = [dest EXCEPT ![k] = NoStream]
  /\ rowNo' = [rowNo EXCEPT ![k] = 0]
  /\ todo' = [todo EXCEPT ![k] = {}]

-----------------------------------------------------------------------------
Init ==
  /\ type = [s \in Targets |-> "NONE"]
  /\ state = [s \in Targets |-> "NONE"]
  /\ offset = [s \in Targets |-> 0]
  /\ flushed = [s \in Targets |-> 0]
  /\ buffer = [s \in Targets |-> << >>]
  /\ copies = [r \in Row |-> 0]
  /\ bound = [t \in {TableOf[s] : s \in Targets} |-> NoRow]
  /\ arg = [h \in Handlers |-> NoRow]
  /\ pc = [h \in Handlers |-> "idle"]
  /\ dest = [h \in Handlers |-> NoStream]
  /\ rowNo = [h \in Handlers |-> 0]
  /\ msg = [c \in Conns |-> NoMsg]
  /\ ctx = [c \in Conns |-> {}]
  /\ closed = {}
  /\ upto = [k \in Calls |-> 0]
  /\ size = [k \in Calls |-> 0]
  /\ todo = [k \in Calls |-> {}]
  /\ held = [k \in Calls |-> << >>]
  /\ acked = {}

(***************************************************************************)
(* CreateWriteStream and FinalizeWriteStream.                              *)
(***************************************************************************)

\* The name is a fresh UUID, so nobody addresses the stream before this step.
CreateWriteStream(s, ty) ==
  /\ Explicit(s)
  /\ state[s] = "NONE"
  /\ type' = [type EXCEPT ![s] = ty]
  /\ state' = [state EXCEPT ![s] = "ACTIVE"]
  /\ UNCHANGED <<offset, flushed, buffer, dbVars, pc, dest, rowNo, connVars,
                 callVars, acked>>

\* Mutant of Finalizable: a committed stream can be finalized again.
FinalizableAnytime(s) == state[s] # "NONE"

\* NOT_FOUND before it is created, FAILED_PRECONDITION once committed.
Finalizable(s) == state[s] \in {"ACTIVE", "FINALIZED"}

\* Synchronous, whatever AppendRows messages are in flight.
FinalizeWriteStream(s) ==
  /\ Finalizable(s)
  /\ state' = [state EXCEPT ![s] = "FINALIZED"]
  /\ UNCHANGED <<type, offset, flushed, buffer, dbVars, pc, dest, rowNo, connVars,
                 callVars, acked>>

(***************************************************************************)
(* The database.  All INSERTs into one table have the same text, so they   *)
(* share one cached statement.                                             *)
(***************************************************************************)

\* bindAndRun: bind the shared statement and start it.  exec(undefined) binds
\* nothing: the statement runs with what it was last bound to.
Bind(h) ==
  /\ pc[h] = "preparing"
  /\ bound' = IF arg[h] = NoRow THEN bound
              ELSE [bound EXCEPT ![TableOf[dest[h]]] = arg[h]]
  /\ arg' = [arg EXCEPT ![h] = NoRow]
  /\ pc' = [pc EXCEPT ![h] = "running"]
  /\ UNCHANGED <<streamVars, copies, dest, rowNo, connVars, callVars, acked>>

\* The worker thread executes the statement of handler h with whatever is
\* bound to it by now, and resolves or rejects the handler's await.
Run(h) ==
  LET r == bound[TableOf[dest[h]]]
  IN  /\ pc[h] = "running"
      /\ \/ /\ r \in Row \ BadRows
            /\ copies' = [copies EXCEPT ![r] = @ + 1]
            /\ pc' = [pc EXCEPT ![h] = "ran"]
         \/ /\ r \in BadRows \cup {NoRow}
            /\ pc' = [pc EXCEPT ![h] = "threw"]
            /\ UNCHANGED copies
      /\ UNCHANGED <<streamVars, bound, arg, dest, rowNo, connVars, callVars, acked>>

(***************************************************************************)
(* AppendRows.  The messages of one connection are handled one after the   *)
(* other: the `pending` promise chain holds back the next until the one    *)
(* before it is answered.                                                  *)
(***************************************************************************)

\* Bound on the client, not on the program.
WithinBound(s, lo, n) ==
  /\ lo + n <= LogLen
  /\ offset[s] <= LogLen
  /\ \A r \in RowSet(s, lo, lo + n) : copies[r] < MaxCopies

\* buildContext looks at the state of the stream on the first message for it
\* only.  The getTable awaits of buildContext and refreshSchemaIfChanged,
\* between which nothing shared is read, are the one wait "meta".
Receive(c, s, lo, n) ==
  /\ pc[c] = "idle"
  /\ c \notin closed
  /\ WithinBound(s, lo, n)
  /\ Immediate(s) => Alone(c, {s})
  /\ s \in ctx[c] \/ ~Explicit(s) \/ state[s] = "ACTIVE"
  /\ pc' = [pc EXCEPT ![c] = "meta"]
  /\ dest' = [dest EXCEPT ![c] = s]
  /\ msg' = [msg EXCEPT ![c] = [lo |-> lo, n |-> n]]
  /\ ctx' = [ctx EXCEPT ![c] = @ \cup {s}]
  /\ UNCHANGED <<streamVars, dbVars, rowNo, closed, callVars, acked>>

\* NOT_FOUND or FAILED_PRECONDITION from buildContext ends the connection.
RefuseContext(c, s) ==
  /\ pc[c] = "idle"
  /\ c \notin closed
  /\ Explicit(s)
  /\ s \notin ctx[c]
  /\ state[s] # "ACTIVE"
  /\ closed' = closed \cup {c}
  /\ UNCHANGED <<streamVars, dbVars, pc, dest, rowNo, msg, ctx, callVars, acked>>

\* The client gives up while its message is handled: the handler goes on, but
\* answers nobody.  (A client that leaves while nothing is in hand just sends
\* no more.)
Disconnect(c) ==
  /\ Active(c)
  /\ c \notin closed
  /\ closed' = closed \cup {c}
  /\ UNCHANGED <<streamVars, dbVars, pc, dest, rowNo, msg, ctx, callVars, acked>>

\* Mutant of OffsetMatches: no offset enforcement.
OffsetIgnored(c) == TRUE

\* The offset check: an unset offset always passes.
OffsetMatches(c) ==
  dest[c] \in Unchecked \/ msg[c].lo = offset[dest[c]]

\* Mutant of SkipAppend: out-of-order messages wait for the rows before them.
SkipReplays(c) ==
  /\ pc[c] = "meta"
  /\ Explicit(dest[c])
  /\ dest[c] \notin Unchecked
  /\ msg[c].lo < offset[dest[c]]
  /\ EndMessage(c)
  /\ UNCHANGED <<streamVars, dbVars, ctx, closed, callVars, acked>>

\* Offset mismatch: acknowledged without a result, nothing is written.
SkipAppend(c) ==
  /\ pc[c] = "meta"
  /\ Explicit(dest[c])
  /\ ~OffsetMatches(c)
  /\ EndMessage(c)
  /\ UNCHANGED <<streamVars, dbVars, ctx, closed, callVars, acked>>

\* `_default` streams await COUNT(*) to report it as the start offset.
CountRows(c) ==
  /\ pc[c] = "meta"
  /\ ~Explicit(dest[c])
  /\ pc' = [pc EXCEPT ![c] = "counted"]
  /\ UNCHANGED <<streamVars, dbVars, dest, rowNo, connVars, callVars, acked>>

\* Nothing awaits between the offset check and the first exec().
Admitted(c) ==
  \/ pc[c] = "meta" /\ Explicit(dest[c]) /\ OffsetMatches(c)
  \/ pc[c] = "counted"

\* A row that does not decode, or no writer schema yet: the request fails.
RejectMessage(c) ==
  /\ Admitted(c)
  /\ EndMessage(c)
  /\ closed' = closed \cup {c}
  /\ UNCHANGED <<streamVars, dbVars, ctx, callVars, acked>>

\* Mutant of Acknowledge: one row more than was sent.
AcknowledgeOneMore(c) ==
  acked' = acked \cup RowSet(dest[c], msg[c].lo, msg[c].lo + msg[c].n + 1)

\* appendResult carries the offset, unless nobody listens any more.
Acknowledge(c) ==
  acked' = IF c \in closed THEN acked
           ELSE acked \cup RowSet(dest[c], msg[c].lo, msg[c].lo + msg[c].n)

\* Mutant of Written: the offset counts messages, not rows.
WrittenOnce(c) == 1

\* What appendOneRequest returns and the offset moves by.
Written(c) == msg[c].n

\* BUFFERED and PENDING: buffered and counted in one go.
BufferAppend(c) ==
  LET s == dest[c] IN
  /\ Admitted(c)
  /\ ~Immediate(s)
  /\ buffer' = [buffer EXCEPT
                  ![s] = @ \o RowsOf(s, msg[c].lo, msg[c].lo + msg[c].n)]
  /\ offset' = [offset EXCEPT ![s] = @ + Written(c)]
  /\ EndMessage(c)
  /\ Acknowledge(c)
  /\ UNCHANGED <<type, state, flushed, dbVars, ctx, closed, callVars>>

\* COMMITTED and `_default`: one INSERT per row, the first ...
InsertFirst(c) ==
  /\ Admitted(c)
  /\ Immediate(dest[c])
  /\ Exec(c, RowsOf(dest[c], msg[c].lo, msg[c].lo + msg[c].n), 1)
  /\ UNCHANGED <<streamVars, copies, bound, dest, connVars, callVars, acked>>

\* ... and each further one when the INSERT before it has resolved.
InsertNext(c) ==
  /\ pc[c] = "ran"
  /\ rowNo[c] < msg[c].n
  /\ Exec(c, RowsOf(dest[c], msg[c].lo, msg[c].lo + msg[c].n),
          rowNo[c] + 1)
  /\ UNCHANGED <<streamVars, copies, bound, dest, connVars, callVars, acked>>

\* The stream's offset moves when all rows of the message are inserted.
FinishAppend(c) ==
  LET s == dest[c] IN
  /\ pc[c] = "ran"
  /\ rowNo[c] = msg[c].n
  /\ IF Explicit(s)
       THEN /\ offset' = [offset EXCEPT ![s] = @ + Written(c)]
            /\ flushed' = [flushed EXCEPT ![s] = offset[s] + Written(c)]
       ELSE UNCHANGED <<offset, flushed>>
  /\ EndMessage(c)
  /\ Acknowledge(c)
  /\ UNCHANGED <<type, state, buffer, dbVars, ctx, closed, callVars>>

\* An INSERT that throws fails the call; rows inserted before it stay.
FailAppend(c) ==
  /\ pc[c] = "threw"
  /\ EndMessage(c)
  /\ closed' = closed \cup {c}
  /\ UNCHANGED <<streamVars, dbVars, ctx, callVars, acked>>

(***************************************************************************)
(* FlushRows.  A call that is refused (wrong type, no such stream, offset  *)
(* beyond the appended end) or that asks for what is flushed already       *)
(* changes nothing: it is a stuttering step.                               *)
(***************************************************************************)

\* Mutant of InRange: FlushRows past the appended end is not refused.
InRangeOrBeyond(s, target) == target > flushed[s]

InRange(s, target) == target > flushed[s] /\ target <= offset[s]

FlushRows(k, s, target) ==
  /\ pc[k] = "idle"
  /\ type[s] = "BUFFERED"
  /\ state[s] \in {"ACTIVE", "FINALIZED"}
  /\ InRange(s, target)
  /\ Alone(k, {s})
  /\ dest' = [dest EXCEPT ![k] = s]
  /\ upto' = [upto EXCEPT ![k] = target]
  /\ size' = [size EXCEPT ![k] = target - flushed[s]]
  /\ Exec(k, buffer[s], 1)
  /\ UNCHANGED <<streamVars, copies, bound, connVars, todo, held, acked>>

\* The loop reads runtime.buffer anew for every row.
FlushNext(k) ==
  /\ pc[k] = "ran"
  /\ type[dest[k]] = "BUFFERED"
  /\ rowNo[k] < size[k]
  /\ Exec(k, buffer[dest[k]], rowNo[k] + 1)
  /\ UNCHANGED <<streamVars, copies, bound, dest, connVars, callVars, acked>>

\* Mutants of Unflushed: one row too few, one too many taken from the buffer.
UnflushedAndOne(s, n) == SubSeq(buffer[s], n, Len(buffer[s]))
UnflushedLessOne(s, n) == SubSeq(buffer[s], n + 2, Len(buffer[s]))

\* buffer.slice(n)
Unflushed(s, n) == SubSeq(buffer[s], n + 1, Len(buffer[s]))

FlushDone(k) ==
  LET s == dest[k] IN
  /\ pc[k] = "ran"
  /\ type[s] = "BUFFERED"
  /\ rowNo[k] >= size[k]
  /\ buffer' = [buffer EXCEPT ![s] = Unflushed(s, size[k])]
  /\ flushed' = [flushed EXCEPT ![s] = upto[k]]
  /\ EndCall(k)
  /\ UNCHANGED <<type, state, offset, dbVars, connVars, upto, size, held, acked>>

(***************************************************************************)
(* BatchCommitWriteStreams.                                                *)
(***************************************************************************)

\* The array call k iterates.
Iterated(k) == IF held[k] = << >> THEN buffer[dest[k]] ELSE held[k][1]

\* Other commits that iterate the buffers of the streams S, about to be
\* replaced, keep the arrays they have.
Freeze(k, S) ==
  held' = [j \in Calls |->
             IF j # k /\ Active(j) /\ dest[j] \in S
               THEN <<Iterated(j)>>
               ELSE IF j = k THEN << >> ELSE held[j]]

\* Without an await: the streams of `now` end up committed, those of `rest`
\* whose buffer is empty and that come before the next full one in the
\* request as well, and the insertion of that full one begins.
CommitAndGoOn(k, now, rest) ==
  \E empties \in SUBSET {s \in rest : buffer[s] = << >>} :
    LET S == now \cup empties IN
    /\ state' = [s \in Targets |-> IF s \in S THEN "COMMITTED" ELSE state[s]]
    /\ flushed' = [s \in Targets |-> IF s \in S THEN offset[s] ELSE flushed[s]]
    /\ buffer' = [s \in Targets |-> IF s \in S THEN << >> ELSE buffer[s]]
    /\ Freeze(k, S)
    /\ \/ /\ empties = rest
          /\ EndCall(k)
          /\ UNCHANGED arg
       \/ \E s \in rest :
            /\ buffer[s] # << >>
            /\ dest' = [dest EXCEPT ![k] = s]
            /\ todo' = [todo EXCEPT ![k] = (rest \ empties) \ {s}]
            /\ Exec(k, buffer[s], 1)

\* Mutant of Committable: ACTIVE streams are committed too.
CommittableUnfinalized(s) == type[s] = "PENDING"

Committable(s) == type[s] = "PENDING" /\ state[s] = "FINALIZED"

\* Streams that are not PENDING and FINALIZED are reported and left out;
\* the others are committed all the same.
BatchCommit(k, names) ==
  LET targets == {s \in names : Committable(s)}
  IN  /\ pc[k] = "idle"
      /\ targets # {}
      /\ Alone(k, targets)
      /\ CommitAndGoOn(k, {}, targets)
      /\ UNCHANGED <<type, offset, copies, bound, connVars, upto, size, acked>>

\* for (const params of runtime.buffer): the iterator sees what is pushed
\* onto the array in the meantime.
CommitNext(k) ==
  /\ pc[k] = "ran"
  /\ type[dest[k]] = "PENDING"
  /\ rowNo[k] < Len(Iterated(k))
  /\ Exec(k, Iterated(k), rowNo[k] + 1)
  /\ UNCHANGED <<streamVars, copies, bound, dest, connVars, callVars, acked>>

CommitStreamDone(k) ==
  /\ pc[k] = "ran"
  /\ type[dest[k]] = "PENDING"
  /\ rowNo[k] >= Len(Iterated(k))
  /\ CommitAndGoOn(k, {dest[k]}, todo[k])
  /\ UNCHANGED <<type, offset, copies, bound, connVars, upto, size, acked>>

\* An INSERT that throws ends the call with INTERNAL; what was inserted stays
\* and neither the buffer nor the stream's state is touched.
FailCall(k) ==
  /\ pc[k] = "threw"
  /\ EndCall(k)
  /\ UNCHANGED <<streamVars, dbVars, connVars, upto, size, held, acked>>

-----------------------------------------------------------------------------
\* A handler that has started goes on until it has answered.
ContinueAppend(c) ==
  \/ SkipAppend(c) \/ CountRows(c) \/ RejectMessage(c) \/ BufferAppend(c)
  \/ InsertFirst(c) \/ InsertNext(c) \/ FinishAppend(c) \/ FailAppend(c)
ContinueCall(k) ==
  \/ FlushNext(k) \/ FlushDone(k) \/ CommitNext(k) \/ CommitStreamDone(k)
  \/ FailCall(k)

Next ==
  \/ \E s \in Targets :
       (\E ty \in Types : CreateWriteStream(s, ty)) \/ FinalizeWriteStream(s)
  \/ \E h \in Handlers : Bind(h) \/ Run(h)
  \/ \E c \in Conns :
       \/ \E s \in Uses[c], lo \in 0..LogLen, n \in Batches : Receive(c, s, lo, n)
       \/ \E s \in Uses[c] : RefuseContext(c, s)
       \/ Disconnect(c)
       \/ ContinueAppend(c)
  \/ \E k \in Calls :
       \/ \E s \in Targets, target \in 1..LogLen : FlushRows(k, s, target)
       \/ \E names \in SUBSET Targets : BatchCommit(k, names)
       \/ ContinueCall(k)

\* The event loop and the worker threads run what is ready; clients may stop.
Fairness ==
  /\ \A h \in Handlers : WF_vars(Bind(h)) /\ WF_vars(Run(h))
  /\ \A c \in Conns : WF_vars(ContinueAppend(c))
  /\ \A k \in Calls : WF_vars(ContinueCall(k))

Spec == Init /\ [][Next]_vars /\ Fairness
-----------------------------------------------------------------------------
(***************************************************************************)
(* Properties.                                                             *)
(***************************************************************************)

TypeOK ==
  /\ type \in [Targets -> Types \cup {"NONE"}]
  /\ state \in [Targets -> {"NONE", "ACTIVE", "FINALIZED", "COMMITTED"}]
  /\ offset \in [Targets -> Nat]
  /\ flushed \in [Targets -> Nat]
  /\ buffer \in [Targets -> Seq(Row)]
  /\ copies \in [Row -> Nat]
  /\ bound \in [{TableOf[s] : s \in Targets} -> Row \cup {NoRow}]
  /\ arg \in [Handlers -> Row \cup {NoRow}]
  /\ pc \in [Handlers -> Steps]
  /\ dest \in [Handlers -> Targets \cup {NoStream}]
  /\ rowNo \in [Handlers -> Nat]
  /\ msg \in [Conns -> [lo : Nat, n : Nat]]
  /\ ctx \in [Conns -> SUBSET Targets]
  /\ closed \in SUBSET Conns
  /\ upto \in [Calls -> Nat]
  /\ size \in [Calls -> Nat]
  /\ todo \in [Calls -> SUBSET Targets]
  /\ held \in [Calls -> Seq(Seq(Row))]
  /\ acked \in SUBSET Row

Buffered(s) == type[s] \in {"BUFFERED", "PENDING"}

\* The comment of WriteStreamRuntime: the buffer holds the rows in
\* [flushedOffset, offset).  Here with their content: the rows at exactly
\* those offsets of the client's data, for a client that sets offsets,
\* whatever number of connections resend the same messages.
BufferIsLog ==
  \A s \in Targets \ Unchecked : Buffered(s) =>
    buffer[s] = RowsOf(s, flushed[s], offset[s])

\* The same for PENDING streams alone, where it does not depend on how many
\* BatchCommitWriteStreams calls overlap.
PendingBufferIsLog ==
  \A s \in Targets \ Unchecked : type[s] = "PENDING" =>
    buffer[s] = RowsOf(s, flushed[s], offset[s])

\* The handler that inserts rows of stream s, if there is one.
Inserts(h, s) == pc[h] \in {"preparing", "running", "ran", "threw"} /\ dest[h] = s
\* Rows the loop of handler h has inserted.
Progress(h) == IF pc[h] = "ran" THEN rowNo[h] ELSE rowNo[h] - 1
Inserted(s) ==
  flushed[s] + (IF \E h \in Handlers : Inserts(h, s)
                  THEN Progress(CHOOSE h \in Handlers : Inserts(h, s)) ELSE 0)

\* Readers of the table see each row of an explicit stream once, and see
\* exactly those the stream counts as flushed and those the INSERT loop in
\* progress has inserted, in order: nothing lost, doubled or early.
VisibleOnce ==
  \A s \in Targets \ Unchecked : Explicit(s) =>
    \A p \in 1..LogLen : copies[<<s, p>>] = IF p <= Inserted(s) THEN 1 ELSE 0

\* A row that AppendRows acknowledged is in the table, or in the buffer of
\* its BUFFERED or PENDING stream.
AckedKept ==
  \A r \in acked :
    \/ copies[r] > 0
    \/ /\ Buffered(r[1])
       /\ \E j \in 1..Len(buffer[r[1]]) : buffer[r[1]][j] = r

\* No reader sees a row of a PENDING stream before FinalizeWriteStream, and
\* so before a BatchCommitWriteStreams that had the right to show it.
PendingHidden ==
  \A r \in Row :
    type[r[1]] = "PENDING" /\ state[r[1]] \in {"NONE", "ACTIVE"} => copies[r] = 0

\* A stream never counts more rows as visible than were appended, also when
\* flushes, commits and appends of several clients overlap.
FlushedWithinOffset == \A s \in Targets : flushed[s] <= offset[s]

\* COMMITTED is terminal, FINALIZED never goes back to ACTIVE, and the offset
\* clients synchronise on never moves backwards.
Lifecycle ==
  [][\A s \in Targets :
       /\ state[s] = "COMMITTED" => state'[s] = "COMMITTED"
       /\ state[s] = "FINALIZED" => state'[s] # "ACTIVE"
       /\ offset'[s] >= offset[s]]_vars

\* COMMITTED streams, "exactly-once with offset enforcement": for a client that
\* sets offsets, whatever it resends, no row is in the table twice.
CommittedExactlyOnce ==
  \A r \in Row : type[r[1]] = "COMMITTED" /\ r[1] \notin Unchecked => copies[r] <= 1

\* FINALIZED, "no more appends accepted": when FinalizeWriteStream was called
\* and no message for the stream is in hand, its offset stays what it is.
Quiescent(s) == state[s] = "FINALIZED" /\ \A c \in Conns : dest[c] # s
FinalizedIsClosed ==
  \A s \in Targets, n \in 0..LogLen :
    [](Quiescent(s) /\ offset[s] = n => [](offset[s] = n))

\* Every message and every call that was taken up is answered.
Answered == \A h \in Handlers : Active(h) ~> ~Active(h)

(***************************************************************************)
(* The streams implement the abstract log.  A COMMITTED stream accepts the *)
(* rows of a message when it inserts the first of them.                    *)
(***************************************************************************)
LogStreams == {s \in Targets \ Unchecked : Explicit(s)}
Accepted(s) ==
  offset[s] + (IF \E c \in Conns : Inserts(c, s)
                 THEN msg[CHOOSE c \in Conns : Inserts(c, s)].n ELSE 0)

Log == INSTANCE StreamLog WITH
  Streams <- LogStreams,
  accepted <- [s \in LogStreams |-> Accepted(s)],
  visible <- [s \in LogStreams |-> [p \in 1..LogLen |-> copies[<<s, p>>]]],
  hidden <- {s \in LogStreams : type[s] = "PENDING"},
  sealed <- {s \in LogStreams : state[s] \in {"FINALIZED", "COMMITTED"}},
  reported <- [s \in LogStreams |-> flushed[s]]

\* Exactly-once, in-order delivery as StreamLog states it.
ImplementsStreamLog == Log!Spec
=============================================================================
