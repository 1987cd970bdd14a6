# A formal model of bigquery-local

`bigquery-local` is an emulator of the Google BigQuery REST and gRPC APIs in one
Node.js process, on **one DuckDB connection**. This directory holds TLA+
specifications of its parts, TLC configurations that check them on small
instances, and TLAPS proofs of what matters most for every instance. Every
definition is translated from the source under `src/`; `PROJECT.json` maps each to
its lines.

Why a model: every request handler is an `async` function, they all share the
connection, the metadata tables and some in-memory state, and *every `await` is a
point where any other handler may run*. The unit tests send one request after the
other. What goes wrong here needs two of them at once, or a failure between two
awaits.

## Inventory

| Component | State it keeps | Operations | Shares with others |
|---|---|---|---|
| **Storage Write API** `grpc-impl/bigQueryWrite.ts`, `writeStreamStore.ts` | per stream: type, state, `offset`, `flushedOffset`, `buffer`; per connection: a context per stream, the chain of pending messages, `closed` | CreateWriteStream, AppendRows (bidirectional), FinalizeWriteStream, FlushRows, BatchCommitWriteStreams | destination tables, prepared INSERTs, table metadata (schema and etag) |
| **Database layer** `storage/db.ts` | the connection, the cache of prepared statements, close hooks | exec, query, prepare().exec/all, close | everything |
| **Storage Read API** `grpc-impl/bigQueryRead.ts`, `sessionStore.ts` | sessions: row ranges fixed at creation | CreateReadSession, ReadRows | tables it reads *later* than the ranges were computed |
| **insertAll, tabledata.list** `routes/tabledata.ts` | window of insertIds per table | insertAll (a transaction on the shared connection), list | connection's transaction state, query cache |
| **Jobs** `routes/jobs.ts`, `routes/queries.ts`, `meta.ts` | job rows, result rows | insert, get, list, cancel, delete, result pages | written by query engine and load/extract/copy jobs |
| **Query engine** `sql/queryEngine.ts` | the query cache, registered functions | SELECT, DML, DDL, scripts, procedures, materialized views | connection, metadata, jobs |
| **Metadata** `storage/meta.ts`, `routes/tables.ts`, `datasets.ts`, `routines.ts`, `models.ts` | rows in `_bq.*` tables with etags | insert, get, list, patch, update, delete with `If-Match` | the DuckDB tables they describe |
| **Load, extract, copy** `load/*` | none of their own | one job each | tables, metadata, jobs, query cache |
| **Scripting** `sql/script.ts` | variables of one script | statements, loops, CALL, EXECUTE IMMEDIATE | the query engine |
| **SQL translation** `sql/translate.ts`, `tokenize.ts`, `ddl.ts`, `rewrite/*` | none | text to text | |
| **Types and encodings** `storage/types.ts`, `grpc-impl/arrow*.ts`, `avro*.ts`, `protoRows.ts` | none | value to value | |
| **Server** `server.ts`, `router.ts`, `cli.ts`, `seed.ts`, `grpc.ts` | the listening socket | dispatch a request to its handler | |

What makes each correct, and what is hard about it:

* *Write API*: an acknowledged row becomes visible exactly once, in order, and not
  before the stream type allows it. Hard: two connections on one stream, flushes
  and commits that overlap, a failing INSERT in the middle of a message, a client
  that leaves, a stream finalized under an open connection.
* *Database layer*: a statement runs with the parameters its caller bound. Hard:
  the cached statement is shared and executed by a worker thread.
* *Read API*: the streams of a session partition the rows. Hard: integer division
  of ranges; rows that change between creation and reading.
* *insertAll*: all rows or none, an `insertId` counts once, a retry after a failure
  is not swallowed. Hard: one transaction state for all requests.
* *Jobs and cache*: a job ends once, a DONE job has its rows, a cached result is
  never older than the last write. Hard: writes between a query's awaits.
* *Metadata*: metadata and table agree, a conditional update never overwrites what
  it did not see. Hard: check and write are two awaits, and no handler opens a
  transaction, so failures and crashes stop it half way.
* *Scripts*: a script computes what its text means, ends when it should, and leaves
  nothing behind when it fails. Hard: the text is cut and rewritten token by token,
  control leaves nested bodies by exceptions, and the transaction is everybody's.
* *DDL*: the target of a statement is read out of the right words.
* *Load, copy, materialized views*: delete-and-insert sequences without
  transaction.

`PROJECT.json` lists these hazards one by one, at their lines.

## Modules

| Module | Models | Composed with | Proofs |
|---|---|---|---|
| **WriteStreams** | Storage Write API, prepared statements | refines the abstract **StreamLog** | `WriteStreamsProofs`, `WriteStreamsDelivery` |
| **ReadSessions** | Storage Read API | | `ReadSessionsProofs` |
| **InsertIds**, **InsertAll** | the window of insertIds; insertAll and scripts' transactions on the shared connection | InsertAll EXTENDS InsertIds | `InsertAllProofs` |
| **Jobs** | job rows, result rows and pages, query cache, load, copy and extract jobs, tabledata.list, crashes | executeQuery, the movers, the readers and the other writers share tables, jobs and cache | `JobsProofs`, `JobsSafety` |
| **Catalog** | tables, datasets, routines, models: their rows, projections, the DuckDB side, crashes | routes and DDL statements share both sides | `CatalogProofs` |
| **SqlTokens**, **ScriptTypes**, **Ddl** | token walks, SQL types, the DDL parsers | Script EXTENDS them | |
| **ScriptSyntax** | the script parser | MCScript gives it to Script as its `Program` | |
| **Script** | the script interpreter and its transactions on the shared connection | compared with **ScriptMeaning** in MCScript | `ScriptProofs` |

`MC*` modules hold instances, each `.cfg` one run.

Proof modules EXTEND the module they are about. Each begins with the types, which say for every
request where it can be and what its locals hold there; invariants that need
more are built on them, one lemma per action, and the theorems follow.

## WriteStreams

### Correspondence

| Code | Model |
|---|---|
| `WriteStreamRuntime` | `type`, `state`, `offset`, `flushed`, `buffer`, one function each over `Targets` |
| destination tables | `copies[r]`: how many times row `r` is there (tables are bags; their order is not kept) |
| `preparedCache` entry of a table's INSERT | `bound[t]`: what it is bound to |
| a handler suspended at an `await` | `pc[h]`, with its locals `dest`, `rowNo`, `msg`, `upto`, `size`, `todo`, `held` |
| `contexts`, `closed`, `pending` of a connection | `ctx`, `closed`; one message in hand at a time |
| response carrying an offset | history variable `acked` |

A handler is cut exactly at its awaits. `stmt.exec(row)` awaits the prepared
statement (`pc = "preparing"`), then binds and starts it in one task (`Bind`), a
worker thread executes it (`Run`, reading the binding *at that moment*, since the
statement object is shared), and the handler goes on (`"ran"` or `"threw"`). What
is synchronous in the code is one action in the model: the offset check up to the
first `exec`, the whole of a buffered append, `FinalizeWriteStream`, the end of one
stream's commit up to the first row of the next.

Row `p` of a client's data for stream `s` is `<<s, p>>`. A client that sets
offsets sends row `p` at offset `p - 1`, *whatever it resends, over however many
connections*. `Unchecked` streams are those whose clients leave the offset unset.

`for (const row of runtime.buffer)` iterates the array it started with and sees
what is pushed meanwhile; `runtime.buffer = []` leaves it iterating the old array.
`held` keeps that old array (`Freeze`), while FlushRows indexes `runtime.buffer`
anew each time and may read `undefined`, which binds nothing.

### Two regimes

`OneWriter = TRUE` is a discipline of the *clients*: they keep at most one call
that inserts into a table open at a time (buffered appends, finalize and create
calls may overlap with it freely). It is what the repository's own tests and
client libraries do, and what the strong properties need. `OneWriter = FALSE`
drops it: everything may overlap. What survives is stated and proved separately;
what does not is the `resend` run.

### Runs

| Run | Instance | Shows |
|---|---|---|
| `one_writer` | 1 stream of any type, 2 connections, 2 flush/commit calls, 3 rows, messages of 1 or 2 rows, resends | TypeOK, BufferIsLog, VisibleOnce, AckedKept, the refinement ImplementsStreamLog, and Answered |
| `many_writers` | 2 explicit streams and the default stream of one table, 1 multiplexing connection, 2 overlapping calls, messages of 2 rows, the second of which the table rejects | PendingHidden, PendingBufferIsLog, FlushedWithinOffset, Lifecycle |
| `resend` | 2 connections, 1 stream, no discipline | **violated**: CommittedExactlyOnce |
| `finalized` | 1 connection, 1 stream | **violated**: FinalizedIsClosed |

* `BufferIsLog`: the buffer holds the rows at exactly the offsets
  `[flushedOffset, offset)`, the claim of the comment in `writeStreamStore.ts`.
* `VisibleOnce`: a reader sees the rows counted as flushed and those the INSERT
  loop in progress has reached, once each.
* `AckedKept`: no acknowledged row is lost.
* `PendingHidden`: a PENDING row is never visible before finalization.
* `Lifecycle`: what a step may never do to states and offsets.
* `ImplementsStreamLog`: the streams refine `StreamLog`, where rows are accepted,
  exposed one by one in order, and reported.
* `Answered`: every message and call ends.

Findings. (1) A COMMITTED stream checks the offset before it awaits its INSERTs
and moves it afterwards, so two connections resending one message both write it,
against "exactly-once with offset enforcement" (`writeStreamStore.ts:10-12`).
(2) A stream's state is looked at only on a connection's first message, so a
connection goes on appending after FinalizeWriteStream, against "no more appends
accepted" (`writeStreamStore.ts:19-20`).

### Bounds

`LogLen` (rows per client), `Batches` (message sizes), `Uses` (who writes where)
and `MaxCopies` (when a client stops resending) bound the clients, not the
program. `Calls` are one-shot. Three rows with messages of one and two make every
split of a log into messages and flushes, a replay behind and a gap ahead of the
offset, and a loop that is first, middle and last; two connections and two calls
are the smallest overlap there is, and each mutant of `PROJECT.json` is caught
within these bounds. In `many_writers` one connection suffices because the
overlaps asked about are those of calls with an append and with each other; the
proofs below cover any number. Deadlock is not checked: clients may stop, and
calls run out.

### Fairness

Weak fairness of `Bind`, `Run`, `ContinueAppend` and `ContinueCall`: the event loop
runs every settled promise and DuckDB's worker threads execute what is started.
Nothing a client decides is fair.

### Proofs

`WriteStreamsProofs.tla` proves `TypeCorrect` and what holds of buffers and
pending rows, `WriteStreamsDelivery.tla` what readers see, from
`ParametersAssumption` alone (plus `OneWriter` and `BadRows = {}` where named), for any sets
of streams, tables, connections and calls and any data.

* `PendingHiddenAlways`, `PendingBufferAlways`, `FlushedWithinOffsetAlways`: without
  any client discipline. The invariants are not inductive alone: a PENDING row
  could reach the table from the statement's binding, from a row handed to
  `exec()`, from a buffer of another stream, or from a commit call. `SafeInv` adds
  that a stream without a type has nothing (`Created`), which handlers insert what
  (`AppendWork`, `CallWork`), that arrays hold rows of their own stream (`OwnRows`)
  and that the rows of an unfinalized PENDING stream are neither bound nor passed
  (`Hidden`).
* `BufferAlways` assumes `OneWriter`. `LogInv` adds, for a flush in hand, that its
  `toFlush` still is the distance from `flushedOffset` to its target
  (`FlushInHand`): what another overlapping flush would break.
* `LifecycleAlways` follows from `SafeInv` step by step.

* `AckedKeptAlways` assumes `OneWriter`, and holds whatever rows the table rejects.
* `VisibleOnceAlways` and `ImplementsAlways` (the refinement of `StreamLog`) assume `OneWriter`
  and that no row is rejected (`BadRows = {}`), as does the run: a message whose second row is
  rejected leaves its first one in the table, and the client that corrects and resends
  it stores that row twice. Rows are visible either because they are counted or because the one
  INSERT loop at work has passed them; `LoopInv` says where that loop is in its message
  or buffer, `OnceInv` that a row is visible once exactly if it is counted or
  passed. Each step of a loop is then one `Expose` of the abstract log, the end of a
  message its `Report`, and everything else an acceptance or a stutter.

The step lemmas follow the actions, one per handler step. Model-checked only: `Answered`
(liveness under fairness is out of the prover's reach).

### Left out

Messages without rows and streams' schema refresh (the schema is data: rows buffered
under an older schema, which a later INSERT of another width refuses, are not
distinguished from rows the table rejects), a failing `prepare` (the rejected promise
stays cached; it takes a table dropped under an open stream), a BatchCommitWriteStreams that
names one stream twice, the value `_default` appends report as row count, the
order of rows in a table, and time stamps.

## ReadSessions

A session fixes `streamCount` row ranges when it is created (`filtered`, `count`,
and `Start`, `Size` computed from them) and keeps no rows. ReadRows turns a range
and the caller's offset into `ORDER BY rowid LIMIT OFFSET` over the table **as it
is then**. Sessions are immutable and never removed, so one is modelled; each
handler reads the table in one query and shares nothing else, so each is one
action. `rows` are the rows that satisfy the session's restriction, a row being
its rowid; `Rank` is its place among them. Division in the code is of doubles: with
fewer than 2^53 rows its floor is that of `\div`.

A reader (`got`, `pos`) receives the whole answer (`ReadRows`) or the rows of its
first messages before its connection breaks (`ReadRowsCut`), then asks again from
`pos`; it may read its stream again from the beginning (`Restart`). `snapshot`,
`intact` and `answers` are history variables.

| Run | Instance | Shows |
|---|---|---|
| `readers` | up to 4 rows, `max_stream_count` 0, 2, 3 or 9, messages of 2 rows, deletions | NonOverlapping, Complete and RepeatableWhileIntact as long as no row was deleted since the session was created; NoEmptySlice and WithinSlice always |
| `repeatable` | up to 3 rows, 2 streams, deletions | **violated**: Repeatable |

Four rows give one to four streams, slices with and without a remainder, more
streams than rows, no rows, and a slice of more than one message. `Restart` stops
once two reads of a stream have differed, which bounds `answers`. Deadlock is not
checked: clients stop and the rows run out.

Finding (3): "Reads remain repeatable for the session's lifetime"
(`bigQueryRead.ts:56-58`) holds only while nobody deletes.

Proofs (`ReadSessionsProofs.tla`, from `SessionParametersAssumption`):
`SlicesFollow` and `SlicesCover` say that the ranges partition the rows for every
number of rows and streams. `SessionTypeCorrect`, `NoEmptySliceAlways` and
`WithinSliceAlways` hold with deletions; the last rests on `SelectWithinLimit` (a
query returns at most LIMIT rows, by injectivity of `Rank`) and on `WithinInv`.
`NonOverlappingAlways`, `CompleteAlways` and `RepeatableAlways` hold for every history:
what was deleted before the session was created makes no difference, and `intact` (no
deletion since) is the condition in the properties themselves. Their `IntactInv` says
that then the session's rows are still there and come before all others
(`SnapshotFirst`), so that `Rank` gives each of them the place it had (`RankIsPlace`),
and that the reader of a stream has the rows at the first `pos` places of its slice.
`PlacesTaken` (n rows take the places 1 to n), `PartSize` and `PartsFollow` turn the
arithmetic of places into sets of rows: parts between two places have as many rows as
places, follow one another, and together are the whole.

Left out: refusals (they change no state), the total row count reported to
clients, and the expiry time, which nothing in the code acts on.

## InsertIds and InsertAll

`InsertIds` is the class `InsertIdDedup`: a bucket per table, as the sequence in which
a JavaScript `Map` iterates (setting a key again keeps its place), the bounded sweep,
the check and the eviction, in that order. `InsertAll` EXTENDS it and adds the request
handler, whose `EncodeRows` runs `SeenOrRecord` over all rows without an await.

The database is `committed`, and `work` of the one open transaction, which `owner`
opened. *Every* statement of every request goes to `work` while a transaction is open:
that is what sharing a connection means. The model of DuckDB (external) is: BEGIN
inside a transaction, and COMMIT or ROLLBACK outside one, throw; a failing
statement may abort the open transaction or not; an aborted transaction refuses
everything but its end; COMMIT of an aborted one keeps all of it or nothing, and ends
it. Properties hold under all of these choices, so they do not depend on DuckDB's
version. One action executes a statement and goes on to the next await; the part after
the statement touches only the handler's own state. A request is at one label per
await (`pc`), with `outcome` and `at` its locals. `ReadBase` is the read of the base
table, refusals before it change nothing. A retry is another call with the same body.
The clock (`now`) does not go back.

| Run | Instance | Shows |
|---|---|---|
| `insert_all` | 3 overlapping calls of 5 bodies (both modes; good, refused, unencodable, repeated rows; a template table), 1 script statement, window of 1 tick, 2 entries, sweep of 1 | TypeOK, WindowBounded, AllOrNothing, OncePerId, TransactionsEnd |
| `insert_all_skipping` | 2 calls | **violated**: SkippingKeepsRows |
| `insert_ids_oldest` | 1 table, 3 ids, sweep of 1 | **violated**: OldestFirst |

Two calls make each overlap of transactions, the third is a retry after one of them;
the script statement is one too many or one that ends a call's transaction. The sweep
of the code drops 65 entries and the bucket holds 10000; at 1 and 2 all of sweep, stop,
eviction and setting in place happen. `MaxScripts` and `MaxTime` bound the
environment. Deadlock is not checked: requests are one-shot.

`AllOrNothing` holds although transactions of two requests overlap, since the second
BEGIN throws; scripts, whose COMMIT or ROLLBACK may hit a request's transaction, are
excluded by its condition (`disturbed`).

Findings. (4) Rows of a request with `skipInvalidRows` are lost with another request's
ROLLBACK (`tabledata.ts:21-22` promises them). (5) The comment that the oldest entry
is always first in a bucket (`tabledata.ts:322-323`) fails when an expired id is set
again before the sweep reaches it.

Proofs (`InsertAllProofs.tla`, from `InsertAllAssumption`, for any calls and bodies):
`TransactionsEndAlways` needs `Frame` (who owns the transaction, and that only calls in
their loop do); `AllOrNothingAlways` adds `RowsPlaced`: where the rows of a call are at
each label, in particular that in the loop the open transaction is the call's own and
holds exactly the rows before `at`, and that outside of it nobody else's transaction
holds any.

`OncePerIdAlways`, `WindowBoundedAlways` and `TypeCorrect` go through the windows, also from
`InsertIdsAssumption`. `SweepKeeps`, `SetProperties` and `SeenOrRecordProperties` say what one
insertId makes of a bucket: it stays bounded with distinct ids, no entry that has not expired is
lost unless its id is thrown out, and an id that was not seen had no such entry and has one now.
`AfterRowsRecursion` gets the recursion of `AfterRows` out of its definition (by a least
counterexample, since induction theorems are out of reach) and `AfterRowsProperties` carries
these facts over any number of rows. The invariant `WindowInv` ties them to the calls:
`StoredRows` (what is written was no duplicate), `LoopRows` (the row the loop is at is one to
insert), `WindowKeeps` (the id of a recorded row is in the window until it expires, or thrown
out) and `RecordedOnce`, which is `OncePerId` of all recorded rows, stored or not: `OncePerId` itself
is not inductive, since a row may be written long after its id was checked. That
it holds for every `SweepLimit` shows that finding 5 costs early evictions, never a
duplicate otherwise.

Left out: malformed requests, and failing reads and writes other than those an aborted
transaction causes. tabledata.list and the query cache are in Jobs. That insertIds stay
marked after a failed insert is documented behaviour (`tabledata.ts:309-311`).

## Jobs

One module for everything that reads or writes a job row, because the hazards are
between them: `executeQuery` and its cache, jobs.insert, query, cancel, delete, list and
getQueryResults, load, copy and extract jobs, tabledata.list, and the two other paths
that write rows.

| Code | Model |
|---|---|
| DuckDB tables / `_bq.tables` | `contents[t]`, `exists` / `described` |
| `_bq.jobs`, `_bq.job_rows` | `jobs[j]`, `jobRows` (triples job, index, row; the primary key is `HasRow`) |
| `queryCache` | `cache[t]`, the entry of `SELECT * FROM t` |
| a request at an `await` | `req[r]`: `pc` and its locals |
| a client that polls or pages | the request itself, which asks again until its last page |

An action executes one statement and runs to the next await: RUNNING row, lookup,
execution, DONE row, *then* the result rows one by one, then the cache. A throw of a
query goes past the job row (`Throw`), one of a load, copy or extract job ends the job
as failed (`FailJob`). A row is named after the request that wrote it and its number, so
what a reader got can be compared with what one execution selected. `spoiled`
remembers the tables for which the code itself lets an old result into the cache.
`Crash` ends all requests and empties the cache; the database file keeps what was
executed, half-stored results and RUNNING rows included. Client-chosen job ids may be
sent twice.

Run `jobs`: three requests out of the 26 combinations of MCJobs, two job ids, two
tables, pages of one row, one crash.

* `PagesAreTheResult`: a client that polls until `jobComplete` and follows the tokens
  has the whole result, in order, although DONE is written before the rows and a
  crash may fall between. It holds because `hasMore` compares with the *stored* total:
  a page that is short because rows are missing has a token.
* `RowsOfOneExecution`: stored rows are never a mix of two executions of one id.
* `CacheFresh`: the cache is stale in no other way than those listed there: AppendRows
  does not announce its rows, a load that fails half-way has not yet, DML announces
  before it runs, a SELECT stores some awaits after it has read.
* `RunningMeansRunning`: RUNNING without a request means a query that threw or a crash.
* `ListingMissesNone`: a client that pages through jobs, or through the rows of a table
  counted before each page, sees all that was there when it began.
* `JobsEnd`, `PollingEnds`: liveness.

Mixes: `CacheMixes` pair two SELECTs with each way to write a table, `ResultMixes` a
polling client with each thing that can happen to its job, `EndMixes` cancel and delete
under runners, `RetryMixes` one id sent twice with the table replaced in between,
`DestinationMixes` two jobs creating or filling one destination, `ListMixes` readers under
creators and removers. Every property needs at most two actors against a third, and
two rows make a page boundary inside a result.

Fairness: weak, per request that has begun: node runs its continuations until it has
answered. Nothing makes a client begin. Deadlock is not checked: requests are one-shot.

In the model but in no property, since nothing in the repository promises otherwise: two
WRITE_EMPTY jobs that both find the table empty and both succeed (`load.ts:362`,
`copy.ts:105`); a copy and a Parquet extract report the rows counted after the fact
(`copy.ts:145`); a job deleted while it runs comes back (`jobs.ts:931`).

Proofs (from `JobsAssumption`, for any requests, jobs, tables, results, page size and number
of crashes). `JobsProofs.tla`: `TypesAlways` with, for each await, the kinds of request that get
there (`AtHome`), the primary key of `_bq.job_rows` and that a reader has a job in hand
between its two reads; `RunningAlways` from `RunInv`, which says who will end each RUNNING job.
`JobsSafety.tla`: `RowsInv` (the stored rows of a job nobody deletes are what *one* SELECT has
stored so far: of several only one gets past its first row, by the primary key) gives
`RowsOfOneExecutionAlways`; `CacheInv` (an old cached result, or an execution that will
cache one, only where history has it, or a writer has yet to announce its rows) gives
`CacheFreshAlways`; `PagesInv` (the pages a client has are the stored rows before its offset,
and the job it has seen is DONE with that result) gives `PagesAreTheResultAlways`; `ListsInv`
gives `ListingMissesNoneAlways`. Model-checked only: `JobsEnd` and `PollingEnds` (liveness).

Left out: malformed bodies, formats and their parsing, schema inference
(`autodetect.ts`), the values of query parameters, the wire encoding of rows.

## Catalog

`row[n]` is the row of a dataset, table, routine or model in `_bq.*`, `columns` and `paths` the
projections INFORMATION_SCHEMA reads, `schemas` and `duck[n]` what DuckDB has. A request
(REST handler or DDL statement) is cut at its awaits; there are no transactions, so
others run between any two statements and a crash keeps what was executed. Creators
look, create in DuckDB, DESCRIBE, and upsert; an upsert reads the row again, checks
If-Match, writes, and refreshes the projections one statement per column and path;
deletes run the other way round. `Extends` is the comparison of a PATCH's schema with the
old one, `Merged` the row a PATCH writes, which has no view query. An etag is a hash of
the row, so the row stands for it; a client that sends If-Match has read the row first
(`Get`). An id is *settled* when no request is at work on it, no two ever overlapped on it
(except creators that do not replace, whose race must be harmless) and none that had
changed something stopped half way; `mixed` and `dirty` are the histories behind that. A PATCH
that stops while it adds columns is no excuse, nor is one that fails while it writes, unless
its schema has a name twice (`Stopped`).

Run `catalog`: three requests out of 162 combinations over one dataset, three tables (one
exists), a routine and a model, one crash.

* `DescribedIsThere`, `NothingLeftBehind`: rows and DuckDB agree both ways, through creators
  racing for a name and PATCHes refused after they altered the table.
* `ProjectionsFollow`: the projections are those of the row.
* `MvHoldsItsRows`: no refresh leaves a materialized view empty or doubled.
* `ListMissesNone`: lists, paged by offset, miss nothing but for removals.
* `NoLostUpdate` (action property): a conditional write without overlap overwrites
  exactly what its client read.

Most conditions name a discipline (no overlap on that id, no crash there). Without
it the properties fail, as they must for code without transactions; the hazards in
`PROJECT.json` say where. What is shown is that nothing *else* breaks them: other ids'
requests, races of creators, failed requests that had changed nothing, refused PATCHes.

Mixes: a table is made, changed and removed in every combination of 4 makers, 7 changers
and 4 removers; creators race; clients with If-Match overlap on a table, a model and a
dataset; refreshes; schemas dropped and made again with their contents; routines; lists. One
STRUCT column gives a nested path, two added columns a PATCH that fails at its second.

No fairness: the module states safety only. Deadlock is not checked: requests are
one-shot.

Proofs (`CatalogProofs.tla`, from `CatalogAssumption` and `StartAssumption`, for any names,
requests, start and number of crashes). `CatalogAssumption` says that datasets, tables,
routines and models are told apart, `StartAssumption` that the server starts with tables as it
leaves them. `TypeInv` says of each kind of request at which awaits it can be before and
after its first change (`Early`, `Late`). `MixedInv` (of two requests at work on one id
both are careful creators, or the id is in `mixed`) gives, with `HeldInv`,
`NoLostUpdateAlways`; `ListInv` gives `ListMissesNoneAlways`; `DatasetInv` names the request that
owes a dataset its schema or the removal of its row. The four properties of tables follow
from `TableInv`: at most one request is in the middle of changing an undamaged table, the table
is as far as that one has come (`Stage`: what is built, which columns and paths are
there), and consistent when there is none (`Consistent`). It is needed because projections are
rewritten one by one, so that no property of a settled table is kept by single steps; and
`Prepared`, since a PATCH writes what it read some awaits earlier. For each action
one lemma (`Own...`) shows that the request at work brings its table to the next stage,
`Beside` that other requests do not touch it: those that would are in `mixed` or careful
creators, which DuckDB refuses. `TableCrash` shows that a crash spoils only what was in the
middle.

In the model but in no property: after a PATCH a materialized view cannot be refreshed
(`tables.ts:770`); CREATE FUNCTION IF NOT EXISTS keeps the macro and overwrites the row
(`queryEngine.ts:1408`).

Left out: labels and other attributes but one text, access lists, partitioning and
clustering as data (a PATCH that changes them is `"repartition"`), the
INFORMATION_SCHEMA views themselves, `projects.ts`.

## Script, ScriptTypes, ScriptSyntax, Ddl, SqlTokens

A text is a sequence of tokens, strings whose characters do not matter. `SqlTokens` has the
walks that both parsers share (ends of statements and blocks found by *counting words*,
brackets, lists, dotted names), with the code's exact idea of what opens and closes.
`ScriptSyntax` is the parser of `script.ts` (statement list, DECLARE, SET, IF, loops, CASE-free
blocks, EXECUTE IMMEDIATE, CALL); a text it throws on is `<<Bad>>`. Script knows the parser only
as its constant operator `Program`, which the run defines as `ParseTokens` of ScriptSyntax:
what is proved of the interpreter holds for any parser. `ScriptTypes` has the names of types
and what both need. `Ddl` is `detectStatementType` and
the parsers of `ddl.ts`; their result is what the statement is about. Expressions, row
statements and transactions are evaluated by a small stand-in for DuckDB
(`Eval`, `Execute`, external).

`Script` runs a request: the classification picks query, DDL or script; a script is parsed
whole, then interpreted with an explicit `stack` of frames (the code's recursion), `scope`
(variables and FOR rows) and `result`. Each action is what happens between two answers of
DuckDB. BREAK, CONTINUE and RETURN unwind the stack as the code's exceptions do; a procedure
has a scope of its own. Before a statement is run each name that is a variable is replaced by
a placeholder, token by token, following the code's rules for what is a column, an alias or a
list item (`Replaceable`). `db` is the shared connection: `base`, `work` and who has the open
transaction `tx`. A script that fails rolls back in a step of its own (`RollBack`),
whoever opened the transaction. Whether a failed statement aborts an open transaction is
DuckDB's affair, so either may be (`Shaken`).

Run `script` (11 000 states): about 900 texts.

* `EndsAsMeant`: what a request ends with is what its text means. For 245 programs of nested
  IF, LOOP, WHILE, REPEAT, FOR, blocks, BREAK, CONTINUE and RETURN the meaning is *computed* by
  `ScriptMeaning`, a second definition on trees without tokens or stack; for the rest (SET from
  queries, EXECUTE IMMEDIATE with parameters, CALL, scope, aliases, column lists, and all forms of
  CREATE and DROP) it is written beside the text in MCScript. It includes the texts that must fail.
* `FailedLeavesNothing`: a request that failed has no transaction open, and what it wrote in
  one is gone, whatever ran between. It excepts a query of several statements (`Together`): DuckDB
  runs `SELECT 1; BEGIN TRANSACTION; INSERT ...; SELECT y` as one text, which is no script for its first
  word, and when its last statement fails nothing rolls back what it began (`queryEngine.ts:505`).
* `ScriptsEnd` (liveness): every script ends; a turn that ends by CONTINUE tests the condition.
* `TypeOK`: among others, a FOR row is bound only while its loop runs, and an ended
  script has no scope left.

Mixes: `Nested` (generated to two levels of nesting), `Specifics`, `Failing`, `Odd` (texts the
code's word counting misreads, such as IF( or BEGIN TRANSACTION before a block's end: run to
the end, their meaning left open), the DDL texts, `Concurrent` (each of 9 scripts with a
transaction beside each of 13 other requests, statement by statement), `Routined`. Integers go to 6, so
runaway sums overflow and fail as INT64 sums do. Two rows in FOR make a first and a last
turn. Deadlock *is* checked: an unfinished request can always step (`Idle` keeps a finished
instance running).

Fairness: weak for each request, written out with `Unfinished(r)` for ENABLED, which
the absence of deadlock justifies: DuckDB answers every statement.

In the model but in no property: a script that ends well inside a transaction leaves it
open for everybody (`queryEngine.ts:1126`), and the ROLLBACK of a failing script undoes a
transaction somebody else began (1129); IF NOT EXISTS of a view is dropped
(`ddl.ts:199`). CALL BQ.REFRESH_MATERIALIZED_VIEW is in Catalog (`refresh`), not in a script's texts.

### Proofs

`ScriptProofs.tla` proves `TypeCorrect` (`TypeOK`) and `NothingLeft` (`FailedLeavesNothing`)
for any number of requests, any texts, tables and procedures and any parser, from two
assumptions on constants: `Nobody` is no request, and the tables hold sequences of numbers. Of
the statements themselves nothing is assumed: a parser that gave a FOR whose body is not a body
would change what the program does, not what is proved.

Neither property is inductive. `ScriptInv` (also checked by TLC on the instance of the run,
before it was proved) adds:

* `FramesOK`: the script itself is the outermost frame and no other; the scope binds no FOR row but
  those of the FORs around it in the same procedure, *and so does every scope a CALL keeps for
  its caller*, up to the frame the CALL is at. Without the last part a RETURN, or a BREAK that
  leaves procedures on its way to a loop (`Unwound`), could give back a scope whose rows are
  bound for ever. `LeaveToIsOK` is the lemma for all of these: leaving any number of frames gives back the
  scope of the outermost CALL left, without the rows of the FORs left outside of it.
* `DbOK`: what is committed is nobody's, and a row that is not committed belongs to whoever has the
  transaction.
* `MayHold`: only a script that runs or is about to roll back, a request that ended well, and a failed
  query of several statements may have it.

The argument for the database is in `ExecuteIsLawful`: a statement of `r` leaves the transaction
with who has it, begins one for `r`, or ends the one there is, and changes nothing when it fails.
`ExecuteEachIsLawful` carries this over texts of any number of statements (by the least
position where it would fail) and shows that of at most one statement a failure still changes
nothing, which is false of two, hence `Together`. Then one lemma for each action: what goes on
(`GoingKeeps`), fails (`FailsKeeps`), or ends (`EndsKeeps`), where only `RollBack` and
single statements can end as failed, and neither leaves the transaction to the request.

What stays with TLC: `ScriptsEnd`, a liveness property, and `EndsAsMeant`, which compares a parser
and an evaluator with the meaning of given texts, an induction over programs. ScriptSyntax
and ScriptMeaning are RECURSIVE, and only the run uses them.

## Not modelled

* Encodings (`arrow*.ts`, `avro*.ts`, `protoRows.ts`, `storage/types.ts`): value to value, no
  state. Unit tests reach every case; a model would be a transliteration.
* The rewriting of functions and expressions (`translate.ts`, `rewrite/*`): SQL to SQL; its
  property is equality of two dialects' meaning, which is outside of TLC's reach.
* JavaScript functions (`jsUdf.ts`): one synchronous call inside a statement.
* `gcs.ts`: one HTTP request per object; in Jobs a download or upload may fail.
* The servers, the router, the CLI, the client and seeding: dispatch without shared state.
* In `db.ts`: a rejected prepare that stays cached, close and its hooks.

What only TLC checks: liveness everywhere, and `EndsAsMeant` of scripts. Every other invariant,
action property and refinement of the passing runs is proved, under the assumptions its
theorem states.
