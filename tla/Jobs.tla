-------------------------------- MODULE Jobs --------------------------------
(***************************************************************************)
(* Jobs, their stored results and the query cache                          *)
(* (src/src/routes/jobs.ts, src/src/routes/queries.ts, executeQuery of     *)
(* src/src/sql/queryEngine.ts, the jobs part of src/src/storage/meta.ts)   *)
(* together with what load, copy and extract jobs do to tables             *)
(* (src/src/load/).                                                        *)
(*                                                                         *)
(* A request is cut at its awaits: an action executes one statement and    *)
(* goes on to the next await.  Rows are named after the request that wrote *)
(* them.  The database is a file, so a crash loses the requests in flight  *)
(* and the cache but no statement that was executed.                       *)
(***************************************************************************)
EXTENDS Naturals, Sequences, FiniteSets

CONSTANTS
  Requests,   \* HTTP requests, and gRPC writers of tables
  Mixes,      \* bound: what may be asked together: functions from Requests to Body
  Tables,
  JobIds,     \* job ids, chosen by clients or random
  InitTables, \* tables that exist and are described when the server starts
  Seed,       \* who has written their two rows
  PageSize,   \* maxResults of a client that reads results
  MaxCrashes, \* bound
  NoJob, NoEntry

VARIABLES
  contents,   \* [t]: the rows of a DuckDB table, in order
  exists,     \* tables DuckDB has
  described,  \* tables with a row in _bq.tables
  jobs,       \* [j]: the row of _bq.jobs, or NoJob
  jobRows,    \* _bq.job_rows: <<job, index, row>>
  cache,      \* [t]: the queryCache entry of SELECT * FROM t, or NoEntry
  req,        \* [r]: the request's await and its local variables
  spoiled,    \* history: tables of which the cache may have kept old rows
  crashes     \* how often the server has crashed

tableVars == <<contents, exists, described>>
jobVars   == <<jobs, jobRows>>
vars == <<tableVars, jobVars, cache, req, spoiled, crashes>>

Selects  == {"select"}
Dml      == {"insert", "clear"}
Queries  == Selects \cup Dml
Loads    == {"load", "parquet"}
Extracts == {"extract", "extractParquet"}
Movers   == Loads \cup Extracts \cup {"copy"}      \* configuration.load, .copy, .extract
Runners  == Queries \cup Movers
Readers  == {"results", "list", "data"}
Writers  == {"insertAll", "append"}                \* other paths that write rows
Kinds    == Runners \cup Readers \cup Writers \cup {"cancel", "delete", "dryRun"}

Dispositions == {"WRITE_APPEND", "WRITE_TRUNCATE", "WRITE_EMPTY"}

\* What parseJobBody makes of a request.  rows: the rows of a source file, TRUE
\* for one that can be inserted; seeded: labels or a location are given;
\* elsewhere: the location is not that of a dataset of the query; useCache:
\* useQueryCache; broken: DuckDB or the translator refuses the query; sync:
\* jobs.query, whose answer holds the rows.
Body == [kind : Kinds, job : JobIds, table : Tables, source : Tables,
         disposition : Dispositions, rows : Seq(BOOLEAN),
         schema : {"given", "autodetect", "none"},
         seeded : BOOLEAN, elsewhere : BOOLEAN, useCache : BOOLEAN, broken : BOOLEAN,
         sync : BOOLEAN]

Rows == (Requests \cup {Seed}) \X (Nat \ {0})
Job  == [state : {"RUNNING", "DONE"}, failed : BOOLEAN, total : Nat, affected : Nat,
         created : Nat]

\* The awaits a request can be at.
Pcs == {"start", "locate", "plan", "page", "running", "lookup", "execute", "record", "store",
        "answer", "read", "schema", "ensure", "count", "create", "describe", "truncate",
        "write", "source", "copyCount", "fileCount", "export", "upload", "extractCount",
        "invalidate", "finish", "fail", "reread", "getJob", "getPage", "getTable",
        "countRows", "getRows", "check", "change", "dropRows", "dropJob", "ended"}

Locals == [pc : Pcs,
           body : Body,
           result : Seq(Rows),  \* rows selected, or delivered to a reader
           at : Nat,            \* rows stored, written or counted so far
           hit : BOOLEAN,       \* the result came from the cache
           seen : Job \cup {NoJob},
           total : Nat,         \* totalRows of tabledata.list
           listed : SUBSET (JobIds \cup Rows), \* jobs or rows a reader has been given
           early : SUBSET (JobIds \cup Rows),  \* history: those there were when it began
           outcome : {"none", "ok", "error", "lost"}]

ASSUME JobsAssumption ==
  /\ \A mix \in Mixes : mix \in [Requests -> Body]
  /\ InitTables \subseteq Tables
  /\ PageSize \in Nat \ {0}
  /\ MaxCrashes \in Nat
  /\ NoJob \notin Job
  /\ NoEntry \notin Seq(Rows)

Pc(r)    == req[r].pc
B(r)     == req[r].body
JobOf(r) == B(r).job
Active(r) == Pc(r) \notin {"start", "ended"}

\* The entry of a table's rows that request r writes.
RowOf(r, i) == <<r, i>>

\* Fields of a request that go on at another await.
To(r, p)   == req' = [req EXCEPT ![r].pc = p]
End(r, o)  == req' = [req EXCEPT ![r].pc = "ended", ![r].outcome = o]
\* Variant: the error is answered and not recorded.
ThrowPast(r) == End(r, "error")

\* A throw: executeQuery's callers answer with it, the handlers of load, copy
\* and extract jobs record it first.
Throw(r) == IF B(r).kind \in Movers THEN To(r, "fail") ELSE End(r, "error")

-----------------------------------------------------------------------------
(***************************************************************************)
(* The jobs table.                                                         *)
(***************************************************************************)
GetJob(j) == jobs[j]

\* created_at is the clock's, taken to move between two jobs.
Present == {j \in JobIds : jobs[j] # NoJob}
\* Variant: counted from what is there, one too low.
CreatedLow(j) == IF jobs[j] # NoJob THEN jobs[j].created ELSE Cardinality(Present) - 1

Created(j) ==
  IF jobs[j] # NoJob THEN jobs[j].created
  ELSE CHOOSE n \in {0} \cup {jobs[i].created + 1 : i \in Present} :
         \A i \in Present : jobs[i].created < n

\* INSERT .. ON CONFLICT DO UPDATE: the row is replaced but for created_at,
\* whatever its state was.
UpsertJob(j, state, failed, total, affected) ==
  jobs' = [jobs EXCEPT ![j] = [state |-> state, failed |-> failed, total |-> total,
                               affected |-> affected, created |-> Created(j)]]

\* Variant: job_rows without a primary key.
HasRowNever(j, i) == FALSE

HasRow(j, i) == \E x \in jobRows : x[1] = j /\ x[2] = i

\* SELECT row .. WHERE row_index >= offset ORDER BY row_index LIMIT PageSize;
\* indexes start at 1 here.
Later(j, offset) == {x \in jobRows : x[1] = j /\ x[2] > offset}
Before(x, j, offset) == {y \in Later(j, offset) : y[2] < x[2]}
Page(j, offset) ==
  LET X == {x \in Later(j, offset) : Cardinality(Before(x, j, offset)) < PageSize}
  IN  [i \in 1..Cardinality(X) |->
        (CHOOSE x \in X : Cardinality(Before(x, j, offset)) = i - 1)[3]]

-----------------------------------------------------------------------------
(***************************************************************************)
(* The query cache.                                                        *)
(***************************************************************************)
InvalidateQueryCache == cache' = [t \in Tables |-> NoEntry]

\* SELECTs that have read a table and will store what they have read.
WillCache(t) == {q \in Requests : /\ Pc(q) \in {"record", "store"}
                                  /\ B(q).kind = "select" /\ B(q).useCache
                                  /\ ~req[q].hit /\ B(q).table = t}

\* What history remembers: a write that nobody announces, one that is announced
\* before it happens, or an announcement while a SELECT is between its two ends.
Spoils(t, cond) == spoiled' = IF cond THEN spoiled \cup {t} ELSE spoiled
Undercuts(t) == WillCache(t) # {} \/ cache[t] # NoEntry

-----------------------------------------------------------------------------
Init ==
  /\ contents = [t \in Tables |-> IF t \in InitTables THEN <<RowOf(Seed, 1), RowOf(Seed, 2)>>
                                  ELSE <<>>]
  /\ exists = InitTables
  /\ described = InitTables
  /\ jobs = [j \in JobIds |-> NoJob]
  /\ jobRows = {}
  /\ cache = [t \in Tables |-> NoEntry]
  /\ \E mix \in Mixes :
       req = [r \in Requests |-> [pc |-> "start", body |-> mix[r], result |-> <<>>, at |-> 0,
                                  hit |-> FALSE, seen |-> NoJob, total |-> 0,
                                  listed |-> {}, early |-> {}, outcome |-> "none"]]
  /\ spoiled = {}
  /\ crashes = 0

First(b) ==
  CASE b.kind \in Movers  -> "running"
    [] b.kind \in Queries -> "locate"
    [] b.kind = "dryRun"   -> "plan"
    [] b.kind = "results"  -> "getJob"
    [] b.kind = "list"     -> "page"
    [] b.kind = "data"     -> "getTable"
    [] b.kind \in Writers -> "write"
    [] b.kind \in {"cancel", "delete"} -> "check"

Start(r) ==
  /\ Pc(r) = "start"
  /\ To(r, First(B(r)))
  /\ UNCHANGED <<tableVars, jobVars, cache, spoiled, crashes>>

\* The RUNNING row up front: of load, copy and extract jobs, and of queries with
\* labels or a location.
Running(r) ==
  /\ Pc(r) = "running"
  /\ UpsertJob(JobOf(r), "RUNNING", FALSE, 0, 0)
  /\ To(r, IF B(r).kind \in Queries THEN "lookup"
           ELSE IF B(r).kind \in Loads THEN "read" ELSE "source")
  /\ UNCHANGED <<tableVars, jobRows, cache, spoiled, crashes>>

-----------------------------------------------------------------------------
(***************************************************************************)
(* executeQuery.                                                           *)
(***************************************************************************)
\* The location of a job is compared with that of every dataset the query names
\* before anything is written.
EnforceJobLocation(r) ==
  /\ Pc(r) = "locate"
  /\ IF B(r).seeded /\ B(r).elsewhere THEN End(r, "error")
     ELSE To(r, IF B(r).seeded THEN "running" ELSE "lookup")
  /\ UNCHANGED <<tableVars, jobVars, cache, spoiled, crashes>>

Cached(b) == b.kind = "select" /\ b.useCache /\ cache[b.table] # NoEntry

\* Whatever is not a SELECT drops the whole cache, before it runs.
Lookup(r) ==
  /\ Pc(r) = "lookup"
  /\ ~Cached(B(r))
  /\ To(r, "execute")
  /\ IF B(r).kind = "select" THEN UNCHANGED cache ELSE InvalidateQueryCache
  /\ UNCHANGED <<tableVars, jobVars, spoiled, crashes>>

\* A hit gets a job of its own, with the rows of the entry.
ReturnCachedSelect(r) ==
  /\ Pc(r) = "lookup"
  /\ Cached(B(r))
  /\ req' = [req EXCEPT ![r].pc = "record", ![r].hit = TRUE,
                        ![r].result = cache[B(r).table]]
  /\ UNCHANGED <<tableVars, jobVars, cache, spoiled, crashes>>

\* db.queryWithSchema.  A refused query throws out of executeQuery, with the
\* RUNNING row, if there is one, as it is.
Execute(r) ==
  LET t == B(r).table
      refused == B(r).broken \/ t \notin exists
  IN  /\ Pc(r) = "execute"
      /\ \/ /\ refused
            /\ End(r, "error")
            /\ UNCHANGED <<contents, spoiled>>
         \/ /\ ~refused /\ B(r).kind = "select"
            /\ req' = [req EXCEPT ![r].pc = "record", ![r].result = contents[t]]
            /\ UNCHANGED <<contents, spoiled>>
         \/ /\ ~refused /\ B(r).kind = "insert"
            /\ contents' = [contents EXCEPT ![t] = Append(@, RowOf(r, 1))]
            /\ req' = [req EXCEPT ![r].pc = "record", ![r].at = 1]
            /\ Spoils(t, Undercuts(t))
         \/ /\ ~refused /\ B(r).kind = "clear"
            /\ contents' = [contents EXCEPT ![t] = <<>>]
            /\ req' = [req EXCEPT ![r].pc = "record", ![r].at = Len(contents[t])]
            /\ Spoils(t, Undercuts(t))
      /\ UNCHANGED <<exists, described, jobVars, cache, crashes>>

\* The job is DONE before its rows are stored.
Record(r) ==
  /\ Pc(r) = "record"
  /\ UpsertJob(JobOf(r), "DONE", FALSE, Len(req[r].result), req[r].at)
  /\ IF B(r).kind = "select" THEN To(r, "store") ELSE To(r, "answer")
  /\ UNCHANGED <<tableVars, jobRows, cache, spoiled, crashes>>

\* INSERT INTO _bq.job_rows: (project, job_id, row_index) is its primary key.
StoreRow(r) ==
  LET i == req[r].at + 1
  IN  /\ Pc(r) = "store"
      /\ i <= Len(req[r].result)
      /\ IF HasRow(JobOf(r), i)
         THEN End(r, "error") /\ UNCHANGED jobRows
         ELSE /\ jobRows' = jobRows \cup {<<JobOf(r), i, req[r].result[i]>>}
              /\ req' = [req EXCEPT ![r].at = i]
      /\ UNCHANGED <<tableVars, jobs, cache, spoiled, crashes>>

StoreInCache(r) ==
  /\ Pc(r) = "store"
  /\ req[r].at = Len(req[r].result)
  /\ cache' = IF B(r).useCache /\ ~req[r].hit
              THEN [cache EXCEPT ![B(r).table] = req[r].result]
              ELSE cache
  /\ To(r, "answer")
  /\ UNCHANGED <<tableVars, jobVars, spoiled, crashes>>

\* jobs.insert reads the job again and fails when it is gone; jobs.query does not.
Answer(r) ==
  /\ Pc(r) = "answer"
  /\ End(r, IF GetJob(JobOf(r)) = NoJob /\ ~B(r).sync THEN "error" ELSE "ok")
  /\ UNCHANGED <<tableVars, jobVars, cache, spoiled, crashes>>

\* A dry run is planned by DuckDB and leaves no job.
Plan(r) ==
  /\ Pc(r) = "plan"
  /\ End(r, IF B(r).broken \/ B(r).table \notin exists THEN "error" ELSE "ok")
  /\ UNCHANGED <<tableVars, jobVars, cache, spoiled, crashes>>

-----------------------------------------------------------------------------
(***************************************************************************)
(* Load jobs (load.ts).                                                    *)
(***************************************************************************)
\* fetchAndParse, or the download of Parquet files: the network may fail.
ReadSource(r) ==
  /\ Pc(r) = "read"
  /\ To(r, "schema") \/ Throw(r)
  /\ UNCHANGED <<tableVars, jobVars, cache, spoiled, crashes>>

\* The schema given, else the destination's, else one that is inferred; a
\* Parquet file has one also where autodetect is not asked for.
HasSchema(b) ==
  \/ b.schema = "given"
  \/ b.table \in described
  \/ IF b.kind = "load" THEN b.schema = "autodetect" /\ b.rows # <<>> ELSE TRUE

ResolveSchema(r) ==
  /\ Pc(r) = "schema"
  /\ IF HasSchema(B(r)) THEN To(r, "ensure") ELSE Throw(r)
  /\ UNCHANGED <<tableVars, jobVars, cache, spoiled, crashes>>

\* Where a load goes on once its destination exists.
Prepared(b) == IF b.disposition = "WRITE_TRUNCATE" THEN "truncate" ELSE "write"

\* getTable of the destination: ensureDestinationTable's, and runCopyJob's second.
EnsureDestination(r) ==
  /\ Pc(r) = "ensure"
  /\ To(r, IF B(r).table \notin described THEN "create"
           ELSE IF B(r).disposition = "WRITE_EMPTY" THEN "count"
           ELSE Prepared(B(r)))
  /\ UNCHANGED <<tableVars, jobVars, cache, spoiled, crashes>>

\* WRITE_EMPTY counts the destination's rows some awaits before it writes.
CountDestination(r) ==
  /\ Pc(r) = "count"
  /\ IF B(r).table \in exists /\ contents[B(r).table] = <<>> THEN To(r, "write") ELSE Throw(r)
  /\ UNCHANGED <<tableVars, jobVars, cache, spoiled, crashes>>

\* CREATE TABLE fails when another request has created it meanwhile.
CreateDestination(r) ==
  /\ Pc(r) = "create"
  /\ IF B(r).table \in exists
     THEN Throw(r) /\ UNCHANGED exists
     ELSE exists' = exists \cup {B(r).table} /\ To(r, "describe")
  /\ UNCHANGED <<contents, described, jobVars, cache, spoiled, crashes>>

\* upsertTable; a copy into a new table has nothing to truncate.
DescribeDestination(r) ==
  /\ Pc(r) = "describe"
  /\ described' = described \cup {B(r).table}
  /\ To(r, IF B(r).kind \in Loads THEN Prepared(B(r)) ELSE "write")
  /\ UNCHANGED <<contents, exists, jobVars, cache, spoiled, crashes>>

Truncate(r) ==
  LET t == B(r).table
  IN  /\ Pc(r) = "truncate"
      /\ IF t \notin exists
         THEN Throw(r) /\ UNCHANGED contents
         ELSE contents' = [contents EXCEPT ![t] = <<>>] /\ To(r, "write")
      /\ UNCHANGED <<exists, described, jobVars, cache, spoiled, crashes>>

Written(r) == [i \in 1..Len(B(r).rows) |-> RowOf(r, i)]

\* insertRows: row by row, and what is inserted stays when a later row fails.
WriteRow(r) ==
  LET t == B(r).table
      i == req[r].at + 1
  IN  /\ Pc(r) = "write" /\ B(r).kind = "load"
      /\ \/ /\ i > Len(B(r).rows)
            /\ To(r, "invalidate")
            /\ UNCHANGED <<contents, spoiled>>
         \/ /\ i <= Len(B(r).rows)
            /\ ~(B(r).rows[i] /\ t \in exists)
            /\ Throw(r)
            /\ Spoils(t, req[r].at > 0 \/ B(r).disposition = "WRITE_TRUNCATE")
            /\ UNCHANGED contents
         \/ /\ i <= Len(B(r).rows)
            /\ B(r).rows[i] /\ t \in exists
            /\ contents' = [contents EXCEPT ![t] = Append(@, RowOf(r, i))]
            /\ req' = [req EXCEPT ![r].at = i]
            /\ UNCHANGED spoiled
      /\ UNCHANGED <<exists, described, jobVars, cache, crashes>>

\* INSERT .. SELECT: of a Parquet file, or of a copy's source as it is now.
Selected(r) == IF B(r).kind = "copy" THEN contents[B(r).source] ELSE Written(r)
Insertable(b) ==
  /\ b.table \in exists
  /\ IF b.kind = "copy" THEN b.source \in exists ELSE \A i \in DOMAIN b.rows : b.rows[i]

WriteSelected(r) ==
  LET t == B(r).table
  IN  /\ Pc(r) = "write" /\ B(r).kind \in {"parquet", "copy"}
      /\ IF Insertable(B(r))
         THEN /\ contents' = [contents EXCEPT ![t] = @ \o Selected(r)]
              /\ To(r, IF B(r).kind = "copy" THEN "copyCount" ELSE "fileCount")
              /\ UNCHANGED spoiled
         ELSE /\ Throw(r)
              /\ Spoils(t, B(r).disposition = "WRITE_TRUNCATE")
              /\ UNCHANGED contents
      /\ UNCHANGED <<exists, described, jobVars, cache, crashes>>

\* The rows of the file are counted in the file.
CountFile(r) ==
  /\ Pc(r) = "fileCount"
  /\ req' = [req EXCEPT ![r].pc = "invalidate", ![r].at = Len(B(r).rows)]
  /\ UNCHANGED <<tableVars, jobVars, cache, spoiled, crashes>>

\* Variant: the cache is kept.
InvalidateNot(r) ==
  /\ Pc(r) = "invalidate"
  /\ IF B(r).kind \in Writers THEN End(r, "ok") ELSE To(r, "finish")
  /\ UNCHANGED <<tableVars, jobVars, cache, spoiled, crashes>>

Invalidate(r) ==
  /\ Pc(r) = "invalidate"
  /\ InvalidateQueryCache
  /\ Spoils(B(r).table, WillCache(B(r).table) # {})
  /\ IF B(r).kind \in Writers THEN End(r, "ok") ELSE To(r, "finish")
  /\ UNCHANGED <<tableVars, jobVars, crashes>>

-----------------------------------------------------------------------------
(***************************************************************************)
(* Copy and extract jobs (copy.ts, extract.ts).                            *)
(***************************************************************************)
ReadSourceTable(r) ==
  /\ Pc(r) = "source"
  /\ IF B(r).source \in described
     THEN To(r, IF B(r).kind = "copy" THEN "ensure" ELSE "export")
     ELSE Throw(r)
  /\ UNCHANGED <<tableVars, jobVars, cache, spoiled, crashes>>

\* The rows a copy reports are counted in the source, after the INSERT.
CountCopied(r) ==
  /\ Pc(r) = "copyCount"
  /\ IF B(r).source \in exists
     THEN req' = [req EXCEPT ![r].pc = "invalidate", ![r].at = Len(contents[B(r).source])]
     ELSE Throw(r)
  /\ UNCHANGED <<tableVars, jobVars, cache, spoiled, crashes>>

Export(r) ==
  /\ Pc(r) = "export"
  /\ IF B(r).source \in exists
     THEN req' = [req EXCEPT ![r].pc = "upload", ![r].result = contents[B(r).source],
                             ![r].at = Len(contents[B(r).source])]
     ELSE Throw(r)
  /\ UNCHANGED <<tableVars, jobVars, cache, spoiled, crashes>>

Upload(r) ==
  /\ Pc(r) = "upload"
  /\ \/ Throw(r)
     \/ To(r, IF B(r).kind = "extract" THEN "finish" ELSE "extractCount")
  /\ UNCHANGED <<tableVars, jobVars, cache, spoiled, crashes>>

\* A Parquet extract counts the table again, after the upload.
CountExtracted(r) ==
  /\ Pc(r) = "extractCount"
  /\ IF B(r).source \in exists
     THEN req' = [req EXCEPT ![r].pc = "finish", ![r].at = Len(contents[B(r).source])]
     ELSE Throw(r)
  /\ UNCHANGED <<tableVars, jobVars, cache, spoiled, crashes>>

-----------------------------------------------------------------------------
(***************************************************************************)
(* The end of a load, copy or extract job.                                 *)
(***************************************************************************)
Finish(r) ==
  /\ Pc(r) = "finish"
  /\ UpsertJob(JobOf(r), "DONE", FALSE, 0, req[r].at)
  /\ To(r, "reread")
  /\ UNCHANGED <<tableVars, jobRows, cache, spoiled, crashes>>

\* Inside the try: a job deleted since then is written back as failed.
Reread(r) ==
  /\ Pc(r) = "reread"
  /\ IF GetJob(JobOf(r)) = NoJob THEN To(r, "fail") ELSE End(r, "ok")
  /\ UNCHANGED <<tableVars, jobVars, cache, spoiled, crashes>>

\* Variant: the failure is answered and the job left as it was.
FailJobSilently(r) ==
  /\ Pc(r) = "fail"
  /\ End(r, "error")
  /\ UNCHANGED <<tableVars, jobVars, cache, spoiled, crashes>>

FailJob(r) ==
  /\ Pc(r) = "fail"
  /\ UpsertJob(JobOf(r), "DONE", TRUE, 0, 0)
  /\ End(r, "error")
  /\ UNCHANGED <<tableVars, jobRows, cache, spoiled, crashes>>

-----------------------------------------------------------------------------
(***************************************************************************)
(* jobs.cancel and jobs.delete.                                            *)
(***************************************************************************)
Check(r) ==
  /\ Pc(r) = "check"
  /\ \/ GetJob(JobOf(r)) = NoJob /\ End(r, "error")
     \/ /\ GetJob(JobOf(r)) # NoJob
        /\ IF B(r).kind = "delete" THEN To(r, "dropRows")
           ELSE IF GetJob(JobOf(r)).state = "DONE" THEN End(r, "ok")
           ELSE To(r, "change")
  /\ UNCHANGED <<tableVars, jobVars, cache, spoiled, crashes>>

\* UPDATE .. WHERE job_id: of the row as it is now, if there still is one.
CancelJob(r) ==
  LET j == JobOf(r)
  IN  /\ Pc(r) = "change"
      /\ jobs' = IF jobs[j] = NoJob THEN jobs
                 ELSE [jobs EXCEPT ![j].state = "DONE", ![j].failed = TRUE]
      /\ End(r, "ok")
      /\ UNCHANGED <<tableVars, jobRows, cache, spoiled, crashes>>

DropRows(r) ==
  /\ Pc(r) = "dropRows"
  /\ jobRows' = {x \in jobRows : x[1] # JobOf(r)}
  /\ To(r, "dropJob")
  /\ UNCHANGED <<tableVars, jobs, cache, spoiled, crashes>>

DropJob(r) ==
  /\ Pc(r) = "dropJob"
  /\ jobs' = [jobs EXCEPT ![JobOf(r)] = NoJob]
  /\ End(r, "ok")
  /\ UNCHANGED <<tableVars, jobRows, cache, spoiled, crashes>>

-----------------------------------------------------------------------------
(***************************************************************************)
(* jobs.getQueryResults, and a client that polls until the job is complete *)
(* and follows the page tokens.                                            *)
(***************************************************************************)
Offset(r) == Len(req[r].result)

ReadJob(r) ==
  LET job == GetJob(JobOf(r))
  IN  /\ Pc(r) = "getJob"
      /\ \/ job = NoJob /\ End(r, "error")
         \/ job # NoJob /\ Offset(r) > job.total /\ End(r, "error")
         \/ /\ job # NoJob /\ Offset(r) <= job.total
            /\ req' = [req EXCEPT ![r].pc = "getPage", ![r].seen = job]
      /\ UNCHANGED <<tableVars, jobVars, cache, spoiled, crashes>>

\* Variants: one row too early, and never.
HasMoreShort(next, total) == next + 1 < total
HasMoreAlways(next, total) == next <= total

\* hasMore of the answer, which decides whether it has a page token.
HasMore(next, total) == next < total

ReadPage(r) ==
  LET rows == Page(JobOf(r), Offset(r))
      more == HasMore(Offset(r) + Len(rows), req[r].seen.total)
      complete == req[r].seen.state = "DONE"
  IN  /\ Pc(r) = "getPage"
      /\ req' = [req EXCEPT ![r].result = @ \o rows,
                            ![r].seen = NoJob,
                            ![r].pc = IF more \/ ~complete THEN "getJob" ELSE "ended",
                            ![r].outcome = IF more \/ ~complete THEN "none" ELSE "ok"]
      /\ UNCHANGED <<tableVars, jobVars, cache, spoiled, crashes>>

-----------------------------------------------------------------------------
(***************************************************************************)
(* jobs.list, and a client that follows the page tokens to the end.        *)
(***************************************************************************)
\* ORDER BY created_at DESC.
Newer(i, j) == jobs[i].created > jobs[j].created
Ahead(j) == Cardinality({i \in Present : Newer(i, j)})

\* One row more than the limit is read, to see whether there is a next page.
ListPage(offset) == {j \in Present : Ahead(j) \in offset..(offset + PageSize - 1)}
\* Variant: the row read ahead is skipped.
NextOffsetPast(offset) == offset + PageSize + 1
NextOffset(offset) == offset + PageSize
HasNextPage(offset) == \E j \in Present : Ahead(j) = offset + PageSize

ListJobs(r) ==
  LET offset == req[r].at
  IN  /\ Pc(r) = "page"
      /\ req' = [req EXCEPT ![r].listed = @ \cup ListPage(offset),
                            ![r].early = IF offset = 0 THEN Present ELSE @,
                            ![r].at = NextOffset(offset),
                            ![r].pc = IF HasNextPage(offset) THEN "page" ELSE "ended",
                            ![r].outcome = IF HasNextPage(offset) THEN "none" ELSE "ok"]
      /\ UNCHANGED <<tableVars, jobVars, cache, spoiled, crashes>>

-----------------------------------------------------------------------------
(***************************************************************************)
(* tabledata.list, and a client that follows the page tokens to the end.   *)
(***************************************************************************)
GetTable(r) ==
  /\ Pc(r) = "getTable"
  /\ IF B(r).table \in described THEN To(r, "countRows") ELSE End(r, "error")
  /\ UNCHANGED <<tableVars, jobVars, cache, spoiled, crashes>>

\* The total is counted before the page is read, for every page anew.
CountRows(r) ==
  LET t == B(r).table
  IN  /\ Pc(r) = "countRows"
      /\ IF t \in exists
         THEN req' = [req EXCEPT ![r].pc = "getRows", ![r].total = Len(contents[t]),
                                 ![r].early = IF req[r].at = 0
                                              THEN {contents[t][i] : i \in DOMAIN contents[t]}
                                              ELSE @]
         ELSE End(r, "error")
      /\ UNCHANGED <<tableVars, jobVars, cache, spoiled, crashes>>

\* ORDER BY rowid LIMIT PageSize OFFSET at.
PageOf(t, offset) == DOMAIN contents[t] \cap (offset + 1)..(offset + PageSize)

GetRows(r) ==
  LET t == B(r).table
      page == PageOf(t, req[r].at)
      next == req[r].at + Cardinality(page)
      more == HasMore(next, req[r].total)
  IN  /\ Pc(r) = "getRows"
      /\ req' = [req EXCEPT ![r].listed = @ \cup {contents[t][i] : i \in page}, ![r].at = next,
                            ![r].pc = IF more THEN "getTable" ELSE "ended",
                            ![r].outcome = IF more THEN "none" ELSE "ok"]
      /\ UNCHANGED <<tableVars, jobVars, cache, spoiled, crashes>>

-----------------------------------------------------------------------------
(***************************************************************************)
(* Other writers: insertAll announces its rows, AppendRows does not.       *)
(***************************************************************************)
WriteOther(r) ==
  LET t == B(r).table
  IN  /\ Pc(r) = "write" /\ B(r).kind \in Writers
      /\ IF t \in exists
         THEN /\ contents' = [contents EXCEPT ![t] = Append(@, RowOf(r, 1))]
              /\ Spoils(t, B(r).kind = "append")
              /\ IF B(r).kind = "append" THEN End(r, "ok") ELSE To(r, "invalidate")
         ELSE End(r, "error") /\ UNCHANGED <<contents, spoiled>>
      /\ UNCHANGED <<exists, described, jobVars, cache, crashes>>

-----------------------------------------------------------------------------
\* The process is killed and started again with the same database file.
Crash ==
  /\ crashes < MaxCrashes
  /\ \E r \in Requests : Active(r)
  /\ crashes' = crashes + 1
  /\ req' = [r \in Requests |->
              IF Active(r) THEN [req[r] EXCEPT !.pc = "ended", !.outcome = "lost", !.seen = NoJob]
              ELSE req[r]]
  /\ InvalidateQueryCache
  /\ UNCHANGED <<tableVars, jobVars, spoiled>>

Query(r) ==
  \/ EnforceJobLocation(r) \/ Lookup(r) \/ ReturnCachedSelect(r) \/ Execute(r) \/ Record(r)
  \/ StoreRow(r) \/ StoreInCache(r) \/ Answer(r) \/ Plan(r)
Load(r) ==
  \/ ReadSource(r) \/ ResolveSchema(r) \/ EnsureDestination(r) \/ CountDestination(r)
  \/ CreateDestination(r) \/ DescribeDestination(r) \/ Truncate(r) \/ WriteRow(r)
  \/ WriteSelected(r) \/ CountFile(r) \/ Invalidate(r)
CopyOrExtract(r) ==
  ReadSourceTable(r) \/ CountCopied(r) \/ Export(r) \/ Upload(r) \/ CountExtracted(r)
EndJob(r) == Finish(r) \/ Reread(r) \/ FailJob(r)
CancelOrDelete(r) == Check(r) \/ CancelJob(r) \/ DropRows(r) \/ DropJob(r)
Results(r) == ReadJob(r) \/ ReadPage(r) \/ ListJobs(r)
TableRows(r) == GetTable(r) \/ CountRows(r) \/ GetRows(r)

Step(r) ==
  \/ Start(r) \/ Running(r) \/ Query(r) \/ Load(r) \/ CopyOrExtract(r) \/ EndJob(r)
  \/ CancelOrDelete(r) \/ Results(r) \/ TableRows(r) \/ WriteOther(r)

Next == (\E r \in Requests : Step(r)) \/ Crash

\* Node runs every request's continuations until it has answered.
Fairness == \A r \in Requests : WF_vars(Active(r) /\ Step(r))
Spec == Init /\ [][Next]_vars /\ Fairness

-----------------------------------------------------------------------------
TypeOK ==
  /\ contents \in [Tables -> Seq(Rows)]
  /\ exists \subseteq Tables
  /\ described \subseteq Tables
  /\ jobs \in [JobIds -> Job \cup {NoJob}]
  /\ jobRows \subseteq JobIds \X (Nat \ {0}) \X Rows
  /\ cache \in [Tables -> Seq(Rows) \cup {NoEntry}]
  /\ req \in [Requests -> Locals]
  /\ spoiled \subseteq Tables
  /\ crashes \in 0..MaxCrashes

Started(r) == Pc(r) # "start"
RunnersOf(j) == {q \in Requests : Started(q) /\ B(q).kind \in Runners /\ JobOf(q) = j}
Named(kind, j) == {q \in Requests : Started(q) /\ B(q).kind = kind /\ JobOf(q) = j}

\* Nobody cancels or deletes the job, and only one request uses its id.
Undisturbed(j) ==
  /\ Named("cancel", j) = {} /\ Named("delete", j) = {}
  /\ \A p, q \in RunnersOf(j) : p = q

\* A client that polls until jobComplete and follows the page tokens has, in
\* the end, the whole result of the query in order, although the job is DONE
\* before its rows are stored and the server may crash between them.
PagesAreTheResult ==
  \A r \in Requests :
    B(r).kind = "results" /\ req[r].outcome = "ok" /\ Undisturbed(JobOf(r)) =>
      \E q \in RunnersOf(JobOf(r)) :
        req[r].result = IF B(q).kind = "select" THEN req[q].result ELSE <<>>

\* The stored rows of a job are those of one execution, also when a client
\* sends a job id again while the first request runs: unless the job is deleted
\* the second finds a row of the first one, or the first one of the second's.
RowsOfOneExecution ==
  \A j \in JobIds : Named("delete", j) = {} /\ (\E x \in jobRows : x[1] = j) =>
    \E q \in RunnersOf(j) : \A x \in jobRows :
      x[1] = j => x[2] \in DOMAIN req[q].result /\ x[3] = req[q].result[x[2]]

\* A writer of t that invalidates the cache when it has written.
Announcing(t) ==
  \E r \in Requests : /\ B(r).table = t
                      /\ B(r).kind \in Loads \cup {"copy", "insertAll"}
                      /\ Pc(r) \in {"write", "fileCount", "copyCount", "invalidate"}

\* The cache serves no old result, except where the code lets it: a row that
\* AppendRows writes, a load that fails half-way, a DML statement that runs
\* after a SELECT has read or cached the table, a writer that announces its
\* rows while a SELECT that has read holds its result.
CacheFresh ==
  \A t \in Tables \ spoiled : Announcing(t) \/ cache[t] \in {NoEntry, contents[t]}

\* A job is RUNNING only while its request is: requests end their jobs also
\* when they fail.  Not so a query that throws (its RUNNING row, written for
\* its labels or its location, stays), nor one that a crash ends.
Abandoned(j) ==
  \E q \in RunnersOf(j) :
    req[q].outcome = "lost" \/ (B(q).kind \in Queries /\ req[q].outcome = "error")
RunningMeansRunning ==
  \A j \in JobIds : jobs[j] # NoJob /\ GetJob(j).state = "RUNNING" =>
    Abandoned(j) \/ \E q \in RunnersOf(j) : Active(q)

\* Requests that take rows away from t.
Emptying(t) ==
  {q \in Requests : /\ Started(q) /\ B(q).table = t
                    /\ \/ B(q).kind = "clear"
                       \/ /\ B(q).kind \in Loads \cup {"copy"}
                          /\ B(q).disposition = "WRITE_TRUNCATE"}

\* A client that lists the jobs, or the rows of a table, sees all there were
\* when it began, whatever is added meanwhile, between the count of a table and
\* a page of it too; only what is taken away can move one past its offset.
ListingMissesNone ==
  \A r \in Requests :
    /\ req[r].outcome = "ok"
    /\ \/ B(r).kind = "list" /\ \A j \in JobIds : Named("delete", j) = {}
       \/ B(r).kind = "data" /\ Emptying(B(r).table) = {}
    => req[r].early \subseteq req[r].listed

\* Jobs end: RUNNING is not for ever.
Ended(j) == jobs[j] = NoJob \/ jobs[j].state = "DONE"
JobsEnd == \A j \in JobIds : (RunnersOf(j) # {}) ~> (Ended(j) \/ Abandoned(j))

\* A client that polls and pages comes to an end: tokens that repeat an offset,
\* because the rows are not stored yet or no longer there, do not keep it for
\* ever.
PollingEnds ==
  \A r \in Requests : (B(r).kind \in {"results", "data"} /\ Active(r)) ~>
    (~Active(r) \/ Abandoned(JobOf(r)) \/ ~Undisturbed(JobOf(r)))
=============================================================================
