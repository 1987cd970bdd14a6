----------------------------- MODULE JobsSafety -----------------------------
(***************************************************************************)
(* What the stored results, the query cache and the lists hold, for any    *)
(* requests, tables and jobs and any number of crashes.                    *)
(***************************************************************************)
EXTENDS JobsProofs

(***************************************************************************)
(* Stored rows are those of one execution.                                 *)
(***************************************************************************)

\* A SELECT that runs as job j.
SelectOf(q, j) == B(q).kind = "select" /\ JobOf(q) = j

\* A SELECT that has stored nothing yet, as it has not recorded its job.
Unrecorded(q) == Pc(q) \in {"start", "locate", "running", "lookup", "execute", "record"}

\* A SELECT stores its rows in order from the first, once it has recorded its job.
StoresInOrder ==
  \A q \in Requests : B(q).kind = "select" =>
    /\ req[q].at <= Len(req[q].result)
    /\ Unrecorded(q) => req[q].at = 0

\* What is stored for job j is what one SELECT has stored so far.
StoredOnce(j) ==
  /\ \A x \in jobRows : x[1] = j => \E q \in Requests : SelectOf(q, j) /\ x[2] <= req[q].at
  /\ \A q \in Requests : SelectOf(q, j) =>
       \A i \in 1..req[q].at : <<j, i, req[q].result[i]>> \in jobRows
  /\ \A p, q \in Requests :
       SelectOf(p, j) /\ SelectOf(q, j) /\ req[p].at > 0 /\ req[q].at > 0 => p = q

RowsInv ==
  /\ StoresInOrder
  /\ \A j \in JobIds : Named("delete", j) = {} => StoredOnce(j)

\* What a SELECT's step does to its rows.
LEMMA SelectStep ==
  ASSUME TypeInv, NEW r \in Requests, Step(r), B(r).kind = "select"
  PROVE  /\ Unrecorded(r)' => Unrecorded(r)
         /\ \/ /\ StoreRow(r) /\ ~HasRow(JobOf(r), req[r].at + 1)
               /\ req'[r].at = req[r].at + 1 /\ req'[r].result = req[r].result
            \/ /\ UNCHANGED jobRows /\ req'[r].at = req[r].at
               /\ req'[r].result = req[r].result \/ Unrecorded(r)
<1>1. req \in [Requests -> Locals] /\ TypeOK /\ AtHome(r)
  BY DEF TypeInv, TypeOK
<1>2. Pc(r)' = req'[r].pc
  BY StepLocal DEF Pc
<1>3. Start(r) \/ Running(r) \/ Query(r)
  BY <1>1, Guards DEF Step, Load, CopyOrExtract, EndJob, CancelOrDelete, Results, TableRows, AtHome,
    Writers, Loads, Extracts, Movers
<1>4. UNCHANGED jobRows \/ StoreRow(r)
  BY <1>3, Footprint, Guards DEF DropRows, Start, Running, Query
<1>5. CASE Start(r) \/ Running(r)
  BY <1>1, <1>2, <1>4, <1>5, StartMoves, Guards DEF Goes, Moved, Unrecorded
<1>6. CASE EnforceJobLocation(r) \/ Lookup(r) \/ Record(r) \/ StoreInCache(r) \/ Answer(r) \/ Plan(r)
  <2>1. UNCHANGED jobRows
    BY <1>6 DEF EnforceJobLocation, Lookup, Record, StoreInCache, Answer, Plan, jobVars
  <2>2. Moved(r)
    BY <1>1, <1>6, QueryMoves DEF Goes, Ends
  <2>3. Unrecorded(r)' => Unrecorded(r)
    BY <1>1, <1>2, <1>6, QueryMoves, Guards DEF Goes, Ends, Unrecorded
  <2> QED
    BY <2>1, <2>2, <2>3 DEF Moved
<1>7. CASE ReturnCachedSelect(r) \/ Execute(r)
  <2>1. Unrecorded(r) /\ UNCHANGED jobRows
    BY <1>4, <1>7, Guards DEF Unrecorded
  <2>2. req'[r].at = req[r].at
    BY <1>1, <1>7, CachedMoves, ExecuteMoves DEF Ends, Moved, Dml
  <2> QED
    BY <2>1, <2>2
<1>8. CASE StoreRow(r)
  <2>1. CASE HasRow(JobOf(r), req[r].at + 1)
    <3>1. UNCHANGED jobRows
      BY <1>8, <2>1 DEF StoreRow
    <3> QED
      BY <1>1, <1>2, <1>8, <2>1, <3>1, CountingMoves, Guards DEF Ends, Moved, Unrecorded
  <2>2. CASE ~HasRow(JobOf(r), req[r].at + 1)
    BY <1>1, <1>2, <1>8, <2>2, CountingMoves, Guards DEF Counted, Unrecorded
  <2> QED
    BY <2>1, <2>2
<1> QED
  BY <1>3, <1>5, <1>6, <1>7, <1>8 DEF Query

\* Requests that have begun keep their kind, table and job.
LEMMA NamedStay ==
  ASSUME TypeInv, NEW r \in Requests, Step(r)
  PROVE  /\ \A q \in Requests : /\ B(q)' = B(q) /\ JobOf(q)' = JobOf(q)
                                /\ Started(q) => Started(q)'
                                /\ q # r => req'[q] = req[q]
         /\ \A j \in JobIds, kind \in Kinds : Named(kind, j) \subseteq Named(kind, j)'
<1>1. \A q \in Requests : /\ B(q)' = B(q) /\ JobOf(q)' = JobOf(q)
                          /\ Started(q) => Started(q)'
                          /\ q # r => req'[q] = req[q]
  BY StepLocal DEF Local, B, JobOf, Started, Pc
<1> QED
  BY <1>1 DEF Named

\* A step keeps it.
LEMMA RowsStep ==
  ASSUME TypeInv, RowsInv, NEW r \in Requests, Step(r)
  PROVE  RowsInv'
<1>1. /\ req \in [Requests -> Locals] /\ req' \in [Requests -> Locals] /\ TypeOK
      /\ jobRows \subseteq JobIds \X (Nat \ {0}) \X Rows /\ "delete" \in Kinds
  BY StepLocal DEF TypeInv, TypeOK, Local, Kinds
<1>2. \A q \in Requests : /\ req[q].at \in Nat /\ Len(req[q].result) \in Nat
                          /\ JobOf(q) \in JobIds
  BY <1>1 DEF Locals, JobOf, B, Body
<1>3. ASSUME NEW q \in Requests, B(q)'.kind = "select"
      PROVE  req'[q].at <= Len(req'[q].result) /\ (Unrecorded(q)' => req'[q].at = 0)
  <2>1. B(q).kind = "select"
    BY <1>3, NamedStay
  <2>2. CASE q # r
    BY <2>1, <2>2, NamedStay DEF RowsInv, StoresInOrder, Unrecorded, Pc
  <2>3. CASE q = r
    <3>1. req[r].at <= Len(req[r].result) /\ (Unrecorded(r) => req[r].at = 0)
      BY <2>1, <2>3 DEF RowsInv, StoresInOrder
    <3>2. Len(req'[r].result) \in Nat
      BY <1>1 DEF Locals
    <3>3. StoreRow(r) /\ ~HasRow(JobOf(r), req[r].at + 1) =>
            req[r].at + 1 <= Len(req[r].result) /\ ~Unrecorded(r)
      BY Guards DEF StoreRow, Unrecorded
    <3> QED
      BY <1>2, <2>1, <2>3, <3>1, <3>2, <3>3, SelectStep
  <2> QED
    BY <2>2, <2>3
<1>4. ASSUME NEW j \in JobIds, Named("delete", j)' = {}
      PROVE  StoredOnce(j)'
  <2>1. Named("delete", j) = {} /\ StoredOnce(j)
    BY <1>1, <1>4, NamedStay DEF RowsInv
  <2>2. \A q \in Requests : SelectOf(q, j)' <=> SelectOf(q, j)
    BY NamedStay DEF SelectOf
  <2>3. CASE SelectOf(r, j) /\ StoreRow(r) /\ ~HasRow(j, req[r].at + 1)
    <3> DEFINE i == req[r].at + 1
               row == <<j, i, req[r].result[i]>>
    <3>1. /\ jobRows' = jobRows \cup {row} /\ req'[r].at = i /\ req'[r].result = req[r].result
          /\ \A q \in Requests \ {r} : req'[q] = req[q]
      <4>1. JobOf(r) = j /\ B(r).kind = "select"
        BY <2>3 DEF SelectOf
      <4>2. jobRows' = jobRows \cup {row}
        BY <2>3, <4>1 DEF StoreRow
      <4>3. req'[r].at = i /\ req'[r].result = req[r].result
        BY <1>1, <2>3, <4>1, CountingMoves DEF Counted
      <4> QED
        BY <4>2, <4>3, NamedStay
    <3>2. row[1] = j /\ row[2] = i
      OBVIOUS
    <3>3. \A q \in Requests : SelectOf(q, j) /\ req[q].at > 0 => q = r
      <4>1. ASSUME NEW q \in Requests, SelectOf(q, j), req[q].at > 0, q # r
            PROVE  FALSE
        <5>1. req[r].at = 0
          BY <1>2, <2>1, <2>3, <4>1 DEF StoredOnce
        <5>2. <<j, 1, req[q].result[1]>> \in jobRows
          BY <1>2, <2>1, <4>1 DEF StoredOnce
        <5> QED
          BY <2>3, <5>1, <5>2 DEF HasRow
      <4> QED
        BY <4>1
    <3>4. \A x \in jobRows' : x[1] = j => \E q \in Requests : SelectOf(q, j) /\ x[2] <= req'[q].at
      <4>1. ASSUME NEW x \in jobRows, x[1] = j
            PROVE  \E q \in Requests : SelectOf(q, j) /\ x[2] <= req'[q].at
        <5>1. x[2] \in Nat
          BY <1>1
        <5>2. PICK q \in Requests : SelectOf(q, j) /\ x[2] <= req[q].at
          BY <2>1, <4>1 DEF StoredOnce
        <5>3. req[q].at <= req'[q].at /\ req'[q].at \in Nat
          BY <1>2, <3>1
        <5> QED
          BY <1>2, <5>1, <5>2, <5>3
      <4>2. row[2] <= req'[r].at
        BY <1>2, <3>1
      <4> QED
        BY <2>3, <3>1, <4>1, <4>2
    <3>5. ASSUME NEW q \in Requests, SelectOf(q, j), NEW k \in 1..req'[q].at
          PROVE  <<j, k, req'[q].result[k]>> \in jobRows'
      <4>1. CASE q # r
        BY <2>1, <3>1, <3>5, <4>1 DEF StoredOnce
      <4>2. CASE q = r /\ k # i
        <5>1. k \in 1..req[r].at
          BY <1>2, <3>1, <3>5, <4>2
        <5> QED
          BY <2>1, <2>3, <3>1, <4>2, <5>1 DEF StoredOnce
      <4>3. CASE q = r /\ k = i
        BY <3>1, <4>3
      <4> QED
        BY <4>1, <4>2, <4>3
    <3>6. \A p, q \in Requests :
            SelectOf(p, j) /\ SelectOf(q, j) /\ req'[p].at > 0 /\ req'[q].at > 0 => p = q
      BY <1>2, <3>1, <3>3
    <3> HIDE DEF row, i
    <3> QED
      BY <2>2, <3>4, <3>5, <3>6 DEF StoredOnce
  <2>4. CASE ~(SelectOf(r, j) /\ StoreRow(r) /\ ~HasRow(j, req[r].at + 1))
    <3>1. \A q \in Requests : SelectOf(q, j) =>
            /\ req'[q].at = req[q].at
            /\ req'[q].result = req[q].result \/ req[q].at = 0
      <4>1. SelectOf(r, j) => /\ req'[r].at = req[r].at
                              /\ req'[r].result = req[r].result \/ req[r].at = 0
        BY <2>4, SelectStep DEF SelectOf, RowsInv, StoresInOrder
      <4> QED
        BY <4>1, NamedStay
    <3>2. \A x \in jobRows' : x[1] = j => x \in jobRows
      <4>1. CASE UNCHANGED jobRows
        BY <4>1
      <4>2. CASE StoreRow(r) /\ ~UNCHANGED jobRows
        <5>1. JobOf(r) # j
          <6>1. B(r).kind = "select"
            BY <1>1, <4>2, Guards DEF TypeInv, AtHome
          <6>2. ~HasRow(JobOf(r), req[r].at + 1)
            BY <4>2 DEF StoreRow
          <6> QED
            BY <2>4, <4>2, <6>1, <6>2 DEF SelectOf
        <5>2. jobRows' = jobRows \cup {<<JobOf(r), req[r].at + 1, req[r].result[req[r].at + 1]>>}
          BY <4>2 DEF StoreRow
        <5> QED
          BY <5>1, <5>2
      <4>3. CASE DropRows(r)
        BY <4>3 DEF DropRows
      <4> QED
        BY <4>1, <4>2, <4>3, Footprint
    <3>3. \A x \in jobRows : x[1] = j => x \in jobRows'
      <4>1. CASE UNCHANGED jobRows
        BY <4>1
      <4>2. CASE StoreRow(r)
        BY <4>2 DEF StoreRow
      <4>3. CASE DropRows(r)
        <5>1. B(r).kind = "delete" /\ Started(r)
          BY <1>1, <4>3, Guards DEF TypeInv, AtHome, Started
        <5>2. JobOf(r) # j
          BY <2>1, <5>1 DEF Named
        <5> QED
          BY <4>3, <5>2 DEF DropRows
      <4> QED
        BY <4>1, <4>2, <4>3, Footprint
    <3>4. \A x \in jobRows' : x[1] = j => \E q \in Requests : SelectOf(q, j) /\ x[2] <= req'[q].at
      BY <2>1, <3>1, <3>2 DEF StoredOnce
    <3>5. ASSUME NEW q \in Requests, SelectOf(q, j), NEW k \in 1..req'[q].at
          PROVE  <<j, k, req'[q].result[k]>> \in jobRows'
      <4>1. req'[q].at = req[q].at /\ req'[q].result = req[q].result
        BY <1>2, <3>1, <3>5
      <4>2. <<j, k, req[q].result[k]>> \in jobRows
        BY <2>1, <3>5, <4>1 DEF StoredOnce
      <4>3. <<j, k, req[q].result[k]>>[1] = j
        OBVIOUS
      <4> QED
        BY <3>3, <4>1, <4>2, <4>3
    <3>6. \A p, q \in Requests :
            SelectOf(p, j) /\ SelectOf(q, j) /\ req'[p].at > 0 /\ req'[q].at > 0 => p = q
      BY <2>1, <3>1 DEF StoredOnce
    <3> QED
      BY <2>2, <3>4, <3>5, <3>6 DEF StoredOnce
  <2> QED
    BY <2>3, <2>4
<1> QED
  BY <1>3, <1>4 DEF RowsInv, StoresInOrder

\* A crash keeps it: what is stored stays, and nobody stores more of it.
LEMMA RowsCrash ==
  ASSUME TypeInv, RowsInv, Crash
  PROVE  RowsInv'
<1>1. \A q \in Requests : /\ B(q)' = B(q) /\ JobOf(q)' = JobOf(q)
                          /\ req'[q].at = req[q].at /\ req'[q].result = req[q].result
                          /\ Unrecorded(q)' => Unrecorded(q)
                          /\ Started(q)' = Started(q)
  BY CrashMoves DEF B, JobOf, Unrecorded, Pc, Started, Active
<1>2. UNCHANGED jobRows
  BY DEF Crash, jobVars
<1>3. StoresInOrder'
  BY <1>1 DEF RowsInv, StoresInOrder
<1>4. ASSUME NEW j \in JobIds, Named("delete", j)' = {}
      PROVE  StoredOnce(j)'
  <2>1. Named("delete", j) = {} /\ StoredOnce(j)
    BY <1>1, <1>4 DEF RowsInv, Named
  <2>2. \A q \in Requests : SelectOf(q, j)' <=> SelectOf(q, j)
    BY <1>1 DEF SelectOf
  <2> QED
    BY <1>1, <1>2, <2>1, <2>2 DEF StoredOnce
<1> QED
  BY <1>3, <1>4 DEF RowsInv

\* The stored rows of a job are rows of the execution that stored the first.
LEMMA RowsImply ==
  ASSUME TypeInv, RowsInv
  PROVE  RowsOfOneExecution
<1> SUFFICES ASSUME NEW j \in JobIds, Named("delete", j) = {}, NEW y \in jobRows, y[1] = j
             PROVE  \E q \in RunnersOf(j) : \A x \in jobRows :
                      x[1] = j => x[2] \in DOMAIN req[q].result /\ x[3] = req[q].result[x[2]]
  BY DEF RowsOfOneExecution
<1>1. /\ req \in [Requests -> Locals]
      /\ jobRows \subseteq JobIds \X (Nat \ {0}) \X Rows
  BY DEF TypeInv, TypeOK
<1>2. StoredOnce(j)
  BY DEF RowsInv
<1>3. PICK q \in Requests : SelectOf(q, j) /\ y[2] <= req[q].at
  BY <1>2 DEF StoredOnce
<1>4. /\ req[q].at \in Nat /\ req[q].at <= Len(req[q].result) /\ req[q].result \in Seq(Rows)
      /\ y[2] \in Nat \ {0}
  BY <1>1, <1>3 DEF Locals, RowsInv, StoresInOrder, SelectOf
<1>5. q \in RunnersOf(j)
  BY <1>3, <1>4 DEF RunnersOf, SelectOf, Runners, Queries, Selects, Started, RowsInv, StoresInOrder,
    Unrecorded
<1>6. ASSUME NEW x \in jobRows, x[1] = j
      PROVE  x[2] \in DOMAIN req[q].result /\ x[3] = req[q].result[x[2]]
  <2>1. x[2] \in Nat \ {0} /\ x = <<x[1], x[2], x[3]>>
    BY <1>1
  <2>2. PICK p \in Requests : SelectOf(p, j) /\ x[2] <= req[p].at
    BY <1>2, <1>6 DEF StoredOnce
  <2>3. req[p].at \in Nat
    BY <1>1 DEF Locals
  <2>4. p = q
    BY <1>2, <1>3, <1>4, <2>1, <2>2, <2>3 DEF StoredOnce
  <2>5. x[2] \in 1..req[q].at
    BY <1>4, <2>1, <2>2, <2>4
  <2>6. <<j, x[2], req[q].result[x[2]]>> \in jobRows
    BY <1>2, <1>3, <2>5 DEF StoredOnce
  <2>7. x = <<j, x[2], req[q].result[x[2]]>>
    BY <1>6, <2>6 DEF TypeInv, PrimaryKey
  <2>8. x[2] \in 1..Len(req[q].result)
    BY <1>4, <2>5
  <2> QED
    BY <1>4, <2>7, <2>8
<1> QED
  BY <1>5, <1>6

\* RowsInv holds of every behaviour.
THEOREM RowsAlways == Spec => [](TypeInv /\ RowsInv)
<1>1. Init => RowsInv
  <2> SUFFICES ASSUME Init
               PROVE  RowsInv
    OBVIOUS
  <2>1. \A q \in Requests : req[q].at = 0 /\ req[q].result = <<>>
    BY DEF Init
  <2>2. jobRows = {}
    BY DEF Init
  <2>3. StoresInOrder
    BY <2>1 DEF StoresInOrder
  <2>4. \A j \in JobIds : StoredOnce(j)
    BY <2>1, <2>2 DEF StoredOnce
  <2> QED
    BY <2>3, <2>4 DEF RowsInv
<1>2. TypeInv /\ RowsInv /\ [Next]_vars => RowsInv'
  <2>1. TypeInv /\ RowsInv /\ Next => RowsInv'
    BY RowsStep, RowsCrash DEF Next
  <2>2. RowsInv /\ UNCHANGED vars => RowsInv'
    BY DEF RowsInv, StoresInOrder, StoredOnce, SelectOf, Unrecorded, Named, Started, Pc, B, JobOf,
      vars, jobVars
  <2> QED
    BY <2>1, <2>2
<1> QED
  BY <1>1, <1>2, TypesAlways, PTL DEF Spec

\* The stored rows of a job that nobody deletes are a prefix of one execution's
\* result, however many requests run under its id and wherever a crash stops
\* them: the primary key of _bq.job_rows lets only one get past its first row.
THEOREM RowsOfOneExecutionAlways == Spec => []RowsOfOneExecution
BY RowsAlways, RowsImply, PTL

-----------------------------------------------------------------------------
(***************************************************************************)
(* The cache is fresh.                                                     *)
(***************************************************************************)

\* Request r has changed its table, or may have, and has yet to announce it.
Dirty(r) ==
  \/ Pc(r) \in {"fileCount", "copyCount", "invalidate"}
  \/ Pc(r) = "write" /\ B(r).kind = "load" /\ req[r].at > 0
  \/ /\ Pc(r) = "write" /\ B(r).kind \in Loads \cup {"copy"}
     /\ B(r).disposition = "WRITE_TRUNCATE"

\* What the cache holds of t, and what SELECTs will put there, are the rows of t.
Clean(t) ==
  /\ cache[t] \in {NoEntry, contents[t]}
  /\ \A q \in WillCache(t) : req[q].result = contents[t]

CacheInv ==
  \A t \in Tables \ spoiled : (\E r \in Requests : B(r).table = t /\ Dirty(r)) \/ Clean(t)

\* A SELECT that will cache a table has read it in this step or before.
LEMMA WillCacheStep ==
  ASSUME TypeInv, NEW r \in Requests, Step(r), NEW t \in Tables, NEW q \in WillCache(t)'
  PROVE  \/ q \in WillCache(t) /\ req'[q].result = req[q].result
         \/ /\ q = r /\ B(r).table = t /\ Execute(r)
            /\ req'[r].result = contents[t] /\ UNCHANGED contents
<1>1. /\ req \in [Requests -> Locals] /\ req' \in [Requests -> Locals] /\ TypeOK /\ AtHome(r)
      /\ q \in Requests
  BY StepLocal DEF TypeInv, TypeOK, Local, WillCache
<1>2. CASE q # r
  BY <1>1, <1>2, NamedStay DEF WillCache, Pc
<1>3. CASE q = r
  <2>1. /\ Pc(r)' \in {"record", "store"} /\ B(r).kind = "select" /\ B(r).useCache
        /\ ~req'[r].hit /\ B(r).table = t /\ Pc(r)' = req'[r].pc
    BY <1>1, <1>3, NamedStay DEF WillCache, Pc
  <2>2. Start(r) \/ Running(r) \/ Query(r)
    BY <1>1, <2>1, Guards DEF Step, Load, CopyOrExtract, EndJob, CancelOrDelete, Results, TableRows,
      AtHome, Writers, Loads, Extracts, Movers
  <2>3. CASE Start(r) \/ Running(r)
    BY <1>1, <2>1, <2>3, StartMoves DEF Goes, First, Movers, Loads, Extracts, Queries, Selects, Dml
  <2>4. CASE EnforceJobLocation(r) \/ Lookup(r) \/ StoreInCache(r) \/ Answer(r) \/ Plan(r)
    BY <1>1, <2>1, <2>4, QueryMoves DEF Goes, Ends
  <2>5. CASE Record(r)
    <3>1. Pc(r) = "record" /\ Moved(r)
      BY <1>1, <2>5, QueryMoves, Guards DEF Goes
    <3> QED
      BY <1>3, <2>1, <3>1 DEF WillCache, Moved
  <2>6. CASE ReturnCachedSelect(r)
    BY <1>1, <2>1, <2>6, CachedMoves
  <2>7. CASE Execute(r)
    BY <1>1, <1>3, <2>1, <2>7, ExecuteMoves DEF Ends, Found, Dml
  <2>8. CASE StoreRow(r)
    <3>1. Pc(r) = "store" /\ Counted(r, "store", req[r].at + 1)
      BY <1>1, <2>1, <2>8, CountingMoves, Guards DEF Ends
    <3> QED
      BY <1>3, <2>1, <3>1 DEF WillCache, Counted
  <2> QED
    BY <2>2, <2>3, <2>4, <2>5, <2>6, <2>7, <2>8 DEF Query
<1> QED
  BY <1>2, <1>3

\* A row of a load is written.
LEMMA RowWritten ==
  ASSUME TypeInv, NEW r \in Requests, Pc(r) = "write", req' = [req EXCEPT ![r].at = req[r].at + 1]
  PROVE  Counted(r, "write", req[r].at + 1)
<1>1. req \in [Requests -> Locals] /\ req[r].at + 1 \in Nat /\ "write" \in Pcs \ {"start"}
  BY DEF TypeInv, TypeOK, Locals, Pcs
<1> DEFINE n == req[r].at + 1
<1>2. n \in Nat /\ req' = [req EXCEPT ![r].at = n]
  BY <1>1
<1> HIDE DEF n
<1>3. Counted(r, "write", n)
  BY <1>1, <1>2, CountedBy
<1> QED
  BY <1>3 DEF n

\* A request that is dirty stays so until it announces its rows, or history
\* remembers that it has not.
LEMMA DirtyStep ==
  ASSUME TypeInv, NEW r \in Requests, Step(r), Dirty(r), B(r).table \notin spoiled'
  PROVE  \/ Dirty(r)'
         \/ Invalidate(r) /\ WillCache(B(r).table) = {}
<1>1. /\ req \in [Requests -> Locals] /\ TypeOK /\ AtHome(r) /\ req[r].at \in Nat
      /\ B(r).kind \in Kinds
  BY DEF TypeInv, TypeOK, Locals, B, Body
<1>2. Pc(r)' = req'[r].pc /\ B(r)' = B(r)
  BY StepLocal DEF Pc, Local, B
<1>3. CountFile(r) \/ CountCopied(r) \/ Invalidate(r) \/ WriteRow(r) \/ WriteSelected(r)
  BY Guards DEF Dirty, Step, Query, Load, CopyOrExtract, EndJob, CancelOrDelete, Results, TableRows,
    Writers, Loads
<1>4. Pc(r)' \in {"fileCount", "copyCount", "invalidate"} => Dirty(r)'
  BY DEF Dirty
<1>5. CASE CountFile(r)
  BY <1>1, <1>2, <1>4, <1>5, CountingMoves DEF Counted
<1>6. CASE CountCopied(r)
  <2>1. B(r).source \in exists
    BY <1>1, <1>6, Guards DEF AtHome
  <2> QED
    BY <1>1, <1>2, <1>4, <1>6, <2>1, CountingMoves DEF Counted
<1>7. CASE Invalidate(r)
  BY <1>7 DEF Invalidate, Spoils
<1>8. CASE WriteRow(r)
  <2>1. CASE Throw(r) /\ Spoils(B(r).table, req[r].at > 0 \/ B(r).disposition = "WRITE_TRUNCATE")
    <3>1. req[r].at > 0 \/ B(r).disposition = "WRITE_TRUNCATE"
      BY <1>8, Guards DEF Dirty
    <3> QED
      BY <2>1, <3>1 DEF Spoils
  <2>2. CASE To(r, "invalidate")
    BY <1>1, <1>2, <1>4, <2>2, Awaits DEF Goes
  <2>3. CASE req' = [req EXCEPT ![r].at = req[r].at + 1]
    <3>1. Counted(r, "write", req[r].at + 1)
      BY <1>8, <2>3, RowWritten, Guards
    <3> QED
      BY <1>1, <1>2, <1>8, <3>1, Guards DEF Counted, Dirty
  <2> QED
    BY <1>8, <2>1, <2>2, <2>3 DEF WriteRow
<1>9. CASE WriteSelected(r)
  <2>1. CASE Insertable(B(r))
    BY <1>1, <1>2, <1>4, <1>9, <2>1, LoadMoves DEF Goes
  <2>2. CASE ~Insertable(B(r))
    <3>1. B(r).disposition = "WRITE_TRUNCATE"
      BY <1>9, Guards DEF Dirty
    <3> QED
      BY <1>9, <2>2, <3>1 DEF WriteSelected, Spoils
  <2> QED
    BY <2>1, <2>2
<1> QED
  BY <1>3, <1>5, <1>6, <1>7, <1>8, <1>9

\* Rows that a step writes will be announced, or nobody has the table's, or
\* history remembers.
LEMMA WritesAreAnnounced ==
  ASSUME TypeInv, NEW r \in Requests, Step(r), ~UNCHANGED contents, B(r).table \notin spoiled'
  PROVE  \/ Dirty(r)'
         \/ /\ B(r).kind \in Dml /\ WillCache(B(r).table) = {} /\ cache[B(r).table] = NoEntry
            /\ UNCHANGED cache
<1>1. req \in [Requests -> Locals] /\ TypeOK /\ AtHome(r) /\ req[r].at \in Nat
  BY DEF TypeInv, TypeOK, Locals
<1>2. Pc(r)' = req'[r].pc /\ B(r)' = B(r)
  BY StepLocal DEF Pc, Local, B
<1>3. Execute(r) \/ Truncate(r) \/ WriteRow(r) \/ WriteSelected(r) \/ WriteOther(r)
  BY Footprint
<1>4. CASE Execute(r)
  <2>1. B(r).kind \in Dml /\ Executed(r, B(r).table)
    BY <1>1, <1>4, ExecuteMoves
  <2>2. UNCHANGED cache
    BY <1>4 DEF Execute
  <2> QED
    BY <2>1, <2>2 DEF Executed, Spoils, Undercuts
<1>5. CASE Truncate(r)
  <2>1. B(r).table \in exists
    BY <1>5 DEF Truncate
  <2>2. Pc(r)' = "write"
    BY <1>1, <1>2, <1>5, <2>1, LoadMoves DEF Goes
  <2>3. B(r).kind \in Loads \cup {"copy"} /\ B(r).disposition = "WRITE_TRUNCATE"
    BY <1>1, <1>5, Guards DEF AtHome
  <2> QED
    BY <1>2, <2>2, <2>3 DEF Dirty
<1>6. CASE WriteRow(r)
  <2>1. req' = [req EXCEPT ![r].at = req[r].at + 1] /\ Pc(r) = "write" /\ B(r).kind = "load"
    BY <1>6 DEF WriteRow
  <2>2. Counted(r, "write", req[r].at + 1)
    BY <2>1, RowWritten
  <2> QED
    BY <1>1, <1>2, <2>1, <2>2 DEF Counted, Dirty
<1>7. CASE WriteSelected(r)
  <2>1. Insertable(B(r))
    BY <1>7 DEF WriteSelected
  <2> QED
    BY <1>1, <1>2, <1>7, <2>1, LoadMoves DEF Goes, Dirty
<1>8. CASE WriteOther(r)
  <2>1. B(r).kind # "append" /\ B(r).table \in exists
    BY <1>8 DEF WriteOther, Spoils
  <2> QED
    BY <1>1, <1>2, <1>8, <2>1, OtherMoves DEF Goes, Dirty
<1> QED
  BY <1>3, <1>4, <1>5, <1>6, <1>7, <1>8

\* A step keeps it.
LEMMA CacheStep ==
  ASSUME TypeInv, CacheInv, NEW r \in Requests, Step(r)
  PROVE  CacheInv'
<1> SUFFICES ASSUME NEW t \in Tables, t \notin spoiled'
             PROVE  (\E q \in Requests : B(q)'.table = t /\ Dirty(q)') \/ Clean(t)'
  BY DEF CacheInv
<1>1. /\ TypeOK /\ AtHome(r) /\ B(r).table \in Tables
      /\ cache \in [Tables -> Seq(Rows) \cup {NoEntry}]
  BY DEF TypeInv, TypeOK, Locals, B, Body
<1>2. t \notin spoiled
  BY Footprint DEF Execute, WriteRow, WriteSelected, WriteOther, Invalidate, Spoils
<1>3. \A q \in Requests : B(q)' = B(q)
  BY NamedStay
<1>4. \A q \in Requests \ {r} : Dirty(q)' = Dirty(q)
  BY NamedStay DEF Dirty, Pc
<1>5. CASE \E q \in Requests : B(q).table = t /\ Dirty(q) /\ q # r
  BY <1>3, <1>4, <1>5
<1>6. CASE B(r).table = t /\ Dirty(r)
  <2>1. CASE Dirty(r)'
    BY <1>3, <1>6, <2>1
  <2>2. CASE Invalidate(r) /\ WillCache(t) = {}
    <3>1. cache'[t] = NoEntry
      BY <2>2 DEF Invalidate, InvalidateQueryCache
    <3>2. ~Execute(r)
      BY <2>2, Guards
    <3>3. WillCache(t)' = {}
      BY <2>2, <3>2, WillCacheStep
    <3> QED
      BY <3>1, <3>3 DEF Clean
  <2> QED
    BY <1>6, <2>1, <2>2, DirtyStep
<1>7. CASE Clean(t)
  <2>1. CASE B(r).table = t /\ ~UNCHANGED contents
    <3>1. CASE Dirty(r)'
      BY <1>3, <2>1, <3>1
    <3>2. CASE WillCache(t) = {} /\ cache[t] = NoEntry /\ UNCHANGED cache
      <4>1. WillCache(t)' = {}
        BY <2>1, <3>2, WillCacheStep
      <4> QED
        BY <3>2, <4>1 DEF Clean
    <3> QED
      BY <2>1, <3>1, <3>2, WritesAreAnnounced
  <2>2. CASE B(r).table # t \/ UNCHANGED contents
    <3>1. contents'[t] = contents[t]
      BY <2>2, StepTables
    <3>2. cache'[t] \in {NoEntry, contents[t]}
      <4>1. CASE UNCHANGED cache
        BY <1>7, <4>1 DEF Clean
      <4>2. CASE Lookup(r) \/ Invalidate(r)
        BY <1>7, <4>2 DEF Clean, Lookup, Invalidate, InvalidateQueryCache
      <4>3. CASE StoreInCache(r)
        <5>1. CASE B(r).useCache /\ ~req[r].hit /\ B(r).table = t
          <6>1. r \in WillCache(t)
            BY <1>1, <4>3, <5>1, Guards DEF WillCache, AtHome
          <6>2. cache'[t] = req[r].result
            BY <1>1, <4>3, <5>1 DEF StoreInCache
          <6> QED
            BY <1>7, <6>1, <6>2 DEF Clean
        <5>2. CASE ~(B(r).useCache /\ ~req[r].hit /\ B(r).table = t)
          <6>1. cache'[t] = cache[t]
            BY <1>1, <4>3, <5>2 DEF StoreInCache
          <6> QED
            BY <1>7, <6>1 DEF Clean
        <5> QED
          BY <5>1, <5>2
      <4> QED
        BY <4>1, <4>2, <4>3, Footprint
    <3>3. \A q \in WillCache(t)' : req'[q].result = contents[t]
      BY <1>7, WillCacheStep DEF Clean
    <3> QED
      BY <3>1, <3>2, <3>3 DEF Clean
  <2> QED
    BY <2>1, <2>2
<1> QED
  BY <1>2, <1>5, <1>6, <1>7 DEF CacheInv

\* The cache serves no old result, whatever SELECTs, jobs and writers
\* interleave, except where history remembers that the code lets it; a load or
\* a copy whose rows are in the table announces them at its end.
THEOREM CacheFreshAlways == Spec => []CacheFresh
<1>1. Init => CacheInv
  BY DEF Init, CacheInv, Clean, WillCache, Pc
<1>2. TypeInv /\ CacheInv /\ [Next]_vars => CacheInv'
  <2>1. TypeInv /\ CacheInv /\ Crash => CacheInv'
    <3>1. TypeInv /\ Crash => \A q \in Requests : req'[q].pc \notin {"record", "store"}
      BY CrashMoves DEF Active, Pc
    <3>2. TypeInv /\ Crash => \A t \in Tables : cache'[t] = NoEntry /\ WillCache(t)' = {}
      BY <3>1 DEF Crash, InvalidateQueryCache, WillCache, Pc
    <3> QED
      BY <3>2 DEF CacheInv, Clean
  <2>2. CacheInv /\ UNCHANGED vars => CacheInv'
    BY DEF CacheInv, Clean, WillCache, Dirty, Pc, B, vars, tableVars
  <2> QED
    BY <2>1, <2>2, CacheStep DEF Next
<1>3. TypeInv /\ CacheInv => CacheFresh
  <2> SUFFICES ASSUME TypeInv, NEW r \in Requests, Dirty(r)
               PROVE  Announcing(B(r).table)
    BY DEF CacheInv, CacheFresh, Clean
  <2>1. AtHome(r)
    BY DEF TypeInv
  <2> QED
    BY <2>1 DEF Dirty, Announcing, AtHome, Loads
<1> QED
  BY <1>1, <1>2, <1>3, TypesAlways, PTL DEF Spec

-----------------------------------------------------------------------------
(***************************************************************************)
(* Pages are the result.                                                   *)
(***************************************************************************)

\* As many as there are keys from a to b.
LEMMA CountOfRun ==
  ASSUME NEW S, NEW a \in Int, NEW b \in Int, a <= b + 1,
         NEW key \in Injection(S, a..b), key \in Surjection(S, a..b)
  PROVE  Cardinality(S) = b - a + 1
<1>1. IsFiniteSet(a..b) /\ Cardinality(a..b) = b - a + 1
  <2>1. a > b => b - a + 1 = 0
    OBVIOUS
  <2> QED
    BY <2>1, FS_Interval
<1> QED
  BY <1>1, FS_Injection

\* The stored rows of a job are numbered from 1 to n.
NumberedTo(j, n) ==
  /\ \A x \in jobRows : x[1] = j => x[2] <= n
  /\ \A k \in 1..n : \E x \in jobRows : x[1] = j /\ x[2] = k

\* A page of a job's rows holds those that follow the offset, in order.
LEMMA PageOfRun ==
  ASSUME jobRows \subseteq JobIds \X (Nat \ {0}) \X Rows, PrimaryKey,
         NEW j \in JobIds, NEW n \in Nat, NEW offset \in 0..n, NumberedTo(j, n)
  PROVE  /\ Len(Page(j, offset)) \in 0..(n - offset)
         /\ \A i \in 1..Len(Page(j, offset)) : \E x \in jobRows :
              x[1] = j /\ x[2] = offset + i /\ Page(j, offset)[i] = x[3]
<1> DEFINE L == Later(j, offset)
           m == IF offset + PageSize <= n THEN offset + PageSize ELSE n
           X == {x \in L : Cardinality(Before(x, j, offset)) < PageSize}
<1>1. /\ PageSize \in Nat \ {0} /\ m \in Nat /\ offset <= m /\ m <= n
      /\ \A k \in Nat : k <= m <=> k <= n /\ k <= offset + PageSize
  BY JobsAssumption
<1>2. \A x \in L : x \in jobRows /\ x[1] = j /\ x[2] \in (offset + 1)..n
  BY DEF Later, NumberedTo
<1>3. \A k \in (offset + 1)..n : \E x \in L : x[2] = k
  BY DEF Later, NumberedTo
<1>4. \A x, y \in L : x[2] = y[2] => x = y
  BY <1>2 DEF PrimaryKey
<1>5. ASSUME NEW S \in SUBSET L, NEW b \in offset..n,
             \A x \in L : x \in S <=> x[2] <= b
      PROVE  Cardinality(S) = b - offset
  <2> DEFINE key == [x \in S |-> x[2]]
             a == offset + 1
  <2>1. a \in Int /\ b \in Int /\ a <= b + 1
    OBVIOUS
  <2>2. key \in [S -> a..b]
    BY <1>2, <1>5
  <2>3. \A k \in a..b : \E x \in S : key[x] = k
    BY <1>3, <1>5
  <2>4. \A x, y \in S : key[x] = key[y] => x = y
    BY <1>4
  <2> HIDE DEF key, a, L, m, X
  <2>5. key \in Injection(S, a..b)
    BY <2>2, <2>4, Fun_IsInj
  <2>6. key \in Surjection(S, a..b)
    BY <2>2, <2>3 DEF Surjection
  <2>7. Cardinality(S) = b - a + 1
    BY <2>1, <2>5, <2>6, CountOfRun
  <2> QED
    BY <2>7 DEF a
<1>6. ASSUME NEW x \in L
      PROVE  Cardinality(Before(x, j, offset)) = x[2] - 1 - offset
  <2> DEFINE b == x[2] - 1
  <2>1. b \in offset..n
    BY <1>2
  <2>2. Before(x, j, offset) \in SUBSET L
    BY DEF Before
  <2>3. \A y \in L : y \in Before(x, j, offset) <=> y[2] <= b
    BY <1>2 DEF Before
  <2> HIDE DEF b, L
  <2>4. Cardinality(Before(x, j, offset)) = b - offset
    BY <1>5, <2>1, <2>2, <2>3
  <2> QED
    BY <2>4 DEF b
<1>7. \A x \in L : x \in X <=> x[2] <= m
  BY <1>1, <1>2, <1>6
<1>8. Cardinality(X) = m - offset
  <2>1. X \in SUBSET L /\ m \in offset..n
    BY <1>1
  <2> HIDE DEF X, m, L
  <2> QED
    BY <1>5, <1>7, <2>1
<1>9. Page(j, offset) = [i \in 1..Cardinality(X) |->
                          (CHOOSE x \in X : Cardinality(Before(x, j, offset)) = i - 1)[3]]
  BY DEF Page
<1>10. X \subseteq L
  OBVIOUS
<1> HIDE DEF X, m, L
<1>11. ASSUME NEW i \in 1..(m - offset)
       PROVE  \E x \in jobRows : x[1] = j /\ x[2] = offset + i /\ Page(j, offset)[i] = x[3]
  <2> DEFINE At(x) == Cardinality(Before(x, j, offset)) = i - 1
  <2>1. \E x \in X : At(x)
    <3>1. offset + i \in (offset + 1)..n /\ offset + i <= m
      BY <1>1
    <3>2. PICK x \in L : x[2] = offset + i
      BY <1>3, <3>1
    <3>3. Cardinality(Before(x, j, offset)) = (offset + i) - 1 - offset
      BY <1>6, <3>2
    <3>4. x \in X
      BY <1>7, <3>1, <3>2
    <3> QED
      BY <1>1, <3>3, <3>4
  <2>2. PICK x \in X : x = (CHOOSE y \in X : At(y)) /\ At(x)
    BY <2>1
  <2>3. x[2] - 1 - offset = i - 1 /\ x[2] \in Nat
    BY <1>2, <1>6, <1>10, <2>2
  <2>4. x[2] = offset + i
    BY <2>3
  <2>5. Page(j, offset)[i] = x[3]
    BY <1>8, <1>9, <2>2
  <2> QED
    BY <1>2, <1>10, <2>4, <2>5
<1>12. Len(Page(j, offset)) = m - offset
  <2>1. m - offset \in Nat
    BY <1>1
  <2> QED
    BY <1>8, <1>9, <2>1
<1> QED
  BY <1>1, <1>11, <1>12

\* A request with locals l has recorded its job, with a number of rows.
Recorded(l, total) ==
  IF l.body.kind = "select"
  THEN l.pc \in {"store", "answer", "ended"} /\ total = Len(l.result)
  ELSE total = 0

\* Rows are the first of those a SELECT with locals l has stored.
FirstOf(rows, l) ==
  /\ l.body.kind = "select" /\ Len(rows) <= l.at
  /\ \A i \in 1..Len(rows) : rows[i] = l.result[i]

\* What clients have been given of job j.
Delivered(j) ==
  /\ jobs[j] # NoJob /\ jobs[j].state = "DONE" => \E q \in RunnersOf(j) : Recorded(req[q], jobs[j].total)
  /\ \A r \in Requests : B(r).kind = "results" /\ JobOf(r) = j =>
       /\ req[r].result = <<>> \/ \E q \in RunnersOf(j) : FirstOf(req[r].result, req[q])
       /\ Pc(r) = "getPage" /\ req[r].seen.state = "DONE" =>
            \E q \in RunnersOf(j) : Recorded(req[q], req[r].seen.total)
       /\ req[r].outcome = "ok" => \E q \in RunnersOf(j) : Recorded(req[q], Len(req[r].result))

PagesInv ==
  /\ \A q \in Requests : B(q).kind \in Dml => req[q].result = <<>>
  /\ \A j \in JobIds : Undisturbed(j) => Delivered(j)

\* A DML statement has no rows.
LEMMA DmlStep ==
  ASSUME TypeInv, NEW r \in Requests, Step(r), B(r).kind \in Dml
  PROVE  req'[r].result = req[r].result
<1>1. req \in [Requests -> Locals] /\ TypeOK /\ AtHome(r)
  BY DEF TypeInv, TypeOK
<1>2. Start(r) \/ Running(r) \/ Query(r)
  BY <1>1, Guards DEF Step, Load, CopyOrExtract, EndJob, CancelOrDelete, Results, TableRows, AtHome,
    Writers, Loads, Extracts, Movers, Dml
<1>3. CASE Start(r) \/ Running(r)
  BY <1>1, <1>3, StartMoves DEF Goes, Moved
<1>4. CASE EnforceJobLocation(r) \/ Lookup(r) \/ Record(r) \/ StoreInCache(r) \/ Answer(r) \/ Plan(r)
  BY <1>1, <1>4, QueryMoves DEF Goes, Ends, Moved
<1>5. CASE Execute(r)
  BY <1>1, <1>5, ExecuteMoves DEF Ends, Moved, Counted, Dml
<1>6. ~ReturnCachedSelect(r)
  BY DEF ReturnCachedSelect, Cached, Dml
<1>7. CASE StoreRow(r)
  BY <1>1, <1>7, CountingMoves DEF Ends, Moved, Counted
<1> QED
  BY <1>2, <1>3, <1>4, <1>5, <1>6, <1>7 DEF Query

\* What is recorded stays.
LEMMA RecordedStays ==
  ASSUME TypeInv, NEW r \in Requests, Step(r), NEW q \in Requests, NEW total, Recorded(req[q], total)
  PROVE  Recorded(req'[q], total)
<1>1. B(q)' = B(q)
  BY NamedStay
<1>2. CASE q # r \/ B(q).kind # "select"
  BY <1>1, <1>2, NamedStay DEF Recorded, Pc, B
<1>3. CASE q = r /\ B(q).kind = "select"
  <2>1. Pc(r) \in {"store", "answer", "ended"}
    BY <1>3 DEF Recorded, B, Pc
  <2>2. StoreRow(r) \/ StoreInCache(r) \/ Answer(r)
    BY <2>1, Guards DEF Step, Query, Load, CopyOrExtract, EndJob, CancelOrDelete, Results, TableRows
  <2>3. Pc(r)' \in {"store", "answer", "ended"} /\ req'[r].result = req[r].result
    BY <2>2, QueryMoves, CountingMoves DEF TypeInv, TypeOK, Goes, Ends, Moved, Counted, Pc
  <2> QED
    BY <1>1, <1>3, <2>3 DEF Recorded, B, Pc
<1> QED
  BY <1>2, <1>3

\* Rows that a SELECT has stored it will have stored.
LEMMA FirstStays ==
  ASSUME TypeInv, StoresInOrder, NEW r \in Requests, Step(r), NEW q \in Requests,
         NEW rows \in Seq(Rows), FirstOf(rows, req[q])
  PROVE  FirstOf(rows, req'[q])
<1>1. B(q)' = B(q) /\ B(q).kind = "select"
  BY NamedStay DEF FirstOf, B
<1>2. CASE q # r
  BY <1>1, <1>2, NamedStay DEF FirstOf, B
<1>3. CASE q = r
  <2>1. req[r].at \in Nat /\ Len(rows) \in Nat
    BY DEF TypeInv, TypeOK, Locals
  <2>2. req[r].at <= req'[r].at /\ req'[r].at \in Nat
    BY <1>1, <1>3, <2>1, SelectStep
  <2>3. req'[r].result = req[r].result \/ Len(rows) = 0
    BY <1>1, <1>3, <2>1, SelectStep DEF StoresInOrder, FirstOf, B
  <2> QED
    BY <1>1, <1>3, <2>1, <2>2, <2>3 DEF FirstOf, B
<1> QED
  BY <1>2, <1>3

\* A page continues what the client has been given.
LEMMA PageDelivers ==
  ASSUME TypeInv, RowsInv, NEW j \in JobIds, Undisturbed(j), Delivered(j),
         NEW r \in Requests, B(r).kind = "results", JobOf(r) = j,
         NEW rows \in Seq(Rows), rows = Page(j, Offset(r))
  PROVE  \/ req[r].result \o rows = <<>>
         \/ \E q \in RunnersOf(j) : FirstOf(req[r].result \o rows, req[q])
<1> DEFINE result == req[r].result
           offset == Len(result)
<1>1. /\ req \in [Requests -> Locals] /\ PrimaryKey
      /\ jobRows \subseteq JobIds \X (Nat \ {0}) \X Rows
  BY DEF TypeInv, TypeOK
<1>2. result \in Seq(Rows) /\ offset \in Nat /\ rows = Page(j, offset)
  BY <1>1 DEF Locals, Offset
<1>3. StoredOnce(j) /\ StoresInOrder
  BY DEF RowsInv, Undisturbed
<1>4. result = <<>> \/ \E q \in RunnersOf(j) : FirstOf(result, req[q])
  BY DEF Delivered
<1>5. \A q \in RunnersOf(j) : B(q).kind = "select" => SelectOf(q, j) /\ q \in Requests
  BY DEF RunnersOf, SelectOf
<1>6. \A q \in Requests : SelectOf(q, j) /\ req[q].at > 0 => q \in RunnersOf(j)
  BY <1>3 DEF RunnersOf, SelectOf, Runners, Queries, Selects, Started, StoresInOrder, Unrecorded
<1>7. \A q \in Requests : req[q].at \in Nat
  BY <1>1 DEF Locals
<1> HIDE DEF result
<1>8. CASE \E y \in jobRows : y[1] = j
  <2>1. PICK y \in jobRows : y[1] = j
    BY <1>8
  <2>2. PICK q \in Requests : SelectOf(q, j) /\ y[2] <= req[q].at
    BY <1>3, <2>1 DEF StoredOnce
  <2> DEFINE n == req[q].at
  <2>3. n \in Nat /\ n > 0 /\ y[2] \in Nat \ {0}
    BY <1>1, <1>7, <2>2
  <2>4. q \in RunnersOf(j)
    BY <1>6, <2>2, <2>3
  <2>5. \A x \in jobRows : x[1] = j => x[2] <= n
    <3>1. ASSUME NEW x \in jobRows, x[1] = j
          PROVE  x[2] <= n
      <4>1. PICK p \in Requests : SelectOf(p, j) /\ x[2] <= req[p].at
        BY <1>3, <3>1 DEF StoredOnce
      <4>2. req[p].at \in Nat /\ x[2] \in Nat \ {0}
        BY <1>1, <1>7
      <4>3. p = q
        BY <1>3, <2>2, <2>3, <4>1, <4>2 DEF StoredOnce
      <4> QED
        BY <4>1, <4>3
    <3> QED
      BY <3>1
  <2>6. \A k \in 1..n : <<j, k, req[q].result[k]>> \in jobRows
    BY <1>3, <2>2 DEF StoredOnce
  <2>7. \A k \in 1..n : \E x \in jobRows : x[1] = j /\ x[2] = k
    <3>1. \A k : <<j, k, req[q].result[k]>>[1] = j /\ <<j, k, req[q].result[k]>>[2] = k
      OBVIOUS
    <3> QED
      BY <2>6, <3>1
  <2>8. offset <= n /\ \A i \in 1..offset : result[i] = req[q].result[i]
    <3>1. CASE result = <<>>
      BY <2>3, <3>1
    <3>2. ASSUME NEW p \in RunnersOf(j), FirstOf(result, req[p])
          PROVE  offset <= n /\ \A i \in 1..offset : result[i] = req[q].result[i]
      <4>1. p = q
        BY <2>4, <3>2 DEF Undisturbed
      <4> QED
        BY <3>2, <4>1 DEF FirstOf, B
    <3> QED
      BY <1>4, <3>1, <3>2
  <2>9. /\ Len(rows) \in 0..(n - offset)
        /\ \A i \in 1..Len(rows) : \E x \in jobRows :
             x[1] = j /\ x[2] = offset + i /\ rows[i] = x[3]
    <3>1. offset \in 0..n
      BY <1>2, <2>3, <2>8
    <3>2. NumberedTo(j, n)
      BY <2>5, <2>7 DEF NumberedTo
    <3> HIDE DEF offset, n
    <3>3. /\ Len(Page(j, offset)) \in 0..(n - offset)
          /\ \A i \in 1..Len(Page(j, offset)) : \E x \in jobRows :
               x[1] = j /\ x[2] = offset + i /\ Page(j, offset)[i] = x[3]
      BY <1>1, <2>3, <3>1, <3>2, PageOfRun
    <3> QED
      BY <1>2, <3>3
  <2>10. ASSUME NEW i \in 1..Len(rows)
         PROVE  rows[i] = req[q].result[offset + i]
    <3>1. PICK x \in jobRows : x[1] = j /\ x[2] = offset + i /\ rows[i] = x[3]
      BY <2>9
    <3>2. offset + i \in 1..n
      BY <1>2, <2>3, <2>8, <2>9
    <3>3. PICK z \in jobRows : z = <<j, offset + i, req[q].result[offset + i]>>
      BY <2>6, <3>2
    <3>4. x = z
      BY <1>1, <3>1, <3>3 DEF PrimaryKey
    <3> QED
      BY <3>1, <3>3, <3>4
  <2>11. /\ Len(result \o rows) = offset + Len(rows)
         /\ \A i \in 1..(offset + Len(rows)) :
              (result \o rows)[i] = IF i <= offset THEN result[i] ELSE rows[i - offset]
    BY <1>2, ConcatProperties
  <2>12. FirstOf(result \o rows, req[q])
    <3>1. Len(result \o rows) <= n
      BY <1>2, <2>3, <2>8, <2>9, <2>11
    <3>2. ASSUME NEW i \in 1..Len(result \o rows)
          PROVE  (result \o rows)[i] = req[q].result[i]
      <4>1. CASE i <= offset
        BY <1>2, <2>8, <2>11, <3>2, <4>1
      <4>2. CASE i > offset
        <5> DEFINE k == i - offset
        <5>1. k \in 1..Len(rows) /\ i = offset + k
          BY <1>2, <2>9, <2>11, <3>2, <4>2
        <5>2. rows[k] = req[q].result[i]
          BY <2>10, <5>1
        <5> QED
          BY <1>2, <2>9, <2>11, <3>2, <4>2, <5>2
      <4> QED
        BY <1>2, <2>9, <2>11, <4>1, <4>2
    <3> QED
      BY <2>2, <3>1, <3>2 DEF FirstOf, SelectOf, B
  <2> QED
    BY <2>4, <2>12 DEF result
<1>9. CASE \A y \in jobRows : y[1] # j
  <2>1. result = <<>>
    <3>1. ASSUME NEW q \in RunnersOf(j), FirstOf(result, req[q]), result # <<>>
          PROVE  FALSE
      <4>1. Len(result) > 0 /\ SelectOf(q, j) /\ req[q].at >= Len(result) /\ q \in Requests
        BY <1>2, <1>5, <3>1, EmptySeq DEF FirstOf, B
      <4>2. <<j, 1, req[q].result[1]>> \in jobRows
        BY <1>2, <1>3, <1>7, <4>1 DEF StoredOnce
      <4>3. <<j, 1, req[q].result[1]>>[1] = j
        OBVIOUS
      <4> QED
        BY <1>9, <4>2, <4>3
    <3> QED
      BY <1>4, <3>1
  <2>2. Len(rows) = 0
    <3> DEFINE n == 0
    <3>1. n \in Nat /\ 0 \in 0..n /\ rows = Page(j, 0)
      BY <1>2, <2>1
    <3>2. NumberedTo(j, n)
      BY <1>9 DEF NumberedTo
    <3>3. Len(Page(j, 0)) \in 0..(n - 0)
      BY <1>1, <3>1, <3>2, PageOfRun
    <3> QED
      BY <3>1, <3>3
  <2>3. rows = <<>>
    BY <2>2, EmptySeq
  <2> QED
    BY <1>2, <2>1, <2>3, ConcatEmptySeq DEF result
<1> QED
  BY <1>8, <1>9

\* A step of a client that reads results.
LEMMA ReaderStep ==
  ASSUME TypeInv, NEW r \in Requests, Step(r), B(r).kind = "results"
  PROVE  \/ /\ req'[r].result = req[r].result
            /\ req'[r].outcome # "ok"
            /\ req'[r].pc = "getPage" =>
                 /\ req'[r].seen = jobs[JobOf(r)] /\ jobs[JobOf(r)] # NoJob
         \/ ReadPage(r)
<1>1. req \in [Requests -> Locals] /\ TypeOK /\ AtHome(r) /\ Answered(r)
  BY DEF TypeInv, TypeOK
<1>2. Start(r) \/ ReadJob(r) \/ ReadPage(r)
  BY <1>1, Guards DEF Step, Query, Load, CopyOrExtract, EndJob, CancelOrDelete, Results, TableRows,
    AtHome, Writers, Loads, Extracts, Movers, Queries, Selects, Dml, Runners
<1>3. req[r].outcome = "none"
  BY <1>1, <1>2, Guards DEF Answered
<1>4. CASE Start(r)
  <2>1. First(B(r)) = "getJob"
    BY DEF First, Movers, Loads, Extracts, Queries, Selects, Dml, Writers
  <2>2. Goes(r, "getJob")
    BY <1>1, <1>4, <2>1, StartMoves
  <2> QED
    BY <1>3, <2>2 DEF Goes, Moved
<1>5. CASE ReadJob(r)
  BY <1>3, <1>5, ReadingMoves DEF Ends, Moved, GetJob
<1> QED
  BY <1>2, <1>4, <1>5

\* A step keeps what clients of an undisturbed job have been given.
LEMMA DeliveredStep ==
  ASSUME TypeInv, RowsInv, PagesInv, NEW r \in Requests, Step(r), NEW j \in JobIds,
         Undisturbed(j)'
  PROVE  Delivered(j)'
<1>1. /\ req \in [Requests -> Locals] /\ req' \in [Requests -> Locals] /\ TypeOK /\ AtHome(r)
      /\ StoresInOrder
  BY StepLocal DEF TypeInv, TypeOK, Local, RowsInv
<1>2. \A q \in Requests : /\ B(q)' = B(q) /\ JobOf(q)' = JobOf(q) /\ Pc(q)' = req'[q].pc
                          /\ req[q].result \in Seq(Rows) /\ Len(req[q].result) \in Nat
  BY <1>1, NamedStay DEF Pc, Locals
<1>3. RunnersOf(j) \subseteq RunnersOf(j)' /\ RunnersOf(j) \subseteq Requests
  BY RunnersStay DEF RunnersOf
<1>4. Undisturbed(j) /\ Delivered(j)
  <2>1. "cancel" \in Kinds /\ "delete" \in Kinds
    BY DEF Kinds
  <2>2. Named("cancel", j) = {} /\ Named("delete", j) = {}
    BY <2>1, NamedStay DEF Undisturbed
  <2> QED
    BY <1>3, <2>2 DEF Undisturbed, PagesInv
<1>5. \A total : (\E q \in RunnersOf(j) : Recorded(req[q], total)) =>
                 \E q \in RunnersOf(j)' : Recorded(req'[q], total)
  BY <1>3, RecordedStays
<1>6. ASSUME jobs'[j] # NoJob, jobs'[j].state = "DONE"
      PROVE  \E q \in RunnersOf(j)' : Recorded(req'[q], jobs'[j].total)
  <2>1. CASE jobs'[j] = jobs[j]
    <3>1. \E q \in RunnersOf(j) : Recorded(req[q], jobs[j].total)
      BY <1>4, <1>6, <2>1 DEF Delivered
    <3> DEFINE n == jobs[j].total
    <3>2. \E q \in RunnersOf(j)' : Recorded(req'[q], n)
      BY <1>3, <3>1, RecordedStays
    <3> QED
      BY <2>1, <3>2 DEF Recorded, B
  <2>2. CASE j = JobOf(r) /\ CancelJob(r)
    <3>1. B(r).kind = "cancel" /\ Started(r)
      BY <1>1, <2>2, Guards DEF AtHome, Started
    <3> QED
      BY <1>4, <2>2, <3>1 DEF Undisturbed, Named
  <2>3. CASE j = JobOf(r) /\ (Finish(r) \/ FailJob(r)) /\ jobs'[j].total = 0
    <3>1. B(r).kind \in Movers /\ Started(r)
      BY <1>1, <2>3, Guards DEF AtHome, Started
    <3>2. r \in RunnersOf(j) /\ B(r).kind # "select"
      BY <2>3, <3>1 DEF RunnersOf, Runners, Movers, Loads, Extracts
    <3> QED
      BY <1>2, <1>3, <2>3, <3>2 DEF Recorded, B
  <2>4. CASE j = JobOf(r) /\ Record(r) /\ jobs'[j].total = Len(req[r].result)
    <3>1. B(r).kind \in Queries /\ Started(r) /\ r \in RunnersOf(j)
      BY <1>1, <2>4, Guards DEF AtHome, Started, RunnersOf, Runners
    <3>2. req'[r].result = req[r].result
      BY <1>1, <2>4, QueryMoves DEF Goes, Moved
    <3>3. CASE B(r).kind = "select"
      <4>1. Pc(r)' = "store"
        BY <1>1, <1>2, <2>4, <3>3, QueryMoves DEF Goes
      <4> QED
        BY <1>2, <1>3, <2>4, <3>1, <3>2, <3>3, <4>1 DEF Recorded, B
    <3>4. CASE B(r).kind # "select"
      <4>1. req[r].result = <<>>
        BY <3>1, <3>4 DEF PagesInv, Queries, Selects
      <4> QED
        BY <1>2, <1>3, <2>4, <3>1, <3>4, <4>1 DEF Recorded, B
    <3> QED
      BY <3>3, <3>4
  <2> QED
    BY <1>6, <2>1, <2>2, <2>3, <2>4, JobsAfter
<1>7. ASSUME NEW x \in Requests, B(x).kind = "results", JobOf(x) = j, x # r
      PROVE  /\ req'[x].result = <<>> \/ \E q \in RunnersOf(j)' : FirstOf(req'[x].result, req'[q])
             /\ Pc(x)' = "getPage" /\ req'[x].seen.state = "DONE" =>
                  \E q \in RunnersOf(j)' : Recorded(req'[q], req'[x].seen.total)
             /\ req'[x].outcome = "ok" =>
                  \E q \in RunnersOf(j)' : Recorded(req'[q], Len(req'[x].result))
  <2>1. req'[x] = req[x] /\ Pc(x)' = Pc(x)
    BY <1>7, NamedStay DEF Pc
  <2> DEFINE rows == req[x].result
             n == req[x].seen.total
             m == Len(rows)
  <2>2. rows = <<>> \/ \E q \in RunnersOf(j) : FirstOf(rows, req[q])
    BY <1>4, <1>7 DEF Delivered
  <2>3. \A q \in RunnersOf(j) : FirstOf(rows, req[q]) => FirstOf(rows, req'[q])
    <3>1. rows \in Seq(Rows)
      BY <1>2
    <3> HIDE DEF rows
    <3> QED
      BY <1>1, <1>3, <3>1, FirstStays
  <2>4. rows = <<>> \/ \E q \in RunnersOf(j)' : FirstOf(rows, req'[q])
    BY <1>3, <2>2, <2>3
  <2>5. Pc(x) = "getPage" /\ req[x].seen.state = "DONE" =>
          \E q \in RunnersOf(j)' : Recorded(req'[q], n)
    BY <1>4, <1>5, <1>7 DEF Delivered
  <2>6. req[x].outcome = "ok" => \E q \in RunnersOf(j)' : Recorded(req'[q], m)
    BY <1>4, <1>5, <1>7 DEF Delivered
  <2> QED
    BY <2>1, <2>4, <2>5, <2>6 DEF FirstOf, Recorded, B
<1>8. ASSUME B(r).kind = "results", JobOf(r) = j
      PROVE  /\ req'[r].result = <<>> \/ \E q \in RunnersOf(j)' : FirstOf(req'[r].result, req'[q])
             /\ Pc(r)' = "getPage" /\ req'[r].seen.state = "DONE" =>
                  \E q \in RunnersOf(j)' : Recorded(req'[q], req'[r].seen.total)
             /\ req'[r].outcome = "ok" =>
                  \E q \in RunnersOf(j)' : Recorded(req'[q], Len(req'[r].result))
  <2>1. CASE /\ req'[r].result = req[r].result
             /\ req'[r].outcome # "ok"
             /\ req'[r].pc = "getPage" =>
                  /\ req'[r].seen = jobs[JobOf(r)] /\ jobs[JobOf(r)] # NoJob
    <3> DEFINE rows == req[r].result
               n == jobs[j].total
    <3>1. rows = <<>> \/ \E q \in RunnersOf(j) : FirstOf(rows, req[q])
      BY <1>4, <1>8 DEF Delivered
    <3>2. \A q \in RunnersOf(j) : FirstOf(rows, req[q]) => FirstOf(rows, req'[q])
      <4>1. rows \in Seq(Rows)
        BY <1>2
      <4> HIDE DEF rows
      <4> QED
        BY <1>1, <1>3, <4>1, FirstStays
    <3>3. rows = <<>> \/ \E q \in RunnersOf(j)' : FirstOf(rows, req'[q])
      BY <1>3, <3>1, <3>2
    <3>4. jobs[j] # NoJob /\ jobs[j].state = "DONE" => \E q \in RunnersOf(j)' : Recorded(req'[q], n)
      BY <1>4, <1>5 DEF Delivered
    <3> QED
      BY <1>2, <1>8, <2>1, <3>3, <3>4 DEF FirstOf, Recorded, B
  <2>2. CASE ReadPage(r)
    <3> DEFINE rows == Page(JobOf(r), Offset(r))
               given == req[r].result \o rows
               total == req[r].seen.total
               m == Len(given)
               more == HasMore(Offset(r) + Len(rows), total)
               complete == req[r].seen.state = "DONE"
    <3>1. /\ rows \in Seq(Rows) /\ req'[r].result = given
          /\ IF more \/ ~complete THEN req'[r].pc = "getJob" /\ req'[r].outcome = "none"
             ELSE req'[r].pc = "ended" /\ req'[r].outcome = "ok"
      BY <2>2, ReadPageMoves
    <3>2. rows = Page(j, Offset(r))
      BY <1>8
    <3>3. given \in Seq(Rows) /\ m = Offset(r) + Len(rows) /\ m \in Nat
      <4> HIDE DEF rows
      <4>1. req[r].result \in Seq(Rows)
        BY <1>2
      <4>2. Len(req[r].result \o rows) = Len(req[r].result) + Len(rows)
        BY <3>1, <4>1, ConcatProperties
      <4>3. req[r].result \o rows \in Seq(Rows)
        BY <3>1, <4>1, ConcatProperties
      <4> QED
        BY <4>2, <4>3, LenProperties DEF Offset
    <3>4. given = <<>> \/ \E q \in RunnersOf(j) : FirstOf(given, req[q])
      <4> HIDE DEF rows
      <4> QED
        BY <1>4, <1>8, <3>1, <3>2, PageDelivers
    <3> HIDE DEF given
    <3>5. given = <<>> \/ \E q \in RunnersOf(j)' : FirstOf(given, req'[q])
      <4>1. \A q \in RunnersOf(j) : FirstOf(given, req[q]) => FirstOf(given, req'[q])
        BY <1>1, <1>3, <3>3, FirstStays
      <4> QED
        BY <1>3, <3>4, <4>1
    <3>6. ASSUME ~more, complete
          PROVE  \E q \in RunnersOf(j) : Recorded(req[q], m)
      <4>1. Pc(r) = "getPage"
        BY <2>2, Guards
      <4>2. PICK q \in RunnersOf(j) : Recorded(req[q], total)
        BY <1>4, <1>8, <3>6, <4>1 DEF Delivered
      <4>3. ~(m < total)
        BY <3>3, <3>6 DEF HasMore
      <4>4. total \in Nat
        BY <1>2, <1>3, <4>2 DEF Recorded, B
      <4>5. m <= total
        <5>1. CASE given = <<>>
          BY <4>4, <5>1
        <5>2. ASSUME NEW p \in RunnersOf(j), FirstOf(given, req[p])
              PROVE  m <= total
          <6>1. p = q /\ q \in Requests
            BY <1>3, <1>4 DEF Undisturbed
          <6>2. B(q).kind = "select" /\ m <= req[q].at /\ req[q].at <= Len(req[q].result)
            BY <1>1, <5>2, <6>1 DEF FirstOf, StoresInOrder, B
          <6>3. req[q].at \in Nat /\ total = Len(req[q].result)
            BY <1>1, <4>2, <6>1, <6>2 DEF Recorded, Locals, B
          <6> QED
            BY <3>3, <4>4, <6>2, <6>3
        <5> QED
          BY <3>4, <5>1, <5>2
      <4>6. m = total
        BY <3>3, <4>3, <4>4, <4>5
      <4> QED
        BY <4>2, <4>6
    <3>7. ~more /\ complete => \E q \in RunnersOf(j)' : Recorded(req'[q], m)
      BY <1>5, <3>6
    <3> HIDE DEF more, complete, rows
    <3> QED
      BY <1>2, <3>1, <3>5, <3>7 DEF FirstOf, Recorded, B
  <2> QED
    BY <1>8, <2>1, <2>2, ReaderStep
<1> QED
  BY <1>2, <1>6, <1>7, <1>8 DEF Delivered

LEMMA PagesStep ==
  ASSUME TypeInv, RowsInv, PagesInv, NEW r \in Requests, Step(r)
  PROVE  PagesInv'
<1>1. ASSUME NEW q \in Requests, B(q)'.kind \in Dml
      PROVE  req'[q].result = <<>>
  <2>1. B(q).kind \in Dml /\ req[q].result = <<>>
    BY <1>1, NamedStay DEF PagesInv
  <2>2. CASE q = r
    BY <2>1, <2>2, DmlStep
  <2>3. CASE q # r
    BY <2>1, <2>3, NamedStay
  <2> QED
    BY <2>2, <2>3
<1> QED
  BY <1>1, DeliveredStep DEF PagesInv

\* So does a crash: what was stored of a result stays, and so does the job.
LEMMA PagesCrash ==
  ASSUME TypeInv, PagesInv, Crash
  PROVE  PagesInv'
<1>1. \A q \in Requests : /\ B(q)' = B(q) /\ JobOf(q)' = JobOf(q) /\ Started(q)' = Started(q)
                          /\ req'[q].body = req[q].body
                          /\ req'[q].at = req[q].at /\ req'[q].result = req[q].result
                          /\ req'[q].pc = req[q].pc \/ req'[q].pc = "ended"
                          /\ req'[q] = req[q] \/ (req'[q].pc = "ended" /\ req'[q].outcome = "lost")
  BY CrashMoves DEF B, JobOf, Pc, Started, Active
<1>2. UNCHANGED jobs
  BY DEF Crash, jobVars
<1>3. \A q \in Requests : \A total : Recorded(req[q], total) => Recorded(req'[q], total)
  BY <1>1 DEF Recorded
<1>4. \A q \in Requests : \A rows : FirstOf(rows, req[q]) => FirstOf(rows, req'[q])
  BY <1>1 DEF FirstOf
<1>5. ASSUME NEW j \in JobIds, Undisturbed(j)'
      PROVE  Delivered(j)'
  <2>1. RunnersOf(j)' = RunnersOf(j) /\ RunnersOf(j) \subseteq Requests
    BY <1>1 DEF RunnersOf
  <2>2. Named("cancel", j)' = Named("cancel", j) /\ Named("delete", j)' = Named("delete", j)
    BY <1>1 DEF Named
  <2>3. Delivered(j)
    BY <1>5, <2>1, <2>2 DEF Undisturbed, PagesInv
  <2>4. jobs'[j] # NoJob /\ jobs'[j].state = "DONE" =>
          \E q \in RunnersOf(j)' : Recorded(req'[q], jobs'[j].total)
    BY <1>2, <1>3, <2>1, <2>3 DEF Delivered
  <2>5. ASSUME NEW x \in Requests, B(x).kind = "results", JobOf(x) = j
        PROVE  /\ req'[x].result = <<>> \/ \E q \in RunnersOf(j)' : FirstOf(req'[x].result, req'[q])
               /\ req'[x].pc = "getPage" /\ req'[x].seen.state = "DONE" =>
                    \E q \in RunnersOf(j)' : Recorded(req'[q], req'[x].seen.total)
               /\ req'[x].outcome = "ok" =>
                    \E q \in RunnersOf(j)' : Recorded(req'[q], Len(req'[x].result))
    <3> DEFINE rows == req[x].result
               n == req[x].seen.total
    <3>1. req'[x].result = rows /\ (rows = <<>> \/ \E q \in RunnersOf(j)' : FirstOf(rows, req'[q]))
      BY <1>1, <1>4, <2>1, <2>3, <2>5 DEF Delivered
    <3>2. req[x].pc = "getPage" /\ req[x].seen.state = "DONE" =>
            \E q \in RunnersOf(j)' : Recorded(req'[q], n)
      BY <1>3, <2>1, <2>3, <2>5 DEF Delivered, Pc
    <3>3. req[x].outcome = "ok" => \E q \in RunnersOf(j)' : Recorded(req'[q], Len(rows))
      BY <1>3, <2>1, <2>3, <2>5 DEF Delivered
    <3> QED
      BY <1>1, <3>1, <3>2, <3>3 DEF FirstOf, Recorded, B
  <2> QED
    BY <1>1, <2>4, <2>5 DEF Delivered, Pc, B, JobOf
<1> QED
  BY <1>1, <1>5 DEF PagesInv

\* A client that has been given all of an undisturbed job has its result.
LEMMA PagesImply ==
  ASSUME TypeInv, RowsInv, PagesInv
  PROVE  PagesAreTheResult
<1> SUFFICES ASSUME NEW r \in Requests, B(r).kind = "results", req[r].outcome = "ok",
                    Undisturbed(JobOf(r))
             PROVE  \E q \in RunnersOf(JobOf(r)) :
                      req[r].result = IF B(q).kind = "select" THEN req[q].result ELSE <<>>
  BY DEF PagesAreTheResult
<1>1. req \in [Requests -> Locals] /\ JobOf(r) \in JobIds
  BY DEF TypeInv, TypeOK, JobOf, B, Locals, Body
<1>2. Delivered(JobOf(r))
  BY <1>1 DEF PagesInv
<1>3. PICK q \in RunnersOf(JobOf(r)) : Recorded(req[q], Len(req[r].result))
  BY <1>2 DEF Delivered
<1>4. /\ q \in Requests /\ req[r].result \in Seq(Rows) /\ req[q].result \in Seq(Rows)
      /\ req[q].body = B(q)
  BY <1>1, <1>3 DEF RunnersOf, Locals, B
<1>5. CASE B(q).kind # "select"
  BY <1>3, <1>4, <1>5 DEF Recorded
<1>6. CASE B(q).kind = "select"
  <2>1. Len(req[r].result) = Len(req[q].result)
    BY <1>3, <1>4, <1>6 DEF Recorded
  <2>2. CASE req[r].result = <<>>
    BY <1>3, <1>4, <1>6, <2>1, <2>2
  <2>3. CASE req[r].result # <<>>
    <3>1. PICK p \in RunnersOf(JobOf(r)) : FirstOf(req[r].result, req[p])
      BY <1>2, <2>3 DEF Delivered
    <3>2. p = q
      BY <1>3, <3>1 DEF Undisturbed
    <3>3. \A i \in 1..Len(req[r].result) : req[r].result[i] = req[q].result[i]
      BY <3>1, <3>2 DEF FirstOf
    <3>4. req[r].result = req[q].result
      BY <1>4, <2>1, <3>3, SeqEqual
    <3> QED
      BY <1>3, <1>6, <3>4
  <2> QED
    BY <2>2, <2>3
<1> QED
  BY <1>5, <1>6

\* PagesInv holds of every behaviour.
THEOREM PagesAlways == Spec => []PagesInv
<1>1. Init => PagesInv
  <2> SUFFICES ASSUME Init
               PROVE  PagesInv
    OBVIOUS
  <2>1. \A q \in Requests : /\ req[q].result = <<>> /\ req[q].pc = "start"
                            /\ req[q].outcome = "none"
    BY DEF Init
  <2>2. \A j \in JobIds : jobs[j] = NoJob
    BY DEF Init
  <2> QED
    BY <2>1, <2>2 DEF PagesInv, Delivered, Pc
<1>2. TypeInv /\ RowsInv /\ PagesInv /\ [Next]_vars => PagesInv'
  <2>1. TypeInv /\ RowsInv /\ PagesInv /\ Next => PagesInv'
    BY PagesStep, PagesCrash DEF Next
  <2>2. PagesInv /\ UNCHANGED vars => PagesInv'
    BY DEF PagesInv, Delivered, Undisturbed, Named, RunnersOf, Started, Pc, B, JobOf, vars, jobVars
  <2> QED
    BY <2>1, <2>2
<1> QED
  BY <1>1, <1>2, RowsAlways, PTL DEF Spec

\* A client that polls a job until it is complete and follows the page tokens
\* has the whole result of the query, in order and without a row twice, for any
\* page size: a page read before the rows are stored is short and is read again.
THEOREM PagesAreTheResultAlways == Spec => []PagesAreTheResult
<1>1. TypeInv /\ RowsInv /\ PagesInv => PagesAreTheResult
  BY PagesImply
<1> QED
  BY <1>1, RowsAlways, PagesAlways, PTL

-----------------------------------------------------------------------------
(***************************************************************************)
(* Lists miss nothing.                                                     *)
(***************************************************************************)

\* Jobs are finitely many, and numbered apart.
ClockInv ==
  /\ IsFiniteSet(Present)
  /\ \A i, j \in Present : jobs[i].created = jobs[j].created => i = j

\* Nobody has begun to delete a job.
NoDelete == \A j \in JobIds : Named("delete", j) = {}

\* A client that lists the jobs has been given those newer than its offset.
ListFollows(r) ==
  /\ req[r].early \subseteq Present
  /\ \A j \in req[r].early \ req[r].listed : Ahead(j) >= req[r].at
  /\ req[r].outcome = "ok" => req[r].early \subseteq req[r].listed

\* The first rows of a table.
FirstRows(rows, n) == {rows[i] : i \in 1..n}

\* A client that lists the rows of a table has been given those up to its
\* offset; those it found are within the total it has in hand.
RowsFollow(r) ==
  LET rows == contents[B(r).table]
  IN  /\ req[r].at <= Len(rows) /\ FirstRows(rows, req[r].at) \subseteq req[r].listed
      /\ req[r].early \subseteq FirstRows(rows, Len(rows))
      /\ Pc(r) = "getRows" => /\ req[r].total <= Len(rows)
                              /\ req[r].early \subseteq FirstRows(rows, req[r].total)
      /\ req[r].outcome = "ok" => req[r].early \subseteq req[r].listed

ListsInv ==
  /\ ClockInv
  /\ NoDelete => \A r \in Requests : B(r).kind = "list" => ListFollows(r)
  /\ \A r \in Requests : B(r).kind = "data" /\ Emptying(B(r).table) = {} => RowsFollow(r)

\* What an upsert does to the jobs there are.
LEMMA UpsertPresent ==
  ASSUME TypeInv, ClockInv, NEW j \in JobIds, NEW state \in {"RUNNING", "DONE"},
         NEW failed \in BOOLEAN, NEW total \in Nat, NEW affected \in Nat,
         UpsertJob(j, state, failed, total, affected)
  PROVE  /\ ClockInv' /\ Present \subseteq Present'
         /\ \A i \in Present : jobs'[i].created = jobs[i].created
<1>1. jobs \in [JobIds -> Job \cup {NoJob}] /\ Numbered
  BY DEF TypeInv, TypeOK
<1>2. /\ \A i \in JobIds \ {j} : jobs'[i] = jobs[i]
      /\ jobs'[j] # NoJob /\ jobs'[j].created = Created(j)
  BY UpsertTypes
<1>3. Present' = Present \cup {j}
  BY <1>2 DEF Present
<1>4. IsFiniteSet(Present')
  BY <1>3, FS_AddElement DEF ClockInv
<1>5. \A i \in Present : jobs'[i].created = jobs[i].created
  BY <1>1, <1>2, CreatedFollows DEF Present
<1>6. ASSUME NEW i \in Present, NEW k \in Present', i # k
      PROVE  jobs'[i].created # jobs'[k].created
  <2>1. CASE k \in Present
    BY <1>5, <1>6, <2>1 DEF ClockInv
  <2>2. CASE k \notin Present
    <3>1. k = j /\ jobs[j] = NoJob
      BY <1>3, <2>2 DEF Present
    <3>2. jobs[i].created < Created(j) /\ jobs[i].created \in Nat /\ Created(j) \in Nat
      BY <1>1, <3>1, CreatedFollows DEF Present, Job
    <3> QED
      BY <1>2, <1>5, <3>1, <3>2
  <2> QED
    BY <2>1, <2>2
<1>7. \A i, k \in Present' : i # k => i \in Present \/ k \in Present
  BY <1>3
<1>8. \A i, k \in Present' : jobs'[i].created = jobs'[k].created => i = k
  BY <1>6, <1>7
<1> QED
  BY <1>3, <1>4, <1>5, <1>8 DEF ClockInv

\* What a step does to them: unless it deletes one they stay, with their numbers.
LEMMA ClockStep ==
  ASSUME TypeInv, ClockInv, NEW r \in Requests, Step(r)
  PROVE  /\ ClockInv'
         /\ ~DropJob(r) => /\ Present \subseteq Present'
                           /\ \A i \in Present : jobs'[i].created = jobs[i].created
<1> DEFINE j == JobOf(r)
<1>1. jobs \in [JobIds -> Job \cup {NoJob}] /\ j \in JobIds
  BY DEF TypeInv, TypeOK, JobOf, B, Locals, Body
<1>2. CASE UNCHANGED jobs
  BY <1>1, <1>2 DEF ClockInv, Present
<1>3. ASSUME NEW state \in {"RUNNING", "DONE"}, NEW failed \in BOOLEAN,
             NEW total \in Nat, NEW affected \in Nat, UpsertJob(j, state, failed, total, affected)
      PROVE  /\ ClockInv' /\ Present \subseteq Present'
             /\ \A i \in Present : jobs'[i].created = jobs[i].created
  BY <1>1, <1>3, UpsertPresent
<1>4. CASE CancelJob(r)
  <2>1. CASE jobs[j] = NoJob
    BY <1>2, <1>4, <2>1 DEF CancelJob
  <2>2. CASE jobs[j] # NoJob
    <3> DEFINE row == [jobs[j] EXCEPT !.state = "DONE", !.failed = TRUE]
    <3>1. jobs' = [jobs EXCEPT ![j] = row] /\ jobs[j] \in Job
      BY <1>1, <1>4, <2>2 DEF CancelJob
    <3>2. row \in Job /\ row.created = jobs[j].created /\ row # NoJob
      BY <3>1, JobsAssumption DEF Job
    <3> HIDE DEF row
    <3>3. Present' = Present
      BY <1>1, <2>2, <3>1, <3>2 DEF Present
    <3>4. \A i \in Present : jobs'[i].created = jobs[i].created
      BY <1>1, <3>1, <3>2 DEF Present
    <3> QED
      BY <3>3, <3>4 DEF ClockInv
  <2> QED
    BY <2>1, <2>2
<1>5. CASE DropJob(r)
  <2>1. Present' \subseteq Present /\ \A i \in Present' : jobs'[i].created = jobs[i].created
    BY <1>1, <1>5 DEF Present, DropJob
  <2>2. IsFiniteSet(Present')
    BY <2>1, FS_Subset DEF ClockInv
  <2> QED
    BY <1>5, <2>1, <2>2 DEF ClockInv
<1> QED
  BY <1>2, <1>3, <1>4, <1>5, StepJobs

\* No job that stays has fewer ahead of it than before.
LEMMA AheadGrows ==
  ASSUME TypeInv, ClockInv, ClockInv', Present \subseteq Present',
         \A i \in Present : jobs'[i].created = jobs[i].created, NEW j \in Present
  PROVE  Ahead(j)' >= Ahead(j) /\ Ahead(j) \in Nat /\ Ahead(j)' \in Nat
<1> DEFINE X == {i \in Present : Newer(i, j)}
           Y == {i \in Present' : Newer(i, j)'}
<1>1. X \subseteq Y /\ Y \subseteq Present' /\ X \subseteq Present
  BY DEF Newer
<1>2. IsFiniteSet(Present) /\ IsFiniteSet(Present')
  BY DEF ClockInv
<1>3. Ahead(j) = Cardinality(X) /\ Ahead(j)' = Cardinality(Y)
  BY DEF Ahead
<1> HIDE DEF X, Y
<1>4. IsFiniteSet(X) /\ IsFiniteSet(Y)
  BY <1>1, <1>2, FS_Subset
<1>5. Cardinality(X) \in Nat /\ Cardinality(Y) \in Nat /\ Cardinality(X) <= Cardinality(Y)
  BY <1>1, <1>4, FS_Subset, FS_CardinalityType
<1> QED
  BY <1>3, <1>5

\* Where a job has n others or more ahead of it there is one that has n.
LEMMA AheadHits ==
  ASSUME TypeInv, ClockInv, NEW j \in Present, NEW n \in Nat, Ahead(j) >= n
  PROVE  \E i \in Present : Ahead(i) = n
<1>1. jobs \in [JobIds -> Job \cup {NoJob}]
  BY DEF TypeInv, TypeOK
<1>2. PICK b \in Nat : \A i \in Present : jobs[i].created < b
  BY DEF TypeInv, Numbered
<1>3. \A i \in Present : jobs[i].created \in Nat /\ b - jobs[i].created \in Nat
  BY <1>1, <1>2 DEF Present, Job
<1> DEFINE key == [i \in Present |-> b - jobs[i].created]
           Less(i) == {k \in Present : key[k] < key[i]}
           Higher(i) == {k \in Present : Newer(k, i)}
<1>4. key \in [Present -> Nat] /\ \A i, k \in Present : key[i] = key[k] => i = k
  BY <1>3 DEF ClockInv
<1>5. \A i \in Present : Less(i) = Higher(i)
  BY <1>2, <1>3 DEF Newer
<1>6. \A i \in Present : Ahead(i) = Cardinality(Less(i))
  BY <1>5 DEF Ahead
<1>7. Less(j) \subseteq Present /\ j \notin Less(j)
  BY <1>4
<1> HIDE DEF key
<1>8. IsFiniteSet(Present)
  BY DEF ClockInv
<1>9. n < Cardinality(Present)
  <2> DEFINE L == Less(j)
  <2>1. L \subseteq Present /\ j \notin L /\ Ahead(j) = Cardinality(L)
    BY <1>6, <1>7
  <2> HIDE DEF L
  <2>2. IsFiniteSet(L) /\ IsFiniteSet(L \cup {j}) /\ Cardinality(L \cup {j}) = Cardinality(L) + 1
    BY <1>8, <2>1, FS_Subset, FS_AddElement
  <2>3. Cardinality(L \cup {j}) <= Cardinality(Present)
    BY <1>8, <2>1, FS_Subset
  <2>4. Cardinality(L) \in Nat /\ Cardinality(Present) \in Nat
    BY <1>8, <2>2, FS_CardinalityType
  <2> QED
    BY <2>1, <2>2, <2>3, <2>4
<1>10. \E i \in Present : Cardinality(Less(i)) = n
  <2> DEFINE P == Present
  <2>1. key \in [P -> Nat]
    BY <1>4
  <2>2. \A x, y \in P : key[x] = key[y] => x = y
    BY <1>4
  <2>3. IsFiniteSet(P) /\ n < Cardinality(P)
    BY <1>8, <1>9
  <2> HIDE DEF P, Less
  <2>4. \E x \in P : Cardinality({y \in P : key[y] < key[x]}) = n
    BY <2>1, <2>2, <2>3, Ranked
  <2> QED
    BY <2>4 DEF P, Less
<1> QED
  BY <1>6, <1>10

\* A page of the list brings those at its offsets.
LEMMA ListPageGiven ==
  ASSUME TypeInv, ClockInv, NEW r \in Requests, ListJobs(r), ListFollows(r)
  PROVE  ListFollows(r)'
<1> DEFINE at == req[r].at
           early == IF at = 0 THEN Present ELSE req[r].early
           listed == req[r].listed \cup ListPage(at)
           last == ~HasNextPage(at)
<1>1. /\ at \in Nat /\ PageSize \in Nat /\ req \in [Requests -> Locals]
      /\ jobs' = jobs
  BY JobsAssumption DEF TypeInv, TypeOK, Locals, ListJobs, jobVars
<1>2. /\ req'[r].early = early /\ req'[r].listed = listed /\ req'[r].at = at + PageSize
      /\ req'[r].outcome = "ok" => last
  BY ReadingMoves DEF NextOffset
<1>3. Present' = Present /\ \A j \in Present : Ahead(j)' = Ahead(j) /\ Ahead(j) \in Nat
  <2>1. Present' = Present
    BY <1>1 DEF Present
  <2>2. \A j : Ahead(j)' = Ahead(j)
    BY <1>1, <2>1 DEF Ahead, Newer
  <2>3. ClockInv'
    BY <1>1, <2>1 DEF ClockInv
  <2>4. \A j \in Present : Ahead(j) \in Nat
    BY <1>1, <2>1, <2>3, AheadGrows
  <2> QED
    BY <2>1, <2>2, <2>4
<1>4. early \subseteq Present
  BY DEF ListFollows
<1>5. ASSUME NEW j \in early \ listed
      PROVE  Ahead(j) >= at + PageSize
  <2>1. j \in Present /\ j \notin ListPage(at) /\ Ahead(j) \in Nat
    BY <1>3, <1>4, <1>5
  <2>2. Ahead(j) >= at
    BY <1>1, <1>5, <2>1 DEF ListFollows
  <2>3. ~(Ahead(j) \in at..(at + PageSize - 1))
    BY <2>1 DEF ListPage
  <2> QED
    BY <1>1, <2>1, <2>2, <2>3
<1>6. last => early \subseteq listed
  <2> SUFFICES ASSUME last, NEW j \in early \ listed
               PROVE  FALSE
    OBVIOUS
  <2>1. at + PageSize \in Nat /\ j \in Present /\ Ahead(j) >= at + PageSize
    BY <1>1, <1>4, <1>5
  <2>2. \E i \in Present : Ahead(i) = at + PageSize
    <3> DEFINE n == at + PageSize
    <3>1. n \in Nat /\ j \in Present /\ Ahead(j) >= n
      BY <2>1
    <3> HIDE DEF n
    <3>2. \E i \in Present : Ahead(i) = n
      BY <3>1, AheadHits
    <3> QED
      BY <3>2 DEF n
  <2> QED
    BY <2>2 DEF HasNextPage
<1> HIDE DEF early, listed, last
<1> QED
  BY <1>2, <1>3, <1>4, <1>5, <1>6 DEF ListFollows

\* While no job is deleted a client that lists them misses none.
LEMMA ListFollowsStep ==
  ASSUME TypeInv, ClockInv, NEW r \in Requests, Step(r), ~DropJob(r),
         NEW q \in Requests, B(q).kind = "list", ListFollows(q)
  PROVE  ListFollows(q)'
<1>1. /\ ClockInv' /\ Present \subseteq Present'
      /\ \A i \in Present : jobs'[i].created = jobs[i].created
  BY ClockStep
<1>2. \A j \in Present : Ahead(j)' >= Ahead(j) /\ Ahead(j) \in Nat /\ Ahead(j)' \in Nat
  BY <1>1, AheadGrows
<1>3. req[q].at \in Nat /\ req \in [Requests -> Locals] /\ AtHome(r)
  BY DEF TypeInv, TypeOK, Locals
<1>4. CASE /\ req'[q].early = req[q].early /\ req'[q].listed = req[q].listed
           /\ req'[q].at = req[q].at
           /\ req'[q].outcome = "ok" => req[q].outcome = "ok"
  BY <1>1, <1>2, <1>3, <1>4 DEF ListFollows
<1>5. CASE q # r
  BY <1>4, <1>5, NamedStay
<1>6. CASE q = r
  <2>1. Start(r) \/ ListJobs(r)
    BY <1>3, <1>6, Guards DEF Step, Query, Load, CopyOrExtract, EndJob, CancelOrDelete, Results,
      TableRows, AtHome, Writers, Loads, Extracts, Movers, Dml, Queries, Selects, Runners
  <2>2. CASE Start(r)
    BY <1>3, <1>4, <1>6, <2>2, StartMoves DEF Goes, Moved
  <2>3. CASE ListJobs(r)
    BY <1>6, <2>3, ListPageGiven
  <2> QED
    BY <2>1, <2>2, <2>3
<1> QED
  BY <1>5, <1>6

\* A table that only grows keeps its first rows.
LEMMA FirstRowsStay ==
  ASSUME NEW rows \in Seq(Rows), NEW more \in Seq(Rows), NEW n \in Nat, n <= Len(rows)
  PROVE  /\ FirstRows(rows \o more, n) = FirstRows(rows, n)
         /\ FirstRows(rows, n) \subseteq FirstRows(rows \o more, Len(rows \o more))
         /\ Len(rows) <= Len(rows \o more)
<1>1. /\ Len(rows) \in Nat /\ Len(more) \in Nat
      /\ Len(rows \o more) = Len(rows) + Len(more)
      /\ \A i \in 1..Len(rows) : (rows \o more)[i] = rows[i]
  BY ConcatProperties, LenProperties
<1> DEFINE all == rows \o more
<1> HIDE DEF all
<1>2. \A i \in 1..n : i \in 1..Len(rows) /\ i \in 1..Len(all) /\ all[i] = rows[i]
  BY <1>1 DEF all
<1> QED
  BY <1>1, <1>2 DEF FirstRows, all

\* A page of rows brings those at its offsets, if the table has not shrunk.
LEMMA RowsGiven ==
  ASSUME TypeInv, NEW r \in Requests, GetRows(r), RowsFollow(r), Pc(r) = "getRows"
  PROVE  RowsFollow(r)'
<1> DEFINE t == B(r).table
           rows == contents[t]
           at == req[r].at
           page == PageOf(t, at)
           next == at + Cardinality(page)
           listed == req[r].listed \cup {contents[t][i] : i \in page}
           last == ~HasMore(next, req[r].total)
<1>1. /\ at \in Nat /\ PageSize \in Nat /\ req \in [Requests -> Locals] /\ rows \in Seq(Rows)
      /\ Len(rows) \in Nat /\ DOMAIN rows = 1..Len(rows) /\ req[r].total \in Nat
  BY JobsAssumption, LenProperties DEF TypeInv, TypeOK, Locals, B, Body
<1>2. UNCHANGED contents /\ B(r)' = B(r)
  BY StepLocal DEF GetRows, tableVars, Step, TableRows, Local, B
<1>3. /\ req'[r].listed = listed /\ req'[r].at = next /\ req'[r].early = req[r].early
      /\ req'[r].outcome = "ok" => last
      /\ req'[r].pc # "getRows"
  BY TableMoves
<1>4. at <= Len(rows) /\ FirstRows(rows, at) \subseteq req[r].listed
  BY DEF RowsFollow
<1>5. page = (at + 1)..next /\ next \in Nat /\ next <= Len(rows)
  <2> DEFINE m == IF at + PageSize <= Len(rows) THEN at + PageSize ELSE Len(rows)
  <2>1. m \in Nat /\ m <= Len(rows) /\ at <= m
    BY <1>1, <1>4
  <2>2. page = (at + 1)..m
    BY <1>1 DEF PageOf
  <2> HIDE DEF m
  <2>3. Cardinality((at + 1)..m) = m - at
    <3>1. at + 1 \in Int /\ m \in Int
      BY <1>1, <2>1
    <3>2. Cardinality((at + 1)..m) = IF at + 1 > m THEN 0 ELSE m - (at + 1) + 1
      BY <3>1, FS_Interval
    <3> QED
      BY <1>1, <2>1, <3>2
  <2>4. next = m
    BY <1>1, <2>1, <2>2, <2>3
  <2> HIDE DEF page, next
  <2> QED
    BY <2>1, <2>2, <2>4
<1> HIDE DEF page, next
<1>6. FirstRows(rows, next) \subseteq listed
  <2> SUFFICES ASSUME NEW i \in 1..next
               PROVE  rows[i] \in listed
    BY DEF FirstRows
  <2>1. CASE i <= at
    BY <1>1, <1>4, <1>5, <2>1 DEF FirstRows
  <2>2. CASE ~(i <= at)
    BY <1>1, <1>5, <2>2
  <2> QED
    BY <2>1, <2>2
<1>7. last => req[r].early \subseteq listed
  <2> SUFFICES ASSUME last
               PROVE  req[r].early \subseteq listed
    OBVIOUS
  <2>1. req[r].total <= next
    BY <1>1, <1>5 DEF HasMore
  <2>2. FirstRows(rows, req[r].total) \subseteq FirstRows(rows, next)
    BY <1>1, <1>5, <2>1 DEF FirstRows
  <2>3. req[r].early \subseteq FirstRows(rows, req[r].total)
    BY DEF RowsFollow
  <2> QED
    BY <1>6, <2>2, <2>3
<1>8. req[r].early \subseteq FirstRows(rows, Len(rows))
  BY DEF RowsFollow
<1> HIDE DEF listed, last
<1> QED
  BY <1>2, <1>3, <1>5, <1>6, <1>7, <1>8 DEF RowsFollow, Pc

\* While nothing is taken from a table a client that lists its rows misses none.
LEMMA RowsFollowStep ==
  ASSUME TypeInv, NEW r \in Requests, Step(r), NEW q \in Requests, B(q).kind = "data",
         Emptying(B(q).table)' = {}, RowsFollow(q)
  PROVE  RowsFollow(q)'
<1> DEFINE t == B(q).table
           rows == contents[t]
           l == req[q]
<1>1. /\ req \in [Requests -> Locals] /\ l \in Locals /\ B(q) \in Body /\ t \in Tables
      /\ contents \in [Tables -> Seq(Rows)] /\ rows \in Seq(Rows) /\ Len(rows) \in Nat
      /\ l.at \in Nat /\ l.total \in Nat /\ AtHome(r) /\ AtHome(q)
  BY LenProperties DEF TypeInv, TypeOK, Locals, B, Body
<1>2. B(q)' = B(q)
  BY NamedStay
<1>3. PICK more \in Seq(Rows) : contents'[t] = rows \o more
  <2>1. CASE t # B(r).table
    <3>1. contents'[t] = rows /\ rows \o <<>> = rows /\ <<>> \in Seq(Rows)
      BY <1>1, <2>1, StepTables, ConcatEmptySeq
    <3> QED
      BY <3>1
  <2>2. CASE t = B(r).table /\ (Truncate(r) \/ (Execute(r) /\ B(r).kind = "clear"))
    <3>1. /\ Started(r) /\ Started(r)'
          /\ \/ B(r).kind = "clear"
             \/ B(r).kind \in Loads \cup {"copy"} /\ B(r).disposition = "WRITE_TRUNCATE"
      BY <1>1, <2>2, Guards, NamedStay DEF AtHome, Started
    <3>2. B(r)' = B(r) /\ r \in Emptying(t)'
      BY <2>2, <3>1, NamedStay DEF Emptying
    <3> QED
      BY <1>2, <3>2
  <2>3. CASE Grows(B(r).table) /\ t = B(r).table
    BY <2>3 DEF Grows
  <2> QED
    BY <2>1, <2>2, <2>3, StepTables
<1> DEFINE all == rows \o more
<1>4. /\ FirstRows(rows, l.at) = FirstRows(all, l.at)
      /\ FirstRows(rows, Len(rows)) \subseteq FirstRows(all, Len(all))
      /\ Len(rows) <= Len(all) /\ Len(all) \in Nat
      /\ l.at <= Len(rows) /\ FirstRows(rows, l.at) \subseteq l.listed
      /\ l.early \subseteq FirstRows(rows, Len(rows))
      /\ l.outcome = "ok" => l.early \subseteq l.listed
  <2>1. l.at <= Len(rows)
    BY DEF RowsFollow
  <2>2. all \in Seq(Rows)
    BY <1>1, ConcatProperties
  <2> HIDE DEF all
  <2>3. Len(all) \in Nat
    BY <2>2, LenProperties
  <2>4. /\ FirstRows(rows, l.at) = FirstRows(all, l.at)
        /\ FirstRows(rows, Len(rows)) \subseteq FirstRows(all, Len(all))
        /\ Len(rows) <= Len(all)
    <3> DEFINE n == l.at
               m == Len(rows)
    <3>1. n \in Nat /\ n <= Len(rows) /\ m \in Nat /\ m <= Len(rows)
      BY <1>1, <2>1
    <3> HIDE DEF n, m, rows
    <3>2. FirstRows(rows \o more, n) = FirstRows(rows, n)
      BY <1>1, <1>3, <3>1, FirstRowsStay
    <3>3. /\ FirstRows(rows, m) \subseteq FirstRows(rows \o more, Len(rows \o more))
          /\ Len(rows) <= Len(rows \o more)
      BY <1>1, <1>3, <3>1, FirstRowsStay
    <3> QED
      BY <3>2, <3>3 DEF all, n, m
  <2> QED
    BY <2>1, <2>3, <2>4 DEF RowsFollow
<1>5. Pc(q) = "getRows" => /\ l.total <= Len(all)
                           /\ l.early \subseteq FirstRows(all, l.total)
  <2> SUFFICES ASSUME Pc(q) = "getRows"
               PROVE  l.total <= Len(all) /\ l.early \subseteq FirstRows(all, l.total)
    OBVIOUS
  <2> DEFINE n == l.total
  <2>1. n \in Nat /\ n <= Len(rows) /\ l.early \subseteq FirstRows(rows, n)
    BY <1>1 DEF RowsFollow
  <2> HIDE DEF n, rows
  <2>2. FirstRows(rows \o more, n) = FirstRows(rows, n)
    BY <1>1, <1>3, <2>1, FirstRowsStay
  <2>3. n <= Len(all)
    BY <1>1, <1>4, <2>1
  <2> QED
    BY <2>1, <2>2, <2>3 DEF n
<1>6. contents[t]' = all
  BY <1>2, <1>3
<1> HIDE DEF all
<1>7. CASE /\ req'[q].early = l.early /\ req'[q].listed = l.listed /\ req'[q].at = l.at
           /\ req'[q].outcome = "ok" => l.outcome = "ok"
           /\ req'[q].pc = "getRows" => Pc(q) = "getRows" /\ req'[q].total = l.total
  BY <1>1, <1>2, <1>4, <1>5, <1>6, <1>7 DEF RowsFollow, Pc
<1>8. CASE q # r
  <2>1. req'[q] = req[q]
    BY <1>8, NamedStay
  <2> QED
    BY <1>7, <2>1 DEF Pc
<1>9. CASE q = r
  <2>1. Start(r) \/ GetTable(r) \/ CountRows(r) \/ GetRows(r)
    BY <1>1, <1>9, Guards DEF Step, Query, Load, CopyOrExtract, EndJob, CancelOrDelete, Results,
      TableRows, AtHome, Writers, Loads, Extracts, Movers, Dml, Queries, Selects, Runners
  <2>2. CASE Start(r)
    <3>1. First(B(r)) # "getRows"
      BY <1>9 DEF First, Movers, Loads, Extracts, Queries, Selects, Dml
    <3> QED
      BY <1>1, <1>7, <1>9, <2>2, <3>1, StartMoves DEF Goes, Moved
  <2>3. CASE GetTable(r)
    <3>1. Ends(r, "error") \/ Goes(r, "countRows")
      BY <1>1, <2>3, ToGoes, EndEnds DEF GetTable, Pcs
    <3> QED
      BY <1>7, <1>9, <3>1 DEF Ends, Goes, Moved
  <2>4. CASE CountRows(r)
    <3>1. UNCHANGED contents
      BY <2>4 DEF CountRows, tableVars
    <3>2. CASE Ends(r, "error")
      BY <1>7, <1>9, <3>2 DEF Ends, Moved
    <3>3. CASE /\ req'[r].pc = "getRows" /\ req'[r].total = Len(rows)
               /\ req'[r].early = IF req[r].at = 0 THEN {rows[i] : i \in DOMAIN rows}
                                  ELSE req[r].early
               /\ req'[r].listed = req[r].listed /\ req'[r].at = req[r].at
               /\ req'[r].outcome = req[r].outcome
      <4>1. {rows[i] : i \in DOMAIN rows} = FirstRows(rows, Len(rows))
        BY <1>1, LenProperties DEF FirstRows
      <4>2. Pc(r) = "countRows" /\ req[r].outcome # "ok"
        <5>1. Pc(r) = "countRows" /\ Answered(r)
          BY <2>4, Guards DEF TypeInv
        <5> QED
          BY <5>1 DEF Answered
      <4>3. contents[t]' = rows
        BY <1>2, <3>1
      <4> HIDE DEF rows
      <4> QED
        BY <1>1, <1>2, <1>4, <1>9, <3>3, <4>1, <4>2, <4>3 DEF RowsFollow
    <3> QED
      BY <1>9, <2>4, <3>2, <3>3, TableMoves
  <2>5. CASE GetRows(r)
    BY <1>9, <2>5, Guards, RowsGiven
  <2> QED
    BY <2>1, <2>2, <2>3, <2>4, <2>5
<1> QED
  BY <1>8, <1>9

LEMMA ListsStep ==
  ASSUME TypeInv, ListsInv, NEW r \in Requests, Step(r)
  PROVE  ListsInv'
<1>1. ClockInv' /\ ClockInv
  BY ClockStep DEF ListsInv
<1>2. \A q \in Requests : /\ B(q)' = B(q) /\ JobOf(q)' = JobOf(q)
                          /\ Started(q) => Started(q)'
  BY NamedStay
<1>3. ASSUME NoDelete', NEW q \in Requests, B(q)'.kind = "list"
      PROVE  ListFollows(q)'
  <2>1. NoDelete
    BY <1>2, <1>3 DEF NoDelete, Named
  <2>2. ~DropJob(r)
    <3>1. SUFFICES ASSUME DropJob(r)
                   PROVE  FALSE
      OBVIOUS
    <3>2. AtHome(r) /\ JobOf(r) \in JobIds
      BY DEF TypeInv, TypeOK, JobOf, B, Locals, Body
    <3>3. B(r).kind = "delete" /\ Started(r)
      BY <3>1, <3>2, Guards DEF AtHome, Started
    <3> QED
      BY <2>1, <3>2, <3>3 DEF NoDelete, Named
  <2> QED
    BY <1>1, <1>2, <1>3, <2>1, <2>2, ListFollowsStep DEF ListsInv
<1>4. ASSUME NEW q \in Requests, B(q)'.kind = "data", Emptying(B(q).table)' = {}
      PROVE  RowsFollow(q)'
  <2>1. Emptying(B(q).table) = {}
    BY <1>2, <1>4 DEF Emptying
  <2>2. RowsFollow(q) /\ B(q).kind = "data"
    BY <1>2, <1>4, <2>1 DEF ListsInv
  <2> QED
    BY <1>2, <1>4, <2>2, RowsFollowStep
<1> QED
  BY <1>1, <1>3, <1>4 DEF ListsInv

\* A crash ends the clients and takes away neither jobs nor rows.
LEMMA ListsCrash ==
  ASSUME TypeInv, ListsInv, Crash
  PROVE  ListsInv'
<1>1. \A q \in Requests : /\ B(q)' = B(q) /\ JobOf(q)' = JobOf(q) /\ Started(q)' = Started(q)
                          /\ req'[q].at = req[q].at
                          /\ req'[q].listed = req[q].listed /\ req'[q].early = req[q].early
                          /\ req'[q].outcome = "ok" => req[q].outcome = "ok"
                          /\ req'[q].pc = "getRows" => req'[q] = req[q]
  BY CrashMoves DEF B, JobOf, Pc, Started, Active
<1>2. UNCHANGED <<contents, jobs>>
  BY DEF Crash, jobVars, tableVars
<1>3. Present' = Present /\ \A j : Ahead(j)' = Ahead(j)
  <2>1. Present' = Present
    BY <1>2 DEF Present
  <2> QED
    BY <1>2, <2>1 DEF Ahead, Newer
<1>4. ClockInv'
  BY <1>2, <1>3 DEF ClockInv, ListsInv
<1>5. ASSUME NoDelete', NEW q \in Requests, B(q)'.kind = "list"
      PROVE  ListFollows(q)'
  <2>1. NoDelete
    BY <1>1, <1>5 DEF NoDelete, Named
  <2>2. ListFollows(q)
    BY <1>1, <1>5, <2>1 DEF ListsInv
  <2> QED
    BY <1>1, <1>3, <2>2 DEF ListFollows
<1>6. ASSUME NEW q \in Requests, B(q)'.kind = "data", Emptying(B(q).table)' = {}
      PROVE  RowsFollow(q)'
  <2>1. Emptying(B(q).table) = {}
    BY <1>1, <1>6 DEF Emptying
  <2>2. RowsFollow(q)
    BY <1>1, <1>6, <2>1 DEF ListsInv
  <2> QED
    BY <1>1, <1>2, <2>2 DEF RowsFollow, Pc
<1> QED
  BY <1>4, <1>5, <1>6 DEF ListsInv

\* ListsInv holds of every behaviour.
THEOREM ListsAlways == Spec => []ListsInv
<1>1. Init => ListsInv
  <2> SUFFICES ASSUME Init
               PROVE  ListsInv
    OBVIOUS
  <2>1. \A q \in Requests : /\ req[q].at = 0 /\ req[q].pc = "start" /\ req[q].early = {}
                            /\ req[q].outcome = "none"
    BY DEF Init
  <2>2. Present = {}
    BY DEF Init, Present
  <2>3. ClockInv
    BY <2>2, FS_EmptySet DEF ClockInv
  <2>4. TypeInv
    BY InitTypes
  <2>5. ASSUME NEW q \in Requests
        PROVE  RowsFollow(q)
    <3>1. contents[B(q).table] \in Seq(Rows) /\ Len(contents[B(q).table]) \in Nat
      BY <2>4, LenProperties DEF TypeInv, TypeOK, Locals, B, Body
    <3> QED
      BY <2>1, <3>1 DEF RowsFollow, FirstRows, Pc
  <2>6. \A q \in Requests : ListFollows(q)
    BY <2>1 DEF ListFollows
  <2> QED
    BY <2>3, <2>5, <2>6 DEF ListsInv
<1>2. TypeInv /\ ListsInv /\ [Next]_vars => ListsInv'
  <2>1. TypeInv /\ ListsInv /\ Next => ListsInv'
    BY ListsStep, ListsCrash DEF Next
  <2>2. ListsInv /\ UNCHANGED vars => ListsInv'
    <3> SUFFICES ASSUME ListsInv, UNCHANGED vars
                 PROVE  ListsInv'
      OBVIOUS
    <3>1. req' = req /\ contents' = contents /\ jobs' = jobs
      BY DEF vars, jobVars, tableVars
    <3>2. Present' = Present /\ \A j : Ahead(j)' = Ahead(j)
      BY <3>1 DEF Present, Ahead, Newer
    <3>3. ClockInv' = ClockInv
      BY <3>1, <3>2 DEF ClockInv
    <3>4. /\ \A q : B(q)' = B(q) /\ Pc(q)' = Pc(q)
          /\ NoDelete' = NoDelete /\ \A t : Emptying(t)' = Emptying(t)
      BY <3>1 DEF NoDelete, Named, Emptying, Started, Pc, B, JobOf
    <3>5. \A q : ListFollows(q)' <=> ListFollows(q)
      BY <3>1, <3>2 DEF ListFollows
    <3>6. \A q : RowsFollow(q)' <=> RowsFollow(q)
      BY <3>1, <3>4 DEF RowsFollow
    <3> QED
      BY <3>3, <3>4, <3>5, <3>6 DEF ListsInv
  <2> QED
    BY <2>1, <2>2
<1> QED
  BY <1>1, <1>2, TypesAlways, PTL DEF Spec

\* A client that follows the page tokens of jobs.list while no job is deleted, or
\* of tabledata.list while nothing is taken from the table, is given all there
\* was when it began, for any page size and whatever is added meanwhile.
THEOREM ListingMissesNoneAlways == Spec => []ListingMissesNone
<1>1. ListsInv => ListingMissesNone
  BY DEF ListsInv, ListingMissesNone, ListFollows, RowsFollow, NoDelete
<1> QED
  BY <1>1, ListsAlways, PTL
=============================================================================
