----------------------------- MODULE JobsProofs -----------------------------
(***************************************************************************)
(* Theorems about Jobs, for any requests, tables and jobs and any number   *)
(* of crashes.                                                             *)
(***************************************************************************)
EXTENDS Jobs, FiniteSetTheorems, FunctionTheorems, SequenceTheorems, TLAPS

(***************************************************************************)
(* The inductive invariant behind the types.                               *)
(***************************************************************************)

\* Which requests get to which awaits.
AtHome(r) ==
  LET k == B(r).kind
  IN  /\ Pc(r) \in {"locate", "lookup", "execute", "record", "answer"} => k \in Queries
      /\ Pc(r) = "store" => k = "select"
      /\ Pc(r) = "running" => k \in Runners
      /\ Pc(r) = "plan" => k = "dryRun"
      /\ Pc(r) \in {"read", "schema"} => k \in Loads
      /\ Pc(r) \in {"ensure", "count", "create", "describe", "truncate"} =>
           k \in Loads \cup {"copy"}
      /\ Pc(r) = "truncate" => B(r).disposition = "WRITE_TRUNCATE"
      /\ Pc(r) = "write" => k \in Loads \cup {"copy"} \cup Writers
      /\ Pc(r) = "invalidate" => k \in Loads \cup {"copy", "insertAll"}
      /\ Pc(r) = "source" => k \in Extracts \cup {"copy"}
      /\ Pc(r) = "copyCount" => k = "copy" /\ B(r).source \in exists
      /\ Pc(r) = "fileCount" => k = "parquet"
      /\ Pc(r) \in {"export", "upload", "extractCount"} => k \in Extracts
      /\ Pc(r) \in {"finish", "fail", "reread"} => k \in Movers
      /\ Pc(r) \in {"getJob", "getPage"} => k = "results"
      /\ Pc(r) = "page" => k = "list"
      /\ Pc(r) \in {"getTable", "countRows", "getRows"} => k = "data"
      /\ Pc(r) = "check" => k \in {"cancel", "delete"}
      /\ Pc(r) = "change" => k = "cancel"
      /\ Pc(r) \in {"dropRows", "dropJob"} => k = "delete"

\* The clock has a next value.
Numbered == \E n \in Nat : \A j \in Present : jobs[j].created < n

\* job_rows has a primary key.
PrimaryKey == \A x, y \in jobRows : x[1] = y[1] /\ x[2] = y[2] => x = y

\* A reader has a job in hand exactly between its two reads.
SeenJob(r) == Pc(r) = "getPage" => req[r].seen # NoJob

\* A request has an answer, or is lost, when it has ended and not before.
Answered(r) == req[r].outcome # "none" <=> Pc(r) = "ended"

TypeInv ==
  /\ TypeOK
  /\ \A r \in Requests : AtHome(r) /\ SeenJob(r) /\ Answered(r)
  /\ Numbered
  /\ PrimaryKey
  /\ IsFiniteSet(jobRows)

-----------------------------------------------------------------------------
(***************************************************************************)
(* Numbers.                                                                *)
(***************************************************************************)

\* A set of natural numbers has a least member.
LEMMA LeastNatural ==
  ASSUME NEW S \in SUBSET Nat, S # {}
  PROVE  \E m \in S : \A n \in S : m <= n
<1> DEFINE Less == {p \in Nat \X Nat : p[1] < p[2]}
<1>1. IsWellFoundedOn(Less, Nat)
  BY NatLessThanWellFounded DEF OpToRel
<1>2. PICK m \in S : \A n \in S : ~ (<<n, m>> \in Less)
  BY <1>1, WFMin
<1>3. \A n \in S : ~(n < m)
  BY <1>2
<1> QED
  BY <1>3

\* One that is bounded has a greatest.
LEMMA GreatestNatural ==
  ASSUME NEW S \in SUBSET Nat, S # {}, NEW b \in Nat, \A n \in S : n < b
  PROVE  \E m \in S : \A n \in S : n <= m
<1> DEFINE U == {u \in Nat : \A n \in S : n < u}
<1>1. PICK u \in U : \A v \in U : u <= v
  <2>1. U \in SUBSET Nat /\ U # {}
    OBVIOUS
  <2> HIDE DEF U
  <2> QED
    BY <2>1, LeastNatural
<1>2. PICK k \in S : TRUE
  OBVIOUS
<1>3. u \in Nat /\ k \in Nat /\ k < u
  BY <1>1, <1>2
<1>4. u - 1 \in Nat /\ ~(u - 1 \in U)
  BY <1>1, <1>3
<1>5. PICK m \in S : ~(m < u - 1)
  BY <1>4
<1> QED
  BY <1>1, <1>5

\* A new job is numbered after all there are, an old one keeps its number.
LEMMA CreatedFollows ==
  ASSUME jobs \in [JobIds -> Job \cup {NoJob}], Numbered, NEW j \in JobIds
  PROVE  /\ Created(j) \in Nat
         /\ jobs[j] # NoJob => Created(j) = jobs[j].created
         /\ jobs[j] = NoJob => \A i \in Present : jobs[i].created < Created(j)
<1>1. \A i \in Present : jobs[i].created \in Nat
  BY DEF Present, Job
<1>2. CASE jobs[j] # NoJob
  BY <1>1, <1>2 DEF Created, Present
<1>3. CASE jobs[j] = NoJob
  <2> DEFINE N == {0} \cup {jobs[i].created + 1 : i \in Present}
  <2>1. \E n \in N : \A i \in Present : jobs[i].created < n
    <3>1. CASE Present = {}
      BY <3>1
    <3>2. CASE Present # {}
      <4> DEFINE S == {jobs[i].created : i \in Present}
      <4>1. S \in SUBSET Nat /\ S # {}
        BY <1>1, <3>2
      <4>2. PICK b \in Nat : \A n \in S : n < b
        BY DEF Numbered
      <4>3. PICK m \in S : \A n \in S : n <= m
        <5> HIDE DEF S
        <5> QED
          BY <4>1, <4>2, GreatestNatural
      <4>4. m + 1 \in N /\ \A i \in Present : jobs[i].created < m + 1
        BY <1>1, <4>3
      <4> QED
        BY <4>4
    <3> QED
      BY <3>1, <3>2
  <2>2. Created(j) = CHOOSE n \in N : \A i \in Present : jobs[i].created < n
    BY <1>3 DEF Created
  <2>3. N \subseteq Nat
    BY <1>1
  <2> QED
    BY <1>3, <2>1, <2>2, <2>3
<1> QED
  BY <1>2, <1>3
-----------------------------------------------------------------------------
(***************************************************************************)
(* What steps do to the request that takes them.                           *)
(***************************************************************************)

\* Only request r changes, it keeps its body, and it has begun.
Local(r) ==
  /\ req' \in [Requests -> Locals]
  /\ \A q \in Requests \ {r} : req'[q] = req[q]
  /\ req'[r].body = req[r].body
  /\ req'[r].pc # "start"

\* Beyond that it goes on or ends.
Moved(r) ==
  /\ Local(r)
  /\ req'[r].result = req[r].result /\ req'[r].at = req[r].at /\ req'[r].hit = req[r].hit
  /\ req'[r].seen = req[r].seen /\ req'[r].total = req[r].total
  /\ req'[r].listed = req[r].listed /\ req'[r].early = req[r].early

\* It goes on at p with its locals as they are.
Goes(r, p) == Moved(r) /\ req'[r].pc = p /\ req'[r].outcome = req[r].outcome

\* It ends with outcome o.
Ends(r, o) == Moved(r) /\ req'[r].pc = "ended" /\ req'[r].outcome = o

\* A throw ends a query and makes a load, copy or extract job fail.
Throws(r) == IF B(r).kind \in Movers THEN Goes(r, "fail") ELSE Ends(r, "error")

\* To.
LEMMA ToGoes ==
  ASSUME req \in [Requests -> Locals], NEW r \in Requests, NEW p \in Pcs \ {"start"}, To(r, p)
  PROVE  Goes(r, p)
<1> DEFINE l == [req[r] EXCEPT !.pc = p]
<1>1. l \in Locals
  BY DEF Locals
<1>2. req' = [req EXCEPT ![r] = l]
  BY DEF To
<1>3. /\ l.pc = p /\ l.outcome = req[r].outcome /\ l.body = req[r].body
      /\ l.result = req[r].result /\ l.at = req[r].at /\ l.hit = req[r].hit
      /\ l.seen = req[r].seen /\ l.total = req[r].total
      /\ l.listed = req[r].listed /\ l.early = req[r].early
  BY DEF Locals
<1> QED
  BY <1>1, <1>2, <1>3 DEF Goes, Moved, Local

\* End.
LEMMA EndEnds ==
  ASSUME req \in [Requests -> Locals], NEW r \in Requests, NEW o \in {"ok", "error"}, End(r, o)
  PROVE  Ends(r, o)
<1> DEFINE l == [req[r] EXCEPT !.pc = "ended", !.outcome = o]
<1>1. "ended" \in Pcs /\ o \in {"none", "ok", "error", "lost"}
  BY DEF Pcs
<1>2. l \in Locals
  BY <1>1 DEF Locals
<1>3. req' = [req EXCEPT ![r] = l]
  BY DEF End
<1>4. /\ l.pc = "ended" /\ l.outcome = o /\ l.body = req[r].body
      /\ l.result = req[r].result /\ l.at = req[r].at /\ l.hit = req[r].hit
      /\ l.seen = req[r].seen /\ l.total = req[r].total
      /\ l.listed = req[r].listed /\ l.early = req[r].early
  BY DEF Locals
<1> QED
  BY <1>2, <1>3, <1>4 DEF Ends, Moved, Local

\* All awaits a step of the code goes on to.
LEMMA Awaits ==
  ASSUME req \in [Requests -> Locals], NEW r \in Requests
  PROVE  /\ \A p \in {"locate", "plan", "page", "running", "lookup", "execute", "record",
                      "store", "answer", "read", "schema", "ensure", "count", "create",
                      "describe", "truncate", "write", "source", "copyCount", "fileCount",
                      "export", "upload", "extractCount", "invalidate", "finish", "fail",
                      "reread", "getJob", "getPage", "getTable", "countRows", "getRows",
                      "check", "change", "dropRows", "dropJob"} : To(r, p) => Goes(r, p)
         /\ \A o \in {"ok", "error"} : End(r, o) => Ends(r, o)
         /\ Throw(r) => Throws(r)
<1>1. \A p \in Pcs \ {"start"} : To(r, p) => Goes(r, p)
  BY ToGoes
<1>2. \A o \in {"ok", "error"} : End(r, o) => Ends(r, o)
  BY EndEnds
<1>3. Throw(r) => Throws(r)
  BY <1>1, <1>2 DEF Throw, Throws, Pcs
<1> QED
  BY <1>1, <1>2, <1>3 DEF Pcs

-----------------------------------------------------------------------------
(***************************************************************************)
(* Where the steps go that leave the request's locals alone.               *)
(***************************************************************************)

\* The first steps of a request.
LEMMA StartMoves ==
  ASSUME req \in [Requests -> Locals], NEW r \in Requests
  PROVE  /\ Start(r) => Goes(r, First(B(r)))
         /\ Running(r) => \/ B(r).kind \in Queries /\ Goes(r, "lookup")
                          \/ B(r).kind \in Loads /\ Goes(r, "read")
                          \/ B(r).kind \notin Queries \cup Loads /\ Goes(r, "source")
<1>1. B(r).kind \in Kinds
  BY DEF Locals, Body, B
<1>2. First(B(r)) \in Pcs \ {"start"}
  BY <1>1 DEF First, Pcs, Kinds, Runners, Movers, Loads, Extracts, Queries, Selects, Dml, Readers,
              Writers
<1>3. Start(r) => Goes(r, First(B(r)))
  BY <1>2, ToGoes DEF Start
<1>4. Running(r) => \/ B(r).kind \in Queries /\ To(r, "lookup")
                    \/ B(r).kind \in Loads /\ To(r, "read")
                    \/ B(r).kind \notin Queries \cup Loads /\ To(r, "source")
  BY DEF Running
<1> QED
  BY <1>3, <1>4, Awaits

\* Those of a query.
LEMMA QueryMoves ==
  ASSUME req \in [Requests -> Locals], NEW r \in Requests
  PROVE  /\ EnforceJobLocation(r) => Ends(r, "error") \/ Goes(r, "running") \/ Goes(r, "lookup")
         /\ Lookup(r) => Goes(r, "execute")
         /\ Record(r) => IF B(r).kind = "select" THEN Goes(r, "store") ELSE Goes(r, "answer")
         /\ StoreInCache(r) => Goes(r, "answer")
         /\ Answer(r) => Ends(r, "error") \/ Ends(r, "ok")
         /\ Plan(r) => Ends(r, "error") \/ Ends(r, "ok")
<1>1. EnforceJobLocation(r) => End(r, "error") \/ To(r, "running") \/ To(r, "lookup")
  BY DEF EnforceJobLocation
<1>2. Lookup(r) => To(r, "execute")
  BY DEF Lookup
<1>3. Record(r) => IF B(r).kind = "select" THEN To(r, "store") ELSE To(r, "answer")
  BY DEF Record
<1>4. StoreInCache(r) => To(r, "answer")
  BY DEF StoreInCache
<1>5. Answer(r) => End(r, "error") \/ End(r, "ok")
  BY DEF Answer
<1>6. Plan(r) => End(r, "error") \/ End(r, "ok")
  BY DEF Plan
<1> QED
  BY <1>1, <1>2, <1>3, <1>4, <1>5, <1>6, Awaits

\* Those of a load, and of a copy.
LEMMA LoadMoves ==
  ASSUME req \in [Requests -> Locals], NEW r \in Requests
  PROVE  /\ ReadSource(r) => Goes(r, "schema") \/ Throws(r)
         /\ ResolveSchema(r) => Goes(r, "ensure") \/ Throws(r)
         /\ EnsureDestination(r) =>
              \/ Goes(r, "create") \/ Goes(r, "count") \/ Goes(r, "write")
              \/ B(r).disposition = "WRITE_TRUNCATE" /\ Goes(r, "truncate")
         /\ CountDestination(r) => Goes(r, "write") \/ Throws(r)
         /\ CreateDestination(r) => IF B(r).table \in exists THEN Throws(r) ELSE Goes(r, "describe")
         /\ DescribeDestination(r) =>
              \/ Goes(r, "write")
              \/ B(r).disposition = "WRITE_TRUNCATE" /\ Goes(r, "truncate")
         /\ Truncate(r) => IF B(r).table \in exists THEN Goes(r, "write") ELSE Throws(r)
         /\ WriteSelected(r) => IF Insertable(B(r))
                                THEN Goes(r, IF B(r).kind = "copy" THEN "copyCount" ELSE "fileCount")
                                ELSE Throws(r)
         /\ Invalidate(r) => IF B(r).kind \in Writers THEN Ends(r, "ok") ELSE Goes(r, "finish")
<1>1. ReadSource(r) => To(r, "schema") \/ Throw(r)
  BY DEF ReadSource
<1>2. ResolveSchema(r) => To(r, "ensure") \/ Throw(r)
  BY DEF ResolveSchema
<1>3. EnsureDestination(r) => \/ To(r, "create") \/ To(r, "count") \/ To(r, "write")
                              \/ B(r).disposition = "WRITE_TRUNCATE" /\ To(r, "truncate")
  BY DEF EnsureDestination, Prepared
<1>4. CountDestination(r) => To(r, "write") \/ Throw(r)
  BY DEF CountDestination
<1>5. CreateDestination(r) => IF B(r).table \in exists THEN Throw(r) ELSE To(r, "describe")
  BY DEF CreateDestination
<1>6. DescribeDestination(r) => \/ To(r, "write")
                                \/ B(r).disposition = "WRITE_TRUNCATE" /\ To(r, "truncate")
  BY DEF DescribeDestination, Prepared
<1>7. Truncate(r) => IF B(r).table \in exists THEN To(r, "write") ELSE Throw(r)
  BY DEF Truncate
<1>8. WriteSelected(r) => \/ Insertable(B(r)) /\ B(r).kind = "copy" /\ To(r, "copyCount")
                          \/ Insertable(B(r)) /\ B(r).kind # "copy" /\ To(r, "fileCount")
                          \/ ~Insertable(B(r)) /\ Throw(r)
  BY DEF WriteSelected
<1>9. Invalidate(r) => IF B(r).kind \in Writers THEN End(r, "ok") ELSE To(r, "finish")
  BY DEF Invalidate
<1> QED
  BY <1>1, <1>2, <1>3, <1>4, <1>5, <1>6, <1>7, <1>8, <1>9, Awaits

\* Those of the rest.
LEMMA OtherMoves ==
  ASSUME req \in [Requests -> Locals], NEW r \in Requests
  PROVE  /\ ReadSourceTable(r) => \/ B(r).kind = "copy" /\ Goes(r, "ensure")
                                  \/ B(r).kind # "copy" /\ Goes(r, "export")
                                  \/ Throws(r)
         /\ Upload(r) => Throws(r) \/ Goes(r, "finish") \/ Goes(r, "extractCount")
         /\ Finish(r) => Goes(r, "reread")
         /\ Reread(r) => Goes(r, "fail") \/ Ends(r, "ok")
         /\ FailJob(r) => Ends(r, "error")
         /\ Check(r) => \/ B(r).kind = "delete" /\ Goes(r, "dropRows")
                        \/ B(r).kind # "delete" /\ Goes(r, "change")
                        \/ Ends(r, "error") \/ Ends(r, "ok")
         /\ CancelJob(r) => Ends(r, "ok")
         /\ DropRows(r) => Goes(r, "dropJob")
         /\ DropJob(r) => Ends(r, "ok")
         /\ GetTable(r) => Goes(r, "countRows") \/ Ends(r, "error")
         /\ WriteOther(r) => IF B(r).table \in exists /\ B(r).kind # "append"
                             THEN Goes(r, "invalidate") ELSE Ends(r, "ok") \/ Ends(r, "error")
<1>1. ReadSourceTable(r) => \/ B(r).kind = "copy" /\ To(r, "ensure")
                            \/ B(r).kind # "copy" /\ To(r, "export")
                            \/ Throw(r)
  BY DEF ReadSourceTable
<1>2. Upload(r) => Throw(r) \/ To(r, "finish") \/ To(r, "extractCount")
  BY DEF Upload
<1>3. Finish(r) => To(r, "reread")
  BY DEF Finish
<1>4. Reread(r) => To(r, "fail") \/ End(r, "ok")
  BY DEF Reread
<1>5. FailJob(r) => End(r, "error")
  BY DEF FailJob
<1>6. Check(r) => \/ B(r).kind = "delete" /\ To(r, "dropRows")
                  \/ B(r).kind # "delete" /\ To(r, "change")
                  \/ End(r, "error") \/ End(r, "ok")
  BY DEF Check
<1>7. CancelJob(r) => End(r, "ok")
  BY DEF CancelJob
<1>8. (DropRows(r) => To(r, "dropJob")) /\ (DropJob(r) => End(r, "ok"))
  BY DEF DropRows, DropJob
<1>9. GetTable(r) => To(r, "countRows") \/ End(r, "error")
  BY DEF GetTable
<1>10. WriteOther(r) => IF B(r).table \in exists /\ B(r).kind # "append"
                        THEN To(r, "invalidate") ELSE End(r, "ok") \/ End(r, "error")
  BY DEF WriteOther
<1> QED
  BY <1>1, <1>2, <1>3, <1>4, <1>5, <1>6, <1>7, <1>8, <1>9, <1>10, Awaits
-----------------------------------------------------------------------------
(***************************************************************************)
(* The steps that change locals.                                           *)
(***************************************************************************)

\* Request r goes on at p with n rows stored, written or counted.
Counted(r, p, n) ==
  /\ Local(r) /\ req'[r].pc = p /\ req'[r].outcome = req[r].outcome
  /\ req'[r].at = n
  /\ req'[r].result = req[r].result /\ req'[r].hit = req[r].hit /\ req'[r].seen = req[r].seen
  /\ req'[r].total = req[r].total /\ req'[r].listed = req[r].listed
  /\ req'[r].early = req[r].early

\* It goes on at p with rows selected.
Found(r, p, rows) ==
  /\ Local(r) /\ req'[r].pc = p /\ req'[r].outcome = req[r].outcome
  /\ req'[r].result = rows /\ req'[r].seen = req[r].seen
  /\ req'[r].total = req[r].total /\ req'[r].listed = req[r].listed
  /\ req'[r].early = req[r].early

\* A number of rows is set.
LEMMA CountedBy ==
  ASSUME req \in [Requests -> Locals], NEW r \in Requests, NEW p \in Pcs \ {"start"}, NEW n \in Nat,
         \/ req' = [req EXCEPT ![r].pc = p, ![r].at = n]
         \/ req' = [req EXCEPT ![r].at = n] /\ p = Pc(r)
  PROVE  Counted(r, p, n)
<1> DEFINE l == [req[r] EXCEPT !.pc = p, !.at = n]
<1>1. l \in Locals
  BY DEF Locals
<1>2. req' = [req EXCEPT ![r] = l]
  <2>1. CASE req' = [req EXCEPT ![r].at = n] /\ p = Pc(r)
    <3>1. [req[r] EXCEPT !.at = n] = l
      BY <2>1 DEF Pc, Locals
    <3> QED
      BY <2>1, <3>1
  <2> QED
    BY <2>1
<1>3. /\ l.pc = p /\ l.outcome = req[r].outcome /\ l.body = req[r].body
      /\ l.result = req[r].result /\ l.at = n /\ l.hit = req[r].hit
      /\ l.seen = req[r].seen /\ l.total = req[r].total
      /\ l.listed = req[r].listed /\ l.early = req[r].early
  BY DEF Locals
<1> QED
  BY <1>1, <1>2, <1>3 DEF Counted, Local

\* The request is replaced by l.
LEMMA Replaced ==
  ASSUME req \in [Requests -> Locals], NEW r \in Requests, NEW l \in Locals,
         req' = [req EXCEPT ![r] = l], l.body = req[r].body, l.pc # "start"
  PROVE  Local(r) /\ req'[r] = l
BY DEF Local

\* The steps that count or write rows.
LEMMA CountingMoves ==
  ASSUME TypeOK, NEW r \in Requests
  PROVE  /\ CountFile(r) => Counted(r, "invalidate", Len(B(r).rows))
         /\ CountCopied(r) => IF B(r).source \in exists
                              THEN Counted(r, "invalidate", Len(contents[B(r).source])) ELSE Throws(r)
         /\ CountExtracted(r) => IF B(r).source \in exists
                                 THEN Counted(r, "finish", Len(contents[B(r).source])) ELSE Throws(r)
         /\ StoreRow(r) => IF HasRow(JobOf(r), req[r].at + 1) THEN Ends(r, "error")
                           ELSE Counted(r, "store", req[r].at + 1)
         /\ WriteRow(r) => \/ Goes(r, "invalidate") /\ UNCHANGED contents
                           \/ Throws(r) /\ UNCHANGED contents
                           \/ Counted(r, "write", req[r].at + 1)
<1>1. /\ req \in [Requests -> Locals] /\ B(r) \in Body /\ req[r].at \in Nat
      /\ contents \in [Tables -> Seq(Rows)]
  BY DEF TypeOK, B, Locals
<1>2. /\ Len(B(r).rows) \in Nat /\ Len(contents[B(r).source]) \in Nat /\ req[r].at + 1 \in Nat
  BY <1>1 DEF Body
<1>3. {"invalidate", "finish", "store", "write"} \subseteq Pcs \ {"start"}
  BY DEF Pcs
<1>4. \A p \in {"invalidate", "finish", "store", "write"}, n \in Nat :
        \/ req' = [req EXCEPT ![r].pc = p, ![r].at = n]
        \/ req' = [req EXCEPT ![r].at = n] /\ p = Pc(r)
        => Counted(r, p, n)
  BY <1>1, <1>3, CountedBy
<1>5. CountFile(r) => Counted(r, "invalidate", Len(B(r).rows))
  BY <1>2, <1>4 DEF CountFile
<1>6. CountCopied(r) => IF B(r).source \in exists
                        THEN Counted(r, "invalidate", Len(contents[B(r).source])) ELSE Throws(r)
  BY <1>1, <1>2, <1>4, Awaits DEF CountCopied
<1>7. CountExtracted(r) => IF B(r).source \in exists
                           THEN Counted(r, "finish", Len(contents[B(r).source])) ELSE Throws(r)
  BY <1>1, <1>2, <1>4, Awaits DEF CountExtracted
<1>8. StoreRow(r) => IF HasRow(JobOf(r), req[r].at + 1) THEN Ends(r, "error")
                     ELSE Counted(r, "store", req[r].at + 1)
  BY <1>1, <1>2, <1>4, Awaits DEF StoreRow
<1>9. WriteRow(r) => \/ Goes(r, "invalidate") /\ UNCHANGED contents
                     \/ Throws(r) /\ UNCHANGED contents
                     \/ Counted(r, "write", req[r].at + 1)
  BY <1>1, <1>2, <1>4, Awaits DEF WriteRow
<1> QED
  BY <1>5, <1>6, <1>7, <1>8, <1>9

\* Rows come out of the cache.
LEMMA CachedMoves ==
  ASSUME TypeOK, NEW r \in Requests, ReturnCachedSelect(r)
  PROVE  /\ Found(r, "record", cache[B(r).table])
         /\ req'[r].at = req[r].at /\ req'[r].hit = TRUE
<1> DEFINE rows == cache[B(r).table]
           l == [req[r] EXCEPT !.pc = "record", !.hit = TRUE, !.result = rows]
<1>1. req \in [Requests -> Locals] /\ req[r] \in Locals
  BY DEF TypeOK
<1>2. rows \in Seq(Rows)
  BY <1>1 DEF TypeOK, ReturnCachedSelect, Cached, B, Locals, Body
<1>3. req' = [req EXCEPT ![r] = l]
  BY DEF ReturnCachedSelect
<1>4. l \in Locals
  BY <1>1, <1>2 DEF Locals, Pcs
<1>5. /\ l.pc = "record" /\ l.outcome = req[r].outcome /\ l.body = req[r].body
      /\ l.result = rows /\ l.at = req[r].at /\ l.hit = TRUE
      /\ l.seen = req[r].seen /\ l.total = req[r].total
      /\ l.listed = req[r].listed /\ l.early = req[r].early
  BY <1>1 DEF Locals
<1> HIDE DEF l, rows
<1>6. Local(r) /\ req'[r] = l
  BY <1>1, <1>3, <1>4, <1>5, Replaced
<1> QED
  BY <1>5, <1>6 DEF Found, rows

\* They are read for an export.
LEMMA ExportMoves ==
  ASSUME TypeOK, NEW r \in Requests, Export(r)
  PROVE  IF B(r).source \in exists
         THEN Found(r, "upload", contents[B(r).source]) /\ req'[r].hit = req[r].hit
         ELSE Throws(r)
<1> DEFINE rows == contents[B(r).source]
           l == [req[r] EXCEPT !.pc = "upload", !.result = rows, !.at = Len(rows)]
<1>1. req \in [Requests -> Locals] /\ req[r] \in Locals
  BY DEF TypeOK
<1>2. CASE B(r).source \in exists
  <2>1. rows \in Seq(Rows) /\ Len(rows) \in Nat
    BY <1>1 DEF TypeOK, B, Locals, Body
  <2>2. req' = [req EXCEPT ![r] = l]
    BY <1>2 DEF Export
  <2>3. l \in Locals
    BY <1>1, <2>1 DEF Locals, Pcs
  <2>4. /\ l.pc = "upload" /\ l.outcome = req[r].outcome /\ l.body = req[r].body
        /\ l.result = rows /\ l.hit = req[r].hit
        /\ l.seen = req[r].seen /\ l.total = req[r].total
        /\ l.listed = req[r].listed /\ l.early = req[r].early
    BY <1>1 DEF Locals
  <2> HIDE DEF l, rows
  <2>5. Local(r) /\ req'[r] = l
    BY <1>1, <2>2, <2>3, <2>4, Replaced
  <2> QED
    BY <1>2, <2>4, <2>5 DEF Found, rows
<1>3. CASE B(r).source \notin exists
  BY <1>1, <1>3, Awaits DEF Export
<1> QED
  BY <1>2, <1>3

\* What an execution does to its table.
Executed(r, t) ==
  /\ Spoils(t, Undercuts(t))
  /\ contents' = [contents EXCEPT ![t] = IF B(r).kind = "insert" THEN Append(@, RowOf(r, 1))
                                         ELSE <<>>]

\* A query is executed.
LEMMA ExecuteMoves ==
  ASSUME TypeOK, NEW r \in Requests, Execute(r)
  PROVE  \/ Ends(r, "error") /\ UNCHANGED <<contents, spoiled>>
         \/ /\ B(r).kind = "select" /\ UNCHANGED <<contents, spoiled>>
            /\ Found(r, "record", contents[B(r).table])
            /\ req'[r].at = req[r].at /\ req'[r].hit = req[r].hit
         \/ /\ B(r).kind \in Dml /\ Executed(r, B(r).table)
            /\ \E n \in Nat : Counted(r, "record", n)
<1> DEFINE t == B(r).table
           rows == contents[t]
<1>1. req \in [Requests -> Locals] /\ req[r] \in Locals
  BY DEF TypeOK
<1>2. rows \in Seq(Rows) /\ Len(rows) \in Nat
  BY <1>1 DEF TypeOK, B, Locals, Body
<1>3. CASE End(r, "error") /\ UNCHANGED <<contents, spoiled>>
  BY <1>1, <1>3, Awaits
<1>4. CASE /\ B(r).kind = "select"
           /\ req' = [req EXCEPT ![r].pc = "record", ![r].result = contents[t]]
           /\ UNCHANGED <<contents, spoiled>>
  <2> DEFINE l == [req[r] EXCEPT !.pc = "record", !.result = rows]
  <2>1. req' = [req EXCEPT ![r] = l]
    BY <1>4
  <2>2. l \in Locals
    BY <1>1, <1>2 DEF Locals, Pcs
  <2>3. /\ l.pc = "record" /\ l.outcome = req[r].outcome /\ l.body = req[r].body
        /\ l.result = rows /\ l.at = req[r].at /\ l.hit = req[r].hit
        /\ l.seen = req[r].seen /\ l.total = req[r].total
        /\ l.listed = req[r].listed /\ l.early = req[r].early
    BY <1>1 DEF Locals
  <2> HIDE DEF l, rows
  <2>4. Local(r) /\ req'[r] = l
    BY <1>1, <2>1, <2>2, <2>3, Replaced
  <2> QED
    BY <1>4, <2>3, <2>4 DEF Found, rows
<1>5. ASSUME NEW n \in Nat, req' = [req EXCEPT ![r].pc = "record", ![r].at = n]
      PROVE  Counted(r, "record", n)
  BY <1>1, <1>5, CountedBy DEF Pcs
<1>6. CASE /\ B(r).kind = "insert"
           /\ contents' = [contents EXCEPT ![t] = Append(@, RowOf(r, 1))]
           /\ req' = [req EXCEPT ![r].pc = "record", ![r].at = 1]
           /\ Spoils(t, Undercuts(t))
  BY <1>5, <1>6 DEF Dml, Executed
<1>7. CASE /\ B(r).kind = "clear"
           /\ contents' = [contents EXCEPT ![t] = <<>>]
           /\ req' = [req EXCEPT ![r].pc = "record", ![r].at = Len(contents[t])]
           /\ Spoils(t, Undercuts(t))
  <2>1. Executed(r, t)
    BY <1>7 DEF Executed
  <2> QED
    BY <1>2, <1>5, <1>7, <2>1 DEF Dml
<1> QED
  BY <1>3, <1>4, <1>6, <1>7 DEF Execute
-----------------------------------------------------------------------------
(***************************************************************************)
(* Pages.                                                                  *)
(***************************************************************************)

\* Where a finite set is ordered by a key, there is a member for every rank.
LEMMA Ranked ==
  ASSUME NEW S, IsFiniteSet(S), NEW key \in [S -> Nat],
         \A x, y \in S : key[x] = key[y] => x = y,
         NEW n \in Nat, n < Cardinality(S)
  PROVE  \E x \in S : Cardinality({y \in S : key[y] < key[x]}) = n
<1> DEFINE Less(x) == {y \in S : key[y] < key[x]}
           N == Cardinality(S)
           rank == [x \in S |-> Cardinality(Less(x))]
<1>1. N \in Nat
  BY FS_CardinalityType
<1>2. ASSUME NEW x \in S
      PROVE  IsFiniteSet(Less(x)) /\ Cardinality(Less(x)) \in 0..(N - 1)
  <2>1. Less(x) \in SUBSET (S \ {x})
    OBVIOUS
  <2>2. IsFiniteSet(S \ {x}) /\ Cardinality(S \ {x}) = N - 1
    BY FS_RemoveElement
  <2> HIDE DEF Less, N
  <2>3. IsFiniteSet(Less(x)) /\ Cardinality(Less(x)) <= N - 1
    BY <2>1, <2>2, FS_Subset
  <2>4. Cardinality(Less(x)) \in Nat
    BY <2>3, FS_CardinalityType
  <2> QED
    BY <1>1, <2>3, <2>4
<1>3. ASSUME NEW x \in S, NEW y \in S, key[x] < key[y]
      PROVE  Cardinality(Less(x)) < Cardinality(Less(y))
  <2>1. Less(x) \in SUBSET (Less(y) \ {x}) /\ x \in Less(y)
    BY <1>3
  <2> HIDE DEF Less, N
  <2>2. IsFiniteSet(Less(y) \ {x}) /\ Cardinality(Less(y) \ {x}) = Cardinality(Less(y)) - 1
    BY <1>2, <2>1, FS_RemoveElement
  <2>3. Cardinality(Less(x)) <= Cardinality(Less(y)) - 1
    BY <2>1, <2>2, FS_Subset
  <2> QED
    BY <1>1, <1>2, <2>3
<1> HIDE DEF Less, N
<1>4. rank \in Injection(S, 0..(N - 1))
  <2>1. rank \in [S -> 0..(N - 1)]
    BY <1>2
  <2>2. ASSUME NEW x \in S, NEW y \in S, rank[x] = rank[y]
        PROVE  x = y
    <3>1. Cardinality(Less(x)) = Cardinality(Less(y))
      BY <2>2
    <3>2. ~(key[x] < key[y]) /\ ~(key[y] < key[x])
      BY <1>1, <1>2, <1>3, <3>1
    <3> QED
      BY <3>2
  <2> HIDE DEF rank
  <2> QED
    BY <2>1, <2>2, Fun_IsInj
<1>5. IsFiniteSet(0..(N - 1)) /\ Cardinality(0..(N - 1)) = N
  <2>1. 0 \in Int /\ N - 1 \in Int
    BY <1>1
  <2> QED
    BY <1>1, <2>1, FS_Interval
<1>6. rank \in Surjection(S, 0..(N - 1))
  <2>1. Cardinality(S) = Cardinality(0..(N - 1))
    BY <1>5 DEF N
  <2> HIDE DEF rank
  <2> QED
    BY <1>4, <1>5, <2>1, FS_Injection
<1>7. n \in 0..(N - 1)
  BY <1>1 DEF N
<1>8. \E x \in S : rank[x] = n
  <2> HIDE DEF rank
  <2> QED
    BY <1>6, <1>7 DEF Surjection
<1> QED
  BY <1>8 DEF Less

\* A page holds rows.
LEMMA PageRows ==
  ASSUME jobRows \subseteq JobIds \X (Nat \ {0}) \X Rows, PrimaryKey, IsFiniteSet(jobRows),
         NEW j \in JobIds, NEW offset \in Nat
  PROVE  Page(j, offset) \in Seq(Rows)
<1> DEFINE X == {x \in Later(j, offset) : Cardinality(Before(x, j, offset)) < PageSize}
           key == [x \in X |-> x[2]]
<1>1. X \subseteq jobRows /\ IsFiniteSet(X) /\ IsFiniteSet(Later(j, offset))
  BY FS_Subset DEF Later
<1>2. \A x \in jobRows : x[2] \in Nat /\ x[3] \in Rows
  OBVIOUS
<1>3. key \in [X -> Nat] /\ \A x, y \in X : key[x] = key[y] => x = y
  BY <1>1, <1>2 DEF PrimaryKey, Later
<1>4. PageSize \in Nat
  BY JobsAssumption
<1>5. ASSUME NEW x \in X
      PROVE  Before(x, j, offset) = {y \in X : key[y] < key[x]}
  <2>1. ASSUME NEW y \in Before(x, j, offset)
        PROVE  y \in X
    <3>1. y \in Later(j, offset) /\ y[2] < x[2] /\ x \in jobRows /\ y \in jobRows
      BY <2>1 DEF Before, Later
    <3>2. Before(y, j, offset) \in SUBSET Before(x, j, offset)
      BY <1>2, <3>1 DEF Before, Later
    <3>3. IsFiniteSet(Before(x, j, offset))
      BY <1>1, FS_Subset DEF Before
    <3>4. IsFiniteSet(Before(y, j, offset)) /\
          Cardinality(Before(y, j, offset)) <= Cardinality(Before(x, j, offset))
      BY <3>2, <3>3, FS_Subset
    <3>5. Cardinality(Before(y, j, offset)) \in Nat /\ Cardinality(Before(x, j, offset)) \in Nat
      BY <3>3, <3>4, FS_CardinalityType
    <3>6. Cardinality(Before(y, j, offset)) < PageSize
      BY <1>4, <3>4, <3>5
    <3> QED
      BY <3>1, <3>6
  <2>2. \A y \in X : key[y] < key[x] <=> y[2] < x[2]
    OBVIOUS
  <2>3. X \subseteq Later(j, offset)
    OBVIOUS
  <2> HIDE DEF X, key
  <2> QED
    BY <2>1, <2>2, <2>3 DEF Before
<1>6. Cardinality(X) \in Nat
  BY <1>1, FS_CardinalityType
<1>7. ASSUME NEW i \in 1..Cardinality(X)
      PROVE  (CHOOSE x \in X : Cardinality(Before(x, j, offset)) = i - 1)[3] \in Rows
  <2>1. i - 1 \in Nat /\ i - 1 < Cardinality(X)
    BY <1>6
  <2>2. \E x \in X : Cardinality({y \in X : key[y] < key[x]}) = i - 1
    <3> HIDE DEF X, key
    <3> DEFINE n == i - 1
    <3>1. n \in Nat /\ n < Cardinality(X)
      BY <2>1
    <3> HIDE DEF n
    <3>2. \E x \in X : Cardinality({y \in X : key[y] < key[x]}) = n
      BY <1>1, <1>3, <3>1, Ranked
    <3> QED
      BY <3>2 DEF n
  <2>3. \E x \in X : Cardinality(Before(x, j, offset)) = i - 1
    <3> HIDE DEF X, key
    <3> QED
      BY <1>5, <2>2
  <2> HIDE DEF X
  <2> QED
    BY <1>1, <1>2, <2>3
<1>8. Page(j, offset) = [i \in 1..Cardinality(X) |->
                          (CHOOSE x \in X : Cardinality(Before(x, j, offset)) = i - 1)[3]]
  BY DEF Page
<1> HIDE DEF X
<1>9. Page(j, offset) \in [1..Cardinality(X) -> Rows]
  BY <1>7, <1>8
<1> QED
  BY <1>6, <1>9, SeqDef

\* The steps of clients that read page by page.
LEMMA ReadingMoves ==
  ASSUME TypeInv, NEW r \in Requests
  PROVE  /\ ReadJob(r) => \/ Ends(r, "error")
                          \/ /\ Local(r) /\ req'[r].pc = "getPage" /\ req'[r].seen = GetJob(JobOf(r))
                             /\ GetJob(JobOf(r)) # NoJob
                             /\ req'[r].result = req[r].result /\ req'[r].outcome = req[r].outcome
                             /\ req'[r].listed = req[r].listed /\ req'[r].early = req[r].early
                             /\ req'[r].at = req[r].at
         /\ ListJobs(r) =>
              /\ Local(r) /\ req'[r].result = req[r].result /\ req'[r].seen = req[r].seen
              /\ req'[r].listed = req[r].listed \cup ListPage(req[r].at)
              /\ req'[r].early = IF req[r].at = 0 THEN Present ELSE req[r].early
              /\ req'[r].at = NextOffset(req[r].at)
              /\ IF HasNextPage(req[r].at) THEN req'[r].pc = "page" /\ req'[r].outcome = "none"
                 ELSE req'[r].pc = "ended" /\ req'[r].outcome = "ok"
<1>1. /\ req \in [Requests -> Locals] /\ req[r] \in Locals /\ B(r) \in Body
      /\ jobs \in [JobIds -> Job \cup {NoJob}]
  BY DEF TypeInv, TypeOK, B, Locals
<1>2. PageSize \in Nat
  BY JobsAssumption
<1>3. ASSUME ReadJob(r), ~End(r, "error")
      PROVE  /\ Local(r) /\ req'[r].pc = "getPage" /\ req'[r].seen = GetJob(JobOf(r))
             /\ GetJob(JobOf(r)) # NoJob
             /\ req'[r].result = req[r].result /\ req'[r].outcome = req[r].outcome
             /\ req'[r].listed = req[r].listed /\ req'[r].early = req[r].early
             /\ req'[r].at = req[r].at
  <2> DEFINE job == GetJob(JobOf(r))
             l == [req[r] EXCEPT !.pc = "getPage", !.seen = job]
  <2>1. job \in Job /\ job # NoJob /\ req' = [req EXCEPT ![r] = l]
    BY <1>1, <1>3 DEF ReadJob, GetJob, JobOf, Body
  <2>2. l \in Locals
    BY <1>1, <2>1 DEF Locals, Pcs
  <2>3. /\ l.pc = "getPage" /\ l.outcome = req[r].outcome /\ l.body = req[r].body
        /\ l.result = req[r].result /\ l.at = req[r].at /\ l.seen = job
        /\ l.listed = req[r].listed /\ l.early = req[r].early
    BY <1>1 DEF Locals
  <2> HIDE DEF l
  <2>4. Local(r) /\ req'[r] = l
    BY <1>1, <2>1, <2>2, <2>3, Replaced
  <2> QED
    BY <2>1, <2>3, <2>4
<1>4. ReadJob(r) /\ End(r, "error") => Ends(r, "error")
  BY <1>1, Awaits
<1>5. ASSUME ListJobs(r)
      PROVE  /\ Local(r) /\ req'[r].result = req[r].result /\ req'[r].seen = req[r].seen
             /\ req'[r].listed = req[r].listed \cup ListPage(req[r].at)
             /\ req'[r].early = IF req[r].at = 0 THEN Present ELSE req[r].early
             /\ req'[r].at = NextOffset(req[r].at)
             /\ IF HasNextPage(req[r].at) THEN req'[r].pc = "page" /\ req'[r].outcome = "none"
                ELSE req'[r].pc = "ended" /\ req'[r].outcome = "ok"
  <2> DEFINE offset == req[r].at
             listed == req[r].listed \cup ListPage(offset)
             early == IF offset = 0 THEN Present ELSE req[r].early
             next == NextOffset(offset)
             p == IF HasNextPage(offset) THEN "page" ELSE "ended"
             o == IF HasNextPage(offset) THEN "none" ELSE "ok"
             l == [req[r] EXCEPT !.listed = listed, !.early = early, !.at = next, !.pc = p,
                                 !.outcome = o]
  <2>1. req' = [req EXCEPT ![r] = l]
    BY <1>5 DEF ListJobs
  <2>2. /\ listed \in SUBSET (JobIds \cup Rows) /\ early \in SUBSET (JobIds \cup Rows)
        /\ next \in Nat
    BY <1>1, <1>2 DEF Locals, ListPage, Present, NextOffset
  <2>3. p \in Pcs /\ o \in {"none", "ok", "error", "lost"} /\ p # "start"
    BY DEF Pcs
  <2> HIDE DEF listed, early, next, p, o
  <2>4. l \in Locals
    BY <1>1, <2>2, <2>3 DEF Locals
  <2>5. /\ l.pc = p /\ l.outcome = o /\ l.body = req[r].body
        /\ l.result = req[r].result /\ l.at = next /\ l.seen = req[r].seen
        /\ l.listed = listed /\ l.early = early
    BY <1>1 DEF Locals
  <2> HIDE DEF l
  <2>6. Local(r) /\ req'[r] = l
    BY <1>1, <2>1, <2>3, <2>4, <2>5, Replaced
  <2> QED
    BY <2>5, <2>6 DEF listed, early, next, p, o
<1> QED
  BY <1>3, <1>4, <1>5

\* A page of results is read.
LEMMA ReadPageMoves ==
  ASSUME TypeInv, NEW r \in Requests, ReadPage(r)
  PROVE  LET rows == Page(JobOf(r), Offset(r))
             more == HasMore(Offset(r) + Len(rows), req[r].seen.total)
             complete == req[r].seen.state = "DONE"
         IN  /\ Local(r) /\ rows \in Seq(Rows) /\ req'[r].result = req[r].result \o rows
             /\ req'[r].at = req[r].at
             /\ req'[r].listed = req[r].listed /\ req'[r].early = req[r].early
             /\ IF more \/ ~complete THEN req'[r].pc = "getJob" /\ req'[r].outcome = "none"
                ELSE req'[r].pc = "ended" /\ req'[r].outcome = "ok"
<1> DEFINE rows == Page(JobOf(r), Offset(r))
           more == HasMore(Offset(r) + Len(rows), req[r].seen.total)
           complete == req[r].seen.state = "DONE"
           result == req[r].result \o rows
           p == IF more \/ ~complete THEN "getJob" ELSE "ended"
           o == IF more \/ ~complete THEN "none" ELSE "ok"
           l == [req[r] EXCEPT !.result = result, !.seen = NoJob, !.pc = p, !.outcome = o]
<1>1. req \in [Requests -> Locals] /\ req[r] \in Locals /\ B(r) \in Body
  BY DEF TypeInv, TypeOK, B, Locals
<1>2. req[r].result \in Seq(Rows) /\ Offset(r) \in Nat /\ JobOf(r) \in JobIds
  BY <1>1 DEF Locals, Offset, Body, JobOf
<1>3. rows \in Seq(Rows)
  BY <1>2, PageRows DEF TypeInv, TypeOK
<1>4. req' = [req EXCEPT ![r] = l]
  BY DEF ReadPage
<1>5. p \in Pcs /\ o \in {"none", "ok", "error", "lost"} /\ p # "start"
  BY DEF Pcs
<1>6. result \in Seq(Rows)
  <2> HIDE DEF rows
  <2> QED
    BY <1>2, <1>3
<1> HIDE DEF p, o, result
<1>7. l \in Locals
  BY <1>1, <1>5, <1>6 DEF Locals
<1>8. /\ l.pc = p /\ l.outcome = o /\ l.body = req[r].body /\ l.result = result /\ l.at = req[r].at
      /\ l.listed = req[r].listed /\ l.early = req[r].early
  BY <1>1 DEF Locals
<1> HIDE DEF l
<1>9. Local(r) /\ req'[r] = l
  BY <1>1, <1>4, <1>5, <1>7, <1>8, Replaced
<1> QED
  BY <1>3, <1>8, <1>9 DEF p, o, result

\* The rows of a table are counted, and a page of them read.
LEMMA TableMoves ==
  ASSUME TypeInv, NEW r \in Requests
  PROVE  LET t == B(r).table
             page == PageOf(t, req[r].at)
             next == req[r].at + Cardinality(page)
         IN  /\ CountRows(r) =>
                  \/ Ends(r, "error")
                  \/ /\ Local(r) /\ req'[r].pc = "getRows" /\ req'[r].total = Len(contents[t])
                     /\ req'[r].early = IF req[r].at = 0
                                        THEN {contents[t][i] : i \in DOMAIN contents[t]}
                                        ELSE req[r].early
                     /\ req'[r].listed = req[r].listed /\ req'[r].at = req[r].at
                     /\ req'[r].seen = req[r].seen
                     /\ req'[r].result = req[r].result /\ req'[r].outcome = req[r].outcome
             /\ GetRows(r) =>
                  /\ Local(r) /\ req'[r].listed = req[r].listed \cup {contents[t][i] : i \in page}
                  /\ req'[r].at = next /\ req'[r].early = req[r].early
                  /\ req'[r].seen = req[r].seen /\ req'[r].result = req[r].result
                  /\ IF HasMore(next, req[r].total)
                     THEN req'[r].pc = "getTable" /\ req'[r].outcome = "none"
                     ELSE req'[r].pc = "ended" /\ req'[r].outcome = "ok"
<1> DEFINE t == B(r).table
           page == PageOf(t, req[r].at)
           next == req[r].at + Cardinality(page)
<1>1. req \in [Requests -> Locals] /\ req[r] \in Locals /\ B(r) \in Body
  BY DEF TypeInv, TypeOK, B, Locals
<1>2. contents[t] \in Seq(Rows) /\ req[r].at \in Nat /\ req[r].listed \in SUBSET (JobIds \cup Rows)
  BY <1>1 DEF TypeInv, TypeOK, Body, Locals
<1>3. \A i \in DOMAIN contents[t] : contents[t][i] \in Rows
  BY <1>2
<1>4. ASSUME CountRows(r), ~End(r, "error")
      PROVE  /\ Local(r) /\ req'[r].pc = "getRows" /\ req'[r].total = Len(contents[t])
             /\ req'[r].early = IF req[r].at = 0 THEN {contents[t][i] : i \in DOMAIN contents[t]}
                                ELSE req[r].early
             /\ req'[r].listed = req[r].listed /\ req'[r].at = req[r].at
             /\ req'[r].seen = req[r].seen
             /\ req'[r].result = req[r].result /\ req'[r].outcome = req[r].outcome
  <2> DEFINE early == IF req[r].at = 0 THEN {contents[t][i] : i \in DOMAIN contents[t]}
                      ELSE req[r].early
             l == [req[r] EXCEPT !.pc = "getRows", !.total = Len(contents[t]), !.early = early]
  <2>1. req' = [req EXCEPT ![r] = l]
    BY <1>4 DEF CountRows
  <2>2. early \in SUBSET (JobIds \cup Rows) /\ Len(contents[t]) \in Nat
    BY <1>1, <1>2, <1>3 DEF Locals
  <2> HIDE DEF early
  <2>3. l \in Locals
    BY <1>1, <2>2 DEF Locals, Pcs
  <2>4. /\ l.pc = "getRows" /\ l.outcome = req[r].outcome /\ l.body = req[r].body
        /\ l.result = req[r].result /\ l.at = req[r].at /\ l.seen = req[r].seen
        /\ l.total = Len(contents[t]) /\ l.listed = req[r].listed /\ l.early = early
    BY <1>1 DEF Locals
  <2> HIDE DEF l
  <2>5. Local(r) /\ req'[r] = l
    BY <1>1, <2>1, <2>3, <2>4, Replaced
  <2> QED
    BY <2>4, <2>5 DEF early
<1>5. CountRows(r) /\ End(r, "error") => Ends(r, "error")
  BY <1>1, Awaits
<1>6. ASSUME GetRows(r)
      PROVE  /\ Local(r) /\ req'[r].listed = req[r].listed \cup {contents[t][i] : i \in page}
             /\ req'[r].at = next /\ req'[r].early = req[r].early
             /\ req'[r].seen = req[r].seen /\ req'[r].result = req[r].result
             /\ IF HasMore(next, req[r].total)
                THEN req'[r].pc = "getTable" /\ req'[r].outcome = "none"
                ELSE req'[r].pc = "ended" /\ req'[r].outcome = "ok"
  <2> DEFINE listed == req[r].listed \cup {contents[t][i] : i \in page}
             p == IF HasMore(next, req[r].total) THEN "getTable" ELSE "ended"
             o == IF HasMore(next, req[r].total) THEN "none" ELSE "ok"
             l == [req[r] EXCEPT !.listed = listed, !.at = next, !.pc = p, !.outcome = o]
  <2>1. req' = [req EXCEPT ![r] = l]
    BY <1>6 DEF GetRows
  <2>2. page \subseteq DOMAIN contents[t]
    BY DEF PageOf
  <2>3. listed \in SUBSET (JobIds \cup Rows)
    BY <1>2, <1>3, <2>2
  <2>4. next \in Nat
    <3>1. DOMAIN contents[t] = 1..Len(contents[t]) /\ Len(contents[t]) \in Nat
      BY <1>2
    <3>2. IsFiniteSet(1..Len(contents[t]))
      <4>1. 1 \in Int /\ Len(contents[t]) \in Int
        BY <3>1
      <4> QED
        BY <4>1, FS_Interval
    <3>3. page \in SUBSET (1..Len(contents[t]))
      BY <2>2, <3>1
    <3> HIDE DEF page
    <3>4. Cardinality(page) \in Nat
      BY <3>2, <3>3, FS_Subset, FS_CardinalityType
    <3> QED
      BY <1>2, <3>4
  <2>5. p \in Pcs /\ o \in {"none", "ok", "error", "lost"} /\ p # "start"
    BY DEF Pcs
  <2> HIDE DEF listed, next, p, o
  <2>6. l \in Locals
    BY <1>1, <2>3, <2>4, <2>5 DEF Locals
  <2>7. /\ l.pc = p /\ l.outcome = o /\ l.body = req[r].body
        /\ l.result = req[r].result /\ l.at = next /\ l.seen = req[r].seen
        /\ l.listed = listed /\ l.early = req[r].early
    BY <1>1 DEF Locals
  <2> HIDE DEF l
  <2>8. Local(r) /\ req'[r] = l
    BY <1>1, <2>1, <2>5, <2>6, <2>7, Replaced
  <2> QED
    BY <2>7, <2>8 DEF listed, next, p, o
<1> QED
  BY <1>4, <1>5, <1>6
-----------------------------------------------------------------------------
(***************************************************************************)
(* The types.                                                              *)
(***************************************************************************)

\* Every step leaves the other requests alone and keeps the body.
LEMMA StepLocal ==
  ASSUME TypeInv, NEW r \in Requests, Step(r)
  PROVE  Local(r)
<1>1. req \in [Requests -> Locals] /\ TypeOK
  BY DEF TypeInv, TypeOK
<1>2. CASE Start(r) \/ Running(r)
  BY <1>1, <1>2, StartMoves DEF Goes, Moved
<1>3. CASE Query(r)
  <2>1. CASE \/ EnforceJobLocation(r) \/ Lookup(r) \/ Record(r) \/ StoreInCache(r)
             \/ Answer(r) \/ Plan(r)
    BY <1>1, <2>1, QueryMoves DEF Goes, Ends, Moved
  <2>2. CASE ReturnCachedSelect(r) \/ Execute(r)
    BY <1>1, <2>2, CachedMoves, ExecuteMoves DEF Found, Counted, Ends, Moved
  <2>3. CASE StoreRow(r)
    BY <1>1, <2>3, CountingMoves DEF Counted, Ends, Moved
  <2> QED
    BY <1>3, <2>1, <2>2, <2>3 DEF Query
<1>4. CASE Load(r)
  <2>1. CASE \/ ReadSource(r) \/ ResolveSchema(r) \/ EnsureDestination(r) \/ CountDestination(r)
             \/ CreateDestination(r) \/ DescribeDestination(r) \/ Truncate(r)
             \/ WriteSelected(r) \/ Invalidate(r)
    BY <1>1, <2>1, LoadMoves DEF Goes, Throws, Ends, Moved
  <2>2. CASE WriteRow(r) \/ CountFile(r)
    BY <1>1, <2>2, CountingMoves DEF Counted, Goes, Throws, Ends, Moved
  <2> QED
    BY <1>4, <2>1, <2>2 DEF Load
<1>5. CASE CopyOrExtract(r)
  <2>1. CASE ReadSourceTable(r) \/ Upload(r)
    BY <1>1, <2>1, OtherMoves DEF Goes, Throws, Ends, Moved
  <2>2. CASE CountCopied(r) \/ CountExtracted(r) \/ Export(r)
    BY <1>1, <2>2, CountingMoves, ExportMoves DEF Counted, Found, Goes, Throws, Ends, Moved
  <2> QED
    BY <1>5, <2>1, <2>2 DEF CopyOrExtract
<1>6. CASE EndJob(r) \/ CancelOrDelete(r) \/ GetTable(r) \/ WriteOther(r)
  BY <1>1, <1>6, OtherMoves DEF EndJob, CancelOrDelete, Goes, Ends, Moved
<1>7. CASE Results(r)
  BY <1>7, ReadingMoves, ReadPageMoves DEF Results, Ends, Moved
<1>8. CASE CountRows(r) \/ GetRows(r)
  BY <1>8, TableMoves DEF Ends, Moved
<1> QED
  BY <1>2, <1>3, <1>4, <1>5, <1>6, <1>7, <1>8 DEF Step, TableRows

\* What a step does to jobs, up to the row it writes.
LEMMA StepJobs ==
  ASSUME TypeInv, NEW r \in Requests, Step(r)
  PROVE  \/ UNCHANGED jobs
         \/ \E state \in {"RUNNING", "DONE"}, failed \in BOOLEAN, total \in Nat, affected \in Nat :
              UpsertJob(JobOf(r), state, failed, total, affected)
         \/ CancelJob(r) \/ DropJob(r)
<1>1. req[r] \in Locals
  BY DEF TypeInv, TypeOK
<1>2. Len(req[r].result) \in Nat /\ req[r].at \in Nat
  BY <1>1 DEF Locals
<1>3. CASE Running(r)
  BY <1>3 DEF Running
<1>4. CASE Record(r)
  BY <1>2, <1>4 DEF Record
<1>5. CASE Finish(r)
  BY <1>2, <1>5 DEF Finish
<1>6. CASE FailJob(r)
  BY <1>6 DEF FailJob
<1>7. CASE ~(Running(r) \/ Record(r) \/ Finish(r) \/ FailJob(r) \/ CancelJob(r) \/ DropJob(r))
  BY <1>7 DEF Step, Start, Query, EnforceJobLocation, Lookup, ReturnCachedSelect, Execute,
       StoreRow, StoreInCache, Answer, Plan, Load, ReadSource, ResolveSchema, EnsureDestination,
       CountDestination, CreateDestination, DescribeDestination, Truncate, WriteRow, WriteSelected,
       CountFile, Invalidate, CopyOrExtract, ReadSourceTable, CountCopied, Export, Upload,
       CountExtracted, EndJob, Reread, CancelOrDelete, Check, DropRows, Results, ReadJob, ReadPage,
       ListJobs, TableRows, GetTable, CountRows, GetRows, WriteOther, jobVars
<1> QED
  BY <1>3, <1>4, <1>5, <1>6, <1>7

\* Which steps change what else.
LEMMA Footprint ==
  ASSUME NEW r \in Requests, Step(r)
  PROVE  /\ \/ UNCHANGED contents
            \/ Execute(r) \/ Truncate(r) \/ WriteRow(r) \/ WriteSelected(r) \/ WriteOther(r)
         /\ UNCHANGED exists \/ CreateDestination(r)
         /\ UNCHANGED described \/ DescribeDestination(r)
         /\ UNCHANGED jobRows \/ StoreRow(r) \/ DropRows(r)
         /\ UNCHANGED cache \/ Lookup(r) \/ StoreInCache(r) \/ Invalidate(r)
         /\ \/ UNCHANGED spoiled
            \/ Execute(r) \/ WriteRow(r) \/ WriteSelected(r) \/ WriteOther(r) \/ Invalidate(r)
         /\ UNCHANGED crashes
BY DEF Step, Start, Running, Query, EnforceJobLocation, Lookup, ReturnCachedSelect, Execute, Record,
   StoreRow, StoreInCache, Answer, Plan, Load, ReadSource, ResolveSchema, EnsureDestination,
   CountDestination, CreateDestination, DescribeDestination, Truncate, WriteRow, WriteSelected,
   CountFile, Invalidate, CopyOrExtract, ReadSourceTable, CountCopied, Export, Upload,
   CountExtracted, EndJob, Finish, Reread, FailJob, CancelOrDelete, Check, CancelJob, DropRows,
   DropJob, Results, ReadJob, ReadPage, ListJobs, TableRows, GetTable, CountRows, GetRows,
   WriteOther, tableVars, jobVars

\* A table after a step: what was there with rows at its end, or nothing.
Grows(t) == \E rows \in Seq(Rows) : contents'[t] = contents[t] \o rows

\* What a step does to tables.
LEMMA StepTables ==
  ASSUME TypeInv, NEW r \in Requests, Step(r)
  PROVE  /\ contents' \in [Tables -> Seq(Rows)]
         /\ \A t \in Tables \ {B(r).table} : contents'[t] = contents[t]
         /\ \/ Grows(B(r).table)
            \/ /\ contents'[B(r).table] = <<>>
               /\ Truncate(r) \/ (Execute(r) /\ B(r).kind = "clear")
<1> DEFINE t == B(r).table
<1>1. /\ req \in [Requests -> Locals] /\ req[r] \in Locals /\ B(r) \in Body
      /\ contents \in [Tables -> Seq(Rows)] /\ TypeOK
  BY DEF TypeInv, TypeOK, B, Locals
<1>2. /\ t \in Tables /\ B(r).source \in Tables /\ contents[t] \in Seq(Rows) /\ req[r].at \in Nat
      /\ B(r).rows \in Seq(BOOLEAN) /\ contents[B(r).source] \in Seq(Rows)
  BY <1>1 DEF Body, Locals
<1>3. \A i \in Nat \ {0} : RowOf(r, i) \in Rows /\ <<RowOf(r, i)>> \in Seq(Rows)
  BY DEF Rows, RowOf
<1>4. ASSUME NEW rows \in Seq(Rows), contents' = [contents EXCEPT ![t] = @ \o rows]
      PROVE  /\ contents' \in [Tables -> Seq(Rows)]
             /\ \A u \in Tables \ {t} : contents'[u] = contents[u]
             /\ Grows(t)
  <2>1. contents[t] \o rows \in Seq(Rows)
    BY <1>2, ConcatProperties
  <2>2. contents' = [contents EXCEPT ![t] = contents[t] \o rows]
    BY <1>4
  <2> QED
    BY <1>1, <1>2, <2>1, <2>2 DEF Grows
<1>5. ASSUME NEW row \in Rows, contents' = [contents EXCEPT ![t] = Append(@, row)]
      PROVE  /\ contents' \in [Tables -> Seq(Rows)]
             /\ \A u \in Tables \ {t} : contents'[u] = contents[u]
             /\ Grows(t)
  <2>1. Append(contents[t], row) = contents[t] \o <<row>> /\ <<row>> \in Seq(Rows)
    BY <1>2, AppendIsConcat
  <2>2. contents' = [contents EXCEPT ![t] = @ \o <<row>>]
    BY <1>5, <2>1
  <2> QED
    BY <1>4, <2>1, <2>2
<1>6. ASSUME contents' = [contents EXCEPT ![t] = <<>>]
      PROVE  /\ contents' \in [Tables -> Seq(Rows)]
             /\ \A u \in Tables \ {t} : contents'[u] = contents[u]
             /\ contents'[t] = <<>>
  BY <1>1, <1>2, <1>6
<1>7. CASE UNCHANGED contents
  <2>1. contents[t] = contents[t] \o <<>> /\ <<>> \in Seq(Rows)
    BY <1>2
  <2> QED
    BY <1>1, <1>7, <2>1 DEF Grows
<1>8. CASE Execute(r)
  <2>1. CASE Executed(r, t) /\ B(r).kind = "insert"
    <3>1. contents' = [contents EXCEPT ![t] = Append(@, RowOf(r, 1))]
      BY <2>1 DEF Executed
    <3>2. RowOf(r, 1) \in Rows
      BY <1>3
    <3> HIDE DEF t
    <3>3. PICK row \in Rows : contents' = [contents EXCEPT ![t] = Append(@, row)]
      BY <3>1, <3>2
    <3> USE DEF t
    <3> QED
      BY <1>5, <3>3
  <2>2. CASE Executed(r, t) /\ B(r).kind = "clear"
    <3>1. contents' = [contents EXCEPT ![t] = <<>>]
      BY <2>2 DEF Executed
    <3> QED
      BY <1>6, <1>8, <2>2, <3>1
  <2> QED
    BY <1>1, <1>7, <1>8, <2>1, <2>2, ExecuteMoves DEF Dml
<1>9. CASE Truncate(r)
  BY <1>6, <1>7, <1>9 DEF Truncate
<1>10. CASE WriteRow(r)
  <2>1. req[r].at + 1 \in Nat \ {0}
    BY <1>2
  <2>2. \/ UNCHANGED contents
        \/ \E row \in Rows : contents' = [contents EXCEPT ![t] = Append(@, row)]
    BY <1>3, <1>10, <2>1 DEF WriteRow
  <2> QED
    BY <1>5, <1>7, <2>2
<1>11. CASE WriteSelected(r)
  <2>1. \/ UNCHANGED contents
        \/ contents' = [contents EXCEPT ![t] = @ \o Selected(r)]
    BY <1>11 DEF WriteSelected
  <2>2. Selected(r) \in Seq(Rows)
    <3>1. Len(B(r).rows) \in Nat
      BY <1>2
    <3>2. Written(r) \in [1..Len(B(r).rows) -> Rows]
      BY <1>3, <3>1 DEF Written
    <3>3. Written(r) \in Seq(Rows)
      BY <3>1, <3>2, SeqDef
    <3> QED
      BY <1>2, <3>3 DEF Selected
  <2> QED
    BY <1>4, <1>7, <2>1, <2>2
<1>12. CASE WriteOther(r)
  <2>1. \/ UNCHANGED contents
        \/ contents' = [contents EXCEPT ![t] = Append(@, RowOf(r, 1))]
    BY <1>12 DEF WriteOther
  <2> QED
    BY <1>3, <1>5, <1>7, <2>1
<1> QED
  BY <1>7, <1>8, <1>9, <1>10, <1>11, <1>12, Footprint

\* The guards: where a request is that takes a step.
LEMMA Guards ==
  ASSUME NEW r \in Requests
  PROVE  /\ EnforceJobLocation(r) => Pc(r) = "locate"
         /\ Running(r) => Pc(r) = "running"
         /\ Lookup(r) \/ ReturnCachedSelect(r) => Pc(r) = "lookup"
         /\ Execute(r) => Pc(r) = "execute"
         /\ Record(r) => Pc(r) = "record"
         /\ StoreRow(r) \/ StoreInCache(r) => Pc(r) = "store"
         /\ ReadSource(r) => Pc(r) = "read"
         /\ ResolveSchema(r) => Pc(r) = "schema"
         /\ EnsureDestination(r) => Pc(r) = "ensure"
         /\ CountDestination(r) => Pc(r) = "count"
         /\ CreateDestination(r) => Pc(r) = "create"
         /\ DescribeDestination(r) => Pc(r) = "describe"
         /\ Truncate(r) => Pc(r) = "truncate"
         /\ WriteRow(r) => Pc(r) = "write" /\ B(r).kind = "load"
         /\ WriteSelected(r) => Pc(r) = "write" /\ B(r).kind \in {"parquet", "copy"}
         /\ WriteOther(r) => Pc(r) = "write" /\ B(r).kind \in Writers
         /\ CountFile(r) => Pc(r) = "fileCount"
         /\ Invalidate(r) => Pc(r) = "invalidate"
         /\ ReadSourceTable(r) => Pc(r) = "source"
         /\ CountCopied(r) => Pc(r) = "copyCount"
         /\ Export(r) => Pc(r) = "export"
         /\ Upload(r) => Pc(r) = "upload"
         /\ CountExtracted(r) => Pc(r) = "extractCount"
         /\ Finish(r) => Pc(r) = "finish"
         /\ Reread(r) => Pc(r) = "reread"
         /\ FailJob(r) => Pc(r) = "fail"
         /\ Check(r) => Pc(r) = "check"
         /\ CancelJob(r) => Pc(r) = "change"
         /\ DropRows(r) => Pc(r) = "dropRows"
         /\ DropJob(r) => Pc(r) = "dropJob"
         /\ ReadJob(r) => Pc(r) = "getJob"
         /\ ReadPage(r) => Pc(r) = "getPage"
         /\ ListJobs(r) => Pc(r) = "page"
         /\ GetTable(r) => Pc(r) = "getTable"
         /\ CountRows(r) => Pc(r) = "countRows"
         /\ GetRows(r) => Pc(r) = "getRows"
         /\ Answer(r) => Pc(r) = "answer"
         /\ Plan(r) => Pc(r) = "plan"
         /\ Start(r) => Pc(r) = "start"
BY DEF Start, Running, EnforceJobLocation, Lookup, ReturnCachedSelect, Execute, Record, StoreRow,
   StoreInCache, Answer, Plan, ReadSource, ResolveSchema, EnsureDestination, CountDestination,
   CreateDestination, DescribeDestination, Truncate, WriteRow, WriteSelected, CountFile, Invalidate,
   ReadSourceTable, CountCopied, Export, Upload, CountExtracted, Finish, Reread, FailJob, Check,
   CancelJob, DropRows, DropJob, ReadJob, ReadPage, ListJobs, GetTable, CountRows, GetRows,
   WriteOther

\* A request gets only to awaits of its kind.
LEMMA StepHome ==
  ASSUME TypeInv, NEW r \in Requests, Step(r)
  PROVE  \A q \in Requests : AtHome(q)' /\ SeenJob(q)'
<1>1. /\ req \in [Requests -> Locals] /\ TypeOK /\ AtHome(r) /\ SeenJob(r)
      /\ B(r).kind \in Kinds
  BY DEF TypeInv, TypeOK, B, Locals, Body
<1>2. Local(r) /\ B(r)' = B(r) /\ Pc(r)' = req'[r].pc
  BY StepLocal DEF Local, B, Pc
<1>3. exists \subseteq exists'
  BY Footprint DEF CreateDestination
<1>4. ASSUME NEW q \in Requests \ {r}
      PROVE  AtHome(q)' /\ SeenJob(q)'
  <2>1. req'[q] = req[q] /\ AtHome(q) /\ SeenJob(q)
    BY <1>2 DEF Local, TypeInv
  <2> QED
    BY <1>3, <2>1 DEF AtHome, SeenJob, Pc, B
<1> SUFFICES AtHome(r)' /\ SeenJob(r)'
  BY <1>4
<1>5. CASE Start(r)
  <2>1. Pc(r)' = First(B(r))
    BY <1>1, <1>2, <1>5, StartMoves DEF Goes
  <2>2. AtHome(r)'
    BY <1>1, <1>2, <2>1 DEF AtHome, First, Kinds, Runners, Movers, Loads, Extracts, Queries,
         Selects, Dml, Readers, Writers
  <2>3. First(B(r)) # "getPage"
    BY <1>1 DEF First, Kinds, Runners, Movers, Loads, Extracts, Queries, Selects, Dml, Readers,
         Writers
  <2> QED
    BY <2>1, <2>2, <2>3 DEF SeenJob
<1>6. CASE Running(r)
  <2>1. Pc(r) = "running"
    BY <1>6, Guards
  <2>2. \/ B(r).kind \in Queries /\ Pc(r)' = "lookup"
        \/ B(r).kind \in Loads /\ Pc(r)' = "read"
        \/ B(r).kind \notin Queries \cup Loads /\ Pc(r)' = "source"
    BY <1>1, <1>2, <1>6, StartMoves DEF Goes
  <2> QED
    BY <1>1, <1>2, <2>1, <2>2 DEF AtHome, SeenJob, Runners, Movers
<1>7. CASE Query(r)
  <2>1. CASE Pc(r)' = "ended"
    BY <2>1 DEF AtHome, SeenJob
  <2>2. CASE EnforceJobLocation(r) \/ Lookup(r) \/ Record(r) \/ StoreInCache(r)
    <3>1. Pc(r)' \in {"ended", "running", "lookup", "execute", "answer"} \/
          (B(r).kind = "select" /\ Pc(r)' = "store")
      BY <1>1, <1>2, <2>2, QueryMoves DEF Goes, Ends
    <3>2. B(r).kind \in Queries
      BY <1>1, <2>2, Guards DEF AtHome, Queries, Selects
    <3> QED
      BY <1>2, <3>1, <3>2 DEF AtHome, SeenJob, Runners
  <2>3. CASE ReturnCachedSelect(r) \/ Execute(r)
    <3>1. Pc(r)' \in {"ended", "record"}
      BY <1>1, <1>2, <2>3, CachedMoves, ExecuteMoves DEF Found, Counted, Ends
    <3>2. B(r).kind \in Queries
      BY <1>1, <2>3, Guards DEF AtHome
    <3> QED
      BY <1>2, <3>1, <3>2 DEF AtHome, SeenJob
  <2>4. CASE StoreRow(r)
    <3>1. Pc(r)' \in {"ended", "store"}
      BY <1>1, <1>2, <2>4, CountingMoves DEF Counted, Ends
    <3>2. B(r).kind = "select"
      BY <1>1, <2>4, Guards DEF AtHome
    <3> QED
      BY <1>2, <3>1, <3>2 DEF AtHome, SeenJob
  <2>5. CASE Answer(r) \/ Plan(r)
    BY <1>1, <1>2, <2>1, <2>5, QueryMoves DEF Ends
  <2> QED
    BY <1>7, <2>2, <2>3, <2>4, <2>5 DEF Query
<1>8. CASE Load(r)
  <2>1. Throws(r) /\ B(r).kind \in Movers => Pc(r)' = "fail"
    BY <1>2 DEF Throws, Goes
  <2>2. CASE \/ ReadSource(r) \/ ResolveSchema(r) \/ EnsureDestination(r) \/ CountDestination(r)
             \/ CreateDestination(r) \/ DescribeDestination(r) \/ Truncate(r)
    <3>1. B(r).kind \in Loads \cup {"copy"} /\ B(r).kind \in Movers
      BY <1>1, <2>2, Guards DEF AtHome, Movers
    <3>2. ReadSource(r) => B(r).kind \in Loads
      BY <1>1, Guards DEF AtHome
    <3>3. \/ Pc(r)' \in {"ensure", "create", "count", "write", "describe", "fail"}
          \/ Pc(r)' = "schema" /\ B(r).kind \in Loads
          \/ Pc(r)' = "truncate" /\ B(r).disposition = "WRITE_TRUNCATE"
      BY <1>1, <1>2, <2>1, <2>2, <3>1, <3>2, LoadMoves DEF Goes
    <3> QED
      BY <1>2, <3>1, <3>3 DEF AtHome, SeenJob
  <2>3. CASE WriteRow(r)
    <3>1. B(r).kind = "load" /\ B(r).kind \in Loads /\ B(r).kind \in Movers
      BY <2>3, Guards DEF Loads, Movers
    <3>2. Pc(r)' \in {"invalidate", "fail", "write"}
      BY <1>1, <1>2, <2>1, <2>3, <3>1, CountingMoves DEF Counted, Goes
    <3> QED
      BY <1>2, <3>1, <3>2 DEF AtHome, SeenJob
  <2>4. CASE WriteSelected(r)
    <3>1. B(r).kind \in {"parquet", "copy"} /\ B(r).kind \in Movers
      BY <2>4, Guards DEF Loads, Movers
    <3>2. \/ Pc(r)' = "copyCount" /\ B(r).kind = "copy" /\ B(r).source \in exists
          \/ Pc(r)' = "fileCount" /\ B(r).kind = "parquet"
          \/ Pc(r)' = "fail"
      BY <1>1, <1>2, <2>1, <2>4, <3>1, LoadMoves DEF Goes, Insertable
    <3> QED
      BY <1>2, <1>3, <3>1, <3>2 DEF AtHome, SeenJob
  <2>5. CASE CountFile(r)
    <3>1. B(r).kind = "parquet" /\ Pc(r)' = "invalidate"
      BY <1>1, <1>2, <2>5, Guards, CountingMoves DEF AtHome, Counted
    <3> QED
      BY <1>2, <3>1 DEF AtHome, SeenJob, Loads
  <2>6. CASE Invalidate(r)
    <3>1. \/ Pc(r)' = "ended"
          \/ Pc(r)' = "finish" /\ B(r).kind \in Movers
      BY <1>1, <1>2, <2>6, Guards, LoadMoves DEF AtHome, Goes, Ends, Movers, Writers
    <3> QED
      BY <1>2, <3>1 DEF AtHome, SeenJob
  <2> QED
    BY <1>8, <2>2, <2>3, <2>4, <2>5, <2>6 DEF Load
<1>9. CASE CopyOrExtract(r)
  <2>1. B(r).kind \in Extracts \cup {"copy"} /\ B(r).kind \in Movers
    BY <1>1, <1>9, Guards DEF AtHome, CopyOrExtract, Movers
  <2>2. Throws(r) => Pc(r)' = "fail"
    BY <1>2, <2>1 DEF Throws, Goes
  <2>3. CASE ReadSourceTable(r) \/ Upload(r)
    <3>1. Upload(r) => B(r).kind \in Extracts
      BY <1>1, Guards DEF AtHome
    <3>2. \/ B(r).kind = "copy" /\ Pc(r)' = "ensure"
          \/ B(r).kind \in Extracts /\ Pc(r)' \in {"export", "extractCount"}
          \/ Pc(r)' \in {"fail", "finish"}
      BY <1>1, <1>2, <2>1, <2>2, <2>3, <3>1, OtherMoves DEF Goes
    <3> QED
      BY <1>2, <2>1, <3>2 DEF AtHome, SeenJob
  <2>4. CASE CountCopied(r)
    <3>1. B(r).kind = "copy" /\ Pc(r)' \in {"invalidate", "fail"}
      BY <1>1, <1>2, <2>2, <2>4, Guards, CountingMoves DEF AtHome, Counted
    <3> QED
      BY <1>2, <2>1, <3>1 DEF AtHome, SeenJob
  <2>5. CASE Export(r) \/ CountExtracted(r)
    <3>1. B(r).kind \in Extracts /\ Pc(r)' \in {"upload", "finish", "fail"}
      BY <1>1, <1>2, <2>2, <2>5, Guards, CountingMoves, ExportMoves DEF AtHome, Counted, Found
    <3> QED
      BY <1>2, <2>1, <3>1 DEF AtHome, SeenJob
  <2> QED
    BY <1>9, <2>3, <2>4, <2>5 DEF CopyOrExtract
<1>10. CASE EndJob(r)
  <2>1. B(r).kind \in Movers /\ Pc(r)' \in {"reread", "fail", "ended"}
    BY <1>1, <1>2, <1>10, Guards, OtherMoves DEF AtHome, EndJob, Goes, Ends
  <2> QED
    BY <1>2, <2>1 DEF AtHome, SeenJob
<1>11. CASE CancelOrDelete(r)
  <2>1. \/ Pc(r)' = "ended"
        \/ Pc(r)' \in {"dropRows", "dropJob"} /\ B(r).kind = "delete"
        \/ Pc(r)' = "change" /\ B(r).kind = "cancel"
    BY <1>1, <1>2, <1>11, Guards, OtherMoves DEF AtHome, CancelOrDelete, Goes, Ends
  <2> QED
    BY <1>2, <2>1 DEF AtHome, SeenJob
<1>12. CASE Results(r)
  <2>1. CASE ReadJob(r)
    <3>1. /\ B(r).kind = "results"
          /\ Pc(r)' = "ended" \/ (Pc(r)' = "getPage" /\ req'[r].seen # NoJob)
      BY <1>1, <1>2, <2>1, Guards, ReadingMoves DEF AtHome, Ends
    <3> QED
      BY <1>2, <3>1 DEF AtHome, SeenJob
  <2>2. CASE ReadPage(r)
    <3>1. B(r).kind = "results" /\ Pc(r)' \in {"ended", "getJob"}
      BY <1>1, <1>2, <2>2, Guards, ReadPageMoves DEF AtHome
    <3> QED
      BY <1>2, <3>1 DEF AtHome, SeenJob
  <2>3. CASE ListJobs(r)
    <3>1. B(r).kind = "list" /\ Pc(r)' \in {"ended", "page"}
      BY <1>1, <1>2, <2>3, Guards, ReadingMoves DEF AtHome
    <3> QED
      BY <1>2, <3>1 DEF AtHome, SeenJob
  <2> QED
    BY <1>12, <2>1, <2>2, <2>3 DEF Results
<1>13. CASE TableRows(r)
  <2>1. B(r).kind = "data" /\ Pc(r)' \in {"ended", "countRows", "getRows", "getTable"}
    BY <1>1, <1>2, <1>13, Guards, OtherMoves, TableMoves DEF AtHome, TableRows, Goes, Ends
  <2> QED
    BY <1>2, <2>1 DEF AtHome, SeenJob
<1>14. CASE WriteOther(r)
  <2>1. \/ Pc(r)' = "ended"
        \/ Pc(r)' = "invalidate" /\ B(r).kind = "insertAll"
    BY <1>1, <1>2, <1>14, Guards, OtherMoves DEF Goes, Ends, Writers
  <2> QED
    BY <1>2, <2>1 DEF AtHome, SeenJob
<1> QED
  BY <1>5, <1>6, <1>7, <1>8, <1>9, <1>10, <1>11, <1>12, <1>13, <1>14 DEF Step

\* A job that is written has a row, numbered once.
LEMMA UpsertTypes ==
  ASSUME TypeInv, NEW j \in JobIds, NEW state \in {"RUNNING", "DONE"}, NEW failed \in BOOLEAN,
         NEW total \in Nat, NEW affected \in Nat, UpsertJob(j, state, failed, total, affected)
  PROVE  /\ jobs' \in [JobIds -> Job \cup {NoJob}] /\ Numbered'
         /\ \A i \in JobIds \ {j} : jobs'[i] = jobs[i]
         /\ jobs'[j] \in Job /\ jobs'[j] # NoJob
         /\ jobs'[j].state = state /\ jobs'[j].total = total /\ jobs'[j].created = Created(j)
         /\ jobs'[j].failed = failed
<1> DEFINE row == [state |-> state, failed |-> failed, total |-> total, affected |-> affected,
                   created |-> Created(j)]
<1>1. jobs \in [JobIds -> Job \cup {NoJob}] /\ Numbered
  BY DEF TypeInv, TypeOK
<1>2. Created(j) \in Nat
  BY <1>1, CreatedFollows
<1>3. row \in Job /\ row # NoJob
  BY <1>2, JobsAssumption DEF Job
<1>4. jobs' = [jobs EXCEPT ![j] = row]
  BY DEF UpsertJob
<1>5. row.state = state /\ row.total = total /\ row.created = Created(j) /\ row.failed = failed
  OBVIOUS
<1> HIDE DEF row
<1>6. PICK n \in Nat : \A i \in Present : jobs[i].created < n
  BY <1>1 DEF Numbered
<1>7. ASSUME NEW i \in Present'
      PROVE  jobs'[i].created < n + Created(j) + 1
  <2>1. CASE i = j
    BY <1>1, <1>2, <1>3, <1>4, <1>5, <1>6, <2>1
  <2>2. CASE i # j
    <3>1. i \in Present /\ jobs'[i] = jobs[i]
      BY <1>1, <1>4, <1>7, <2>2 DEF Present
    <3>2. jobs[i].created \in Nat
      BY <1>1, <3>1 DEF Present, Job
    <3> QED
      BY <1>2, <1>6, <3>1, <3>2
  <2> QED
    BY <2>1, <2>2
<1>8. Numbered'
  BY <1>2, <1>6, <1>7 DEF Numbered
<1> QED
  BY <1>1, <1>3, <1>4, <1>5, <1>8

\* Jobs after a step.
LEMMA StepJobTypes ==
  ASSUME TypeInv, NEW r \in Requests, Step(r)
  PROVE  jobs' \in [JobIds -> Job \cup {NoJob}] /\ Numbered'
<1> DEFINE j == JobOf(r)
<1>1. jobs \in [JobIds -> Job \cup {NoJob}] /\ Numbered /\ j \in JobIds
  BY DEF TypeInv, TypeOK, JobOf, B, Locals, Body
<1>2. CASE UNCHANGED jobs
  BY <1>1, <1>2 DEF Numbered, Present
<1>3. ASSUME NEW state \in {"RUNNING", "DONE"}, NEW failed \in BOOLEAN,
             NEW total \in Nat, NEW affected \in Nat, UpsertJob(j, state, failed, total, affected)
      PROVE  jobs' \in [JobIds -> Job \cup {NoJob}] /\ Numbered'
  BY <1>1, <1>3, UpsertTypes
<1>4. CASE CancelJob(r)
  <2>1. CASE jobs[j] = NoJob
    BY <1>2, <1>4, <2>1 DEF CancelJob
  <2>2. CASE jobs[j] # NoJob
    <3> DEFINE row == [jobs[j] EXCEPT !.state = "DONE", !.failed = TRUE]
    <3>1. jobs' = [jobs EXCEPT ![j] = row] /\ jobs[j] \in Job
      BY <1>1, <1>4, <2>2 DEF CancelJob
    <3>2. row \in Job /\ row.created = jobs[j].created
      BY <3>1 DEF Job
    <3> HIDE DEF row
    <3>3. \A i \in Present' : i \in Present /\ jobs'[i].created = jobs[i].created
      BY <1>1, <2>2, <3>1, <3>2 DEF Present
    <3> QED
      BY <1>1, <3>1, <3>2, <3>3 DEF Numbered
  <2> QED
    BY <2>1, <2>2
<1>5. CASE DropJob(r)
  <2>1. \A i \in Present' : i \in Present /\ jobs'[i].created = jobs[i].created
    BY <1>1, <1>5 DEF Present, DropJob
  <2> QED
    BY <1>1, <1>5, <2>1 DEF Numbered, DropJob
<1> QED
  BY <1>2, <1>3, <1>4, <1>5, StepJobs

\* Requests are answered when they end.
LEMMA StepAnswers ==
  ASSUME TypeInv, NEW r \in Requests, Step(r)
  PROVE  \A q \in Requests : Answered(q)'
<1>1. /\ req \in [Requests -> Locals] /\ TypeOK /\ Answered(r) /\ B(r).kind \in Kinds
      /\ AtHome(r)
  BY DEF TypeInv, TypeOK, B, Locals, Body
<1>2. Local(r) /\ Pc(r)' = req'[r].pc
  BY StepLocal DEF Pc
<1>3. ASSUME NEW q \in Requests \ {r}
      PROVE  Answered(q)'
  <2>1. req'[q] = req[q] /\ Answered(q)
    BY <1>2 DEF Local, TypeInv
  <2> QED
    BY <2>1 DEF Answered, Pc
<1> SUFFICES Answered(r)'
  BY <1>3
<1>4. CASE \E o \in {"ok", "error"} : Ends(r, o)
  BY <1>2, <1>4 DEF Ends, Answered
<1>5. Pc(r) # "ended" /\ req[r].outcome = "none"
  <2>1. Pc(r) # "ended"
    BY Guards DEF Step, Query, Load, CopyOrExtract, EndJob, CancelOrDelete, Results, TableRows
  <2> QED
    BY <1>1, <2>1 DEF Answered
<1>6. CASE req'[r].outcome = "none" /\ req'[r].pc # "ended"
  BY <1>2, <1>6 DEF Answered
<1>7. CASE Start(r)
  <2>1. First(B(r)) # "ended"
    BY <1>1 DEF First, Kinds, Runners, Movers, Loads, Extracts, Queries, Selects, Dml, Readers,
         Writers
  <2> QED
    BY <1>1, <1>5, <1>6, <1>7, <2>1, StartMoves DEF Goes
<1>8. CASE Running(r)
  BY <1>1, <1>5, <1>6, <1>8, StartMoves DEF Goes
<1>9. Throws(r) => Answered(r)'
  BY <1>4, <1>5, <1>6 DEF Throws, Goes
<1>10. CASE Query(r)
  <2>1. CASE EnforceJobLocation(r) \/ Lookup(r) \/ Record(r) \/ StoreInCache(r)
    BY <1>1, <1>4, <1>5, <1>6, <2>1, QueryMoves DEF Goes
  <2>2. CASE ReturnCachedSelect(r) \/ Execute(r)
    BY <1>1, <1>4, <1>5, <1>6, <2>2, CachedMoves, ExecuteMoves DEF Found, Counted
  <2>3. CASE StoreRow(r) \/ Answer(r) \/ Plan(r)
    BY <1>1, <1>4, <1>5, <1>6, <2>3, QueryMoves, CountingMoves DEF Counted
  <2> QED
    BY <1>10, <2>1, <2>2, <2>3 DEF Query
<1>11. CASE Load(r)
  <2>1. CASE \/ ReadSource(r) \/ ResolveSchema(r) \/ EnsureDestination(r) \/ CountDestination(r)
             \/ CreateDestination(r) \/ DescribeDestination(r) \/ Truncate(r)
             \/ WriteSelected(r) \/ Invalidate(r)
    BY <1>1, <1>4, <1>5, <1>6, <1>9, <2>1, LoadMoves DEF Goes
  <2>2. CASE WriteRow(r) \/ CountFile(r)
    BY <1>1, <1>5, <1>6, <1>9, <2>2, CountingMoves DEF Counted, Goes
  <2> QED
    BY <1>11, <2>1, <2>2 DEF Load
<1>12. CASE CopyOrExtract(r)
  <2>1. CASE ReadSourceTable(r) \/ Upload(r)
    BY <1>1, <1>5, <1>6, <1>9, <2>1, OtherMoves DEF Goes
  <2>2. CASE CountCopied(r) \/ CountExtracted(r) \/ Export(r)
    BY <1>1, <1>5, <1>6, <1>9, <2>2, CountingMoves, ExportMoves DEF Counted, Found
  <2> QED
    BY <1>12, <2>1, <2>2 DEF CopyOrExtract
<1>13. CASE EndJob(r) \/ CancelOrDelete(r) \/ GetTable(r) \/ WriteOther(r)
  BY <1>1, <1>4, <1>5, <1>6, <1>13, OtherMoves DEF EndJob, CancelOrDelete, Goes
<1>14. CASE Results(r)
  BY <1>1, <1>4, <1>5, <1>6, <1>2, <1>14, ReadingMoves, ReadPageMoves DEF Results, Answered
<1>15. CASE CountRows(r) \/ GetRows(r)
  BY <1>1, <1>4, <1>5, <1>6, <1>2, <1>15, TableMoves DEF Answered
<1> QED
  BY <1>7, <1>8, <1>10, <1>11, <1>12, <1>13, <1>14, <1>15 DEF Step, TableRows

\* Stored rows after a step.
LEMMA StepRows ==
  ASSUME TypeInv, NEW r \in Requests, Step(r)
  PROVE  /\ jobRows' \subseteq JobIds \X (Nat \ {0}) \X Rows
         /\ PrimaryKey' /\ IsFiniteSet(jobRows')
<1> DEFINE j == JobOf(r)
           i == req[r].at + 1
           row == <<j, i, req[r].result[i]>>
<1>1. /\ jobRows \subseteq JobIds \X (Nat \ {0}) \X Rows /\ PrimaryKey /\ IsFiniteSet(jobRows)
      /\ j \in JobIds /\ req[r].at \in Nat /\ req[r].result \in Seq(Rows)
  BY DEF TypeInv, TypeOK, JobOf, B, Locals, Body
<1>2. CASE UNCHANGED jobRows
  BY <1>1, <1>2 DEF PrimaryKey
<1>3. CASE StoreRow(r) /\ ~UNCHANGED jobRows
  <2>1. jobRows' = jobRows \cup {row} /\ ~HasRow(j, i) /\ i <= Len(req[r].result)
    BY <1>3 DEF StoreRow
  <2>2. row \in JobIds \X (Nat \ {0}) \X Rows
    BY <1>1, <2>1
  <2>3. IsFiniteSet(jobRows')
    BY <1>1, <2>1, FS_AddElement
  <2>4. PrimaryKey'
    <3>1. row[1] = j /\ row[2] = i
      OBVIOUS
    <3> HIDE DEF row
    <3> QED
      BY <1>1, <2>1, <3>1 DEF PrimaryKey, HasRow
  <2> QED
    BY <1>1, <2>1, <2>2, <2>3, <2>4
<1>4. CASE DropRows(r)
  <2>1. jobRows' \subseteq jobRows
    BY <1>4 DEF DropRows
  <2>2. IsFiniteSet(jobRows')
    BY <1>1, <2>1, FS_Subset
  <2> QED
    BY <1>1, <2>1, <2>2 DEF PrimaryKey
<1> QED
  BY <1>2, <1>3, <1>4, Footprint

\* The cache after a step.
LEMMA StepCache ==
  ASSUME TypeInv, NEW r \in Requests, Step(r)
  PROVE  cache' \in [Tables -> Seq(Rows) \cup {NoEntry}] /\ spoiled' \subseteq Tables
<1>1. /\ cache \in [Tables -> Seq(Rows) \cup {NoEntry}] /\ spoiled \subseteq Tables
      /\ B(r).table \in Tables /\ req[r].result \in Seq(Rows)
  BY DEF TypeInv, TypeOK, B, Locals, Body
<1>2. cache' \in [Tables -> Seq(Rows) \cup {NoEntry}]
  BY <1>1, Footprint DEF Lookup, StoreInCache, Invalidate, InvalidateQueryCache
<1>3. spoiled' \subseteq spoiled \cup {B(r).table}
  BY Footprint DEF Execute, WriteRow, WriteSelected, WriteOther, Invalidate, Spoils
<1> QED
  BY <1>1, <1>2, <1>3

\* The inductive invariant is kept by a request's step.
LEMMA StepTypes ==
  ASSUME TypeInv, NEW r \in Requests, Step(r)
  PROVE  TypeInv'
<1>1. TypeOK /\ B(r).table \in Tables
  BY DEF TypeInv, TypeOK, B, Locals, Body
<1>2. exists' \subseteq Tables /\ described' \subseteq Tables /\ crashes' \in 0..MaxCrashes
  BY <1>1, Footprint DEF TypeOK, CreateDestination, DescribeDestination
<1>3. req' \in [Requests -> Locals]
  BY StepLocal DEF Local
<1>4. TypeOK'
  BY <1>2, <1>3, StepTables, StepJobTypes, StepRows, StepCache DEF TypeOK
<1> QED
  BY <1>4, StepHome, StepAnswers, StepJobTypes, StepRows DEF TypeInv

\* What a crash does to a request: one in flight is lost.
LEMMA CrashMoves ==
  ASSUME TypeInv, Crash
  PROVE  /\ req' \in [Requests -> Locals]
         /\ \A r \in Requests :
              /\ ~Active(r) => req'[r] = req[r]
              /\ Active(r) => /\ req'[r].pc = "ended" /\ req'[r].outcome = "lost"
                              /\ req'[r].body = req[r].body /\ req'[r].result = req[r].result
                              /\ req'[r].at = req[r].at /\ req'[r].hit = req[r].hit
                              /\ req'[r].listed = req[r].listed /\ req'[r].early = req[r].early
<1> DEFINE Lost(r) == [req[r] EXCEPT !.pc = "ended", !.outcome = "lost", !.seen = NoJob]
<1>1. req \in [Requests -> Locals]
  BY DEF TypeInv, TypeOK
<1>2. "ended" \in Pcs /\ "lost" \in {"none", "ok", "error", "lost"}
  BY DEF Pcs
<1>3. ASSUME NEW r \in Requests
      PROVE  /\ Lost(r) \in Locals /\ Lost(r).pc = "ended" /\ Lost(r).outcome = "lost"
             /\ Lost(r).body = req[r].body /\ Lost(r).result = req[r].result
             /\ Lost(r).at = req[r].at /\ Lost(r).hit = req[r].hit
             /\ Lost(r).listed = req[r].listed /\ Lost(r).early = req[r].early
  BY <1>1, <1>2 DEF Locals
<1>4. req' = [r \in Requests |-> IF Active(r) THEN Lost(r) ELSE req[r]]
  BY DEF Crash
<1> HIDE DEF Lost
<1> QED
  BY <1>1, <1>3, <1>4

\* It is kept by a crash.
LEMMA CrashTypes ==
  ASSUME TypeInv, Crash
  PROVE  TypeInv'
<1>1. TypeOK
  BY DEF TypeInv
<1>2. cache' \in [Tables -> Seq(Rows) \cup {NoEntry}]
  BY DEF Crash, InvalidateQueryCache
<1>3. crashes' \in 0..MaxCrashes
  <2>1. crashes < MaxCrashes /\ crashes' = crashes + 1
    BY DEF Crash
  <2>2. crashes \in 0..MaxCrashes /\ MaxCrashes \in Nat
    BY <1>1, JobsAssumption DEF TypeOK
  <2> QED
    BY <2>1, <2>2
<1>4. UNCHANGED <<contents, exists, described, jobs, jobRows, spoiled>>
  BY DEF Crash, tableVars, jobVars
<1>5. TypeOK'
  BY <1>1, <1>2, <1>3, <1>4, CrashMoves DEF TypeOK
<1>6. ASSUME NEW r \in Requests
      PROVE  AtHome(r)' /\ SeenJob(r)' /\ Answered(r)'
  <2>1. AtHome(r) /\ SeenJob(r) /\ Answered(r)
    BY DEF TypeInv
  <2>2. req'[r] = req[r] \/ (req'[r].pc = "ended" /\ req'[r].outcome = "lost")
    BY CrashMoves
  <2> QED
    BY <1>4, <2>1, <2>2 DEF AtHome, SeenJob, Answered, Pc, B
<1>7. Numbered' /\ PrimaryKey' /\ IsFiniteSet(jobRows')
  BY <1>4 DEF TypeInv, Numbered, Present, PrimaryKey
<1> QED
  BY <1>5, <1>6, <1>7 DEF TypeInv

\* It holds at first.
LEMMA InitTypes == Init => TypeInv
<1> SUFFICES ASSUME Init
             PROVE  TypeInv
  OBVIOUS
<1>1. contents \in [Tables -> Seq(Rows)]
  <2>1. RowOf(Seed, 1) \in Rows /\ RowOf(Seed, 2) \in Rows
    BY DEF Rows, RowOf
  <2> QED
    BY <2>1 DEF Init
<1>2. /\ req \in [Requests -> Locals]
      /\ \A r \in Requests : req[r].pc = "start" /\ req[r].outcome = "none"
  <2>1. PICK mix \in Mixes :
          req = [r \in Requests |-> [pc |-> "start", body |-> mix[r], result |-> <<>>, at |-> 0,
                                     hit |-> FALSE, seen |-> NoJob, total |-> 0,
                                     listed |-> {}, early |-> {}, outcome |-> "none"]]
    BY DEF Init
  <2>2. \A r \in Requests : mix[r] \in Body
    BY JobsAssumption
  <2>3. \A r \in Requests :
          [pc |-> "start", body |-> mix[r], result |-> <<>>, at |-> 0, hit |-> FALSE,
           seen |-> NoJob, total |-> 0, listed |-> {}, early |-> {}, outcome |-> "none"]
          \in Locals
    BY <2>2 DEF Locals, Pcs
  <2> QED
    BY <2>1, <2>3
<1>3. TypeOK
  BY <1>1, <1>2, JobsAssumption DEF Init, TypeOK
<1>4. \A r \in Requests : AtHome(r) /\ SeenJob(r) /\ Answered(r)
  BY <1>2 DEF AtHome, SeenJob, Answered, Pc
<1>5. Numbered
  <2>1. Present = {}
    BY DEF Init, Present
  <2> QED
    BY <2>1 DEF Numbered
<1>6. PrimaryKey /\ IsFiniteSet(jobRows)
  BY FS_EmptySet DEF Init, PrimaryKey
<1> QED
  BY <1>3, <1>4, <1>5, <1>6 DEF TypeInv

\* The inductive invariant behind the types holds of every behaviour.
THEOREM TypesAlways == Spec => []TypeInv
<1>1. Init => TypeInv
  BY InitTypes
<1>2. TypeInv /\ [Next]_vars => TypeInv'
  <2>1. TypeInv /\ Next => TypeInv'
    BY StepTypes, CrashTypes DEF Next
  <2>2. ASSUME TypeInv, UNCHANGED vars
        PROVE  TypeInv'
    <3>1. TypeOK'
      BY <2>2 DEF TypeInv, TypeOK, vars, tableVars, jobVars
    <3>2. Numbered' /\ PrimaryKey' /\ IsFiniteSet(jobRows')
      BY <2>2 DEF TypeInv, Numbered, Present, PrimaryKey, vars, jobVars
    <3>3. \A r \in Requests : AtHome(r)' /\ SeenJob(r)' /\ Answered(r)'
      BY <2>2 DEF TypeInv, AtHome, SeenJob, Answered, Pc, B, vars, tableVars
    <3> QED
      BY <3>1, <3>2, <3>3 DEF TypeInv
  <2> QED
    BY <2>1, <2>2
<1> QED
  BY <1>1, <1>2, PTL DEF Spec

\* Every variable keeps its type: rows of _bq.jobs, stored rows and cache
\* entries are what the reads of the code expect, whatever requests do.
THEOREM TypeCorrect == Spec => []TypeOK
<1>1. TypeInv => TypeOK
  BY DEF TypeInv
<1> QED
  BY <1>1, TypesAlways, PTL

-----------------------------------------------------------------------------
(***************************************************************************)
(* RUNNING means running.                                                  *)
(***************************************************************************)

\* Request q is where it will still end the job that it runs: it has written
\* the RUNNING row and has not written the DONE row.
Ending(q) == Active(q) /\ Pc(q) \notin {"locate", "running", "store", "answer", "reread"}

RunInv ==
  \A j \in JobIds : jobs[j] # NoJob /\ GetJob(j).state = "RUNNING" =>
    Abandoned(j) \/ \E q \in RunnersOf(j) : Ending(q)

\* A job changes for the request that names it only, and is RUNNING again only
\* by Running.
LEMMA JobsAfter ==
  ASSUME TypeInv, NEW r \in Requests, Step(r), NEW j \in JobIds
  PROVE  \/ jobs'[j] = jobs[j]
         \/ j = JobOf(r) /\ Running(r) /\ jobs'[j] # NoJob /\ jobs'[j].state = "RUNNING"
         \/ j = JobOf(r) /\ DropJob(r) /\ jobs'[j] = NoJob
         \/ /\ j = JobOf(r) /\ (Record(r) \/ Finish(r) \/ FailJob(r) \/ CancelJob(r))
            /\ jobs'[j] # NoJob /\ jobs'[j].state = "DONE"
            /\ (Record(r) => jobs'[j].total = Len(req[r].result))
            /\ (Finish(r) \/ FailJob(r) => jobs'[j].total = 0)
<1>1. /\ jobs \in [JobIds -> Job \cup {NoJob}] /\ JobOf(r) \in JobIds
      /\ Len(req[r].result) \in Nat /\ req[r].at \in Nat
  BY DEF TypeInv, TypeOK, JobOf, B, Locals, Body
<1>2. CASE Running(r)
  BY <1>1, <1>2, UpsertTypes DEF Running
<1>3. CASE Record(r)
  BY <1>1, <1>3, UpsertTypes, Guards DEF Record
<1>4. CASE Finish(r)
  BY <1>1, <1>4, UpsertTypes, Guards DEF Finish
<1>5. CASE FailJob(r)
  BY <1>1, <1>5, UpsertTypes, Guards DEF FailJob
<1>6. CASE CancelJob(r)
  <2>1. CASE jobs[JobOf(r)] = NoJob
    BY <1>6, <2>1 DEF CancelJob
  <2>2. CASE jobs[JobOf(r)] # NoJob
    <3> DEFINE row == [jobs[JobOf(r)] EXCEPT !.state = "DONE", !.failed = TRUE]
    <3>1. jobs' = [jobs EXCEPT ![JobOf(r)] = row] /\ jobs[JobOf(r)] \in Job
      BY <1>1, <1>6, <2>2 DEF CancelJob
    <3>2. row \in Job /\ row.state = "DONE" /\ row # NoJob
      BY <3>1, JobsAssumption DEF Job
    <3>3. ~(Record(r) \/ Finish(r) \/ FailJob(r))
      BY <1>6, Guards
    <3> HIDE DEF row
    <3> QED
      BY <1>1, <1>6, <3>1, <3>2, <3>3
  <2> QED
    BY <2>1, <2>2
<1>7. CASE DropJob(r)
  BY <1>1, <1>7 DEF DropJob
<1>8. CASE ~(Running(r) \/ Record(r) \/ Finish(r) \/ FailJob(r) \/ CancelJob(r) \/ DropJob(r))
  <2>1. UNCHANGED jobs
    BY <1>8 DEF Step, Start, Query, EnforceJobLocation, Lookup, ReturnCachedSelect, Execute,
       StoreRow, StoreInCache, Answer, Plan, Load, ReadSource, ResolveSchema, EnsureDestination,
       CountDestination, CreateDestination, DescribeDestination, Truncate, WriteRow, WriteSelected,
       CountFile, Invalidate, CopyOrExtract, ReadSourceTable, CountCopied, Export, Upload,
       CountExtracted, EndJob, Reread, CancelOrDelete, Check, DropRows, Results, ReadJob, ReadPage,
       ListJobs, TableRows, GetTable, CountRows, GetRows, WriteOther, jobVars
  <2> QED
    BY <2>1
<1> QED
  BY <1>2, <1>3, <1>4, <1>5, <1>6, <1>7, <1>8

\* A request that is ending its job goes on doing so, ends it, or gives it up.
LEMMA EndingGoesOn ==
  ASSUME TypeInv, NEW r \in Requests, Step(r), Ending(r), B(r).kind \in Runners
  PROVE  \/ Ending(r)'
         \/ B(r).kind \in Queries /\ req'[r].outcome = "error"
         \/ Record(r) \/ Finish(r) \/ FailJob(r)
<1>1. req \in [Requests -> Locals] /\ TypeOK /\ AtHome(r)
  BY DEF TypeInv, TypeOK
<1>2. Pc(r)' = req'[r].pc
  BY StepLocal DEF Pc
<1>3. /\ Pc(r) \notin {"start", "ended", "locate", "running", "store", "answer", "reread"}
      /\ B(r).kind \notin Writers \cup {"results", "list", "data", "cancel", "delete", "dryRun"}
  BY DEF Ending, Active, Runners, Queries, Selects, Dml, Movers, Loads, Extracts, Writers
<1>4. CASE /\ Pc(r)' \notin {"start", "ended", "locate", "running", "store", "answer", "reread"}
  BY <1>4 DEF Ending, Active
<1>5. CASE Query(r)
  <2>1. CASE Lookup(r) \/ ReturnCachedSelect(r)
    BY <1>1, <1>2, <1>4, <2>1, QueryMoves, CachedMoves DEF Goes, Found
  <2>2. CASE Execute(r)
    <3>1. B(r).kind \in Queries
      BY <1>1, <2>2, Guards DEF AtHome
    <3> QED
      BY <1>1, <1>2, <1>4, <2>2, <3>1, ExecuteMoves DEF Found, Counted, Ends
  <2>3. CASE Plan(r)
    BY <1>1, <1>3, <2>3, Guards DEF AtHome
  <2> QED
    BY <1>3, <1>5, <2>1, <2>2, <2>3, Guards DEF Query
<1>6. B(r).kind \in Movers /\ Throws(r) => Ending(r)'
  BY <1>2 DEF Throws, Goes, Ending, Active
<1>7. CASE Load(r)
  <2>1. B(r).kind \in Movers
    BY <1>1, <1>3, <1>7, Guards DEF AtHome, Load, Movers, Loads, Writers
  <2>2. CASE \/ ReadSource(r) \/ ResolveSchema(r) \/ EnsureDestination(r) \/ CountDestination(r)
             \/ CreateDestination(r) \/ DescribeDestination(r) \/ Truncate(r)
             \/ WriteSelected(r) \/ Invalidate(r)
    BY <1>1, <1>2, <1>3, <1>4, <1>6, <2>1, <2>2, LoadMoves DEF Goes
  <2>3. CASE WriteRow(r) \/ CountFile(r)
    BY <1>1, <1>2, <1>4, <1>6, <2>1, <2>3, CountingMoves DEF Counted, Goes
  <2> QED
    BY <1>7, <2>2, <2>3 DEF Load
<1>8. CASE CopyOrExtract(r)
  <2>1. B(r).kind \in Movers
    BY <1>1, <1>8, Guards DEF AtHome, CopyOrExtract, Movers
  <2>2. CASE ReadSourceTable(r) \/ Upload(r)
    BY <1>1, <1>2, <1>4, <1>6, <2>1, <2>2, OtherMoves DEF Goes
  <2>3. CASE CountCopied(r) \/ CountExtracted(r) \/ Export(r)
    BY <1>1, <1>2, <1>4, <1>6, <2>1, <2>3, CountingMoves, ExportMoves DEF Counted, Found
  <2> QED
    BY <1>8, <2>2, <2>3 DEF CopyOrExtract
<1>9. CASE CancelOrDelete(r) \/ Results(r) \/ TableRows(r) \/ WriteOther(r)
  BY <1>1, <1>3, <1>9, Guards DEF AtHome, CancelOrDelete, Results, TableRows
<1> QED
  BY <1>3, <1>5, <1>7, <1>8, <1>9, Guards DEF Step, EndJob

\* Runners stay runners, and jobs that are given up stay so.
LEMMA RunnersStay ==
  ASSUME TypeInv, NEW r \in Requests, Step(r), NEW j \in JobIds
  PROVE  /\ RunnersOf(j) \subseteq RunnersOf(j)'
         /\ \A q \in RunnersOf(j)' : q = r \/ q \in RunnersOf(j)
         /\ Pc(r) # "start" => RunnersOf(j)' = RunnersOf(j)
         /\ Abandoned(j) => Abandoned(j)'
<1>1. Local(r)
  BY StepLocal
<1>2. \A q \in Requests : /\ B(q)' = B(q) /\ JobOf(q)' = JobOf(q)
                          /\ Started(q) => Started(q)'
                          /\ q # r => Started(q)' = Started(q)
  BY <1>1 DEF Local, B, JobOf, Started, Pc
<1>3. RunnersOf(j) \subseteq RunnersOf(j)' /\ \A q \in RunnersOf(j)' : q = r \/ q \in RunnersOf(j)
  BY <1>2 DEF RunnersOf
<1>4. Pc(r) # "start" => RunnersOf(j)' = RunnersOf(j)
  BY <1>2, <1>3 DEF RunnersOf, Started
<1>5. ASSUME NEW q \in RunnersOf(j), req[q].outcome # "none"
      PROVE  req'[q] = req[q]
  <2>1. q \in Requests /\ Pc(q) = "ended"
    BY <1>5 DEF TypeInv, Answered, RunnersOf
  <2>2. Pc(r) # "ended"
    BY Guards DEF Step, Query, Load, CopyOrExtract, EndJob, CancelOrDelete, Results, TableRows
  <2> QED
    BY <1>1, <2>1, <2>2 DEF Local
<1>6. Abandoned(j) => Abandoned(j)'
  <2>1. ASSUME NEW q \in RunnersOf(j),
               req[q].outcome = "lost" \/ (B(q).kind \in Queries /\ req[q].outcome = "error")
        PROVE  Abandoned(j)'
    <3>1. req'[q] = req[q]
      BY <1>5, <2>1
    <3>2. q \in RunnersOf(j)' /\ q \in Requests
      BY <1>3 DEF RunnersOf
    <3> QED
      BY <1>2, <2>1, <3>1, <3>2 DEF Abandoned
  <2> QED
    BY <2>1 DEF Abandoned
<1> QED
  BY <1>3, <1>4, <1>6

\* A step keeps it.
LEMMA RunStep ==
  ASSUME TypeInv, RunInv, NEW r \in Requests, Step(r)
  PROVE  RunInv'
<1> SUFFICES ASSUME NEW j \in JobIds, jobs'[j] # NoJob, jobs'[j].state = "RUNNING"
             PROVE  Abandoned(j)' \/ \E q \in RunnersOf(j)' : Ending(q)'
  BY DEF RunInv, GetJob
<1>1. req \in [Requests -> Locals] /\ TypeOK /\ AtHome(r) /\ r \in Requests
  BY DEF TypeInv, TypeOK
<1>2. Local(r) /\ JobOf(r)' = JobOf(r) /\ B(r)' = B(r)
  BY StepLocal DEF Local, JobOf, B
<1>3. CASE j = JobOf(r) /\ Running(r)
  <2>1. B(r).kind \in Runners
    BY <1>1, <1>3, Guards DEF AtHome
  <2>2. Pc(r)' \in {"lookup", "read", "source"}
    BY <1>1, <1>3, StartMoves DEF Goes, Pc
  <2>3. r \in RunnersOf(j)' /\ Ending(r)'
    BY <1>2, <1>3, <2>1, <2>2 DEF RunnersOf, Started, Ending, Active
  <2> QED
    BY <2>3
<1>4. CASE jobs'[j] = jobs[j]
  <2>1. Abandoned(j) \/ \E q \in RunnersOf(j) : Ending(q)
    BY <1>4 DEF RunInv, GetJob
  <2>2. CASE Abandoned(j)
    BY <2>2, RunnersStay
  <2>3. ASSUME NEW q \in RunnersOf(j), Ending(q)
        PROVE  Abandoned(j)' \/ \E p \in RunnersOf(j)' : Ending(p)'
    <3>1. q \in Requests /\ B(q).kind \in Runners /\ JobOf(q) = j /\ q \in RunnersOf(j)'
      BY RunnersStay DEF RunnersOf
    <3>2. CASE q # r
      <4>1. Ending(q)'
        BY <1>2, <2>3, <3>1, <3>2 DEF Local, Ending, Active, Pc
      <4> QED
        BY <3>1, <4>1
    <3>3. CASE q = r
      <4>1. ~(Record(r) \/ Finish(r) \/ FailJob(r))
        <5>1. ASSUME Record(r) \/ Finish(r) \/ FailJob(r)
              PROVE  jobs'[j].state = "DONE"
          <6>1. /\ Len(req[r].result) \in Nat /\ req[r].at \in Nat
            BY <1>1 DEF Locals
          <6> QED
            BY <3>1, <3>3, <5>1, <6>1, UpsertTypes DEF Record, Finish, FailJob
        <5> QED
          BY <5>1
      <4>2. CASE Ending(r)'
        BY <3>1, <3>3, <4>2
      <4>3. CASE B(r).kind \in Queries /\ req'[r].outcome = "error"
        BY <1>2, <3>1, <3>3, <4>3 DEF Abandoned
      <4> QED
        BY <2>3, <3>1, <3>3, <4>1, <4>2, <4>3, EndingGoesOn
    <3> QED
      BY <3>2, <3>3
  <2> QED
    BY <2>1, <2>2, <2>3
<1> QED
  BY <1>3, <1>4, JobsAfter

\* A crash abandons the jobs it interrupts.
LEMMA RunCrash ==
  ASSUME TypeInv, RunInv, Crash
  PROVE  RunInv'
<1> SUFFICES ASSUME NEW j \in JobIds, jobs'[j] # NoJob, jobs'[j].state = "RUNNING"
             PROVE  Abandoned(j)'
  BY DEF RunInv, GetJob
<1>1. Abandoned(j) \/ \E q \in RunnersOf(j) : Ending(q)
  <2>1. jobs' = jobs
    BY DEF Crash, jobVars
  <2> QED
    BY <2>1 DEF RunInv, GetJob
<1>2. ASSUME NEW q \in RunnersOf(j)
      PROVE  q \in RunnersOf(j)' /\ q \in Requests /\ B(q)' = B(q)
  BY <1>2, CrashMoves DEF RunnersOf, Started, B, JobOf, Pc, Active
<1>3. ASSUME NEW q \in RunnersOf(j), Ending(q)
      PROVE  Abandoned(j)'
  BY <1>2, <1>3, CrashMoves DEF Ending, Abandoned
<1>4. ASSUME NEW q \in RunnersOf(j),
             req[q].outcome = "lost" \/ (B(q).kind \in Queries /\ req[q].outcome = "error")
      PROVE  Abandoned(j)'
  <2>1. ~Active(q)
    BY <1>2, <1>4 DEF TypeInv, Answered, Active
  <2> QED
    BY <1>2, <1>4, <2>1, CrashMoves DEF Abandoned
<1> QED
  BY <1>1, <1>3, <1>4 DEF Abandoned

\* A job is RUNNING only while a request is there that will end it, however many
\* requests use its id, cancel it or delete it; but for jobs given up by a query
\* that throws or by a crash.
THEOREM RunningAlways == Spec => []RunningMeansRunning
<1>1. Init => RunInv
  BY DEF Init, RunInv
<1>2. TypeInv /\ RunInv /\ [Next]_vars => RunInv'
  <2>1. TypeInv /\ RunInv /\ Next => RunInv'
    BY RunStep, RunCrash DEF Next
  <2>2. RunInv /\ UNCHANGED vars => RunInv'
    BY DEF RunInv, GetJob, Abandoned, RunnersOf, Started, Ending, Active, Pc, B, JobOf, vars, jobVars
  <2> QED
    BY <2>1, <2>2
<1>3. RunInv => RunningMeansRunning
  BY DEF RunInv, RunningMeansRunning, Ending
<1> QED
  BY <1>1, <1>2, <1>3, TypesAlways, PTL DEF Spec
=============================================================================
