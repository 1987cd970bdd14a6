----------------------------- MODULE InsertAll -----------------------------
(***************************************************************************)
(* tabledata.insertAll (src/src/routes/tabledata.ts) over the one          *)
(* connection to DuckDB that all requests share, with its one transaction. *)
(*                                                                         *)
(* A call is cut at its awaits, each of which is a statement: an action    *)
(* executes the statement and goes on to the next one.  A statement may    *)
(* fail, and every statement of every request belongs to the transaction   *)
(* that is open when it runs, whoever opened it.                           *)
(***************************************************************************)
EXTENDS InsertIds

CONSTANTS
  Calls,        \* insertAll requests, retries included
  Bodies,       \* bound: what requests contain, a set of Body records
  Template,     \* the table a templateSuffix names, member of Tables
  NoId,         \* a row without insertId
  NoOne,        \* owner of no transaction
  Script,       \* a script of another request, when it owns the transaction
  MaxScripts    \* bound: transaction statements of scripts

VARIABLES
  committed,  \* what the database holds: rows, Template's table and metadata
  work,       \* what the open transaction has written
  owner,      \* who opened it, or NoOne
  aborted,    \* it accepts no more statements
  scripts,    \* how many transaction statements scripts have run
  disturbed,  \* history: a script has ended the transaction of a call
  pc,         \* [c]: the await the call is at
  body,       \* [c]: the parsed request
  submitted,  \* [c]: Date.now() of the call
  outcome,    \* [c]: outcomes, "values", "duplicate" or "error" per row
  at          \* [c]: the row its loop is at

dbVars     == <<committed, work, owner, aborted>>
scriptVars == <<scripts, disturbed>>
callVars   == <<pc, body, submitted, outcome, at>>
vars == <<windowVars, dbVars, scriptVars, callVars>>

\* A row is an insertId and what becomes of it: it is inserted, it cannot be
\* encoded, or DuckDB refuses it.
Fates == {"good", "unencodable", "refused"}
Rows  == [id : Ids \cup {NoId}, fate : Fates]
Body  == [table : Tables, suffix : BOOLEAN, skip : BOOLEAN, rows : Seq(Rows)]

ASSUME InsertAllAssumption ==
  /\ Bodies \subseteq Body
  /\ Template \in Tables
  /\ \A b \in Bodies : b.suffix <=> b.table = Template
  /\ NoId \notin Ids
  /\ Template \notin Calls
  /\ NoOne # Script /\ NoOne \notin Calls /\ Script \notin Calls
  /\ MaxScripts \in Nat

\* What the database may hold besides rows <<c, i>>, row i of call c.
TemplateTable == <<Template, 1>>
TemplateMeta  == <<Template, 2>>

Visible == committed \cup work

RowsOf(c)  == body[c].rows
Own(c)     == {<<c, i>> : i \in DOMAIN RowsOf(c)}
Invalid(c) == {i \in DOMAIN outcome[c] : outcome[c][i] = "error"}
Wanted(c)  == {<<c, i>> : i \in {j \in DOMAIN outcome[c] : outcome[c][j] = "values"}}

-----------------------------------------------------------------------------
(***************************************************************************)
(* Statements.                                                             *)
(***************************************************************************)
NoTransaction == owner = NoOne

\* A statement that succeeds is committed at once or part of the transaction.
Execute(item) ==
  /\ ~aborted
  /\ IF NoTransaction
     THEN committed' = committed \cup {item} /\ UNCHANGED work
     ELSE work' = work \cup {item} /\ UNCHANGED committed
  /\ UNCHANGED <<owner, aborted>>

\* One that fails may take the transaction with it.
Throw ==
  /\ aborted' \in {aborted, ~NoTransaction}
  /\ UNCHANGED <<committed, work, owner>>

OpenTransaction(who) ==
  /\ NoTransaction
  /\ owner' = who
  /\ UNCHANGED <<committed, work, aborted>>

EndTransaction(keep) ==
  /\ ~NoTransaction
  /\ committed' = IF keep THEN Visible ELSE committed
  /\ work' = {}
  /\ owner' = NoOne
  /\ aborted' = FALSE

\* Of an aborted transaction, COMMIT is taken to keep all or nothing.
CommitKeeps(keep) == EndTransaction(keep) /\ (keep \/ aborted)

-----------------------------------------------------------------------------
Init ==
  /\ WindowInit
  /\ committed = {} /\ work = {}
  /\ owner = NoOne /\ aborted = FALSE
  /\ scripts = 0 /\ disturbed = FALSE
  /\ pc = [c \in Calls |-> "idle"]
  /\ body \in [Calls -> Bodies]
  /\ submitted = [c \in Calls |-> 0]
  /\ outcome = [c \in Calls |-> <<>>]
  /\ at = [c \in Calls |-> 1]

Goto(c, label) == pc' = [pc EXCEPT ![c] = label]

\* The handler has thrown; the client gets an error and no insertErrors.
Fail(c) == Throw /\ Goto(c, "failed") /\ UNCHANGED <<body, submitted, outcome, at>>

(***************************************************************************)
(* Up to the rows: the table's metadata, and for a templateSuffix the      *)
(* target's, which is created when it is missing.                          *)
(***************************************************************************)
ReadBase(c) ==
  /\ pc[c] = "idle"
  /\ \/ /\ ~aborted
        /\ Goto(c, IF body[c].suffix THEN "lookup" ELSE "submit")
        /\ UNCHANGED <<dbVars, body, submitted, outcome, at>>
     \/ aborted /\ Fail(c)
  /\ UNCHANGED <<windowVars, scriptVars>>

LookupTarget(c) ==
  /\ pc[c] = "lookup"
  /\ \/ /\ ~aborted
        /\ Goto(c, IF TemplateMeta \in Visible THEN "submit" ELSE "create")
        /\ UNCHANGED <<dbVars, body, submitted, outcome, at>>
     \/ aborted /\ Fail(c)
  /\ UNCHANGED <<windowVars, scriptVars>>

CreateTarget(c) ==
  /\ pc[c] = "create"
  /\ \/ /\ Execute(TemplateTable)
        /\ Goto(c, "describe")
        /\ UNCHANGED <<body, submitted, outcome, at>>
     \/ aborted /\ Fail(c)
  /\ UNCHANGED <<windowVars, scriptVars>>

DescribeTarget(c) ==
  /\ pc[c] = "describe"
  /\ \/ /\ Execute(TemplateMeta)
        /\ Goto(c, "submit")
        /\ UNCHANGED <<body, submitted, outcome, at>>
     \/ aborted /\ Fail(c)
  /\ UNCHANGED <<windowVars, scriptVars>>

(***************************************************************************)
(* Encoding and the window of insertIds, without an await: AfterRows[n] is *)
(* what the first n rows leave of the window, and seen is about the last.  *)
(***************************************************************************)
AfterRow(before, row) ==
  IF row.id = NoId
  THEN [before EXCEPT !.seen = FALSE]
  ELSE LET done == SeenOrRecord(before.bucket, row.id)
       IN  [done EXCEPT !.out = @ \cup before.out]

AfterRows(c) ==
  LET rs == RowsOf(c)
      start == [bucket |-> bucket[body[c].table], seen |-> FALSE, out |-> {}]
      after[n \in 0..Len(rs)] == IF n = 0 THEN start ELSE AfterRow(after[n - 1], rs[n])
  IN  after

Outcomes(c) ==
  LET after == AfterRows(c)
  IN  [i \in DOMAIN RowsOf(c) |->
         IF after[i].seen THEN "duplicate"
         ELSE IF RowsOf(c)[i].fate = "unencodable" THEN "error"
         ELSE "values"]

\* Mutant of Todo: rows counted from 0.
TodoFromZero(o, i) == {j - 1 : j \in {k \in DOMAIN o : k >= i /\ o[k] = "values"}}

\* Rows from i on that the loop inserts, and where it goes for the next one.
Todo(o, i) == {j \in DOMAIN o : j >= i /\ o[j] = "values"}

Proceed(c, o, i) ==
  \/ \E k \in Todo(o, i) :
       /\ \A j \in Todo(o, i) : k <= j
       /\ at' = [at EXCEPT ![c] = k]
       /\ Goto(c, "insert")
  \/ /\ Todo(o, i) = {}
     /\ UNCHANGED at
     /\ Goto(c, IF body[c].skip THEN "answered" ELSE "commit")

EncodeRows(c) ==
  LET o == Outcomes(c)
      last == AfterRows(c)[Len(RowsOf(c))]
      t == body[c].table
  IN  /\ pc[c] = "submit"
      /\ outcome' = [outcome EXCEPT ![c] = o]
      /\ submitted' = [submitted EXCEPT ![c] = now]
      /\ bucket' = [bucket EXCEPT ![t] = last.bucket]
      /\ evicted' = evicted \cup {<<t, x>> : x \in last.out}
      /\ IF body[c].skip
         THEN Proceed(c, o, 1)
         ELSE /\ Goto(c, IF o = <<>> \/ \E i \in DOMAIN o : o[i] = "error"
                         THEN "answered" ELSE "begin")
              /\ UNCHANGED at
      /\ UNCHANGED <<now, dbVars, scriptVars, body>>

(***************************************************************************)
(* BEGIN, the loop over the rows, COMMIT or ROLLBACK.                      *)
(***************************************************************************)
Begin(c) ==
  /\ pc[c] = "begin"
  /\ \/ /\ OpenTransaction(c)
        /\ Proceed(c, outcome[c], 1)
        /\ UNCHANGED <<body, submitted, outcome>>
     \/ ~NoTransaction /\ Fail(c)
  /\ UNCHANGED <<windowVars, scriptVars>>

\* Why the INSERT of the row a call is at fails.
Refused(c) ==
  \/ aborted
  \/ RowsOf(c)[at[c]].fate = "refused"
  \/ body[c].suffix /\ TemplateTable \notin Visible

InsertRow(c) ==
  /\ pc[c] = "insert"
  /\ ~Refused(c)
  /\ Execute(<<c, at[c]>>)
  /\ Proceed(c, outcome[c], at[c] + 1)
  /\ UNCHANGED <<windowVars, scriptVars, body, submitted, outcome>>

\* Mutants of AfterError: goes on with the next row, answers without ROLLBACK.
AfterErrorGoOn(c, o) == Proceed(c, o, at[c] + 1)
AfterErrorAnswer(c, o) == Goto(c, "answered") /\ UNCHANGED at

\* The default mode rolls back, skipInvalidRows goes on.
AfterError(c, o) ==
  IF body[c].skip
  THEN Proceed(c, o, at[c] + 1)
  ELSE Goto(c, "rollback") /\ UNCHANGED at

RowFails(c) ==
  /\ pc[c] = "insert"
  /\ Refused(c)
  /\ Throw
  /\ outcome' = [outcome EXCEPT ![c][at[c]] = "error"]
  /\ AfterError(c, outcome[c])
  /\ UNCHANGED <<windowVars, scriptVars, body, submitted>>

Commit(c) ==
  /\ pc[c] = "commit"
  /\ \/ CommitKeeps(TRUE) /\ Goto(c, "answered")
     \/ CommitKeeps(FALSE) /\ Goto(c, "failed")
     \/ NoTransaction /\ Throw /\ Goto(c, "failed")
  /\ UNCHANGED <<windowVars, scriptVars, body, submitted, outcome, at>>

Rollback(c) ==
  /\ pc[c] = "rollback"
  /\ \/ EndTransaction(FALSE) /\ Goto(c, "answered")
     \/ NoTransaction /\ Throw /\ Goto(c, "failed")
  /\ UNCHANGED <<windowVars, scriptVars, body, submitted, outcome, at>>

(***************************************************************************)
(* Scripts of other requests: their transaction statements reach DuckDB as *)
(* they are, and executeScript rolls back when one fails.                  *)
(***************************************************************************)
ScriptStatement ==
  /\ scripts < MaxScripts
  /\ scripts' = scripts + 1
  /\ \/ OpenTransaction(Script) /\ UNCHANGED disturbed
     \/ ~NoTransaction /\ Throw /\ UNCHANGED disturbed
     \/ /\ EndTransaction(FALSE) \/ CommitKeeps(TRUE)
        /\ disturbed' = (disturbed \/ owner \in Calls)
  /\ UNCHANGED <<windowVars, callVars>>

ClockTick == Tick /\ UNCHANGED <<dbVars, scriptVars, callVars>>

Step(c) ==
  \/ ReadBase(c)
  \/ LookupTarget(c)
  \/ CreateTarget(c)
  \/ DescribeTarget(c)
  \/ EncodeRows(c)
  \/ Begin(c)
  \/ InsertRow(c)
  \/ RowFails(c)
  \/ Commit(c)
  \/ Rollback(c)

Next ==
  \/ ClockTick
  \/ ScriptStatement
  \/ \E c \in Calls : Step(c)

Spec == Init /\ [][Next]_vars
-----------------------------------------------------------------------------
(***************************************************************************)
(* Properties.                                                             *)
(***************************************************************************)
Kinds == {"values", "duplicate", "error"}

Labels == {"idle", "lookup", "create", "describe", "submit", "begin", "insert",
           "commit", "rollback", "answered", "failed"}

TypeOK ==
  /\ now \in 0..MaxTime
  /\ bucket \in [Tables -> Seq(Entries)]
  /\ evicted \subseteq Tables \X Ids
  /\ committed \cup work \subseteq (Calls \cup {Template}) \X Nat
  /\ owner \in Calls \cup {NoOne, Script}
  /\ aborted \in BOOLEAN /\ disturbed \in BOOLEAN
  /\ scripts \in 0..MaxScripts
  /\ pc \in [Calls -> Labels]
  /\ body \in [Calls -> Bodies]
  /\ submitted \in [Calls -> 0..MaxTime]
  /\ outcome \in [Calls -> Seq(Kinds)]
  /\ at \in [Calls -> Nat \ {0}]

\* "rows execute inside a single transaction": unless a script ends it, a call
\* without skipInvalidRows has all its rows in the database when it answers
\* without errors, and none of them before, after an error, or when it fails,
\* whatever other calls do on the connection.
AllOrNothing ==
  ~disturbed => \A c \in Calls : ~body[c].skip =>
    committed \cap Own(c) = IF pc[c] = "answered" /\ Invalid(c) = {} THEN Wanted(c) ELSE {}

\* Retries, and rows of one request, with the insertId of a row that is stored
\* are not stored as well, unless the window has passed or was too small.
OncePerId ==
  \A c, d \in Calls : \A i \in DOMAIN outcome[c], j \in DOMAIN outcome[d] :
    /\ {<<c, i>>, <<d, j>>} \subseteq committed
    /\ <<c, i>> # <<d, j>>
    /\ body[c].table = body[d].table
    /\ RowsOf(c)[i].id = RowsOf(d)[j].id /\ RowsOf(c)[i].id # NoId
    => \/ submitted[c] - submitted[d] >= WindowMs
       \/ submitted[d] - submitted[c] >= WindowMs
       \/ <<body[c].table, RowsOf(c)[i].id>> \in evicted

\* No transaction outlives the request that opened it: later requests would
\* fail for ever.
TransactionsEnd ==
  owner \in Calls => pc[owner] \in {"insert", "commit", "rollback"}

\* "valid rows are still inserted": what a call with skipInvalidRows reports
\* as inserted is in the database, unless a script interferes.
SkippingKeepsRows ==
  ~disturbed => \A c \in Calls :
    body[c].skip /\ pc[c] = "answered" => Wanted(c) \subseteq Visible
=============================================================================
