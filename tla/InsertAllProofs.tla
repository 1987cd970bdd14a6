-------------------------- MODULE InsertAllProofs --------------------------
(***************************************************************************)
(* Theorems about InsertAll: for any number of calls with any bodies, a    *)
(* request without skipInvalidRows stores all of its rows or none, no      *)
(* transaction outlives its request, the window of a table stays within    *)
(* its limit, and an insertId is stored once per window.                   *)
(***************************************************************************)
EXTENDS InsertAll, FiniteSetTheorems, FunctionTheorems, SequenceTheorems, TLAPS

(***************************************************************************)
(* The inductive invariant.                                                *)
(***************************************************************************)
CallTypes ==
  /\ owner \in Calls \cup {NoOne, Script}
  /\ pc \in [Calls -> Labels]
  /\ body \in [Calls -> Bodies]
  /\ outcome \in [Calls -> Seq(Kinds)]
  /\ at \in [Calls -> Nat]

\* No transaction is open that nobody has opened.
Closed == owner = NoOne => work = {} /\ ~aborted

\* The transaction of a call is open while the call is in its loop or about to
\* end it, and only calls without skipInvalidRows open one.
OwnerWorks ==
  /\ owner \in Calls => /\ pc[owner] \in {"insert", "commit", "rollback"}
                        /\ ~body[owner].skip
  /\ \A c \in Calls : pc[c] \in {"begin", "commit", "rollback"} => ~body[c].skip

\* The rows of outcome are those of the request.
OutcomeRows ==
  \A c \in Calls :
    \/ outcome[c] = <<>> /\ pc[c] \in {"idle", "lookup", "create", "describe", "submit", "failed"}
    \/ DOMAIN outcome[c] = DOMAIN RowsOf(c)

BeforeLoop == {"idle", "lookup", "create", "describe", "submit", "begin", "failed"}

\* Rows the loop of a call has inserted.
Inserted(c) ==
  {<<c, i>> : i \in {j \in DOMAIN outcome[c] : outcome[c][j] = "values" /\ j < at[c]}}

\* Where the rows of a call without skipInvalidRows are.
RowsPlaced(c) ==
  /\ pc[c] \in BeforeLoop => committed \cap Own(c) = {} /\ work \cap Own(c) = {}
  /\ pc[c] \in {"begin", "insert", "commit"} => Invalid(c) = {}
  /\ pc[c] \in {"insert", "commit", "rollback"} =>
       owner = c /\ committed \cap Own(c) = {}
  /\ pc[c] = "insert" =>
       /\ work \cap Own(c) = Inserted(c)
       /\ at[c] \in DOMAIN outcome[c]
       /\ outcome[c][at[c]] = "values"
  /\ pc[c] = "commit" => work \cap Own(c) = Wanted(c)
  /\ pc[c] = "rollback" => Invalid(c) # {}
  /\ pc[c] = "answered" =>
       /\ work \cap Own(c) = {}
       /\ committed \cap Own(c) = IF Invalid(c) = {} THEN Wanted(c) ELSE {}

Frame == CallTypes /\ Closed /\ OwnerWorks /\ OutcomeRows

Placed == ~disturbed => \A c \in Calls : ~body[c].skip => RowsPlaced(c)

InsertInv == Frame /\ Placed

(***************************************************************************)
(* Frame, the part of the invariant that scripts cannot disturb.           *)
(***************************************************************************)

\* What Proceed chooses.
LEMMA ProceedCases ==
  ASSUME NEW c, NEW o, NEW i, Proceed(c, o, i)
  PROVE  \/ \E k \in DOMAIN o :
              /\ k >= i /\ o[k] = "values"
              /\ \A j \in DOMAIN o : j >= i /\ o[j] = "values" => k <= j
              /\ at' = [at EXCEPT ![c] = k]
              /\ pc' = [pc EXCEPT ![c] = "insert"]
         \/ /\ \A j \in DOMAIN o : ~(j >= i /\ o[j] = "values")
            /\ at' = at
            /\ pc' = [pc EXCEPT ![c] = IF body[c].skip THEN "answered" ELSE "commit"]
<1>1. CASE \E k \in Todo(o, i) : /\ \A j \in Todo(o, i) : k <= j
                                 /\ at' = [at EXCEPT ![c] = k]
                                 /\ Goto(c, "insert")
  BY <1>1 DEF Todo, Goto
<1>2. CASE /\ Todo(o, i) = {}
           /\ UNCHANGED at
           /\ Goto(c, IF body[c].skip THEN "answered" ELSE "commit")
  BY <1>2 DEF Todo, Goto
<1> QED
  BY <1>1, <1>2 DEF Proceed

\* Its effect on the frame: the types, and the label it goes to.
LEMMA ProceedTypes ==
  ASSUME CallTypes, NEW c \in Calls, NEW o \in Seq(Kinds), NEW i, Proceed(c, o, i)
  PROVE  /\ at' \in [Calls -> Nat]
         /\ pc' \in [Calls -> Labels]
         /\ pc'[c] \in {"insert", "commit", "answered"}
         /\ body[c].skip => pc'[c] \in {"insert", "answered"}
         /\ ~body[c].skip => pc'[c] \in {"insert", "commit"}
         /\ \A d \in Calls \ {c} : pc'[d] = pc[d] /\ at'[d] = at[d]
<1>1. pc \in [Calls -> Labels] /\ at \in [Calls -> Nat] /\ DOMAIN o \subseteq Nat
  BY DEF CallTypes
<1>2. "insert" \in Labels /\ "commit" \in Labels /\ "answered" \in Labels
  BY DEF Labels
<1>3. CASE \E k \in DOMAIN o :
              /\ k >= i /\ o[k] = "values"
              /\ \A j \in DOMAIN o : j >= i /\ o[j] = "values" => k <= j
              /\ at' = [at EXCEPT ![c] = k]
              /\ pc' = [pc EXCEPT ![c] = "insert"]
  BY <1>1, <1>2, <1>3
<1>4. CASE /\ at' = at
           /\ pc' = [pc EXCEPT ![c] = IF body[c].skip THEN "answered" ELSE "commit"]
  BY <1>1, <1>2, <1>4
<1> QED
  BY <1>3, <1>4, ProceedCases

\* An operation of call c that leaves requests and outcomes alone, and keeps
\* the owner or is one of those that change it as they may.
LEMMA FrameStep ==
  ASSUME Frame, NEW c \in Calls,
         pc' \in [Calls -> Labels], at' \in [Calls -> Nat],
         \A d \in Calls \ {c} : pc'[d] = pc[d],
         UNCHANGED <<body, outcome>>,
         outcome[c] = <<>> => pc'[c] \in {"lookup", "create", "describe", "submit", "failed"}
                              \/ DOMAIN outcome[c] = DOMAIN RowsOf(c),
         pc'[c] \in {"begin", "commit", "rollback"} => ~body[c].skip,
         owner' = NoOne \/ owner' = owner \/ owner' = c,
         owner' = c => pc'[c] \in {"insert", "commit", "rollback"} /\ ~body[c].skip,
         owner' = NoOne => work' = {} /\ ~aborted'
  PROVE  Frame'
<1>1. CallTypes'
  BY DEF Frame, CallTypes
<1>2. Closed'
  BY DEF Closed
<1>3. OwnerWorks'
  BY InsertAllAssumption DEF Frame, OwnerWorks, CallTypes
<1>4. OutcomeRows'
  BY DEF Frame, OutcomeRows, RowsOf
<1> QED
  BY <1>1, <1>2, <1>3, <1>4 DEF Frame

\* A statement leaves the owner alone, and what no transaction has written.
LEMMA StatementFrame ==
  ASSUME Frame
  PROVE  /\ Throw => /\ UNCHANGED <<committed, work, owner>>
                     /\ owner' = NoOne => work' = {} /\ ~aborted'
         /\ \A item : Execute(item) =>
              UNCHANGED owner /\ (owner' = NoOne => work' = {} /\ ~aborted')
         /\ \A keep : EndTransaction(keep) =>
              owner # NoOne /\ owner' = NoOne /\ work' = {} /\ ~aborted'
<1>1. owner = NoOne => work = {} /\ ~aborted
  BY DEF Frame, Closed
<1>2. ASSUME Throw
      PROVE  /\ UNCHANGED <<committed, work, owner>>
             /\ owner' = NoOne => work' = {} /\ ~aborted'
  BY <1>1, <1>2 DEF Throw, NoTransaction
<1>3. ASSUME NEW item, Execute(item)
      PROVE  UNCHANGED owner /\ (owner' = NoOne => work' = {} /\ ~aborted')
  BY <1>1, <1>3 DEF Execute, NoTransaction
<1>4. ASSUME NEW keep, EndTransaction(keep)
      PROVE  owner # NoOne /\ owner' = NoOne /\ work' = {} /\ ~aborted'
  BY <1>4 DEF EndTransaction, NoTransaction
<1> QED
  BY <1>2, <1>3, <1>4

\* Going to a label without touching the loop.
LEMMA GotoTypes ==
  ASSUME CallTypes, NEW c \in Calls, NEW label \in Labels, Goto(c, label)
  PROVE  /\ pc' \in [Calls -> Labels]
         /\ pc'[c] = label
         /\ \A d \in Calls \ {c} : pc'[d] = pc[d]
BY DEF CallTypes, Goto

\* A call that fails is not the owner of the transaction.
LEMMA FailFrame ==
  ASSUME Frame, NEW c \in Calls, Fail(c),
         pc[c] \in {"idle", "lookup", "create", "describe", "begin"}
  PROVE  Frame'
<1>1. "failed" \in Labels
  BY DEF Labels
<1>2. /\ Throw /\ Goto(c, "failed") /\ UNCHANGED <<body, outcome, at>>
  BY DEF Fail
<1>3. /\ pc' \in [Calls -> Labels] /\ pc'[c] = "failed"
      /\ \A d \in Calls \ {c} : pc'[d] = pc[d]
  BY <1>1, <1>2, GotoTypes DEF Frame
<1>4. owner' = owner /\ (owner' = NoOne => work' = {} /\ ~aborted')
  BY <1>2, StatementFrame
<1>5. owner # c
  BY DEF Frame, OwnerWorks
<1>6. at' \in [Calls -> Nat]
  BY <1>2 DEF Frame, CallTypes
<1> QED
  BY <1>2, <1>3, <1>4, <1>5, <1>6, FrameStep

\* The reads and writes before the rows.
LEMMA OpeningFrame ==
  ASSUME Frame, NEW c \in Calls,
         ReadBase(c) \/ LookupTarget(c) \/ CreateTarget(c) \/ DescribeTarget(c)
  PROVE  Frame'
<1> DEFINE Going(label) == /\ Goto(c, label) /\ UNCHANGED <<owner, body, outcome, at>>
                           /\ owner' = NoOne => work' = {} /\ ~aborted'
<1>1. pc[c] \in {"idle", "lookup", "create", "describe"}
  BY DEF ReadBase, LookupTarget, CreateTarget, DescribeTarget
<1>2. ASSUME NEW label \in {"lookup", "create", "describe", "submit"}, Going(label)
      PROVE  Frame'
  <2>1. label \in Labels
    BY DEF Labels
  <2>2. /\ pc' \in [Calls -> Labels] /\ pc'[c] = label
        /\ \A d \in Calls \ {c} : pc'[d] = pc[d]
    BY <1>2, <2>1, GotoTypes DEF Frame
  <2>3. owner # c
    BY <1>1 DEF Frame, OwnerWorks
  <2>4. at' \in [Calls -> Nat]
    BY <1>2 DEF Frame, CallTypes
  <2> QED
    BY <1>2, <2>2, <2>3, <2>4, FrameStep
<1>3. owner = NoOne => work = {} /\ ~aborted
  BY DEF Frame, Closed
<1>4. CASE Fail(c)
  BY <1>1, <1>4, FailFrame
<1>5. CASE ReadBase(c) /\ ~Fail(c)
  <2>1. Going("lookup") \/ Going("submit")
    BY <1>3, <1>5 DEF ReadBase, dbVars
  <2> QED
    BY <1>2, <2>1
<1>6. CASE LookupTarget(c) /\ ~Fail(c)
  <2>1. Going("submit") \/ Going("create")
    BY <1>3, <1>6 DEF LookupTarget, dbVars
  <2> QED
    BY <1>2, <2>1
<1>7. CASE CreateTarget(c) /\ ~Fail(c)
  <2>1. Going("describe")
    BY <1>7, StatementFrame DEF CreateTarget
  <2> QED
    BY <1>2, <2>1
<1>8. CASE DescribeTarget(c) /\ ~Fail(c)
  <2>1. Going("submit")
    BY <1>8, StatementFrame DEF DescribeTarget
  <2> QED
    BY <1>2, <2>1
<1> QED
  BY <1>4, <1>5, <1>6, <1>7, <1>8

\* What encoding the rows makes of them: one outcome per row.
LEMMA OutcomesTypes ==
  ASSUME CallTypes, NEW c \in Calls
  PROVE  Outcomes(c) \in Seq(Kinds) /\ DOMAIN Outcomes(c) = DOMAIN RowsOf(c)
<1>1. RowsOf(c) \in Seq(Rows)
  BY InsertAllAssumption DEF CallTypes, RowsOf, Body
<1>2. PICK n \in Nat : DOMAIN RowsOf(c) = 1..n
  BY <1>1
<1>3. \A i \in 1..n : Outcomes(c)[i] \in Kinds
  BY <1>2 DEF Outcomes, Kinds
<1>4. Outcomes(c) = [i \in 1..n |-> Outcomes(c)[i]]
  BY <1>2 DEF Outcomes
<1> QED
  BY <1>2, <1>3, <1>4

\* Two outcomes of EncodeRows: it goes on to the first row or to BEGIN, or the
\* request is answered.
LEMMA EncodeFrame ==
  ASSUME Frame, NEW c \in Calls, EncodeRows(c)
  PROVE  Frame'
<1> DEFINE o == Outcomes(c)
           Moved == /\ pc' \in [Calls -> Labels] /\ at' \in [Calls -> Nat]
                    /\ pc'[c] \in {"insert", "answered", "begin"}
                    /\ pc'[c] = "begin" => ~body[c].skip
                    /\ \A d \in Calls \ {c} : pc'[d] = pc[d]
<1>1. o \in Seq(Kinds) /\ DOMAIN o = DOMAIN RowsOf(c)
  BY OutcomesTypes DEF Frame
<1>2. /\ outcome' = [outcome EXCEPT ![c] = o]
      /\ UNCHANGED <<dbVars, body>> /\ pc[c] = "submit"
      /\ \/ body[c].skip /\ Proceed(c, o, 1)
         \/ /\ ~body[c].skip /\ UNCHANGED at
            /\ Goto(c, "answered") \/ Goto(c, "begin")
  BY DEF EncodeRows
<1> HIDE DEF o
<1>3. Moved
  <2>1. CASE body[c].skip /\ Proceed(c, o, 1)
    BY <1>1, <2>1, ProceedTypes DEF Frame
  <2>2. ASSUME NEW label \in {"answered", "begin"}, ~body[c].skip, UNCHANGED at, Goto(c, label)
        PROVE  Moved
    <3>1. label \in Labels
      BY DEF Labels
    <3> QED
      BY <2>2, <3>1, GotoTypes DEF Frame, CallTypes
  <2> QED
    BY <1>2, <2>1, <2>2
<1>4. outcome' \in [Calls -> Seq(Kinds)] /\ outcome'[c] = o
      /\ \A d \in Calls \ {c} : outcome'[d] = outcome[d]
  BY <1>1, <1>2 DEF Frame, CallTypes
<1>5. CallTypes' /\ Closed'
  BY <1>2, <1>3, <1>4 DEF Frame, CallTypes, Closed, dbVars
<1>6. owner # c /\ owner' = owner
  BY <1>2 DEF Frame, OwnerWorks, dbVars
<1>7. OwnerWorks'
  BY <1>2, <1>3, <1>6, InsertAllAssumption DEF Frame, OwnerWorks
<1>8. OutcomeRows'
  BY <1>1, <1>2, <1>3, <1>4 DEF Frame, OutcomeRows, RowsOf
<1> QED
  BY <1>5, <1>7, <1>8 DEF Frame

\* BEGIN opens the transaction for the call.
LEMMA BeginFrame ==
  ASSUME Frame, NEW c \in Calls, Begin(c)
  PROVE  Frame'
<1>1. ~body[c].skip
  BY DEF Begin, Frame, OwnerWorks
<1>2. CASE Fail(c)
  BY <1>2, FailFrame DEF Begin
<1>3. CASE OpenTransaction(c) /\ Proceed(c, outcome[c], 1) /\ UNCHANGED <<body, outcome>>
  <2>1. owner' = c /\ outcome[c] \in Seq(Kinds)
    BY <1>3 DEF OpenTransaction, Frame, CallTypes
  <2>2. /\ pc' \in [Calls -> Labels] /\ at' \in [Calls -> Nat]
        /\ pc'[c] \in {"insert", "commit"}
        /\ \A d \in Calls \ {c} : pc'[d] = pc[d]
    BY <1>1, <1>3, <2>1, ProceedTypes DEF Frame
  <2>3. DOMAIN outcome[c] = DOMAIN RowsOf(c)
    BY DEF Begin, Frame, OutcomeRows
  <2>4. owner' # NoOne
    BY <2>1, InsertAllAssumption
  <2> QED
    BY <1>1, <1>3, <2>1, <2>2, <2>3, <2>4, FrameStep
<1> QED
  BY <1>2, <1>3 DEF Begin

\* An INSERT that succeeds, and one that fails.
LEMMA InsertFrame ==
  ASSUME Frame, NEW c \in Calls, InsertRow(c)
  PROVE  Frame'
<1>1. outcome[c] \in Seq(Kinds) /\ DOMAIN outcome[c] = DOMAIN RowsOf(c)
  BY DEF InsertRow, Frame, CallTypes, OutcomeRows
<1>2. owner' = owner /\ (owner' = NoOne => work' = {} /\ ~aborted')
  BY StatementFrame DEF InsertRow
<1>3. UNCHANGED <<body, outcome>> /\ Proceed(c, outcome[c], at[c] + 1)
  BY DEF InsertRow
<1>4. /\ pc' \in [Calls -> Labels] /\ at' \in [Calls -> Nat]
      /\ body[c].skip => pc'[c] \in {"insert", "answered"}
      /\ ~body[c].skip => pc'[c] \in {"insert", "commit"}
      /\ \A d \in Calls \ {c} : pc'[d] = pc[d]
  BY <1>1, <1>3, ProceedTypes DEF Frame
<1>5. owner = c => ~body[c].skip
  BY DEF Frame, OwnerWorks
<1> QED
  BY <1>1, <1>2, <1>3, <1>4, <1>5, FrameStep

LEMMA RowFailsFrame ==
  ASSUME Frame, NEW c \in Calls, RowFails(c)
  PROVE  Frame'
<1>1. outcome[c] \in Seq(Kinds) /\ DOMAIN outcome[c] = DOMAIN RowsOf(c)
  BY DEF RowFails, Frame, CallTypes, OutcomeRows
<1>2. owner' = owner /\ (owner' = NoOne => work' = {} /\ ~aborted')
  BY StatementFrame DEF RowFails
<1>3. /\ outcome' = [outcome EXCEPT ![c] = [outcome[c] EXCEPT ![at[c]] = "error"]]
      /\ UNCHANGED body /\ AfterError(c, outcome[c]) /\ pc[c] = "insert"
  BY DEF RowFails
<1>4. /\ pc' \in [Calls -> Labels] /\ at' \in [Calls -> Nat]
      /\ body[c].skip => pc'[c] \in {"insert", "answered"}
      /\ ~body[c].skip => pc'[c] = "rollback"
      /\ \A d \in Calls \ {c} : pc'[d] = pc[d]
  <2>1. CASE body[c].skip
    BY <1>1, <1>3, <2>1, ProceedTypes DEF Frame, AfterError
  <2>2. CASE ~body[c].skip
    <3>1. "rollback" \in Labels
      BY DEF Labels
    <3> QED
      BY <1>3, <2>2, <3>1, GotoTypes DEF AfterError, Frame, CallTypes
  <2> QED
    BY <2>1, <2>2
<1>5. [outcome[c] EXCEPT ![at[c]] = "error"] \in Seq(Kinds)
      /\ DOMAIN [outcome[c] EXCEPT ![at[c]] = "error"] = DOMAIN outcome[c]
  <2>1. PICK n \in Nat : DOMAIN outcome[c] = 1..n /\ outcome[c] \in [1..n -> Kinds]
    BY <1>1
  <2>2. [outcome[c] EXCEPT ![at[c]] = "error"] \in [1..n -> Kinds]
    BY <2>1 DEF Kinds
  <2> QED
    BY <2>1, <2>2
<1>6. outcome' \in [Calls -> Seq(Kinds)]
      /\ DOMAIN outcome'[c] = DOMAIN RowsOf(c)
      /\ \A d \in Calls \ {c} : outcome'[d] = outcome[d]
  BY <1>1, <1>3, <1>5 DEF Frame, CallTypes
<1>7. CallTypes' /\ Closed'
  BY <1>2, <1>3, <1>4, <1>6 DEF Frame, CallTypes, Closed
<1>8. OwnerWorks'
  BY <1>2, <1>3, <1>4, InsertAllAssumption DEF Frame, OwnerWorks
<1>9. OutcomeRows'
  BY <1>3, <1>4, <1>6 DEF Frame, OutcomeRows, RowsOf
<1> QED
  BY <1>7, <1>8, <1>9 DEF Frame

\* COMMIT and ROLLBACK leave no transaction behind, even where they fail.
LEMMA EndFrame ==
  ASSUME Frame, NEW c \in Calls, Commit(c) \/ Rollback(c)
  PROVE  Frame'
<1>1. /\ UNCHANGED <<body, outcome, at>>
      /\ owner' = NoOne /\ work' = {} /\ ~aborted'
      /\ Goto(c, "answered") \/ Goto(c, "failed")
  <2>1. CASE Commit(c)
    BY <2>1, StatementFrame DEF Commit, CommitKeeps, NoTransaction
  <2>2. CASE Rollback(c)
    BY <2>2, StatementFrame DEF Rollback, NoTransaction
  <2> QED
    BY <2>1, <2>2
<1>2. "answered" \in Labels /\ "failed" \in Labels
  BY DEF Labels
<1>3. /\ pc' \in [Calls -> Labels] /\ pc'[c] \in {"answered", "failed"}
      /\ \A d \in Calls \ {c} : pc'[d] = pc[d]
  BY <1>1, <1>2, GotoTypes DEF Frame
<1>4. at' \in [Calls -> Nat] /\ DOMAIN outcome[c] = DOMAIN RowsOf(c)
  BY <1>1 DEF Frame, CallTypes, OutcomeRows, Commit, Rollback
<1>5. owner' # c
  BY <1>1, InsertAllAssumption
<1> QED
  BY <1>1, <1>3, <1>4, <1>5, FrameStep

\* Scripts and the clock do not touch calls.
LEMMA OutsideFrame ==
  ASSUME Frame, ScriptStatement \/ ClockTick \/ UNCHANGED vars
  PROVE  Frame'
<1>1. UNCHANGED callVars
  BY DEF ScriptStatement, ClockTick, vars
<1>2. /\ owner' \in {NoOne, Script} \/ owner' = owner
      /\ owner' = NoOne => work' = {} /\ ~aborted'
  <2>1. CASE UNCHANGED dbVars
    BY <2>1 DEF dbVars, Frame, Closed
  <2>2. CASE ScriptStatement
    <3>1. OpenTransaction(Script) => owner' = Script
      BY DEF OpenTransaction
    <3>2. Script # NoOne
      BY InsertAllAssumption
    <3> QED
      BY <2>2, <3>1, <3>2, StatementFrame DEF ScriptStatement, CommitKeeps
  <2> QED
    BY <2>1, <2>2 DEF ClockTick, vars
<1>3. CallTypes' /\ Closed'
  BY <1>1, <1>2 DEF Frame, CallTypes, Closed, callVars
<1>4. OwnerWorks'
  BY <1>1, <1>2, InsertAllAssumption DEF Frame, OwnerWorks, callVars
<1>5. OutcomeRows'
  BY <1>1 DEF Frame, OutcomeRows, RowsOf, callVars
<1> QED
  BY <1>3, <1>4, <1>5 DEF Frame

LEMMA FrameInit == Init => Frame
<1> SUFFICES ASSUME Init PROVE Frame
  OBVIOUS
<1>1. CallTypes
  BY DEF Init, CallTypes, Labels, Kinds
<1>2. Closed /\ OwnerWorks /\ OutcomeRows
  BY InsertAllAssumption DEF Init, Closed, OwnerWorks, OutcomeRows
<1> QED
  BY <1>1, <1>2 DEF Frame

LEMMA FrameNext == Frame /\ [Next]_vars => Frame'
<1> SUFFICES ASSUME Frame, [Next]_vars PROVE Frame'
  OBVIOUS
<1>1. ASSUME NEW c \in Calls, Step(c) PROVE Frame'
  BY <1>1, OpeningFrame, EncodeFrame, BeginFrame, InsertFrame, RowFailsFrame, EndFrame
  DEF Step
<1> QED
  BY <1>1, OutsideFrame DEF Next

\* No transaction outlives the request that opened it, whatever scripts do.
THEOREM TransactionsEndAlways == Spec => []TransactionsEnd
<1>1. Frame => TransactionsEnd
  BY DEF Frame, OwnerWorks, TransactionsEnd
<1> QED
  BY <1>1, FrameInit, FrameNext, PTL DEF Spec

(***************************************************************************)
(* Where the rows are, as long as no script has ended a call's transaction.*)
(***************************************************************************)

\* What is stored of a call, and that it owns the transaction, stays.
RowsStay(d) ==
  /\ committed' \cap Own(d) = committed \cap Own(d)
  /\ work' \cap Own(d) = work \cap Own(d)
  /\ owner = d => owner' = d

LEMMA PlacedStays ==
  ASSUME NEW d \in Calls, RowsPlaced(d), RowsStay(d),
         pc'[d] = pc[d], at'[d] = at[d], outcome'[d] = outcome[d], body' = body
  PROVE  RowsPlaced(d)'
<1>1. Own(d)' = Own(d) /\ Invalid(d)' = Invalid(d) /\ Wanted(d)' = Wanted(d)
      /\ Inserted(d)' = Inserted(d)
  BY DEF Own, RowsOf, Invalid, Wanted, Inserted
<1>2. /\ pc[d] \in {"insert", "commit", "rollback"} => owner' = d
  BY DEF RowsPlaced, RowsStay
<1> QED
  BY <1>1, <1>2 DEF RowsPlaced, RowsStay

\* When the transaction of nobody else ends, nobody else had rows in it.
LEMMA EndedStays ==
  ASSUME NEW d \in Calls, RowsPlaced(d), NEW keep, EndTransaction(keep), owner # d,
         pc[d] \in Labels
  PROVE  RowsStay(d)
<1>1. work \cap Own(d) = {}
  BY DEF RowsPlaced, BeforeLoop, Labels
<1> QED
  BY <1>1 DEF EndTransaction, RowsStay, Visible

\* A statement that writes something else, and one that fails.
LEMMA WrittenStays ==
  ASSUME NEW d \in Calls, NEW item, item \notin Own(d), Execute(item)
  PROVE  RowsStay(d)
BY DEF Execute, RowsStay

LEMMA ThrownStays ==
  ASSUME Throw, NEW d
  PROVE  RowsStay(d)
BY DEF Throw, RowsStay

\* Rows of a call, and the template table, are not rows of another call.
LEMMA OwnDisjoint ==
  ASSUME NEW d \in Calls
  PROVE  /\ TemplateTable \notin Own(d) /\ TemplateMeta \notin Own(d)
         /\ \A c \in Calls \ {d}, i \in Nat : <<c, i>> \notin Own(d)
BY InsertAllAssumption DEF Own, TemplateTable, TemplateMeta

\* What any step of a call leaves to the other calls.
LEMMA OthersStay ==
  ASSUME Frame, NEW c \in Calls, Step(c), NEW d \in Calls \ {c},
         ~body[c].skip => RowsPlaced(c), ~body[d].skip, RowsPlaced(d)
  PROVE  RowsPlaced(d)'
<1>1. /\ pc \in [Calls -> Labels] /\ at \in [Calls -> Nat]
      /\ outcome \in [Calls -> Seq(Kinds)] /\ body' = body
  BY DEF Frame, CallTypes, Step, ReadBase, LookupTarget, CreateTarget, DescribeTarget,
     EncodeRows, Begin, InsertRow, RowFails, Commit, Rollback, Fail
<1>2. ASSUME NEW label, Goto(c, label) PROVE pc'[d] = pc[d]
  BY <1>1, <1>2 DEF Goto
<1>3. ASSUME NEW o, NEW i, Proceed(c, o, i) PROVE pc'[d] = pc[d] /\ at'[d] = at[d]
  BY <1>1, <1>3, ProceedCases
<1>4. ASSUME Fail(c) PROVE RowsStay(d) /\ pc'[d] = pc[d] /\ UNCHANGED <<outcome, at>>
  BY <1>2, <1>4, ThrownStays DEF Fail
<1>5. ASSUME UNCHANGED dbVars PROVE RowsStay(d)
  BY <1>5 DEF RowsStay, dbVars
<1>6. CASE ReadBase(c)
  BY <1>1, <1>2, <1>4, <1>5, <1>6, PlacedStays DEF ReadBase
<1>7. CASE LookupTarget(c)
  BY <1>1, <1>2, <1>4, <1>5, <1>7, PlacedStays DEF LookupTarget
<1>8. CASE CreateTarget(c)
  <2>1. RowsStay(d) /\ pc'[d] = pc[d] /\ UNCHANGED <<outcome, at>>
    BY <1>2, <1>4, <1>8, OwnDisjoint, WrittenStays DEF CreateTarget
  <2> QED
    BY <1>1, <2>1, PlacedStays
<1>9. CASE DescribeTarget(c)
  <2>1. RowsStay(d) /\ pc'[d] = pc[d] /\ UNCHANGED <<outcome, at>>
    BY <1>2, <1>4, <1>9, OwnDisjoint, WrittenStays DEF DescribeTarget
  <2> QED
    BY <1>1, <2>1, PlacedStays
<1>10. CASE EncodeRows(c)
  <2>1. RowsStay(d) /\ pc'[d] = pc[d] /\ at'[d] = at[d]
    BY <1>2, <1>3, <1>5, <1>10 DEF EncodeRows
  <2>2. outcome'[d] = outcome[d]
    BY <1>1, <1>10 DEF EncodeRows
  <2> QED
    BY <1>1, <2>1, <2>2, PlacedStays
<1>11. CASE Begin(c)
  <2>1. RowsStay(d) /\ pc'[d] = pc[d] /\ at'[d] = at[d] /\ UNCHANGED outcome
    <3>1. CASE Fail(c)
      BY <1>4, <3>1
    <3>2. CASE OpenTransaction(c) /\ Proceed(c, outcome[c], 1) /\ UNCHANGED outcome
      <4>1. owner # d /\ UNCHANGED <<committed, work>>
        BY <3>2, InsertAllAssumption DEF OpenTransaction, NoTransaction
      <4> QED
        BY <1>3, <3>2, <4>1 DEF RowsStay
    <3> QED
      BY <1>11, <3>1, <3>2 DEF Begin
  <2> QED
    BY <1>1, <2>1, PlacedStays
<1>12. CASE InsertRow(c)
  <2>1. RowsStay(d)
    BY <1>1, <1>12, OwnDisjoint, WrittenStays DEF InsertRow
  <2>2. pc'[d] = pc[d] /\ at'[d] = at[d] /\ UNCHANGED outcome
    BY <1>3, <1>12 DEF InsertRow
  <2> QED
    BY <1>1, <2>1, <2>2, PlacedStays
<1>13. CASE RowFails(c)
  <2>1. RowsStay(d)
    BY <1>13, ThrownStays DEF RowFails
  <2>2. pc'[d] = pc[d] /\ at'[d] = at[d]
    BY <1>2, <1>3, <1>13 DEF RowFails, AfterError
  <2>3. outcome'[d] = outcome[d]
    BY <1>1, <1>13 DEF RowFails
  <2> QED
    BY <1>1, <2>1, <2>2, <2>3, PlacedStays
<1>14. CASE Commit(c) \/ Rollback(c)
  <2>1. owner = c
    <3>1. ~body[c].skip /\ pc[c] \in {"commit", "rollback"}
      BY <1>14 DEF Commit, Rollback, Frame, OwnerWorks
    <3> QED
      BY <3>1 DEF RowsPlaced
  <2>2. \E keep : EndTransaction(keep)
    BY <1>14, <2>1, InsertAllAssumption DEF Commit, Rollback, CommitKeeps, NoTransaction
  <2>3. RowsStay(d)
    BY <1>1, <2>1, <2>2, EndedStays
  <2>4. pc'[d] = pc[d] /\ UNCHANGED <<at, outcome>>
    BY <1>2, <1>14 DEF Commit, Rollback
  <2> QED
    BY <1>1, <2>3, <2>4, PlacedStays
<1> QED
  BY <1>6, <1>7, <1>8, <1>9, <1>10, <1>11, <1>12, <1>13, <1>14 DEF Step

\* Before its loop a call has stored nothing, also when it fails there.
LEMMA OpeningPlaced ==
  ASSUME Frame, NEW c \in Calls, RowsPlaced(c),
         ReadBase(c) \/ LookupTarget(c) \/ CreateTarget(c) \/ DescribeTarget(c)
  PROVE  RowsPlaced(c)'
<1>1. pc \in [Calls -> Labels]
  BY DEF Frame, CallTypes
<1>2. pc[c] \in BeforeLoop
  BY DEF ReadBase, LookupTarget, CreateTarget, DescribeTarget, BeforeLoop
<1>3. committed \cap Own(c) = {} /\ work \cap Own(c) = {}
  BY <1>2 DEF RowsPlaced
<1>4. body' = body /\ pc'[c] \in {"lookup", "create", "describe", "submit", "failed"}
  BY <1>1 DEF ReadBase, LookupTarget, CreateTarget, DescribeTarget, Fail, Goto
<1>5. RowsStay(c)
  <2>1. CASE Fail(c)
    BY <2>1, ThrownStays DEF Fail
  <2>2. CASE UNCHANGED dbVars
    BY <2>2 DEF dbVars, RowsStay
  <2>3. CASE Execute(TemplateTable) \/ Execute(TemplateMeta)
    BY <2>3, OwnDisjoint, WrittenStays
  <2> QED
    BY <2>1, <2>2, <2>3 DEF ReadBase, LookupTarget, CreateTarget, DescribeTarget
<1>6. Own(c)' = Own(c)
  BY <1>4 DEF Own, RowsOf
<1> QED
  BY <1>3, <1>4, <1>5, <1>6 DEF RowsPlaced, RowsStay, BeforeLoop

\* Without skipInvalidRows, encoding answers the request or goes on to BEGIN.
LEMMA EncodePlaced ==
  ASSUME Frame, NEW c \in Calls, RowsPlaced(c), EncodeRows(c), ~body[c].skip
  PROVE  RowsPlaced(c)'
<1> DEFINE o == Outcomes(c)
<1>1. o \in Seq(Kinds)
  BY OutcomesTypes DEF Frame
<1>2. /\ outcome'[c] = o /\ UNCHANGED <<dbVars, body>> /\ pc[c] = "submit"
      /\ pc'[c] = IF o = <<>> \/ \E i \in DOMAIN o : o[i] = "error"
                  THEN "answered" ELSE "begin"
  BY DEF EncodeRows, Frame, CallTypes, Goto
<1> HIDE DEF o
<1>3. Own(c)' = Own(c) /\ committed' \cap Own(c) = {} /\ work' \cap Own(c) = {}
  BY <1>2 DEF RowsPlaced, BeforeLoop, Own, RowsOf, dbVars
<1>4. Invalid(c)' = {i \in DOMAIN o : o[i] = "error"}
      /\ (o = <<>> => Wanted(c)' = {})
  BY <1>1, <1>2 DEF Invalid, Wanted
<1>5. CASE \E i \in DOMAIN o : o[i] = "error"
  BY <1>2, <1>3, <1>4, <1>5 DEF RowsPlaced, BeforeLoop
<1>6. CASE o = <<>>
  BY <1>2, <1>3, <1>4, <1>6 DEF RowsPlaced, BeforeLoop
<1>7. CASE o # <<>> /\ ~ \E i \in DOMAIN o : o[i] = "error"
  BY <1>2, <1>3, <1>4, <1>7 DEF RowsPlaced, BeforeLoop
<1> QED
  BY <1>5, <1>6, <1>7

\* The loop begins with an empty transaction.
LEMMA BeginPlaced ==
  ASSUME Frame, NEW c \in Calls, RowsPlaced(c), Begin(c), ~body[c].skip
  PROVE  RowsPlaced(c)'
<1>1. /\ pc[c] = "begin" /\ pc \in [Calls -> Labels] /\ at \in [Calls -> Nat]
      /\ UNCHANGED <<body, outcome>>
      /\ outcome[c] \in Seq(Kinds)
  BY DEF Begin, Fail, Frame, CallTypes
<1>2. committed \cap Own(c) = {} /\ work \cap Own(c) = {} /\ Invalid(c) = {}
  BY <1>1 DEF RowsPlaced, BeforeLoop
<1>3. Own(c)' = Own(c) /\ Invalid(c)' = Invalid(c) /\ Wanted(c)' = Wanted(c)
  BY <1>1 DEF Own, RowsOf, Invalid, Wanted
<1>4. CASE Fail(c)
  <2>1. pc'[c] = "failed" /\ RowsStay(c)
    BY <1>1, <1>4, ThrownStays DEF Fail, Goto
  <2> QED
    BY <1>2, <1>3, <2>1 DEF RowsPlaced, RowsStay, BeforeLoop
<1>5. CASE OpenTransaction(c) /\ Proceed(c, outcome[c], 1)
  <2>1. owner' = c /\ committed' \cap Own(c) = {} /\ work' \cap Own(c) = {}
    BY <1>2, <1>5 DEF OpenTransaction
  <2>2. \A j \in DOMAIN outcome[c] : j \in Nat /\ j >= 1
    BY <1>1
  <2>3. CASE \E k \in DOMAIN outcome[c] :
               /\ k >= 1 /\ outcome[c][k] = "values"
               /\ \A j \in DOMAIN outcome[c] : j >= 1 /\ outcome[c][j] = "values" => k <= j
               /\ at' = [at EXCEPT ![c] = k]
               /\ pc' = [pc EXCEPT ![c] = "insert"]
    <3>1. PICK k \in DOMAIN outcome[c] :
               /\ outcome[c][k] = "values"
               /\ \A j \in DOMAIN outcome[c] : j >= 1 /\ outcome[c][j] = "values" => k <= j
               /\ at' = [at EXCEPT ![c] = k]
               /\ pc' = [pc EXCEPT ![c] = "insert"]
      BY <2>3
    <3>2. at'[c] = k /\ pc'[c] = "insert" /\ outcome'[c] = outcome[c]
      BY <1>1, <3>1
    <3>3. \A j \in DOMAIN outcome[c] : ~(outcome[c][j] = "values" /\ j < k)
      BY <2>2, <3>1
    <3>4. Inserted(c)' = {}
      BY <3>2, <3>3 DEF Inserted
    <3> QED
      BY <1>2, <1>3, <2>1, <3>1, <3>2, <3>4 DEF RowsPlaced, BeforeLoop
  <2>4. CASE /\ \A j \in DOMAIN outcome[c] : ~(j >= 1 /\ outcome[c][j] = "values")
             /\ pc' = [pc EXCEPT ![c] = IF body[c].skip THEN "answered" ELSE "commit"]
    <3>1. Wanted(c) = {}
      BY <2>2, <2>4 DEF Wanted
    <3>2. pc'[c] = "commit"
      BY <1>1, <2>4
    <3> QED
      BY <1>2, <1>3, <2>1, <3>1, <3>2 DEF RowsPlaced, BeforeLoop
  <2> QED
    BY <1>5, <2>3, <2>4, ProceedCases
<1> QED
  BY <1>4, <1>5 DEF Begin

\* A row more is in the transaction, and the loop goes to the next or ends.
LEMMA InsertPlaced ==
  ASSUME Frame, NEW c \in Calls, RowsPlaced(c), InsertRow(c), ~body[c].skip
  PROVE  RowsPlaced(c)'
<1>1. /\ pc[c] = "insert" /\ pc \in [Calls -> Labels] /\ at \in [Calls -> Nat]
      /\ UNCHANGED <<body, outcome>> /\ outcome[c] \in Seq(Kinds)
      /\ DOMAIN outcome[c] = DOMAIN RowsOf(c)
  BY DEF InsertRow, Frame, CallTypes, OutcomeRows
<1>2. /\ committed \cap Own(c) = {} /\ work \cap Own(c) = Inserted(c) /\ Invalid(c) = {}
      /\ owner = c /\ at[c] \in DOMAIN outcome[c] /\ outcome[c][at[c]] = "values"
  BY <1>1 DEF RowsPlaced
<1>3. Own(c)' = Own(c) /\ Invalid(c)' = Invalid(c) /\ Wanted(c)' = Wanted(c)
  BY <1>1 DEF Own, RowsOf, Invalid, Wanted
<1>4. /\ committed' = committed /\ work' = work \cup {<<c, at[c]>>} /\ owner' = c
  BY <1>2, InsertAllAssumption DEF InsertRow, Execute, NoTransaction
<1>5. <<c, at[c]>> \in Own(c)
  BY <1>1, <1>2 DEF Own
<1>6. work' \cap Own(c) = Inserted(c) \cup {<<c, at[c]>>}
  BY <1>2, <1>4, <1>5
<1>7. \A j \in DOMAIN outcome[c] : j \in Nat
  BY <1>1
<1>8. CASE \E k \in DOMAIN outcome[c] :
             /\ k >= at[c] + 1 /\ outcome[c][k] = "values"
             /\ \A j \in DOMAIN outcome[c] : j >= at[c] + 1 /\ outcome[c][j] = "values" => k <= j
             /\ at' = [at EXCEPT ![c] = k]
             /\ pc' = [pc EXCEPT ![c] = "insert"]
  <2>1. PICK k \in DOMAIN outcome[c] :
             /\ k >= at[c] + 1 /\ outcome[c][k] = "values"
             /\ \A j \in DOMAIN outcome[c] : j >= at[c] + 1 /\ outcome[c][j] = "values" => k <= j
             /\ at' = [at EXCEPT ![c] = k]
             /\ pc' = [pc EXCEPT ![c] = "insert"]
    BY <1>8
  <2>2. at'[c] = k /\ pc'[c] = "insert" /\ outcome'[c] = outcome[c]
    BY <1>1, <2>1
  <2>3. \A j \in DOMAIN outcome[c] :
          outcome[c][j] = "values" => (j < k <=> j < at[c] \/ j = at[c])
    BY <1>1, <1>7, <2>1
  <2>4. Inserted(c)' = Inserted(c) \cup {<<c, at[c]>>}
    BY <1>2, <2>2, <2>3 DEF Inserted
  <2> QED
    BY <1>2, <1>3, <1>4, <1>6, <2>1, <2>2, <2>4 DEF RowsPlaced, BeforeLoop
<1>9. CASE /\ \A j \in DOMAIN outcome[c] : ~(j >= at[c] + 1 /\ outcome[c][j] = "values")
           /\ pc' = [pc EXCEPT ![c] = IF body[c].skip THEN "answered" ELSE "commit"]
  <2>1. \A j \in DOMAIN outcome[c] :
          outcome[c][j] = "values" => j < at[c] \/ j = at[c]
    BY <1>1, <1>7, <1>9
  <2>2. Wanted(c) = Inserted(c) \cup {<<c, at[c]>>}
    BY <1>2, <2>1 DEF Wanted, Inserted
  <2>3. pc'[c] = "commit"
    BY <1>1, <1>9
  <2> QED
    BY <1>2, <1>3, <1>4, <1>6, <2>2, <2>3 DEF RowsPlaced, BeforeLoop
<1> QED
  BY <1>8, <1>9, ProceedCases DEF InsertRow

\* A row fails: the call is to roll back, and has an error to report.
LEMMA RowFailsPlaced ==
  ASSUME Frame, NEW c \in Calls, RowsPlaced(c), RowFails(c), ~body[c].skip
  PROVE  RowsPlaced(c)'
<1>1. /\ pc[c] = "insert" /\ body' = body
      /\ outcome \in [Calls -> Seq(Kinds)] /\ pc \in [Calls -> Labels]
      /\ UNCHANGED <<committed, work, owner>>
      /\ pc' = [pc EXCEPT ![c] = "rollback"]
  BY DEF RowFails, Throw, AfterError, Goto, Frame, CallTypes
<1>2. owner = c /\ committed \cap Own(c) = {} /\ at[c] \in DOMAIN outcome[c]
  BY <1>1 DEF RowsPlaced
<1>3. outcome'[c] = [outcome[c] EXCEPT ![at[c]] = "error"]
  BY <1>1 DEF RowFails
<1>4. at[c] \in DOMAIN outcome'[c] /\ outcome'[c][at[c]] = "error"
  BY <1>2, <1>3
<1>5. Invalid(c)' # {}
  BY <1>4 DEF Invalid
<1>6. Own(c)' = Own(c) /\ pc'[c] = "rollback"
  BY <1>1 DEF Own, RowsOf
<1> QED
  BY <1>1, <1>2, <1>5, <1>6 DEF RowsPlaced, BeforeLoop

\* The transaction that COMMIT and ROLLBACK end is the call's own.
LEMMA EndPlaced ==
  ASSUME Frame, NEW c \in Calls, RowsPlaced(c), Commit(c) \/ Rollback(c)
  PROVE  RowsPlaced(c)'
<1>1. /\ UNCHANGED <<body, outcome>> /\ pc \in [Calls -> Labels]
      /\ pc[c] \in {"commit", "rollback"}
  BY DEF Commit, Rollback, Frame, CallTypes
<1>2. owner = c /\ committed \cap Own(c) = {}
  BY <1>1 DEF RowsPlaced
<1>3. Own(c)' = Own(c) /\ Invalid(c)' = Invalid(c) /\ Wanted(c)' = Wanted(c)
  BY <1>1 DEF Own, RowsOf, Invalid, Wanted
<1>4. ~NoTransaction
  BY <1>2, InsertAllAssumption DEF NoTransaction
<1>5. CASE Commit(c)
  <2>1. work \cap Own(c) = Wanted(c) /\ Invalid(c) = {}
    BY <1>5 DEF Commit, RowsPlaced
  <2>2. CASE EndTransaction(TRUE) /\ Goto(c, "answered")
    BY <1>1, <1>2, <1>3, <2>1, <2>2
    DEF RowsPlaced, BeforeLoop, EndTransaction, Goto, Visible
  <2>3. CASE EndTransaction(FALSE) /\ Goto(c, "failed")
    BY <1>1, <1>2, <1>3, <2>3 DEF RowsPlaced, BeforeLoop, EndTransaction, Goto
  <2> QED
    BY <1>4, <1>5, <2>2, <2>3 DEF Commit, CommitKeeps
<1>6. CASE Rollback(c)
  <2>1. Invalid(c) # {}
    BY <1>6 DEF Rollback, RowsPlaced
  <2>2. EndTransaction(FALSE) /\ Goto(c, "answered")
    BY <1>4, <1>6 DEF Rollback
  <2> QED
    BY <1>1, <1>2, <1>3, <2>1, <2>2 DEF RowsPlaced, BeforeLoop, EndTransaction, Goto
<1> QED
  BY <1>5, <1>6

\* Scripts that do not end a call's transaction leave all calls alone.
LEMMA OutsidePlaced ==
  ASSUME Frame, ScriptStatement \/ ClockTick \/ UNCHANGED vars, ~disturbed',
         NEW c \in Calls, RowsPlaced(c)
  PROVE  RowsPlaced(c)'
<1>1. UNCHANGED callVars
  BY DEF ScriptStatement, ClockTick, vars
<1>2. CASE UNCHANGED dbVars
  BY <1>1, <1>2, PlacedStays DEF dbVars, callVars, RowsStay
<1>3. CASE ScriptStatement
  <2>1. pc[c] \in Labels
    BY DEF Frame, CallTypes
  <2>2. ASSUME NEW keep, EndTransaction(keep), owner \notin Calls
        PROVE  RowsStay(c)
    BY <2>1, <2>2, EndedStays
  <2>3. ASSUME OpenTransaction(Script)
        PROVE  RowsStay(c)
    BY <2>3, InsertAllAssumption DEF OpenTransaction, NoTransaction, RowsStay
  <2>4. RowsStay(c)
    BY <1>3, <2>2, <2>3, ThrownStays DEF ScriptStatement, CommitKeeps
  <2> QED
    BY <1>1, <2>4, PlacedStays DEF callVars
<1> QED
  BY <1>2, <1>3 DEF ClockTick, vars

LEMMA PlacedNext == InsertInv /\ [Next]_vars => Placed'
<1> SUFFICES ASSUME InsertInv, [Next]_vars, ~disturbed'
             PROVE  \A d \in Calls : ~body'[d].skip => RowsPlaced(d)'
  BY DEF Placed
<1>1. /\ ~disturbed /\ Frame
      /\ \A d \in Calls : ~body[d].skip => RowsPlaced(d)
      /\ body' = body
  <2>1. ASSUME NEW c \in Calls, Step(c)
        PROVE  UNCHANGED disturbed /\ body' = body
    BY <2>1 DEF Step, ReadBase, LookupTarget, CreateTarget, DescribeTarget, EncodeRows,
       Begin, InsertRow, RowFails, Commit, Rollback, Fail, scriptVars
  <2>2. ASSUME ScriptStatement
        PROVE  (~disturbed' => ~disturbed) /\ body' = body
    <3>1. disturbed' = disturbed \/ disturbed' = (disturbed \/ owner \in Calls)
      BY <2>2 DEF ScriptStatement
    <3>2. ~disturbed' => ~disturbed
      <4>1. ASSUME disturbed' = (disturbed \/ owner \in Calls)
            PROVE  ~disturbed' => ~disturbed
        BY ONLY <4>1, Zenon
      <4>2. ASSUME disturbed' = disturbed
            PROVE  ~disturbed' => ~disturbed
        BY ONLY <4>2, Zenon
      <4> QED
        BY ONLY <3>1, <4>1, <4>2
    <3>3. body' = body
      BY <2>2 DEF ScriptStatement, callVars
    <3> QED
      BY <3>2, <3>3
  <2>3. ASSUME ClockTick \/ UNCHANGED vars
        PROVE  UNCHANGED disturbed /\ body' = body
    BY <2>3 DEF ClockTick, vars, scriptVars, callVars
  <2>4. ~disturbed /\ body' = body
    BY <2>1, <2>2, <2>3 DEF Next
  <2> QED
    BY <2>4 DEF InsertInv, Placed
<1>2. ASSUME NEW c \in Calls, Step(c), NEW d \in Calls, ~body'[d].skip
      PROVE  RowsPlaced(d)'
  <2>1. CASE d = c
    BY <1>1, <1>2, <2>1, OpeningPlaced, EncodePlaced, BeginPlaced, InsertPlaced,
       RowFailsPlaced, EndPlaced DEF Step
  <2>2. CASE d # c
    BY <1>1, <1>2, <2>2, OthersStay
  <2> QED
    BY <2>1, <2>2
<1>3. ASSUME ScriptStatement \/ ClockTick \/ UNCHANGED vars, NEW d \in Calls, ~body'[d].skip
      PROVE  RowsPlaced(d)'
  BY <1>1, <1>3, OutsidePlaced
<1> QED
  BY <1>2, <1>3 DEF Next

\* A request without skipInvalidRows stores all of its rows or none, whatever
\* other requests do on the connection, unless a script ends its transaction.
THEOREM AllOrNothingAlways == Spec => []AllOrNothing
<1>1. Init => InsertInv
  <2>1. Init => Placed
    BY DEF Init, Placed, RowsPlaced, BeforeLoop
  <2> QED
    BY <2>1, FrameInit DEF InsertInv
<1>2. InsertInv /\ [Next]_vars => InsertInv'
  BY FrameNext, PlacedNext DEF InsertInv
<1>3. InsertInv => AllOrNothing
  <2> SUFFICES ASSUME InsertInv, ~disturbed, NEW c \in Calls, ~body[c].skip
               PROVE  committed \cap Own(c)
                        = IF pc[c] = "answered" /\ Invalid(c) = {} THEN Wanted(c) ELSE {}
    BY DEF AllOrNothing
  <2>1. RowsPlaced(c) /\ pc[c] \in Labels
    BY DEF InsertInv, Placed, Frame, CallTypes
  <2> QED
    BY <2>1 DEF RowsPlaced, BeforeLoop, Labels
<1> QED
  BY <1>1, <1>2, <1>3, PTL DEF Spec

(***************************************************************************)
(* The window of insertIds: what seenOrRecord leaves of it, for one id and *)
(* for the rows of a request.                                              *)
(***************************************************************************)
Holds(b, e) == \E k \in DOMAIN b : b[k] = e

Stamp(id, time) == [id |-> id, expiresAt |-> time + WindowMs]

\* A set of natural numbers has a least member.
LEMMA LeastNatural ==
  ASSUME NEW S \in SUBSET Nat, S # {}
  PROVE  \E m \in S : \A n \in S : m <= n
<1> DEFINE Less == {p \in Nat \X Nat : p[1] < p[2]}
<1>1. IsWellFoundedOn(Less, Nat)
  BY NatLessThanWellFounded DEF OpToRel
<1>2. PICK m \in S : \A n \in S : ~ (<<n, m>> \in Less)
  BY <1>1, WFMin
<1>3. \A n \in S : ~(n < m)
  BY <1>2
<1> QED
  BY <1>3

\* One with an upper bound has a greatest, which Max returns.
LEMMA GreatestNatural ==
  ASSUME NEW S \in SUBSET Nat, S # {}, NEW b \in Nat, \A n \in S : n <= b
  PROVE  Max(S) \in S /\ \A n \in S : n <= Max(S)
<1> DEFINE U == {u \in Nat : \A n \in S : n <= u}
<1>1. PICK u \in U : \A v \in U : u <= v
  <2>1. U \in SUBSET Nat /\ U # {}
    OBVIOUS
  <2> HIDE DEF U
  <2> QED
    BY <2>1, LeastNatural
<1>2. u \in Nat /\ \A n \in S : n \in Nat /\ n <= u
  BY <1>1
<1>3. u \in S
  <2>1. CASE u = 0
    <3>1. PICK n \in S : TRUE
      OBVIOUS
    <3>2. n = 0
      BY <1>2, <2>1, <3>1
    <3> QED
      BY <2>1, <3>2
  <2>2. CASE u # 0
    <3>1. u - 1 \in Nat /\ ~(u - 1 \in U)
      BY <1>1, <1>2, <2>2
    <3>2. PICK n \in S : ~(n <= u - 1)
      BY <3>1
    <3>3. n = u
      BY <1>2, <3>2
    <3> QED
      BY <3>3
  <2> QED
    BY <2>1, <2>2
<1>4. \E x \in S : \A y \in S : x >= y
  BY <1>2, <1>3
<1>5. Max(S) \in S /\ \A y \in S : Max(S) >= y
  BY <1>4 DEF Max
<1> QED
  BY <1>2, <1>5

\* Contents of a window: within the limit, and one entry per id.
Bounded(b) ==
  /\ Len(b) <= MaxPerTable
  /\ \A j, k \in DOMAIN b : b[j].id = b[k].id => j = k

Buckets == {b \in Seq(Entries) : Bounded(b)}

\* The sweep drops a prefix of expired entries.
LEMMA SweepDrops ==
  ASSUME now \in Nat, NEW b \in Seq(Entries)
  PROVE  \E n \in 0..Len(b) :
           /\ \A k \in 1..n : b[k].expiresAt <= now
           /\ Sweep(b) \in Seq(Entries) /\ Len(Sweep(b)) = Len(b) - n
           /\ \A k \in 1..(Len(b) - n) : Sweep(b)[k] = b[n + k]
<1> DEFINE m == Min({Len(b), SweepLimit})
           S == {n \in 0..m : \A k \in 1..n : b[k].expiresAt <= now}
<1>1. Len(b) \in Nat /\ SweepLimit \in Nat
  BY InsertIdsAssumption
<1>2. m \in Nat /\ m <= Len(b)
  <2>1. \E x \in {Len(b), SweepLimit} : \A y \in {Len(b), SweepLimit} : x =< y
    BY <1>1
  <2>2. m \in {Len(b), SweepLimit} /\ \A y \in {Len(b), SweepLimit} : m =< y
    BY <2>1 DEF Min
  <2> QED
    BY <1>1, <2>2
<1> HIDE DEF m
<1>3. S \in SUBSET Nat /\ 0 \in S /\ \A n \in S : n <= m
  BY <1>2
<1>4. Max(S) \in S
  <2> HIDE DEF S
  <2> QED
    BY <1>2, <1>3, GreatestNatural
<1>5. SweepLength(b) = Max(S)
  BY DEF SweepLength, m
<1> DEFINE n == SweepLength(b)
<1>6. n \in 0..Len(b) /\ \A k \in 1..n : b[k].expiresAt <= now
  BY <1>1, <1>2, <1>4, <1>5
<1> HIDE DEF n
<1>7. Sweep(b) = SubSeq(b, n + 1, Len(b))
  BY DEF Sweep, n
<1>8. n + 1 \in Int /\ n + 1 >= 1 /\ n + 1 <= Len(b) + 1
  BY <1>1, <1>6
<1>9. /\ SubSeq(b, n + 1, Len(b)) \in Seq(Entries)
      /\ Len(SubSeq(b, n + 1, Len(b)))
           = IF n + 1 <= Len(b) THEN Len(b) - (n + 1) + 1 ELSE 0
      /\ \A i \in 1..(Len(b) - (n + 1) + 1) : SubSeq(b, n + 1, Len(b))[i] = b[n + 1 + i - 1]
  BY <1>1, <1>8, SubSeqProperties
<1> QED
  BY <1>1, <1>6, <1>7, <1>9

\* It keeps what the window keeps.
LEMMA SweepKeeps ==
  ASSUME now \in Nat, NEW b \in Buckets
  PROVE  /\ Sweep(b) \in Buckets
         /\ \A e : Holds(Sweep(b), e) => Holds(b, e)
         /\ \A e : Holds(b, e) /\ e.expiresAt > now => Holds(Sweep(b), e)
<1> DEFINE s == Sweep(b)
<1>1. b \in Seq(Entries) /\ Bounded(b) /\ Len(b) \in Nat /\ MaxPerTable \in Nat
  BY InsertIdsAssumption DEF Buckets
<1>2. PICK n \in 0..Len(b) :
           /\ \A k \in 1..n : b[k].expiresAt <= now
           /\ s \in Seq(Entries) /\ Len(s) = Len(b) - n
           /\ \A k \in 1..(Len(b) - n) : s[k] = b[n + k]
  BY <1>1, SweepDrops
<1> HIDE DEF s
<1>3. n \in Nat /\ n <= Len(b)
      /\ DOMAIN b = 1..Len(b) /\ DOMAIN s = 1..(Len(b) - n)
  BY <1>1, <1>2
<1>4. \A k \in DOMAIN s : n + k \in DOMAIN b /\ s[k] = b[n + k] /\ k \in Nat
  BY <1>1, <1>2, <1>3
<1>5. Bounded(s)
  <2>1. Len(s) <= MaxPerTable
    BY <1>1, <1>2, <1>3 DEF Bounded
  <2>2. ASSUME NEW j \in DOMAIN s, NEW k \in DOMAIN s, s[j].id = s[k].id
        PROVE  j = k
    <3>1. n + j = n + k
      BY <1>1, <1>4, <2>2 DEF Bounded
    <3> QED
      BY <1>3, <1>4, <3>1
  <2> QED
    BY <2>1, <2>2 DEF Bounded
<1>6. ASSUME NEW e, Holds(s, e)
      PROVE  Holds(b, e)
  BY <1>4, <1>6 DEF Holds
<1>7. ASSUME NEW e, Holds(b, e), e.expiresAt > now
      PROVE  Holds(s, e)
  <2>1. PICK k \in DOMAIN b : b[k] = e
    BY <1>7 DEF Holds
  <2>2. e.expiresAt \in Nat
    <3>1. b[k] \in Entries
      BY <1>1, <2>1
    <3> QED
      BY <2>1, <3>1 DEF Entries
  <2>3. k \in Nat /\ k > n
    <3>1. k \in 1..Len(b)
      BY <1>3
    <3>2. ~(k \in 1..n)
      BY <1>2, <1>7, <2>1, <2>2
    <3> QED
      BY <1>3, <3>1, <3>2
  <2>4. k - n \in DOMAIN s /\ n + (k - n) = k
    BY <1>3, <2>3
  <2>5. s[k - n] = b[k]
    BY <1>4, <2>4
  <2> QED
    BY <2>1, <2>4, <2>5 DEF Holds
<1>8. s \in Buckets
  BY <1>2, <1>5 DEF Buckets
<1> QED
  BY <1>6, <1>7, <1>8 DEF s

\* Setting an id gives it one entry, and leaves those of other ids alone.
LEMMA SetProperties ==
  ASSUME now \in Nat, NEW b \in Buckets, NEW id \in Ids
  PROVE  /\ Set(b, id) \in Seq(Entries)
         /\ Len(Set(b, id)) \in {Len(b), Len(b) + 1}
         /\ \A j, k \in DOMAIN Set(b, id) : Set(b, id)[j].id = Set(b, id)[k].id => j = k
         /\ Holds(Set(b, id), Stamp(id, now))
         /\ \A e : Holds(b, e) /\ e.id # id => Holds(Set(b, id), e)
<1> DEFINE entry == Stamp(id, now)
<1>1. b \in Seq(Entries) /\ Bounded(b) /\ Len(b) \in Nat /\ DOMAIN b = 1..Len(b)
  BY DEF Buckets
<1>2. entry \in Entries /\ entry.id = id
  BY InsertIdsAssumption DEF Entries, Stamp
<1>3. Set(b, id) = IF \E k \in DOMAIN b : b[k].id = id
                   THEN [k \in DOMAIN b |-> IF b[k].id = id THEN entry ELSE b[k]]
                   ELSE Append(b, entry)
  BY DEF Set, Stamp
<1>4. \A j, k \in DOMAIN b : b[j].id = b[k].id => j = k
  BY <1>1 DEF Bounded
<1> HIDE DEF entry
<1>5. CASE \E k \in DOMAIN b : b[k].id = id
  <2> DEFINE s == [k \in DOMAIN b |-> IF b[k].id = id THEN entry ELSE b[k]]
  <2>1. Set(b, id) = s
    BY <1>3, <1>5
  <2>2. \A k \in 1..Len(b) : b[k] \in Entries
    BY <1>1
  <2>3. s \in Seq(Entries) /\ Len(s) = Len(b) /\ DOMAIN s = DOMAIN b
    <3>1. s \in [1..Len(b) -> Entries]
      BY <1>1, <1>2, <2>2
    <3> QED
      BY <1>1, <3>1
  <2>4. /\ \A k \in DOMAIN b : s[k].id = b[k].id
        /\ \A k \in DOMAIN b : b[k].id # id => s[k] = b[k]
        /\ \A k \in DOMAIN b : b[k].id = id => s[k] = entry
    BY <1>2
  <2> HIDE DEF s
  <2>5. \A j, k \in DOMAIN s : s[j].id = s[k].id => j = k
    BY <1>4, <2>3, <2>4
  <2>6. Holds(s, entry)
    BY <1>5, <2>3, <2>4 DEF Holds
  <2>7. \A e : Holds(b, e) /\ e.id # id => Holds(s, e)
    BY <2>3, <2>4 DEF Holds
  <2> QED
    BY <2>1, <2>3, <2>5, <2>6, <2>7 DEF entry
<1>6. CASE ~ \E k \in DOMAIN b : b[k].id = id
  <2> DEFINE s == Append(b, entry)
  <2>1. Set(b, id) = s
    BY <1>3, <1>6
  <2>2. /\ s \in Seq(Entries) /\ Len(s) = Len(b) + 1
        /\ \A i \in 1..Len(b) : s[i] = b[i]
        /\ s[Len(b) + 1] = entry
    BY <1>1, <1>2, AppendProperties
  <2> HIDE DEF s
  <2>3. DOMAIN s = 1..(Len(b) + 1)
    BY <2>2
  <2>4. \A k \in DOMAIN s : \/ k \in DOMAIN b /\ s[k] = b[k]
                            \/ k = Len(b) + 1 /\ s[k] = entry
    BY <1>1, <2>2, <2>3
  <2>5. \A j, k \in DOMAIN s : s[j].id = s[k].id => j = k
    BY <1>2, <1>4, <1>6, <2>4
  <2>6. Len(b) + 1 \in DOMAIN s /\ DOMAIN b \subseteq DOMAIN s
    BY <1>1, <2>3
  <2>7. Holds(s, entry) /\ \A e : Holds(b, e) => Holds(s, e)
    BY <1>1, <2>2, <2>6 DEF Holds
  <2> QED
    BY <2>1, <2>2, <2>5, <2>7 DEF entry
<1> QED
  BY <1>5, <1>6

\* What seenOrRecord leaves of a bucket: no other id loses an entry that has
\* not expired, unless it is thrown out, and an id that was not seen has one.
LEMMA SeenOrRecordProperties ==
  ASSUME now \in Nat, NEW b \in Buckets, NEW id \in Ids
  PROVE  LET done == SeenOrRecord(b, id)
         IN  /\ done = [bucket |-> done.bucket, seen |-> done.seen, out |-> done.out]
             /\ done.bucket \in Buckets /\ done.seen \in BOOLEAN /\ done.out \in SUBSET Ids
             /\ \A e : Holds(b, e) /\ e.expiresAt > now =>
                  e.id \in done.out \/ Holds(done.bucket, e)
             /\ ~done.seen =>
                  /\ \A e : Holds(b, e) /\ e.id = id => ~(e.expiresAt > now)
                  /\ id \in done.out \/ Holds(done.bucket, Stamp(id, now))
<1> DEFINE done == SeenOrRecord(b, id)
           swept == Sweep(b)
           set == Set(swept, id)
           Goal(d) == /\ d = [bucket |-> d.bucket, seen |-> d.seen, out |-> d.out]
                      /\ d.bucket \in Buckets /\ d.seen \in BOOLEAN /\ d.out \in SUBSET Ids
                      /\ \A e : Holds(b, e) /\ e.expiresAt > now =>
                           e.id \in d.out \/ Holds(d.bucket, e)
                      /\ ~d.seen =>
                           /\ \A e : Holds(b, e) /\ e.id = id => ~(e.expiresAt > now)
                           /\ id \in d.out \/ Holds(d.bucket, Stamp(id, now))
<1>1. /\ swept \in Buckets
      /\ \A e : Holds(b, e) /\ e.expiresAt > now => Holds(swept, e)
  BY SweepKeeps
<1>2. /\ set \in Seq(Entries) /\ Len(set) \in {Len(swept), Len(swept) + 1}
      /\ \A j, k \in DOMAIN set : set[j].id = set[k].id => j = k
      /\ Holds(set, Stamp(id, now))
      /\ \A e : Holds(swept, e) /\ e.id # id => Holds(set, e)
  BY <1>1, SetProperties
<1>3. done = IF Known(swept, id)
             THEN [bucket |-> swept, seen |-> TRUE, out |-> {}]
             ELSE IF Full(set)
             THEN [bucket |-> Tail(set), seen |-> FALSE, out |-> {set[1].id}]
             ELSE [bucket |-> set, seen |-> FALSE, out |-> {}]
  BY DEF SeenOrRecord
<1>4. /\ Len(swept) \in Nat /\ Len(swept) <= MaxPerTable /\ Len(set) \in Nat
      /\ MaxPerTable \in Nat \ {0} /\ DOMAIN set = 1..Len(set)
  BY <1>1, <1>2, InsertIdsAssumption DEF Buckets, Bounded
<1>5. ~Known(swept, id) => \A e : Holds(swept, e) /\ e.id = id => ~(e.expiresAt > now)
  BY DEF Known, Holds
<1> HIDE DEF done, swept, set
<1>6. CASE Known(swept, id)
  <2> DEFINE d == [bucket |-> swept, seen |-> TRUE, out |-> {}]
  <2>1. Goal(d)
    BY <1>1
  <2> QED
    BY <1>3, <1>6, <2>1 DEF done
<1>7. ~Known(swept, id) =>
        /\ \A e : Holds(b, e) /\ e.id = id => ~(e.expiresAt > now)
        /\ \A e : Holds(b, e) /\ e.expiresAt > now => Holds(set, e)
  BY <1>1, <1>2, <1>5
<1>8. CASE ~Known(swept, id) /\ Full(set)
  <2> DEFINE x == set[1].id
             d == [bucket |-> Tail(set), seen |-> FALSE, out |-> {x}]
  <2>1. Len(set) = MaxPerTable + 1
    <3>1. Len(set) > MaxPerTable
      BY <1>8 DEF Full
    <3>2. Len(set) = Len(swept) \/ Len(set) = Len(swept) + 1
      BY <1>2
    <3>3. \A x1, x2, m \in Nat : x2 <= m /\ x1 > m /\ (x1 = x2 \/ x1 = x2 + 1) => x1 = m + 1
      OBVIOUS
    <3>4. Len(set) \in Nat /\ Len(swept) \in Nat /\ MaxPerTable \in Nat /\ Len(swept) <= MaxPerTable
      BY <1>4
    <3> QED
      BY <3>1, <3>2, <3>3, <3>4
  <2>2. set # <<>> /\ 1 \in DOMAIN set
    BY <1>2, <1>4, <2>1
  <2>3. /\ Tail(set) \in Seq(Entries) /\ Len(Tail(set)) = Len(set) - 1
        /\ \A i \in 1..Len(Tail(set)) : Tail(set)[i] = set[i + 1]
    BY <1>2, <2>2, HeadTailProperties
  <2> DEFINE tail == Tail(set)
  <2> HIDE DEF tail
  <2>4. DOMAIN tail = 1..(Len(set) - 1) /\ tail \in Seq(Entries) /\ Len(tail) = Len(set) - 1
    BY <2>3 DEF tail
  <2>5. \A i \in DOMAIN tail : i + 1 \in DOMAIN set /\ tail[i] = set[i + 1] /\ i \in Nat
    BY <1>4, <2>3, <2>4 DEF tail
  <2>6. Len(tail) <= MaxPerTable
    BY <1>4, <2>1, <2>4
  <2>7. ASSUME NEW j \in DOMAIN tail, NEW k \in DOMAIN tail, tail[j].id = tail[k].id
        PROVE  j = k
    <3>1. j + 1 = k + 1
      BY <1>2, <2>5, <2>7
    <3> QED
      BY <2>5, <3>1
  <2>8. tail \in Buckets
    BY <2>4, <2>6, <2>7 DEF Buckets, Bounded
  <2>9. \A k \in DOMAIN set : k = 1 \/ (k - 1 \in DOMAIN tail /\ tail[k - 1] = set[k])
    <3> TAKE k \in DOMAIN set
    <3>1. CASE k # 1
      <4>1. k - 1 \in DOMAIN tail /\ k - 1 + 1 = k
        BY <1>4, <2>4, <3>1
      <4> QED
        BY <2>5, <4>1
    <3> QED
      BY <3>1
  <2>10. \A e : Holds(set, e) => e.id = x \/ Holds(tail, e)
    BY <2>9 DEF Holds
  <2>11. set[1] \in Entries
    BY <1>2, <2>2
  <2>12. x \in Ids
    BY <2>11 DEF Entries
  <2>13. id = x \/ Holds(tail, Stamp(id, now))
    BY <1>2, <2>10 DEF Stamp
  <2> HIDE DEF x
  <2>14. Goal(d)
    BY <1>7, <1>8, <2>8, <2>10, <2>12, <2>13 DEF tail
  <2> QED
    BY <1>3, <1>8, <2>14 DEF done, x
<1>9. CASE ~Known(swept, id) /\ ~Full(set)
  <2> DEFINE d == [bucket |-> set, seen |-> FALSE, out |-> {}]
  <2>1. Len(set) <= MaxPerTable
    BY <1>4, <1>9 DEF Full
  <2>2. set \in Buckets
    BY <1>2, <2>1 DEF Buckets, Bounded
  <2>3. Goal(d)
    BY <1>2, <1>7, <1>9, <2>2
  <2> QED
    BY <1>3, <1>9, <2>3 DEF done
<1> QED
  BY <1>6, <1>8, <1>9

\* What a table's window and a request's rows leave after no row.
Start(c) == [bucket |-> bucket[body[c].table], seen |-> FALSE, out |-> {}]

\* AfterRows is what its recursion says: a function that satisfies it for the
\* first rows can be extended by a row.
LEMMA AfterRowsRecursion ==
  ASSUME NEW c, RowsOf(c) \in Seq(Rows)
  PROVE  /\ AfterRows(c)[0] = Start(c)
         /\ \A n \in 1..Len(RowsOf(c)) :
              AfterRows(c)[n] = AfterRow(AfterRows(c)[n - 1], RowsOf(c)[n])
<1> DEFINE rs == RowsOf(c)
           N == Len(rs)
           Next1(f, n) == IF n = 0 THEN Start(c) ELSE AfterRow(f[n - 1], rs[n])
           Upto(f, m) == f = [n \in 0..m |-> Next1(f, n)]
           Missing == {m \in 0..N : ~ \E f : Upto(f, m)}
<1>1. N \in Nat
  OBVIOUS
<1> HIDE DEF N
<1>2. Missing = {}
  <2> SUFFICES ASSUME Missing # {}
               PROVE  FALSE
    OBVIOUS
  <2>1. PICK k \in Missing : \A m \in Missing : k <= m
    <3>1. Missing \in SUBSET Nat
      BY <1>1
    <3> HIDE DEF Missing
    <3> QED
      BY <3>1, LeastNatural
  <2>2. k \in 0..N /\ ~ \E f : Upto(f, k)
    BY <2>1
  <2>3. CASE k = 0
    <3> DEFINE f == [n \in 0..0 |-> Start(c)]
    <3>1. Upto(f, 0)
      OBVIOUS
    <3> QED
      BY <2>2, <2>3, <3>1
  <2>4. CASE k # 0
    <3>1. k \in Nat /\ k - 1 \in 0..N /\ ~(k <= k - 1)
      BY <1>1, <2>2, <2>4
    <3>2. k - 1 \notin Missing
      BY <2>1, <3>1
    <3>3. PICK g : Upto(g, k - 1)
      BY <3>1, <3>2
    <3> DEFINE f == [n \in 0..k |-> IF n = k THEN Next1(g, k) ELSE g[n]]
    <3>4. \A n \in 0..(k - 1) : g[n] = Next1(g, n)
      BY <3>3
    <3>5. \A n \in 0..k : n # k => n \in 0..(k - 1)
      BY <3>1
    <3>6. \A n \in 0..k : n # 0 => n - 1 \in 0..k /\ n - 1 # k
      BY <3>1
    <3>7. \A n \in 0..k : n # 0 => f[n - 1] = g[n - 1]
      BY <3>6
    <3>8. \A n \in 0..k : Next1(f, n) = Next1(g, n)
      BY <3>7
    <3>9. \A n \in 0..k : f[n] = Next1(g, n)
      BY <3>4, <3>5
    <3>10. f = [n \in 0..k |-> f[n]]
      OBVIOUS
    <3> HIDE DEF f, Next1
    <3>11. Upto(f, k)
      BY <3>8, <3>9, <3>10
    <3> QED
      BY <2>2, <3>11
  <2> QED
    BY <2>3, <2>4
<1>3. \E f : Upto(f, N)
  <2>1. N \in 0..N
    BY <1>1
  <2> HIDE DEF Upto
  <2> QED
    BY <1>2, <2>1
<1>4. AfterRows(c) = CHOOSE f : Upto(f, N)
  BY DEF AfterRows, N, Start
<1> DEFINE after == AfterRows(c)
<1>5. Upto(after, N)
  <2> HIDE DEF Upto
  <2> QED
    BY <1>3, <1>4
<1>6. \A n \in 0..N : after[n] = Next1(after, n)
  <2> HIDE DEF Next1, after
  <2> QED
    BY <1>5
<1>7. 0 \in 0..N /\ \A n \in 1..N : n \in 0..N /\ n # 0
  BY <1>1
<1> HIDE DEF after
<1>8. after[0] = Start(c) /\ \A n \in 1..N : after[n] = AfterRow(after[n - 1], rs[n])
  BY <1>6, <1>7
<1> QED
  BY <1>8 DEF after, N

Windows == [bucket : Buckets, seen : BOOLEAN, out : SUBSET Ids]

\* The entry e has expired, or is in the window that some rows leave, or the
\* window has thrown it out.
Remains(after, e) ==
  e.expiresAt > now => e.id \in after.out \/ Holds(after.bucket, e)

\* What one row makes of the window.
LEMMA AfterRowProperties ==
  ASSUME now \in Nat, NEW before \in Windows, NEW row \in Rows
  PROVE  /\ AfterRow(before, row) \in Windows
         /\ before.out \subseteq AfterRow(before, row).out
         /\ \A e : Holds(before.bucket, e) => Remains(AfterRow(before, row), e)
         /\ row.id # NoId /\ ~AfterRow(before, row).seen =>
              /\ \A e : Holds(before.bucket, e) /\ e.id = row.id => ~(e.expiresAt > now)
              /\ \/ row.id \in AfterRow(before, row).out
                 \/ Holds(AfterRow(before, row).bucket, Stamp(row.id, now))
<1>1. before.bucket \in Buckets /\ before.out \in SUBSET Ids
  BY DEF Windows
<1>2. CASE row.id = NoId
  <2> DEFINE a == [before EXCEPT !.seen = FALSE]
  <2>1. AfterRow(before, row) = a
    BY <1>2 DEF AfterRow
  <2>2. a \in Windows /\ a.out = before.out /\ a.bucket = before.bucket
    BY DEF Windows
  <2> HIDE DEF a
  <2> QED
    BY <1>2, <2>1, <2>2 DEF Remains
<1>3. CASE row.id # NoId
  <2> DEFINE done == SeenOrRecord(before.bucket, row.id)
             a == [done EXCEPT !.out = done.out \cup before.out]
  <2>1. AfterRow(before, row) = a
    BY <1>3 DEF AfterRow
  <2>2. row.id \in Ids
    BY <1>3 DEF Rows
  <2>3. /\ done = [bucket |-> done.bucket, seen |-> done.seen, out |-> done.out]
        /\ done.bucket \in Buckets /\ done.seen \in BOOLEAN /\ done.out \in SUBSET Ids
        /\ \A e : Holds(before.bucket, e) /\ e.expiresAt > now =>
             e.id \in done.out \/ Holds(done.bucket, e)
        /\ ~done.seen =>
             /\ \A e : Holds(before.bucket, e) /\ e.id = row.id => ~(e.expiresAt > now)
             /\ row.id \in done.out \/ Holds(done.bucket, Stamp(row.id, now))
    BY <1>1, <2>2, SeenOrRecordProperties
  <2> HIDE DEF done
  <2>4. /\ a \in Windows /\ a.out = done.out \cup before.out
        /\ a.bucket = done.bucket /\ a.seen = done.seen
    <3> DEFINE x == done.bucket
               y == done.seen
               z == done.out
    <3>1. done = [bucket |-> x, seen |-> y, out |-> z]
      BY <2>3
    <3>2. x \in Buckets /\ y \in BOOLEAN /\ z \in SUBSET Ids
      BY <2>3
    <3>3. a = [bucket |-> x, seen |-> y, out |-> z \cup before.out]
      <4>1. a = [done EXCEPT !.out = z \cup before.out]
        OBVIOUS
      <4> HIDE DEF x, y, z, a
      <4> QED
        BY <3>1, <4>1
    <3> HIDE DEF x, y, z
    <3>4. [bucket |-> x, seen |-> y, out |-> z \cup before.out] \in Windows
      BY <1>1, <3>2 DEF Windows
    <3> QED
      BY <3>3, <3>4 DEF x, y, z
  <2> HIDE DEF a
  <2> QED
    BY <2>1, <2>3, <2>4 DEF Remains
<1> QED
  BY <1>2, <1>3

\* What the rows of a request make of it: windows, of which each keeps what the
\* earlier ones had, and which has an entry of every id that was not seen.
LEMMA AfterRowsProperties ==
  ASSUME now \in Nat, NEW c, RowsOf(c) \in Seq(Rows), bucket[body[c].table] \in Buckets
  PROVE  LET after == AfterRows(c)
             rs == RowsOf(c)
         IN  /\ after[0] = Start(c)
             /\ \A n \in 0..Len(rs) : after[n] \in Windows
             /\ \A n \in 0..Len(rs) : \A m \in 0..n :
                  /\ after[m].out \subseteq after[n].out
                  /\ \A e : Holds(after[m].bucket, e) => Remains(after[n], e)
             /\ \A n \in 1..Len(rs) : rs[n].id # NoId /\ ~after[n].seen =>
                  /\ \A e : Holds(after[n - 1].bucket, e) /\ e.id = rs[n].id =>
                       ~(e.expiresAt > now)
                  /\ Remains(after[n], Stamp(rs[n].id, now))
<1> DEFINE after == AfterRows(c)
           rs == RowsOf(c)
           N == Len(rs)
           Kept(m, n) == /\ after[m].out \subseteq after[n].out
                         /\ \A e : Holds(after[m].bucket, e) => Remains(after[n], e)
           Good(n) == after[n] \in Windows /\ \A m \in 0..n : Kept(m, n)
           Bad == {n \in 0..N : ~Good(n)}
<1>1. N \in Nat /\ \A n \in 1..N : rs[n] \in Rows
  OBVIOUS
<1>2. after[0] = Start(c) /\ \A n \in 1..N : after[n] = AfterRow(after[n - 1], rs[n])
  BY AfterRowsRecursion
<1> HIDE DEF after, N, rs
<1>3. Start(c) \in Windows
  BY DEF Start, Windows
<1>4. Good(0)
  <2>1. Kept(0, 0)
    BY DEF Remains
  <2> QED
    BY <1>2, <1>3, <2>1
<1>5. ASSUME NEW n \in 1..N, after[n - 1] \in Windows
      PROVE  /\ after[n] \in Windows
             /\ Kept(n - 1, n)
             /\ rs[n].id # NoId /\ ~after[n].seen =>
                  /\ \A e : Holds(after[n - 1].bucket, e) /\ e.id = rs[n].id =>
                       ~(e.expiresAt > now)
                  /\ \/ rs[n].id \in after[n].out
                     \/ Holds(after[n].bucket, Stamp(rs[n].id, now))
  BY <1>1, <1>2, <1>5, AfterRowProperties
<1>6. Bad = {}
  <2> SUFFICES ASSUME Bad # {}
               PROVE  FALSE
    OBVIOUS
  <2>1. PICK k \in Bad : \A n \in Bad : k <= n
    <3>1. Bad \in SUBSET Nat
      BY <1>1
    <3> HIDE DEF Bad
    <3> QED
      BY <3>1, LeastNatural
  <2>2. k \in 0..N /\ ~Good(k) /\ k # 0
    BY <1>4, <2>1
  <2>3. k \in 1..N /\ k - 1 \in 0..N /\ ~(k <= k - 1) /\ k \in Nat
    BY <1>1, <2>2
  <2> HIDE DEF Good
  <2>4. Good(k - 1)
    BY <2>1, <2>3
  <2> USE DEF Good
  <2>5. after[k] \in Windows /\ Kept(k - 1, k)
    BY <1>5, <2>3, <2>4
  <2>6. ASSUME NEW m \in 0..k
        PROVE  Kept(m, k)
    <3>1. CASE m = k
      <4>1. Kept(k, k)
        BY DEF Remains
      <4> QED
        BY <3>1, <4>1
    <3>2. CASE m # k
      <4>1. m \in 0..(k - 1)
        BY <2>3, <3>2
      <4>2. Kept(m, k - 1)
        BY <2>4, <4>1
      <4> QED
        BY <2>5, <4>2 DEF Remains
    <3> QED
      BY <3>1, <3>2
  <2> QED
    BY <2>2, <2>5, <2>6
<1>7. \A n \in 0..N : Good(n)
  <2> HIDE DEF Good
  <2> QED
    BY <1>6
<1>8. \A n \in 1..N : n - 1 \in 0..N
  BY <1>1
<1>9. ASSUME NEW n \in 1..N, rs[n].id # NoId, ~after[n].seen
      PROVE  /\ \A e : Holds(after[n - 1].bucket, e) /\ e.id = rs[n].id =>
                  ~(e.expiresAt > now)
             /\ Remains(after[n], Stamp(rs[n].id, now))
  <2>1. after[n - 1] \in Windows
    BY <1>7, <1>8
  <2>2. \/ rs[n].id \in after[n].out
        \/ Holds(after[n].bucket, Stamp(rs[n].id, now))
    BY <1>5, <1>9, <2>1
  <2>3. Stamp(rs[n].id, now).id = rs[n].id
    BY DEF Stamp
  <2> QED
    BY <1>5, <1>9, <2>1, <2>2, <2>3 DEF Remains
<1> QED
  BY <1>2, <1>7, <1>9 DEF after, N, rs

(***************************************************************************)
(* What is stored, and what the windows know of it.                        *)
(***************************************************************************)
\* Rows of a call whose insertIds its window has taken.
Recorded(c) ==
  {i \in DOMAIN outcome[c] : outcome[c][i] # "duplicate" /\ RowsOf(c)[i].id # NoId}

\* What is stored are rows that are no duplicates.
StoredRows ==
  \A c \in Calls : \A i \in Nat :
    <<c, i>> \in Visible => i \in DOMAIN outcome[c] /\ outcome[c][i] # "duplicate"

\* The loop is at a row to insert, and there are no outcomes before there is one.
LoopRows ==
  \A c \in Calls :
    /\ pc[c] = "insert" => at[c] \in DOMAIN outcome[c] /\ outcome[c][at[c]] = "values"
    /\ pc[c] \in {"idle", "lookup", "create", "describe", "submit"} => outcome[c] = <<>>

Passed(c) == now - submitted[c] >= WindowMs

\* An id that was recorded is in the window of its table until it expires,
\* unless it has been thrown out.
WindowKeeps ==
  \A c \in Calls : \A i \in Recorded(c) :
    LET t == body[c].table
        id == RowsOf(c)[i].id
    IN  <<t, id>> \in evicted \/ Passed(c) \/ Holds(bucket[t], Stamp(id, submitted[c]))

\* Two rows with the same id have not both been recorded while it was there.
RecordedOnce ==
  \A c, d \in Calls : \A i \in Recorded(c), j \in Recorded(d) :
    /\ <<c, i>> # <<d, j>>
    /\ body[c].table = body[d].table
    /\ RowsOf(c)[i].id = RowsOf(d)[j].id
    => \/ submitted[c] - submitted[d] >= WindowMs
       \/ submitted[d] - submitted[c] >= WindowMs
       \/ <<body[c].table, RowsOf(c)[i].id>> \in evicted

Submitted == \A c \in Calls : submitted[c] <= now

WindowInv ==
  /\ TypeOK /\ WindowBounded /\ Submitted
  /\ StoredRows /\ LoopRows /\ WindowKeeps /\ RecordedOnce

\* The values behind the types.
LEMMA WindowValues ==
  ASSUME WindowInv
  PROVE  /\ now \in Nat /\ WindowMs \in Nat \ {0}
         /\ \A t \in Tables : bucket[t] \in Buckets
         /\ \A c \in Calls : /\ submitted[c] \in Nat /\ body[c].table \in Tables
                             /\ RowsOf(c) \in Seq(Rows) /\ outcome[c] \in Seq(Kinds)
<1>1. now \in Nat /\ \A c \in Calls : submitted[c] \in Nat /\ outcome[c] \in Seq(Kinds)
  BY InsertIdsAssumption DEF WindowInv, TypeOK
<1>2. \A c \in Calls : body[c] \in Body
  BY InsertAllAssumption DEF WindowInv, TypeOK
<1>3. \A c \in Calls : body[c].table \in Tables /\ RowsOf(c) \in Seq(Rows)
  BY <1>2 DEF Body, RowsOf
<1>4. \A t \in Tables : bucket[t] \in Seq(Entries)
  BY DEF WindowInv, TypeOK
<1>5. \A t \in Tables : Bounded(bucket[t])
  BY DEF WindowInv, WindowBounded, Bounded
<1> QED
  BY <1>1, <1>3, <1>4, <1>5, InsertIdsAssumption DEF Buckets

\* Time alone only lets entries expire.
LEMMA QuietWindow ==
  ASSUME WindowInv, UNCHANGED <<bucket, evicted, submitted, body>>,
         now' \in Nat, now <= now', \A c \in Calls : Recorded(c)' = Recorded(c)
  PROVE  WindowBounded' /\ Submitted' /\ WindowKeeps' /\ RecordedOnce'
<1>1. /\ WindowBounded /\ Submitted /\ WindowKeeps /\ RecordedOnce
      /\ now \in Nat /\ WindowMs \in Nat /\ \A c \in Calls : submitted[c] \in Nat
  BY WindowValues DEF WindowInv
<1>2. WindowBounded'
  BY <1>1 DEF WindowBounded
<1>3. Submitted'
  BY <1>1 DEF Submitted
<1>4. \A c \in Calls : Passed(c) => Passed(c)'
  BY <1>1 DEF Passed
<1>5. WindowKeeps'
  BY <1>1, <1>4 DEF WindowKeeps, RowsOf, Stamp, Holds
<1>6. RecordedOnce'
  BY <1>1 DEF RecordedOnce, RowsOf
<1> QED
  BY <1>2, <1>3, <1>5, <1>6

\* What encoding the rows of a request does to the windows and records.
LEMMA EncodeEffect ==
  ASSUME WindowInv, NEW c \in Calls, EncodeRows(c)
  PROVE  LET after == AfterRows(c)
             rs == RowsOf(c)
             last == after[Len(rs)]
             t == body[c].table
         IN  /\ UNCHANGED <<now, body>> /\ outcome[c] = <<>>
             /\ bucket' = [bucket EXCEPT ![t] = last.bucket]
             /\ evicted' = evicted \cup {<<t, x>> : x \in last.out}
             /\ submitted' = [submitted EXCEPT ![c] = now]
             /\ Recorded(c) = {}
             /\ Recorded(c)' = {i \in 1..Len(rs) : ~after[i].seen /\ rs[i].id # NoId}
             /\ \A d \in Calls \ {c} : Recorded(d)' = Recorded(d)
<1>1. outcome \in [Calls -> Seq(Kinds)] /\ outcome[c] = <<>>
  BY DEF WindowInv, TypeOK, LoopRows, EncodeRows
<1>2. RowsOf(c) \in Seq(Rows) /\ DOMAIN RowsOf(c) = 1..Len(RowsOf(c))
  BY WindowValues
<1>3. UNCHANGED <<now, body>> /\ outcome' = [outcome EXCEPT ![c] = Outcomes(c)]
  BY DEF EncodeRows
<1>4. DOMAIN Outcomes(c) = 1..Len(RowsOf(c))
      /\ \A i \in 1..Len(RowsOf(c)) : Outcomes(c)[i] = "duplicate" <=> AfterRows(c)[i].seen
  <2> DEFINE after == AfterRows(c)
  <2>1. Outcomes(c) = [i \in DOMAIN RowsOf(c) |->
                         IF after[i].seen THEN "duplicate"
                         ELSE IF RowsOf(c)[i].fate = "unencodable" THEN "error"
                         ELSE "values"]
    BY DEF Outcomes
  <2> HIDE DEF after
  <2>2. \A i \in 1..Len(RowsOf(c)) : Outcomes(c)[i] = "duplicate" <=> after[i].seen
    BY <1>2, <2>1
  <2> QED
    BY <1>2, <2>1, <2>2 DEF after
<1>5. outcome'[c] = Outcomes(c) /\ \A d \in Calls \ {c} : outcome'[d] = outcome[d]
  BY <1>1, <1>3
<1>6. \A d \in Calls : RowsOf(d)' = RowsOf(d)
  BY <1>3 DEF RowsOf
<1>7. Recorded(c)' = {i \in 1..Len(RowsOf(c)) : ~AfterRows(c)[i].seen /\ RowsOf(c)[i].id # NoId}
  BY <1>4, <1>5, <1>6 DEF Recorded
<1>8. Recorded(c) = {} /\ \A d \in Calls \ {c} : Recorded(d)' = Recorded(d)
  BY <1>1, <1>5, <1>6 DEF Recorded
<1> QED
  BY <1>1, <1>3, <1>7, <1>8 DEF EncodeRows

\* The rows of a request go through the window one after the other.
LEMMA EncodeWindow ==
  ASSUME WindowInv, NEW c \in Calls, EncodeRows(c)
  PROVE  /\ now' = now
         /\ bucket' \in [Tables -> Seq(Entries)] /\ evicted' \subseteq Tables \X Ids
         /\ submitted' \in [Calls -> 0..MaxTime]
         /\ WindowBounded' /\ Submitted' /\ WindowKeeps' /\ RecordedOnce'
<1> DEFINE after == AfterRows(c)
           rs == RowsOf(c)
           N == Len(rs)
           last == after[N]
           t == body[c].table
           ids == [i \in 1..N |-> rs[i].id]
           R == {i \in 1..N : ~after[i].seen /\ rs[i].id # NoId}
<1>1. /\ WindowBounded /\ Submitted /\ WindowKeeps /\ RecordedOnce /\ TypeOK
      /\ now \in Nat /\ WindowMs \in Nat \ {0} /\ t \in Tables
      /\ \A d \in Calls : submitted[d] \in Nat /\ body[d].table \in Tables
      /\ bucket \in [Tables -> Seq(Entries)] /\ evicted \subseteq Tables \X Ids
      /\ submitted \in [Calls -> 0..MaxTime] /\ now \in 0..MaxTime
  BY WindowValues DEF WindowInv, TypeOK
<1>2. /\ UNCHANGED <<now, body>>
      /\ bucket' = [bucket EXCEPT ![t] = last.bucket]
      /\ evicted' = evicted \cup {<<t, x>> : x \in last.out}
      /\ submitted' = [submitted EXCEPT ![c] = now]
      /\ Recorded(c)' = R
      /\ \A d \in Calls \ {c} : Recorded(d)' = Recorded(d)
  BY EncodeEffect
<1>3. N \in Nat /\ rs \in Seq(Rows) /\ bucket[t] \in Buckets
  BY WindowValues
<1>4. /\ after[0].bucket = bucket[t]
      /\ \A n \in 0..N : after[n] \in Windows
      /\ \A n \in 0..N : \A m \in 0..n :
           /\ after[m].out \subseteq after[n].out
           /\ \A e : Holds(after[m].bucket, e) => Remains(after[n], e)
      /\ \A n \in 1..N : rs[n].id # NoId /\ ~after[n].seen =>
           /\ \A e : Holds(after[n - 1].bucket, e) /\ e.id = rs[n].id =>
                ~(e.expiresAt > now)
           /\ Remains(after[n], Stamp(rs[n].id, now))
  <2>1. after[0] = Start(c)
    BY <1>1, <1>3, AfterRowsProperties
  <2>2. after[0].bucket = bucket[t]
    BY <2>1 DEF Start
  <2> QED
    BY <1>1, <1>3, <2>2, AfterRowsProperties
<1> HIDE DEF after, N
<1>5. last \in Windows
  BY <1>3, <1>4
<1>6. last.bucket \in Buckets /\ last.out \in SUBSET Ids
  BY <1>5 DEF Windows
<1> DEFINE Out(id) == <<t, id>> \in evicted'
<1>7. /\ bucket'[t] = last.bucket /\ \A u \in Tables \ {t} : bucket'[u] = bucket[u]
      /\ \A id \in last.out : Out(id)
      /\ evicted \subseteq evicted'
      /\ submitted'[c] = now /\ \A d \in Calls \ {c} : submitted'[d] = submitted[d]
      /\ \A d \in Calls : RowsOf(d)' = RowsOf(d)
  BY <1>1, <1>2 DEF RowsOf
<1>8. \A i \in R : /\ i \in 1..N /\ i \in Nat /\ i - 1 \in 0..N /\ i \in 0..N
                   /\ rs[i].id # NoId /\ ~after[i].seen
  BY <1>3
<1> HIDE DEF last, R, Out
\* An entry that was there when row i was taken had expired, or is thrown out.
<1>9. ASSUME NEW i \in R, NEW m \in 0..(i - 1), NEW e, Remains(after[m], e), e.id = rs[i].id
      PROVE  ~(e.expiresAt > now) \/ Out(rs[i].id)
  <2>1. i - 1 \in 0..N /\ N \in 0..N /\ m \in 0..N /\ m \in 0..(i - 1) /\ m \in Nat
    BY <1>3, <1>8, <1>9
  <2>2. SUFFICES ASSUME e.expiresAt > now, e.id \notin after[m].out
                 PROVE  Out(rs[i].id)
    <3>1. after[m].out \subseteq last.out
      BY <1>3, <1>4, <2>1 DEF last
    <3> QED
      BY <1>7, <1>9, <3>1
  <2>3. Holds(after[m].bucket, e)
    BY <1>9, <2>2 DEF Remains
  <2>4. e.id \in after[i - 1].out \/ Holds(after[i - 1].bucket, e)
    BY <1>4, <2>1, <2>2, <2>3 DEF Remains
  <2>5. ~Holds(after[i - 1].bucket, e)
    BY <1>4, <1>8, <1>9, <2>2
  <2>6. after[i - 1].out \subseteq last.out
    BY <1>3, <1>4, <2>1 DEF last
  <2> QED
    BY <1>7, <1>9, <2>4, <2>5, <2>6
\* What a row's window had is in the last one, or thrown out.
<1>10. ASSUME NEW m \in 0..N, NEW e, Remains(after[m], e), e.expiresAt > now
       PROVE  Out(e.id) \/ Holds(bucket'[t], e)
  <2>1. after[m].out \subseteq last.out /\ \A f : Holds(after[m].bucket, f) => Remains(last, f)
    <3>1. N \in 0..N /\ m \in 0..N
      BY <1>3
    <3> QED
      BY <1>4, <3>1 DEF last
  <2> QED
    BY <1>7, <1>10, <2>1 DEF Remains
<1>11. \A i \in R : Remains(after[i], Stamp(rs[i].id, now))
  BY <1>4, <1>8
<1>12. \A id, time : Stamp(id, time).id = id /\ Stamp(id, time).expiresAt = time + WindowMs
  BY DEF Stamp
<1>13. 0 \in 0..N /\ \A e : Holds(bucket[t], e) => Remains(after[0], e)
  BY <1>3, <1>4 DEF Remains
<1>14. bucket' \in [Tables -> Seq(Entries)] /\ evicted' \subseteq Tables \X Ids
  BY <1>1, <1>2, <1>6 DEF Buckets
<1>15. submitted' \in [Calls -> 0..MaxTime]
  BY <1>1, <1>2
<1>16. WindowBounded'
  <2>1. \A u \in Tables : Bounded(bucket'[u])
    BY <1>1, <1>6, <1>7 DEF Buckets, WindowBounded, Bounded
  <2> QED
    BY <2>1 DEF WindowBounded, Bounded
<1>17. Submitted'
  BY <1>1, <1>2, <1>7 DEF Submitted
<1>18. WindowKeeps'
  <2> SUFFICES ASSUME NEW d \in Calls, NEW i \in Recorded(d)'
               PROVE  LET u == body[d].table
                          id == RowsOf(d)[i].id
                      IN  \/ <<u, id>> \in evicted'
                          \/ now - submitted'[d] >= WindowMs
                          \/ Holds(bucket'[u], Stamp(id, submitted'[d]))
    BY <1>2, <1>7 DEF WindowKeeps, Passed, Holds, Stamp
  <2>1. CASE d = c
    <3>1. i \in R /\ now + WindowMs > now /\ i \in 0..N
      BY <1>1, <1>2, <1>8, <2>1
    <3>2. Out(rs[i].id) \/ Holds(bucket'[t], Stamp(rs[i].id, now))
      BY <1>10, <1>11, <1>12, <3>1
    <3> QED
      BY <1>7, <2>1, <3>2 DEF Out
  <2>2. CASE d # c /\ body[d].table # t
    <3>1. /\ i \in Recorded(d) /\ submitted'[d] = submitted[d]
          /\ bucket'[body[d].table] = bucket[body[d].table]
      BY <1>1, <1>2, <1>7, <2>2
    <3>2. \/ <<body[d].table, RowsOf(d)[i].id>> \in evicted
          \/ now - submitted[d] >= WindowMs
          \/ Holds(bucket[body[d].table], Stamp(RowsOf(d)[i].id, submitted[d]))
      BY <1>1, <3>1 DEF WindowKeeps, Passed
    <3> QED
      BY <1>7, <3>1, <3>2
  <2>3. CASE d # c /\ body[d].table = t
    <3> DEFINE id == RowsOf(d)[i].id
               e == Stamp(id, submitted[d])
    <3>1. \/ <<t, id>> \in evicted
          \/ now - submitted[d] >= WindowMs
          \/ Holds(bucket[t], e)
      BY <1>1, <1>2, <2>3 DEF WindowKeeps, Passed
    <3>2. e.id = id /\ e.expiresAt = submitted[d] + WindowMs
      BY <1>12
    <3> HIDE DEF e, id
    <3>3. Holds(bucket[t], e) => \/ ~(e.expiresAt > now)
                                 \/ Out(id) \/ Holds(bucket'[t], e)
      BY <1>10, <1>13, <3>2
    <3>4. ~(e.expiresAt > now) => now - submitted[d] >= WindowMs
      BY <1>1, <3>2
    <3>5. <<t, id>> \in evicted' \/ now - submitted[d] >= WindowMs \/ Holds(bucket'[t], e)
      BY <1>7, <3>1, <3>3, <3>4 DEF Out
    <3> QED
      BY <1>7, <2>3, <3>5 DEF e, id
  <2> QED
    BY <2>1, <2>2, <2>3
\* A row of the request and any other row with its id.
<1>19. ASSUME NEW i \in R, NEW d \in Calls, NEW j \in Recorded(d)', d # c \/ j # i,
              body[d].table = t, RowsOf(d)[j].id = rs[i].id
       PROVE  now - submitted'[d] >= WindowMs \/ Out(rs[i].id)
  <2>1. CASE d # c
    <3> DEFINE e == Stamp(rs[i].id, submitted[d])
    <3>1. \/ <<t, rs[i].id>> \in evicted
          \/ now - submitted[d] >= WindowMs
          \/ Holds(bucket[t], e)
      <4>1. j \in Recorded(d)
        BY <1>2, <1>19, <2>1
      <4>2. \/ <<t, RowsOf(d)[j].id>> \in evicted
            \/ now - submitted[d] >= WindowMs
            \/ Holds(bucket[t], Stamp(RowsOf(d)[j].id, submitted[d]))
        BY <1>1, <1>19, <4>1 DEF WindowKeeps, Passed
      <4> QED
        BY <1>19, <4>2
    <3>2. 0 \in 0..(i - 1) /\ Holds(bucket[t], e) => Remains(after[0], e)
      BY <1>8, <1>13
    <3>3. e.id = rs[i].id /\ e.expiresAt = submitted[d] + WindowMs
      BY <1>12
    <3> HIDE DEF e
    <3>4. 0 \in 0..(i - 1)
      BY <1>3, <1>8
    <3>5. Holds(bucket[t], e) => ~(e.expiresAt > now) \/ Out(rs[i].id)
      BY <1>9, <3>2, <3>3, <3>4
    <3>6. ~(e.expiresAt > now) => now - submitted[d] >= WindowMs
      BY <1>1, <3>3
    <3> QED
      BY <1>7, <2>1, <3>1, <3>5, <3>6 DEF Out
  <2>2. ASSUME NEW k \in R, NEW l \in R, k < l, rs[k].id = rs[l].id
        PROVE  Out(rs[l].id)
    <3>1. k \in 0..(l - 1) /\ now + WindowMs > now
      BY <1>1, <1>8, <2>2
    <3> QED
      BY <1>9, <1>11, <1>12, <2>2, <3>1
  <2>3. CASE d = c
    <3>1. j \in R /\ rs[j].id = rs[i].id /\ j # i
      BY <1>2, <1>19, <2>3
    <3>2. i < j \/ j < i
      BY <1>8, <3>1
    <3> QED
      BY <2>2, <3>1, <3>2
  <2> QED
    BY <2>1, <2>3
<1>20. RecordedOnce'
  <2> SUFFICES ASSUME NEW d \in Calls, NEW f \in Calls,
                      NEW i \in Recorded(d)', NEW j \in Recorded(f)',
                      <<d, i>> # <<f, j>>, body[d].table = body[f].table,
                      RowsOf(d)[i].id = RowsOf(f)[j].id
               PROVE  \/ submitted'[d] - submitted'[f] >= WindowMs
                      \/ submitted'[f] - submitted'[d] >= WindowMs
                      \/ <<body[d].table, RowsOf(d)[i].id>> \in evicted'
    BY <1>2, <1>7 DEF RecordedOnce
  <2>1. CASE d = c
    BY <1>2, <1>7, <1>19, <2>1 DEF Out
  <2>2. CASE d # c /\ f = c
    BY <1>2, <1>7, <1>19, <2>2 DEF Out
  <2>3. CASE d # c /\ f # c
    BY <1>1, <1>2, <1>7, <2>3 DEF RecordedOnce
  <2> QED
    BY <2>1, <2>2, <2>3
<1> QED
  BY <1>2, <1>14, <1>15, <1>16, <1>17, <1>18, <1>20

(***************************************************************************)
(* The steps.                                                              *)
(***************************************************************************)

\* What a statement does to what can be seen.
LEMMA StatementVisible ==
  /\ \A item : Execute(item) =>
       Visible' = Visible \cup {item} /\ UNCHANGED aborted /\ UNCHANGED owner
  /\ Throw => Visible' = Visible /\ UNCHANGED owner
  /\ \A who : OpenTransaction(who) => Visible' = Visible /\ owner' = who /\ UNCHANGED aborted
  /\ \A keep : EndTransaction(keep) =>
       Visible' \subseteq Visible /\ owner' = NoOne /\ aborted' = FALSE
<1>1. ASSUME NEW item, Execute(item)
      PROVE  Visible' = Visible \cup {item} /\ UNCHANGED aborted /\ UNCHANGED owner
  BY <1>1 DEF Execute, Visible
<1>2. Throw => Visible' = Visible /\ UNCHANGED owner
  BY DEF Throw, Visible
<1>3. \A who : OpenTransaction(who) => Visible' = Visible /\ owner' = who /\ UNCHANGED aborted
  BY DEF OpenTransaction, Visible
<1>4. \A keep : EndTransaction(keep) =>
        Visible' \subseteq Visible /\ owner' = NoOne /\ aborted' = FALSE
  BY DEF EndTransaction, Visible
<1> QED
  BY <1>1, <1>2, <1>3, <1>4

\* Where the loop goes on: to a row to insert.
LEMMA ProceedLoop ==
  ASSUME pc \in [Calls -> Labels], at \in [Calls -> Nat \ {0}],
         NEW c \in Calls, NEW o \in Seq(Kinds), NEW i \in Nat, Proceed(c, o, i)
  PROVE  /\ at' \in [Calls -> Nat \ {0}]
         /\ pc'[c] \in {"insert", "answered", "commit"}
         /\ pc'[c] = "insert" => at'[c] \in DOMAIN o /\ o[at'[c]] = "values" /\ at'[c] >= i
         /\ \A d \in Calls \ {c} : pc'[d] = pc[d] /\ at'[d] = at[d]
<1>1. PICK n \in Nat : DOMAIN o = 1..n
  OBVIOUS
<1>2. CASE \E k \in DOMAIN o :
             /\ k >= i /\ o[k] = "values"
             /\ at' = [at EXCEPT ![c] = k]
             /\ pc' = [pc EXCEPT ![c] = "insert"]
  BY <1>1, <1>2
<1>3. CASE /\ at' = at
           /\ pc' = [pc EXCEPT ![c] = IF body[c].skip THEN "answered" ELSE "commit"]
  BY <1>3
<1> QED
  BY <1>2, <1>3, ProceedCases

\* An operation that is not EncodeRows: it writes nothing but the row the loop
\* is at, and keeps what it knows of the rows.
Quiet(c) ==
  /\ UNCHANGED <<windowVars, submitted, body>>
  /\ aborted' \in BOOLEAN
  /\ at' \in [Calls -> Nat \ {0}]
  /\ \A item \in Visible' :
       \/ item \in Visible \cup {TemplateTable, TemplateMeta}
       \/ pc[c] = "insert" /\ item = <<c, at[c]>>
  /\ \A d \in Calls :
       /\ DOMAIN outcome'[d] = DOMAIN outcome[d]
       /\ \A i \in DOMAIN outcome[d] : outcome'[d][i] = "duplicate" <=> outcome[d][i] = "duplicate"
  /\ LoopRows'

\* Up to the rows, only the template's table and metadata are written.
LEMMA OpeningQuiet ==
  ASSUME WindowInv, NEW c \in Calls,
         ReadBase(c) \/ LookupTarget(c) \/ CreateTarget(c) \/ DescribeTarget(c)
  PROVE  Quiet(c)
<1>1. /\ pc \in [Calls -> Labels] /\ at \in [Calls -> Nat \ {0}] /\ aborted \in BOOLEAN
      /\ LoopRows
  BY DEF WindowInv, TypeOK
<1>2. /\ UNCHANGED <<windowVars, body, submitted, outcome, at>>
      /\ pc' = [pc EXCEPT ![c] = pc'[c]]
      /\ pc[c] \in {"idle", "lookup", "create", "describe"}
      /\ pc'[c] \in {"lookup", "create", "describe", "submit", "failed"}
  BY <1>1 DEF ReadBase, LookupTarget, CreateTarget, DescribeTarget, Fail, Goto
<1>3. \/ Throw \/ UNCHANGED dbVars
      \/ \E item \in {TemplateTable, TemplateMeta} : Execute(item)
  BY DEF ReadBase, LookupTarget, CreateTarget, DescribeTarget, Fail
<1>4. aborted' \in BOOLEAN
  BY <1>1, <1>3, StatementVisible DEF Throw, dbVars
<1>5. Visible' \subseteq Visible \cup {TemplateTable, TemplateMeta}
  BY <1>3, StatementVisible DEF dbVars, Visible
<1>6. LoopRows'
  <2>1. \A d \in Calls \ {c} : pc'[d] = pc[d]
    BY <1>1, <1>2
  <2> QED
    BY <1>1, <1>2, <2>1 DEF LoopRows
<1> QED
  BY <1>1, <1>2, <1>4, <1>5, <1>6 DEF Quiet

\* An operation that moves on in the loop and keeps the outcomes.
LEMMA LoopStep ==
  ASSUME WindowInv, NEW c \in Calls, NEW i \in Nat, UNCHANGED outcome,
         Proceed(c, outcome[c], i)
  PROVE  at' \in [Calls -> Nat \ {0}] /\ LoopRows'
<1>1. /\ pc \in [Calls -> Labels] /\ at \in [Calls -> Nat \ {0}] /\ LoopRows
      /\ outcome[c] \in Seq(Kinds)
  BY DEF WindowInv, TypeOK
<1>2. /\ at' \in [Calls -> Nat \ {0}]
      /\ pc'[c] \in {"insert", "answered", "commit"}
      /\ pc'[c] = "insert" => at'[c] \in DOMAIN outcome[c] /\ outcome[c][at'[c]] = "values"
      /\ \A d \in Calls \ {c} : pc'[d] = pc[d] /\ at'[d] = at[d]
  BY <1>1, ProceedLoop
<1> QED
  BY <1>1, <1>2 DEF LoopRows

\* BEGIN writes nothing.
LEMMA BeginQuiet ==
  ASSUME WindowInv, NEW c \in Calls, Begin(c)
  PROVE  Quiet(c)
<1>1. /\ pc \in [Calls -> Labels] /\ at \in [Calls -> Nat \ {0}] /\ aborted \in BOOLEAN
      /\ LoopRows
  BY DEF WindowInv, TypeOK
<1>2. UNCHANGED <<windowVars, body, submitted, outcome>>
  BY DEF Begin, Fail
<1>3. CASE OpenTransaction(c) /\ Proceed(c, outcome[c], 1)
  <2>1. at' \in [Calls -> Nat \ {0}] /\ LoopRows'
    BY <1>2, <1>3, LoopStep
  <2>2. Visible' = Visible /\ aborted' = aborted
    BY <1>3, StatementVisible
  <2> QED
    BY <1>1, <1>2, <2>1, <2>2 DEF Quiet
<1>4. CASE Fail(c)
  <2>1. UNCHANGED at /\ pc' = [pc EXCEPT ![c] = "failed"]
    BY <1>4 DEF Fail, Goto
  <2>2. LoopRows'
    <3>1. pc'[c] = "failed" /\ \A d \in Calls \ {c} : pc'[d] = pc[d]
      BY <1>1, <2>1
    <3> QED
      BY <1>1, <1>2, <2>1, <3>1 DEF LoopRows
  <2>3. Visible' = Visible /\ aborted' \in BOOLEAN
    BY <1>1, <1>4, StatementVisible DEF Fail, Throw
  <2> QED
    BY <1>1, <1>2, <2>1, <2>2, <2>3 DEF Quiet
<1> QED
  BY <1>3, <1>4 DEF Begin

\* The loop writes the row it is at.
LEMMA InsertQuiet ==
  ASSUME WindowInv, NEW c \in Calls, InsertRow(c)
  PROVE  Quiet(c)
<1>1. aborted \in BOOLEAN /\ at[c] + 1 \in Nat
  BY DEF WindowInv, TypeOK
<1>2. /\ UNCHANGED <<windowVars, body, submitted, outcome>>
      /\ pc[c] = "insert" /\ Execute(<<c, at[c]>>) /\ Proceed(c, outcome[c], at[c] + 1)
  BY DEF InsertRow
<1>3. at' \in [Calls -> Nat \ {0}] /\ LoopRows'
  BY <1>1, <1>2, LoopStep
<1>4. Visible' = Visible \cup {<<c, at[c]>>} /\ aborted' = aborted
  BY <1>2, StatementVisible
<1> QED
  BY <1>1, <1>2, <1>3, <1>4 DEF Quiet

\* A row that fails was to be inserted, and the loop goes on behind it.
LEMMA RowFailsQuiet ==
  ASSUME WindowInv, NEW c \in Calls, RowFails(c)
  PROVE  Quiet(c)
<1> DEFINE a == at[c]
           o == outcome[c]
<1>1. /\ aborted \in BOOLEAN /\ a + 1 \in Nat /\ a \in Nat /\ LoopRows /\ o \in Seq(Kinds)
      /\ pc \in [Calls -> Labels] /\ at \in [Calls -> Nat \ {0}]
      /\ outcome \in [Calls -> Seq(Kinds)]
  BY DEF WindowInv, TypeOK
<1>2. /\ UNCHANGED <<windowVars, body, submitted>>
      /\ pc[c] = "insert" /\ Throw /\ AfterError(c, o)
      /\ outcome' = [outcome EXCEPT ![c] = [o EXCEPT ![a] = "error"]]
  BY DEF RowFails
<1>3. a \in DOMAIN o /\ o[a] = "values"
  BY <1>1, <1>2 DEF LoopRows
<1>4. /\ outcome'[c] = [o EXCEPT ![a] = "error"]
      /\ \A d \in Calls \ {c} : outcome'[d] = outcome[d]
  BY <1>1, <1>2
<1>5. /\ DOMAIN outcome'[c] = DOMAIN o
      /\ \A i \in DOMAIN o : i # a => outcome'[c][i] = o[i]
      /\ outcome'[c][a] = "error"
  BY <1>3, <1>4
<1>6. Visible' = Visible /\ aborted' \in BOOLEAN
  BY <1>1, <1>2, StatementVisible DEF Throw
<1> HIDE DEF a, o
<1>7. /\ at' \in [Calls -> Nat \ {0}]
      /\ pc'[c] \in {"insert", "answered", "commit", "rollback"}
      /\ pc'[c] = "insert" => at'[c] \in DOMAIN o /\ o[at'[c]] = "values" /\ at'[c] # a
      /\ \A d \in Calls \ {c} : pc'[d] = pc[d] /\ at'[d] = at[d]
  <2>1. CASE body[c].skip
    <3>1. Proceed(c, o, a + 1)
      BY <1>2, <2>1 DEF AfterError, a
    <3>2. \A n \in Nat : ~(n >= a + 1 /\ n = a)
      BY <1>1
    <3>3. DOMAIN o \subseteq Nat
      BY <1>1
    <3> QED
      BY <1>1, <3>1, <3>2, <3>3, ProceedLoop
  <2>2. CASE ~body[c].skip
    BY <1>1, <1>2, <2>2 DEF AfterError, Goto
  <2> QED
    BY <2>1, <2>2
<1>8. LoopRows'
  <2> SUFFICES ASSUME NEW d \in Calls
               PROVE  /\ pc'[d] = "insert" => at'[d] \in DOMAIN outcome'[d]
                                              /\ outcome'[d][at'[d]] = "values"
                      /\ pc'[d] \in {"idle", "lookup", "create", "describe", "submit"}
                           => outcome'[d] = <<>>
    BY DEF LoopRows
  <2>1. CASE d = c
    BY <1>5, <1>7, <2>1
  <2>2. CASE d # c
    BY <1>1, <1>4, <1>7, <2>2 DEF LoopRows
  <2> QED
    BY <2>1, <2>2
<1>9. \A d \in Calls :
        /\ DOMAIN outcome'[d] = DOMAIN outcome[d]
        /\ \A i \in DOMAIN outcome[d] : outcome'[d][i] = "duplicate" <=> outcome[d][i] = "duplicate"
  BY <1>3, <1>4, <1>5 DEF o
<1> QED
  BY <1>2, <1>6, <1>7, <1>8, <1>9 DEF Quiet

\* COMMIT shows nothing new, ROLLBACK less.
LEMMA EndQuiet ==
  ASSUME WindowInv, NEW c \in Calls, Commit(c) \/ Rollback(c)
  PROVE  Quiet(c)
<1>1. /\ aborted \in BOOLEAN /\ LoopRows
      /\ pc \in [Calls -> Labels] /\ at \in [Calls -> Nat \ {0}]
  BY DEF WindowInv, TypeOK
<1>2. /\ UNCHANGED <<windowVars, body, submitted, outcome, at>>
      /\ \/ Throw
         \/ \E keep \in BOOLEAN : EndTransaction(keep)
  BY DEF Commit, Rollback, CommitKeeps
<1>3. pc' = [pc EXCEPT ![c] = "answered"] \/ pc' = [pc EXCEPT ![c] = "failed"]
  BY DEF Commit, Rollback, Goto
<1>4. pc'[c] \in {"answered", "failed"} /\ \A d \in Calls \ {c} : pc'[d] = pc[d]
  BY <1>1, <1>3
<1>5. Visible' \subseteq Visible /\ aborted' \in BOOLEAN
  BY <1>1, <1>2, StatementVisible DEF Throw
<1>6. LoopRows'
  BY <1>1, <1>2, <1>4 DEF LoopRows
<1> QED
  BY <1>1, <1>2, <1>5, <1>6 DEF Quiet

\* The operations but EncodeRows are quiet.
LEMMA StepQuiet ==
  ASSUME WindowInv, NEW c \in Calls, Step(c), ~EncodeRows(c)
  PROVE  Quiet(c)
BY OpeningQuiet, BeginQuiet, InsertQuiet, RowFailsQuiet, EndQuiet DEF Step

\* What a quiet operation keeps: all but the types that the frame has.
LEMMA QuietKeeps ==
  ASSUME WindowInv, Frame', NEW c \in Calls, Quiet(c), UNCHANGED scriptVars
  PROVE  WindowInv'
<1>1. TypeOK
  BY DEF WindowInv
<1>2. \A d \in Calls : RowsOf(d)' = RowsOf(d)
  BY DEF Quiet, RowsOf
<1>3. \A d \in Calls : Recorded(d)' = Recorded(d)
  BY <1>2 DEF Quiet, Recorded
<1>4. now \in Nat /\ now' = now /\ UNCHANGED <<bucket, evicted, submitted, body>>
  BY WindowValues DEF Quiet, windowVars
<1>5. now' \in Nat /\ now <= now'
  BY <1>4
<1>6. WindowBounded' /\ Submitted' /\ WindowKeeps' /\ RecordedOnce'
  BY <1>3, <1>4, <1>5, QuietWindow
<1>7. StoredRows'
  <2> SUFFICES ASSUME NEW d \in Calls, NEW i \in Nat, <<d, i>> \in Visible'
               PROVE  i \in DOMAIN outcome'[d] /\ outcome'[d][i] # "duplicate"
    BY DEF StoredRows
  <2>1. <<d, i>> # TemplateTable /\ <<d, i>> # TemplateMeta
    BY InsertAllAssumption DEF TemplateTable, TemplateMeta
  <2>2. <<d, i>> \in Visible \/ (pc[c] = "insert" /\ <<d, i>> = <<c, at[c]>>)
    BY <2>1 DEF Quiet
  <2>3. i \in DOMAIN outcome[d] /\ outcome[d][i] # "duplicate"
    BY <2>2 DEF WindowInv, StoredRows, LoopRows
  <2> QED
    BY <2>3 DEF Quiet
<1>8. TypeOK'
  <2>1. CallTypes'
    BY DEF Frame
  <2>2. Visible \subseteq (Calls \cup {Template}) \X Nat
    BY <1>1 DEF TypeOK, Visible
  <2>3. <<c, at[c]>> \in (Calls \cup {Template}) \X Nat
    BY <1>1 DEF TypeOK
  <2>4. {TemplateTable, TemplateMeta} \subseteq (Calls \cup {Template}) \X Nat
    BY DEF TemplateTable, TemplateMeta
  <2>5. (committed \cup work)' \subseteq (Calls \cup {Template}) \X Nat
    BY <2>2, <2>3, <2>4 DEF Quiet, Visible
  <2>6. /\ now' \in 0..MaxTime /\ bucket' \in [Tables -> Seq(Entries)]
        /\ evicted' \subseteq Tables \X Ids
        /\ submitted' \in [Calls -> 0..MaxTime]
        /\ disturbed' \in BOOLEAN /\ scripts' \in 0..MaxScripts
    BY <1>1, <1>4 DEF TypeOK, scriptVars
  <2> QED
    BY <2>1, <2>5, <2>6 DEF TypeOK, CallTypes, Quiet
<1> QED
  BY <1>6, <1>7, <1>8 DEF WindowInv, Quiet

\* Encoding the rows writes nothing.
LEMMA EncodeKeeps ==
  ASSUME WindowInv, Frame', NEW c \in Calls, EncodeRows(c)
  PROVE  WindowInv'
<1>1. /\ TypeOK /\ LoopRows /\ StoredRows /\ outcome[c] = <<>>
      /\ pc \in [Calls -> Labels] /\ at \in [Calls -> Nat \ {0}]
      /\ outcome \in [Calls -> Seq(Kinds)]
  BY DEF WindowInv, TypeOK, LoopRows, EncodeRows
<1>2. /\ UNCHANGED <<dbVars, scriptVars, body>>
      /\ outcome' = [outcome EXCEPT ![c] = Outcomes(c)]
      /\ \/ Proceed(c, Outcomes(c), 1)
         \/ UNCHANGED at /\ (Goto(c, "answered") \/ Goto(c, "begin"))
  BY DEF EncodeRows
<1>3. Outcomes(c) \in Seq(Kinds)
  BY <1>1, OutcomesTypes DEF TypeOK, CallTypes
<1>4. outcome'[c] = Outcomes(c) /\ \A d \in Calls \ {c} : outcome'[d] = outcome[d]
  BY <1>1, <1>2
<1>5. /\ now' = now
      /\ bucket' \in [Tables -> Seq(Entries)] /\ evicted' \subseteq Tables \X Ids
      /\ submitted' \in [Calls -> 0..MaxTime]
      /\ WindowBounded' /\ Submitted' /\ WindowKeeps' /\ RecordedOnce'
  BY EncodeWindow
<1>6. /\ at' \in [Calls -> Nat \ {0}]
      /\ pc'[c] \in {"insert", "answered", "commit", "begin"}
      /\ pc'[c] = "insert" => at'[c] \in DOMAIN Outcomes(c) /\ Outcomes(c)[at'[c]] = "values"
      /\ \A d \in Calls \ {c} : pc'[d] = pc[d] /\ at'[d] = at[d]
  <2>1. CASE Proceed(c, Outcomes(c), 1)
    BY <1>1, <1>3, <2>1, ProceedLoop
  <2>2. CASE UNCHANGED at /\ (Goto(c, "answered") \/ Goto(c, "begin"))
    BY <1>1, <2>2 DEF Goto
  <2> QED
    BY <1>2, <2>1, <2>2
<1>7. LoopRows'
  BY <1>1, <1>4, <1>6 DEF LoopRows
<1>8. StoredRows'
  BY <1>1, <1>2, <1>4 DEF StoredRows, Visible, dbVars
<1>9. TypeOK'
  BY <1>1, <1>2, <1>5, <1>6 DEF TypeOK, Frame, CallTypes, dbVars, scriptVars
<1> QED
  BY <1>5, <1>7, <1>8, <1>9 DEF WindowInv

\* Scripts, the clock and stuttering leave the calls alone.
LEMMA OutsideKeeps ==
  ASSUME WindowInv, Frame', ScriptStatement \/ ClockTick \/ UNCHANGED vars
  PROVE  WindowInv'
<1>1. TypeOK /\ StoredRows /\ LoopRows /\ now \in Nat
  BY WindowValues DEF WindowInv
<1>2. UNCHANGED callVars /\ UNCHANGED <<bucket, evicted>>
      /\ (now' = now \/ (now < MaxTime /\ now' = now + 1))
  BY DEF ScriptStatement, ClockTick, Tick, vars, windowVars
<1>3. now' \in Nat /\ now <= now' /\ now' \in 0..MaxTime
  BY <1>1, <1>2, InsertIdsAssumption DEF TypeOK
<1>4. \A d \in Calls : Recorded(d)' = Recorded(d)
  BY <1>2 DEF callVars, Recorded, RowsOf
<1>5. WindowBounded' /\ Submitted' /\ WindowKeeps' /\ RecordedOnce'
  BY <1>2, <1>3, <1>4, QuietWindow DEF callVars
<1>6. Visible' \subseteq Visible /\ aborted' \in BOOLEAN
  <2>1. CASE ScriptStatement
    BY <1>1, <2>1, StatementVisible DEF ScriptStatement, CommitKeeps, Throw, TypeOK
  <2>2. CASE ClockTick \/ UNCHANGED vars
    BY <1>1, <2>2 DEF ClockTick, vars, dbVars, Visible, TypeOK
  <2> QED
    BY <2>1, <2>2
<1>7. LoopRows' /\ StoredRows'
  BY <1>1, <1>2, <1>6 DEF LoopRows, StoredRows, callVars
<1>8. scripts' \in 0..MaxScripts
  <2>1. scripts' = scripts \/ (scripts < MaxScripts /\ scripts' = scripts + 1)
    BY DEF ScriptStatement, ClockTick, vars, scriptVars
  <2>2. scripts \in 0..MaxScripts /\ MaxScripts \in Nat
    BY <1>1, InsertAllAssumption DEF TypeOK
  <2> QED
    BY <2>1, <2>2
<1>9. disturbed' \in BOOLEAN
  BY <1>1 DEF ScriptStatement, ClockTick, vars, scriptVars, TypeOK
<1>10. TypeOK'
  <2>1. (committed \cup work)' \subseteq (Calls \cup {Template}) \X Nat
    BY <1>1, <1>6 DEF TypeOK, Visible
  <2> QED
    BY <1>1, <1>2, <1>3, <1>6, <1>8, <1>9, <2>1 DEF TypeOK, Frame, CallTypes, callVars
<1> QED
  BY <1>5, <1>7, <1>10 DEF WindowInv

\* Every step keeps the invariant.
LEMMA WindowNextKeeps ==
  ASSUME WindowInv, Frame, [Next]_vars
  PROVE  WindowInv'
<1>1. Frame'
  BY FrameNext
<1>2. ASSUME NEW c \in Calls, Step(c)
      PROVE  WindowInv'
  <2>1. UNCHANGED scriptVars
    BY <1>2 DEF Step, ReadBase, LookupTarget, CreateTarget, DescribeTarget, EncodeRows,
       Begin, InsertRow, RowFails, Commit, Rollback
  <2> QED
    BY <1>1, <1>2, <2>1, StepQuiet, QuietKeeps, EncodeKeeps
<1> QED
  BY <1>1, <1>2, OutsideKeeps DEF Next

\* It holds when the server starts: the windows are empty.
LEMMA WindowInvInit == Init => WindowInv
<1> SUFFICES ASSUME Init
             PROVE  WindowInv
  OBVIOUS
<1>1. /\ now = 0 /\ bucket = [t \in Tables |-> <<>>] /\ evicted = {}
      /\ MaxTime \in Nat /\ MaxScripts \in Nat /\ MaxPerTable \in Nat
  BY InsertIdsAssumption, InsertAllAssumption DEF Init, WindowInit
<1>2. \A t \in Tables : bucket[t] = <<>> /\ Len(bucket[t]) = 0 /\ DOMAIN bucket[t] = {}
  BY <1>1
<1>3. \A c \in Calls : /\ outcome[c] = <<>> /\ DOMAIN outcome[c] = {}
                       /\ submitted[c] = 0 /\ pc[c] = "idle"
  BY DEF Init
<1>4. TypeOK
  <2>1. now \in 0..MaxTime /\ scripts \in 0..MaxScripts
    BY <1>1 DEF Init
  <2>2. <<>> \in Seq(Entries) /\ <<>> \in Seq(Kinds)
    OBVIOUS
  <2>3. bucket \in [Tables -> Seq(Entries)] /\ outcome \in [Calls -> Seq(Kinds)]
    BY <1>1, <2>2 DEF Init
  <2>4. /\ pc \in [Calls -> Labels] /\ at \in [Calls -> Nat \ {0}]
        /\ submitted \in [Calls -> 0..MaxTime]
    BY <1>1 DEF Init, Labels
  <2> QED
    BY <1>1, <2>1, <2>3, <2>4 DEF Init, TypeOK
<1>5. WindowBounded
  BY <1>1, <1>2 DEF WindowBounded
<1>6. Submitted /\ LoopRows /\ WindowKeeps /\ RecordedOnce
  BY <1>1, <1>3 DEF Submitted, LoopRows, WindowKeeps, RecordedOnce, Recorded
<1>7. StoredRows
  BY DEF Init, StoredRows, Visible
<1> QED
  BY <1>4, <1>5, <1>6, <1>7 DEF WindowInv

\* So it holds always, with the frame that the types of the calls come from.
LEMMA WindowInvAlways == Spec => [](WindowInv /\ Frame)
<1>1. Init => WindowInv /\ Frame
  BY WindowInvInit, FrameInit
<1>2. WindowInv /\ Frame /\ [Next]_vars => (WindowInv /\ Frame)'
  BY WindowNextKeeps, FrameNext
<1> QED
  BY <1>1, <1>2, PTL DEF Spec

\* Every variable keeps to its type.
THEOREM TypeCorrect == Spec => []TypeOK
<1>1. WindowInv => TypeOK
  BY DEF WindowInv
<1> QED
  BY <1>1, WindowInvAlways, PTL

\* The window of a table stays within maxPerTable, with one entry per id,
\* whatever the rows of the requests and however late the sweep.
THEOREM WindowBoundedAlways == Spec => []WindowBounded
<1>1. WindowInv => WindowBounded
  BY DEF WindowInv
<1> QED
  BY <1>1, WindowInvAlways, PTL

\* A row is stored once per insertId and window, unless the window was too
\* small for the ids it saw.
THEOREM OncePerIdAlways == Spec => []OncePerId
<1>1. WindowInv => OncePerId
  <2> SUFFICES ASSUME WindowInv, NEW c \in Calls, NEW d \in Calls,
                      NEW i \in DOMAIN outcome[c], NEW j \in DOMAIN outcome[d],
                      {<<c, i>>, <<d, j>>} \subseteq committed,
                      <<c, i>> # <<d, j>>, body[c].table = body[d].table,
                      RowsOf(c)[i].id = RowsOf(d)[j].id, RowsOf(c)[i].id # NoId
               PROVE  \/ submitted[c] - submitted[d] >= WindowMs
                      \/ submitted[d] - submitted[c] >= WindowMs
                      \/ <<body[c].table, RowsOf(c)[i].id>> \in evicted
    BY DEF OncePerId
  <2>1. \A b \in Calls : DOMAIN outcome[b] \subseteq Nat
    BY WindowValues
  <2>2. i \in Recorded(c) /\ j \in Recorded(d)
    BY <2>1 DEF WindowInv, StoredRows, Recorded, Visible
  <2> QED
    BY <2>2 DEF WindowInv, RecordedOnce
<1> QED
  BY <1>1, WindowInvAlways, PTL
=============================================================================
