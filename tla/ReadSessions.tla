---------------------------- MODULE ReadSessions ----------------------------
(***************************************************************************)
(* The Storage Read API of the emulator: one read session, its streams and *)
(* the clients that read them, over a table that changes meanwhile         *)
(* (src/src/grpc-impl/bigQueryRead.ts and sessionStore.ts).                *)
(*                                                                         *)
(* A session is never changed after it was put into the store and the      *)
(* store only grows, so sessions do not influence each other and one is    *)
(* enough.  CreateReadSession and ReadRows look at the table in one query  *)
(* each and keep no other shared state, so each is the action its query    *)
(* is.  The rows here are those that satisfy the session's restriction;    *)
(* a row is its rowid, which is also its place in ORDER BY rowid.          *)
(***************************************************************************)
EXTENDS Integers, FiniteSets

CONSTANTS
  MaxRows,     \* bound: rows ever inserted
  Requests,    \* bound: values of max_stream_count, 0 when it is unset
  BatchSize    \* READ_ROWS_BATCH, the rows of one ReadRowsResponse

ASSUME SessionParametersAssumption ==
  /\ MaxRows \in Nat
  /\ Requests \subseteq Nat
  /\ BatchSize \in Nat \ {0}

VARIABLES
  rows,      \* the rows of the table
  inserted,  \* how many rows were ever inserted
  filtered,  \* filteredRowCount of the session
  count,     \* number of its streams, 0 before CreateReadSession
  snapshot,  \* history: the rows CreateReadSession counted
  intact,    \* history: no row was deleted since then
  got,       \* [i]: rows the reader of stream i has received
  pos,       \* [i]: how many rows it has received, its next offset
  ended,     \* the streams whose reader has reached the end
  answers    \* history: [i]: what complete reads of stream i returned

tableVars   == <<rows, inserted>>
sessionVars == <<filtered, count, snapshot, intact>>
readerVars  == <<got, pos, ended, answers>>
vars == <<tableVars, sessionVars, readerVars>>

-----------------------------------------------------------------------------
AtLeastOne(n) == IF n < 1 THEN 1 ELSE n
AtMost(n, m)  == IF n < m THEN n ELSE m

\* Mutant of StreamCount: no cap at the number of rows.
StreamCountUncapped(requested, n) == AtLeastOne(requested)

StreamCount(requested, n) ==
  AtLeastOne(AtMost(AtLeastOne(requested), AtLeastOne(n)))

\* Mutant of Start: rounds up where there is a remainder.
StartRounded(n, k, i) == (i * n + 1) \div k

\* First position of stream i of k over n rows, counted from 0.  Stream i ends
\* where stream i + 1 starts.
Start(n, k, i) == (i * n) \div k
Size(n, k, i)  == Start(n, k, i + 1) - Start(n, k, i)

\* Streams that exist, and those that ever may.
Streams == 0..(count - 1)
AnyStream == 0..MaxRows

\* Place of row r in ORDER BY rowid, counted from 1.
Rank(r) == Cardinality({q \in rows : q <= r})

\* ORDER BY rowid LIMIT limit OFFSET offset
Select(offset, limit) ==
  {r \in rows : offset < Rank(r) /\ Rank(r) <= offset + limit}

\* Mutants of Limit and Offset: the caller's offset is forgotten.
LimitWhole(i) == Size(filtered, count, i)
OffsetOfStream(i) == Start(filtered, count, i)

\* sliceSize and sliceOffset for a reader that goes on where it stopped.
Limit(i) ==
  LET left == Size(filtered, count, i) - pos[i]
  IN  IF left < 0 THEN 0 ELSE left
Offset(i) == Start(filtered, count, i) + pos[i]

\* Rows of the answer that arrive with its first m messages.
Arrived(i, m) ==
  {r \in Select(Offset(i), Limit(i)) : Rank(r) <= Offset(i) + m * BatchSize}

-----------------------------------------------------------------------------
Init ==
  /\ rows = {}
  /\ inserted = 0
  /\ filtered = 0
  /\ count = 0
  /\ snapshot = {}
  /\ intact = TRUE
  /\ got = [i \in AnyStream |-> {}]
  /\ pos = [i \in AnyStream |-> 0]
  /\ ended = {}
  /\ answers = [i \in AnyStream |-> {}]

(***************************************************************************)
(* Writers of the table: DuckDB gives a new row a rowid above all others.  *)
(***************************************************************************)
Insert ==
  /\ inserted < MaxRows
  /\ inserted' = inserted + 1
  /\ rows' = rows \cup {inserted + 1}
  /\ UNCHANGED <<sessionVars, readerVars>>

Delete(r) ==
  /\ rows' = rows \ {r}
  /\ intact' = FALSE
  /\ UNCHANGED <<inserted, filtered, count, snapshot, readerVars>>

(***************************************************************************)
(* CreateReadSession: the slices come from the count of the rows.          *)
(***************************************************************************)
CreateReadSession(requested) ==
  /\ count = 0
  /\ filtered' = Cardinality(rows)
  /\ count' = StreamCount(requested, Cardinality(rows))
  /\ snapshot' = rows
  /\ intact' = TRUE
  /\ UNCHANGED <<tableVars, readerVars>>

(***************************************************************************)
(* ReadRows.  The reader asks for what it has not received yet; m messages *)
(* reach it before the connection breaks, or all of them and the end.      *)
(***************************************************************************)
Receive(i, part) ==
  /\ got' = [got EXCEPT ![i] = @ \cup part]
  /\ pos' = [pos EXCEPT ![i] = @ + Cardinality(part)]
  /\ UNCHANGED <<tableVars, sessionVars>>

ReadRowsCut(i, m) ==
  /\ i \in Streams \ ended
  /\ Receive(i, Arrived(i, m))
  /\ UNCHANGED <<ended, answers>>

ReadRows(i) ==
  /\ i \in Streams \ ended
  /\ Receive(i, Select(Offset(i), Limit(i)))
  /\ ended' = ended \cup {i}
  /\ answers' = [answers EXCEPT ![i] = @ \cup {got'[i]}]

\* Reading stream i to its end, in one call or several, always gave the same.
SameRows(i) == \A a, b \in answers[i] : a = b

\* The stream is read again from its beginning.  Bound: not after reads of it
\* have differed.
Restart(i) ==
  /\ i \in Streams
  /\ SameRows(i)
  /\ got' = [got EXCEPT ![i] = {}]
  /\ pos' = [pos EXCEPT ![i] = 0]
  /\ ended' = ended \ {i}
  /\ UNCHANGED <<tableVars, sessionVars, answers>>

Next ==
  \/ Insert
  \/ \E r \in rows : Delete(r)
  \/ \E requested \in Requests : CreateReadSession(requested)
  \/ \E i \in AnyStream :
       \/ \E m \in 1..MaxRows : ReadRowsCut(i, m)
       \/ ReadRows(i)
       \/ Restart(i)

Spec == Init /\ [][Next]_vars
-----------------------------------------------------------------------------
(***************************************************************************)
(* Properties.                                                             *)
(***************************************************************************)
SessionTypeOK ==
  /\ rows \in SUBSET (1..MaxRows)
  /\ inserted \in 0..MaxRows
  /\ filtered \in 0..MaxRows
  /\ count \in 0..(MaxRows + 1)
  /\ snapshot \in SUBSET (1..MaxRows)
  /\ intact \in BOOLEAN
  /\ got \in [AnyStream -> SUBSET (1..MaxRows)]
  /\ pos \in [AnyStream -> Nat]
  /\ ended \in SUBSET AnyStream
  /\ answers \in [AnyStream -> SUBSET SUBSET (1..MaxRows)]

\* The comment in readRowsHandler: slices do not overlap.  No row reaches the
\* readers twice, neither over two streams nor over the calls with which one
\* of them resumes after broken connections, while others append to the table.
NonOverlapping ==
  intact => \A i \in Streams :
    /\ Cardinality(got[i]) = pos[i]
    /\ \A j \in Streams \ {i} : got[i] \cap got[j] = {}

\* When all streams are read to their end, the readers have together received
\* the rows the table had when the session was created, and no others.
Complete ==
  intact /\ count > 0 /\ Streams \subseteq ended =>
    UNION {got[i] : i \in Streams} = snapshot

\* createReadSessionHandler: "we never emit empty trailing slices", and also no
\* other empty ones, unless there are no rows at all.
NoEmptySlice ==
  filtered > 0 => \A i \in Streams : Size(filtered, count, i) >= 1

\* Whatever is inserted and deleted, the reader of a stream never receives more
\* rows than its slice has, so that the parts of readers add up to at most the
\* rows the session was created over.
WithinSlice == \A i \in Streams : pos[i] <= Size(filtered, count, i)

\* Whoever reads a stream to its end again gets the same rows, as long as
\* others only append.
RepeatableWhileIntact == intact => \A i \in AnyStream : SameRows(i)

\* The comment on tableModifiers: "Reads remain repeatable for the session's
\* lifetime", without a condition.
Repeatable == \A i \in AnyStream : SameRows(i)
=============================================================================
