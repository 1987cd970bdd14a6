------------------------- MODULE ReadSessionsProofs -------------------------
(***************************************************************************)
(* Theorems about ReadSessions: how slices divide the rows, for every      *)
(* number of rows and streams, and what readers get of a changing table.   *)
(***************************************************************************)
EXTENDS ReadSessions, FiniteSetTheorems, TLAPS

(***************************************************************************)
(* Integer division.                                                       *)
(***************************************************************************)
LEMMA DivBounds ==
  ASSUME NEW a \in Nat, NEW k \in Nat \ {0}
  PROVE  /\ a \div k \in Nat
         /\ k * (a \div k) <= a
         /\ a < k * (a \div k) + k
OBVIOUS

LEMMA Bracket ==
  ASSUME NEW a \in Nat, NEW b \in Nat, NEW k \in Nat \ {0},
         k * a < k * b + k
  PROVE  a <= b
OBVIOUS

LEMMA DivMonotone ==
  ASSUME NEW a \in Nat, NEW b \in Nat, NEW k \in Nat \ {0}, a <= b
  PROVE  a \div k <= b \div k
<1>1. k * (a \div k) <= a /\ b < k * (b \div k) + k /\ a \div k \in Nat /\ b \div k \in Nat
  BY DivBounds
<1> DEFINE x == a \div k
           y == b \div k
<1>2. x \in Nat /\ y \in Nat /\ k * x \in Nat /\ k * y \in Nat
  BY <1>1
<1>3. k * x < k * y + k
  BY <1>1, <1>2
<1> HIDE DEF x, y
<1>4. x <= y
  BY <1>2, <1>3, Bracket
<1> QED
  BY <1>4 DEF x, y

\* Multiples of k divide exactly.
LEMMA DivExact ==
  ASSUME NEW n \in Nat, NEW k \in Nat \ {0}
  PROVE  (k * n) \div k = n
OBVIOUS

(***************************************************************************)
(* The slices of a session over n rows with k streams.                     *)
(***************************************************************************)

\* They begin at 0, end at n and follow one another.
THEOREM SlicesFollow ==
  ASSUME NEW n \in Nat, NEW k \in Nat \ {0}
  PROVE  /\ Start(n, k, 0) = 0
         /\ Start(n, k, k) = n
         /\ \A i \in 0..k : Start(n, k, i) \in 0..n
         /\ \A i, j \in 0..k : i <= j => Start(n, k, i) <= Start(n, k, j)
<1>1. Start(n, k, 0) = 0 /\ Start(n, k, k) = n
  BY DivExact, 0 * n = 0 DEF Start
<1>2. ASSUME NEW i \in 0..k, NEW j \in 0..k, i <= j
      PROVE  Start(n, k, i) <= Start(n, k, j)
  <2>1. i * n \in Nat /\ j * n \in Nat /\ i * n <= j * n
    BY <1>2
  <2> QED
    BY <2>1, DivMonotone DEF Start
<1>3. ASSUME NEW i \in 0..k
      PROVE  Start(n, k, i) \in 0..n
  <2>1. i * n \in Nat
    OBVIOUS
  <2>2. Start(n, k, i) \in Nat
    BY <2>1, DivBounds DEF Start
  <2>3. Start(n, k, i) <= Start(n, k, k)
    BY <1>2
  <2> QED
    BY <1>1, <2>2, <2>3
<1> QED
  BY <1>1, <1>2, <1>3

\* Every position is in one of them.
THEOREM SlicesCover ==
  ASSUME NEW n \in Nat, NEW k \in Nat \ {0}, NEW p \in 1..n
  PROVE  \E i \in 0..(k - 1) : Start(n, k, i) < p /\ p <= Start(n, k, i + 1)
<1> DEFINE i == (p * k - 1) \div n
<1>1. n \in Nat \ {0} /\ p * k \in Nat /\ p * k >= 1 /\ p * k <= n * k /\ p * k - 1 \in Nat
  OBVIOUS
<1>2. i \in Nat /\ n * i <= p * k - 1 /\ p * k - 1 < n * i + n
  BY <1>1, DivBounds
<1> HIDE DEF i
<1>3. n * i < n * k
  BY <1>1, <1>2
<1>4. i < k
  BY <1>1, <1>2, <1>3
<1>5. i \in 0..(k - 1)
  BY <1>2, <1>4
<1>6. i * n \in Nat /\ (i + 1) * n \in Nat /\ i * n < k * p /\ k * p <= (i + 1) * n
  BY <1>1, <1>2
<1>7. Start(n, k, i) < p
  <2> DEFINE q == Start(n, k, i)
  <2>1. q \in Nat /\ k * q <= i * n
    BY <1>6, DivBounds DEF Start
  <2> HIDE DEF q
  <2>2. k * q < k * p
    BY <2>1, <1>6
  <2>3. q < p
    BY <2>1, <2>2
  <2> QED
    BY <2>3 DEF q
<1>8. p <= Start(n, k, i + 1)
  <2> DEFINE q == Start(n, k, i + 1)
  <2>1. q \in Nat /\ (i + 1) * n < k * q + k
    BY <1>6, DivBounds DEF Start
  <2> HIDE DEF q
  <2>2. k * p < k * q + k
    BY <2>1, <1>6
  <2>3. p <= q
    BY <2>1, <2>2, Bracket
  <2> QED
    BY <2>3 DEF q
<1> QED
  BY <1>5, <1>7, <1>8

\* None is empty when there are at least as many rows as streams.
LEMMA SlicesNonempty ==
  ASSUME NEW n \in Nat, NEW k \in Nat \ {0}, k <= n, NEW i \in 0..(k - 1)
  PROVE  Size(n, k, i) >= 1
<1> DEFINE q == Start(n, k, i)
<1>1. i * n \in Nat /\ (i + 1) * n \in Nat /\ (i + 1) * n = i * n + n
  OBVIOUS
<1>2. q \in Nat /\ k * q <= i * n
  BY <1>1, DivBounds DEF Start
<1>3. (i + 1) * n < k * Start(n, k, i + 1) + k /\ Start(n, k, i + 1) \in Nat
  BY <1>1, DivBounds DEF Start
<1> HIDE DEF q
<1>4. k * (q + 1) = k * q + k
  BY <1>2
<1>5. k * (q + 1) < k * Start(n, k, i + 1) + k
  BY <1>1, <1>2, <1>3, <1>4
<1>6. q + 1 <= Start(n, k, i + 1)
  BY <1>2, <1>3, <1>5, Bracket
<1> QED
  BY <1>2, <1>3, <1>6 DEF Size, q

(***************************************************************************)
(* What CreateReadSession and ReadRows answer.                             *)
(***************************************************************************)

\* StreamCount is at least one and, unless there are no rows, at most their
\* number.
LEMMA StreamCountBounds ==
  ASSUME NEW r \in Nat, NEW n \in Nat
  PROVE  /\ StreamCount(r, n) \in 1..(n + 1)
         /\ n > 0 => StreamCount(r, n) <= n
BY DEF StreamCount, AtLeastOne, AtMost

\* Sets of rows are finite.
LEMMA RowSets ==
  ASSUME NEW S \in SUBSET (1..MaxRows)
  PROVE  IsFiniteSet(S) /\ Cardinality(S) \in 0..MaxRows
<1>1. MaxRows \in Nat /\ IsFiniteSet(1..MaxRows) /\ Cardinality(1..MaxRows) = MaxRows
  BY SessionParametersAssumption, FS_Interval
<1>2. IsFiniteSet(S) /\ Cardinality(S) <= MaxRows
  BY <1>1, FS_Subset
<1>3. Cardinality(S) \in Nat
  BY <1>2, FS_CardinalityType
<1> QED
  BY <1>1, <1>2, <1>3

(***************************************************************************)
(* Type correctness, and no empty slices: whatever happens to the table.   *)
(***************************************************************************)
CountOK == filtered > 0 => count <= filtered

LEMMA SessionTypeInit == Init => SessionTypeOK /\ CountOK
BY SessionParametersAssumption DEF Init, SessionTypeOK, CountOK, AnyStream

LEMMA SessionTypeNext ==
  SessionTypeOK /\ CountOK /\ [Next]_vars => SessionTypeOK' /\ CountOK'
<1> SUFFICES ASSUME SessionTypeOK, CountOK, [Next]_vars
             PROVE  SessionTypeOK' /\ CountOK'
  OBVIOUS
<1> USE SessionParametersAssumption
<1>1. CASE Insert
  BY <1>1 DEF Insert, SessionTypeOK, CountOK, sessionVars, readerVars
<1>2. ASSUME NEW r \in rows, Delete(r)
      PROVE  SessionTypeOK' /\ CountOK'
  BY <1>2 DEF Delete, SessionTypeOK, CountOK, readerVars
<1>3. ASSUME NEW requested \in Requests, CreateReadSession(requested)
      PROVE  SessionTypeOK' /\ CountOK'
  <2>1. Cardinality(rows) \in 0..MaxRows /\ Cardinality(rows) \in Nat
    BY RowSets DEF SessionTypeOK
  <2>2. requested \in Nat
    OBVIOUS
  <2>3. /\ StreamCount(requested, Cardinality(rows)) \in 1..(Cardinality(rows) + 1)
        /\ Cardinality(rows) > 0
             => StreamCount(requested, Cardinality(rows)) <= Cardinality(rows)
    BY ONLY <2>1, <2>2, StreamCountBounds
  <2> QED
    BY <1>3, <2>1, <2>3
    DEF CreateReadSession, SessionTypeOK, CountOK, tableVars, readerVars
<1>4. ASSUME NEW i \in AnyStream, NEW part \in SUBSET rows, Receive(i, part)
      PROVE  /\ got' \in [AnyStream -> SUBSET (1..MaxRows)]
             /\ pos' \in [AnyStream -> Nat]
             /\ UNCHANGED <<tableVars, sessionVars>>
             /\ got'[i] \in SUBSET (1..MaxRows)
  <2>1. part \in SUBSET (1..MaxRows) /\ Cardinality(part) \in Nat
    BY RowSets DEF SessionTypeOK
  <2>2. /\ got' = [got EXCEPT ![i] = got[i] \cup part]
        /\ pos' = [pos EXCEPT ![i] = pos[i] + Cardinality(part)]
        /\ UNCHANGED <<tableVars, sessionVars>>
    BY <1>4 DEF Receive
  <2>3. got \in [AnyStream -> SUBSET (1..MaxRows)] /\ pos \in [AnyStream -> Nat]
    BY DEF SessionTypeOK
  <2>4. got[i] \in SUBSET (1..MaxRows) /\ pos[i] \in Nat
    BY <2>3
  <2>5. got[i] \cup part \in SUBSET (1..MaxRows)
    BY ONLY <2>1, <2>4, Zenon
  <2>6. pos[i] + Cardinality(part) \in Nat
    BY ONLY <2>1, <2>4, SMT
  <2> QED
    BY <2>2, <2>3, <2>5, <2>6
<1>5. ASSUME NEW i \in AnyStream, NEW m \in 1..MaxRows, ReadRowsCut(i, m)
      PROVE  SessionTypeOK' /\ CountOK'
  <2>1. Arrived(i, m) \in SUBSET rows
    BY DEF Arrived, Select
  <2> QED
    BY <1>4, <1>5, <2>1
    DEF ReadRowsCut, SessionTypeOK, CountOK, tableVars, sessionVars
<1>6. ASSUME NEW i \in AnyStream, ReadRows(i)
      PROVE  SessionTypeOK' /\ CountOK'
  <2>1. Select(Offset(i), Limit(i)) \in SUBSET rows
    BY DEF Select
  <2>2. /\ got' \in [AnyStream -> SUBSET (1..MaxRows)]
        /\ pos' \in [AnyStream -> Nat]
        /\ UNCHANGED <<tableVars, sessionVars>>
        /\ got'[i] \in SUBSET (1..MaxRows)
    BY <1>4, <1>6, <2>1 DEF ReadRows
  <2>3. answers' \in [AnyStream -> SUBSET SUBSET (1..MaxRows)]
    BY <1>6, <2>2 DEF ReadRows, SessionTypeOK
  <2>4. ended' \in SUBSET AnyStream
    BY <1>6 DEF ReadRows, SessionTypeOK
  <2> QED
    BY <2>2, <2>3, <2>4 DEF SessionTypeOK, CountOK, tableVars, sessionVars
<1>7. ASSUME NEW i \in AnyStream, Restart(i)
      PROVE  SessionTypeOK' /\ CountOK'
  BY <1>7 DEF Restart, SessionTypeOK, CountOK, tableVars, sessionVars
<1>8. CASE UNCHANGED vars
  BY <1>8 DEF vars, SessionTypeOK, CountOK, tableVars, sessionVars, readerVars
<1> QED
  BY <1>1, <1>2, <1>3, <1>5, <1>6, <1>7, <1>8 DEF Next

\* The types of the table, the session and its readers, deletions included.
THEOREM SessionTypeCorrect == Spec => []SessionTypeOK
<1>1. SessionTypeOK /\ CountOK => SessionTypeOK
  OBVIOUS
<1> QED
  BY <1>1, SessionTypeInit, SessionTypeNext, PTL DEF Spec

\* No stream of a session is empty unless there are no rows, whatever number
\* of streams was asked for.
THEOREM NoEmptySliceAlways == Spec => []NoEmptySlice
<1>1. SessionTypeOK /\ CountOK => NoEmptySlice
  <2> SUFFICES ASSUME SessionTypeOK, CountOK, filtered > 0, NEW i \in Streams
               PROVE  Size(filtered, count, i) >= 1
    BY DEF NoEmptySlice
  <2>1. filtered \in Nat /\ count \in Nat \ {0} /\ count <= filtered /\ i \in 0..(count - 1)
    BY SessionParametersAssumption DEF SessionTypeOK, CountOK, Streams
  <2> QED
    BY <2>1, SlicesNonempty
<1> QED
  BY <1>1, SessionTypeInit, SessionTypeNext, PTL DEF Spec

(***************************************************************************)
(* Deletions included, no reader receives more rows than its slice has.    *)
(***************************************************************************)

\* Different rows have different places.
LEMMA RankInjective ==
  ASSUME SessionTypeOK, NEW r \in rows, NEW q \in rows, r < q
  PROVE  Rank(r) \in Nat /\ Rank(q) \in Nat /\ Rank(r) < Rank(q)
<1> DEFINE below(x) == {p \in rows : p <= x}
<1>1. below(r) \in SUBSET (1..MaxRows) /\ below(q) \in SUBSET (1..MaxRows)
  BY DEF SessionTypeOK
<1>2. rows \in SUBSET Int
  BY SessionParametersAssumption DEF SessionTypeOK
<1>3. below(r) \in SUBSET below(q) /\ q \in below(q) /\ q \notin below(r)
  <2>1. r \in Int /\ q \in Int /\ ~ q <= r
    BY <1>2
  <2>2. ASSUME NEW p \in rows, p <= r
        PROVE  p <= q
    <3>1. p \in Int
      BY <1>2
    <3> QED
      BY <2>1, <2>2, <3>1
  <2>3. q <= q
    BY <2>1
  <2> QED
    BY <2>1, <2>2, <2>3
<1> HIDE DEF below
<1>4. /\ IsFiniteSet(below(q))
      /\ Cardinality(below(r)) \in Nat /\ Cardinality(below(q)) \in Nat
  BY <1>1, RowSets
<1>5. /\ Cardinality(below(r)) <= Cardinality(below(q))
      /\ Cardinality(below(r)) # Cardinality(below(q))
  BY <1>3, <1>4, FS_Subset
<1>6. Cardinality(below(r)) < Cardinality(below(q))
  BY <1>4, <1>5
<1> QED
  BY <1>4, <1>6 DEF Rank, below

\* LIMIT: a query returns at most so many rows.
LEMMA SelectWithinLimit ==
  ASSUME SessionTypeOK, NEW offset \in Nat, NEW limit \in Nat
  PROVE  Cardinality(Select(offset, limit)) <= limit
<1> DEFINE S == Select(offset, limit)
           T == (offset + 1)..(offset + limit)
           place == [r \in S |-> Rank(r)]
<1>1. IsFiniteSet(S) /\ Cardinality(S) \in Nat
  BY RowSets DEF Select, SessionTypeOK
<1>2. IsFiniteSet(T) /\ Cardinality(T) = limit
  <2>1. offset + 1 \in Int /\ offset + limit \in Int
    OBVIOUS
  <2>2. /\ IsFiniteSet((offset + 1)..(offset + limit))
        /\ Cardinality((offset + 1)..(offset + limit))
             = IF offset + 1 > offset + limit THEN 0 ELSE (offset + limit) - (offset + 1) + 1
    BY ONLY <2>1, FS_Interval
  <2> QED
    BY <2>2
<1>3. ASSUME NEW r \in rows PROVE Rank(r) \in Nat
  BY RowSets DEF Rank, SessionTypeOK
<1>4. \A r \in S : Rank(r) \in T
  BY <1>3 DEF Select
<1>5. \A r, q \in S : r # q => Rank(r) # Rank(q)
  <2> SUFFICES ASSUME NEW r \in S, NEW q \in S, r # q
               PROVE  Rank(r) # Rank(q)
    OBVIOUS
  <2>1. r \in rows /\ q \in rows /\ r \in Int /\ q \in Int
    BY SessionParametersAssumption DEF Select, SessionTypeOK
  <2>2. CASE r < q
    <3>1. Rank(r) \in Nat /\ Rank(q) \in Nat /\ Rank(r) < Rank(q)
      BY <2>1, <2>2, RankInjective
    <3> QED
      BY <3>1
  <2>3. CASE q < r
    <3>1. Rank(r) \in Nat /\ Rank(q) \in Nat /\ Rank(q) < Rank(r)
      BY <2>1, <2>3, RankInjective
    <3> QED
      BY <3>1
  <2> QED
    BY <2>1, <2>2, <2>3
<1> HIDE DEF S, T
<1>6. place \in [S -> T] /\ \A r, q \in S : r # q => place[r] # place[q]
  BY <1>4, <1>5
<1> HIDE DEF place
<1>7. ~ Cardinality(T) < Cardinality(S)
  BY <1>1, <1>2, <1>6, FS_PigeonHole
<1> QED
  BY <1>1, <1>2, <1>7 DEF S

WithinInv ==
  /\ SessionTypeOK
  /\ CountOK
  /\ WithinSlice
  /\ count = 0 => \A i \in AnyStream : pos[i] = 0
  /\ \A i \in AnyStream \ Streams : pos[i] = 0

\* A reader that receives part of the answer stays within its slice.
LEMMA WithinReceive ==
  ASSUME WithinInv, NEW i \in AnyStream, i \in Streams,
         NEW part \in SUBSET Select(Offset(i), Limit(i)),
         Receive(i, part)
  PROVE  /\ pos'[i] <= Size(filtered, count, i)
         /\ \A j \in AnyStream \ {i} : pos'[j] = pos[j]
         /\ UNCHANGED <<filtered, count>>
<1>1. /\ filtered \in Nat /\ count \in Nat \ {0} /\ i \in 0..count /\ i + 1 \in 0..count
      /\ pos \in [AnyStream -> Nat]
  BY SessionParametersAssumption DEF WithinInv, SessionTypeOK, Streams
<1>2. Start(filtered, count, i) \in Nat /\ Start(filtered, count, i + 1) \in Nat
  BY <1>1, SlicesFollow
<1>3. pos[i] \in Nat /\ pos[i] <= Size(filtered, count, i) /\ Size(filtered, count, i) \in Int
  BY <1>1, <1>2 DEF WithinInv, WithinSlice, Size
<1>4. Offset(i) \in Nat /\ Limit(i) \in Nat /\ Limit(i) = Size(filtered, count, i) - pos[i]
  BY <1>2, <1>3 DEF Offset, Limit
<1>5. Cardinality(Select(Offset(i), Limit(i))) <= Limit(i)
  BY <1>4, SelectWithinLimit DEF WithinInv
<1>6. Select(Offset(i), Limit(i)) \in SUBSET (1..MaxRows)
  BY DEF Select, WithinInv, SessionTypeOK
<1>7. /\ Cardinality(part) \in Nat /\ Cardinality(Select(Offset(i), Limit(i))) \in Nat
      /\ Cardinality(part) <= Cardinality(Select(Offset(i), Limit(i)))
  <2> DEFINE S == Select(Offset(i), Limit(i))
  <2>1. part \in SUBSET (1..MaxRows) /\ part \in SUBSET S /\ S \in SUBSET (1..MaxRows)
    BY <1>6
  <2> HIDE DEF S
  <2>2. IsFiniteSet(S) /\ Cardinality(S) \in Nat /\ Cardinality(part) \in Nat
    BY <2>1, RowSets
  <2>3. Cardinality(part) <= Cardinality(S)
    BY ONLY <2>1, <2>2, FS_Subset
  <2> QED
    BY <2>2, <2>3 DEF S
<1>8. /\ pos' = [pos EXCEPT ![i] = pos[i] + Cardinality(part)]
      /\ UNCHANGED <<filtered, count>>
  BY DEF Receive, sessionVars
<1>9. pos'[i] = pos[i] + Cardinality(part) /\ \A j \in AnyStream \ {i} : pos'[j] = pos[j]
  BY <1>1, <1>8
<1> QED
  BY <1>3, <1>4, <1>5, <1>7, <1>8, <1>9

LEMMA WithinNext == WithinInv /\ [Next]_vars => WithinInv'
<1> SUFFICES ASSUME WithinInv, [Next]_vars
             PROVE  WithinInv'
  OBVIOUS
<1>1. SessionTypeOK' /\ CountOK'
  BY SessionTypeNext DEF WithinInv
<1>2. Streams \subseteq AnyStream
  BY SessionParametersAssumption
  DEF WithinInv, SessionTypeOK, CountOK, Streams, AnyStream
<1>3. CASE UNCHANGED <<filtered, count, pos>>
  BY <1>1, <1>3 DEF WithinInv, WithinSlice, Streams
<1>4. ASSUME NEW i \in AnyStream, i \in Streams,
             NEW part \in SUBSET Select(Offset(i), Limit(i)), Receive(i, part)
      PROVE  WithinInv'
  <2>1. /\ pos'[i] <= Size(filtered, count, i)
        /\ \A j \in AnyStream \ {i} : pos'[j] = pos[j]
        /\ UNCHANGED <<filtered, count>>
    BY <1>4, WithinReceive
  <2>2. count # 0
    <3>1. i \in 0..(count - 1) /\ count \in Int
      BY <1>4 DEF Streams, WithinInv, SessionTypeOK
    <3> QED
      BY <3>1
  <2>3. Streams' = Streams
    BY <2>1 DEF Streams
  <2>4. WithinSlice'
    BY <1>2, <2>1, <2>3 DEF WithinInv, WithinSlice
  <2>5. \A j \in AnyStream \ Streams : pos'[j] = 0
    BY <1>4, <2>1 DEF WithinInv
  <2> QED
    BY <1>1, <2>1, <2>2, <2>3, <2>4, <2>5 DEF WithinInv
<1>5. ASSUME NEW requested \in Requests, CreateReadSession(requested)
      PROVE  WithinInv'
  <2>1. \A i \in AnyStream : pos'[i] = 0
    BY <1>5 DEF CreateReadSession, readerVars, WithinInv
  <2>2. filtered' \in Nat /\ count' \in Nat
    BY <1>1, SessionParametersAssumption DEF SessionTypeOK
  <2>3. ASSUME NEW i \in Streams'
        PROVE  i \in AnyStream /\ 0 <= Size(filtered', count', i)
    <3> DEFINE n == filtered'
               k == count'
    <3>1. n \in Nat /\ k \in Nat /\ i \in 0..(k - 1)
      BY <2>2, <2>3 DEF Streams
    <3>2. i \in AnyStream
      <4>1. k \in 0..(MaxRows + 1) /\ MaxRows \in Nat
        BY <1>1, SessionParametersAssumption DEF SessionTypeOK
      <4> HIDE DEF n, k
      <4> QED
        BY <3>1, <4>1 DEF AnyStream
    <3> HIDE DEF n, k
    <3>3. k \in Nat \ {0} /\ i \in 0..k /\ i + 1 \in 0..k
      BY <3>1
    <3>4. Start(n, k, i) \in 0..n /\ Start(n, k, i + 1) \in 0..n
          /\ Start(n, k, i) <= Start(n, k, i + 1)
      BY <3>1, <3>3, SlicesFollow
    <3>5. 0 <= Size(n, k, i)
      BY <3>1, <3>4 DEF Size
    <3> QED
      BY <3>2, <3>5 DEF n, k
  <2>4. WithinSlice'
    BY <2>1, <2>3 DEF WithinSlice
  <2> QED
    BY <1>1, <2>1, <2>4 DEF WithinInv
<1>6. ASSUME NEW i \in AnyStream, NEW m \in 1..MaxRows, ReadRowsCut(i, m)
      PROVE  WithinInv'
  BY <1>4, <1>6 DEF ReadRowsCut, Arrived
<1>7. ASSUME NEW i \in AnyStream, ReadRows(i)
      PROVE  WithinInv'
  BY <1>4, <1>7 DEF ReadRows
<1>8. ASSUME NEW i \in AnyStream, Restart(i)
      PROVE  WithinInv'
  <2>1. /\ pos' = [pos EXCEPT ![i] = 0] /\ UNCHANGED <<filtered, count>>
        /\ pos \in [AnyStream -> Nat]
    BY <1>8 DEF Restart, sessionVars, WithinInv, SessionTypeOK
  <2>2. pos'[i] = 0 /\ \A j \in AnyStream \ {i} : pos'[j] = pos[j]
    BY <2>1
  <2>3. ASSUME NEW j \in Streams
        PROVE  pos'[j] <= Size(filtered, count, j)
    <3>1. j \in AnyStream /\ pos[j] \in Nat /\ pos[j] <= Size(filtered, count, j)
      BY <1>2, <2>1 DEF WithinInv, WithinSlice
    <3>2. Size(filtered, count, j) \in Int
      <4>1. /\ filtered \in Nat /\ count \in Nat \ {0}
            /\ j \in 0..count /\ j + 1 \in 0..count
        BY SessionParametersAssumption DEF WithinInv, SessionTypeOK, Streams
      <4> QED
        BY <4>1, SlicesFollow DEF Size
    <3> QED
      BY <2>2, <3>1, <3>2
  <2>4. Streams' = Streams
    BY <2>1 DEF Streams
  <2> QED
    BY <1>1, <2>1, <2>2, <2>3, <2>4 DEF WithinInv, WithinSlice
<1>9. CASE Insert
  BY <1>3, <1>9 DEF Insert, sessionVars, readerVars
<1>10. ASSUME NEW r \in rows, Delete(r)
       PROVE  WithinInv'
  BY <1>3, <1>10 DEF Delete, readerVars
<1>11. CASE UNCHANGED vars
  BY <1>3, <1>11 DEF vars, sessionVars, readerVars
<1> QED
  BY <1>5, <1>6, <1>7, <1>8, <1>9, <1>10, <1>11 DEF Next

\* Whatever is inserted and deleted meanwhile, a reader never receives more rows
\* than its slice has.
THEOREM WithinSliceAlways == Spec => []WithinSlice
<1>1. Init => WithinInv
  BY SessionTypeInit DEF Init, WithinInv, WithinSlice, Streams
<1>2. WithinInv => WithinSlice
  BY DEF WithinInv
<1> QED
  BY <1>1, <1>2, WithinNext, PTL DEF Spec

(***************************************************************************)
(* The places of the rows of a set, counted from 1: every place up to the  *)
(* size of the set is that of one row.                                     *)
(***************************************************************************)
Place(S, r) == Cardinality({q \in S : q <= r})

\* The rows between two places.
Part(S, a, b) == {r \in S : a < Place(S, r) /\ Place(S, r) <= b}

\* Places are between 1 and the size, and grow with the rows.
LEMMA PlaceBounds ==
  ASSUME NEW S \in SUBSET (1..MaxRows), NEW r \in S
  PROVE  /\ Place(S, r) \in 1..Cardinality(S)
         /\ \A q \in S : r < q => Place(S, r) < Place(S, q)
<1> DEFINE below(x) == {p \in S : p <= x}
<1>1. S \in SUBSET Int /\ \A x : below(x) \in SUBSET S /\ below(x) \in SUBSET (1..MaxRows)
  <2>1. S \in SUBSET Int
    BY SessionParametersAssumption
  <2>2. \A x : below(x) \in SUBSET S
    OBVIOUS
  <2> HIDE DEF below
  <2> QED
    BY <2>1, <2>2
<1>2. /\ IsFiniteSet(S) /\ Cardinality(S) \in Nat
      /\ \A x : IsFiniteSet(below(x)) /\ Cardinality(below(x)) \in Nat
  BY <1>1, RowSets
<1>3. r \in below(r)
  BY <1>1
<1>4. ASSUME NEW q \in S, r < q
      PROVE  below(r) \in SUBSET below(q) /\ q \in below(q) /\ q \notin below(r)
  <2>1. \A p \in S : p <= r => p <= q
    BY <1>1, <1>4
  <2>2. q <= q /\ ~ q <= r
    BY <1>1, <1>4
  <2> QED
    BY <1>4, <2>1, <2>2
<1> HIDE DEF below
<1>5. Cardinality(below(r)) <= Cardinality(S)
  BY <1>1, <1>2, FS_Subset
<1>6. Cardinality(below(r)) # 0
  BY <1>2, <1>3, FS_EmptySet
<1>7. Cardinality(below(r)) \in 1..Cardinality(S)
  BY <1>2, <1>5, <1>6
<1>8. ASSUME NEW q \in S, r < q
      PROVE  Cardinality(below(r)) < Cardinality(below(q))
  <2>1. below(r) \in SUBSET below(q) /\ below(r) # below(q)
    BY <1>4, <1>8
  <2>2. /\ Cardinality(below(r)) <= Cardinality(below(q))
        /\ Cardinality(below(q)) = Cardinality(below(r)) => below(q) = below(r)
    BY <1>2, <2>1, FS_Subset
  <2> QED
    BY <1>2, <2>1, <2>2
<1>9. \A x : Place(S, x) = Cardinality(below(x))
  BY DEF Place, below
<1> QED
  BY <1>7, <1>8, <1>9

\* Every place is taken, since different rows have different ones.
LEMMA PlacesTaken ==
  ASSUME NEW S \in SUBSET (1..MaxRows)
  PROVE  /\ \A r, q \in S : r # q => Place(S, r) # Place(S, q)
         /\ \A k \in 1..Cardinality(S) : \E r \in S : Place(S, r) = k
<1> DEFINE n == Cardinality(S)
           place == [r \in S |-> Place(S, r)]
<1>1. S \in SUBSET Int /\ IsFiniteSet(S) /\ n \in Nat
  BY RowSets, SessionParametersAssumption
<1>2. IsFiniteSet(1..n) /\ Cardinality(1..n) = n
  BY <1>1, FS_Interval
<1>3. \A r \in S : Place(S, r) \in 1..n /\ Place(S, r) \in Int
  BY <1>1, PlaceBounds
<1>4. \A r, q \in S : r # q => Place(S, r) # Place(S, q)
  <2> SUFFICES ASSUME NEW r \in S, NEW q \in S, r < q
               PROVE  Place(S, r) # Place(S, q)
    BY <1>1
  <2> QED
    BY <1>3, PlaceBounds
<1> HIDE DEF n
<1>5. place \in Injection(S, 1..n)
  BY <1>3, <1>4 DEF Injection, IsInjective
<1>6. place \in Surjection(S, 1..n)
  <2> HIDE DEF place
  <2> QED
    BY <1>1, <1>2, <1>5, FS_Injection DEF n
<1>7. \A k \in 1..n : \E r \in S : place[r] = k
  BY <1>6 DEF Surjection
<1> QED
  BY <1>4, <1>7 DEF n

\* So there are as many rows between two places as places.
LEMMA PartSize ==
  ASSUME NEW S \in SUBSET (1..MaxRows), NEW a \in Nat, NEW b \in Nat,
         a <= b, b <= Cardinality(S)
  PROVE  Cardinality(Part(S, a, b)) = b - a
<1> DEFINE P == Part(S, a, b)
           T == (a + 1)..b
           place == [r \in P |-> Place(S, r)]
<1>1. P \in SUBSET S /\ P \in SUBSET (1..MaxRows)
  BY DEF Part
<1>2. IsFiniteSet(P) /\ Cardinality(S) \in Nat /\ Cardinality(P) \in Nat
  BY <1>1, RowSets
<1>3. IsFiniteSet(T) /\ Cardinality(T) = b - a
  <2>1. a + 1 \in Int /\ b \in Int
    OBVIOUS
  <2>2. IsFiniteSet(T) /\ Cardinality(T) = IF a + 1 > b THEN 0 ELSE b - (a + 1) + 1
    BY <2>1, FS_Interval
  <2> QED
    BY <2>2
<1>4. \A r \in P : Place(S, r) \in T
  <2> SUFFICES ASSUME NEW r \in P
               PROVE  Place(S, r) \in T
    OBVIOUS
  <2>1. Place(S, r) \in 1..Cardinality(S)
    BY <1>1, PlaceBounds
  <2>2. a < Place(S, r) /\ Place(S, r) <= b
    BY DEF Part
  <2> QED
    BY <1>2, <2>1, <2>2
<1>5. \A r, q \in P : r # q => Place(S, r) # Place(S, q)
  BY <1>1, PlacesTaken
<1>6. \A k \in T : \E r \in P : Place(S, r) = k
  <2> SUFFICES ASSUME NEW k \in T
               PROVE  \E r \in P : Place(S, r) = k
    OBVIOUS
  <2>1. k \in 1..Cardinality(S) /\ a < k /\ k <= b
    BY <1>2
  <2>2. PICK r \in S : Place(S, r) = k
    BY <2>1, PlacesTaken
  <2> QED
    BY <2>1, <2>2 DEF Part
<1> HIDE DEF P, T
<1>7. place \in Bijection(P, T)
  BY <1>4, <1>5, <1>6 DEF Bijection, Injection, IsInjective, Surjection
<1>8. Cardinality(T) = Cardinality(P)
  <2>1. ExistsBijection(P, T)
    BY <1>7 DEF ExistsBijection
  <2> QED
    BY <1>2, <2>1, FS_Bijection
<1> QED
  BY <1>3, <1>8 DEF P

\* Parts that follow one another have no row in common, and make one part.
LEMMA PartsFollow ==
  ASSUME NEW S \in SUBSET (1..MaxRows), NEW a \in Nat, NEW b \in Nat, NEW c \in Nat, NEW d \in Nat
  PROVE  /\ Part(S, a, a) = {}
         /\ a <= b /\ b <= c => Part(S, a, b) \cup Part(S, b, c) = Part(S, a, c)
         /\ b <= c => Part(S, a, b) \cap Part(S, c, d) = {}
         /\ Part(S, 0, Cardinality(S)) = S
<1>1. Cardinality(S) \in Nat
  BY RowSets
<1>2. \A r \in S : Place(S, r) \in Int /\ Place(S, r) >= 1 /\ Place(S, r) <= Cardinality(S)
  <2> SUFFICES ASSUME NEW r \in S
               PROVE  Place(S, r) \in Int /\ Place(S, r) >= 1 /\ Place(S, r) <= Cardinality(S)
    OBVIOUS
  <2>1. Place(S, r) \in 1..Cardinality(S)
    BY PlaceBounds
  <2> QED
    BY <1>1, <2>1
<1>3. \A x, y : \A r : r \in Part(S, x, y) <=> r \in S /\ x < Place(S, r) /\ Place(S, r) <= y
  BY DEF Part
<1>4. Part(S, a, a) = {}
  <2>1. ASSUME NEW r \in Part(S, a, a) PROVE FALSE
    <3>1. r \in S /\ a < Place(S, r) /\ Place(S, r) <= a /\ Place(S, r) \in Int
      BY <1>2, <1>3, <2>1
    <3> QED
      BY <3>1
  <2> QED
    BY <2>1
<1>5. ASSUME a <= b, b <= c
      PROVE  Part(S, a, b) \cup Part(S, b, c) = Part(S, a, c)
  <2>1. ASSUME NEW r \in S
        PROVE  r \in Part(S, a, b) \/ r \in Part(S, b, c) <=> r \in Part(S, a, c)
    <3>1. Place(S, r) \in Int
      BY <1>2
    <3> QED
      BY <1>3, <1>5, <3>1
  <2> QED
    BY <1>3, <2>1
<1>6. ASSUME b <= c
      PROVE  Part(S, a, b) \cap Part(S, c, d) = {}
  <2>1. ASSUME NEW r \in Part(S, a, b), r \in Part(S, c, d)
        PROVE  FALSE
    <3>1. /\ Place(S, r) <= b /\ c < Place(S, r) /\ Place(S, r) \in Int
      BY <1>2, <1>3, <2>1
    <3> QED
      BY <1>6, <3>1
  <2> QED
    BY <2>1
<1>7. Part(S, 0, Cardinality(S)) = S
  <2>1. ASSUME NEW r \in S
        PROVE  r \in Part(S, 0, Cardinality(S))
    <3>1. Place(S, r) \in Int /\ 0 < Place(S, r) /\ Place(S, r) <= Cardinality(S)
      BY <1>2, <2>1
    <3> QED
      BY <1>3, <2>1, <3>1
  <2> QED
    BY <1>3, <2>1
<1> QED
  BY <1>4, <1>5, <1>6, <1>7

(***************************************************************************)
(* The partition.  The invariant, as long as no row was deleted since the  *)
(* session was created: its rows are still there and come before all       *)
(* others, so that their places in ORDER BY rowid are what they were, and  *)
(* the reader of a stream has the rows at the first pos places of its      *)
(* slice.  Which rows were deleted before makes no difference.             *)
(***************************************************************************)
Slice(i) == Part(snapshot, Start(filtered, count, i), Start(filtered, count, i + 1))

ReaderOK(i) ==
  /\ pos[i] <= Size(filtered, count, i)
  /\ got[i] = Part(snapshot, Start(filtered, count, i),
                             Start(filtered, count, i) + pos[i])
  /\ i \in ended => pos[i] = Size(filtered, count, i)
  /\ \A a \in answers[i] : a = Slice(i)

Idle(i) == got[i] = {} /\ pos[i] = 0 /\ answers[i] = {} /\ i \notin ended

\* The rows the session was created over come first.
SnapshotFirst ==
  /\ snapshot \subseteq rows
  /\ \A r \in snapshot, q \in rows \ snapshot : r < q
  /\ filtered = Cardinality(snapshot)

IntactInv ==
  /\ SessionTypeOK
  /\ CountOK
  /\ rows \subseteq 1..inserted
  /\ \A i \in AnyStream \ Streams : Idle(i)
  /\ intact /\ count > 0 => SnapshotFirst /\ \A i \in Streams : ReaderOK(i)

\* Streams are among those that may be, and have well-formed slices.
LEMMA SliceOfStream ==
  ASSUME IntactInv, NEW i \in Streams
  PROVE  /\ filtered \in Nat /\ count \in Nat \ {0} /\ i \in 0..(count - 1)
         /\ i \in AnyStream
         /\ Start(filtered, count, i) \in Nat
         /\ Start(filtered, count, i + 1) \in Nat
         /\ Start(filtered, count, i + 1) <= filtered
         /\ Size(filtered, count, i) \in Nat
<1>1. filtered \in Nat /\ count \in Nat \ {0} /\ i \in 0..(count - 1)
  BY SessionParametersAssumption DEF IntactInv, SessionTypeOK, Streams
<1>2. i \in 0..count /\ i + 1 \in 0..count
  BY <1>1
<1>3. /\ Start(filtered, count, i) \in 0..filtered
      /\ Start(filtered, count, i + 1) \in 0..filtered
      /\ Start(filtered, count, i) <= Start(filtered, count, i + 1)
  BY <1>1, <1>2, SlicesFollow
<1>4. i \in AnyStream
  BY <1>1, SessionParametersAssumption DEF IntactInv, SessionTypeOK, CountOK, AnyStream
<1> QED
  BY <1>1, <1>3, <1>4 DEF Size

\* What the invariant says of a stream while the rows are intact.
LEMMA IntactStream ==
  ASSUME IntactInv, intact, NEW i \in Streams
  PROVE  /\ SnapshotFirst /\ ReaderOK(i)
         /\ pos[i] \in Nat
         /\ snapshot \in SUBSET (1..MaxRows)
<1>1. count > 0 /\ i \in AnyStream
  BY SliceOfStream
<1> QED
  BY <1>1 DEF IntactInv, SessionTypeOK

\* A row of the session has the place it had; all others come after.
LEMMA RankIsPlace ==
  ASSUME SessionTypeOK, SnapshotFirst, NEW r \in rows
  PROVE  /\ Rank(r) \in Nat
         /\ r \in snapshot => Rank(r) = Place(snapshot, r)
         /\ r \notin snapshot => Rank(r) > filtered
<1> DEFINE below == {q \in rows : q <= r}
<1>1. /\ rows \in SUBSET Int /\ snapshot \in SUBSET rows
      /\ rows \in SUBSET (1..MaxRows) /\ snapshot \in SUBSET (1..MaxRows)
  BY SessionParametersAssumption DEF SessionTypeOK, SnapshotFirst
<1>2. below \in SUBSET (1..MaxRows)
  BY <1>1
<1>3. Rank(r) = Cardinality(below) /\ Cardinality(below) \in Nat /\ IsFiniteSet(below)
  BY <1>2, RowSets DEF Rank
<1>4. ASSUME r \in snapshot
      PROVE  Rank(r) = Place(snapshot, r)
  <2>1. \A q \in rows : q <= r => q \in snapshot
    <3> SUFFICES ASSUME NEW q \in rows, q <= r, q \notin snapshot
                 PROVE  FALSE
      OBVIOUS
    <3>1. r < q /\ r \in Int /\ q \in Int
      BY <1>1, <1>4 DEF SnapshotFirst
    <3> QED
      BY <3>1
  <2>2. {q \in rows : q <= r} = {q \in snapshot : q <= r}
    BY <1>1, <2>1
  <2> QED
    BY <2>2 DEF Rank, Place
<1>5. ASSUME r \notin snapshot
      PROVE  Rank(r) > filtered
  <2>1. \A p \in snapshot : p <= r
    BY <1>1, <1>5 DEF SnapshotFirst
  <2>2. r <= r
    BY <1>1
  <2>3. snapshot \cup {r} \in SUBSET below
    BY <1>1, <2>1, <2>2
  <2>4. IsFiniteSet(snapshot) /\ Cardinality(snapshot) \in Nat
    BY <1>1, RowSets
  <2>5. Cardinality(snapshot \cup {r}) = Cardinality(snapshot) + 1
    BY <1>5, <2>4, FS_AddElement
  <2> HIDE DEF below
  <2>6. Cardinality(snapshot \cup {r}) <= Cardinality(below)
    BY <1>3, <2>3, FS_Subset
  <2> QED
    BY <1>3, <2>4, <2>5, <2>6 DEF SnapshotFirst
<1> QED
  BY <1>3, <1>4, <1>5

\* What ReadRows answers is the rest of the slice.
LEMMA AnswerIsRest ==
  ASSUME IntactInv, intact, NEW i \in Streams
  PROVE  /\ Select(Offset(i), Limit(i))
              = Part(snapshot, Start(filtered, count, i) + pos[i],
                               Start(filtered, count, i + 1))
         /\ Cardinality(Select(Offset(i), Limit(i))) = Size(filtered, count, i) - pos[i]
<1> DEFINE lo == Start(filtered, count, i)
           hi == Start(filtered, count, i + 1)
           p == pos[i]
<1>1. /\ lo \in Nat /\ hi \in Nat /\ hi <= filtered /\ filtered \in Nat
      /\ Size(filtered, count, i) = hi - lo
  BY SliceOfStream DEF Size
<1>2. /\ SnapshotFirst /\ snapshot \in SUBSET (1..MaxRows) /\ SessionTypeOK
      /\ p \in Nat /\ p <= hi - lo
  BY <1>1, IntactStream DEF ReaderOK, IntactInv
<1>3. Offset(i) = lo + p /\ Limit(i) = hi - lo - p
  BY <1>1, <1>2 DEF Offset, Limit
<1> HIDE DEF lo, hi, p
<1>4. ASSUME NEW r
      PROVE  r \in Select(Offset(i), Limit(i)) <=> r \in Part(snapshot, lo + p, hi)
  <2>1. /\ r \in Select(Offset(i), Limit(i))
             <=> r \in rows /\ lo + p < Rank(r) /\ Rank(r) <= lo + p + (hi - lo - p)
        /\ r \in Part(snapshot, lo + p, hi)
             <=> r \in snapshot /\ lo + p < Place(snapshot, r) /\ Place(snapshot, r) <= hi
    BY <1>3 DEF Select, Part
  <2>2. lo + p + (hi - lo - p) = hi
    BY <1>1, <1>2
  <2>3. CASE r \in snapshot
    <3>1. r \in rows /\ Rank(r) = Place(snapshot, r)
      BY <1>2, <2>3, RankIsPlace DEF SnapshotFirst
    <3> QED
      BY <2>1, <2>2, <2>3, <3>1
  <2>4. CASE r \in rows \ snapshot
    <3>1. Rank(r) \in Nat /\ Rank(r) > filtered
      BY <1>2, <2>4, RankIsPlace
    <3> QED
      BY <1>1, <2>1, <2>2, <2>4, <3>1
  <2>5. CASE r \notin rows
    BY <1>2, <2>1, <2>5 DEF SnapshotFirst
  <2> QED
    BY <2>3, <2>4, <2>5
<1>5. Select(Offset(i), Limit(i)) = Part(snapshot, lo + p, hi)
  BY <1>4
<1>6. Cardinality(Part(snapshot, lo + p, hi)) = hi - (lo + p)
  <2>1. lo + p \in Nat /\ lo + p <= hi /\ hi <= Cardinality(snapshot)
    BY <1>1, <1>2 DEF SnapshotFirst
  <2> QED
    BY <1>1, <1>2, <2>1, PartSize
<1> QED
  BY <1>1, <1>2, <1>5, <1>6 DEF lo, hi, p

\* What arrives of it is a part at its beginning.
LEMMA ArrivedIsPart ==
  ASSUME IntactInv, intact, NEW i \in Streams, NEW m \in 1..MaxRows
  PROVE  \E n \in 0..(Size(filtered, count, i) - pos[i]) :
           Arrived(i, m) = Part(snapshot, Start(filtered, count, i) + pos[i],
                                          Start(filtered, count, i) + pos[i] + n)
<1> DEFINE lo == Start(filtered, count, i) + pos[i]
           hi == Start(filtered, count, i + 1)
           all == hi - lo
           b == m * BatchSize
           n == IF b < all THEN b ELSE all
<1>1. /\ Start(filtered, count, i) \in Nat /\ hi \in Nat
      /\ Size(filtered, count, i) = hi - Start(filtered, count, i)
  BY SliceOfStream DEF Size
<1>2. /\ SnapshotFirst /\ snapshot \in SUBSET (1..MaxRows) /\ SessionTypeOK
      /\ pos[i] \in Nat /\ pos[i] <= hi - Start(filtered, count, i)
  BY <1>1, IntactStream DEF ReaderOK, IntactInv
<1>3. lo \in Nat /\ all \in Nat /\ Offset(i) = lo /\ all = Size(filtered, count, i) - pos[i]
  BY <1>1, <1>2 DEF Offset
<1>4. Select(Offset(i), Limit(i)) = Part(snapshot, lo, hi)
  BY AnswerIsRest
<1>5. b \in Nat
  BY SessionParametersAssumption
<1> HIDE DEF lo, hi, b
<1>6. /\ n \in 0..all
      /\ \A x \in Int : x <= hi /\ x <= lo + b <=> x <= lo + n
  BY <1>1, <1>3, <1>5
<1> HIDE DEF n
<1>7. ASSUME NEW r \in Part(snapshot, lo, hi)
      PROVE  r \in rows /\ Rank(r) = Place(snapshot, r) /\ Place(snapshot, r) \in Int
  <2>1. r \in snapshot /\ r \in rows
    BY <1>2, <1>7 DEF Part, SnapshotFirst
  <2> QED
    BY <1>2, <2>1, RankIsPlace
<1>8. ASSUME NEW r
      PROVE  r \in Arrived(i, m) <=> r \in Part(snapshot, lo, lo + n)
  <2>1. r \in Arrived(i, m) <=> r \in Part(snapshot, lo, hi) /\ Rank(r) <= lo + b
    BY <1>3, <1>4 DEF Arrived, b
  <2>2. \A y : r \in Part(snapshot, lo, y)
          <=> r \in snapshot /\ lo < Place(snapshot, r) /\ Place(snapshot, r) <= y
    BY DEF Part
  <2>3. r \in snapshot => Place(snapshot, r) \in Int
    <3> SUFFICES ASSUME r \in snapshot PROVE Place(snapshot, r) \in Int
      OBVIOUS
    <3>1. r \in rows
      BY <1>2 DEF SnapshotFirst
    <3> QED
      BY <1>2, <3>1, RankIsPlace
  <2> QED
    BY <1>6, <1>7, <2>1, <2>2, <2>3
<1>9. Arrived(i, m) = Part(snapshot, lo, lo + n)
  BY <1>8
<1> QED
  BY <1>3, <1>6, <1>9 DEF lo

LEMMA IntactInit == Init => IntactInv
<1> SUFFICES ASSUME Init PROVE IntactInv
  OBVIOUS
<1>1. 1..0 = {} /\ Streams = {}
  BY DEF Init, Streams
<1> QED
  BY <1>1, SessionTypeInit DEF Init, IntactInv, Idle

\* Inserting rows changes no stream: the new row comes last.
LEMMA IntactInsert ==
  ASSUME IntactInv, Insert, SessionTypeOK', CountOK'
  PROVE  IntactInv'
<1>1. inserted \in Nat /\ rows \subseteq 1..inserted /\ snapshot \in SUBSET (1..MaxRows)
  BY SessionParametersAssumption DEF IntactInv, SessionTypeOK
<1>2. /\ inserted' = inserted + 1 /\ rows' = rows \cup {inserted + 1}
      /\ UNCHANGED <<filtered, count, snapshot, intact, got, pos, ended, answers>>
  BY DEF Insert, sessionVars, readerVars
<1>3. rows' \subseteq 1..inserted'
  BY <1>1, <1>2
<1>4. \A i \in AnyStream \ Streams' : Idle(i)'
  BY <1>2 DEF IntactInv, Streams, Idle
<1>5. ASSUME SnapshotFirst
      PROVE  SnapshotFirst'
  <2>1. \A r \in snapshot : r < inserted + 1
    BY <1>1, <1>5 DEF SnapshotFirst
  <2>2. \A r \in snapshot, q \in rows' \ snapshot : r < q
    BY <1>2, <1>5, <2>1 DEF SnapshotFirst
  <2> QED
    BY <1>2, <1>5, <2>2 DEF SnapshotFirst
<1>6. ASSUME intact', count' > 0
      PROVE  SnapshotFirst' /\ \A i \in Streams' : ReaderOK(i)'
  <2>1. SnapshotFirst /\ \A i \in Streams : ReaderOK(i)
    BY <1>2, <1>6 DEF IntactInv
  <2> QED
    BY <1>2, <1>5, <2>1 DEF Streams, ReaderOK, Slice
<1> QED
  BY <1>3, <1>4, <1>6 DEF IntactInv

\* A new session has streams nobody has read from.
LEMMA IntactCreate ==
  ASSUME IntactInv, NEW requested \in Requests, CreateReadSession(requested),
         SessionTypeOK', CountOK'
  PROVE  IntactInv'
<1>1. /\ UNCHANGED <<rows, inserted, got, pos, ended, answers>>
      /\ filtered' = Cardinality(rows) /\ snapshot' = rows
  BY DEF CreateReadSession, tableVars, readerVars
<1>2. ASSUME NEW i \in AnyStream
      PROVE  Idle(i)'
  <2>1. Idle(i)
    BY DEF IntactInv, CreateReadSession, Streams
  <2> QED
    BY <1>1, <2>1 DEF Idle
<1>3. SnapshotFirst'
  BY <1>1 DEF SnapshotFirst
<1>4. ASSUME NEW i \in Streams'
      PROVE  ReaderOK(i)'
  <2> DEFINE n == filtered'
             k == count'
  <2>1. n \in Nat /\ k \in Nat /\ i \in 0..(k - 1) /\ i \in AnyStream
        /\ snapshot' \in SUBSET (1..MaxRows)
    <3>1. /\ n \in Nat /\ k \in Nat /\ k <= MaxRows + 1 /\ MaxRows \in Nat
          /\ snapshot' \in SUBSET (1..MaxRows)
      BY SessionParametersAssumption DEF SessionTypeOK
    <3>2. i \in 0..(k - 1)
      BY <1>4 DEF Streams
    <3> HIDE DEF n, k
    <3> QED
      BY <3>1, <3>2 DEF AnyStream
  <2>2. got'[i] = {} /\ pos'[i] = 0 /\ answers'[i] = {} /\ i \notin ended'
    BY <1>2, <2>1 DEF Idle
  <2>3. /\ Start(n, k, i) \in Nat
        /\ 0 <= Size(n, k, i)
    <3> HIDE DEF n, k
    <3>1. k \in Nat \ {0} /\ i \in 0..k /\ i + 1 \in 0..k
      BY <2>1
    <3>2. /\ Start(n, k, i) \in 0..n /\ Start(n, k, i + 1) \in 0..n
          /\ Start(n, k, i) <= Start(n, k, i + 1)
      BY <2>1, <3>1, SlicesFollow
    <3> QED
      BY <2>1, <3>2 DEF Size
  <2>4. Start(n, k, i) + 0 = Start(n, k, i)
    BY <2>3
  <2>5. Part(snapshot', Start(n, k, i), Start(n, k, i)) = {}
    BY <2>1, <2>3, PartsFollow
  <2> QED
    BY <2>2, <2>3, <2>4, <2>5 DEF ReaderOK
<1>5. \A i \in AnyStream \ Streams' : Idle(i)'
  BY <1>2
<1>6. rows' \subseteq 1..inserted'
  BY <1>1 DEF IntactInv
<1> QED
  BY <1>3, <1>4, <1>5, <1>6 DEF IntactInv

\* A reader that receives the rows at the next n places of its slice.
LEMMA IntactReceive ==
  ASSUME IntactInv, intact, NEW i \in Streams,
         NEW n \in 0..(Size(filtered, count, i) - pos[i]), NEW part,
         part = Part(snapshot, Start(filtered, count, i) + pos[i],
                               Start(filtered, count, i) + pos[i] + n),
         Receive(i, part)
  PROVE  /\ pos'[i] = pos[i] + n
         /\ pos'[i] <= Size(filtered, count, i)
         /\ got'[i] = Part(snapshot, Start(filtered, count, i),
                                     Start(filtered, count, i) + pos'[i])
<1> DEFINE lo == Start(filtered, count, i)
           size == Size(filtered, count, i)
           p == pos[i]
<1>1. /\ i \in AnyStream /\ lo \in Nat /\ size \in Nat /\ filtered \in Nat
      /\ lo + size <= filtered
  BY SliceOfStream DEF Size
<1>2. /\ p \in Nat /\ got \in [AnyStream -> SUBSET (1..MaxRows)]
      /\ pos \in [AnyStream -> Nat]
      /\ SnapshotFirst /\ snapshot \in SUBSET (1..MaxRows)
      /\ got[i] = Part(snapshot, lo, lo + p)
  BY IntactStream DEF IntactInv, SessionTypeOK, ReaderOK
<1>3. /\ got'[i] = got[i] \cup part
      /\ pos'[i] = p + Cardinality(part)
  BY <1>1, <1>2 DEF Receive
<1>4. part = Part(snapshot, lo + p, lo + p + n) /\ n \in 0..(size - p)
  OBVIOUS
<1> HIDE DEF lo, size, p
<1>5. n \in Nat /\ p + n <= size
  BY <1>1, <1>2, <1>4
<1>6. /\ lo + p \in Nat /\ lo + p + n \in Nat /\ lo <= lo + p /\ lo + p <= lo + p + n
      /\ lo + p + n <= Cardinality(snapshot)
  BY <1>1, <1>2, <1>5 DEF SnapshotFirst
<1>7. Cardinality(part) = n
  <2>1. Cardinality(Part(snapshot, lo + p, lo + p + n)) = lo + p + n - (lo + p)
    BY <1>2, <1>6, PartSize
  <2> QED
    BY <1>1, <1>2, <1>4, <1>5, <2>1
<1>8. pos'[i] = p + n
  BY <1>3, <1>7
<1>9. lo + pos'[i] = lo + p + n
  BY <1>1, <1>2, <1>5, <1>8
<1>10. got'[i] = Part(snapshot, lo, lo + p + n)
  <2>1. Part(snapshot, lo, lo + p) \cup Part(snapshot, lo + p, lo + p + n)
          = Part(snapshot, lo, lo + p + n)
    BY <1>1, <1>2, <1>6, PartsFollow
  <2> QED
    BY <1>2, <1>3, <1>4, <2>1
<1> QED
  BY <1>5, <1>8, <1>9, <1>10 DEF lo, size, p

\* What a step of the reader of one stream leaves to prove.
LEMMA IntactReader ==
  ASSUME IntactInv, NEW i \in Streams, UNCHANGED <<tableVars, sessionVars>>,
         intact => ReaderOK(i)', SessionTypeOK', CountOK',
         \A j \in AnyStream \ {i} :
           /\ got'[j] = got[j] /\ pos'[j] = pos[j] /\ answers'[j] = answers[j]
           /\ j \in ended' <=> j \in ended
  PROVE  IntactInv'
<1>1. UNCHANGED <<rows, inserted, filtered, count, snapshot, intact>> /\ Streams' = Streams
  BY DEF tableVars, sessionVars, Streams
<1>2. \A j \in AnyStream \ Streams' : Idle(j)'
  BY <1>1 DEF IntactInv, Idle
<1>3. ASSUME intact', count' > 0
      PROVE  SnapshotFirst' /\ \A j \in Streams' : ReaderOK(j)'
  <2>1. SnapshotFirst /\ \A j \in Streams : ReaderOK(j)
    BY <1>1, <1>3 DEF IntactInv
  <2>2. ASSUME NEW j \in Streams, j # i
        PROVE  ReaderOK(j)'
    <3>1. j \in AnyStream
      BY SliceOfStream
    <3> QED
      BY <1>1, <2>1, <2>2, <3>1 DEF ReaderOK, Slice
  <2>3. ReaderOK(i)'
    BY <1>1, <1>3
  <2> QED
    BY <1>1, <2>1, <2>2, <2>3 DEF SnapshotFirst
<1> QED
  BY <1>1, <1>2, <1>3 DEF IntactInv

\* Only the reader of stream i changes.
LEMMA ReceiveFrame ==
  ASSUME SessionTypeOK, NEW i \in AnyStream, NEW part, Receive(i, part)
  PROVE  /\ UNCHANGED <<tableVars, sessionVars>>
         /\ \A j \in AnyStream \ {i} : got'[j] = got[j] /\ pos'[j] = pos[j]
BY DEF Receive, SessionTypeOK

LEMMA IntactReadRowsCut ==
  ASSUME IntactInv, NEW i \in AnyStream, NEW m \in 1..MaxRows, ReadRowsCut(i, m),
         SessionTypeOK', CountOK'
  PROVE  IntactInv'
<1>1. i \in Streams /\ i \notin ended /\ Receive(i, Arrived(i, m)) /\ UNCHANGED <<ended, answers>>
  BY DEF ReadRowsCut
<1>2. /\ \A j \in AnyStream \ {i} : got'[j] = got[j] /\ pos'[j] = pos[j]
      /\ UNCHANGED <<tableVars, sessionVars>>
  BY <1>1, ReceiveFrame DEF IntactInv
<1>3. ASSUME intact
      PROVE  ReaderOK(i)'
  <2>1. PICK n \in 0..(Size(filtered, count, i) - pos[i]) :
           Arrived(i, m) = Part(snapshot, Start(filtered, count, i) + pos[i],
                                          Start(filtered, count, i) + pos[i] + n)
    BY <1>1, <1>3, ArrivedIsPart
  <2>2. /\ pos'[i] <= Size(filtered, count, i)
        /\ got'[i] = Part(snapshot, Start(filtered, count, i),
                                    Start(filtered, count, i) + pos'[i])
    BY <1>1, <1>3, <2>1, IntactReceive
  <2>3. \A a \in answers[i] : a = Slice(i)
    BY <1>1, <1>3, IntactStream DEF ReaderOK
  <2> QED
    BY <1>1, <1>2, <2>2, <2>3 DEF ReaderOK, Slice, sessionVars
<1> QED
  BY <1>1, <1>2, <1>3, IntactReader

LEMMA IntactReadRows ==
  ASSUME IntactInv, NEW i \in AnyStream, ReadRows(i), SessionTypeOK', CountOK'
  PROVE  IntactInv'
<1> DEFINE all == Select(Offset(i), Limit(i))
           left == Size(filtered, count, i) - pos[i]
<1>1. /\ i \in Streams /\ i \notin ended /\ Receive(i, all)
      /\ ended' = ended \cup {i}
      /\ answers' = [answers EXCEPT ![i] = @ \cup {got'[i]}]
  BY DEF ReadRows
<1>2. /\ \A j \in AnyStream \ {i} : got'[j] = got[j] /\ pos'[j] = pos[j]
      /\ UNCHANGED <<tableVars, sessionVars>>
  BY <1>1, ReceiveFrame DEF IntactInv
<1>3. answers \in [AnyStream -> SUBSET SUBSET (1..MaxRows)]
  BY DEF IntactInv, SessionTypeOK
<1>4. ASSUME intact
      PROVE  ReaderOK(i)'
  <2>1. all = Part(snapshot, Start(filtered, count, i) + pos[i], Start(filtered, count, i + 1))
    BY <1>1, <1>4, AnswerIsRest
  <2>2. /\ Start(filtered, count, i) \in Nat /\ Start(filtered, count, i + 1) \in Nat
        /\ Size(filtered, count, i) \in Nat
        /\ Size(filtered, count, i) = Start(filtered, count, i + 1) - Start(filtered, count, i)
        /\ pos[i] \in Nat /\ pos[i] <= Size(filtered, count, i)
    BY <1>1, <1>4, SliceOfStream, IntactStream DEF Size, ReaderOK
  <2>3. /\ left \in 0..left
        /\ Start(filtered, count, i) + pos[i] + left = Start(filtered, count, i + 1)
        /\ pos[i] + left = Size(filtered, count, i)
        /\ Start(filtered, count, i) + Size(filtered, count, i) = Start(filtered, count, i + 1)
    BY <2>2
  <2>4. /\ pos'[i] = pos[i] + left
        /\ got'[i] = Part(snapshot, Start(filtered, count, i),
                                    Start(filtered, count, i) + pos'[i])
    BY <1>1, <1>4, <2>1, <2>3, IntactReceive
  <2>5. pos'[i] = Size(filtered, count, i) /\ got'[i] = Slice(i)
    BY <2>3, <2>4 DEF Slice
  <2>6. answers'[i] = answers[i] \cup {Slice(i)}
    BY <1>1, <1>3, <2>5
  <2>7. \A a \in answers[i] : a = Slice(i)
    BY <1>1, <1>4, IntactStream DEF ReaderOK
  <2>8. UNCHANGED <<filtered, count>> /\ Slice(i)' = Slice(i) /\ UNCHANGED snapshot
    BY <1>2 DEF sessionVars, Slice
  <2> QED
    BY <2>2, <2>4, <2>5, <2>6, <2>7, <2>8 DEF ReaderOK
<1>5. \A j \in AnyStream \ {i} : answers'[j] = answers[j] /\ (j \in ended' <=> j \in ended)
  BY <1>1, <1>3
<1> QED
  BY <1>1, <1>2, <1>4, <1>5, IntactReader

LEMMA IntactRestart ==
  ASSUME IntactInv, NEW i \in AnyStream, Restart(i), SessionTypeOK', CountOK'
  PROVE  IntactInv'
<1>1. /\ i \in Streams /\ UNCHANGED <<tableVars, sessionVars, answers>>
      /\ got' = [got EXCEPT ![i] = {}] /\ pos' = [pos EXCEPT ![i] = 0]
      /\ ended' = ended \ {i}
  BY DEF Restart
<1>2. got'[i] = {} /\ pos'[i] = 0 /\ i \notin ended'
      /\ \A j \in AnyStream \ {i} : got'[j] = got[j] /\ pos'[j] = pos[j] /\ (j \in ended' <=> j \in ended)
  BY <1>1 DEF IntactInv, SessionTypeOK
<1>3. ASSUME intact
      PROVE  ReaderOK(i)'
  <2>1. /\ Start(filtered, count, i) \in Nat /\ Size(filtered, count, i) \in Nat
        /\ snapshot \in SUBSET (1..MaxRows)
        /\ \A a \in answers[i] : a = Slice(i)
    BY <1>1, <1>3, SliceOfStream, IntactStream DEF ReaderOK
  <2>2. Start(filtered, count, i) + 0 = Start(filtered, count, i)
    BY <2>1
  <2>3. Part(snapshot, Start(filtered, count, i), Start(filtered, count, i)) = {}
    BY <2>1, PartsFollow
  <2>4. UNCHANGED <<filtered, count, snapshot, answers>> /\ Slice(i)' = Slice(i)
    BY <1>1 DEF sessionVars, Slice
  <2> QED
    BY <1>2, <2>1, <2>2, <2>3, <2>4 DEF ReaderOK
<1> QED
  BY <1>1, <1>2, <1>3, IntactReader

LEMMA IntactNext == IntactInv /\ [Next]_vars => IntactInv'
<1> SUFFICES ASSUME IntactInv, [Next]_vars
             PROVE  IntactInv'
  OBVIOUS
<1>1. SessionTypeOK' /\ CountOK'
  BY SessionTypeNext DEF IntactInv
<1>2. CASE Insert
  BY <1>1, <1>2, IntactInsert
<1>3. ASSUME NEW r \in rows, Delete(r)
      PROVE  IntactInv'
  <2>1. /\ rows' = rows \ {r} /\ ~intact'
        /\ UNCHANGED <<inserted, filtered, count, got, pos, ended, answers>>
    BY <1>3 DEF Delete, readerVars
  <2>2. rows' \subseteq 1..inserted'
    BY <2>1 DEF IntactInv
  <2>3. \A i \in AnyStream \ Streams' : Idle(i)'
    BY <2>1 DEF IntactInv, Streams, Idle
  <2> QED
    BY <1>1, <2>1, <2>2, <2>3 DEF IntactInv
<1>4. ASSUME NEW requested \in Requests, CreateReadSession(requested)
      PROVE  IntactInv'
  BY <1>1, <1>4, IntactCreate
<1>5. ASSUME NEW i \in AnyStream, NEW m \in 1..MaxRows, ReadRowsCut(i, m)
      PROVE  IntactInv'
  BY <1>1, <1>5, IntactReadRowsCut
<1>6. ASSUME NEW i \in AnyStream, ReadRows(i)
      PROVE  IntactInv'
  BY <1>1, <1>6, IntactReadRows
<1>7. ASSUME NEW i \in AnyStream, Restart(i)
      PROVE  IntactInv'
  BY <1>1, <1>7, IntactRestart
<1>8. CASE UNCHANGED vars
  BY <1>8 DEF vars, tableVars, sessionVars, readerVars, IntactInv, SessionTypeOK,
     CountOK, Streams, SnapshotFirst, ReaderOK, Idle, Slice
<1> QED
  BY <1>2, <1>3, <1>4, <1>5, <1>6, <1>7, <1>8 DEF Next

LEMMA IntactAlways == Spec => []IntactInv
BY IntactInit, IntactNext, PTL DEF Spec

\* While no row of a session is deleted, none reaches its readers twice.
THEOREM NonOverlappingAlways == Spec => []NonOverlapping
<1>1. ASSUME IntactInv PROVE NonOverlapping
  <2> SUFFICES ASSUME intact
               PROVE  \A i \in Streams :
                        /\ Cardinality(got[i]) = pos[i]
                        /\ \A j \in Streams \ {i} : got[i] \cap got[j] = {}
    BY DEF NonOverlapping
  <2>1. ASSUME NEW i \in Streams
        PROVE  Cardinality(got[i]) = pos[i]
    <3> DEFINE lo == Start(filtered, count, i)
               p == pos[i]
    <3>1. lo \in Nat /\ lo + Size(filtered, count, i) <= filtered /\ filtered \in Nat
          /\ Size(filtered, count, i) \in Nat
      BY <1>1, SliceOfStream DEF Size
    <3>2. /\ p \in Nat /\ p <= Size(filtered, count, i)
          /\ got[i] = Part(snapshot, lo, lo + p)
          /\ snapshot \in SUBSET (1..MaxRows) /\ filtered = Cardinality(snapshot)
      BY <1>1, IntactStream DEF ReaderOK, SnapshotFirst
    <3> HIDE DEF lo, p
    <3>3. lo + p \in Nat /\ lo <= lo + p /\ lo + p <= Cardinality(snapshot)
      BY <3>1, <3>2
    <3>4. Cardinality(got[i]) = lo + p - lo
      BY <3>1, <3>2, <3>3, PartSize
    <3> QED
      BY <3>1, <3>2, <3>4 DEF p
  <2>2. ASSUME NEW i \in Streams, NEW j \in Streams, i < j
        PROVE  got[i] \cap got[j] = {}
    <3>1. /\ filtered \in Nat /\ count \in Nat \ {0} /\ i \in 0..(count - 1)
          /\ j \in 0..(count - 1)
      BY <1>1, SliceOfStream
    <3>2. i + 1 \in 0..count /\ j \in 0..count /\ i + 1 <= j
      BY <2>2, <3>1
    <3>3. Start(filtered, count, i + 1) <= Start(filtered, count, j)
      BY <3>1, <3>2, SlicesFollow
    <3>4. /\ Start(filtered, count, i) \in Nat /\ Start(filtered, count, i + 1) \in Nat
          /\ Start(filtered, count, j) \in Nat
      BY <1>1, SliceOfStream
    <3>5. /\ pos[i] \in Nat /\ pos[j] \in Nat
          /\ pos[i] <= Start(filtered, count, i + 1) - Start(filtered, count, i)
          /\ got[i] = Part(snapshot, Start(filtered, count, i), Start(filtered, count, i) + pos[i])
          /\ got[j] = Part(snapshot, Start(filtered, count, j), Start(filtered, count, j) + pos[j])
          /\ snapshot \in SUBSET (1..MaxRows)
      BY <1>1, IntactStream DEF ReaderOK, Size
    <3>6. /\ Start(filtered, count, i) + pos[i] \in Nat
          /\ Start(filtered, count, j) + pos[j] \in Nat
          /\ Start(filtered, count, i) + pos[i] <= Start(filtered, count, j)
      BY <3>3, <3>4, <3>5
    <3> DEFINE a == Start(filtered, count, i)
               b == Start(filtered, count, i) + pos[i]
               c == Start(filtered, count, j)
               d == Start(filtered, count, j) + pos[j]
    <3>7. /\ a \in Nat /\ b \in Nat /\ c \in Nat /\ d \in Nat /\ b <= c
          /\ got[i] = Part(snapshot, a, b) /\ got[j] = Part(snapshot, c, d)
      BY <3>4, <3>5, <3>6
    <3> HIDE DEF a, b, c, d
    <3>8. Part(snapshot, a, b) \cap Part(snapshot, c, d) = {}
      BY ONLY <3>5, <3>7, PartsFollow
    <3> QED
      BY <3>7, <3>8
  <2>3. \A i \in Streams : i \in Int
    BY DEF Streams
  <2> QED
    BY <2>1, <2>2, <2>3
<1> QED
  BY <1>1, IntactAlways, PTL

\* ... and readers that reach the ends of all streams have received exactly the
\* rows the session was created over.
THEOREM CompleteAlways == Spec => []Complete
<1>1. ASSUME IntactInv PROVE Complete
  <2> SUFFICES ASSUME intact, count > 0, Streams \subseteq ended
               PROVE  UNION {got[i] : i \in Streams} = snapshot
    BY DEF Complete
  <2>1. /\ filtered = Cardinality(snapshot) /\ snapshot \in SUBSET (1..MaxRows)
        /\ filtered \in Nat /\ count \in Nat \ {0}
    BY <1>1, SessionParametersAssumption DEF IntactInv, SessionTypeOK, SnapshotFirst
  <2>2. ASSUME NEW i \in Streams
        PROVE  got[i] = Slice(i)
    <3>1. Start(filtered, count, i) \in Nat /\ Start(filtered, count, i + 1) \in Nat
      BY <1>1, SliceOfStream
    <3>2. /\ pos[i] = Start(filtered, count, i + 1) - Start(filtered, count, i)
          /\ got[i] = Part(snapshot, Start(filtered, count, i), Start(filtered, count, i) + pos[i])
      BY <1>1, IntactStream DEF ReaderOK, Size
    <3>3. Start(filtered, count, i) + pos[i] = Start(filtered, count, i + 1)
      BY <3>1, <3>2
    <3> QED
      BY <3>2, <3>3 DEF Slice
  <2>3. ASSUME NEW i \in Streams, NEW r \in got[i]
        PROVE  r \in snapshot
    BY <2>2, <2>3 DEF Slice, Part
  <2>4. ASSUME NEW r \in snapshot
        PROVE  \E i \in Streams : r \in got[i]
    <3>1. Place(snapshot, r) \in 1..filtered
      BY <2>1, PlaceBounds
    <3>2. PICK i \in 0..(count - 1) :
            /\ Start(filtered, count, i) < Place(snapshot, r)
            /\ Place(snapshot, r) <= Start(filtered, count, i + 1)
      BY <2>1, <3>1, SlicesCover
    <3>3. i \in Streams
      BY DEF Streams
    <3>4. r \in got[i]
      BY <2>2, <3>2, <3>3 DEF Slice, Part
    <3> QED
      BY <3>3, <3>4
  <2> QED
    BY <2>3, <2>4
<1> QED
  BY <1>1, IntactAlways, PTL

\* ... and whoever reads a stream to its end again gets the same rows.
THEOREM RepeatableAlways == Spec => []RepeatableWhileIntact
<1>1. ASSUME IntactInv PROVE RepeatableWhileIntact
  <2> SUFFICES ASSUME intact, NEW i \in AnyStream
               PROVE  SameRows(i)
    BY DEF RepeatableWhileIntact
  <2>1. CASE i \in Streams
    BY <1>1, <2>1, IntactStream DEF ReaderOK, SameRows
  <2>2. CASE i \notin Streams
    BY <1>1, <2>2 DEF IntactInv, Idle, SameRows
  <2> QED
    BY <2>1, <2>2
<1> QED
  BY <1>1, IntactAlways, PTL
=============================================================================
