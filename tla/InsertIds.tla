----------------------------- MODULE InsertIds -----------------------------
(***************************************************************************)
(* The window of insertIds that tabledata.insertAll keeps per table, the   *)
(* class InsertIdDedup of src/src/routes/tabledata.ts.                     *)
(*                                                                         *)
(* A bucket is a JavaScript Map: it iterates in the order in which its     *)
(* keys were first set, and setting a key again leaves it where it is.     *)
(***************************************************************************)
EXTENDS Integers, Sequences, FiniteSetsExt

CONSTANTS
  Tables,       \* tables rows are inserted into
  Ids,          \* values of insertId
  WindowMs,     \* windowMs
  MaxPerTable,  \* maxPerTable
  SweepLimit,   \* expired entries dropped per call, 65 in the code
  MaxTime       \* bound: when the clock stops

ASSUME InsertIdsAssumption ==
  /\ WindowMs \in Nat \ {0}
  /\ MaxPerTable \in Nat \ {0}
  /\ SweepLimit \in Nat \ {0}
  /\ MaxTime \in Nat

VARIABLES
  now,      \* Date.now()
  bucket,   \* [t]: the entries of table t, the first one first
  evicted   \* history: <<t, id>> that MaxPerTable has thrown out

windowVars == <<now, bucket, evicted>>

Entries == [id : Ids, expiresAt : Nat]

-----------------------------------------------------------------------------
\* Entries the sweep drops: the expired ones up to the first that is not.
SweepLength(b) ==
  Max({n \in 0..Min({Len(b), SweepLimit}) : \A k \in 1..n : b[k].expiresAt <= now})

\* Mutant of Sweep: does not stop at an entry that has not expired.
SweepBlindly(b) == SubSeq(b, Min({Len(b), SweepLimit}) + 1, Len(b))

Sweep(b) == SubSeq(b, SweepLength(b) + 1, Len(b))

Known(b, id) == \E k \in DOMAIN b : b[k].id = id /\ b[k].expiresAt > now

\* Map.set
Set(b, id) ==
  LET entry == [id |-> id, expiresAt |-> now + WindowMs]
  IN  IF \E k \in DOMAIN b : b[k].id = id
      THEN [k \in DOMAIN b |-> IF b[k].id = id THEN entry ELSE b[k]]
      ELSE Append(b, entry)

\* Mutant of Full: one entry too many.
FullLate(b) == Len(b) > MaxPerTable + 1

Full(b) == Len(b) > MaxPerTable

\* seenOrRecord: the bucket it leaves, whether the id was seen, and the ids it
\* has thrown out.
SeenOrRecord(b, id) ==
  LET swept == Sweep(b)
      set   == Set(swept, id)
  IN  IF Known(swept, id)
      THEN [bucket |-> swept, seen |-> TRUE, out |-> {}]
      ELSE IF Full(set)
      THEN [bucket |-> Tail(set), seen |-> FALSE, out |-> {set[1].id}]
      ELSE [bucket |-> set, seen |-> FALSE, out |-> {}]

-----------------------------------------------------------------------------
WindowInit ==
  /\ now = 0
  /\ bucket = [t \in Tables |-> <<>>]
  /\ evicted = {}

Tick ==
  /\ now < MaxTime
  /\ now' = now + 1
  /\ UNCHANGED <<bucket, evicted>>

Submit(t, id) ==
  LET done == SeenOrRecord(bucket[t], id)
  IN  /\ bucket' = [bucket EXCEPT ![t] = done.bucket]
      /\ evicted' = evicted \cup {<<t, x>> : x \in done.out}
      /\ UNCHANGED now

WindowNext == Tick \/ \E t \in Tables, id \in Ids : Submit(t, id)

WindowSpec == WindowInit /\ [][WindowNext]_windowVars
-----------------------------------------------------------------------------
\* The comment on the buckets: "Map iterates insertion-order so the oldest
\* entry is always first", which the sweep and the eviction rely on.
OldestFirst ==
  \A t \in Tables : \A k \in DOMAIN bucket[t] :
    bucket[t][1].expiresAt <= bucket[t][k].expiresAt

\* The window of a table stays within its limit, with one entry per id.
WindowBounded ==
  \A t \in Tables :
    /\ Len(bucket[t]) <= MaxPerTable
    /\ \A j, k \in DOMAIN bucket[t] : bucket[t][j].id = bucket[t][k].id => j = k
=============================================================================
