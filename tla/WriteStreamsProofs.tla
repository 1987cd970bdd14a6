------------------------- MODULE WriteStreamsProofs -------------------------
(***************************************************************************)
(* Theorems about WriteStreams for every value of its constants: any       *)
(* number of streams, connections and calls, any interleaving.  First what *)
(* a single step does, then the safety invariants, with the inductive      *)
(* invariants they follow from: SafeInv needs no discipline of the         *)
(* clients; LogInv needs OneWriter.                                        *)
(***************************************************************************)
EXTENDS WriteStreams, SequenceTheorems, TLAPS

USE DEF Handlers, Steps

(***************************************************************************)
(* Lemmas about the rows of a stream.                                      *)
(***************************************************************************)

\* RowsOf is a sequence of rows; its length and its elements.
LEMMA RowsOfProperties ==
  ASSUME NEW s \in Targets, NEW lo \in Nat, NEW hi \in Nat,
         lo <= hi, hi <= LogLen
  PROVE  /\ RowsOf(s, lo, hi) \in Seq(Row)
         /\ Len(RowsOf(s, lo, hi)) = hi - lo
         /\ \A j \in 1..(hi - lo) : RowsOf(s, lo, hi)[j] = <<s, lo + j>>
<1> DEFINE f == RowsOf(s, lo, hi)
<1>1. hi - lo \in Nat
  OBVIOUS
<1>2. \A j \in 1..(hi - lo) : <<s, lo + j>> \in Row
  BY ParametersAssumption DEF Row
<1>3. f \in [1..(hi - lo) -> Row]
  BY <1>2 DEF RowsOf
<1>4. f \in Seq(Row)
  BY <1>1, <1>3, SeqDef
<1>5. Len(f) = hi - lo
  BY <1>1, <1>3, <1>4, LenProperties
<1>6. \A j \in 1..(hi - lo) : f[j] = <<s, lo + j>>
  BY DEF RowsOf
<1> QED
  BY <1>4, <1>5, <1>6

\* A flush takes rows off the front: what is left of the rows lo .. hi - 1
\* after n of them is the rows lo + n .. hi - 1.
LEMMA RowsOfSuffix ==
  ASSUME NEW s \in Targets, NEW lo \in Nat, NEW hi \in Nat, NEW n \in Nat,
         lo + n <= hi
  PROVE  SubSeq(RowsOf(s, lo, hi), n + 1, hi - lo) = RowsOf(s, lo + n, hi)
BY DEF RowsOf

\* An append at offset hi continues the rows lo .. hi - 1.
LEMMA RowsOfConcat ==
  ASSUME NEW s \in Targets, NEW lo \in Nat, NEW hi \in Nat, NEW top \in Nat,
         lo <= hi, hi <= top
  PROVE  RowsOf(s, lo, hi) \o RowsOf(s, hi, top) = RowsOf(s, lo, top)
BY DEF RowsOf

(***************************************************************************)
(* Type correctness.  What a handler has in hand is a stream and rows the  *)
(* client has: needed for `bound` and `acked` to hold rows only.           *)
(***************************************************************************)
InHand ==
  /\ \A h \in Handlers : Active(h) => dest[h] \in Targets
  /\ \A c \in Conns : msg[c].lo + msg[c].n <= LogLen

TypeInv == TypeOK /\ InHand

\* Passing a row to exec() keeps the types.
LEMMA ExecType ==
  ASSUME TypeInv, NEW h \in Handlers, NEW rows \in Seq(Row), NEW j \in Nat,
         Exec(h, rows, j)
  PROVE  /\ arg' \in [Handlers -> Row \cup {NoRow}]
         /\ rowNo' \in [Handlers -> Nat]
         /\ pc' \in [Handlers -> Steps]
         /\ pc'[h] = "preparing"
         /\ \A g \in Handlers \ {h} : pc'[g] = pc[g]
<1>1. j \in 1..Len(rows) => rows[j] \in Row
  BY ElementOfSeq
<1> QED
  BY <1>1 DEF Exec, TypeInv, TypeOK

\* The message in hand is a sequence of rows.
LEMMA MessageRows ==
  ASSUME TypeInv, NEW c \in Conns, Active(c)
  PROVE  /\ RowsOf(dest[c], msg[c].lo, msg[c].lo + msg[c].n) \in Seq(Row)
         /\ RowSet(dest[c], msg[c].lo, msg[c].lo + msg[c].n) \subseteq Row
<1>1. /\ dest[c] \in Targets /\ msg[c].lo \in Nat /\ msg[c].n \in Nat
      /\ msg[c].lo + msg[c].n <= LogLen
      /\ msg[c].lo + msg[c].n \in Nat /\ msg[c].lo <= msg[c].lo + msg[c].n
  BY DEF TypeInv, TypeOK, InHand
<1>2. RowsOf(dest[c], msg[c].lo, msg[c].lo + msg[c].n) \in Seq(Row)
  BY <1>1, RowsOfProperties
<1>3. RowSet(dest[c], msg[c].lo, msg[c].lo + msg[c].n) \subseteq Row
  BY <1>1, ParametersAssumption DEF RowSet, Row
<1> QED
  BY <1>2, <1>3

\* The array a call iterates is a sequence of rows.
LEMMA IteratedRows ==
  ASSUME TypeInv, NEW k \in Calls, dest[k] \in Targets
  PROVE  Iterated(k) \in Seq(Row)
<1>1. CASE held[k] = << >>
  BY <1>1 DEF Iterated, TypeInv, TypeOK
<1>2. CASE held[k] # << >>
  <2>1. held[k] \in Seq(Seq(Row))
    BY DEF TypeInv, TypeOK
  <2>2. 1 \in 1..Len(held[k])
    BY <1>2, <2>1, EmptySeq
  <2>3. held[k][1] \in Seq(Row)
    BY <2>1, <2>2, ElementOfSeq
  <2> QED
    BY <1>2, <2>3 DEF Iterated
<1> QED
  BY <1>1, <1>2

LEMMA TypeInit == Init => TypeInv
<1> SUFFICES ASSUME Init PROVE TypeInv
  OBVIOUS
<1>1. << >> \in Seq(Row) /\ << >> \in Seq(Seq(Row))
  BY EmptySeq
<1>2. TypeOK
  BY <1>1 DEF Init, TypeOK, NoMsg, Types
<1>3. InHand
  BY ParametersAssumption DEF Init, InHand, Active, NoMsg
<1> QED
  BY <1>2, <1>3 DEF TypeInv
\* CreateWriteStream and FinalizeWriteStream.
LEMMA TypeStreamStep ==
  ASSUME TypeInv, NEW s \in Targets,
         \/ \E ty \in Types : CreateWriteStream(s, ty)
         \/ FinalizeWriteStream(s)
  PROVE  TypeInv'
<1> USE DEF TypeInv, TypeOK, InHand, Active, streamVars, dbVars, connVars,
            callVars
<1>1. ASSUME NEW ty \in Types, CreateWriteStream(s, ty)
      PROVE  TypeInv'
  BY <1>1 DEF CreateWriteStream
<1>2. CASE FinalizeWriteStream(s)
  BY <1>2 DEF FinalizeWriteStream
<1> QED
  BY <1>1, <1>2

\* The database.
LEMMA TypeBind ==
  ASSUME TypeInv, NEW h \in Handlers, Bind(h)
  PROVE  TypeInv'
<1>1. /\ pc[h] = "preparing"
      /\ bound' = bound \/ bound' = [bound EXCEPT ![TableOf[dest[h]]] = arg[h]]
      /\ arg' = [arg EXCEPT ![h] = NoRow]
      /\ pc' = [pc EXCEPT ![h] = "running"]
      /\ UNCHANGED <<streamVars, copies, dest, rowNo, connVars, callVars, acked>>
  BY DEF Bind
<1>2. /\ bound' \in [{TableOf[s] : s \in Targets} -> Row \cup {NoRow}]
      /\ arg' \in [Handlers -> Row \cup {NoRow}]
      /\ pc' \in [Handlers -> Steps]
      /\ \A g \in Handlers : pc'[g] \notin {"idle", "done"} => pc[g] \notin {"idle", "done"}
  BY <1>1 DEF TypeInv, TypeOK
<1>3. TypeOK'
  BY <1>1, <1>2 DEF TypeInv, TypeOK, streamVars, connVars, callVars
<1>4. InHand'
  BY <1>1, <1>2 DEF TypeInv, InHand, Active, connVars
<1> QED
  BY <1>3, <1>4 DEF TypeInv

LEMMA TypeRun ==
  ASSUME TypeInv, NEW h \in Handlers, Run(h)
  PROVE  TypeInv'
<1> DEFINE r == bound[TableOf[dest[h]]]
<1>1. /\ pc[h] = "running"
      /\ UNCHANGED <<streamVars, bound, arg, dest, rowNo, connVars, callVars, acked>>
      /\ \/ /\ r \in Row
            /\ copies' = [copies EXCEPT ![r] = @ + 1]
            /\ pc' = [pc EXCEPT ![h] = "ran"]
         \/ /\ UNCHANGED copies
            /\ pc' = [pc EXCEPT ![h] = "threw"]
  BY DEF Run
<1>2. /\ pc \in [Handlers -> Steps]
      /\ copies \in [Row -> Nat]
  BY DEF TypeInv, TypeOK
<1> HIDE DEF r
<1>3. pc' = [pc EXCEPT ![h] = "ran"] \/ pc' = [pc EXCEPT ![h] = "threw"]
  BY <1>1
<1>4. pc' \in [Handlers -> Steps]
  BY <1>2, <1>3
<1>5. \A g \in Handlers : pc'[g] \notin {"idle", "done"} => pc[g] \notin {"idle", "done"}
  BY <1>1, <1>2, <1>3
<1>6. copies' \in [Row -> Nat]
  <2>1. CASE r \in Row /\ copies' = [copies EXCEPT ![r] = @ + 1]
    <3>1. copies[r] + 1 \in Nat
      BY <1>2, <2>1
    <3> QED
      BY <1>2, <2>1, <3>1
  <2>2. CASE UNCHANGED copies
    BY <1>2, <2>2
  <2> QED
    BY <1>1, <2>1, <2>2
<1>7. TypeOK'
  BY <1>1, <1>4, <1>6 DEF TypeInv, TypeOK, streamVars, connVars, callVars
<1>8. InHand'
  BY <1>1, <1>5 DEF TypeInv, InHand, Active, connVars
<1> QED
  BY <1>7, <1>8 DEF TypeInv

\* The messages of connection c.
LEMMA TypeAppendStep ==
  ASSUME TypeInv, NEW c \in Conns,
         \/ \E s \in Targets, lo \in 0..LogLen, n \in Batches : Receive(c, s, lo, n)
         \/ \E s \in Targets : RefuseContext(c, s)
         \/ Disconnect(c)
         \/ ContinueAppend(c)
  PROVE  TypeInv'
<1> USE DEF streamVars, dbVars, connVars, callVars
<1>0. /\ c \in Handlers /\ pc[c] # "idle" /\ pc[c] # "done" => dest[c] \in Targets
      /\ msg[c].lo \in Nat /\ msg[c].n \in Nat /\ rowNo[c] \in Nat
  BY DEF TypeInv, TypeOK, InHand, Active
<1>1. ASSUME NEW s \in Targets, NEW lo \in 0..LogLen, NEW n \in Batches,
             Receive(c, s, lo, n)
      PROVE  TypeInv'
  <2>1. /\ lo \in Nat /\ n \in Nat /\ lo + n <= LogLen
    BY <1>1, ParametersAssumption DEF Receive, WithinBound
  <2> QED
    BY <1>1, <2>1 DEF Receive, TypeInv, TypeOK, InHand, Active
<1>2. ASSUME NEW s \in Targets, RefuseContext(c, s)
      PROVE  TypeInv'
  BY <1>2 DEF RefuseContext, TypeInv, TypeOK, InHand, Active
<1>3. CASE Disconnect(c)
  BY <1>3 DEF Disconnect, TypeInv, TypeOK, InHand, Active
<1>4. CASE SkipAppend(c)
  BY <1>4, ParametersAssumption DEF SkipAppend, EndMessage, NoMsg, TypeInv, TypeOK, InHand, Active
<1>5. CASE CountRows(c)
  BY <1>5 DEF CountRows, TypeInv, TypeOK, InHand, Active
<1>6. CASE RejectMessage(c)
  BY <1>6, ParametersAssumption DEF RejectMessage, EndMessage, NoMsg, TypeInv, TypeOK, InHand, Active
<1>7. CASE FailAppend(c)
  BY <1>7, ParametersAssumption DEF FailAppend, EndMessage, NoMsg, TypeInv, TypeOK, InHand, Active
<1>8. CASE BufferAppend(c)
  <2>1. Active(c)
    BY <1>8 DEF BufferAppend, Admitted, Active
  <2>2. RowsOf(dest[c], msg[c].lo, msg[c].lo + msg[c].n) \in Seq(Row)
    BY <2>1, MessageRows
  <2>3. acked' \in SUBSET Row
    BY <1>8, <2>1, MessageRows DEF BufferAppend, Acknowledge, TypeInv, TypeOK
  <2>4. buffer[dest[c]] \o RowsOf(dest[c], msg[c].lo, msg[c].lo + msg[c].n) \in Seq(Row)
    BY <1>0, <2>1, <2>2, ConcatProperties DEF TypeInv, TypeOK, Active
  <2>5. buffer' \in [Targets -> Seq(Row)]
    BY <1>8, <2>4 DEF BufferAppend, TypeInv, TypeOK
  <2>9. offset' \in [Targets -> Nat]
    <3>1. offset[dest[c]] + msg[c].n \in Nat
      BY <1>0, <2>1 DEF TypeInv, TypeOK, Active
    <3> QED
      BY <1>8, <3>1 DEF BufferAppend, Written, TypeInv, TypeOK
  <2>6. TypeOK'
    BY <1>0, <1>8, <2>3, <2>5, <2>9 DEF BufferAppend, EndMessage, NoMsg, TypeInv, TypeOK
  <2>7. InHand'
    BY <1>8, ParametersAssumption DEF BufferAppend, EndMessage, NoMsg, TypeInv, TypeOK, InHand, Active
  <2> QED
    BY <2>6, <2>7 DEF TypeInv
<1>9. CASE InsertFirst(c) \/ InsertNext(c)
  <2> DEFINE rows == RowsOf(dest[c], msg[c].lo, msg[c].lo + msg[c].n)
  <2>1. Active(c)
    BY <1>9 DEF InsertFirst, InsertNext, Admitted, Active
  <2>2. rows \in Seq(Row) /\ dest[c] \in Targets
    BY <1>0, <2>1, MessageRows DEF Active
  <2>3. PICK j \in Nat : Exec(c, rows, j)
    BY <1>0, <1>9 DEF InsertFirst, InsertNext
  <2>4. UNCHANGED <<streamVars, copies, bound, dest, connVars, callVars, acked>>
    BY <1>9 DEF InsertFirst, InsertNext
  <2>5. /\ arg' \in [Handlers -> Row \cup {NoRow}]
        /\ rowNo' \in [Handlers -> Nat]
        /\ pc' \in [Handlers -> Steps]
        /\ pc'[c] = "preparing"
        /\ \A g \in Handlers \ {c} : pc'[g] = pc[g]
    BY <2>2, <2>3, ExecType
  <2> QED
    BY <2>1, <2>2, <2>4, <2>5 DEF TypeInv, TypeOK, InHand, Active
<1>10. CASE FinishAppend(c)
  <2>1. Active(c) /\ dest[c] \in Targets
    BY <1>0, <1>10 DEF FinishAppend, Active
  <2>2. acked' \in SUBSET Row
    BY <1>10, <2>1, MessageRows DEF FinishAppend, Acknowledge, TypeInv, TypeOK
  <2>3. offset' \in [Targets -> Nat] /\ flushed' \in [Targets -> Nat]
    <3>1. offset[dest[c]] + msg[c].n \in Nat
      BY <1>0, <2>1 DEF TypeInv, TypeOK
    <3>2. CASE Explicit(dest[c])
      BY <1>10, <3>1, <3>2 DEF FinishAppend, Written, TypeInv, TypeOK
    <3>3. CASE ~Explicit(dest[c])
      BY <1>10, <3>3 DEF FinishAppend, TypeInv, TypeOK
    <3> QED
      BY <3>2, <3>3
  <2>4. TypeOK'
    BY <1>10, <2>2, <2>3 DEF FinishAppend, EndMessage, NoMsg, TypeInv, TypeOK
  <2>5. InHand'
    BY <1>10, ParametersAssumption DEF FinishAppend, EndMessage, NoMsg, TypeInv, TypeOK, InHand, Active
  <2> QED
    BY <2>4, <2>5 DEF TypeInv
<1> QED
  BY <1>1, <1>2, <1>3, <1>4, <1>5, <1>6, <1>7, <1>8, <1>9, <1>10
  DEF ContinueAppend
\* The first step of a flush, and each step of it.
LEMMA TypeFlushStep ==
  ASSUME TypeInv, NEW k \in Calls,
         \/ \E s \in Targets, target \in 1..LogLen : FlushRows(k, s, target)
         \/ FlushNext(k) \/ FlushDone(k) \/ FailCall(k)
  PROVE  TypeInv'
<1> USE DEF streamVars, dbVars, connVars, callVars
<1>0. /\ k \in Handlers /\ k \notin Conns
      /\ pc[k] # "idle" /\ pc[k] # "done" => dest[k] \in Targets
      /\ rowNo[k] \in Nat /\ size[k] \in Nat /\ upto[k] \in Nat
  BY ParametersAssumption DEF TypeInv, TypeOK, InHand, Active
<1>1. ASSUME NEW s \in Targets, NEW target \in 1..LogLen, FlushRows(k, s, target)
      PROVE  TypeInv'
  <2>1. target \in Nat /\ target - flushed[s] \in Nat
    BY <1>1, ParametersAssumption DEF FlushRows, InRange, TypeInv, TypeOK
  <2>2. Exec(k, buffer[s], 1) /\ buffer[s] \in Seq(Row)
    BY <1>1 DEF FlushRows, TypeInv, TypeOK
  <2>3. /\ arg' \in [Handlers -> Row \cup {NoRow}]
        /\ rowNo' \in [Handlers -> Nat]
        /\ pc' \in [Handlers -> Steps]
        /\ \A g \in Handlers \ {k} : pc'[g] = pc[g]
    BY <1>0, <2>2, ExecType
  <2> QED
    BY <1>0, <1>1, <2>1, <2>3 DEF FlushRows, TypeInv, TypeOK, InHand, Active
<1>2. CASE FlushNext(k)
  <2>1. dest[k] \in Targets
    BY <1>0, <1>2 DEF FlushNext
  <2>2. /\ Exec(k, buffer[dest[k]], rowNo[k] + 1)
        /\ buffer[dest[k]] \in Seq(Row) /\ rowNo[k] + 1 \in Nat
    BY <1>0, <1>2, <2>1 DEF FlushNext, TypeInv, TypeOK
  <2>3. /\ arg' \in [Handlers -> Row \cup {NoRow}]
        /\ rowNo' \in [Handlers -> Nat]
        /\ pc' \in [Handlers -> Steps]
        /\ \A g \in Handlers \ {k} : pc'[g] = pc[g]
    BY <1>0, <2>1, <2>2, ExecType
  <2> QED
    BY <1>0, <1>2, <2>1, <2>3 DEF FlushNext, TypeInv, TypeOK, InHand, Active
<1>3. CASE FlushDone(k)
  <2>1. dest[k] \in Targets
    BY <1>0, <1>3 DEF FlushDone
  <2>2. Unflushed(dest[k], size[k]) \in Seq(Row)
    <3> DEFINE b == buffer[dest[k]]
    <3>1. b \in Seq(Row)
      BY <2>1 DEF TypeInv, TypeOK
    <3>2. Len(b) \in Nat /\ \A i \in (size[k] + 1)..Len(b) : b[i] \in Row
      BY <1>0, <3>1, ElementOfSeq, LenProperties
    <3> QED
      BY <1>0, <3>2, SubSeqProperties DEF Unflushed
  <2>3. TypeOK'
    BY <1>0, <1>3, <2>1, <2>2 DEF FlushDone, EndCall, TypeInv, TypeOK
  <2>4. InHand'
    BY <1>0, <1>3 DEF FlushDone, EndCall, TypeInv, TypeOK, InHand, Active
  <2> QED
    BY <2>3, <2>4 DEF TypeInv
<1>4. CASE FailCall(k)
  BY <1>0, <1>4 DEF FailCall, EndCall, TypeInv, TypeOK, InHand, Active
<1> QED
  BY <1>1, <1>2, <1>3, <1>4

\* Committing streams and going on with the next.
LEMMA TypeCommitAndGoOn ==
  ASSUME TypeInv, NEW k \in Calls, NEW now \in SUBSET Targets,
         NEW rest \in SUBSET Targets, CommitAndGoOn(k, now, rest),
         UNCHANGED <<type, offset, copies, bound, connVars, upto, size, acked>>
  PROVE  TypeInv'
<1>0. k \in Handlers /\ k \notin Conns
  BY ParametersAssumption
<1>1. PICK empties \in SUBSET {s \in rest : buffer[s] = << >>} :
        LET S == now \cup empties IN
        /\ state' = [s \in Targets |-> IF s \in S THEN "COMMITTED" ELSE state[s]]
        /\ flushed' = [s \in Targets |-> IF s \in S THEN offset[s] ELSE flushed[s]]
        /\ buffer' = [s \in Targets |-> IF s \in S THEN << >> ELSE buffer[s]]
        /\ Freeze(k, S)
        /\ \/ /\ empties = rest
              /\ EndCall(k)
              /\ UNCHANGED arg
           \/ \E s \in rest :
                /\ buffer[s] # << >>
                /\ dest' = [dest EXCEPT ![k] = s]
                /\ todo' = [todo EXCEPT ![k] = (rest \ empties) \ {s}]
                /\ Exec(k, buffer[s], 1)
  BY DEF CommitAndGoOn
<1>2. << >> \in Seq(Row) /\ << >> \in Seq(Seq(Row))
  BY EmptySeq
<1>3. /\ state' \in [Targets -> {"NONE", "ACTIVE", "FINALIZED", "COMMITTED"}]
      /\ flushed' \in [Targets -> Nat]
      /\ buffer' \in [Targets -> Seq(Row)]
  BY <1>1, <1>2 DEF TypeInv, TypeOK
<1>4. held' \in [Calls -> Seq(Seq(Row))]
  <2>1. ASSUME NEW j \in Calls, Active(j)
        PROVE  <<Iterated(j)>> \in Seq(Seq(Row))
    BY <2>1, IteratedRows DEF TypeInv, InHand
  <2> QED
    BY <1>1, <1>2, <2>1 DEF Freeze, TypeInv, TypeOK
<1>5. /\ arg' \in [Handlers -> Row \cup {NoRow}]
      /\ rowNo' \in [Handlers -> Nat]
      /\ pc' \in [Handlers -> Steps]
      /\ dest' \in [Handlers -> Targets \cup {NoStream}]
      /\ todo' \in [Calls -> SUBSET Targets]
      /\ pc'[k] # "done" => dest'[k] \in Targets
      /\ \A g \in Handlers \ {k} : pc'[g] = pc[g] /\ dest'[g] = dest[g]
  <2>1. CASE EndCall(k) /\ UNCHANGED arg
    BY <1>0, <2>1 DEF EndCall, TypeInv, TypeOK
  <2>2. ASSUME NEW s \in rest, dest' = [dest EXCEPT ![k] = s],
               todo' = [todo EXCEPT ![k] = (rest \ empties) \ {s}],
               Exec(k, buffer[s], 1)
        PROVE  <1>5!:
    <3>1. buffer[s] \in Seq(Row) /\ s \in Targets
      BY DEF TypeInv, TypeOK
    <3>2. /\ arg' \in [Handlers -> Row \cup {NoRow}]
          /\ rowNo' \in [Handlers -> Nat]
          /\ pc' \in [Handlers -> Steps]
          /\ \A g \in Handlers \ {k} : pc'[g] = pc[g]
      BY <1>0, <2>2, <3>1, ExecType
    <3> QED
      BY <1>0, <2>2, <3>1, <3>2 DEF TypeInv, TypeOK
  <2> QED
    BY <1>1, <2>1, <2>2
<1>6. TypeOK'
  BY <1>3, <1>4, <1>5 DEF TypeInv, TypeOK, connVars
<1>7. InHand'
  BY <1>0, <1>5 DEF TypeInv, InHand, Active, connVars
<1> QED
  BY <1>6, <1>7 DEF TypeInv

LEMMA TypeCommitStep ==
  ASSUME TypeInv, NEW k \in Calls,
         \/ \E names \in SUBSET Targets : BatchCommit(k, names)
         \/ CommitNext(k) \/ CommitStreamDone(k)
  PROVE  TypeInv'
<1>0. /\ k \in Handlers /\ k \notin Conns
      /\ pc[k] # "idle" /\ pc[k] # "done" => dest[k] \in Targets
      /\ rowNo[k] \in Nat /\ todo[k] \in SUBSET Targets
  BY ParametersAssumption DEF TypeInv, TypeOK, InHand, Active
<1>1. ASSUME NEW names \in SUBSET Targets, BatchCommit(k, names)
      PROVE  TypeInv'
  <2> DEFINE targets == {s \in names : Committable(s)}
  <2>1. /\ CommitAndGoOn(k, {}, targets)
        /\ UNCHANGED <<type, offset, copies, bound, connVars, upto, size, acked>>
    BY <1>1 DEF BatchCommit
  <2>2. targets \in SUBSET Targets /\ {} \in SUBSET Targets
    OBVIOUS
  <2> HIDE DEF targets
  <2> QED
    BY <2>1, <2>2, TypeCommitAndGoOn
<1>2. CASE CommitStreamDone(k)
  <2>1. /\ CommitAndGoOn(k, {dest[k]}, todo[k])
        /\ UNCHANGED <<type, offset, copies, bound, connVars, upto, size, acked>>
        /\ {dest[k]} \in SUBSET Targets /\ todo[k] \in SUBSET Targets
    BY <1>0, <1>2 DEF CommitStreamDone
  <2> QED
    BY <2>1, TypeCommitAndGoOn
<1>3. CASE CommitNext(k)
  <2>1. dest[k] \in Targets /\ rowNo[k] + 1 \in Nat
    BY <1>0, <1>3 DEF CommitNext
  <2>2. Exec(k, Iterated(k), rowNo[k] + 1) /\ Iterated(k) \in Seq(Row)
    BY <1>3, <2>1, IteratedRows DEF CommitNext
  <2>3. /\ arg' \in [Handlers -> Row \cup {NoRow}]
        /\ rowNo' \in [Handlers -> Nat]
        /\ pc' \in [Handlers -> Steps]
        /\ \A g \in Handlers \ {k} : pc'[g] = pc[g]
    BY <1>0, <2>1, <2>2, ExecType
  <2> QED
    BY <1>0, <1>3, <2>1, <2>3
    DEF CommitNext, TypeInv, TypeOK, InHand, Active, streamVars, connVars, callVars
<1> QED
  BY <1>1, <1>2, <1>3

LEMMA TypeNext == TypeInv /\ [Next]_vars => TypeInv'
<1> SUFFICES ASSUME TypeInv, [Next]_vars PROVE TypeInv'
  OBVIOUS
<1>1. CASE UNCHANGED vars
  BY <1>1 DEF vars, TypeInv, TypeOK, InHand, Active, streamVars, dbVars,
              connVars, callVars
<1>2. ASSUME NEW s \in Targets,
             (\E ty \in Types : CreateWriteStream(s, ty)) \/ FinalizeWriteStream(s)
      PROVE  TypeInv'
  BY <1>2, TypeStreamStep
<1>3. ASSUME NEW h \in Handlers, Bind(h) \/ Run(h)
      PROVE  TypeInv'
  BY <1>3, TypeBind, TypeRun
<1>4. ASSUME NEW c \in Conns,
             \/ \E s \in Uses[c], lo \in 0..LogLen, n \in Batches : Receive(c, s, lo, n)
             \/ \E s \in Uses[c] : RefuseContext(c, s)
             \/ Disconnect(c)
             \/ ContinueAppend(c)
      PROVE  TypeInv'
  <2>1. Uses[c] \subseteq Targets
    BY ParametersAssumption
  <2> QED
    BY <1>4, <2>1, TypeAppendStep
<1>5. ASSUME NEW k \in Calls,
             \/ \E s \in Targets, target \in 1..LogLen : FlushRows(k, s, target)
             \/ \E names \in SUBSET Targets : BatchCommit(k, names)
             \/ ContinueCall(k)
      PROVE  TypeInv'
  BY <1>5, TypeFlushStep, TypeCommitStep DEF ContinueCall
<1> QED
  BY <1>1, <1>2, <1>3, <1>4, <1>5 DEF Next

\* Type correctness of the Write API, for all streams, clients and schedules.
THEOREM TypeCorrect == Spec => []TypeOK
<1>1. TypeInv => TypeOK
  BY DEF TypeInv
<1> QED
  BY <1>1, TypeInit, TypeNext, PTL DEF Spec
-----------------------------------------------------------------------------

(***************************************************************************)
(* The inductive invariant without any discipline.                         *)
(***************************************************************************)

\* A stream has a type from the moment it has a state, `_default` streams
\* have neither, and before that moment nothing was appended.
Created(s) ==
  /\ (state[s] = "NONE") <=> (type[s] = "NONE")
  /\ s \in Defaults => type[s] = "NONE"
  /\ type[s] = "NONE" => buffer[s] = << >> /\ offset[s] = 0 /\ flushed[s] = 0

Sealed(s) == type[s] = "PENDING" /\ state[s] \in {"FINALIZED", "COMMITTED"}

\* A connection works on a stream it has a context for, and inserts only if
\* that is not a buffering one.
AppendWork(c) ==
  /\ \A s \in ctx[c] : Explicit(s) => type[s] # "NONE"
  /\ Active(c) => dest[c] \in ctx[c]
  /\ pc[c] \in {"counted", "preparing", "running", "ran", "threw"} => Immediate(dest[c])

\* A call flushes a BUFFERED stream no further than its end, or commits
\* PENDING ones that were finalized.
CallWork(k) ==
  /\ Active(k) => \/ type[dest[k]] = "BUFFERED" /\ upto[k] <= offset[dest[k]]
                  \/ Sealed(dest[k])
  /\ \A s \in todo[k] : Sealed(s)
  /\ pc[k] = "idle" => held[k] = << >>

\* The rows of the client's data for s.
DataOf(s) == {s} \X (1..LogLen)

\* A buffer holds rows of its own stream, also one that was replaced while a
\* commit iterates it.
OwnRows ==
  /\ \A s \in Targets : buffer[s] \in Seq(DataOf(s))
  /\ \A k \in Calls : Active(k) => held[k] \in Seq(Seq(DataOf(dest[k])))

\* Nothing of a PENDING stream that is not finalized is in its table, and no
\* statement is about to put it there.
Closed(s) == Explicit(s) /\ type[s] \in {"NONE", "PENDING"}
             /\ state[s] \in {"NONE", "ACTIVE"}
Hidden ==
  \A r \in Row : Closed(r[1]) =>
    /\ copies[r] = 0
    /\ \A t \in {TableOf[s] : s \in Targets} : bound[t] # r
    /\ \A h \in Handlers : arg[h] # r

SafeInv ==
  /\ TypeInv
  /\ \A s \in Targets : Created(s)
  /\ \A c \in Conns : AppendWork(c)
  /\ \A k \in Calls : CallWork(k)
  /\ OwnRows
  /\ Hidden
  /\ FlushedWithinOffset
  /\ PendingBufferIsLog

(***************************************************************************)
(* With one inserting handler per table at a time.                         *)
(***************************************************************************)

\* A handler that flushes is the only one that does so for its stream, and
\* the stream's buffer still begins with the rows it has to insert.
FlushInHand(k) ==
  Active(k) /\ type[dest[k]] = "BUFFERED" =>
    /\ size[k] \in Nat \ {0}
    /\ flushed[dest[k]] + size[k] = upto[k]
    /\ \A g \in Calls \ {k} : Active(g) => dest[g] # dest[k]

LogInv == SafeInv /\ BufferIsLog /\ \A k \in Calls : FlushInHand(k)

-----------------------------------------------------------------------------
\* The number of rows between two positions.
LEMMA RowsOfLen ==
  ASSUME NEW s \in Targets, NEW lo \in Nat, NEW hi \in Nat, lo <= hi
  PROVE  Len(RowsOf(s, lo, hi)) = hi - lo
<1> DEFINE f == RowsOf(s, lo, hi)
<1>1. hi - lo \in Nat /\ f \in [1..(hi - lo) -> Targets \X Int]
  BY DEF RowsOf
<1> HIDE DEF f
<1>2. f \in Seq(Targets \X Int)
  BY <1>1, SeqDef
<1>3. Len(f) = hi - lo
  BY <1>1, <1>2, LenProperties
<1> QED
  BY <1>3 DEF f

\* No rows between equal positions.
LEMMA RowsOfNone ==
  ASSUME NEW s \in Targets, NEW lo \in Nat
  PROVE  RowsOf(s, lo, lo) = << >>
BY DEF RowsOf

\* The rows of s up to LogLen are its client's data.
LEMMA RowsOfData ==
  ASSUME NEW s \in Targets, NEW lo \in Nat, NEW hi \in Nat,
         lo <= hi, hi <= LogLen
  PROVE  RowsOf(s, lo, hi) \in Seq(DataOf(s))
<1>1. hi - lo \in Nat
  OBVIOUS
<1>2. \A j \in 1..(hi - lo) : <<s, lo + j>> \in DataOf(s)
  BY ParametersAssumption DEF DataOf
<1>3. RowsOf(s, lo, hi) \in [1..(hi - lo) -> DataOf(s)]
  BY <1>2 DEF RowsOf
<1> QED
  BY <1>1, <1>3, SeqDef

\* The array a commit iterates holds rows of the stream it commits.
LEMMA IteratedData ==
  ASSUME SafeInv, NEW k \in Calls, Active(k)
  PROVE  Iterated(k) \in Seq(DataOf(dest[k]))
<1>1. /\ dest[k] \in Targets
      /\ buffer[dest[k]] \in Seq(DataOf(dest[k]))
      /\ held[k] \in Seq(Seq(DataOf(dest[k])))
  BY DEF SafeInv, TypeInv, InHand, OwnRows
<1>2. CASE held[k] = << >>
  BY <1>1, <1>2 DEF Iterated
<1>3. CASE held[k] # << >>
  <2>1. 1 \in 1..Len(held[k])
    BY <1>1, <1>3, EmptySeq
  <2> QED
    BY <1>1, <1>3, <2>1, ElementOfSeq DEF Iterated
<1> QED
  BY <1>2, <1>3

\* Passing on a row of a stream that may be seen hides the others as before.
LEMMA ExecHidden ==
  ASSUME SafeInv, NEW h \in Handlers, NEW s \in Targets,
         NEW rows \in Seq(DataOf(s)), NEW j \in Nat,
         Exec(h, rows, j), UNCHANGED <<copies, bound>>,
         ~Closed(s), \A x \in Targets : Closed(x)' => Closed(x)
  PROVE  Hidden'
<1>1. j \in 1..Len(rows) => rows[j] \in DataOf(s)
  BY ElementOfSeq
<1>2. \A g \in Handlers : arg'[g] \in {arg[g], NoRow} \cup DataOf(s)
  BY <1>1 DEF Exec, SafeInv, TypeInv, TypeOK
<1>3. ASSUME NEW r \in Row, Closed(r[1])'
      PROVE  /\ copies'[r] = 0
             /\ \A t \in {TableOf[x] : x \in Targets} : bound'[t] # r
             /\ \A g \in Handlers : arg'[g] # r
  <2>1. r[1] \in Targets /\ r # NoRow
    BY ParametersAssumption DEF Row
  <2>2. Closed(r[1]) /\ r[1] # s
    BY <1>3, <2>1
  <2>3. r \notin DataOf(s)
    BY <2>2 DEF DataOf
  <2> QED
    BY <1>2, <2>1, <2>2, <2>3 DEF SafeInv, Hidden
<1> QED
  BY <1>3 DEF Hidden

LEMMA SafeInit == Init => SafeInv
<1> SUFFICES ASSUME Init PROVE SafeInv
  OBVIOUS
<1>1. TypeInv
  BY TypeInit
<1>2. \A s \in Targets : Created(s)
  BY DEF Init, Created
<1>3. /\ \A c \in Conns : AppendWork(c)
      /\ \A k \in Calls : CallWork(k)
  BY DEF Init, AppendWork, CallWork, Active
<1>4. OwnRows
  BY EmptySeq DEF Init, OwnRows, Active
<1>5. Hidden
  BY ParametersAssumption DEF Init, Hidden
<1>6. FlushedWithinOffset /\ PendingBufferIsLog
  BY DEF Init, FlushedWithinOffset, PendingBufferIsLog
<1> QED
  BY <1>1, <1>2, <1>3, <1>4, <1>5, <1>6 DEF SafeInv

\* CreateWriteStream and FinalizeWriteStream.
LEMMA SafeCreate ==
  ASSUME SafeInv, NEW s \in Targets, NEW ty \in Types, CreateWriteStream(s, ty)
  PROVE  SafeInv'
<1>1. TypeInv'
  BY TypeStreamStep DEF SafeInv
<1>2. /\ Explicit(s) /\ state[s] = "NONE" /\ type[s] = "NONE"
      /\ buffer[s] = << >> /\ offset[s] = 0 /\ flushed[s] = 0
      /\ type' = [type EXCEPT ![s] = ty]
      /\ state' = [state EXCEPT ![s] = "ACTIVE"]
      /\ UNCHANGED <<offset, flushed, buffer, copies, bound, arg, pc, dest, rowNo, msg,
                     ctx, closed, upto, size, todo, held, acked>>
      /\ type \in [Targets -> Types \cup {"NONE"}]
      /\ state \in [Targets -> {"NONE", "ACTIVE", "FINALIZED", "COMMITTED"}]
  BY DEF CreateWriteStream, SafeInv, Created, TypeInv, TypeOK, dbVars, connVars,
         callVars
<1>3. /\ \A x \in Targets \ {s} : type'[x] = type[x] /\ state'[x] = state[x]
      /\ type'[s] = ty /\ state'[s] = "ACTIVE" /\ ty # "NONE"
  BY <1>2 DEF Types
<1>4. \A x \in Targets : Created(x)'
  BY <1>2, <1>3 DEF SafeInv, Created, Explicit
<1>5. \A c \in Conns : AppendWork(c)'
  <2>1. ASSUME NEW c \in Conns PROVE AppendWork(c)'
    <3>1. AppendWork(c) /\ (Active(c) => dest[c] \in Targets) /\ ctx[c] \subseteq Targets
      BY DEF SafeInv, TypeInv, TypeOK, InHand
    <3>2. Active(c) => dest[c] # s
      BY <1>2, <3>1 DEF AppendWork
    <3> QED
      BY <1>2, <1>3, <3>1, <3>2 DEF AppendWork, Active, Immediate
  <2> QED
    BY <2>1
<1>6. \A k \in Calls : CallWork(k)'
  <2>1. ASSUME NEW k \in Calls PROVE CallWork(k)'
    <3>1. CallWork(k) /\ (Active(k) => dest[k] \in Targets) /\ todo[k] \subseteq Targets
      BY DEF SafeInv, TypeInv, TypeOK, InHand
    <3>2. (Active(k) => dest[k] # s) /\ s \notin todo[k]
      BY <1>2, <3>1 DEF CallWork, Sealed
    <3> QED
      BY <1>2, <1>3, <3>1, <3>2 DEF CallWork, Active, Sealed
  <2> QED
    BY <2>1
<1>7. OwnRows'
  BY <1>2 DEF SafeInv, OwnRows, Active
<1>8. Hidden'
  <2>1. \A x \in Targets : Closed(x)' => Closed(x)
    BY <1>2, <1>3 DEF Closed
  <2> QED
    BY <1>2, <2>1 DEF SafeInv, Hidden, Row
<1>9. FlushedWithinOffset' /\ PendingBufferIsLog'
  BY <1>2, <1>3, RowsOfNone
  DEF SafeInv, FlushedWithinOffset, PendingBufferIsLog
<1> QED
  BY <1>1, <1>4, <1>5, <1>6, <1>7, <1>8, <1>9 DEF SafeInv

LEMMA SafeFinalize ==
  ASSUME SafeInv, NEW s \in Targets, FinalizeWriteStream(s)
  PROVE  SafeInv'
<1>1. TypeInv'
  BY TypeStreamStep DEF SafeInv
<1>2. /\ state[s] \in {"ACTIVE", "FINALIZED"}
      /\ state' = [state EXCEPT ![s] = "FINALIZED"]
      /\ UNCHANGED <<type, offset, flushed, buffer, copies, bound, arg, pc, dest,
                     rowNo, msg, ctx, closed, upto, size, todo, held, acked>>
      /\ state \in [Targets -> {"NONE", "ACTIVE", "FINALIZED", "COMMITTED"}]
  BY DEF FinalizeWriteStream, Finalizable, SafeInv, TypeInv, TypeOK, dbVars,
         connVars, callVars
<1>3. \A x \in Targets : Created(x)' /\ (Closed(x)' => Closed(x)) /\ (Sealed(x) => Sealed(x)')
  BY <1>2 DEF SafeInv, Created, Closed, Sealed
<1>4. \A c \in Conns : AppendWork(c)'
  BY <1>2 DEF SafeInv, AppendWork, Active, Immediate
<1>5. \A k \in Calls : CallWork(k)'
  <2>1. \A k \in Calls : /\ Active(k) => dest[k] \in Targets
                         /\ todo[k] \subseteq Targets
    BY DEF SafeInv, TypeInv, TypeOK, InHand
  <2> QED
    BY <1>2, <1>3, <2>1 DEF SafeInv, CallWork, Active
<1>6. OwnRows' /\ FlushedWithinOffset' /\ PendingBufferIsLog'
  BY <1>2 DEF SafeInv, OwnRows, Active, FlushedWithinOffset, PendingBufferIsLog
<1>7. Hidden'
  BY <1>2, <1>3 DEF SafeInv, Hidden, Row
<1> QED
  BY <1>1, <1>3, <1>4, <1>5, <1>6, <1>7 DEF SafeInv

\* Binding the row a handler passed to exec().
LEMMA SafeBind ==
  ASSUME SafeInv, NEW h \in Handlers, Bind(h)
  PROVE  SafeInv'
<1>1. TypeInv'
  BY TypeBind DEF SafeInv
<1>2. /\ pc[h] = "preparing"
      /\ bound' = bound \/ bound' = [bound EXCEPT ![TableOf[dest[h]]] = arg[h]]
      /\ arg' = [arg EXCEPT ![h] = NoRow]
      /\ pc' = [pc EXCEPT ![h] = "running"]
      /\ UNCHANGED <<type, state, offset, flushed, buffer, copies, dest, rowNo, msg,
                     ctx, closed, upto, size, todo, held, acked>>
      /\ pc \in [Handlers -> Steps]
      /\ arg \in [Handlers -> Row \cup {NoRow}]
      /\ bound \in [{TableOf[s] : s \in Targets} -> Row \cup {NoRow}]
  BY DEF Bind, SafeInv, TypeInv, TypeOK, streamVars, connVars, callVars
<1>3. /\ \A g \in Handlers : Active(g)' <=> Active(g)
      /\ \A g \in Handlers : pc'[g] = "idle" <=> pc[g] = "idle"
      /\ \A g \in Handlers : pc'[g] \in {"counted", "preparing", "running", "ran", "threw"} <=>
                             pc[g] \in {"counted", "preparing", "running", "ran", "threw"}
  BY <1>2 DEF Active
<1>4. \A x \in Targets : Created(x)'
  BY <1>2 DEF SafeInv, Created
<1>5. \A c \in Conns : AppendWork(c)'
  BY <1>2, <1>3 DEF SafeInv, AppendWork, Immediate
<1>6. \A k \in Calls : CallWork(k)'
  BY <1>2, <1>3 DEF SafeInv, CallWork, Sealed
<1>7. OwnRows'
  BY <1>2, <1>3 DEF SafeInv, OwnRows
<1>8. Hidden'
  <2>1. ASSUME NEW r \in Row, Closed(r[1])
        PROVE  /\ copies[r] = 0
               /\ \A t \in {TableOf[s] : s \in Targets} : bound'[t] # r
               /\ \A g \in Handlers : arg'[g] # r
    <3>1. r # NoRow
      BY ParametersAssumption
    <3>2. /\ copies[r] = 0
          /\ \A t \in {TableOf[s] : s \in Targets} : bound[t] # r
          /\ \A g \in Handlers : arg[g] # r
      BY <2>1 DEF SafeInv, Hidden
    <3> QED
      BY <1>2, <3>1, <3>2
  <2> QED
    BY <1>2, <2>1 DEF Hidden, Closed
<1>9. FlushedWithinOffset' /\ PendingBufferIsLog'
  BY <1>2 DEF SafeInv, FlushedWithinOffset, PendingBufferIsLog
<1> QED
  BY <1>1, <1>4, <1>5, <1>6, <1>7, <1>8, <1>9 DEF SafeInv

\* The worker thread: what is bound is a row that may be seen.
LEMMA SafeRun ==
  ASSUME SafeInv, NEW h \in Handlers, Run(h)
  PROVE  SafeInv'
<1> DEFINE r == bound[TableOf[dest[h]]]
<1>1. TypeInv'
  BY TypeRun DEF SafeInv
<1>2. /\ pc[h] = "running"
      /\ \/ r \in Row /\ copies' = [copies EXCEPT ![r] = @ + 1]
         \/ copies' = copies
      /\ \E to \in {"ran", "threw"} : pc' = [pc EXCEPT ![h] = to]
      /\ UNCHANGED <<type, state, offset, flushed, buffer, bound, arg, dest, rowNo,
                     msg, ctx, closed, upto, size, todo, held, acked>>
      /\ pc \in [Handlers -> Steps]
      /\ copies \in [Row -> Nat]
      /\ dest[h] \in Targets
  BY DEF Run, SafeInv, TypeInv, TypeOK, InHand, Active, streamVars, connVars, callVars
<1> HIDE DEF r
<1>3. /\ \A g \in Handlers : Active(g)' <=> Active(g)
      /\ \A g \in Handlers : pc'[g] = "idle" <=> pc[g] = "idle"
      /\ \A g \in Handlers : pc'[g] \in {"counted", "preparing", "running", "ran", "threw"} <=>
                             pc[g] \in {"counted", "preparing", "running", "ran", "threw"}
  BY <1>2 DEF Active
<1>4. \A x \in Targets : Created(x)'
  BY <1>2 DEF SafeInv, Created
<1>5. \A c \in Conns : AppendWork(c)'
  BY <1>2, <1>3 DEF SafeInv, AppendWork, Immediate
<1>6. \A k \in Calls : CallWork(k)'
  BY <1>2, <1>3 DEF SafeInv, CallWork, Sealed
<1>7. OwnRows'
  BY <1>2, <1>3 DEF SafeInv, OwnRows
<1>8. Hidden'
  <2>1. ASSUME NEW q \in Row, Closed(q[1])
        PROVE  copies'[q] = 0
    <3>1. copies[q] = 0 /\ \A t \in {TableOf[s] : s \in Targets} : bound[t] # q
      BY <2>1 DEF SafeInv, Hidden
    <3>2. r # q
      BY <1>2, <3>1 DEF r
    <3> QED
      BY <1>2, <3>1, <3>2
  <2> QED
    BY <1>2, <2>1 DEF SafeInv, Hidden, Closed
<1>9. FlushedWithinOffset' /\ PendingBufferIsLog'
  BY <1>2 DEF SafeInv, FlushedWithinOffset, PendingBufferIsLog
<1> QED
  BY <1>1, <1>4, <1>5, <1>6, <1>7, <1>8, <1>9 DEF SafeInv

\* A step of connection c that leaves the streams and the calls alone needs
\* only what it says of c and of the bound rows.
LEMMA SafeQuiet ==
  ASSUME SafeInv, TypeInv', NEW c \in Conns,
         UNCHANGED <<type, state, offset, flushed, buffer, callVars>>,
         \A g \in Handlers \ {c} : pc'[g] = pc[g] /\ dest'[g] = dest[g],
         \A b \in Conns \ {c} : ctx'[b] = ctx[b],
         AppendWork(c)', Hidden'
  PROVE  SafeInv'
<1>0. \A k \in Calls : k \in Handlers \ {c}
  BY ParametersAssumption
<1>1. \A x \in Targets : Created(x)'
  BY DEF SafeInv, Created
<1>2. \A b \in Conns : AppendWork(b)'
  BY DEF SafeInv, AppendWork, Active, Immediate
<1>3. \A k \in Calls : CallWork(k)'
  BY <1>0 DEF SafeInv, CallWork, Active, Sealed, callVars
<1>4. OwnRows'
  BY <1>0 DEF SafeInv, OwnRows, Active, callVars
<1>5. FlushedWithinOffset' /\ PendingBufferIsLog'
  BY DEF SafeInv, FlushedWithinOffset, PendingBufferIsLog
<1> QED
  BY <1>1, <1>2, <1>3, <1>4, <1>5 DEF SafeInv

\* The messages of connection c that do not end in an append.
LEMMA SafeMessage ==
  ASSUME SafeInv, NEW c \in Conns,
         \/ \E s \in Targets, lo \in 0..LogLen, n \in Batches : Receive(c, s, lo, n)
         \/ \E s \in Targets : RefuseContext(c, s)
         \/ Disconnect(c)
         \/ SkipAppend(c) \/ CountRows(c) \/ RejectMessage(c) \/ FailAppend(c)
  PROVE  SafeInv'
<1> USE DEF dbVars, connVars, callVars, streamVars
<1>1. TypeInv'
  BY TypeAppendStep DEF SafeInv, ContinueAppend
<1>2. /\ UNCHANGED <<type, state, offset, flushed, buffer, copies, bound, arg, callVars>>
      /\ \A g \in Handlers \ {c} : pc'[g] = pc[g] /\ dest'[g] = dest[g]
      /\ \A b \in Conns \ {c} : ctx'[b] = ctx[b]
  BY DEF Receive, RefuseContext, Disconnect, SkipAppend, CountRows, RejectMessage,
         FailAppend, EndMessage, SafeInv, TypeInv, TypeOK
<1>3. Hidden'
  BY <1>2 DEF SafeInv, Hidden, Closed
<1>4. AppendWork(c)'
  <2>0. /\ AppendWork(c) /\ c \in Handlers
        /\ \A s \in Targets : Created(s)
        /\ pc \in [Handlers -> Steps]
        /\ dest \in [Handlers -> Targets \cup {NoStream}]
        /\ ctx \in [Conns -> SUBSET Targets]
    BY DEF SafeInv, TypeInv, TypeOK
  <2>1. ASSUME NEW s \in Targets, NEW lo \in 0..LogLen, NEW n \in Batches,
               Receive(c, s, lo, n)
        PROVE  AppendWork(c)'
    <3>1. /\ pc'[c] = "meta" /\ dest'[c] = s /\ ctx'[c] = ctx[c] \cup {s}
          /\ s \in ctx[c] \/ ~Explicit(s) \/ state[s] = "ACTIVE"
      BY <2>0, <2>1 DEF Receive
    <3>2. Explicit(s) => type[s] # "NONE"
      BY <2>0, <3>1 DEF AppendWork, Created
    <3> QED
      BY <1>2, <2>0, <3>1, <3>2 DEF AppendWork, Active
  <2>2. CASE (\E s \in Targets : RefuseContext(c, s)) \/ Disconnect(c)
    BY <1>2, <2>0, <2>2 DEF RefuseContext, Disconnect, AppendWork, Active, Immediate
  <2>3. CASE CountRows(c)
    BY <1>2, <2>0, <2>3 DEF CountRows, AppendWork, Active, Immediate, Explicit
  <2>4. CASE SkipAppend(c) \/ RejectMessage(c) \/ FailAppend(c)
    <3>1. pc'[c] = "idle" /\ ctx'[c] = ctx[c]
      BY <2>0, <2>4 DEF SkipAppend, RejectMessage, FailAppend, EndMessage
    <3> QED
      BY <1>2, <2>0, <3>1 DEF AppendWork, Active
  <2> QED
    BY <2>1, <2>2, <2>3, <2>4
<1> QED
  BY <1>1, <1>2, <1>3, <1>4, SafeQuiet

\* Binding the next row of a COMMITTED or `_default` stream.
LEMMA SafeInsert ==
  ASSUME SafeInv, NEW c \in Conns, InsertFirst(c) \/ InsertNext(c)
  PROVE  SafeInv'
<1> DEFINE rows == RowsOf(dest[c], msg[c].lo, msg[c].lo + msg[c].n)
<1> USE DEF dbVars, connVars, callVars, streamVars
<1>1. TypeInv'
  BY TypeAppendStep DEF SafeInv, ContinueAppend
<1>2. /\ Active(c) /\ Immediate(dest[c]) /\ AppendWork(c)
  BY DEF InsertFirst, InsertNext, Admitted, Active, SafeInv, AppendWork
<1>3. /\ dest[c] \in Targets /\ msg[c].lo \in Nat /\ msg[c].n \in Nat
      /\ msg[c].lo + msg[c].n <= LogLen /\ rowNo[c] + 1 \in Nat
  BY <1>2 DEF SafeInv, TypeInv, TypeOK, InHand
<1>4. rows \in Seq(DataOf(dest[c]))
  BY <1>3, RowsOfData
<1>5. PICK j \in Nat : Exec(c, rows, j)
  BY <1>3 DEF InsertFirst, InsertNext
<1>6. UNCHANGED <<type, state, offset, flushed, buffer, copies, bound, dest, ctx, callVars>>
  BY DEF InsertFirst, InsertNext
<1>7. ~Closed(dest[c])
  BY <1>2, <1>3 DEF SafeInv, Closed, Created, Immediate, Explicit
<1>8. Hidden'
  BY <1>3, <1>4, <1>5, <1>6, <1>7, ExecHidden DEF Closed
<1>9. /\ pc'[c] = "preparing"
      /\ \A g \in Handlers \ {c} : pc'[g] = pc[g] /\ dest'[g] = dest[g]
  BY <1>5, <1>6 DEF Exec, SafeInv, TypeInv, TypeOK
<1>10. AppendWork(c)'
  BY <1>2, <1>6, <1>9 DEF AppendWork, Active, Immediate
<1> QED
  BY <1>1, <1>6, <1>8, <1>9, <1>10, SafeQuiet

\* Appending to the buffer continues it where the offset check says it ends.
LEMMA SafeBufferAppend ==
  ASSUME SafeInv, NEW c \in Conns, BufferAppend(c)
  PROVE  SafeInv'
<1> DEFINE s == dest[c]
<1> DEFINE more == RowsOf(s, msg[c].lo, msg[c].lo + msg[c].n)
<1>1. TypeInv'
  BY TypeAppendStep DEF SafeInv, ContinueAppend
<1>2. /\ s \in Targets /\ msg[c].lo \in Nat /\ msg[c].n \in Nat
      /\ msg[c].lo + msg[c].n <= LogLen
      /\ offset[s] \in Nat /\ flushed[s] \in Nat /\ flushed[s] <= offset[s]
      /\ AppendWork(c)
  BY DEF BufferAppend, Admitted, Active, SafeInv, TypeInv, TypeOK, InHand,
         FlushedWithinOffset
<1>3. /\ Explicit(s) /\ type[s] \in {"BUFFERED", "PENDING"}
      /\ OffsetMatches(c)
  BY <1>2 DEF BufferAppend, Admitted, Active, AppendWork, Immediate, Explicit, SafeInv,
              TypeInv, TypeOK, Types
<1>4. /\ buffer' = [buffer EXCEPT ![s] = buffer[s] \o more]
      /\ offset' = [offset EXCEPT ![s] = offset[s] + msg[c].n]
      /\ pc' = [pc EXCEPT ![c] = "idle"] /\ dest' = [dest EXCEPT ![c] = NoStream]
      /\ UNCHANGED <<type, state, flushed, copies, bound, arg, ctx, upto, size, todo, held>>
  BY DEF BufferAppend, Written, EndMessage, dbVars, callVars
<1>5. /\ pc \in [Handlers -> Steps]
      /\ dest \in [Handlers -> Targets \cup {NoStream}]
      /\ offset \in [Targets -> Nat] /\ flushed \in [Targets -> Nat]
      /\ buffer \in [Targets -> Seq(Row)]
      /\ \A k \in Calls : k \in Handlers \ {c}
  BY ParametersAssumption DEF SafeInv, TypeInv, TypeOK
<1> HIDE DEF s, more
<1>6. /\ pc'[c] = "idle"
      /\ \A g \in Handlers \ {c} : pc'[g] = pc[g] /\ dest'[g] = dest[g]
      /\ offset'[s] = offset[s] + msg[c].n
      /\ buffer'[s] = buffer[s] \o more
      /\ \A x \in Targets \ {s} : offset'[x] = offset[x] /\ buffer'[x] = buffer[x]
      /\ \A x \in Targets : offset'[x] \in Nat /\ offset[x] <= offset'[x]
  BY <1>2, <1>4, <1>5
<1>7. \A x \in Targets : Created(x)'
  BY <1>3, <1>4, <1>6 DEF SafeInv, Created
<1>8. \A b \in Conns : AppendWork(b)'
  BY <1>4, <1>6 DEF SafeInv, AppendWork, Active, Immediate
<1>9. \A k \in Calls : CallWork(k)'
  <2>1. ASSUME NEW k \in Calls PROVE CallWork(k)'
    <3>1. /\ CallWork(k)
          /\ Active(k)' <=> Active(k)
          /\ Active(k) => dest[k] \in Targets
          /\ upto[k] \in Nat /\ pc'[k] = pc[k] /\ dest'[k] = dest[k]
      BY <1>5, <1>6 DEF SafeInv, TypeInv, TypeOK, InHand, Active
    <3>2. Active(k) => offset[dest[k]] \in Nat /\ offset[dest[k]] <= offset'[dest[k]]
                       /\ offset'[dest[k]] \in Nat
      BY <1>5, <1>6, <3>1
    <3> QED
      BY <1>4, <3>1, <3>2 DEF CallWork, Sealed
  <2> QED
    BY <2>1
<1>10. OwnRows'
  <2>1. more \in Seq(DataOf(s))
    BY <1>2, RowsOfData DEF more
  <2>2. buffer[s] \o more \in Seq(DataOf(s))
    BY <1>2, <2>1, ConcatProperties DEF SafeInv, OwnRows
  <2> QED
    BY <1>4, <1>5, <1>6, <2>2 DEF SafeInv, OwnRows, Active
<1>11. Hidden'
  BY <1>4 DEF SafeInv, Hidden, Closed
<1>12. FlushedWithinOffset'
  BY <1>4, <1>5, <1>6 DEF SafeInv, FlushedWithinOffset
<1>13. PendingBufferIsLog'
  <2>1. ASSUME s \notin Unchecked, buffer[s] = RowsOf(s, flushed[s], offset[s])
        PROVE  buffer'[s] = RowsOf(s, flushed[s], offset'[s])
    <3>1. msg[c].lo = offset[s]
      BY <1>3, <2>1 DEF OffsetMatches, s
    <3>2. more = RowsOf(s, offset[s], offset'[s]) /\ offset'[s] \in Nat
      BY <1>2, <1>6, <3>1 DEF more
    <3>3. RowsOf(s, flushed[s], offset[s]) \o RowsOf(s, offset[s], offset'[s])
            = RowsOf(s, flushed[s], offset'[s])
      BY <1>2, <1>6, <3>2, RowsOfConcat
    <3> QED
      BY <1>6, <2>1, <3>2, <3>3
  <2> QED
    BY <1>4, <1>6, <2>1 DEF SafeInv, PendingBufferIsLog
<1> QED
  BY <1>1, <1>7, <1>8, <1>9, <1>10, <1>11, <1>12, <1>13 DEF SafeInv

\* The end of an append to a COMMITTED or `_default` stream.
LEMMA SafeFinishAppend ==
  ASSUME SafeInv, NEW c \in Conns, FinishAppend(c)
  PROVE  SafeInv'
<1> DEFINE s == dest[c]
<1>1. TypeInv'
  BY TypeAppendStep DEF SafeInv, ContinueAppend
<1>2. /\ s \in Targets /\ msg[c].n \in Nat /\ offset[s] \in Nat /\ AppendWork(c)
      /\ Immediate(s)
  BY DEF FinishAppend, Active, SafeInv, TypeInv, TypeOK, InHand, AppendWork
<1>3. /\ \/ /\ Explicit(s)
            /\ offset' = [offset EXCEPT ![s] = offset[s] + msg[c].n]
            /\ flushed' = [flushed EXCEPT ![s] = offset[s] + msg[c].n]
         \/ UNCHANGED <<offset, flushed>>
      /\ pc' = [pc EXCEPT ![c] = "idle"] /\ dest' = [dest EXCEPT ![c] = NoStream]
      /\ UNCHANGED <<type, state, buffer, copies, bound, arg, ctx, upto, size, todo, held>>
  BY DEF FinishAppend, Written, EndMessage, dbVars, callVars
<1>4. /\ pc \in [Handlers -> Steps]
      /\ dest \in [Handlers -> Targets \cup {NoStream}]
      /\ offset \in [Targets -> Nat] /\ flushed \in [Targets -> Nat]
      /\ \A k \in Calls : k \in Handlers \ {c}
  BY ParametersAssumption DEF SafeInv, TypeInv, TypeOK
<1>5. Explicit(s) => type[s] = "COMMITTED"
  BY <1>2 DEF Immediate, Explicit
<1> HIDE DEF s
<1>6. /\ pc'[c] = "idle"
      /\ \A g \in Handlers \ {c} : pc'[g] = pc[g] /\ dest'[g] = dest[g]
      /\ \A x \in Targets : type[x] # "COMMITTED" =>
           offset'[x] = offset[x] /\ flushed'[x] = flushed[x]
  BY <1>2, <1>3, <1>4, <1>5
<1>7. \A x \in Targets : Created(x)'
  BY <1>3, <1>6 DEF SafeInv, Created
<1>8. \A b \in Conns : AppendWork(b)'
  BY <1>3, <1>6 DEF SafeInv, AppendWork, Active, Immediate
<1>9. \A k \in Calls : CallWork(k)'
  <2>1. \A k \in Calls : Active(k) => dest[k] \in Targets
    BY DEF SafeInv, TypeInv, InHand
  <2> QED
    BY <1>3, <1>4, <1>6, <2>1 DEF SafeInv, CallWork, Active, Sealed
<1>10. OwnRows'
  BY <1>3, <1>4, <1>6 DEF SafeInv, OwnRows, Active
<1>11. Hidden'
  BY <1>3 DEF SafeInv, Hidden, Closed
<1>12. FlushedWithinOffset'
  BY <1>2, <1>3, <1>4 DEF SafeInv, FlushedWithinOffset
<1>13. PendingBufferIsLog'
  BY <1>3, <1>6 DEF SafeInv, PendingBufferIsLog
<1> QED
  BY <1>1, <1>7, <1>8, <1>9, <1>10, <1>11, <1>12, <1>13 DEF SafeInv

\* A step of call k that leaves the streams and the connections alone.
LEMMA SafeQuietCall ==
  ASSUME SafeInv, TypeInv', NEW k \in Calls,
         UNCHANGED <<type, state, offset, flushed, buffer, ctx>>,
         \A g \in Handlers \ {k} : pc'[g] = pc[g] /\ dest'[g] = dest[g],
         \A j \in Calls \ {k} :
           upto'[j] = upto[j] /\ todo'[j] = todo[j] /\ held'[j] = held[j],
         CallWork(k)', Hidden',
         Active(k)' => held'[k] \in Seq(Seq(DataOf(dest'[k])))
  PROVE  SafeInv'
<1>0. \A c \in Conns : c \in Handlers \ {k}
  BY ParametersAssumption
<1>1. \A x \in Targets : Created(x)'
  BY DEF SafeInv, Created
<1>2. \A c \in Conns : AppendWork(c)'
  BY <1>0 DEF SafeInv, AppendWork, Active, Immediate
<1>3. \A j \in Calls : CallWork(j)'
  BY DEF SafeInv, CallWork, Active, Sealed
<1>4. OwnRows'
  BY DEF SafeInv, OwnRows, Active
<1>5. FlushedWithinOffset' /\ PendingBufferIsLog'
  BY DEF SafeInv, FlushedWithinOffset, PendingBufferIsLog
<1> QED
  BY <1>1, <1>2, <1>3, <1>4, <1>5 DEF SafeInv

\* Binding the next row of a flush, or of the stream a commit is at.
LEMMA SafeCallInsert ==
  ASSUME SafeInv, NEW k \in Calls,
         \/ \E s \in Targets, target \in 1..LogLen : FlushRows(k, s, target)
         \/ FlushNext(k)
         \/ CommitNext(k)
  PROVE  SafeInv'
<1> USE DEF dbVars, connVars, callVars, streamVars
<1>1. TypeInv'
  BY TypeFlushStep, TypeCommitStep DEF SafeInv
<1>2. /\ \A s \in Targets : buffer[s] \in Seq(DataOf(s))
      /\ rowNo[k] + 1 \in Nat /\ 1 \in Nat /\ CallWork(k)
      /\ Active(k) => dest[k] \in Targets /\ held[k] \in Seq(Seq(DataOf(dest[k])))
      /\ pc \in [Handlers -> Steps]
      /\ dest \in [Handlers -> Targets \cup {NoStream}]
      /\ upto \in [Calls -> Nat] /\ k \in Handlers
  BY DEF SafeInv, OwnRows, TypeInv, TypeOK, InHand
<1>3. ASSUME NEW s \in Targets, NEW target \in 1..LogLen, FlushRows(k, s, target)
      PROVE  SafeInv'
  <2>1. /\ Exec(k, buffer[s], 1) /\ type[s] = "BUFFERED" /\ target <= offset[s]
        /\ pc[k] = "idle"
        /\ dest' = [dest EXCEPT ![k] = s] /\ upto' = [upto EXCEPT ![k] = target]
        /\ UNCHANGED <<type, state, offset, flushed, buffer, copies, bound, ctx, todo, held>>
    BY <1>3 DEF FlushRows, InRange
  <2>2. /\ pc'[k] = "preparing" /\ dest'[k] = s /\ upto'[k] = target
        /\ \A g \in Handlers \ {k} : pc'[g] = pc[g] /\ dest'[g] = dest[g]
        /\ \A j \in Calls \ {k} : upto'[j] = upto[j]
    BY <1>2, <2>1 DEF Exec
  <2>3. Hidden'
    BY <1>2, <2>1, ExecHidden DEF Closed
  <2>4. CallWork(k)'
    BY <1>2, <2>1, <2>2 DEF CallWork, Active, Sealed
  <2>5. held'[k] \in Seq(Seq(DataOf(dest'[k])))
    BY <1>2, <2>1, EmptySeq DEF CallWork
  <2> QED
    BY <1>1, <2>1, <2>2, <2>3, <2>4, <2>5, SafeQuietCall
<1>4. CASE FlushNext(k) \/ CommitNext(k)
  <2>1. /\ Active(k) /\ type[dest[k]] \in {"BUFFERED", "PENDING"} /\ pc[k] = "ran"
        /\ UNCHANGED <<type, state, offset, flushed, buffer, copies, bound, dest, ctx, upto,
                       todo, held>>
    BY <1>4 DEF FlushNext, CommitNext, Active
  <2>2. PICK rows \in Seq(DataOf(dest[k])) : Exec(k, rows, rowNo[k] + 1)
    BY <1>2, <1>4, <2>1, IteratedData DEF FlushNext, CommitNext
  <2>3. ~Closed(dest[k])
    BY <1>2, <2>1 DEF CallWork, Sealed, Closed
  <2>4. Hidden'
    BY <1>2, <2>1, <2>2, <2>3, ExecHidden DEF Closed
  <2>5. /\ pc'[k] = "preparing"
        /\ \A g \in Handlers \ {k} : pc'[g] = pc[g] /\ dest'[g] = dest[g]
    BY <1>2, <2>1, <2>2 DEF Exec
  <2>6. CallWork(k)'
    BY <1>2, <2>1, <2>5 DEF CallWork, Active, Sealed
  <2> QED
    BY <1>1, <1>2, <2>1, <2>4, <2>5, <2>6, SafeQuietCall
<1> QED
  BY <1>3, <1>4

\* An INSERT that throws ends the call.
LEMMA SafeFailCall ==
  ASSUME SafeInv, NEW k \in Calls, FailCall(k)
  PROVE  SafeInv'
<1> USE DEF dbVars, connVars, callVars, streamVars
<1>1. TypeInv'
  BY TypeFlushStep DEF SafeInv
<1>2. /\ UNCHANGED <<type, state, offset, flushed, buffer, copies, bound, arg, ctx, upto, held>>
      /\ pc'[k] = "done" /\ todo'[k] = {}
      /\ \A g \in Handlers \ {k} : pc'[g] = pc[g] /\ dest'[g] = dest[g]
      /\ \A j \in Calls \ {k} : todo'[j] = todo[j]
  BY DEF FailCall, EndCall, SafeInv, TypeInv, TypeOK
<1>3. CallWork(k)' /\ ~Active(k)'
  BY <1>2 DEF CallWork, Active
<1>4. Hidden'
  BY <1>2 DEF SafeInv, Hidden, Closed
<1> QED
  BY <1>1, <1>2, <1>3, <1>4, SafeQuietCall

\* The end of a flush moves flushedOffset to a position that was appended.
LEMMA SafeFlushDone ==
  ASSUME SafeInv, NEW k \in Calls, FlushDone(k)
  PROVE  SafeInv'
<1> DEFINE s == dest[k]
<1>1. TypeInv'
  BY TypeFlushStep DEF SafeInv
<1>2. /\ s \in Targets /\ type[s] = "BUFFERED" /\ upto[k] <= offset[s]
      /\ upto[k] \in Nat /\ size[k] \in Nat
      /\ buffer[s] \in Seq(DataOf(s))
  BY DEF FlushDone, Active, SafeInv, TypeInv, TypeOK, InHand, CallWork, Sealed, OwnRows
<1>3. /\ buffer' = [buffer EXCEPT ![s] = Unflushed(s, size[k])]
      /\ flushed' = [flushed EXCEPT ![s] = upto[k]]
      /\ UNCHANGED <<type, state, offset, copies, bound, arg, ctx, upto, held>>
      /\ EndCall(k)
  BY DEF FlushDone, dbVars, connVars
<1>4. Unflushed(s, size[k]) \in Seq(DataOf(s))
  <2> DEFINE b == buffer[s]
  <2>1. Len(b) \in Nat /\ \A i \in (size[k] + 1)..Len(b) : b[i] \in DataOf(s)
    BY <1>2, ElementOfSeq, LenProperties
  <2> QED
    BY <1>2, <2>1, SubSeqProperties DEF Unflushed
<1>5. /\ buffer \in [Targets -> Seq(Row)] /\ flushed \in [Targets -> Nat]
      /\ pc'[k] = "done" /\ todo'[k] = {}
      /\ \A g \in Handlers \ {k} : pc'[g] = pc[g] /\ dest'[g] = dest[g]
      /\ \A j \in Calls \ {k} : todo'[j] = todo[j]
      /\ \A c \in Conns : c \in Handlers \ {k}
  BY <1>3, ParametersAssumption DEF EndCall, SafeInv, TypeInv, TypeOK
<1> HIDE DEF s
<1>6. /\ \A x \in Targets \ {s} : buffer'[x] = buffer[x] /\ flushed'[x] = flushed[x]
      /\ buffer'[s] = Unflushed(s, size[k]) /\ flushed'[s] = upto[k]
  BY <1>2, <1>3, <1>5
<1>7. \A x \in Targets : Created(x)'
  BY <1>2, <1>3, <1>6 DEF SafeInv, Created
<1>8. \A c \in Conns : AppendWork(c)'
  BY <1>3, <1>5 DEF SafeInv, AppendWork, Active, Immediate
<1>9. \A j \in Calls : CallWork(j)'
  BY <1>3, <1>5 DEF SafeInv, CallWork, Active, Sealed
<1>10. OwnRows'
  BY <1>3, <1>4, <1>5, <1>6 DEF SafeInv, OwnRows, Active
<1>11. Hidden'
  BY <1>3 DEF SafeInv, Hidden, Closed
<1>12. FlushedWithinOffset' /\ PendingBufferIsLog'
  BY <1>2, <1>3, <1>6 DEF SafeInv, FlushedWithinOffset, PendingBufferIsLog
<1> QED
  BY <1>1, <1>7, <1>8, <1>9, <1>10, <1>11, <1>12 DEF SafeInv

\* Committing the streams `now`, all of them finalized, and going on with the
\* next of `rest`.
LEMMA SafeCommitAndGoOn ==
  ASSUME SafeInv, TypeInv', NEW k \in Calls, NEW now \in SUBSET Targets,
         NEW rest \in SUBSET Targets,
         \A s \in now \cup rest : Sealed(s),
         CommitAndGoOn(k, now, rest),
         UNCHANGED <<type, offset, copies, bound, connVars, upto, size, acked>>
  PROVE  SafeInv'
<1>1. PICK empties \in SUBSET {s \in rest : buffer[s] = << >>} :
        LET S == now \cup empties IN
        /\ state' = [s \in Targets |-> IF s \in S THEN "COMMITTED" ELSE state[s]]
        /\ flushed' = [s \in Targets |-> IF s \in S THEN offset[s] ELSE flushed[s]]
        /\ buffer' = [s \in Targets |-> IF s \in S THEN << >> ELSE buffer[s]]
        /\ Freeze(k, S)
        /\ \/ /\ empties = rest
              /\ EndCall(k)
              /\ UNCHANGED arg
           \/ \E s \in rest :
                /\ buffer[s] # << >>
                /\ dest' = [dest EXCEPT ![k] = s]
                /\ todo' = [todo EXCEPT ![k] = (rest \ empties) \ {s}]
                /\ Exec(k, buffer[s], 1)
  BY DEF CommitAndGoOn
<1> DEFINE S == now \cup empties
<1>2. /\ S \subseteq Targets /\ \A s \in S : Sealed(s)
      /\ \A c \in Conns : c \in Handlers \ {k}
      /\ k \in Handlers
      /\ << >> \in Seq(Row)
  BY ParametersAssumption, EmptySeq
<1>3. /\ \A s \in S : state'[s] = "COMMITTED" /\ flushed'[s] = offset[s]
                      /\ buffer'[s] = << >>
      /\ \A s \in Targets \ S : state'[s] = state[s] /\ flushed'[s] = flushed[s]
                               /\ buffer'[s] = buffer[s]
      /\ Freeze(k, S)
  BY <1>1, <1>2
<1>4. \/ EndCall(k) /\ UNCHANGED arg
      \/ \E s \in rest : /\ dest' = [dest EXCEPT ![k] = s]
                         /\ todo' = [todo EXCEPT ![k] = (rest \ empties) \ {s}]
                         /\ Exec(k, buffer[s], 1)
  BY <1>1
<1> HIDE DEF S
<1>5. \A x \in Targets : Created(x)'
  <2>1. \A s \in S : type[s] = "PENDING"
    BY <1>2 DEF Sealed
  <2> QED
    BY <1>3, <2>1 DEF SafeInv, Created
<1>6. \A x \in Targets : (Closed(x)' => Closed(x)) /\ (Sealed(x) => Sealed(x)')
  BY <1>3 DEF Closed, Sealed
<1>7. /\ \A g \in Handlers \ {k} : pc'[g] = pc[g] /\ dest'[g] = dest[g]
      /\ \A j \in Calls \ {k} : todo'[j] = todo[j]
      /\ \/ pc'[k] = "done" /\ todo'[k] = {}
         \/ pc'[k] = "preparing" /\ dest'[k] \in rest /\ todo'[k] \subseteq rest
  BY <1>4 DEF EndCall, Exec, SafeInv, TypeInv, TypeOK
<1>8. \A c \in Conns : AppendWork(c)'
  BY <1>2, <1>7 DEF SafeInv, AppendWork, Active, Immediate, connVars
<1>9. \A j \in Calls : CallWork(j)'
  <2>1. CallWork(k)'
    BY <1>6, <1>7 DEF CallWork, Active
  <2>2. ASSUME NEW j \in Calls \ {k} PROVE CallWork(j)'
    <3>1. /\ CallWork(j) /\ todo[j] \subseteq Targets
          /\ Active(j) => dest[j] \in Targets
      BY DEF SafeInv, TypeInv, TypeOK, InHand
    <3>2. pc[j] = "idle" => held'[j] = << >>
      BY <1>3, <3>1 DEF Freeze, Active, CallWork
    <3> QED
      BY <1>6, <1>7, <3>1, <3>2 DEF CallWork, Active
  <2> QED
    BY <2>1, <2>2
<1>10. OwnRows'
  <2>1. \A s \in Targets : buffer'[s] \in Seq(DataOf(s))
    BY <1>3, EmptySeq DEF SafeInv, OwnRows
  <2>2. ASSUME NEW j \in Calls, Active(j)'
        PROVE  held'[j] \in Seq(Seq(DataOf(dest'[j])))
    <3>1. CASE j = k
      BY <1>3, <3>1, EmptySeq DEF Freeze
    <3>2. CASE j # k
      <4>1. Active(j) /\ dest'[j] = dest[j]
        BY <1>7, <2>2, <3>2 DEF Active
      <4>2. Iterated(j) \in Seq(DataOf(dest[j]))
        BY <4>1, IteratedData
      <4>3. <<Iterated(j)>> \in Seq(Seq(DataOf(dest[j])))
        BY <4>2
      <4>4. held[j] \in Seq(Seq(DataOf(dest[j])))
        BY <4>1 DEF SafeInv, OwnRows
      <4> QED
        BY <1>3, <3>2, <4>1, <4>3, <4>4 DEF Freeze
    <3> QED
      BY <3>1, <3>2
  <2> QED
    BY <2>1, <2>2 DEF OwnRows
<1>11. Hidden'
  <2>1. CASE UNCHANGED arg
    BY <1>6, <2>1 DEF SafeInv, Hidden, Row
  <2>2. ASSUME NEW s \in rest, Exec(k, buffer[s], 1)
        PROVE  Hidden'
    <3>1. buffer[s] \in Seq(DataOf(s)) /\ ~Closed(s) /\ 1 \in Nat
      BY DEF SafeInv, OwnRows, Sealed, Closed
    <3> QED
      BY <1>2, <1>6, <2>2, <3>1, ExecHidden
  <2> QED
    BY <1>4, <2>1, <2>2
<1>12. FlushedWithinOffset'
  BY <1>3 DEF SafeInv, FlushedWithinOffset, TypeInv, TypeOK
<1>13. PendingBufferIsLog'
  <2>1. \A s \in S : buffer'[s] = RowsOf(s, flushed'[s], offset[s])
    BY <1>2, <1>3, RowsOfNone DEF SafeInv, TypeInv, TypeOK
  <2> QED
    BY <1>3, <2>1 DEF SafeInv, PendingBufferIsLog
<1> QED
  BY <1>5, <1>8, <1>9, <1>10, <1>11, <1>12, <1>13 DEF SafeInv

LEMMA SafeCommit ==
  ASSUME SafeInv, NEW k \in Calls,
         \/ \E names \in SUBSET Targets : BatchCommit(k, names)
         \/ CommitStreamDone(k)
  PROVE  SafeInv'
<1>1. TypeInv'
  BY TypeCommitStep DEF SafeInv
<1>2. ASSUME NEW names \in SUBSET Targets, BatchCommit(k, names)
      PROVE  SafeInv'
  <2> DEFINE targets == {s \in names : Committable(s)}
  <2>1. /\ CommitAndGoOn(k, {}, targets)
        /\ UNCHANGED <<type, offset, copies, bound, connVars, upto, size, acked>>
        /\ targets \in SUBSET Targets /\ {} \in SUBSET Targets
        /\ \A s \in {} \cup targets : Sealed(s)
    BY <1>2 DEF BatchCommit, Committable, Sealed
  <2> HIDE DEF targets
  <2> QED
    BY <1>1, <2>1, SafeCommitAndGoOn
<1>3. CASE CommitStreamDone(k)
  <2>1. /\ CommitAndGoOn(k, {dest[k]}, todo[k])
        /\ UNCHANGED <<type, offset, copies, bound, connVars, upto, size, acked>>
        /\ Active(k) /\ type[dest[k]] = "PENDING"
    BY <1>3 DEF CommitStreamDone, Active
  <2>2. /\ {dest[k]} \in SUBSET Targets /\ todo[k] \in SUBSET Targets
        /\ \A s \in {dest[k]} \cup todo[k] : Sealed(s)
    BY <2>1 DEF SafeInv, TypeInv, TypeOK, InHand, CallWork
  <2> QED
    BY <1>1, <2>1, <2>2, SafeCommitAndGoOn
<1> QED
  BY <1>2, <1>3

LEMMA SafeNext == SafeInv /\ [Next]_vars => SafeInv'
<1> SUFFICES ASSUME SafeInv, [Next]_vars PROVE SafeInv'
  OBVIOUS
<1>1. CASE UNCHANGED vars
  <2>1. TypeInv'
    BY TypeNext DEF SafeInv
  <2> QED
    BY <1>1, <2>1 DEF vars, streamVars, dbVars, connVars, callVars, SafeInv, Created,
      AppendWork, CallWork, OwnRows, Hidden, Closed, Sealed, Active, Immediate,
      FlushedWithinOffset, PendingBufferIsLog
<1>2. ASSUME NEW s \in Targets,
             (\E ty \in Types : CreateWriteStream(s, ty)) \/ FinalizeWriteStream(s)
      PROVE  SafeInv'
  BY <1>2, SafeCreate, SafeFinalize
<1>3. ASSUME NEW h \in Handlers, Bind(h) \/ Run(h)
      PROVE  SafeInv'
  BY <1>3, SafeBind, SafeRun
<1>4. ASSUME NEW c \in Conns,
             \/ \E s \in Uses[c], lo \in 0..LogLen, n \in Batches : Receive(c, s, lo, n)
             \/ \E s \in Uses[c] : RefuseContext(c, s)
             \/ Disconnect(c)
             \/ ContinueAppend(c)
      PROVE  SafeInv'
  <2>1. Uses[c] \subseteq Targets
    BY ParametersAssumption
  <2> QED
    BY <1>4, <2>1, SafeMessage, SafeInsert, SafeBufferAppend, SafeFinishAppend
    DEF ContinueAppend
<1>5. ASSUME NEW k \in Calls,
             \/ \E s \in Targets, target \in 1..LogLen : FlushRows(k, s, target)
             \/ \E names \in SUBSET Targets : BatchCommit(k, names)
             \/ ContinueCall(k)
      PROVE  SafeInv'
  BY <1>5, SafeCallInsert, SafeFlushDone, SafeFailCall, SafeCommit DEF ContinueCall
<1> QED
  BY <1>1, <1>2, <1>3, <1>4, <1>5 DEF Next

LEMMA SafeAlways == Spec => []SafeInv
BY SafeInit, SafeNext, PTL DEF Spec

\* Readers never see a row of a PENDING stream that was not finalized: from
\* any client, any retry, any bind that went to another handler's statement.
THEOREM PendingHiddenAlways == Spec => []PendingHidden
<1>1. SafeInv => PendingHidden
  <2> SUFFICES ASSUME SafeInv, NEW r \in Row, type[r[1]] = "PENDING",
                      state[r[1]] \in {"NONE", "ACTIVE"}
               PROVE  copies[r] = 0
    BY DEF PendingHidden
  <2>1. r[1] \in Targets /\ Created(r[1])
    BY DEF SafeInv, Row
  <2>2. Closed(r[1])
    BY <2>1 DEF Closed, Created, Explicit
  <2> QED
    BY <2>2 DEF SafeInv, Hidden
<1> QED
  BY <1>1, SafeAlways, PTL

\* The buffer of a PENDING stream is the client's rows from flushedOffset to
\* offset, also when commits overlap with appends and with each other.
THEOREM PendingBufferAlways == Spec => []PendingBufferIsLog
<1>1. SafeInv => PendingBufferIsLog
  BY DEF SafeInv
<1> QED
  BY <1>1, SafeAlways, PTL

\* flushedOffset never passes offset, whatever flushes and commits overlap.
THEOREM FlushedWithinOffsetAlways == Spec => []FlushedWithinOffset
<1>1. SafeInv => FlushedWithinOffset
  BY DEF SafeInv
<1> QED
  BY <1>1, SafeAlways, PTL

-----------------------------------------------------------------------------
(***************************************************************************)
(* BufferIsLog under OneWriter.                                            *)
(***************************************************************************)

LEMMA LogInit == Init => LogInv
<1> SUFFICES ASSUME Init PROVE LogInv
  OBVIOUS
<1>1. SafeInv
  BY SafeInit
<1>2. BufferIsLog /\ \A k \in Calls : FlushInHand(k)
  BY DEF Init, BufferIsLog, Buffered, FlushInHand, Active
<1> QED
  BY <1>1, <1>2 DEF LogInv

\* Steps that leave the buffers alone and begin no call.
LEMMA LogQuiet ==
  ASSUME LogInv, SafeInv', UNCHANGED <<type, offset, flushed, buffer, upto, size>>,
         \A j \in Calls : Active(j)' => Active(j) /\ dest'[j] = dest[j]
  PROVE  LogInv'
<1>1. BufferIsLog'
  BY DEF LogInv, BufferIsLog, Buffered
<1>2. \A k \in Calls : FlushInHand(k)'
  BY DEF LogInv, FlushInHand
<1> QED
  BY <1>1, <1>2 DEF LogInv

LEMMA LogCreate ==
  ASSUME LogInv, SafeInv', NEW s \in Targets, NEW ty \in Types,
         CreateWriteStream(s, ty)
  PROVE  LogInv'
<1>1. /\ type[s] = "NONE" /\ buffer[s] = << >> /\ offset[s] = 0 /\ flushed[s] = 0
      /\ type \in [Targets -> Types \cup {"NONE"}]
      /\ type' = [type EXCEPT ![s] = ty]
      /\ UNCHANGED <<offset, flushed, buffer, upto, size, pc, dest>>
  BY DEF CreateWriteStream, LogInv, SafeInv, Created, TypeInv, TypeOK, callVars
<1>2. BufferIsLog'
  <2>1. RowsOf(s, 0, 0) = << >>
    BY RowsOfNone
  <2> QED
    BY <1>1, <2>1 DEF LogInv, BufferIsLog, Buffered
<1>3. ASSUME NEW k \in Calls PROVE FlushInHand(k)'
  <2>1. /\ FlushInHand(k) /\ CallWork(k)
        /\ Active(k) => dest[k] \in Targets
    BY DEF LogInv, SafeInv, TypeInv, InHand
  <2>2. Active(k) => dest[k] # s
    BY <1>1, <2>1 DEF CallWork, Sealed
  <2> QED
    BY <1>1, <2>1, <2>2 DEF FlushInHand, Active
<1> QED
  BY <1>2, <1>3 DEF LogInv

LEMMA LogBufferAppend ==
  ASSUME LogInv, SafeInv', NEW c \in Conns, BufferAppend(c)
  PROVE  LogInv'
<1> DEFINE s == dest[c]
<1> DEFINE more == RowsOf(s, msg[c].lo, msg[c].lo + msg[c].n)
<1>1. /\ s \in Targets /\ msg[c].lo \in Nat /\ msg[c].n \in Nat
      /\ offset[s] \in Nat /\ flushed[s] \in Nat /\ flushed[s] <= offset[s]
      /\ buffer \in [Targets -> Seq(Row)] /\ offset \in [Targets -> Nat]
      /\ AppendWork(c)
  BY DEF BufferAppend, Admitted, Active, LogInv, SafeInv, TypeInv, TypeOK, InHand,
         FlushedWithinOffset
<1>2. OffsetMatches(c)
  BY <1>1 DEF BufferAppend, Admitted, AppendWork
<1>3. /\ buffer' = [buffer EXCEPT ![s] = buffer[s] \o more]
      /\ offset' = [offset EXCEPT ![s] = offset[s] + msg[c].n]
      /\ UNCHANGED <<type, flushed, upto, size>>
      /\ \A k \in Calls : pc'[k] = pc[k] /\ dest'[k] = dest[k]
  BY ParametersAssumption
  DEF BufferAppend, Written, EndMessage, callVars, LogInv, SafeInv, TypeInv, TypeOK
<1>4. BufferIsLog'
  <2>1. ASSUME s \notin Unchecked, buffer[s] = RowsOf(s, flushed[s], offset[s])
        PROVE  buffer'[s] = RowsOf(s, flushed[s], offset'[s])
    <3>1. msg[c].lo = offset[s]
      BY <1>2, <2>1 DEF OffsetMatches
    <3> HIDE DEF s, more
    <3>2. offset'[s] = offset[s] + msg[c].n /\ buffer'[s] = buffer[s] \o more
      BY <1>1, <1>3
    <3>3. /\ more = RowsOf(s, offset[s], offset'[s])
          /\ offset'[s] \in Nat /\ offset[s] <= offset'[s]
      BY <1>1, <3>1, <3>2 DEF more
    <3>4. RowsOf(s, flushed[s], offset[s]) \o RowsOf(s, offset[s], offset'[s])
            = RowsOf(s, flushed[s], offset'[s])
      BY <1>1, <3>3, RowsOfConcat
    <3> QED
      BY <2>1, <3>2, <3>3, <3>4
  <2> HIDE DEF s, more
  <2>2. \A x \in Targets \ {s} : buffer'[x] = buffer[x] /\ offset'[x] = offset[x]
    BY <1>1, <1>3
  <2> QED
    BY <1>3, <2>1, <2>2 DEF LogInv, BufferIsLog, Buffered
<1>5. \A k \in Calls : FlushInHand(k)'
  BY <1>3 DEF LogInv, FlushInHand, Active
<1> QED
  BY <1>4, <1>5 DEF LogInv

LEMMA LogFinishAppend ==
  ASSUME LogInv, SafeInv', NEW c \in Conns, FinishAppend(c)
  PROVE  LogInv'
<1>1. Immediate(dest[c]) /\ dest[c] \in Targets
  BY DEF FinishAppend, Active, LogInv, SafeInv, TypeInv, InHand, AppendWork
<1>2. /\ UNCHANGED <<type, buffer, upto, size>>
      /\ \A k \in Calls : pc'[k] = pc[k] /\ dest'[k] = dest[k]
      /\ \A x \in Targets : Buffered(x) => offset'[x] = offset[x] /\ flushed'[x] = flushed[x]
  BY <1>1, ParametersAssumption
  DEF FinishAppend, EndMessage, Immediate, Explicit, Buffered, callVars, LogInv,
      SafeInv, TypeInv, TypeOK
<1>3. BufferIsLog'
  BY <1>2 DEF LogInv, BufferIsLog, Buffered
<1>4. \A k \in Calls : FlushInHand(k)'
  <2>1. \A k \in Calls : Active(k) => dest[k] \in Targets
    BY DEF LogInv, SafeInv, TypeInv, InHand
  <2> QED
    BY <1>2, <2>1 DEF LogInv, FlushInHand, Active, Buffered
<1> QED
  BY <1>3, <1>4 DEF LogInv

\* OneWriter is used here alone: no other call is at work on this table.
LEMMA LogFlushRows ==
  ASSUME LogInv, SafeInv', OneWriter, NEW k \in Calls, NEW s \in Targets,
         NEW target \in 1..LogLen, FlushRows(k, s, target)
  PROVE  LogInv'
<1>1. /\ UNCHANGED <<type, offset, flushed, buffer>>
      /\ pc[k] = "idle" /\ pc'[k] = "preparing" /\ dest'[k] = s
      /\ upto'[k] = target /\ size'[k] = target - flushed[s]
      /\ \A j \in Calls \ {k} : /\ pc'[j] = pc[j] /\ dest'[j] = dest[j]
                               /\ upto'[j] = upto[j] /\ size'[j] = size[j]
      /\ target > flushed[s] /\ flushed[s] \in Nat /\ target \in Nat
  BY ParametersAssumption
  DEF FlushRows, InRange, Exec, LogInv, SafeInv, TypeInv, TypeOK, streamVars
<1>2. ASSUME NEW g \in Calls \ {k}, Active(g) PROVE dest[g] # s
  <2>1. g \in Handlers \ {k} /\ WritesTo(g) \cap {TableOf[x] : x \in {s}} = {}
    BY DEF FlushRows, Alone
  <2>2. TableOf[dest[g]] \in WritesTo(g)
    BY <1>2 DEF WritesTo
  <2> QED
    BY <2>1, <2>2
<1>3. BufferIsLog'
  BY <1>1 DEF LogInv, BufferIsLog, Buffered
<1>4. ASSUME NEW j \in Calls PROVE FlushInHand(j)'
  <2>1. CASE j = k
    BY <1>1, <1>2, <2>1 DEF FlushInHand, Active
  <2>2. CASE j # k
    BY <1>1, <1>2, <2>2 DEF LogInv, FlushInHand, Active
  <2> QED
    BY <2>1, <2>2
<1> QED
  BY <1>3, <1>4 DEF LogInv

\* slice(toFlush) leaves the rows from targetCount on.
LEMMA LogFlushDone ==
  ASSUME LogInv, SafeInv', NEW k \in Calls, FlushDone(k)
  PROVE  LogInv'
<1> DEFINE s == dest[k]
<1>1. /\ Active(k) /\ s \in Targets /\ type[s] = "BUFFERED" /\ upto[k] <= offset[s]
      /\ upto[k] \in Nat /\ offset[s] \in Nat /\ flushed[s] \in Nat
      /\ FlushInHand(k)
  BY DEF FlushDone, Active, LogInv, SafeInv, TypeInv, TypeOK, InHand, CallWork, Sealed
<1>2. /\ size[k] \in Nat /\ flushed[s] + size[k] = upto[k]
      /\ \A g \in Calls \ {k} : Active(g) => dest[g] # s
  BY <1>1 DEF FlushInHand
<1>3. /\ buffer' = [buffer EXCEPT ![s] = Unflushed(s, size[k])]
      /\ flushed' = [flushed EXCEPT ![s] = upto[k]]
      /\ UNCHANGED <<type, offset, upto, size>>
      /\ pc'[k] = "done"
      /\ \A j \in Calls \ {k} : pc'[j] = pc[j] /\ dest'[j] = dest[j]
      /\ buffer \in [Targets -> Seq(Row)] /\ flushed \in [Targets -> Nat]
  BY DEF FlushDone, EndCall, LogInv, SafeInv, TypeInv, TypeOK
<1> HIDE DEF s
<1>4. /\ buffer'[s] = Unflushed(s, size[k]) /\ flushed'[s] = upto[k]
      /\ \A x \in Targets \ {s} : buffer'[x] = buffer[x] /\ flushed'[x] = flushed[x]
  BY <1>1, <1>3
<1>5. BufferIsLog'
  <2>1. ASSUME buffer[s] = RowsOf(s, flushed[s], offset[s])
        PROVE  buffer'[s] = RowsOf(s, flushed'[s], offset[s])
    <3>0. flushed[s] <= offset[s]
      BY <1>1, <1>2
    <3>1. Len(buffer[s]) = offset[s] - flushed[s]
      BY <1>1, <2>1, <3>0, RowsOfLen
    <3>2. SubSeq(RowsOf(s, flushed[s], offset[s]), size[k] + 1, offset[s] - flushed[s])
            = RowsOf(s, flushed[s] + size[k], offset[s])
      BY <1>1, <1>2, RowsOfSuffix
    <3> QED
      BY <1>2, <1>4, <2>1, <3>1, <3>2 DEF Unflushed
  <2> QED
    BY <1>3, <1>4, <2>1 DEF LogInv, BufferIsLog, Buffered
<1>6. ASSUME NEW j \in Calls PROVE FlushInHand(j)'
  <2>1. CASE j = k
    BY <1>3, <2>1 DEF FlushInHand, Active
  <2>2. CASE j # k
    <3> SUFFICES ASSUME Active(j)', type'[dest'[j]] = "BUFFERED"
                 PROVE  /\ size'[j] \in Nat \ {0}
                        /\ flushed'[dest'[j]] + size'[j] = upto'[j]
                        /\ \A g \in Calls \ {j} : Active(g)' => dest'[g] # dest'[j]
      BY DEF FlushInHand
    <3>1. /\ Active(j) /\ type[dest[j]] = "BUFFERED" /\ dest'[j] = dest[j]
          /\ FlushInHand(j) /\ dest[j] \in Targets
      BY <1>3, <2>2 DEF LogInv, SafeInv, TypeInv, InHand, Active
    <3>2. dest[j] # s
      BY <1>2, <2>2, <3>1
    <3>3. /\ size'[j] \in Nat \ {0} /\ flushed'[dest'[j]] + size'[j] = upto'[j]
      BY <1>3, <1>4, <3>1, <3>2 DEF FlushInHand
    <3>4. \A g \in Calls \ {j} : Active(g)' => Active(g) /\ dest'[g] = dest[g]
      BY <1>3 DEF Active
    <3> QED
      BY <3>1, <3>3, <3>4 DEF FlushInHand
  <2> QED
    BY <2>1, <2>2
<1> QED
  BY <1>5, <1>6 DEF LogInv

LEMMA LogCommitAndGoOn ==
  ASSUME LogInv, SafeInv', NEW k \in Calls, NEW now \in SUBSET Targets,
         NEW rest \in SUBSET Targets,
         \A s \in now \cup rest : Sealed(s),
         CommitAndGoOn(k, now, rest),
         UNCHANGED <<type, offset, copies, bound, connVars, upto, size, acked>>
  PROVE  LogInv'
<1>1. PICK S \in SUBSET (now \cup rest) :
        /\ flushed' = [s \in Targets |-> IF s \in S THEN offset[s] ELSE flushed[s]]
        /\ buffer' = [s \in Targets |-> IF s \in S THEN << >> ELSE buffer[s]]
  <2>1. PICK empties \in SUBSET {s \in rest : buffer[s] = << >>} :
          LET S == now \cup empties IN
          /\ flushed' = [s \in Targets |-> IF s \in S THEN offset[s] ELSE flushed[s]]
          /\ buffer' = [s \in Targets |-> IF s \in S THEN << >> ELSE buffer[s]]
    BY DEF CommitAndGoOn
  <2>2. now \cup empties \in SUBSET (now \cup rest)
    OBVIOUS
  <2> QED
    BY <2>1, <2>2
<1>2. /\ pc'[k] = "done" \/ dest'[k] \in rest
      /\ \A j \in Calls \ {k} : pc'[j] = pc[j] /\ dest'[j] = dest[j]
  BY DEF CommitAndGoOn, EndCall, Exec, LogInv, SafeInv, TypeInv, TypeOK
<1>3. \A s \in S : type[s] = "PENDING" /\ s \in Targets
  BY DEF Sealed
<1>4. BufferIsLog'
  <2>1. \A s \in S : RowsOf(s, offset[s], offset[s]) = << >>
    BY <1>3, RowsOfNone DEF LogInv, SafeInv, TypeInv, TypeOK
  <2> QED
    BY <1>1, <1>3, <2>1 DEF LogInv, BufferIsLog, Buffered
<1>5. ASSUME NEW j \in Calls PROVE FlushInHand(j)'
  <2>1. CASE j = k
    BY <1>2, <2>1 DEF FlushInHand, Active, Sealed
  <2>2. CASE j # k
    <3>1. FlushInHand(j) /\ (Active(j) => dest[j] \in Targets)
      BY DEF LogInv, SafeInv, TypeInv, InHand
    <3>2. Active(j) /\ type[dest[j]] = "BUFFERED" =>
            /\ dest[j] \notin S
            /\ Active(k)' => dest'[k] # dest[j]
      BY <1>2, <1>3 DEF Sealed, Active
    <3>3. Active(j) /\ type[dest[j]] = "BUFFERED" => flushed'[dest[j]] = flushed[dest[j]]
      BY <1>1, <3>1, <3>2
    <3> QED
      BY <1>2, <2>2, <3>1, <3>2, <3>3 DEF FlushInHand, Active
  <2> QED
    BY <2>1, <2>2
<1> QED
  BY <1>4, <1>5 DEF LogInv

LEMMA LogNext == OneWriter /\ LogInv /\ [Next]_vars => LogInv'
<1> SUFFICES ASSUME OneWriter, LogInv, [Next]_vars PROVE LogInv'
  OBVIOUS
<1>0. SafeInv'
  BY SafeNext DEF LogInv
<1>1. CASE UNCHANGED vars
  BY <1>0, <1>1, LogQuiet DEF vars, streamVars, callVars, Active
<1>2. ASSUME NEW s \in Targets,
             (\E ty \in Types : CreateWriteStream(s, ty)) \/ FinalizeWriteStream(s)
      PROVE  LogInv'
  <2>1. CASE FinalizeWriteStream(s)
    BY <1>0, <2>1, LogQuiet DEF FinalizeWriteStream, callVars, Active
  <2> QED
    BY <1>0, <1>2, <2>1, LogCreate
<1>3. ASSUME NEW h \in Handlers, Bind(h) \/ Run(h)
      PROVE  LogInv'
  <2>1. /\ UNCHANGED <<type, offset, flushed, buffer, upto, size, dest>>
        /\ pc[h] \in {"preparing", "running"}
        /\ \E to \in {"running", "ran", "threw"} : pc' = [pc EXCEPT ![h] = to]
    BY <1>3 DEF Bind, Run, streamVars, callVars
  <2>2. \A j \in Calls : Active(j)' => Active(j)
    BY <2>1 DEF Active, LogInv, SafeInv, TypeInv, TypeOK
  <2> QED
    BY <1>0, <2>1, <2>2, LogQuiet
<1>4. ASSUME NEW c \in Conns,
             \/ \E s \in Uses[c], lo \in 0..LogLen, n \in Batches : Receive(c, s, lo, n)
             \/ \E s \in Uses[c] : RefuseContext(c, s)
             \/ Disconnect(c)
             \/ ContinueAppend(c)
      PROVE  LogInv'
  <2>1. CASE BufferAppend(c)
    BY <1>0, <2>1, LogBufferAppend
  <2>2. CASE FinishAppend(c)
    BY <1>0, <2>2, LogFinishAppend
  <2>3. CASE ~BufferAppend(c) /\ ~FinishAppend(c)
    <3>1. /\ UNCHANGED <<type, offset, flushed, buffer, upto, size>>
          /\ \A g \in Handlers \ {c} : pc'[g] = pc[g] /\ dest'[g] = dest[g]
      BY <1>4, <2>3
      DEF Receive, RefuseContext, Disconnect, ContinueAppend, SkipAppend, CountRows,
          RejectMessage, InsertFirst, InsertNext, FailAppend, EndMessage, Exec,
          streamVars, callVars, LogInv, SafeInv, TypeInv, TypeOK
    <3>2. \A j \in Calls : j \in Handlers \ {c}
      BY ParametersAssumption
    <3> QED
      BY <1>0, <3>1, <3>2, LogQuiet DEF Active
  <2> QED
    BY <2>1, <2>2, <2>3
<1>5. ASSUME NEW k \in Calls,
             \/ \E s \in Targets, target \in 1..LogLen : FlushRows(k, s, target)
             \/ \E names \in SUBSET Targets : BatchCommit(k, names)
             \/ ContinueCall(k)
      PROVE  LogInv'
  <2>1. CASE \E s \in Targets, target \in 1..LogLen : FlushRows(k, s, target)
    BY <1>0, <2>1, LogFlushRows
  <2>2. CASE FlushDone(k)
    BY <1>0, <2>2, LogFlushDone
  <2>3. ASSUME NEW names \in SUBSET Targets, BatchCommit(k, names)
        PROVE  LogInv'
    <3> DEFINE targets == {s \in names : Committable(s)}
    <3>1. /\ CommitAndGoOn(k, {}, targets)
          /\ UNCHANGED <<type, offset, copies, bound, connVars, upto, size, acked>>
          /\ targets \in SUBSET Targets /\ {} \in SUBSET Targets
          /\ \A s \in {} \cup targets : Sealed(s)
      BY <2>3 DEF BatchCommit, Committable, Sealed
    <3> HIDE DEF targets
    <3> QED
      BY <1>0, <3>1, LogCommitAndGoOn
  <2>4. CASE CommitStreamDone(k)
    <3>1. /\ CommitAndGoOn(k, {dest[k]}, todo[k])
          /\ UNCHANGED <<type, offset, copies, bound, connVars, upto, size, acked>>
          /\ Active(k) /\ type[dest[k]] = "PENDING"
      BY <2>4 DEF CommitStreamDone, Active
    <3>2. /\ {dest[k]} \in SUBSET Targets /\ todo[k] \in SUBSET Targets
          /\ \A s \in {dest[k]} \cup todo[k] : Sealed(s)
      BY <3>1 DEF LogInv, SafeInv, TypeInv, TypeOK, InHand, CallWork
    <3> QED
      BY <1>0, <3>1, <3>2, LogCommitAndGoOn
  <2>5. CASE FlushNext(k) \/ CommitNext(k) \/ FailCall(k)
    <3>1. /\ UNCHANGED <<type, offset, flushed, buffer, upto, size>>
          /\ \A j \in Calls \ {k} : pc'[j] = pc[j] /\ dest'[j] = dest[j]
          /\ Active(k)
          /\ pc'[k] = "done" \/ dest'[k] = dest[k]
      BY <2>5 DEF FlushNext, CommitNext, FailCall, EndCall, Exec, Active, streamVars,
                  callVars, LogInv, SafeInv, TypeInv, TypeOK
    <3> QED
      BY <1>0, <3>1, LogQuiet DEF Active
  <2> QED
    BY <1>5, <2>1, <2>2, <2>3, <2>4, <2>5 DEF ContinueCall
<1> QED
  BY <1>0, <1>1, <1>2, <1>3, <1>4, <1>5 DEF Next

\* While no two handlers insert into one table at a time, the buffer of every
\* BUFFERED or PENDING stream is exactly the client's rows from flushedOffset
\* to offset, whatever is resent over whatever number of connections.
THEOREM BufferAlways == ASSUME OneWriter PROVE Spec => []BufferIsLog
<1>1. LogInv /\ [Next]_vars => LogInv'
  BY LogNext
<1>2. LogInv => BufferIsLog
  BY DEF LogInv
<1> QED
  BY <1>1, <1>2, LogInit, PTL DEF Spec

-----------------------------------------------------------------------------
LEMMA LifecycleStep ==
  ASSUME SafeInv, Next, NEW s \in Targets
  PROVE  /\ state[s] = "COMMITTED" => state'[s] = "COMMITTED"
         /\ state[s] = "FINALIZED" => state'[s] # "ACTIVE"
         /\ offset'[s] >= offset[s]
<1> USE DEF streamVars
<1>0. /\ state \in [Targets -> {"NONE", "ACTIVE", "FINALIZED", "COMMITTED"}]
      /\ offset \in [Targets -> Nat] /\ offset[s] >= offset[s]
      /\ \A c \in Conns : msg[c].n \in Nat
      /\ \A h \in Handlers : Active(h) => dest[h] \in Targets
  BY DEF SafeInv, TypeInv, TypeOK, InHand
<1>1. ASSUME NEW x \in Targets, NEW ty \in Types, CreateWriteStream(x, ty)
      PROVE  offset' = offset /\ state[x] = "NONE" /\ state' = [state EXCEPT ![x] = "ACTIVE"]
  BY <1>1 DEF CreateWriteStream
<1>2. ASSUME NEW x \in Targets, FinalizeWriteStream(x)
      PROVE  /\ offset' = offset /\ state[x] \in {"ACTIVE", "FINALIZED"}
             /\ state' = [state EXCEPT ![x] = "FINALIZED"]
  BY <1>2 DEF FinalizeWriteStream, Finalizable
<1>3. ASSUME NEW h \in Handlers, Bind(h) \/ Run(h)
      PROVE  state' = state /\ offset' = offset
  BY <1>3 DEF Bind, Run
<1>4. ASSUME NEW c \in Conns,
             \/ \E x \in Uses[c], lo \in 0..LogLen, n \in Batches : Receive(c, x, lo, n)
             \/ \E x \in Uses[c] : RefuseContext(c, x)
             \/ Disconnect(c)
             \/ ContinueAppend(c)
      PROVE  /\ state' = state
             /\ \/ offset' = offset
                \/ /\ dest[c] \in Targets
                   /\ offset' = [offset EXCEPT ![dest[c]] = offset[dest[c]] + msg[c].n]
  <2>1. CASE BufferAppend(c)
    BY <1>0, <2>1 DEF BufferAppend, Admitted, Active, Written
  <2>2. CASE FinishAppend(c)
    BY <1>0, <2>2 DEF FinishAppend, Active, Written
  <2>3. CASE ~BufferAppend(c) /\ ~FinishAppend(c)
    BY <1>4, <2>3 DEF Receive, RefuseContext, Disconnect, ContinueAppend, SkipAppend,
      CountRows, RejectMessage, InsertFirst, InsertNext, FailAppend
  <2> QED
    BY <2>1, <2>2, <2>3
<1>5. ASSUME NEW k \in Calls,
             \/ \E x \in Targets, target \in 1..LogLen : FlushRows(k, x, target)
             \/ \E names \in SUBSET Targets : BatchCommit(k, names)
             \/ ContinueCall(k)
      PROVE  /\ offset' = offset
             /\ state' = state \/ \E S \in SUBSET Targets : state' =
                    [x \in Targets |-> IF x \in S THEN "COMMITTED" ELSE state[x]]
  <2>1. ASSUME NEW now \in SUBSET Targets, NEW rest \in SUBSET Targets,
               CommitAndGoOn(k, now, rest)
        PROVE  \E S \in SUBSET Targets : state' =
                    [x \in Targets |-> IF x \in S THEN "COMMITTED" ELSE state[x]]
    <3>1. PICK empties \in SUBSET {x \in rest : buffer[x] = << >>} :
            LET S == now \cup empties IN
            state' = [x \in Targets |-> IF x \in S THEN "COMMITTED" ELSE state[x]]
      BY <2>1 DEF CommitAndGoOn
    <3>2. now \cup empties \in SUBSET Targets
      OBVIOUS
    <3> QED
      BY <3>1, <3>2
  <2>2. CASE \E names \in SUBSET Targets : BatchCommit(k, names)
    BY <2>1, <2>2 DEF BatchCommit
  <2>3. CASE CommitStreamDone(k)
    <3>1. dest[k] \in Targets
      BY <1>0, <2>3 DEF CommitStreamDone, Active
    <3>2. todo[k] \in SUBSET Targets
      BY DEF SafeInv, TypeInv, TypeOK
    <3>3. {dest[k]} \in SUBSET Targets /\ CommitAndGoOn(k, {dest[k]}, todo[k])
      BY <2>3, <3>1 DEF CommitStreamDone
    <3> QED
      BY <2>1, <2>3, <3>2, <3>3 DEF CommitStreamDone
  <2>4. CASE ~(\E names \in SUBSET Targets : BatchCommit(k, names)) /\ ~CommitStreamDone(k)
    BY <1>5, <2>4 DEF FlushRows, ContinueCall, FlushNext, FlushDone, CommitNext, FailCall
  <2> QED
    BY <2>2, <2>3, <2>4
<1>6. ASSUME \/ state' = state
             \/ \E x \in Targets : state[x] = "NONE" /\ state' = [state EXCEPT ![x] = "ACTIVE"]
             \/ \E x \in Targets : /\ state[x] \in {"ACTIVE", "FINALIZED"}
                                  /\ state' = [state EXCEPT ![x] = "FINALIZED"]
             \/ \E S \in SUBSET Targets : state' =
                    [x \in Targets |-> IF x \in S THEN "COMMITTED" ELSE state[x]]
      PROVE  /\ state[s] = "COMMITTED" => state'[s] = "COMMITTED"
             /\ state[s] = "FINALIZED" => state'[s] # "ACTIVE"
  BY <1>0, <1>6
<1>7. ASSUME \/ offset' = offset
             \/ \E c \in Conns : /\ dest[c] \in Targets
                   /\ offset' = [offset EXCEPT ![dest[c]] = offset[dest[c]] + msg[c].n]
      PROVE  offset'[s] >= offset[s]
  BY <1>0, <1>7
<1>8. CASE \E x \in Targets :
             (\E ty \in Types : CreateWriteStream(x, ty)) \/ FinalizeWriteStream(x)
  BY <1>1, <1>2, <1>6, <1>7, <1>8
<1>9. CASE \E h \in Handlers : Bind(h) \/ Run(h)
  BY <1>3, <1>6, <1>7, <1>9
<1>10. CASE \E c \in Conns :
             \/ \E x \in Uses[c], lo \in 0..LogLen, n \in Batches : Receive(c, x, lo, n)
             \/ \E x \in Uses[c] : RefuseContext(c, x)
             \/ Disconnect(c)
             \/ ContinueAppend(c)
  BY <1>4, <1>6, <1>7, <1>10
<1>11. CASE \E k \in Calls :
             \/ \E x \in Targets, target \in 1..LogLen : FlushRows(k, x, target)
             \/ \E names \in SUBSET Targets : BatchCommit(k, names)
             \/ ContinueCall(k)
  BY <1>5, <1>6, <1>7, <1>11
<1> QED
  BY <1>8, <1>9, <1>10, <1>11 DEF Next

\* No step takes a stream out of COMMITTED, reopens a FINALIZED one or moves
\* its offset back.
THEOREM LifecycleAlways == Spec => Lifecycle
<1>1. SafeInv /\ [Next]_vars =>
        [\A s \in Targets :
           /\ state[s] = "COMMITTED" => state'[s] = "COMMITTED"
           /\ state[s] = "FINALIZED" => state'[s] # "ACTIVE"
           /\ offset'[s] >= offset[s]]_vars
  BY LifecycleStep
<1> QED
  BY <1>1, SafeAlways, PTL DEF Spec, Lifecycle

=============================================================================
