------------------------ MODULE WriteStreamsDelivery ------------------------
(***************************************************************************)
(* What readers of the table see, where clients keep one inserting call    *)
(* per table open: the rows of a stream exactly once and in order, and     *)
(* every acknowledged row; and that the streams implement StreamLog.       *)
(***************************************************************************)
EXTENDS WriteStreamsProofs

(***************************************************************************)
(* The inductive invariant.                                                *)
(***************************************************************************)

\* No two handlers are to insert into the same table.
Solo == \A g, h \in Handlers : g # h => WritesTo(g) \cap WritesTo(h) = {}

\* A call waits for its turn or inserts; it iterates the buffer its stream has,
\* has that stream no more to do, and nothing before it begins and after it ends.
Calling(k) ==
  /\ pc[k] \in Steps \ {"meta", "counted"}
  /\ held[k] = << >>
  /\ dest[k] \notin todo[k]
  /\ ~Active(k) => todo[k] = {}

\* A message in hand has rows; only one for a `_default` stream waits for COUNT(*).
Message(c) ==
  /\ Active(c) => msg[c].n \in Batches
  /\ pc[c] = "counted" => dest[c] \in Defaults

\* As many rows wait in a buffer as were appended and not flushed; none of a
\* COMMITTED stream.
Lengths ==
  \A s \in Targets : /\ Buffered(s) => Len(buffer[s]) = offset[s] - flushed[s]
                     /\ type[s] = "COMMITTED" => flushed[s] = offset[s]

\* The handler is in its loop over the rows it inserts.
Inserting(h) == pc[h] \in {"preparing", "running", "ran", "threw"}

\* The rows a handler goes through: those of the message or of the buffer.
Data(h) ==
  IF h \in Conns THEN RowsOf(dest[h], msg[h].lo, msg[h].lo + msg[h].n) ELSE buffer[dest[h]]

\* The row of the loop is the one that was passed on, bound and executed, and
\* those before it are in the table; a message begins at the end of its stream.
Loop(h) ==
  /\ rowNo[h] \in 1..Len(Data(h))
  /\ h \in Calls /\ type[dest[h]] = "BUFFERED" => rowNo[h] <= size[h]
  /\ pc[h] = "preparing" => arg[h] = Data(h)[rowNo[h]]
  /\ pc[h] = "running" => bound[TableOf[dest[h]]] = Data(h)[rowNo[h]]
  /\ \A i \in 1..Progress(h) : copies[Data(h)[i]] > 0
  /\ h \in Conns /\ Explicit(dest[h]) /\ dest[h] \notin Unchecked => msg[h].lo = offset[dest[h]]

LoopInv ==
  /\ LogInv
  /\ Solo
  /\ Lengths
  /\ \A k \in Calls : Calling(k)
  /\ \A c \in Conns : Message(c)
  /\ \A h \in Handlers : Inserting(h) => Loop(h)

-----------------------------------------------------------------------------
USE DEF Handlers, Steps

(***************************************************************************)
(* Handlers keep out of each other's way.                                  *)
(***************************************************************************)

\* A handler in its loop is to insert into the table of its stream.
LEMMA AtWork ==
  ASSUME SafeInv, NEW h \in Handlers, Inserting(h)
  PROVE  /\ TableOf[dest[h]] \in WritesTo(h) /\ dest[h] \in Targets /\ Active(h)
         /\ h \in Conns => Immediate(dest[h])
         /\ h \in Calls => h \notin Conns /\ Buffered(dest[h])
<1>1. Active(h) /\ dest[h] \in Targets
  BY DEF Inserting, Active, SafeInv, TypeInv, InHand
<1>2. h \in Conns => Immediate(dest[h])
  BY DEF SafeInv, AppendWork, Inserting
<1>3. h \in Calls => h \notin Conns /\ Buffered(dest[h])
  BY <1>1, ParametersAssumption DEF SafeInv, CallWork, Sealed, Buffered
<1>4. TableOf[dest[h]] \in WritesTo(h)
  <2>1. CASE h \in Calls
    BY <1>1, <2>1 DEF WritesTo
  <2>2. CASE h \notin Calls
    BY <1>1, <1>2, <2>2 DEF WritesTo
  <2> QED
    BY <2>1, <2>2
<1> QED
  BY <1>1, <1>2, <1>3, <1>4

\* The rows of a message, one after the other.
LEMMA MessageData ==
  ASSUME NEW s \in Targets, NEW lo \in Nat, NEW n \in Nat, lo + n <= LogLen
  PROVE  /\ RowsOf(s, lo, lo + n) \in Seq(Row) /\ Len(RowsOf(s, lo, lo + n)) = n
         /\ \A j \in 1..n : RowsOf(s, lo, lo + n)[j] = <<s, lo + j>>
<1> DEFINE hi == lo + n
<1>1. hi \in Nat /\ lo <= hi /\ hi <= LogLen /\ hi - lo = n
  OBVIOUS
<1> HIDE DEF hi
<1> DEFINE f == RowsOf(s, lo, hi)
<1>2. f \in Seq(Row) /\ Len(f) = hi - lo /\ \A j \in 1..(hi - lo) : f[j] = <<s, lo + j>>
  BY <1>1, RowsOfProperties
<1> HIDE DEF f
<1>3. f \in Seq(Row) /\ Len(f) = n /\ \A j \in 1..n : f[j] = <<s, lo + j>>
  BY <1>1, <1>2
<1> QED
  BY <1>3 DEF f, hi

\* A row of a message has a place in it.
LEMMA MessageSet ==
  ASSUME NEW s \in Targets, NEW lo \in Nat, NEW n \in Nat, lo + n <= LogLen,
         NEW r \in RowSet(s, lo, lo + n)
  PROVE  r[1] = s /\ \E j \in 1..n : RowsOf(s, lo, lo + n)[j] = r
<1>1. PICK p \in (lo + 1)..(lo + n) : r = <<s, p>>
  BY DEF RowSet
<1>2. p - lo \in 1..n /\ lo + (p - lo) = p
  OBVIOUS
<1>3. RowsOf(s, lo, lo + n)[p - lo] = <<s, lo + (p - lo)>>
  BY <1>2, MessageData
<1> QED
  BY <1>1, <1>2, <1>3

\* Two handlers in their loops are at work on different streams.
LEMMA Apart ==
  ASSUME SafeInv, Solo, NEW g \in Handlers, NEW h \in Handlers, g # h, Inserting(g), Inserting(h)
  PROVE  TableOf[dest[g]] # TableOf[dest[h]] /\ dest[g] # dest[h]
<1>1. TableOf[dest[g]] \in WritesTo(g) /\ TableOf[dest[h]] \in WritesTo(h)
  BY AtWork
<1> QED
  BY <1>1 DEF Solo

\* The rows of a loop are rows of its stream.
LEMMA DataRows ==
  ASSUME SafeInv, NEW h \in Handlers, Inserting(h)
  PROVE  Data(h) \in Seq(DataOf(dest[h])) /\ Len(Data(h)) \in Nat
<1>1. dest[h] \in Targets
  BY AtWork
<1>2. CASE h \in Conns
  <2>1. /\ msg[h].lo \in Nat /\ msg[h].n \in Nat /\ msg[h].lo + msg[h].n <= LogLen
        /\ msg[h].lo + msg[h].n \in Nat /\ msg[h].lo <= msg[h].lo + msg[h].n
    BY <1>2 DEF SafeInv, TypeInv, TypeOK, InHand
  <2> QED
    BY <1>1, <1>2, <2>1, RowsOfData, LenProperties DEF Data
<1>3. CASE h \notin Conns
  BY <1>1, <1>3, LenProperties DEF Data, SafeInv, OwnRows
<1> QED
  BY <1>2, <1>3

-----------------------------------------------------------------------------
(***************************************************************************)
(* What one step does to the handlers that do not take it.                 *)
(***************************************************************************)

\* The locals of handler g stay what they are.
Waits(g) ==
  /\ pc'[g] = pc[g] /\ dest'[g] = dest[g] /\ rowNo'[g] = rowNo[g] /\ arg'[g] = arg[g]
  /\ g \in Conns => msg'[g] = msg[g]
  /\ g \in Calls => size'[g] = size[g] /\ todo'[g] = todo[g]

\* A step of connection c, or of call k, is nobody else's.
LEMMA OthersWait ==
  ASSUME SafeInv, NEW h \in Handlers,
         \/ Bind(h) \/ Run(h)
         \/ h \in Conns /\ (\/ \E s \in Targets, lo \in 0..LogLen, n \in Batches :
                                Receive(h, s, lo, n)
                            \/ \E s \in Targets : RefuseContext(h, s)
                            \/ Disconnect(h)
                            \/ ContinueAppend(h))
         \/ h \in Calls /\ (\/ \E s \in Targets, target \in 1..LogLen : FlushRows(h, s, target)
                            \/ \E names \in SUBSET Targets : BatchCommit(h, names)
                            \/ ContinueCall(h))
  PROVE  \A g \in Handlers \ {h} : Waits(g)
<1> USE DEF streamVars, dbVars, connVars, callVars
<1>0. /\ pc \in [Handlers -> Steps]
      /\ dest \in [Handlers -> Targets \cup {NoStream}]
      /\ rowNo \in [Handlers -> Nat]
      /\ arg \in [Handlers -> Row \cup {NoRow}]
      /\ msg \in [Conns -> [lo : Nat, n : Nat]]
      /\ size \in [Calls -> Nat]
      /\ todo \in [Calls -> SUBSET Targets]
  BY DEF SafeInv, TypeInv, TypeOK
<1>1. CASE Bind(h) \/ Run(h)
  BY <1>0, <1>1 DEF Bind, Run, Waits
<1>2. ASSUME h \in Conns,
             \/ \E s \in Targets, lo \in 0..LogLen, n \in Batches : Receive(h, s, lo, n)
             \/ \E s \in Targets : RefuseContext(h, s)
             \/ Disconnect(h)
      PROVE  \A g \in Handlers \ {h} : Waits(g)
  BY <1>0, <1>2 DEF Receive, RefuseContext, Disconnect, Waits
<1>3. ASSUME h \in Conns, ContinueAppend(h)
      PROVE  \A g \in Handlers \ {h} : Waits(g)
  BY <1>0, <1>3 DEF ContinueAppend, SkipAppend, CountRows, RejectMessage, BufferAppend,
    InsertFirst, InsertNext, FinishAppend, FailAppend, EndMessage, Exec, Waits
<1>4. ASSUME h \in Calls, NEW now \in SUBSET Targets, NEW rest \in SUBSET Targets,
             CommitAndGoOn(h, now, rest), UNCHANGED <<msg, size>>
      PROVE  \A g \in Handlers \ {h} : Waits(g)
  <2>1. \/ EndCall(h) /\ UNCHANGED arg
        \/ \E T \in SUBSET Targets, s \in rest :
             /\ dest' = [dest EXCEPT ![h] = s]
             /\ todo' = [todo EXCEPT ![h] = T]
             /\ Exec(h, buffer[s], 1)
    BY <1>4 DEF CommitAndGoOn
  <2> QED
    BY <1>0, <1>4, <2>1 DEF EndCall, Exec, Waits
<1>5. ASSUME h \in Calls,
             \/ \E s \in Targets, target \in 1..LogLen : FlushRows(h, s, target)
             \/ FlushNext(h) \/ FlushDone(h) \/ CommitNext(h) \/ FailCall(h)
      PROVE  \A g \in Handlers \ {h} : Waits(g)
  <2>1. UNCHANGED msg
    BY <1>5 DEF FlushRows, FlushNext, FlushDone, CommitNext, FailCall
  <2>2. CASE \E s \in Targets, target \in 1..LogLen : FlushRows(h, s, target)
    <3>1. \A g \in Handlers \ {h} : /\ pc'[g] = pc[g] /\ rowNo'[g] = rowNo[g]
                                    /\ arg'[g] = arg[g] /\ dest'[g] = dest[g]
      BY <1>0, <2>2 DEF FlushRows, Exec
    <3>2. \A g \in Calls \ {h} : size'[g] = size[g] /\ todo'[g] = todo[g]
      BY <1>0, <1>5, <2>2 DEF FlushRows
    <3> QED
      BY <2>1, <3>1, <3>2 DEF Waits
  <2>3. CASE FlushNext(h) \/ CommitNext(h)
    BY <1>0, <2>1, <2>3 DEF FlushNext, CommitNext, Exec, Waits
  <2>4. CASE FlushDone(h) \/ FailCall(h)
    BY <1>0, <1>5, <2>1, <2>4 DEF FlushDone, FailCall, EndCall, Waits
  <2> QED
    BY <1>5, <2>2, <2>3, <2>4
<1>6. ASSUME h \in Calls, NEW names \in SUBSET Targets, BatchCommit(h, names)
      PROVE  \A g \in Handlers \ {h} : Waits(g)
  <2> DEFINE targets == {s \in names : Committable(s)}
  <2>1. CommitAndGoOn(h, {}, targets) /\ targets \in SUBSET Targets /\ {} \in SUBSET Targets
        /\ UNCHANGED <<msg, size>>
    BY <1>6 DEF BatchCommit
  <2> HIDE DEF targets
  <2> QED
    BY <1>4, <1>6, <2>1
<1>7. ASSUME h \in Calls, CommitStreamDone(h)
      PROVE  \A g \in Handlers \ {h} : Waits(g)
  <2>1. /\ {dest[h]} \in SUBSET Targets /\ todo[h] \in SUBSET Targets
        /\ CommitAndGoOn(h, {dest[h]}, todo[h]) /\ UNCHANGED <<msg, size>>
    BY <1>0, <1>7 DEF CommitStreamDone, SafeInv, TypeInv, InHand, Active
  <2> QED
    BY <1>4, <1>7, <2>1
<1> QED
  BY <1>1, <1>2, <1>3, <1>5, <1>6, <1>7 DEF ContinueCall

\* What a handler that waits is to insert into.
LEMMA WaitsWrites ==
  ASSUME SafeInv, NEW g \in Handlers, Waits(g),
         \A x \in Targets : type[x] # "NONE" => type'[x] = type[x],
         \A x \in Defaults : type'[x] = type[x]
  PROVE  WritesTo(g)' = WritesTo(g)
<1>1. Active(g)' <=> Active(g)
  BY DEF Waits, Active
<1>2. CASE g \in Calls
  BY <1>1, <1>2 DEF WritesTo, Waits
<1>3. CASE g \notin Calls
  <2>1. g \in Conns /\ AppendWork(g) /\ ctx[g] \subseteq Targets
    BY <1>3 DEF SafeInv, TypeInv, TypeOK
  <2>2. Active(g) => (Immediate(dest[g])' <=> Immediate(dest[g]))
    BY <2>1 DEF AppendWork, Immediate, Explicit, Waits
  <2> QED
    BY <1>1, <1>3, <2>1, <2>2 DEF WritesTo, Waits
<1> QED
  BY <1>2, <1>3

\* Where the others wait, and this handler is to insert no more than before or
\* begins where it is alone, no two are to insert into the same table.
LEMMA SoloStays ==
  ASSUME SafeInv, Solo, NEW h \in Handlers, \A g \in Handlers \ {h} : Waits(g),
         UNCHANGED type,
         \/ WritesTo(h)' \subseteq WritesTo(h)
         \/ \A g \in Handlers \ {h} : WritesTo(g) \cap WritesTo(h)' = {}
  PROVE  Solo'
<1>1. \A g \in Handlers \ {h} : WritesTo(g)' = WritesTo(g)
  BY WaitsWrites
<1> QED
  BY <1>1 DEF Solo

\* The buffer of x is continued.
Grows(x) ==
  /\ Len(buffer[x]) <= Len(buffer'[x])
  /\ \A i \in 1..Len(buffer[x]) : buffer'[x][i] = buffer[x][i]

\* A step of h changes only what its own loop reads.
Keeps(h) ==
  /\ \A g \in Handlers \ {h} : Waits(g)
  /\ \A k \in Calls \ {h} : held'[k] = held[k]
  /\ UNCHANGED type
  /\ \A r \in Row : copies[r] > 0 => copies'[r] > 0
  /\ \A x \in Targets : TableOf[x] \notin WritesTo(h) =>
       /\ bound'[TableOf[x]] = bound[TableOf[x]]
       /\ Immediate(x) => offset'[x] = offset[x]
       /\ Buffered(x) => Grows(x)

\* A handler that waits finds its rows where it left them.
LEMMA LoopWaits ==
  ASSUME SafeInv, Solo, SafeInv', NEW h \in Handlers, NEW g \in Handlers \ {h}, Keeps(h),
         Inserting(g), Loop(g)
  PROVE  Loop(g)'
<1>1. /\ Waits(g) /\ type'[dest[g]] = type[dest[g]] /\ dest[g] \in Targets
      /\ g \in Conns => Immediate(dest[g])
      /\ g \in Calls => g \notin Conns /\ Buffered(dest[g])
  BY AtWork DEF Keeps
<1>2. TableOf[dest[g]] \notin WritesTo(h)
  BY AtWork DEF Solo
<1>3. /\ bound'[TableOf[dest[g]]] = bound[TableOf[dest[g]]]
      /\ g \in Conns => offset'[dest[g]] = offset[dest[g]]
      /\ g \in Calls => Grows(dest[g])
  BY <1>1, <1>2 DEF Keeps
<1>4. /\ Data(g) \in Seq(DataOf(dest[g])) /\ Len(Data(g)) \in Nat
      /\ rowNo[g] \in 1..Len(Data(g))
  BY DataRows DEF Loop
<1> DEFINE d == Data(g)
<1> DEFINE e == Data(g)'
<1>5. Len(e) \in Nat /\ Len(d) <= Len(e) /\ \A i \in 1..Len(d) : e[i] = d[i]
  <2>1. CASE g \in Conns
    BY <1>1, <1>4, <2>1 DEF Data, Waits
  <2>2. CASE g \in Calls
    <3>1. buffer'[dest[g]] \in Seq(Row)
      BY <1>1 DEF SafeInv, TypeInv, TypeOK
    <3>2. d = buffer[dest[g]] /\ e = buffer'[dest[g]] /\ Len(e) \in Nat
      BY <1>1, <2>2, <3>1, LenProperties DEF Data, Waits
    <3> QED
      BY <1>3, <2>2, <3>2 DEF Grows
  <2> QED
    BY <2>1, <2>2
<1>6. \A i \in 1..Len(d) : d[i] \in Row
  BY <1>1, <1>4, ElementOfSeq DEF DataOf, Row
<1> HIDE DEF d, e
<1>7. /\ rowNo'[g] = rowNo[g] /\ pc'[g] = pc[g] /\ arg'[g] = arg[g] /\ dest'[g] = dest[g]
      /\ g \in Calls => size'[g] = size[g]
      /\ g \in Conns => msg'[g] = msg[g]
  BY <1>1 DEF Waits
<1>8. /\ rowNo[g] \in 1..Len(d)
      /\ g \in Calls /\ type[dest[g]] = "BUFFERED" => rowNo[g] <= size[g]
      /\ pc[g] = "preparing" => arg[g] = d[rowNo[g]]
      /\ pc[g] = "running" => bound[TableOf[dest[g]]] = d[rowNo[g]]
      /\ \A i \in 1..Progress(g) : copies[d[i]] > 0
      /\ g \in Conns /\ Explicit(dest[g]) /\ dest[g] \notin Unchecked => msg[g].lo = offset[dest[g]]
  BY DEF Loop, d
<1>9. rowNo[g] \in 1..Len(e) /\ e[rowNo[g]] = d[rowNo[g]]
  BY <1>4, <1>5, <1>8 DEF d
<1>10. \A i \in 1..Progress(g)' : copies'[e[i]] > 0
  <2>1. Progress(g)' = Progress(g) /\ \A i \in 1..Progress(g) : i \in 1..Len(d)
    BY <1>4, <1>7, <1>8 DEF Progress, d
  <2> QED
    BY <1>5, <1>6, <1>8, <2>1 DEF Keeps
<1> QED
  BY <1>1, <1>3, <1>7, <1>8, <1>9, <1>10 DEF Loop, e, Explicit

\* A step of h needs only what it says of h and of the lengths of the buffers.
LEMMA LoopStep ==
  ASSUME LoopInv, LogInv', NEW h \in Handlers, Keeps(h), Lengths',
         \/ WritesTo(h)' \subseteq WritesTo(h)
         \/ \A g \in Handlers \ {h} : WritesTo(g) \cap WritesTo(h)' = {},
         h \in Calls => Calling(h)',
         h \in Conns => Message(h)',
         Inserting(h)' => Loop(h)'
  PROVE  LoopInv'
<1>1. SafeInv /\ SafeInv' /\ Solo
  BY DEF LoopInv, LogInv
<1>2. \A g \in Handlers \ {h} : Waits(g)
  BY DEF Keeps
<1>3. Solo'
  BY <1>1, <1>2, SoloStays DEF Keeps
<1>4. ASSUME NEW k \in Calls \ {h} PROVE Calling(k)'
  <2>1. Waits(k) /\ Calling(k) /\ held'[k] = held[k]
    BY <1>2 DEF Keeps, LoopInv
  <2> QED
    BY <2>1 DEF Calling, Waits, Active
<1>5. ASSUME NEW c \in Conns \ {h} PROVE Message(c)'
  <2>1. Waits(c) /\ Message(c)
    BY <1>2 DEF LoopInv
  <2> QED
    BY <2>1 DEF Message, Waits, Active
<1>6. ASSUME NEW g \in Handlers \ {h}, Inserting(g)' PROVE Loop(g)'
  <2>1. Inserting(g)
    BY <1>2, <1>6 DEF Inserting, Waits
  <2>2. Loop(g)
    BY <2>1 DEF LoopInv
  <2> QED
    BY <1>1, <2>1, <2>2, LoopWaits
<1> QED
  BY <1>3, <1>4, <1>5, <1>6 DEF LoopInv

\* Nobody inserts at the start.
LEMMA LoopInit == Init => LoopInv
<1> SUFFICES ASSUME Init PROVE LoopInv
  OBVIOUS
<1>1. LogInv
  BY LogInit
<1>2. Solo
  BY DEF Init, Solo, WritesTo, Active
<1>3. Lengths
  BY DEF Init, Lengths, Buffered
<1>4. /\ \A k \in Calls : Calling(k)
      /\ \A c \in Conns : Message(c)
      /\ \A h \in Handlers : ~Inserting(h)
  BY DEF Init, Calling, Message, Inserting, Active
<1> QED
  BY <1>1, <1>2, <1>3, <1>4 DEF LoopInv

\* A step that no handler takes.
LEMMA LoopStill ==
  ASSUME LoopInv, LogInv', \A g \in Handlers : Waits(g),
         UNCHANGED <<held, copies, bound, offset, flushed, buffer>>,
         \A x \in Targets : type[x] # "NONE" => type'[x] = type[x],
         \A x \in Targets : type'[x] # type[x] => x \notin Defaults /\ buffer[x] = << >>
                                                  /\ offset[x] = 0 /\ flushed[x] = 0
  PROVE  LoopInv'
<1>0. SafeInv
  BY DEF LoopInv, LogInv
<1>1. Solo'
  <2>1. \A g \in Handlers : WritesTo(g)' = WritesTo(g)
    <3>1. \A x \in Defaults : type'[x] = type[x]
      BY ParametersAssumption
    <3> QED
      BY <1>0, <3>1, WaitsWrites
  <2> QED
    BY <2>1 DEF LoopInv, Solo
<1>2. Lengths'
  <2>1. \A x \in Targets : type'[x] # type[x] => Len(buffer[x]) = offset[x] - flushed[x]
    OBVIOUS
  <2> QED
    BY <2>1 DEF LoopInv, Lengths, Buffered
<1>3. \A k \in Calls : Calling(k)'
  BY DEF LoopInv, Calling, Waits, Active
<1>4. \A c \in Conns : Message(c)'
  BY DEF LoopInv, Message, Waits, Active
<1>5. ASSUME NEW g \in Handlers, Inserting(g)' PROVE Loop(g)'
  <2>1. Waits(g) /\ Inserting(g) /\ Loop(g)
    BY <1>5 DEF LoopInv, Inserting, Waits
  <2>2. g \in Calls => type[dest[g]] # "NONE" /\ dest[g] \in Targets
    BY <1>0, <2>1, AtWork DEF Buffered
  <2>3. Data(g)' = Data(g) /\ Progress(g)' = Progress(g)
    BY <2>1 DEF Data, RowsOf, Progress, Waits
  <2> QED
    BY <2>1, <2>2, <2>3 DEF Loop, Waits, Explicit
<1> QED
  BY <1>1, <1>2, <1>3, <1>4, <1>5 DEF LoopInv

\* CreateWriteStream and FinalizeWriteStream are no part of a loop.
LEMMA LoopStream ==
  ASSUME LoopInv, LogInv', NEW s \in Targets,
         (\E ty \in Types : CreateWriteStream(s, ty)) \/ FinalizeWriteStream(s)
  PROVE  LoopInv'
<1>1. /\ UNCHANGED <<pc, dest, rowNo, arg, msg, size, todo, held, copies, bound, offset,
                     flushed, buffer>>
      /\ type' = type \/ \E ty \in Types : /\ type' = [type EXCEPT ![s] = ty]
                                          /\ type[s] = "NONE" /\ s \notin Defaults
                                          /\ buffer[s] = << >>
                                          /\ offset[s] = 0 /\ flushed[s] = 0
  BY DEF CreateWriteStream, FinalizeWriteStream, dbVars, connVars, callVars, LoopInv,
    LogInv, SafeInv, Created, Explicit
<1>2. type \in [Targets -> Types \cup {"NONE"}]
  BY DEF LoopInv, LogInv, SafeInv, TypeInv, TypeOK
<1>3. \A g \in Handlers : Waits(g)
  BY <1>1 DEF Waits
<1> QED
  BY <1>1, <1>2, <1>3, LoopStill

\* The two steps of an INSERT.
LEMMA LoopBind ==
  ASSUME LoopInv, LogInv', NEW h \in Handlers, Bind(h)
  PROVE  LoopInv'
<1> DEFINE t == TableOf[dest[h]]
<1>1. /\ pc[h] = "preparing" /\ Inserting(h) /\ Active(h)
      /\ UNCHANGED <<type, offset, flushed, buffer, copies, dest, rowNo, msg, size, todo, held>>
      /\ pc' = [pc EXCEPT ![h] = "running"]
  BY DEF Bind, Inserting, Active, streamVars, connVars, callVars
<1>2. /\ SafeInv /\ Loop(h) /\ dest[h] \in Targets /\ t \in WritesTo(h)
      /\ bound \in [{TableOf[s] : s \in Targets} -> Row \cup {NoRow}]
      /\ pc \in [Handlers -> Steps]
  BY <1>1, AtWork DEF LoopInv, LogInv, SafeInv, TypeInv, TypeOK
<1>3. arg[h] = Data(h)[rowNo[h]] /\ arg[h] \in Row
  <2>1. Data(h) \in Seq(DataOf(dest[h])) /\ rowNo[h] \in 1..Len(Data(h))
    BY <1>1, <1>2, DataRows DEF Loop
  <2>2. Data(h)[rowNo[h]] \in DataOf(dest[h])
    BY <2>1, ElementOfSeq
  <2> QED
    BY <1>1, <1>2, <2>2 DEF Loop, DataOf, Row
<1>4. bound' = [bound EXCEPT ![t] = arg[h]]
  BY <1>3, ParametersAssumption DEF Bind
<1> HIDE DEF t
<1>5. /\ bound'[t] = arg[h] /\ \A x \in Targets : TableOf[x] # t =>
           bound'[TableOf[x]] = bound[TableOf[x]]
  BY <1>2, <1>4 DEF t
<1>6. \A g \in Handlers \ {h} : Waits(g)
  BY <1>2, OthersWait
<1>7. Keeps(h)
  BY <1>1, <1>2, <1>5, <1>6 DEF Keeps, Grows
<1>8. Lengths'
  BY <1>1 DEF LoopInv, Lengths, Buffered
<1>9. pc'[h] = "running"
  BY <1>1, <1>2
<1>10. WritesTo(h)' = WritesTo(h)
  BY <1>1, <1>9 DEF WritesTo, Active, Immediate
<1>11. h \in Calls => Calling(h)'
  BY <1>1, <1>9 DEF LoopInv, Calling, Active
<1>12. h \in Conns => Message(h)'
  BY <1>1, <1>9 DEF LoopInv, Message, Active
<1>13. Loop(h)'
  <2>1. Data(h)' = Data(h) /\ Progress(h)' = Progress(h)
    BY <1>1, <1>9 DEF Data, RowsOf, Progress
  <2> QED
    BY <1>1, <1>2, <1>3, <1>5, <1>9, <2>1 DEF Loop, t, Explicit
<1> QED
  BY <1>7, <1>8, <1>10, <1>11, <1>12, <1>13, LoopStep

\* The statement of a handler runs with the row the handler passed to exec().
LEMMA RunRow ==
  ASSUME LoopInv, NEW h \in Handlers, pc[h] = "running"
  PROVE  LET r == bound[TableOf[dest[h]]]
         IN  /\ Inserting(h) /\ Loop(h) /\ r = Data(h)[rowNo[h]]
             /\ r \in DataOf(dest[h]) /\ r \in Row /\ dest[h] \in Targets
<1>1. SafeInv /\ Inserting(h) /\ Loop(h)
  BY DEF LoopInv, LogInv, Inserting
<1>2. Data(h) \in Seq(DataOf(dest[h])) /\ rowNo[h] \in 1..Len(Data(h)) /\ dest[h] \in Targets
  BY <1>1, DataRows, AtWork DEF Loop
<1>3. Data(h)[rowNo[h]] \in DataOf(dest[h])
  BY <1>2, ElementOfSeq
<1> QED
  BY <1>1, <1>2, <1>3 DEF Loop, DataOf, Row

\* The row that was executed joins those in the table.
LEMMA LoopRun ==
  ASSUME LoopInv, LogInv', NEW h \in Handlers, Run(h)
  PROVE  LoopInv'
<1> DEFINE r == bound[TableOf[dest[h]]]
<1>1. /\ pc[h] = "running" /\ Active(h)
      /\ UNCHANGED <<type, offset, flushed, buffer, bound, dest, rowNo, msg, size, todo, held>>
      /\ \/ /\ copies' = [copies EXCEPT ![r] = @ + 1] /\ pc' = [pc EXCEPT ![h] = "ran"]
         \/ /\ copies' = copies /\ pc' = [pc EXCEPT ![h] = "threw"]
  BY DEF Run, Active, streamVars, connVars, callVars
<1>2. /\ SafeInv /\ pc \in [Handlers -> Steps] /\ copies \in [Row -> Nat]
      /\ Inserting(h) /\ Loop(h) /\ r = Data(h)[rowNo[h]] /\ r \in Row
  BY <1>1, RunRow DEF LoopInv, LogInv, SafeInv, TypeInv, TypeOK
<1> HIDE DEF r
<1>3. /\ \A q \in Row : copies[q] > 0 => copies'[q] > 0
      /\ \/ pc'[h] = "ran" /\ copies'[r] > 0
         \/ pc'[h] = "threw"
  BY <1>1, <1>2
<1>4. \A g \in Handlers \ {h} : Waits(g)
  BY <1>2, OthersWait
<1>5. Keeps(h)
  BY <1>1, <1>3, <1>4 DEF Keeps, Grows
<1>6. Lengths'
  BY <1>1 DEF LoopInv, Lengths, Buffered
<1>7. WritesTo(h)' = WritesTo(h)
  BY <1>1, <1>3 DEF WritesTo, Active, Immediate
<1>8. h \in Calls => Calling(h)'
  BY <1>1, <1>3 DEF LoopInv, Calling, Active
<1>9. h \in Conns => Message(h)'
  BY <1>1, <1>3 DEF LoopInv, Message, Active
<1>10. Loop(h)'
  <2>1. Data(h)' = Data(h) /\ Data(h) \in Seq(DataOf(dest[h])) /\ Len(Data(h)) \in Nat
    BY <1>1, <1>2, DataRows DEF Data, RowsOf
  <2>2. \A i \in 1..Len(Data(h)) : Data(h)[i] \in Row
    BY <1>2, <2>1, AtWork, ElementOfSeq DEF DataOf, Row
  <2>3. \A i \in 1..(rowNo[h] - 1) : copies[Data(h)[i]] > 0
    BY <1>1, <1>2 DEF Loop, Progress
  <2>4. /\ rowNo[h] \in 1..Len(Data(h))
        /\ h \in Calls /\ type[dest[h]] = "BUFFERED" => rowNo[h] <= size[h]
        /\ h \in Conns /\ Explicit(dest[h]) /\ dest[h] \notin Unchecked
             => msg[h].lo = offset[dest[h]]
    BY <1>2 DEF Loop
  <2>5. \A i \in 1..(rowNo[h] - 1) : copies'[Data(h)[i]] > 0
    BY <1>3, <2>1, <2>2, <2>3, <2>4
  <2>6. \A i \in 1..Progress(h)' : copies'[Data(h)[i]] > 0
    BY <1>1, <1>2, <1>3, <2>4, <2>5 DEF Progress
  <2> QED
    BY <1>1, <1>3, <2>1, <2>4, <2>6 DEF Loop, Explicit
<1> QED
  BY <1>5, <1>6, <1>7, <1>8, <1>9, <1>10, LoopStep

\* The steps of a message that insert nothing and append nothing.
LEMMA LoopMessage ==
  ASSUME OneWriter, LoopInv, LogInv', NEW c \in Conns,
         \/ \E s \in Targets, lo \in 0..LogLen, n \in Batches : Receive(c, s, lo, n)
         \/ SkipAppend(c) \/ CountRows(c) \/ RejectMessage(c) \/ FailAppend(c)
  PROVE  LoopInv'
<1> USE DEF streamVars, dbVars, connVars, callVars
<1>1. /\ UNCHANGED <<type, offset, flushed, buffer, copies, bound, held>>
      /\ c \notin Calls /\ c \in Handlers
  BY ParametersAssumption
  DEF Receive, SkipAppend, CountRows, RejectMessage, FailAppend
<1>2. /\ SafeInv /\ pc \in [Handlers -> Steps] /\ msg \in [Conns -> [lo : Nat, n : Nat]]
      /\ dest \in [Handlers -> Targets \cup {NoStream}] /\ Message(c)
  BY DEF LoopInv, LogInv, SafeInv, TypeInv, TypeOK
<1>3. \A g \in Handlers \ {c} : Waits(g)
  BY <1>1, <1>2, OthersWait DEF ContinueAppend
<1>4. Keeps(c)
  BY <1>1, <1>3 DEF Keeps, Grows
<1>5. Lengths'
  BY <1>1 DEF LoopInv, Lengths, Buffered
<1>6. ~Inserting(c)' /\ Message(c)'
  <2>1. ASSUME NEW s \in Targets, NEW lo \in 0..LogLen, NEW n \in Batches, Receive(c, s, lo, n)
        PROVE  pc'[c] = "meta" /\ msg'[c].n = n
    BY <1>1, <1>2, <2>1 DEF Receive
  <2>2. CASE SkipAppend(c) \/ RejectMessage(c) \/ FailAppend(c)
    <3>1. pc'[c] = "idle"
      BY <1>1, <1>2, <2>2 DEF SkipAppend, RejectMessage, FailAppend, EndMessage
    <3> QED
      BY <3>1 DEF Inserting, Message, Active
  <2>3. CASE CountRows(c)
    <3>1. pc[c] = "meta" /\ pc'[c] = "counted" /\ msg'[c] = msg[c] /\ dest'[c] = dest[c]
          /\ ~Explicit(dest[c])
      BY <1>1, <1>2, <2>3 DEF CountRows
    <3> QED
      BY <1>2, <3>1 DEF Inserting, Message, Active, Explicit
  <2> QED
    BY <2>1, <2>2, <2>3 DEF Inserting, Message, Active
<1>7. \/ WritesTo(c)' \subseteq WritesTo(c)
      \/ \A g \in Handlers \ {c} : WritesTo(g) \cap WritesTo(c)' = {}
  <2>1. ASSUME NEW s \in Targets, NEW lo \in 0..LogLen, NEW n \in Batches, Receive(c, s, lo, n)
        PROVE  \A g \in Handlers \ {c} : WritesTo(g) \cap WritesTo(c)' = {}
    <3>1. dest'[c] = s /\ (Immediate(s) => Alone(c, {s}))
      BY <1>1, <1>2, <2>1 DEF Receive
    <3>2. WritesTo(c)' = {} \/ (Immediate(s) /\ WritesTo(c)' = {TableOf[s]})
      BY <1>1, <3>1 DEF WritesTo, Immediate
    <3>3. {TableOf[x] : x \in {s}} = {TableOf[s]}
      OBVIOUS
    <3> QED
      BY <3>1, <3>2, <3>3 DEF Alone
  <2>2. CASE SkipAppend(c) \/ RejectMessage(c) \/ FailAppend(c)
    <3>1. pc'[c] = "idle"
      BY <1>1, <1>2, <2>2 DEF SkipAppend, RejectMessage, FailAppend, EndMessage
    <3> QED
      BY <1>1, <3>1 DEF WritesTo, Active
  <2>3. CASE CountRows(c)
    <3>1. pc[c] = "meta" /\ pc'[c] = "counted" /\ dest'[c] = dest[c]
      BY <1>1, <1>2, <2>3 DEF CountRows
    <3> QED
      BY <1>1, <3>1 DEF WritesTo, Active, Immediate
  <2> QED
    BY <2>1, <2>2, <2>3
<1> QED
  BY <1>1, <1>4, <1>5, <1>6, <1>7, LoopStep

\* The next row of the message a connection inserts.
LEMMA LoopInsert ==
  ASSUME LoopInv, LogInv', NEW c \in Conns, InsertFirst(c) \/ InsertNext(c)
  PROVE  LoopInv'
<1> DEFINE rows == RowsOf(dest[c], msg[c].lo, msg[c].lo + msg[c].n)
<1> DEFINE j == IF pc[c] = "ran" THEN rowNo[c] + 1 ELSE 1
<1>1. /\ UNCHANGED <<type, offset, flushed, buffer, copies, bound, held, dest, msg>>
      /\ Active(c) /\ Exec(c, rows, j)
      /\ Admitted(c) \/ (pc[c] = "ran" /\ rowNo[c] < msg[c].n)
      /\ c \notin Calls /\ c \in Handlers
  BY ParametersAssumption
  DEF InsertFirst, InsertNext, Admitted, Active, streamVars, connVars, callVars
<1>2. /\ SafeInv /\ pc \in [Handlers -> Steps] /\ msg[c].lo \in Nat /\ msg[c].n \in Nat
      /\ rowNo \in [Handlers -> Nat] /\ arg \in [Handlers -> Row \cup {NoRow}]
      /\ dest[c] \in Targets /\ msg[c].lo + msg[c].n <= LogLen /\ Message(c)
      /\ msg[c].n \in Batches
  BY <1>1 DEF LoopInv, LogInv, SafeInv, TypeInv, TypeOK, InHand, Message
<1>3. rows \in Seq(Row) /\ Len(rows) = msg[c].n /\ msg[c].n >= 1
  <2>1. msg[c].lo + msg[c].n \in Nat /\ msg[c].lo <= msg[c].lo + msg[c].n
        /\ (msg[c].lo + msg[c].n) - msg[c].lo = msg[c].n
    BY <1>2
  <2>2. msg[c].n \in Nat \ {0}
    BY <1>2, ParametersAssumption
  <2>3. rows \in Seq(Row) /\ Len(rows) = (msg[c].lo + msg[c].n) - msg[c].lo
    BY <1>2, <2>1, RowsOfProperties
  <2> QED
    BY <2>1, <2>2, <2>3
<1>4. /\ j \in 1..Len(rows)
      /\ Explicit(dest[c]) /\ dest[c] \notin Unchecked => msg[c].lo = offset[dest[c]]
      /\ \A i \in 1..(j - 1) : copies[rows[i]] > 0
  <2>1. CASE pc[c] = "ran"
    <3>1. Inserting(c) /\ Loop(c) /\ Data(c) = rows /\ rowNo[c] < msg[c].n
      BY <1>1, <2>1 DEF Inserting, LoopInv, Data, Admitted
    <3>2. Progress(c) = rowNo[c] /\ rowNo[c] \in Nat
      BY <1>1, <1>2, <2>1 DEF Progress
    <3> HIDE DEF rows
    <3>3. /\ Explicit(dest[c]) /\ dest[c] \notin Unchecked => msg[c].lo = offset[dest[c]]
          /\ \A i \in 1..rowNo[c] : copies[rows[i]] > 0
      BY <3>1, <3>2 DEF Loop
    <3>4. j = rowNo[c] + 1 /\ j - 1 = rowNo[c] /\ j \in 1..Len(rows)
      BY <1>2, <1>3, <2>1, <3>1, <3>2
    <3> QED
      BY <3>3, <3>4
  <2>2. CASE pc[c] # "ran"
    BY <1>1, <1>2, <1>3, <2>2 DEF Admitted, OffsetMatches, Message, Explicit
  <2> QED
    BY <2>1, <2>2
<1> HIDE DEF rows, j
<1>5. pc'[c] = "preparing" /\ rowNo'[c] = j /\ arg'[c] = rows[j]
  BY <1>1, <1>2, <1>4 DEF Exec
<1>6. \A g \in Handlers \ {c} : Waits(g)
  BY <1>1, <1>2, OthersWait DEF ContinueAppend
<1>7. Keeps(c)
  BY <1>1, <1>6 DEF Keeps, Grows
<1>8. Lengths'
  BY <1>1 DEF LoopInv, Lengths, Buffered
<1>9. WritesTo(c)' = WritesTo(c)
  BY <1>1, <1>5 DEF WritesTo, Active, Immediate
<1>10. Message(c)'
  BY <1>1, <1>2, <1>5 DEF Message
<1>11. Loop(c)'
  <2>1. Data(c)' = rows
    BY <1>1 DEF Data, RowsOf, rows
  <2>2. Progress(c)' = j - 1
    BY <1>5 DEF Progress
  <2> QED
    BY <1>1, <1>4, <1>5, <2>1, <2>2 DEF Loop, Explicit
<1> QED
  BY <1>1, <1>7, <1>8, <1>9, <1>10, <1>11, LoopStep

\* Rows join the buffer of a stream no connection inserts into.
LEMMA LoopBufferAppend ==
  ASSUME LoopInv, LogInv', NEW c \in Conns, BufferAppend(c)
  PROVE  LoopInv'
<1> DEFINE s == dest[c]
<1> DEFINE more == RowsOf(s, msg[c].lo, msg[c].lo + msg[c].n)
<1>1. /\ UNCHANGED <<type, flushed, copies, bound, held>>
      /\ buffer' = [buffer EXCEPT ![s] = buffer[s] \o more]
      /\ offset' = [offset EXCEPT ![s] = offset[s] + msg[c].n]
      /\ Active(c) /\ ~Immediate(s) /\ c \notin Calls /\ c \in Handlers
      /\ pc' = [pc EXCEPT ![c] = "idle"]
  BY ParametersAssumption
  DEF BufferAppend, Admitted, Active, Written, EndMessage, dbVars, callVars
<1>2. /\ SafeInv /\ pc \in [Handlers -> Steps] /\ msg[c].lo \in Nat /\ msg[c].n \in Nat
      /\ s \in Targets /\ msg[c].lo + msg[c].n <= LogLen
      /\ offset \in [Targets -> Nat] /\ buffer \in [Targets -> Seq(Row)] /\ flushed[s] \in Nat
  BY <1>1 DEF LoopInv, LogInv, SafeInv, TypeInv, TypeOK, InHand
<1>3. more \in Seq(Row) /\ Len(more) = msg[c].n
  <2>1. msg[c].lo + msg[c].n \in Nat /\ msg[c].lo <= msg[c].lo + msg[c].n
        /\ (msg[c].lo + msg[c].n) - msg[c].lo = msg[c].n
    BY <1>2
  <2> QED
    BY <1>2, <2>1, RowsOfProperties
<1> HIDE DEF s, more
<1>4. /\ pc'[c] = "idle" /\ buffer'[s] = buffer[s] \o more
      /\ offset'[s] = offset[s] + msg[c].n
      /\ \A x \in Targets \ {s} : buffer'[x] = buffer[x] /\ offset'[x] = offset[x]
  BY <1>1, <1>2
<1>5. /\ Len(buffer[s]) \in Nat /\ Len(buffer'[s]) = Len(buffer[s]) + msg[c].n
      /\ Grows(s)
  <2> DEFINE b == buffer[s]
  <2>0. b \in Seq(Row)
    BY <1>2
  <2> HIDE DEF b
  <2>1. /\ Len(b \o more) = Len(b) + Len(more)
        /\ Len(b) \in Nat
        /\ \A i \in 1..Len(b) : (b \o more)[i] = b[i]
    BY <1>3, <2>0, ConcatProperties, LenProperties
  <2> QED
    BY <1>2, <1>3, <1>4, <2>1 DEF Grows, b
<1>6. \A g \in Handlers \ {c} : Waits(g)
  BY <1>1, <1>2, OthersWait DEF ContinueAppend
<1>7. Keeps(c)
  <2>1. \A x \in Targets : (Immediate(x) => offset'[x] = offset[x]) /\ Grows(x)
    BY <1>1, <1>4, <1>5 DEF Grows
  <2> QED
    BY <1>1, <1>6, <2>1 DEF Keeps
<1>8. Lengths'
  <2>1. Len(buffer[s]) = offset[s] - flushed[s] =>
          Len(buffer'[s]) = offset'[s] - flushed[s]
    BY <1>2, <1>4, <1>5
  <2>2. type[s] # "COMMITTED"
    BY <1>1 DEF Immediate
  <2> QED
    BY <1>1, <1>4, <2>1, <2>2 DEF LoopInv, Lengths, Buffered
<1>9. ~Inserting(c)' /\ Message(c)' /\ WritesTo(c)' = {}
  BY <1>1, <1>4 DEF Inserting, Message, WritesTo, Active
<1> QED
  BY <1>1, <1>7, <1>8, <1>9, LoopStep

\* The offset of a COMMITTED stream moves, and flushedOffset with it.
LEMMA LoopFinishAppend ==
  ASSUME LoopInv, LogInv', NEW c \in Conns, FinishAppend(c)
  PROVE  LoopInv'
<1> DEFINE s == dest[c]
<1>1. /\ UNCHANGED <<type, buffer, copies, bound, held>>
      /\ \/ /\ Explicit(s)
            /\ offset' = [offset EXCEPT ![s] = offset[s] + msg[c].n]
            /\ flushed' = [flushed EXCEPT ![s] = offset[s] + msg[c].n]
         \/ UNCHANGED <<offset, flushed>>
      /\ Inserting(c) /\ c \notin Calls /\ c \in Handlers
      /\ pc' = [pc EXCEPT ![c] = "idle"]
  BY ParametersAssumption
  DEF FinishAppend, Inserting, Written, EndMessage, dbVars, callVars
<1>2. /\ SafeInv /\ pc \in [Handlers -> Steps] /\ s \in Targets /\ Immediate(s)
      /\ TableOf[s] \in WritesTo(c)
      /\ offset \in [Targets -> Nat] /\ flushed \in [Targets -> Nat]
  BY <1>1, AtWork DEF LoopInv, LogInv, SafeInv, TypeInv, TypeOK
<1> HIDE DEF s
<1>3. /\ pc'[c] = "idle"
      /\ \A x \in Targets \ {s} : offset'[x] = offset[x] /\ flushed'[x] = flushed[x]
      /\ \/ offset'[s] = offset[s] /\ flushed'[s] = flushed[s]
         \/ offset'[s] = flushed'[s]
      /\ Explicit(s) \/ (offset'[s] = offset[s] /\ flushed'[s] = flushed[s])
  BY <1>1, <1>2
<1>4. \A g \in Handlers \ {c} : Waits(g)
  BY <1>1, <1>2, OthersWait DEF ContinueAppend
<1>5. Keeps(c)
  BY <1>1, <1>2, <1>3, <1>4 DEF Keeps, Grows
<1>6. Lengths'
  <2>1. Buffered(s) => ~Explicit(s)
    BY <1>2 DEF Buffered, Immediate, Explicit
  <2> QED
    BY <1>1, <1>3, <2>1 DEF LoopInv, Lengths, Buffered
<1>7. ~Inserting(c)' /\ Message(c)' /\ WritesTo(c)' = {}
  BY <1>1, <1>3 DEF Inserting, Message, WritesTo, Active
<1> QED
  BY <1>1, <1>5, <1>6, <1>7, LoopStep

\* A flush has no more rows to insert than its stream's buffer holds.
LEMMA FlushFits ==
  ASSUME LoopInv, NEW k \in Calls, Active(k), type[dest[k]] = "BUFFERED"
  PROVE  /\ dest[k] \in Targets /\ size[k] \in Nat \ {0}
         /\ Len(buffer[dest[k]]) \in Nat /\ size[k] <= Len(buffer[dest[k]])
         /\ offset[dest[k]] \in Nat /\ flushed[dest[k]] \in Nat
         /\ Len(buffer[dest[k]]) = offset[dest[k]] - flushed[dest[k]]
         /\ upto[k] = flushed[dest[k]] + size[k]
<1>1. /\ dest[k] \in Targets /\ upto[k] \in Nat /\ upto[k] <= offset[dest[k]]
      /\ offset[dest[k]] \in Nat /\ flushed[dest[k]] \in Nat
      /\ buffer[dest[k]] \in Seq(Row)
  BY DEF LoopInv, LogInv, SafeInv, TypeInv, TypeOK, InHand, CallWork, Sealed
<1>2. size[k] \in Nat \ {0} /\ flushed[dest[k]] + size[k] = upto[k]
  BY DEF LoopInv, LogInv, FlushInHand
<1>3. Len(buffer[dest[k]]) = offset[dest[k]] - flushed[dest[k]]
  BY <1>1 DEF LoopInv, Lengths, Buffered
<1>4. Len(buffer[dest[k]]) \in Nat
  BY <1>1, LenProperties
<1> QED
  BY <1>1, <1>2, <1>3, <1>4

\* A flush begins where no other handler inserts into the table.
LEMMA LoopFlushRows ==
  ASSUME OneWriter, LoopInv, LogInv', NEW k \in Calls, NEW s \in Targets,
         NEW target \in 1..LogLen, FlushRows(k, s, target)
  PROVE  LoopInv'
<1>1. /\ UNCHANGED <<type, offset, flushed, buffer, copies, bound, todo, held>>
      /\ pc[k] = "idle" /\ type[s] = "BUFFERED" /\ Alone(k, {s})
      /\ flushed[s] < target /\ target <= offset[s]
      /\ dest' = [dest EXCEPT ![k] = s]
      /\ size' = [size EXCEPT ![k] = target - flushed[s]]
      /\ Exec(k, buffer[s], 1)
      /\ k \notin Conns /\ k \in Handlers
  BY ParametersAssumption DEF FlushRows, InRange, streamVars, callVars
<1>2. /\ SafeInv /\ pc \in [Handlers -> Steps] /\ rowNo \in [Handlers -> Nat]
      /\ dest \in [Handlers -> Targets \cup {NoStream}]
      /\ arg \in [Handlers -> Row \cup {NoRow}] /\ size \in [Calls -> Nat]
      /\ offset[s] \in Nat /\ flushed[s] \in Nat /\ target \in Nat
      /\ Len(buffer[s]) = offset[s] - flushed[s]
      /\ todo[k] = {} /\ Calling(k)
  <2>1. /\ SafeInv /\ Lengths /\ Calling(k) /\ target \in Nat
    BY ParametersAssumption DEF LoopInv, LogInv
  <2> QED
    BY <1>1, <2>1 DEF SafeInv, TypeInv, TypeOK, Lengths, Buffered, Calling, Active
<1>3. 1 \in 1..Len(buffer[s])
  BY <1>1, <1>2
<1>4. /\ pc'[k] = "preparing" /\ rowNo'[k] = 1 /\ arg'[k] = buffer[s][1] /\ dest'[k] = s
      /\ size'[k] = target - flushed[s]
  BY <1>1, <1>2, <1>3 DEF Exec
<1>5. \A g \in Handlers \ {k} : Waits(g)
  BY <1>1, <1>2, OthersWait
<1>6. Keeps(k)
  BY <1>1, <1>5 DEF Keeps, Grows
<1>7. Lengths'
  BY <1>1 DEF LoopInv, Lengths, Buffered
<1>8. \A g \in Handlers \ {k} : WritesTo(g) \cap WritesTo(k)' = {}
  <2>1. WritesTo(k)' = {TableOf[x] : x \in {s}}
    BY <1>1, <1>2, <1>4 DEF WritesTo, Active
  <2> QED
    BY <1>1, <2>1 DEF Alone
<1>9. Calling(k)'
  BY <1>1, <1>2, <1>4 DEF Calling, Active
<1>10. Loop(k)'
  <2>1. Data(k)' = buffer[s]
    BY <1>1, <1>4 DEF Data
  <2>2. Progress(k)' = 0
    BY <1>4 DEF Progress
  <2>3. rowNo'[k] <= size'[k]
    BY <1>1, <1>2, <1>4
  <2> QED
    BY <1>1, <1>3, <1>4, <2>1, <2>2, <2>3 DEF Loop
<1> QED
  BY <1>1, <1>6, <1>7, <1>8, <1>9, <1>10, LoopStep

\* The next row of the buffer a call inserts.
LEMMA LoopCallNext ==
  ASSUME LoopInv, LogInv', NEW k \in Calls, FlushNext(k) \/ CommitNext(k)
  PROVE  LoopInv'
<1> DEFINE b == buffer[dest[k]]
<1> DEFINE j == rowNo[k] + 1
<1>1. /\ UNCHANGED <<type, offset, flushed, buffer, copies, bound, dest, size, todo, held>>
      /\ pc[k] = "ran" /\ Active(k) /\ Inserting(k) /\ Loop(k) /\ Calling(k)
      /\ k \notin Conns /\ k \in Handlers
  BY ParametersAssumption
  DEF FlushNext, CommitNext, Active, Inserting, LoopInv, streamVars, callVars
<1>2. /\ SafeInv /\ pc \in [Handlers -> Steps] /\ rowNo \in [Handlers -> Nat]
      /\ arg \in [Handlers -> Row \cup {NoRow}] /\ dest[k] \in Targets
      /\ b \in Seq(Row) /\ Len(b) \in Nat
  BY <1>1, LenProperties DEF LoopInv, LogInv, SafeInv, TypeInv, TypeOK, InHand
<1>3. /\ Exec(k, b, j) /\ j \in 1..Len(b)
      /\ type[dest[k]] = "BUFFERED" => j <= size[k]
  <2>1. CASE FlushNext(k)
    <3>1. Exec(k, b, j) /\ type[dest[k]] = "BUFFERED" /\ rowNo[k] < size[k]
      BY <2>1 DEF FlushNext
    <3>2. size[k] \in Nat /\ size[k] <= Len(b)
      BY <1>1, <3>1, FlushFits
    <3> QED
      BY <1>2, <3>1, <3>2
  <2>2. CASE CommitNext(k)
    <3>1. Iterated(k) = b
      BY <1>1 DEF Calling, Iterated
    <3>2. Exec(k, b, j) /\ type[dest[k]] = "PENDING" /\ rowNo[k] < Len(b)
      BY <2>2, <3>1 DEF CommitNext
    <3> QED
      BY <1>2, <3>2
  <2> QED
    BY <2>1, <2>2
<1>4. Data(k) = b /\ Progress(k) = rowNo[k]
  BY <1>1 DEF Data, Progress
<1> HIDE DEF b
<1>5. pc'[k] = "preparing" /\ rowNo'[k] = j /\ arg'[k] = b[j]
  BY <1>1, <1>2, <1>3 DEF Exec
<1>6. \A g \in Handlers \ {k} : Waits(g)
  BY <1>1, <1>2, OthersWait DEF ContinueCall
<1>7. Keeps(k)
  BY <1>1, <1>6 DEF Keeps, Grows
<1>8. Lengths'
  BY <1>1 DEF LoopInv, Lengths, Buffered
<1>9. WritesTo(k)' = WritesTo(k)
  BY <1>1, <1>5 DEF WritesTo, Active
<1>10. Calling(k)'
  BY <1>1, <1>5 DEF Calling, Active
<1>11. Loop(k)'
  <2>1. Data(k)' = b /\ Progress(k)' = rowNo[k]
    BY <1>1, <1>2, <1>5 DEF Data, Progress, b
  <2>2. \A i \in 1..rowNo[k] : copies[b[i]] > 0
    BY <1>1, <1>4 DEF Loop
  <2> QED
    BY <1>1, <1>3, <1>5, <2>1, <2>2 DEF Loop
<1> QED
  BY <1>1, <1>7, <1>8, <1>9, <1>10, <1>11, LoopStep

\* A flush takes the rows it inserted off the buffer.
LEMMA LoopFlushDone ==
  ASSUME LoopInv, LogInv', NEW k \in Calls, FlushDone(k)
  PROVE  LoopInv'
<1> DEFINE s == dest[k]
<1>1. /\ UNCHANGED <<type, offset, copies, bound, held>>
      /\ buffer' = [buffer EXCEPT ![s] = Unflushed(s, size[k])]
      /\ flushed' = [flushed EXCEPT ![s] = upto[k]]
      /\ type[s] = "BUFFERED" /\ pc[k] = "ran" /\ Active(k) /\ Inserting(k)
      /\ EndCall(k) /\ k \notin Conns /\ k \in Handlers
  BY ParametersAssumption DEF FlushDone, Active, Inserting, dbVars, connVars
<1>2. /\ SafeInv /\ pc \in [Handlers -> Steps] /\ flushed \in [Targets -> Nat]
      /\ dest \in [Handlers -> Targets \cup {NoStream}] /\ todo \in [Calls -> SUBSET Targets]
      /\ buffer \in [Targets -> Seq(Row)] /\ TableOf[s] \in WritesTo(k)
  BY <1>1, AtWork DEF LoopInv, LogInv, SafeInv, TypeInv, TypeOK
<1>3. /\ s \in Targets /\ size[k] \in Nat \ {0}
      /\ Len(buffer[s]) \in Nat /\ size[k] <= Len(buffer[s])
      /\ offset[s] \in Nat /\ flushed[s] \in Nat
      /\ Len(buffer[s]) = offset[s] - flushed[s] /\ upto[k] = flushed[s] + size[k]
  BY <1>1, FlushFits
<1>4. Len(Unflushed(s, size[k])) = Len(buffer[s]) - size[k]
  <2> DEFINE b == buffer[s]
  <2>1. b \in Seq(Row)
    BY <1>2, <1>3
  <2>2. \A i \in (size[k] + 1)..Len(b) : b[i] \in Row
    BY <1>3, <2>1, ElementOfSeq
  <2> QED
    BY <1>3, <2>2, SubSeqProperties DEF Unflushed
<1> HIDE DEF s
<1>5. /\ pc'[k] = "done" /\ todo'[k] = {} /\ dest'[k] = NoStream
      /\ buffer'[s] = Unflushed(s, size[k]) /\ flushed'[s] = upto[k]
      /\ \A x \in Targets \ {s} : buffer'[x] = buffer[x] /\ flushed'[x] = flushed[x]
  BY <1>1, <1>2, <1>3 DEF EndCall
<1>6. \A g \in Handlers \ {k} : Waits(g)
  BY <1>1, <1>2, OthersWait DEF ContinueCall
<1>7. Keeps(k)
  BY <1>1, <1>2, <1>5, <1>6 DEF Keeps, Grows
<1>8. Lengths'
  <2>1. Len(buffer'[s]) = offset[s] - flushed'[s]
    BY <1>3, <1>4, <1>5
  <2> QED
    BY <1>1, <1>5, <2>1 DEF LoopInv, Lengths, Buffered
<1>9. ~Inserting(k)' /\ WritesTo(k)' = {}
  BY <1>1, <1>5 DEF Inserting, WritesTo, Active
<1>10. Calling(k)'
  BY <1>1, <1>5 DEF LoopInv, Calling
<1> QED
  BY <1>1, <1>7, <1>8, <1>9, <1>10, LoopStep

\* A call that fails gives up its loop and the streams it had yet to do.
LEMMA LoopFailCall ==
  ASSUME LoopInv, LogInv', NEW k \in Calls, FailCall(k)
  PROVE  LoopInv'
<1>1. /\ UNCHANGED <<type, offset, flushed, buffer, copies, bound, held>>
      /\ EndCall(k) /\ k \notin Conns /\ k \in Handlers
  BY ParametersAssumption DEF FailCall, streamVars, dbVars
<1>2. /\ SafeInv /\ pc \in [Handlers -> Steps] /\ todo \in [Calls -> SUBSET Targets]
  BY DEF LoopInv, LogInv, SafeInv, TypeInv, TypeOK
<1>3. pc'[k] = "done" /\ todo'[k] = {}
  BY <1>1, <1>2 DEF EndCall
<1>4. \A g \in Handlers \ {k} : Waits(g)
  BY <1>1, <1>2, OthersWait DEF ContinueCall
<1>5. Keeps(k)
  BY <1>1, <1>4 DEF Keeps, Grows
<1>6. Lengths'
  BY <1>1 DEF LoopInv, Lengths, Buffered
<1>7. ~Inserting(k)' /\ WritesTo(k)' = {}
  BY <1>1, <1>3 DEF Inserting, WritesTo, Active
<1>8. Calling(k)'
  BY <1>1, <1>3 DEF LoopInv, Calling
<1> QED
  BY <1>1, <1>5, <1>6, <1>7, <1>8, LoopStep

\* What committing the streams `now` and going on with `rest` does: a stream of
\* `rest` without rows is committed with them, the next other one is begun.
Going(k, now, rest) ==
  \E empties \in SUBSET {s \in rest : buffer[s] = << >>} :
    /\ \A x \in now \cup empties : /\ buffer'[x] = << >> /\ flushed'[x] = offset[x]
                                  /\ state'[x] = "COMMITTED"
    /\ \A x \in Targets \ (now \cup empties) : /\ buffer'[x] = buffer[x]
                                              /\ flushed'[x] = flushed[x]
                                              /\ state'[x] = state[x]
    /\ \/ pc'[k] = "done" /\ todo'[k] = {}
       \/ /\ pc'[k] = "preparing" /\ dest'[k] \in rest \ empties /\ dest'[k] \notin todo'[k]
          /\ todo'[k] \subseteq rest
          /\ buffer'[dest'[k]] = buffer[dest'[k]]
          /\ rowNo'[k] = 1 /\ 1 \in 1..Len(buffer[dest'[k]])
          /\ arg'[k] = buffer[dest'[k]][1]

\* CommitAndGoOn does what Going says.
LEMMA CommitGoing ==
  ASSUME SafeInv, NEW k \in Calls, NEW now \in SUBSET Targets, NEW rest \in SUBSET Targets,
         now \cap rest = {}, CommitAndGoOn(k, now, rest)
  PROVE  Going(k, now, rest)
<1>1. PICK empties \in SUBSET {s \in rest : buffer[s] = << >>} :
        LET S == now \cup empties IN
        /\ state' = [s \in Targets |-> IF s \in S THEN "COMMITTED" ELSE state[s]]
        /\ flushed' = [s \in Targets |-> IF s \in S THEN offset[s] ELSE flushed[s]]
        /\ buffer' = [s \in Targets |-> IF s \in S THEN << >> ELSE buffer[s]]
        /\ \/ EndCall(k)
           \/ \E s \in rest :
                /\ buffer[s] # << >>
                /\ dest' = [dest EXCEPT ![k] = s]
                /\ todo' = [todo EXCEPT ![k] = (rest \ empties) \ {s}]
                /\ Exec(k, buffer[s], 1)
  BY DEF CommitAndGoOn
<1> DEFINE S == now \cup empties
<1>2. /\ \A x \in S : buffer'[x] = << >> /\ flushed'[x] = offset[x] /\ state'[x] = "COMMITTED"
      /\ \A x \in Targets \ S : /\ buffer'[x] = buffer[x] /\ flushed'[x] = flushed[x]
                               /\ state'[x] = state[x]
  BY <1>1
<1>3. \/ EndCall(k)
      \/ \E s \in rest :
           /\ buffer[s] # << >>
           /\ dest' = [dest EXCEPT ![k] = s]
           /\ todo' = [todo EXCEPT ![k] = (rest \ empties) \ {s}]
           /\ Exec(k, buffer[s], 1)
  BY <1>1
<1>4. /\ pc \in [Handlers -> Steps] /\ rowNo \in [Handlers -> Nat]
      /\ dest \in [Handlers -> Targets \cup {NoStream}] /\ todo \in [Calls -> SUBSET Targets]
      /\ arg \in [Handlers -> Row \cup {NoRow}] /\ buffer \in [Targets -> Seq(Row)]
  BY DEF SafeInv, TypeInv, TypeOK
<1>5. CASE EndCall(k)
  <2>1. pc'[k] = "done" /\ todo'[k] = {}
    BY <1>4, <1>5 DEF EndCall
  <2> QED
    BY <1>2, <2>1 DEF Going
<1>6. ASSUME NEW s \in rest,
             /\ buffer[s] # << >>
             /\ dest' = [dest EXCEPT ![k] = s]
             /\ todo' = [todo EXCEPT ![k] = (rest \ empties) \ {s}]
             /\ Exec(k, buffer[s], 1)
      PROVE  Going(k, now, rest)
  <2>1. 1 \in 1..Len(buffer[s])
    BY <1>4, <1>6, EmptySeq, LenProperties
  <2>2. s \notin S /\ s \in Targets /\ s \in rest \ empties
    BY <1>6
  <2>3. dest'[k] = s /\ todo'[k] = (rest \ empties) \ {s} /\ buffer'[s] = buffer[s]
    BY <1>2, <1>4, <1>6, <2>2
  <2>4. pc'[k] = "preparing" /\ rowNo'[k] = 1 /\ arg'[k] = buffer[s][1]
    BY <1>4, <1>6, <2>1 DEF Exec
  <2> QED
    BY <1>2, <2>1, <2>2, <2>3, <2>4 DEF Going
<1> QED
  BY <1>3, <1>5, <1>6

\* A commit ends the loop over one buffer and begins with the next.
LEMMA LoopCommitAndGoOn ==
  ASSUME LoopInv, LogInv', NEW k \in Calls, NEW now \in SUBSET Targets,
         NEW rest \in SUBSET Targets, now \cap rest = {}, CommitAndGoOn(k, now, rest),
         UNCHANGED <<type, offset, copies, bound, connVars, upto, size, acked>>,
         \A g \in Handlers \ {k} : Waits(g),
         \A x \in now : TableOf[x] \in WritesTo(k),
         \A g \in Handlers \ {k}, x \in now \cup rest : TableOf[x] \notin WritesTo(g),
         \A x \in now \cup rest : Sealed(x)
  PROVE  LoopInv'
<1>0. SafeInv /\ k \in Handlers /\ k \notin Conns
  BY ParametersAssumption DEF LoopInv, LogInv
<1>1. Going(k, now, rest)
  BY <1>0, CommitGoing
<1>2. PICK empties \in SUBSET {s \in rest : buffer[s] = << >>} :
        /\ \A x \in now \cup empties : buffer'[x] = << >> /\ flushed'[x] = offset[x]
        /\ \A x \in Targets \ (now \cup empties) : /\ buffer'[x] = buffer[x]
                                                  /\ flushed'[x] = flushed[x]
        /\ \/ pc'[k] = "done" /\ todo'[k] = {}
           \/ /\ pc'[k] = "preparing" /\ dest'[k] \in rest \ empties /\ dest'[k] \notin todo'[k]
              /\ todo'[k] \subseteq rest
              /\ buffer'[dest'[k]] = buffer[dest'[k]]
              /\ rowNo'[k] = 1 /\ 1 \in 1..Len(buffer[dest'[k]])
              /\ arg'[k] = buffer[dest'[k]][1]
  BY <1>1 DEF Going
<1>3. /\ held'[k] = << >>
      /\ \A j \in Calls \ {k} : held'[j] = held[j]
  <2>1. PICK S \in SUBSET (now \cup rest) : Freeze(k, S)
    <3>1. PICK some \in SUBSET {s \in rest : buffer[s] = << >>} : Freeze(k, now \cup some)
      BY DEF CommitAndGoOn
    <3>2. now \cup some \in SUBSET (now \cup rest)
      OBVIOUS
    <3> QED
      BY <3>1, <3>2
  <2>2. ASSUME NEW j \in Calls \ {k}, Active(j) PROVE dest[j] \notin S
    <3>1. TableOf[dest[j]] \in WritesTo(j) /\ j \in Handlers \ {k}
      BY <2>2 DEF WritesTo
    <3> QED
      BY <3>1
  <2> QED
    BY <2>1, <2>2 DEF Freeze
<1>4. \A x \in now \cup rest : type[x] = "PENDING" /\ x \in Targets
  BY DEF Sealed
<1>5. \A x \in Targets : x \in now \/ buffer'[x] = buffer[x]
  BY <1>2
<1>6. Keeps(k)
  BY <1>3, <1>5 DEF Keeps, Grows
<1>7. Lengths'
  <2>1. \A x \in now \cup empties : type[x] = "PENDING" /\ Len(buffer'[x]) = offset[x] - flushed'[x]
    <3>1. \A x \in Targets : offset[x] \in Nat
      BY <1>0 DEF SafeInv, TypeInv, TypeOK
    <3>2. Len(<< >>) = 0 /\ \A n \in Nat : n - n = 0
      OBVIOUS
    <3>3. \A x \in now \cup empties : x \in now \cup rest
      OBVIOUS
    <3> QED
      BY <1>2, <1>4, <3>1, <3>2, <3>3
  <2> QED
    BY <1>2, <2>1 DEF LoopInv, Lengths, Buffered
<1>8. \A g \in Handlers \ {k} : WritesTo(g) \cap WritesTo(k)' = {}
  <2>1. WritesTo(k)' \subseteq {TableOf[x] : x \in rest}
    BY <1>2 DEF WritesTo, Active
  <2> QED
    BY <2>1
<1>9. Calling(k)'
  <2>1. CASE pc'[k] = "done" /\ todo'[k] = {}
    BY <1>3, <2>1 DEF Calling
  <2>2. CASE pc'[k] # "done"
    BY <1>2, <1>3, <2>2 DEF Calling, Active
  <2> QED
    BY <1>2, <2>1, <2>2
<1>10. ASSUME Inserting(k)' PROVE Loop(k)'
  <2>1. /\ pc'[k] = "preparing" /\ dest'[k] \in rest
        /\ buffer'[dest'[k]] = buffer[dest'[k]]
        /\ rowNo'[k] = 1 /\ 1 \in 1..Len(buffer[dest'[k]])
        /\ arg'[k] = buffer[dest'[k]][1]
    BY <1>2, <1>10 DEF Inserting
  <2>2. type'[dest'[k]] = "PENDING"
    BY <1>4, <2>1
  <2>3. Data(k)' = buffer[dest'[k]] /\ Progress(k)' = 0
    BY <1>0, <2>1 DEF Data, Progress
  <2> QED
    BY <1>0, <2>1, <2>2, <2>3 DEF Loop
<1> QED
  BY <1>0, <1>6, <1>7, <1>8, <1>9, <1>10, LoopStep

\* A commit begins where no other handler inserts into the tables of its streams.
LEMMA BatchCommitStep ==
  ASSUME OneWriter, LoopInv, NEW k \in Calls, NEW names \in SUBSET Targets,
         BatchCommit(k, names)
  PROVE  \E now, rest \in SUBSET Targets :
           /\ now = {} /\ now \cap rest = {} /\ CommitAndGoOn(k, now, rest)
           /\ UNCHANGED <<type, offset, copies, bound, connVars, upto, size, acked>>
           /\ \A g \in Handlers \ {k} : Waits(g)
           /\ \A x \in now : TableOf[x] \in WritesTo(k)
           /\ \A g \in Handlers \ {k}, x \in now \cup rest : TableOf[x] \notin WritesTo(g)
           /\ \A x \in now \cup rest : Sealed(x)
<1> DEFINE rest == {s \in names : Committable(s)}
<1>1. /\ {} \in SUBSET Targets /\ rest \in SUBSET Targets /\ {} \cap rest = {}
      /\ CommitAndGoOn(k, {}, rest)
      /\ UNCHANGED <<type, offset, copies, bound, connVars, upto, size, acked>>
      /\ Alone(k, rest) /\ \A x \in {} \cup rest : Sealed(x)
  BY DEF BatchCommit, Committable, Sealed
<1>2. \A g \in Handlers \ {k} : Waits(g)
  BY OthersWait DEF LoopInv, LogInv
<1> HIDE DEF rest
<1>3. \A g \in Handlers \ {k}, x \in {} \cup rest : TableOf[x] \notin WritesTo(g)
  BY <1>1 DEF Alone
<1> QED
  BY <1>1, <1>2, <1>3

\* A commit goes on with streams it has to itself.
LEMMA CommitStreamDoneStep ==
  ASSUME LoopInv, NEW k \in Calls, CommitStreamDone(k)
  PROVE  \E now, rest \in SUBSET Targets :
           /\ now = {dest[k]} /\ now \cap rest = {} /\ CommitAndGoOn(k, now, rest)
           /\ UNCHANGED <<type, offset, copies, bound, connVars, upto, size, acked>>
           /\ \A g \in Handlers \ {k} : Waits(g)
           /\ \A x \in now : TableOf[x] \in WritesTo(k)
           /\ \A g \in Handlers \ {k}, x \in now \cup rest : TableOf[x] \notin WritesTo(g)
           /\ \A x \in now \cup rest : Sealed(x)
<1> DEFINE now == {dest[k]}
<1> DEFINE rest == todo[k]
<1>1. /\ CommitAndGoOn(k, now, rest) /\ Active(k) /\ type[dest[k]] = "PENDING"
      /\ UNCHANGED <<type, offset, copies, bound, connVars, upto, size, acked>>
  BY DEF CommitStreamDone, Active
<1>2. now \in SUBSET Targets /\ rest \in SUBSET Targets /\ now \cap rest = {}
  BY <1>1 DEF LoopInv, LogInv, SafeInv, TypeInv, TypeOK, InHand, Calling
<1>3. \A x \in now \cup rest : Sealed(x) /\ TableOf[x] \in WritesTo(k)
  BY <1>1 DEF LoopInv, LogInv, SafeInv, CallWork, WritesTo
<1>4. \A g \in Handlers \ {k} : Waits(g)
  BY OthersWait DEF LoopInv, LogInv, ContinueCall
<1>5. k \in Handlers /\ Solo
  BY DEF LoopInv
<1>6. \A g \in Handlers \ {k}, x \in now \cup rest : TableOf[x] \notin WritesTo(g)
  BY <1>3, <1>5 DEF Solo
<1> HIDE DEF now, rest
<1>7. now = {dest[k]}
  BY DEF now
<1> QED
  BY <1>1, <1>2, <1>3, <1>4, <1>6, <1>7

\* Every step keeps the inductive invariant.
LEMMA LoopNext == OneWriter /\ LoopInv /\ [Next]_vars => LoopInv'
<1> SUFFICES ASSUME OneWriter, LoopInv, [Next]_vars PROVE LoopInv'
  OBVIOUS
<1>0. LogInv'
  BY LogNext DEF LoopInv
<1>1. CASE UNCHANGED vars
  <2>1. \A g \in Handlers : Waits(g)
    BY <1>1 DEF vars, dbVars, connVars, callVars, Waits
  <2> QED
    BY <1>0, <1>1, <2>1, LoopStill DEF vars, streamVars, dbVars, callVars
<1>2. ASSUME NEW s \in Targets,
             (\E ty \in Types : CreateWriteStream(s, ty)) \/ FinalizeWriteStream(s)
      PROVE  LoopInv'
  BY <1>0, <1>2, LoopStream
<1>3. ASSUME NEW h \in Handlers, Bind(h) \/ Run(h)
      PROVE  LoopInv'
  BY <1>0, <1>3, LoopBind, LoopRun
<1>4. ASSUME NEW c \in Conns,
             \/ \E s \in Uses[c], lo \in 0..LogLen, n \in Batches : Receive(c, s, lo, n)
             \/ \E s \in Uses[c] : RefuseContext(c, s)
             \/ Disconnect(c)
             \/ ContinueAppend(c)
      PROVE  LoopInv'
  <2>1. Uses[c] \subseteq Targets
    BY ParametersAssumption
  <2>2. CASE (\E s \in Uses[c] : RefuseContext(c, s)) \/ Disconnect(c)
    <3>1. UNCHANGED <<streamVars, dbVars, pc, dest, rowNo, msg, callVars>>
      BY <2>2 DEF RefuseContext, Disconnect
    <3>2. \A g \in Handlers : Waits(g)
      BY <3>1 DEF dbVars, callVars, Waits
    <3> QED
      BY <1>0, <3>1, <3>2, LoopStill DEF streamVars, dbVars, callVars
  <2> QED
    BY <1>0, <1>4, <2>1, <2>2, LoopMessage, LoopInsert, LoopBufferAppend, LoopFinishAppend
    DEF ContinueAppend
<1>5. ASSUME NEW k \in Calls,
             \/ \E s \in Targets, target \in 1..LogLen : FlushRows(k, s, target)
             \/ \E names \in SUBSET Targets : BatchCommit(k, names)
             \/ ContinueCall(k)
      PROVE  LoopInv'
  <2>1. CASE \E names \in SUBSET Targets : BatchCommit(k, names)
    BY <1>0, <2>1, BatchCommitStep, LoopCommitAndGoOn
  <2>2. CASE CommitStreamDone(k)
    BY <1>0, <2>2, CommitStreamDoneStep, LoopCommitAndGoOn
  <2> QED
    BY <1>0, <1>5, <2>1, <2>2, LoopFlushRows, LoopCallNext, LoopFlushDone, LoopFailCall
    DEF ContinueCall
<1> QED
  BY <1>1, <1>2, <1>3, <1>4, <1>5 DEF Next

-----------------------------------------------------------------------------
(***************************************************************************)
(* Acknowledged rows stay.                                                 *)
(***************************************************************************)

\* A row is in its table or in the buffer of its stream.
Held(r) ==
  \/ copies[r] > 0
  \/ Buffered(r[1]) /\ \E j \in 1..Len(buffer[r[1]]) : buffer[r[1]][j] = r

\* Where rows leave a buffer only for the table, what was acknowledged stays.
LEMMA HeldStays ==
  ASSUME SafeInv, AckedKept,
         \A r \in Row : copies[r] > 0 => copies'[r] > 0,
         \A x \in Targets : Buffered(x) => Buffered(x)',
         \A x \in Targets : Buffered(x) =>
           \A j \in 1..Len(buffer[x]) :
             \/ copies[buffer[x][j]] > 0
             \/ \E i \in 1..Len(buffer'[x]) : buffer'[x][i] = buffer[x][j],
         \A r \in acked' \ acked : Held(r)'
  PROVE  AckedKept'
<1> SUFFICES ASSUME NEW r \in acked' PROVE Held(r)'
  BY DEF AckedKept, Held
<1>1. CASE r \notin acked
  BY <1>1
<1>2. CASE r \in acked
  <2>1. r \in Row /\ r[1] \in Targets
    BY <1>2 DEF SafeInv, TypeInv, TypeOK, Row
  <2>2. Held(r)
    BY <1>2 DEF AckedKept, Held
  <2>3. CASE copies[r] > 0
    BY <2>1, <2>3 DEF Held
  <2>4. ASSUME Buffered(r[1]), NEW j \in 1..Len(buffer[r[1]]), buffer[r[1]][j] = r
        PROVE  Held(r)'
    <3>1. \/ copies[r] > 0
          \/ \E i \in 1..Len(buffer'[r[1]]) : buffer'[r[1]][i] = r
      BY <2>1, <2>4
    <3>2. Buffered(r[1])'
      BY <2>1, <2>4
    <3> QED
      BY <2>1, <3>1, <3>2 DEF Held
  <2> QED
    BY <2>2, <2>3, <2>4 DEF Held
<1> QED
  BY <1>1, <1>2

\* All steps but those that acknowledge rows or take them off a buffer.
LEMMA HeldQuiet ==
  ASSUME SafeInv, AckedKept, UNCHANGED <<buffer, acked>>,
         \A r \in Row : copies[r] > 0 => copies'[r] > 0,
         \A x \in Targets : type[x] # "NONE" => type'[x] = type[x]
  PROVE  AckedKept'
<1>1. \A x \in Targets : Buffered(x) => Buffered(x)'
  BY DEF Buffered
<1>2. \A x \in Targets : \A j \in 1..Len(buffer[x]) :
        \E i \in 1..Len(buffer'[x]) : buffer'[x][i] = buffer[x][j]
  OBVIOUS
<1> QED
  BY <1>1, <1>2, HeldStays

\* The rows a buffering append acknowledges are in the buffer.
LEMMA HeldBufferAppend ==
  ASSUME LoopInv, AckedKept, NEW c \in Conns, BufferAppend(c)
  PROVE  AckedKept'
<1> DEFINE s == dest[c]
<1> DEFINE more == RowsOf(s, msg[c].lo, msg[c].lo + msg[c].n)
<1> DEFINE sent == RowSet(s, msg[c].lo, msg[c].lo + msg[c].n)
<1>1. /\ UNCHANGED <<type, copies>>
      /\ buffer' = [buffer EXCEPT ![s] = buffer[s] \o more]
      /\ acked' = acked \/ acked' = acked \cup sent
      /\ Active(c) /\ ~Immediate(s)
  BY DEF BufferAppend, Admitted, Active, Acknowledge, dbVars
<1>2. /\ SafeInv /\ msg[c].lo \in Nat /\ msg[c].n \in Nat
      /\ s \in Targets /\ msg[c].lo + msg[c].n <= LogLen
      /\ buffer \in [Targets -> Seq(Row)] /\ AppendWork(c) /\ ctx[c] \subseteq Targets
  BY <1>1 DEF LoopInv, LogInv, SafeInv, TypeInv, TypeOK, InHand
<1>3. Buffered(s)
  BY <1>1, <1>2 DEF Buffered, AppendWork, Immediate, Explicit, SafeInv, TypeInv, TypeOK, Types
<1>4. /\ more \in Seq(Row) /\ Len(more) = msg[c].n
      /\ \A r \in sent : r[1] = s /\ \E j \in 1..msg[c].n : more[j] = r
  <2>1. msg[c].lo \in Nat /\ msg[c].n \in Nat /\ msg[c].lo + msg[c].n <= LogLen /\ s \in Targets
    BY <1>2
  <2> DEFINE lo == msg[c].lo
  <2> DEFINE n == msg[c].n
  <2> HIDE DEF s, lo, n
  <2>2. s \in Targets /\ lo \in Nat /\ n \in Nat /\ lo + n <= LogLen
    BY <2>1 DEF lo, n
  <2>3. RowsOf(s, lo, lo + n) \in Seq(Row) /\ Len(RowsOf(s, lo, lo + n)) = n
    BY <2>2, MessageData
  <2>4. ASSUME NEW r \in RowSet(s, lo, lo + n)
        PROVE  r[1] = s /\ \E j \in 1..n : RowsOf(s, lo, lo + n)[j] = r
    BY <2>2, MessageSet
  <2> QED
    BY <2>3, <2>4 DEF lo, n
<1> HIDE DEF s, more, sent
<1> DEFINE b == buffer[s]
<1>6. b \in Seq(Row) /\ buffer'[s] = b \o more
      /\ \A x \in Targets \ {s} : buffer'[x] = buffer[x]
  BY <1>1, <1>2
<1> HIDE DEF b
<1>7. /\ Len(b \o more) = Len(b) + Len(more) /\ Len(b) \in Nat
      /\ \A i \in 1..Len(b) : (b \o more)[i] = b[i]
      /\ \A i \in 1..Len(more) : (b \o more)[Len(b) + i] = more[i]
  <2>1. Len(b \o more) = Len(b) + Len(more) /\ Len(b) \in Nat
    BY <1>4, <1>6, ConcatProperties, LenProperties
  <2>2. \A i \in 1..(Len(b) + Len(more)) :
          (b \o more)[i] = IF i <= Len(b) THEN b[i] ELSE more[i - Len(b)]
    BY <1>4, <1>6, ConcatProperties
  <2>3. ASSUME NEW i \in 1..Len(more) PROVE (b \o more)[Len(b) + i] = more[i]
    <3>1. Len(b) + i \in 1..(Len(b) + Len(more)) /\ ~(Len(b) + i <= Len(b))
          /\ (Len(b) + i) - Len(b) = i
      BY <1>2, <1>4, <2>1
    <3> QED
      BY <2>2, <3>1
  <2> QED
    BY <1>2, <1>4, <2>1, <2>2, <2>3
<1>8. \A x \in Targets : \A j \in 1..Len(buffer[x]) :
        \E i \in 1..Len(buffer'[x]) : buffer'[x][i] = buffer[x][j]
  <2>1. \A j \in 1..Len(b) : j \in 1..Len(b \o more) /\ (b \o more)[j] = b[j]
    BY <1>2, <1>4, <1>7
  <2>2. \A j \in 1..Len(buffer[s]) : \E i \in 1..Len(buffer'[s]) : buffer'[s][i] = buffer[s][j]
    BY <1>6, <2>1 DEF b
  <2> QED
    BY <1>6, <2>2
<1>9. \A r \in acked' \ acked : Held(r)'
  <2>1. \A j \in 1..Len(more) : Len(b) + j \in 1..Len(b \o more)
                                /\ (b \o more)[Len(b) + j] = more[j]
    BY <1>2, <1>4, <1>7
  <2>2. \A r \in sent : \E j \in 1..Len(b \o more) : (b \o more)[j] = r
    BY <1>4, <2>1
  <2>3. ASSUME NEW r \in sent PROVE Held(r)'
    <3>1. r[1] = s /\ \E j \in 1..Len(buffer'[s]) : buffer'[s][j] = r
      BY <1>4, <1>6, <2>2
    <3>2. type'[s] \in {"BUFFERED", "PENDING"}
      BY <1>1, <1>3 DEF Buffered
    <3> QED
      BY <3>1, <3>2 DEF Held, Buffered
  <2> QED
    BY <1>1, <2>3
<1> QED
  BY <1>1, <1>2, <1>8, <1>9, HeldStays DEF Buffered

\* When a message is done its rows are in the table.
LEMMA HeldFinishAppend ==
  ASSUME LoopInv, AckedKept, NEW c \in Conns, FinishAppend(c)
  PROVE  AckedKept'
<1> DEFINE s == dest[c]
<1> DEFINE sent == RowSet(s, msg[c].lo, msg[c].lo + msg[c].n)
<1> DEFINE d == RowsOf(s, msg[c].lo, msg[c].lo + msg[c].n)
<1>1. /\ UNCHANGED <<type, buffer, copies>>
      /\ acked' = acked \/ acked' = acked \cup sent
      /\ Active(c) /\ Inserting(c) /\ pc[c] = "ran" /\ rowNo[c] = msg[c].n
  BY DEF FinishAppend, Active, Inserting, Acknowledge, dbVars
<1>2. /\ SafeInv /\ msg[c].lo \in Nat /\ msg[c].n \in Nat
      /\ s \in Targets /\ msg[c].lo + msg[c].n <= LogLen /\ Loop(c)
  BY <1>1 DEF LoopInv, LogInv, SafeInv, TypeInv, TypeOK, InHand
<1>3. \A r \in sent : \E j \in 1..msg[c].n : d[j] = r
  <2>1. msg[c].lo \in Nat /\ msg[c].n \in Nat /\ msg[c].lo + msg[c].n <= LogLen /\ s \in Targets
    BY <1>2
  <2> DEFINE lo == msg[c].lo
  <2> DEFINE n == msg[c].n
  <2> HIDE DEF s, lo, n
  <2>2. s \in Targets /\ lo \in Nat /\ n \in Nat /\ lo + n <= LogLen
    BY <2>1 DEF lo, n
  <2>3. RowsOf(s, lo, lo + n) \in Seq(Row) /\ Len(RowsOf(s, lo, lo + n)) = n
    BY <2>2, MessageData
  <2>4. ASSUME NEW r \in RowSet(s, lo, lo + n)
        PROVE  r[1] = s /\ \E j \in 1..n : RowsOf(s, lo, lo + n)[j] = r
    BY <2>2, MessageSet
  <2> QED
    BY <2>3, <2>4 DEF lo, n
<1>4. \A j \in 1..msg[c].n : copies[d[j]] > 0
  <2>1. Data(c) = d /\ Progress(c) = msg[c].n
    BY <1>1 DEF Data, Progress
  <2> HIDE DEF d
  <2> QED
    BY <1>2, <2>1 DEF Loop
<1>5. \A r \in sent : copies[r] > 0
  <2> HIDE DEF sent, d
  <2> QED
    BY <1>3, <1>4
<1> HIDE DEF s, sent, d
<1>6. \A r \in acked' \ acked : Held(r)'
  BY <1>1, <1>5 DEF Held
<1>7. \A x \in Targets : \A j \in 1..Len(buffer[x]) :
        \E i \in 1..Len(buffer'[x]) : buffer'[x][i] = buffer[x][j]
  BY <1>1
<1> QED
  BY <1>1, <1>2, <1>6, <1>7, HeldStays DEF Buffered

\* A flush drops the rows it has inserted, and no others.
LEMMA HeldFlushDone ==
  ASSUME LoopInv, AckedKept, NEW k \in Calls, FlushDone(k)
  PROVE  AckedKept'
<1> DEFINE s == dest[k]
<1> DEFINE b == buffer[s]
<1>1. /\ UNCHANGED <<type, copies, acked>>
      /\ buffer' = [buffer EXCEPT ![s] = Unflushed(s, size[k])]
      /\ type[s] = "BUFFERED" /\ pc[k] = "ran" /\ Active(k) /\ Inserting(k)
      /\ rowNo[k] >= size[k] /\ k \notin Conns
  BY ParametersAssumption DEF FlushDone, Active, Inserting, dbVars
<1>2. /\ SafeInv /\ buffer \in [Targets -> Seq(Row)] /\ Loop(k)
  BY <1>1 DEF LoopInv, LogInv, SafeInv, TypeInv, TypeOK
<1>3. s \in Targets /\ size[k] \in Nat \ {0} /\ Len(b) \in Nat /\ size[k] <= Len(b)
  BY <1>1, FlushFits
<1>4. Data(k) = b /\ Progress(k) = rowNo[k]
  BY <1>1 DEF Data, Progress
<1>5. \A j \in 1..size[k] : copies[b[j]] > 0
  <2>1. rowNo[k] \in 1..Len(b) /\ rowNo[k] <= size[k] /\ \A j \in 1..rowNo[k] : copies[b[j]] > 0
    BY <1>1, <1>2, <1>4 DEF Loop
  <2>2. rowNo[k] = size[k]
    BY <1>1, <1>3, <2>1
  <2> QED
    BY <2>1, <2>2
<1>6. b \in Seq(Row) /\ buffer'[s] = SubSeq(b, size[k] + 1, Len(b))
      /\ \A x \in Targets \ {s} : buffer'[x] = buffer[x]
  BY <1>1, <1>2, <1>3 DEF Unflushed
<1> HIDE DEF s, b
<1> DEFINE rest == SubSeq(b, size[k] + 1, Len(b))
<1>7. /\ Len(rest) = Len(b) - size[k]
      /\ \A i \in 1..(Len(b) - size[k]) : rest[i] = b[size[k] + i]
  <2> DEFINE m == size[k] + 1
  <2> DEFINE e == Len(b)
  <2>1. m \in Int /\ e \in Int /\ \A i \in m..e : b[i] \in Row
    BY <1>3, <1>6, ElementOfSeq
  <2>2. /\ e - m + 1 = e - size[k]
        /\ e - size[k] = IF m <= e THEN e - m + 1 ELSE 0
        /\ \A i \in 1..(e - size[k]) : m + i - 1 = size[k] + i
    BY <1>3
  <2> HIDE DEF m, e
  <2>3. /\ Len(SubSeq(b, m, e)) = IF m <= e THEN e - m + 1 ELSE 0
        /\ \A i \in 1..e - m + 1 : SubSeq(b, m, e)[i] = b[m + i - 1]
    BY <2>1, SubSeqProperties
  <2> QED
    BY <1>3, <2>2, <2>3 DEF m, e
<1> HIDE DEF rest
<1>8. \A j \in 1..Len(b) :
        copies[b[j]] > 0 \/ \E i \in 1..Len(rest) : rest[i] = b[j]
  <2>1. ASSUME NEW j \in 1..Len(b), j > size[k]
        PROVE  \E i \in 1..Len(rest) : rest[i] = b[j]
    <3>1. /\ j - size[k] \in 1..(Len(b) - size[k]) /\ size[k] + (j - size[k]) = j
      BY <1>3, <2>1
    <3> QED
      BY <1>7, <3>1
  <2>2. \A j \in 1..Len(b) : j \in 1..size[k] \/ j > size[k]
    BY <1>3
  <2> QED
    BY <1>5, <2>1, <2>2
<1>9. \A x \in Targets : \A j \in 1..Len(buffer[x]) :
        \/ copies[buffer[x][j]] > 0
        \/ \E i \in 1..Len(buffer'[x]) : buffer'[x][i] = buffer[x][j]
  <2>1. \A j \in 1..Len(buffer[s]) :
          \/ copies[buffer[s][j]] > 0
          \/ \E i \in 1..Len(buffer'[s]) : buffer'[s][i] = buffer[s][j]
    BY <1>6, <1>8 DEF b, rest
  <2> QED
    BY <1>6, <2>1
<1> QED
  BY <1>1, <1>2, <1>9, HeldStays DEF Buffered

\* A commit replaces buffers of which it has inserted every row.
LEMMA HeldCommit ==
  ASSUME LoopInv, AckedKept, NEW k \in Calls, NEW now \in SUBSET Targets,
         NEW rest \in SUBSET Targets, now \cap rest = {}, CommitAndGoOn(k, now, rest),
         UNCHANGED <<type, offset, copies, bound, connVars, upto, size, acked>>,
         now = {} \/ (now = {dest[k]} /\ CommitStreamDone(k))
  PROVE  AckedKept'
<1>0. SafeInv
  BY DEF LoopInv, LogInv
<1>1. \A x \in Targets : x \in now \/ buffer'[x] = buffer[x]
  <2>1. Going(k, now, rest)
    BY <1>0, CommitGoing
  <2>2. PICK empties \in SUBSET {s \in rest : buffer[s] = << >>} :
          /\ \A x \in now \cup empties : buffer'[x] = << >>
          /\ \A x \in Targets \ (now \cup empties) : buffer'[x] = buffer[x]
    BY <2>1 DEF Going
  <2> QED
    BY <2>2
<1>2. \A x \in now : \A j \in 1..Len(buffer[x]) : copies[buffer[x][j]] > 0
  <2>1. CASE now = {}
    BY <2>1
  <2>2. ASSUME now = {dest[k]}, CommitStreamDone(k)
        PROVE  \A j \in 1..Len(buffer[dest[k]]) : copies[buffer[dest[k]][j]] > 0
    <3>1. /\ pc[k] = "ran" /\ Inserting(k) /\ k \notin Conns /\ rowNo[k] >= Len(Iterated(k))
      BY <2>2, ParametersAssumption DEF CommitStreamDone, Inserting
    <3>2. Iterated(k) = buffer[dest[k]]
      BY DEF LoopInv, Calling, Iterated
    <3>3. Loop(k) /\ Data(k) = buffer[dest[k]] /\ Progress(k) = rowNo[k]
      BY <3>1 DEF LoopInv, Data, Progress
    <3>4. Len(buffer[dest[k]]) \in Nat
      BY <1>0, <3>1, <3>3, DataRows
    <3> DEFINE b == buffer[dest[k]]
    <3> HIDE DEF b
    <3>5. rowNo[k] \in 1..Len(b) /\ \A i \in 1..rowNo[k] : copies[b[i]] > 0
      BY <3>3 DEF Loop, b
    <3>6. rowNo[k] = Len(b)
      BY <3>1, <3>2, <3>4, <3>5 DEF b
    <3> QED
      BY <3>5, <3>6 DEF b
  <2> QED
    BY <2>1, <2>2
<1> QED
  BY <1>0, <1>1, <1>2, HeldStays DEF Buffered

\* Every step keeps acknowledged rows in the table or in a buffer.
LEMMA HeldNext ==
  OneWriter /\ LoopInv /\ AckedKept /\ [Next]_vars => AckedKept'
<1> SUFFICES ASSUME OneWriter, LoopInv, AckedKept, [Next]_vars PROVE AckedKept'
  OBVIOUS
<1> USE DEF streamVars, dbVars
<1>0. SafeInv
  BY DEF LoopInv, LogInv
<1>1. CASE UNCHANGED vars
  BY <1>0, <1>1, HeldQuiet DEF vars
<1>2. ASSUME NEW s \in Targets,
             (\E ty \in Types : CreateWriteStream(s, ty)) \/ FinalizeWriteStream(s)
      PROVE  AckedKept'
  <2>1. UNCHANGED <<buffer, acked, copies>>
    BY <1>2 DEF CreateWriteStream, FinalizeWriteStream
  <2>2. \A x \in Targets : type[x] # "NONE" => type'[x] = type[x]
    BY <1>0, <1>2 DEF CreateWriteStream, FinalizeWriteStream, SafeInv, Created, TypeInv, TypeOK
  <2> QED
    BY <1>0, <2>1, <2>2, HeldQuiet
<1>3. ASSUME NEW h \in Handlers, Bind(h) \/ Run(h)
      PROVE  AckedKept'
  <2>1. UNCHANGED <<type, buffer, acked>>
    BY <1>3 DEF Bind, Run
  <2>2. \A r \in Row : copies[r] > 0 => copies'[r] > 0
    <3>1. CASE Bind(h)
      BY <3>1 DEF Bind
    <3>2. CASE Run(h)
      BY <1>0, <3>2 DEF Run, SafeInv, TypeInv, TypeOK
    <3> QED
      BY <1>3, <3>1, <3>2
  <2> QED
    BY <1>0, <2>1, <2>2, HeldQuiet
<1>4. ASSUME NEW c \in Conns,
             \/ \E s \in Uses[c], lo \in 0..LogLen, n \in Batches : Receive(c, s, lo, n)
             \/ \E s \in Uses[c] : RefuseContext(c, s)
             \/ Disconnect(c)
             \/ ContinueAppend(c)
      PROVE  AckedKept'
  <2>1. CASE ~BufferAppend(c) /\ ~FinishAppend(c)
    <3>1. UNCHANGED <<type, buffer, acked, copies>>
      BY <1>4, <2>1 DEF Receive, RefuseContext, Disconnect, ContinueAppend, SkipAppend,
        CountRows, RejectMessage, InsertFirst, InsertNext, FailAppend
    <3> QED
      BY <1>0, <3>1, HeldQuiet
  <2> QED
    BY <2>1, HeldBufferAppend, HeldFinishAppend
<1>5. ASSUME NEW k \in Calls,
             \/ \E s \in Targets, target \in 1..LogLen : FlushRows(k, s, target)
             \/ \E names \in SUBSET Targets : BatchCommit(k, names)
             \/ ContinueCall(k)
      PROVE  AckedKept'
  <2>1. CASE \E names \in SUBSET Targets : BatchCommit(k, names)
    BY <2>1, BatchCommitStep, HeldCommit
  <2>2. CASE CommitStreamDone(k)
    BY <2>2, CommitStreamDoneStep, HeldCommit
  <2>3. CASE (\E s \in Targets, target \in 1..LogLen : FlushRows(k, s, target))
             \/ FlushNext(k) \/ CommitNext(k) \/ FailCall(k)
    <3>1. UNCHANGED <<type, buffer, acked, copies>>
      BY <2>3 DEF FlushRows, FlushNext, CommitNext, FailCall
    <3> QED
      BY <1>0, <3>1, HeldQuiet
  <2> QED
    BY <1>5, <2>1, <2>2, <2>3, HeldFlushDone DEF ContinueCall
<1> QED
  BY <1>1, <1>2, <1>3, <1>4, <1>5 DEF Next

\* The inductive invariant holds under the discipline OneWriter.
LEMMA LoopAlways == ASSUME OneWriter PROVE Spec => []LoopInv
<1>1. LoopInv /\ [Next]_vars => LoopInv'
  BY LoopNext
<1> QED
  BY <1>1, LoopInit, PTL DEF Spec

\* While no two handlers insert into one table at a time, a row that an
\* AppendRows response acknowledged is in the table or in its stream's buffer,
\* whatever fails, is retried, flushed or committed after that.
THEOREM AckedKeptAlways == ASSUME OneWriter PROVE Spec => []AckedKept
<1>1. Init => AckedKept
  BY DEF Init, AckedKept
<1>2. LoopInv /\ AckedKept /\ [Next]_vars => AckedKept'
  BY HeldNext
<1> QED
  BY <1>1, <1>2, LoopAlways, PTL DEF Spec

-----------------------------------------------------------------------------
(***************************************************************************)
(* Steps of the abstract log.                                              *)
(***************************************************************************)
SameAccepted == \A x \in LogStreams : Accepted(x)' = Accepted(x)
SameVisible == \A x \in LogStreams, p \in 1..LogLen : copies'[<<x, p>>] = copies[<<x, p>>]
SameHidden == \A x \in LogStreams : (type'[x] = "PENDING") <=> (type[x] = "PENDING")
SameSealed ==
  \A x \in LogStreams :
    (state'[x] \in {"FINALIZED", "COMMITTED"}) <=> (state[x] \in {"FINALIZED", "COMMITTED"})
SameReported == \A x \in LogStreams : flushed'[x] = flushed[x]

\* The same for what the variables of the abstract log stand for.
LEMMA LogParts ==
  /\ SameAccepted =>
       UNCHANGED [x \in LogStreams |-> Accepted(x)]
  /\ SameVisible =>
       UNCHANGED [x \in LogStreams |-> [p \in 1..LogLen |-> copies[<<x, p>>]]]
  /\ SameHidden => UNCHANGED {x \in LogStreams : type[x] = "PENDING"}
  /\ SameSealed => UNCHANGED {x \in LogStreams : state[x] \in {"FINALIZED", "COMMITTED"}}
  /\ SameReported => UNCHANGED [x \in LogStreams |-> flushed[x]]
<1>1. SameAccepted => UNCHANGED [x \in LogStreams |-> Accepted(x)]
  BY DEF SameAccepted
<1>2. SameVisible =>
        UNCHANGED [x \in LogStreams |-> [p \in 1..LogLen |-> copies[<<x, p>>]]]
  BY DEF SameVisible
<1>3. SameHidden => UNCHANGED {x \in LogStreams : type[x] = "PENDING"}
  BY DEF SameHidden
<1>4. SameSealed => UNCHANGED {x \in LogStreams : state[x] \in {"FINALIZED", "COMMITTED"}}
  BY DEF SameSealed
<1>5. SameReported => UNCHANGED [x \in LogStreams |-> flushed[x]]
  BY DEF SameReported
<1> QED
  BY <1>1, <1>2, <1>3, <1>4, <1>5

\* Nothing the abstract log consists of changes.
LEMMA LogStutter ==
  ASSUME SameAccepted, SameVisible, SameHidden, SameSealed, SameReported
  PROVE  UNCHANGED Log!logVars
BY LogParts DEF Log!logVars

\* What the streams have to do for the abstract log to accept n rows of s.
LEMMA LogAccept ==
  ASSUME SameVisible, SameHidden, SameSealed, SameReported,
         NEW s \in LogStreams, NEW n \in 1..LogLen, Accepted(s) + n <= LogLen,
         Accepted(s)' = Accepted(s) + n,
         \A x \in LogStreams \ {s} : Accepted(x)' = Accepted(x)
  PROVE  Log!Next
<1>1. Log!Accept(s, n)
  <2>1. [x \in LogStreams |-> Accepted(x)]'
          = [[x \in LogStreams |-> Accepted(x)] EXCEPT ![s] = @ + n]
    OBVIOUS
  <2> QED
    BY <2>1, LogParts DEF Log!Accept
<1> QED
  BY <1>1 DEF Log!Next

\* What they have to do for it to show row p of s.
LEMMA LogExpose ==
  ASSUME SameAccepted, SameHidden, SameSealed, SameReported, copies \in [Row -> Nat],
         NEW s \in LogStreams, NEW p \in 1..LogLen, p <= Accepted(s),
         \A q \in 1..LogLen : copies[<<s, q>>] = IF q <= p - 1 THEN 1 ELSE 0,
         type[s] = "PENDING" => state[s] \in {"FINALIZED", "COMMITTED"},
         copies' = [copies EXCEPT ![<<s, p>>] = 1]
  PROVE  Log!Next
<1>1. Log!Shows(s, p - 1)
  BY DEF Log!Shows
<1>2. \A x \in LogStreams, q \in 1..LogLen : <<x, q>> \in Row
  BY DEF LogStreams, Row
<1>3. \A x \in LogStreams, q \in 1..LogLen :
        copies'[<<x, q>>] = IF x = s /\ q = p THEN 1 ELSE copies[<<x, q>>]
  BY <1>2
<1>4. [x \in LogStreams |-> [q \in 1..LogLen |-> copies'[<<x, q>>]]]
        = [[x \in LogStreams |-> [q \in 1..LogLen |-> copies[<<x, q>>]]] EXCEPT ![s][p] = 1]
  <2> DEFINE V == [x \in LogStreams |-> [q \in 1..LogLen |-> copies[<<x, q>>]]]
  <2> DEFINE W == [x \in LogStreams |-> [q \in 1..LogLen |-> copies'[<<x, q>>]]]
  <2>1. ASSUME NEW x \in LogStreams \ {s} PROVE W[x] = V[x]
    BY <1>3
  <2>2. W[s] = [V[s] EXCEPT ![p] = 1]
    BY <1>3
  <2> QED
    BY <2>1, <2>2
<1>5. Log!Expose(s, p)
  BY <1>1, <1>4, LogParts DEF Log!Expose
<1> QED
  BY <1>5 DEF Log!Next

\* What they have to do for it to hide the rows of s.
LEMMA LogHide ==
  ASSUME SameAccepted, SameVisible, SameSealed, SameReported,
         NEW s \in LogStreams, Accepted(s) = 0, type' = [type EXCEPT ![s] = "PENDING"],
         type \in [Targets -> Types \cup {"NONE"}]
  PROVE  Log!Next
<1>1. s \in Targets /\ \A x \in LogStreams : x \in Targets
  BY DEF LogStreams
<1>2. Log!Hide(s)
  <2>1. {x \in LogStreams : type[x] = "PENDING"}'
          = {x \in LogStreams : type[x] = "PENDING"} \cup {s}
    BY <1>1
  <2> QED
    BY <2>1, LogParts DEF Log!Hide
<1> QED
  BY <1>2 DEF Log!Next

\* What they have to do for it to seal s.
LEMMA LogSeal ==
  ASSUME SameAccepted, SameVisible, SameHidden, SameReported,
         NEW s \in LogStreams, state' = [state EXCEPT ![s] = "FINALIZED"],
         state \in [Targets -> {"NONE", "ACTIVE", "FINALIZED", "COMMITTED"}]
  PROVE  Log!Next
<1>1. s \in Targets /\ \A x \in LogStreams : x \in Targets
  BY DEF LogStreams
<1>2. Log!Seal(s)
  <2>1. {x \in LogStreams : state[x] \in {"FINALIZED", "COMMITTED"}}'
          = {x \in LogStreams : state[x] \in {"FINALIZED", "COMMITTED"}} \cup {s}
    BY <1>1
  <2> QED
    BY <2>1, LogParts DEF Log!Seal
<1> QED
  BY <1>2 DEF Log!Next

\* What they have to do for it to report n rows of s.
LEMMA LogReport ==
  ASSUME SameAccepted, SameVisible, SameHidden, SameSealed,
         NEW s \in LogStreams, NEW n \in 0..LogLen, flushed[s] <= n,
         \A q \in 1..LogLen : copies[<<s, q>>] = IF q <= n THEN 1 ELSE 0,
         flushed'[s] = n, \A x \in LogStreams \ {s} : flushed'[x] = flushed[x]
  PROVE  Log!Next
<1>1. Log!Shows(s, n)
  BY DEF Log!Shows
<1>2. [x \in LogStreams |-> flushed'[x]] = [[x \in LogStreams |-> flushed[x]] EXCEPT ![s] = n]
  OBVIOUS
<1>3. Log!Report(s, n)
  BY <1>1, <1>2, LogParts DEF Log!Report
<1> QED
  BY <1>3 DEF Log!Next

(***************************************************************************)
(* How far the insertion of a stream is.                                   *)
(***************************************************************************)
Unique ==
  \A s \in Targets, g, h \in Handlers : Inserts(g, s) /\ Inserts(h, s) => g = h

\* No two handlers insert rows of the same stream.
LEMMA LoopUnique == LoopInv => Unique
<1> SUFFICES ASSUME LoopInv, NEW s \in Targets, NEW g \in Handlers, NEW h \in Handlers,
                    Inserts(g, s), Inserts(h, s), g # h
             PROVE  FALSE
  BY DEF Unique
<1>1. SafeInv /\ Solo /\ Inserting(g) /\ Inserting(h) /\ dest[g] = dest[h]
  BY DEF LoopInv, LogInv, Inserts, Inserting
<1> QED
  BY <1>1, Apart

\* The handler that inserts into a stream says how far the insertion is, before
\* a step and after it.
LEMMA InsertedBy ==
  ASSUME Unique, NEW s \in Targets, NEW h \in Handlers, Inserts(h, s)
  PROVE  Inserted(s) = flushed[s] + Progress(h)
<1>1. (CHOOSE g \in Handlers : Inserts(g, s)) = h
  BY DEF Unique
<1> QED
  BY <1>1 DEF Inserted

LEMMA InsertedByNext ==
  ASSUME Unique', NEW s \in Targets, NEW h \in Handlers, Inserts(h, s)'
  PROVE  Inserted(s)' = flushed'[s] + Progress(h)'
<1>1. (CHOOSE g \in Handlers : Inserts(g, s)') = h
  BY DEF Unique
<1> QED
  BY <1>1 DEF Inserted

\* A connection that inserts into a stream has accepted the rows of its message.
LEMMA AcceptedBy ==
  ASSUME Unique, NEW s \in Targets, NEW c \in Conns, Inserts(c, s)
  PROVE  Accepted(s) = offset[s] + msg[c].n
<1>1. (CHOOSE g \in Conns : Inserts(g, s)) = c
  BY DEF Unique
<1> QED
  BY <1>1 DEF Accepted

LEMMA AcceptedByNext ==
  ASSUME Unique', NEW s \in Targets, NEW c \in Conns, Inserts(c, s)'
  PROVE  Accepted(s)' = offset'[s] + msg'[c].n
<1>1. (CHOOSE g \in Conns : Inserts(g, s)') = c
  BY DEF Unique
<1> QED
  BY <1>1 DEF Accepted

\* A stream that no handler inserts into.
LEMMA InsertedNone ==
  ASSUME NEW s \in Targets, flushed[s] \in Nat, \A h \in Handlers : ~Inserts(h, s)
  PROVE  Inserted(s) = flushed[s]
BY DEF Inserted

LEMMA InsertedNoneNext ==
  ASSUME NEW s \in Targets, flushed'[s] \in Nat, \A h \in Handlers : ~Inserts(h, s)'
  PROVE  Inserted(s)' = flushed'[s]
BY DEF Inserted

LEMMA AcceptedNone ==
  ASSUME NEW s \in Targets, offset[s] \in Nat, \A c \in Conns : ~Inserts(c, s)
  PROVE  Accepted(s) = offset[s]
BY DEF Accepted

LEMMA AcceptedNoneNext ==
  ASSUME NEW s \in Targets, offset'[s] \in Nat, \A c \in Conns : ~Inserts(c, s)'
  PROVE  Accepted(s)' = offset'[s]
BY DEF Accepted

\* The same handler inserts into the stream and is as far as before.
Undisturbed(s) ==
  \A h \in Handlers :
    /\ Inserts(h, s)' <=> Inserts(h, s)
    /\ Inserts(h, s) => Progress(h)' = Progress(h)
    /\ Inserts(h, s) /\ h \in Conns => msg'[h].n = msg[h].n

\* A stream whose insertion the step does not disturb is as far as before.
LEMMA InsertedSame ==
  ASSUME Unique, Unique', NEW s \in Targets, Undisturbed(s), flushed'[s] = flushed[s],
         flushed[s] \in Nat
  PROVE  Inserted(s)' = Inserted(s)
<1>1. CASE \E h \in Handlers : Inserts(h, s)
  <2>1. PICK h \in Handlers : Inserts(h, s)
    BY <1>1
  <2>2. Inserts(h, s)' /\ Progress(h)' = Progress(h)
    BY <2>1 DEF Undisturbed
  <2> QED
    BY <2>1, <2>2, InsertedBy, InsertedByNext
<1>2. CASE ~\E h \in Handlers : Inserts(h, s)
  BY <1>2, InsertedNone, InsertedNoneNext DEF Undisturbed
<1> QED
  BY <1>1, <1>2

\* It has accepted as many rows as before.
LEMMA AcceptedSame ==
  ASSUME Unique, Unique', NEW s \in Targets, Undisturbed(s), offset'[s] = offset[s],
         offset[s] \in Nat
  PROVE  Accepted(s)' = Accepted(s)
<1>1. CASE \E c \in Conns : Inserts(c, s)
  <2>1. PICK c \in Conns : Inserts(c, s)
    BY <1>1
  <2>2. Inserts(c, s)' /\ msg'[c].n = msg[c].n
    BY <2>1 DEF Undisturbed
  <2> QED
    BY <2>1, <2>2, AcceptedBy, AcceptedByNext
<1>2. CASE ~\E c \in Conns : Inserts(c, s)
  BY <1>2, AcceptedNone, AcceptedNoneNext DEF Undisturbed
<1> QED
  BY <1>1, <1>2

-----------------------------------------------------------------------------
(***************************************************************************)
(* Every row once and in order, where the table rejects none.              *)
(***************************************************************************)
NothingThrown == \A h \in Handlers : pc[h] # "threw"

OnceInv == LoopInv /\ Unique /\ NothingThrown /\ VisibleOnce

\* Exactly the first n rows of stream s are in its table, once each.
VisibleTo(s, n) == \A p \in 1..LogLen : copies[<<s, p>>] = IF p <= n THEN 1 ELSE 0

\* VisibleOnce in the terms used here, before a step and after it.
LEMMA OnceTo == VisibleOnce <=> \A s \in LogStreams : VisibleTo(s, Inserted(s))
BY DEF VisibleOnce, LogStreams, VisibleTo

LEMMA OnceToNext == VisibleOnce' <=> \A s \in LogStreams : VisibleTo(s, Inserted(s))'
BY DEF VisibleOnce, LogStreams, VisibleTo

\* The types of what counts rows.
LEMMA Counts ==
  ASSUME SafeInv
  PROVE  /\ \A s \in Targets : offset[s] \in Nat /\ flushed[s] \in Nat
         /\ LogStreams \subseteq Targets
         /\ copies \in [Row -> Nat]
         /\ \A s \in LogStreams, p \in 1..LogLen : <<s, p>> \in Row
BY DEF SafeInv, TypeInv, TypeOK, LogStreams, Row

\* A step of h that changes nothing about the insertion into s.
LEMMA UndisturbedBy ==
  ASSUME NEW h \in Handlers, NEW s \in Targets, \A g \in Handlers \ {h} : Waits(g),
         Inserts(h, s)' <=> Inserts(h, s),
         Inserts(h, s) => Progress(h)' = Progress(h) /\ (h \in Conns => msg'[h] = msg[h])
  PROVE  Undisturbed(s)
BY DEF Undisturbed, Waits, Inserts, Progress

\* Who begins to insert into a stream is alone, as is who ends.
LEMMA BeginsAlone ==
  ASSUME Unique', NEW h \in Handlers, NEW s \in Targets, \A g \in Handlers \ {h} : Waits(g),
         Inserts(h, s)', ~Inserts(h, s)
  PROVE  \A g \in Handlers : ~Inserts(g, s)
BY DEF Unique, Waits, Inserts

LEMMA EndsAlone ==
  ASSUME Unique, NEW h \in Handlers, NEW s \in Targets, \A g \in Handlers \ {h} : Waits(g),
         Inserts(h, s), ~Inserts(h, s)'
  PROVE  \A g \in Handlers : ~Inserts(g, s)'
BY DEF Unique, Waits, Inserts

\* The steps that no reader and no abstract log notices.
LEMMA OnceStill ==
  ASSUME OnceInv, Unique', UNCHANGED <<copies, flushed, offset>>,
         \A s \in LogStreams : Undisturbed(s), SameHidden, SameSealed
  PROVE  /\ VisibleOnce' /\ SameAccepted /\ SameVisible /\ SameReported
         /\ UNCHANGED Log!logVars
<1>1. SafeInv /\ LogStreams \subseteq Targets
  BY DEF OnceInv, LoopInv, LogInv, LogStreams
<1>2. \A s \in LogStreams : Inserted(s)' = Inserted(s) /\ Accepted(s)' = Accepted(s)
  BY <1>1, Counts, InsertedSame, AcceptedSame DEF OnceInv
<1>3. VisibleOnce'
  <2>1. \A s \in LogStreams : VisibleTo(s, Inserted(s))
    BY OnceTo DEF OnceInv
  <2>2. \A s \in LogStreams : VisibleTo(s, Inserted(s))'
    BY <1>2, <2>1 DEF VisibleTo
  <2> QED
    BY <2>2, OnceToNext
<1>4. SameAccepted /\ SameVisible /\ SameReported
  BY <1>2 DEF SameAccepted, SameVisible, SameReported
<1> QED
  BY <1>3, <1>4, LogStutter

\* A loop is at the next row of its stream that readers do not see yet.
LEMMA RowInTurn ==
  ASSUME LoopInv, Unique, NEW h \in Handlers, Inserting(h), dest[h] \in LogStreams
  PROVE  LET s == dest[h]
         IN  /\ Data(h)[rowNo[h]] = <<s, flushed[s] + rowNo[h]>>
             /\ flushed[s] + rowNo[h] \in 1..LogLen
             /\ flushed[s] + rowNo[h] <= Accepted(s)
             /\ h \in Conns => /\ flushed[s] = offset[s] /\ Accepted(s) = offset[s] + msg[h].n
             /\ h \in Calls => Accepted(s) = offset[s]
             /\ Inserted(s) = flushed[s] + Progress(h)
<1>1. PICK s \in LogStreams : s = dest[h]
  OBVIOUS
<1>2. /\ SafeInv /\ s \in Targets /\ s \notin Unchecked /\ Explicit(s) /\ Loop(h)
      /\ offset[s] \in Nat /\ flushed[s] \in Nat /\ Inserts(h, s)
  BY <1>1, Counts DEF LoopInv, LogInv, LogStreams, Inserts, Inserting
<1>3. /\ rowNo[h] \in 1..Len(Data(h)) /\ Len(Data(h)) \in Nat
      /\ Data(h)[rowNo[h]] \in DataOf(s)
  BY <1>1, <1>2, DataRows, ElementOfSeq DEF Loop
<1>4. CASE h \in Conns
  <2>1. /\ type[s] = "COMMITTED" /\ flushed[s] = offset[s] /\ msg[h].lo = offset[s]
        /\ msg[h].n \in Nat /\ msg[h].lo + msg[h].n <= LogLen
    BY <1>1, <1>2, <1>4, AtWork
    DEF Immediate, Explicit, LoopInv, Lengths, Loop, LogInv, SafeInv, TypeInv, TypeOK, InHand
  <2>2. Data(h) = RowsOf(s, offset[s], offset[s] + msg[h].n)
    BY <1>1, <1>4, <2>1 DEF Data
  <2>3. Len(Data(h)) = msg[h].n /\ \A j \in 1..msg[h].n : Data(h)[j] = <<s, offset[s] + j>>
    BY <1>2, <2>1, <2>2, MessageData
  <2>4. Accepted(s) = offset[s] + msg[h].n
    BY <1>2, <1>4, AcceptedBy
  <2> QED
    BY <1>1, <1>2, <1>3, <1>4, <2>1, <2>3, <2>4, InsertedBy, ParametersAssumption
<1>5. CASE h \in Calls
  <2>1. h \notin Conns /\ Buffered(s)
    BY <1>1, <1>2, <1>5, AtWork
  <2>2. buffer[s] = RowsOf(s, flushed[s], offset[s]) /\ Len(buffer[s]) = offset[s] - flushed[s]
    BY <1>2, <2>1 DEF LoopInv, LogInv, BufferIsLog, Lengths
  <2>3. Data(h) = buffer[s]
    BY <1>1, <2>1 DEF Data
  <2>4. Data(h)[rowNo[h]] = <<s, flushed[s] + rowNo[h]>>
    <3>1. rowNo[h] \in 1..(offset[s] - flushed[s])
      BY <1>3, <2>2, <2>3
    <3> QED
      BY <2>2, <2>3, <3>1 DEF RowsOf
  <2>5. flushed[s] + rowNo[h] \in 1..LogLen
    BY <1>3, <2>4 DEF DataOf
  <2>6. flushed[s] + rowNo[h] <= offset[s]
    BY <1>2, <1>3, <2>2, <2>3
  <2>7. Accepted(s) = offset[s]
    <3>1. \A c \in Conns : ~Inserts(c, s)
      BY <1>2, <1>5, ParametersAssumption DEF Unique
    <3> QED
      BY <1>2, <3>1, AcceptedNone
  <2> QED
    BY <1>1, <1>2, <2>1, <2>4, <2>5, <2>6, <2>7, InsertedBy
<1> QED
  BY <1>4, <1>5

\* What every step has to do.
LEMMA OnceStream ==
  ASSUME OnceInv, Unique', NEW s \in Targets,
         (\E ty \in Types : CreateWriteStream(s, ty)) \/ FinalizeWriteStream(s)
  PROVE  NothingThrown' /\ VisibleOnce' /\ [Log!Next]_(Log!logVars)
<1>1. /\ UNCHANGED <<copies, flushed, offset, pc, dest, rowNo, msg>>
      /\ SafeInv
      /\ type \in [Targets -> Types \cup {"NONE"}]
      /\ state \in [Targets -> {"NONE", "ACTIVE", "FINALIZED", "COMMITTED"}]
      /\ LogStreams \subseteq Targets
  BY DEF CreateWriteStream, FinalizeWriteStream, dbVars, connVars, OnceInv, LoopInv, LogInv,
    SafeInv, TypeInv, TypeOK, LogStreams
<1>2. NothingThrown'
  BY <1>1 DEF OnceInv, NothingThrown
<1>3. \A x \in LogStreams : Undisturbed(x)
  BY <1>1 DEF Undisturbed, Inserts, Progress
<1>4. VisibleOnce' /\ SameAccepted /\ SameVisible /\ SameReported
  <2>1. \A x \in LogStreams : Inserted(x)' = Inserted(x) /\ Accepted(x)' = Accepted(x)
    BY <1>1, <1>3, Counts, InsertedSame, AcceptedSame DEF OnceInv
  <2>2. \A x \in LogStreams : VisibleTo(x, Inserted(x))
    BY OnceTo DEF OnceInv
  <2>3. \A x \in LogStreams : VisibleTo(x, Inserted(x))'
    BY <1>1, <2>1, <2>2 DEF VisibleTo
  <2>4. VisibleOnce'
    BY <2>3, OnceToNext
  <2> QED
    BY <1>1, <2>1, <2>4 DEF SameAccepted, SameVisible, SameReported
<1>5. ASSUME NEW ty \in Types, CreateWriteStream(s, ty)
      PROVE  [Log!Next]_(Log!logVars)
  <2>1. /\ type' = [type EXCEPT ![s] = ty] /\ state' = [state EXCEPT ![s] = "ACTIVE"]
        /\ type[s] = "NONE" /\ state[s] = "NONE" /\ offset[s] = 0
    BY <1>1, <1>5 DEF CreateWriteStream, SafeInv, Created
  <2>2. SameSealed
    BY <1>1, <2>1 DEF SameSealed
  <2>3. CASE s \in LogStreams /\ ty = "PENDING"
    <3>1. Accepted(s) = 0
      <4>1. \A c \in Conns : ~Inserts(c, s)
        <5>1. ASSUME NEW c \in Conns, Inserts(c, s) PROVE FALSE
          <6>1. Inserting(c) /\ dest[c] = s /\ c \in Handlers
            BY <5>1 DEF Inserts, Inserting
          <6>2. Immediate(s)
            BY <1>1, <6>1, AtWork
          <6> QED
            BY <2>1, <2>3, <6>2 DEF Immediate, LogStreams, Explicit
        <5> QED
          BY <5>1
      <4> QED
        BY <2>1, <4>1, AcceptedNone
    <3> QED
      BY <1>1, <1>4, <2>1, <2>2, <2>3, <3>1, LogHide
  <2>4. CASE ~(s \in LogStreams /\ ty = "PENDING")
    <3>1. SameHidden
      BY <1>1, <2>1, <2>4 DEF SameHidden
    <3> QED
      BY <1>4, <2>2, <3>1, LogStutter
  <2> QED
    BY <2>3, <2>4
<1>6. CASE FinalizeWriteStream(s)
  <2>1. state' = [state EXCEPT ![s] = "FINALIZED"] /\ SameHidden
    BY <1>6 DEF FinalizeWriteStream, SameHidden
  <2>2. CASE s \in LogStreams
    BY <1>1, <1>2, <1>4, <2>1, <2>2, LogSeal
  <2>3. CASE s \notin LogStreams
    <3>1. SameSealed
      BY <1>1, <2>1, <2>3 DEF SameSealed
    <3> QED
      BY <1>2, <1>4, <2>1, <3>1, LogStutter
  <2> QED
    BY <2>2, <2>3
<1> QED
  BY <1>2, <1>4, <1>5, <1>6

\* Binding a row shows nothing yet.
LEMMA OnceBind ==
  ASSUME OnceInv, Unique', NEW h \in Handlers, Bind(h)
  PROVE  NothingThrown' /\ VisibleOnce' /\ [Log!Next]_(Log!logVars)
<1>1. /\ UNCHANGED <<copies, flushed, offset, type, state, dest, rowNo, msg>>
      /\ pc[h] = "preparing" /\ pc' = [pc EXCEPT ![h] = "running"]
      /\ SafeInv /\ pc \in [Handlers -> Steps] /\ LogStreams \subseteq Targets
  BY DEF Bind, streamVars, connVars, OnceInv, LoopInv, LogInv, SafeInv, TypeInv, TypeOK,
    LogStreams
<1>2. NothingThrown'
  BY <1>1 DEF OnceInv, NothingThrown
<1>3. \A g \in Handlers \ {h} : Waits(g)
  BY <1>1, OthersWait
<1>4. \A s \in LogStreams : Undisturbed(s)
  <2>1. \A s \in LogStreams : /\ Inserts(h, s)' <=> Inserts(h, s)
                              /\ Progress(h)' = Progress(h)
    BY <1>1 DEF Inserts, Progress
  <2> QED
    BY <1>1, <1>3, <2>1, UndisturbedBy
<1>5. SameHidden /\ SameSealed
  BY <1>1 DEF SameHidden, SameSealed
<1> QED
  BY <1>1, <1>2, <1>4, <1>5, OnceStill

\* The one step that readers see: it shows them the next row.
LEMMA OnceRun ==
  ASSUME BadRows = {}, OnceInv, Unique', NEW h \in Handlers, Run(h)
  PROVE  NothingThrown' /\ VisibleOnce' /\ [Log!Next]_(Log!logVars)
<1>0. PICK s \in Targets : s = dest[h]
  BY RunRow DEF Run, OnceInv
<1> DEFINE r == bound[TableOf[dest[h]]]
<1>1. /\ pc[h] = "running" /\ Inserting(h) /\ Loop(h)
      /\ r = Data(h)[rowNo[h]] /\ r \in Row /\ r \in DataOf(s)
  BY <1>0, RunRow DEF Run, OnceInv
<1>2. /\ UNCHANGED <<type, state, offset, flushed, dest, rowNo, msg>>
      /\ copies' = [copies EXCEPT ![r] = @ + 1] /\ pc' = [pc EXCEPT ![h] = "ran"]
  <2>1. r \notin {} \cup {NoRow}
    BY <1>1, ParametersAssumption
  <2> QED
    BY <2>1 DEF Run, streamVars, connVars
<1>3. /\ SafeInv /\ pc \in [Handlers -> Steps] /\ copies \in [Row -> Nat]
      /\ LogStreams \subseteq Targets /\ rowNo[h] \in Nat
      /\ \A x \in LogStreams, p \in 1..LogLen : <<x, p>> \in Row
      /\ \A x \in Targets : flushed[x] \in Nat /\ offset[x] \in Nat
  BY Counts DEF OnceInv, LoopInv, LogInv, SafeInv, TypeInv, TypeOK
<1> HIDE DEF r
<1>4. pc'[h] = "ran" /\ NothingThrown'
  BY <1>2, <1>3 DEF OnceInv, NothingThrown
<1>5. \A g \in Handlers \ {h} : Waits(g)
  BY <1>3, OthersWait
<1>6. \A x \in LogStreams \ {s} : Undisturbed(x)
  <2>1. \A x \in LogStreams \ {s} : ~Inserts(h, x) /\ ~Inserts(h, x)'
    BY <1>0, <1>2 DEF Inserts
  <2> QED
    BY <1>3, <1>5, <2>1, UndisturbedBy
<1>7. \A x \in LogStreams \ {s} : Inserted(x)' = Inserted(x) /\ Accepted(x)' = Accepted(x)
  BY <1>2, <1>3, <1>6, InsertedSame, AcceptedSame DEF OnceInv
<1>8. \A x \in LogStreams : VisibleTo(x, Inserted(x))
  BY OnceTo DEF OnceInv
<1>9. \A x \in LogStreams \ {s} : VisibleTo(x, Inserted(x))'
  <2>1. ASSUME NEW x \in LogStreams \ {s}, NEW p \in 1..LogLen
        PROVE  copies'[<<x, p>>] = copies[<<x, p>>]
    <3>1. <<x, p>> \in Row
      BY <1>3
    <3>2. r[1] = s
      BY <1>1 DEF DataOf
    <3>3. <<x, p>> # r
      BY <3>2
    <3> QED
      BY <1>2, <1>3, <3>1, <3>3
  <2> QED
    BY <1>7, <1>8, <2>1 DEF VisibleTo
<1>10. SameHidden /\ SameSealed /\ SameReported
  BY <1>2 DEF SameHidden, SameSealed, SameReported
<1>11. CASE s \notin LogStreams
  <2>1. VisibleOnce'
    BY <1>9, <1>11, OnceToNext
  <2>2. SameAccepted /\ SameVisible
    BY <1>1, <1>2, <1>3, <1>7, <1>11 DEF SameAccepted, SameVisible, DataOf
  <2> QED
    BY <1>4, <1>10, <2>1, <2>2, LogStutter
<1>12. CASE s \in LogStreams
  <2> DEFINE p == flushed[s] + rowNo[h]
  <2>1. /\ r = <<s, p>> /\ p \in 1..LogLen /\ p <= Accepted(s)
        /\ Inserted(s) = flushed[s] + Progress(h)
    BY <1>0, <1>1, <1>12, RowInTurn DEF OnceInv
  <2>2. Inserted(s) = p - 1
    BY <1>1, <1>3, <2>1 DEF Progress
  <2>3. Inserts(h, s) /\ Inserts(h, s)' /\ Progress(h)' = rowNo[h]
    BY <1>0, <1>1, <1>2, <1>4 DEF Inserts, Progress
  <2>4. Inserted(s)' = p
    BY <1>2, <2>3, InsertedByNext
  <2>5. SameAccepted
    <3>1. Accepted(s)' = Accepted(s)
      <4>1. CASE h \in Conns
        BY <1>2, <2>3, <4>1, AcceptedBy, AcceptedByNext DEF OnceInv
      <4>2. CASE h \notin Conns
        <5>1. \A c \in Conns : ~Inserts(c, s) /\ ~Inserts(c, s)'
          BY <2>3, <4>2 DEF OnceInv, Unique
        <5> QED
          BY <1>2, <1>3, <5>1, AcceptedNone, AcceptedNoneNext
      <4> QED
        BY <4>1, <4>2
    <3> QED
      BY <1>7, <3>1 DEF SameAccepted
  <2> HIDE DEF p
  <2>6. \A q \in 1..LogLen : copies[<<s, q>>] = IF q <= p - 1 THEN 1 ELSE 0
    BY <1>8, <1>12, <2>2 DEF VisibleTo
  <2>7. copies' = [copies EXCEPT ![<<s, p>>] = 1]
    <3>1. copies[<<s, p>>] = 0
      BY <2>1, <2>6
    <3> QED
      BY <1>2, <2>1, <3>1
  <2>8. VisibleTo(s, Inserted(s))'
    <3>1. \A q \in 1..LogLen : copies'[<<s, q>>] = IF q <= p THEN 1 ELSE 0
      BY <1>3, <1>12, <2>1, <2>6, <2>7
    <3> QED
      BY <2>4, <3>1 DEF VisibleTo
  <2>9. type[s] = "PENDING" => state[s] \in {"FINALIZED", "COMMITTED"}
    <3>1. SUFFICES ASSUME type[s] = "PENDING" PROVE Sealed(s)
      BY DEF Sealed
    <3>2. h \in Calls
      BY <1>0, <1>1, <1>3, <1>12, <3>1, AtWork DEF Immediate, LogStreams, Explicit
    <3> QED
      BY <1>0, <1>1, <1>3, <3>1, <3>2, AtWork DEF SafeInv, CallWork
  <2>10. Log!Next
    BY <1>3, <1>10, <1>12, <2>1, <2>5, <2>6, <2>7, <2>9, LogExpose
  <2>11. VisibleOnce'
    BY <1>9, <2>8, OnceToNext
  <2> QED
    BY <1>4, <2>10, <2>11
<1> QED
  BY <1>11, <1>12

\* A handler that does not insert into x before the step, and at most begins
\* to in it, leaves it as far as it is.
LEMMA InsertedElsewhere ==
  ASSUME SafeInv, Unique, Unique', NEW h \in Handlers, \A g \in Handlers \ {h} : Waits(g),
         NEW x \in Targets, ~Inserts(h, x), Inserts(h, x)' => Progress(h)' = 0,
         flushed'[x] = flushed[x]
  PROVE  Inserted(x)' = Inserted(x)
<1>1. flushed[x] \in Nat
  BY Counts
<1>2. CASE Inserts(h, x)'
  <2>1. \A g \in Handlers : ~Inserts(g, x)
    BY <1>2, BeginsAlone
  <2>2. Inserted(x) = flushed[x]
    BY <1>1, <2>1, InsertedNone
  <2>3. Inserted(x)' = flushed'[x] + Progress(h)'
    BY <1>2, InsertedByNext
  <2> QED
    BY <1>1, <1>2, <2>2, <2>3
<1>3. CASE ~Inserts(h, x)'
  <2>1. Undisturbed(x)
    BY <1>3, UndisturbedBy
  <2> QED
    BY <1>1, <2>1, InsertedSame
<1> QED
  BY <1>2, <1>3

\* The same for the rows accepted: a call that begins to insert accepts none.
LEMMA AcceptedElsewhere ==
  ASSUME SafeInv, Unique, Unique', NEW h \in Handlers, \A g \in Handlers \ {h} : Waits(g),
         NEW x \in Targets, ~Inserts(h, x), h \in Conns => ~Inserts(h, x)',
         offset'[x] = offset[x]
  PROVE  Accepted(x)' = Accepted(x)
<1>1. offset[x] \in Nat
  BY Counts
<1>2. CASE Inserts(h, x)'
  <2>1. \A c \in Conns : ~Inserts(c, x)
    BY <1>2, BeginsAlone
  <2>2. \A c \in Conns : ~Inserts(c, x)'
    BY <1>2, <2>1 DEF Waits, Inserts
  <2> QED
    BY <1>1, <2>1, <2>2, AcceptedNone, AcceptedNoneNext
<1>3. CASE ~Inserts(h, x)'
  <2>1. Undisturbed(x)
    BY <1>3, UndisturbedBy
  <2> QED
    BY <1>1, <2>1, AcceptedSame
<1> QED
  BY <1>2, <1>3

\* Where the table and the counts stay, readers see what the streams say.
LEMMA OnceKept ==
  ASSUME VisibleOnce, UNCHANGED copies, \A x \in LogStreams : Inserted(x)' = Inserted(x)
  PROVE  VisibleOnce' /\ SameVisible
<1>1. \A x \in LogStreams : VisibleTo(x, Inserted(x))
  BY OnceTo
<1>2. \A x \in LogStreams : VisibleTo(x, Inserted(x))'
  BY <1>1 DEF VisibleTo
<1> QED
  BY <1>2, OnceToNext DEF SameVisible

\* A step of h outside the loops, or one with which h goes on in its loop.
LEMMA OnceQuiet ==
  ASSUME OnceInv, Unique', NEW h \in Handlers, \A g \in Handlers \ {h} : Waits(g),
         UNCHANGED <<copies, flushed, offset, type>>, SameSealed, pc'[h] # "threw",
         \/ ~Inserting(h) /\ ~Inserting(h)'
         \/ ~Inserting(h) /\ h \in Calls /\ (Inserting(h)' => Progress(h)' = 0)
         \/ /\ Inserting(h) /\ Inserting(h)' /\ dest'[h] = dest[h] /\ Progress(h)' = Progress(h)
            /\ h \in Conns => msg'[h] = msg[h]
  PROVE  NothingThrown' /\ VisibleOnce' /\ [Log!Next]_(Log!logVars)
<1>1. SafeInv /\ LogStreams \subseteq Targets
  BY DEF OnceInv, LoopInv, LogInv, LogStreams
<1>2. NothingThrown'
  BY DEF OnceInv, NothingThrown, Waits
<1>3. SameHidden /\ SameReported
  BY DEF SameHidden, SameReported
<1>4. \A x \in LogStreams : Inserted(x)' = Inserted(x) /\ Accepted(x)' = Accepted(x)
  <2>1. CASE ~Inserting(h)
    <3>1. \A x \in LogStreams : /\ ~Inserts(h, x)
                                /\ Inserts(h, x)' => Progress(h)' = 0
                                /\ h \in Conns => ~Inserts(h, x)'
      BY <2>1, ParametersAssumption DEF Inserts, Inserting
    <3> QED
      BY <1>1, <3>1, InsertedElsewhere, AcceptedElsewhere DEF OnceInv
  <2>2. CASE Inserting(h)
    <3>1. \A x \in LogStreams : Undisturbed(x)
      BY <1>1, <2>2, UndisturbedBy DEF Inserts, Inserting
    <3> QED
      BY <1>1, <3>1, Counts, InsertedSame, AcceptedSame DEF OnceInv
  <2> QED
    BY <2>1, <2>2
<1>5. VisibleOnce' /\ SameVisible
  BY <1>4, OnceKept DEF OnceInv
<1>6. SameAccepted
  BY <1>4 DEF SameAccepted
<1> QED
  BY <1>2, <1>3, <1>5, <1>6, LogStutter

\* A connection between its loops: nothing inserted, nothing counted.
LEMMA OnceMessage ==
  ASSUME OnceInv, Unique', NEW c \in Conns,
         \/ \E s \in Targets, lo \in 0..LogLen, n \in Batches : Receive(c, s, lo, n)
         \/ \E s \in Targets : RefuseContext(c, s)
         \/ Disconnect(c) \/ SkipAppend(c) \/ CountRows(c) \/ RejectMessage(c) \/ FailAppend(c)
  PROVE  NothingThrown' /\ VisibleOnce' /\ [Log!Next]_(Log!logVars)
<1>1. SafeInv /\ pc \in [Handlers -> Steps]
  BY DEF OnceInv, LoopInv, LogInv, SafeInv, TypeInv, TypeOK
<1>2. \A g \in Handlers \ {c} : Waits(g)
  BY <1>1, OthersWait DEF ContinueAppend
<1>3. pc[c] # "threw"
  BY DEF OnceInv, NothingThrown
<1>4. UNCHANGED <<copies, flushed, offset, type, state>> /\ SameSealed
  BY DEF Receive, RefuseContext, Disconnect, SkipAppend, CountRows, RejectMessage, FailAppend,
    streamVars, dbVars, SameSealed
<1>5. CASE (\E s \in Targets : RefuseContext(c, s)) \/ Disconnect(c)
  <2>1. UNCHANGED <<pc, dest, rowNo, msg>>
    BY <1>5 DEF RefuseContext, Disconnect
  <2>2. /\ pc'[c] # "threw" /\ (Inserting(c)' <=> Inserting(c)) /\ dest'[c] = dest[c]
        /\ Progress(c)' = Progress(c) /\ msg'[c] = msg[c]
    BY <1>3, <2>1 DEF Inserting, Progress
  <2> QED
    BY <1>2, <1>4, <2>2, OnceQuiet
<1>6. CASE ~((\E s \in Targets : RefuseContext(c, s)) \/ Disconnect(c))
  <2>1. pc[c] \in {"idle", "meta", "counted"} /\ pc'[c] \in {"idle", "meta", "counted"}
    BY <1>1, <1>3, <1>6 DEF Receive, SkipAppend, CountRows, RejectMessage, FailAppend,
      EndMessage, Admitted
  <2>2. ~Inserting(c) /\ ~Inserting(c)' /\ pc'[c] # "threw"
    BY <2>1 DEF Inserting
  <2> QED
    BY <1>2, <1>4, <2>2, OnceQuiet
<1> QED
  BY <1>5, <1>6

\* A loop goes on with its next row.
LEMMA OnceInsertNext ==
  ASSUME OnceInv, Unique', NEW h \in Handlers,
         \/ h \in Conns /\ InsertNext(h)
         \/ h \in Calls /\ (FlushNext(h) \/ CommitNext(h))
  PROVE  NothingThrown' /\ VisibleOnce' /\ [Log!Next]_(Log!logVars)
<1>1. /\ SafeInv /\ pc \in [Handlers -> Steps] /\ rowNo \in [Handlers -> Nat]
  BY DEF OnceInv, LoopInv, LogInv, SafeInv, TypeInv, TypeOK
<1>2. \A g \in Handlers \ {h} : Waits(g)
  BY <1>1, OthersWait DEF ContinueAppend, ContinueCall
<1>3. UNCHANGED <<copies, flushed, offset, type, state, dest, msg>> /\ SameSealed
  BY DEF InsertNext, FlushNext, CommitNext, streamVars, connVars, SameSealed
<1>4. pc[h] = "ran" /\ pc'[h] = "preparing" /\ rowNo'[h] = rowNo[h] + 1
  BY <1>1 DEF InsertNext, FlushNext, CommitNext, Exec
<1>5. Inserting(h) /\ Inserting(h)' /\ Progress(h)' = Progress(h)
  BY <1>1, <1>4 DEF Inserting, Progress
<1> QED
  BY <1>2, <1>3, <1>4, <1>5, OnceQuiet

\* A call begins with its first row, or finds that it has none to insert.
LEMMA OnceFlushRows ==
  ASSUME OnceInv, Unique', NEW k \in Calls, NEW s \in Targets, NEW target \in 1..LogLen,
         FlushRows(k, s, target)
  PROVE  NothingThrown' /\ VisibleOnce' /\ [Log!Next]_(Log!logVars)
<1>1. /\ SafeInv /\ pc \in [Handlers -> Steps] /\ rowNo \in [Handlers -> Nat]
  BY DEF OnceInv, LoopInv, LogInv, SafeInv, TypeInv, TypeOK
<1>2. \A g \in Handlers \ {k} : Waits(g)
  BY <1>1, OthersWait
<1>3. UNCHANGED <<copies, flushed, offset, type, state>> /\ SameSealed
  BY DEF FlushRows, streamVars, SameSealed
<1>4. pc[k] = "idle" /\ pc'[k] = "preparing" /\ rowNo'[k] = 1
  BY <1>1 DEF FlushRows, Exec
<1>5. ~Inserting(k) /\ Progress(k)' = 0
  BY <1>4 DEF Inserting, Progress
<1> QED
  BY <1>2, <1>3, <1>4, <1>5, OnceQuiet

\* A COMMITTED stream accepts the rows of a message when it inserts the first.
LEMMA OnceInsertFirst ==
  ASSUME OnceInv, Unique', NEW c \in Conns, InsertFirst(c)
  PROVE  NothingThrown' /\ VisibleOnce' /\ [Log!Next]_(Log!logVars)
<1>0. PICK s \in Targets : s = dest[c]
  BY DEF InsertFirst, Admitted, Active, OnceInv, LoopInv, LogInv, SafeInv, TypeInv, InHand
<1>1. /\ SafeInv /\ pc \in [Handlers -> Steps] /\ rowNo \in [Handlers -> Nat]
      /\ LogStreams \subseteq Targets /\ \A x \in Targets : offset[x] \in Nat
  BY DEF OnceInv, LoopInv, LogInv, SafeInv, TypeInv, TypeOK, LogStreams
<1>2. \A g \in Handlers \ {c} : Waits(g)
  BY <1>1, OthersWait DEF ContinueAppend
<1>3. /\ UNCHANGED <<copies, flushed, offset, type, state, dest, msg>>
      /\ SameSealed /\ SameHidden /\ SameReported
  BY DEF InsertFirst, streamVars, connVars, SameSealed, SameHidden, SameReported
<1>4. pc[c] \in {"meta", "counted"} /\ pc'[c] = "preparing" /\ rowNo'[c] = 1
  BY <1>1 DEF InsertFirst, Admitted, Exec
<1>5. NothingThrown'
  BY <1>2, <1>4 DEF OnceInv, NothingThrown, Waits
<1>6. /\ \A x \in Targets : ~Inserts(c, x)
      /\ Progress(c)' = 0 /\ Inserts(c, s)' /\ \A x \in Targets \ {s} : ~Inserts(c, x)'
  BY <1>0, <1>3, <1>4 DEF Inserts, Progress
<1>7. \A x \in LogStreams : Inserted(x)' = Inserted(x)
  BY <1>1, <1>2, <1>3, <1>6, InsertedElsewhere DEF OnceInv
<1>8. VisibleOnce' /\ SameVisible
  BY <1>3, <1>7, OnceKept DEF OnceInv
<1>9. \A x \in LogStreams \ {s} : Accepted(x)' = Accepted(x)
  BY <1>1, <1>2, <1>3, <1>6, AcceptedElsewhere DEF OnceInv
<1>10. CASE s \notin LogStreams
  <2>1. SameAccepted
    BY <1>9, <1>10 DEF SameAccepted
  <2> QED
    BY <1>3, <1>5, <1>8, <2>1, LogStutter
<1>11. CASE s \in LogStreams
  <2>1. Explicit(s) /\ s \notin Unchecked
    BY <1>11 DEF LogStreams
  <2>2. /\ Message(c) /\ Active(c) /\ msg[c].lo \in Nat /\ msg[c].n \in Nat
        /\ msg[c].lo + msg[c].n <= LogLen
    BY <1>4 DEF Active, OnceInv, LoopInv, LogInv, SafeInv, TypeInv, TypeOK, InHand
  <2>3. msg[c].lo = offset[s]
    BY <1>0, <2>1, <2>2 DEF InsertFirst, Admitted, Message, Explicit, OffsetMatches
  <2>4. msg[c].n \in 1..LogLen /\ offset[s] + msg[c].n <= LogLen
    <3>1. msg[c].n \in Nat \ {0} /\ msg[c].lo + msg[c].n <= LogLen /\ LogLen \in Nat
      BY <2>2, ParametersAssumption DEF Message
    <3> QED
      BY <1>1, <2>2, <2>3, <3>1
  <2>5. Accepted(s) = offset[s]
    <3>1. \A g \in Handlers : ~Inserts(g, s)
      BY <1>2, <1>6, BeginsAlone
    <3> QED
      BY <1>1, <3>1, AcceptedNone
  <2>6. Accepted(s)' = offset[s] + msg[c].n
    BY <1>3, <1>6, AcceptedByNext
  <2> QED
    BY <1>3, <1>5, <1>8, <1>9, <1>11, <2>4, <2>5, <2>6, LogAccept
<1> QED
  BY <1>10, <1>11

\* A BUFFERED or PENDING stream accepts them when it buffers them.
LEMMA OnceBufferAppend ==
  ASSUME OnceInv, Unique', NEW c \in Conns, BufferAppend(c)
  PROVE  NothingThrown' /\ VisibleOnce' /\ [Log!Next]_(Log!logVars)
<1>0. PICK s \in Targets : s = dest[c]
  BY DEF BufferAppend, Admitted, Active, OnceInv, LoopInv, LogInv, SafeInv, TypeInv, InHand
<1>1. /\ SafeInv /\ pc \in [Handlers -> Steps] /\ offset \in [Targets -> Nat]
      /\ LogStreams \subseteq Targets
  BY DEF OnceInv, LoopInv, LogInv, SafeInv, TypeInv, TypeOK, LogStreams
<1>2. \A g \in Handlers \ {c} : Waits(g)
  BY <1>1, OthersWait DEF ContinueAppend
<1>3. /\ UNCHANGED <<copies, flushed, type, state>> /\ ~Immediate(s)
      /\ offset' = [offset EXCEPT ![s] = @ + msg[c].n]
      /\ SameSealed /\ SameHidden /\ SameReported
  BY <1>0 DEF BufferAppend, Written, dbVars, SameSealed, SameHidden, SameReported
<1>4. pc[c] \in {"meta", "counted"} /\ pc'[c] = "idle"
  BY <1>1 DEF BufferAppend, Admitted, EndMessage
<1>5. NothingThrown'
  BY <1>2, <1>4 DEF OnceInv, NothingThrown, Waits
<1>6. \A x \in Targets : ~Inserts(c, x) /\ ~Inserts(c, x)'
  BY <1>4 DEF Inserts
<1>7. \A x \in LogStreams : Inserted(x)' = Inserted(x)
  BY <1>1, <1>2, <1>3, <1>6, InsertedElsewhere DEF OnceInv
<1>8. VisibleOnce' /\ SameVisible
  BY <1>3, <1>7, OnceKept DEF OnceInv
<1>9. \A x \in LogStreams \ {s} : Accepted(x)' = Accepted(x)
  BY <1>1, <1>2, <1>3, <1>6, AcceptedElsewhere DEF OnceInv
<1>10. CASE s \notin LogStreams
  <2>1. SameAccepted
    BY <1>9, <1>10 DEF SameAccepted
  <2> QED
    BY <1>3, <1>5, <1>8, <2>1, LogStutter
<1>11. CASE s \in LogStreams
  <2>1. Explicit(s) /\ s \notin Unchecked
    BY <1>11 DEF LogStreams
  <2>2. /\ Message(c) /\ Active(c) /\ msg[c].lo \in Nat /\ msg[c].n \in Nat
        /\ msg[c].lo + msg[c].n <= LogLen
    BY <1>4 DEF Active, OnceInv, LoopInv, LogInv, SafeInv, TypeInv, TypeOK, InHand
  <2>3. msg[c].lo = offset[s]
    BY <1>0, <2>1, <2>2 DEF BufferAppend, Admitted, Message, Explicit, OffsetMatches
  <2>4. msg[c].n \in 1..LogLen /\ offset[s] + msg[c].n <= LogLen
    <3>1. msg[c].n \in Nat \ {0} /\ msg[c].lo + msg[c].n <= LogLen /\ LogLen \in Nat
      BY <2>2, ParametersAssumption DEF Message
    <3> QED
      BY <1>1, <2>2, <2>3, <3>1
  <2>5. \A g \in Conns : ~Inserts(g, s)
    <3>1. ASSUME NEW g \in Conns, Inserts(g, s) PROVE FALSE
      <4>1. Inserting(g) /\ dest[g] = s /\ g \in Handlers
        BY <3>1 DEF Inserts, Inserting
      <4> QED
        BY <1>1, <1>3, <4>1, AtWork
    <3> QED
      BY <3>1
  <2>6. \A g \in Conns : ~Inserts(g, s)'
    BY <1>2, <1>6, <2>5 DEF Waits, Inserts
  <2>7. Accepted(s) = offset[s] /\ Accepted(s)' = offset[s] + msg[c].n
    <3>1. offset'[s] = offset[s] + msg[c].n /\ offset'[s] \in Nat
      BY <1>1, <1>3, <2>2
    <3> QED
      BY <1>1, <2>5, <2>6, <3>1, AcceptedNone, AcceptedNoneNext
  <2> QED
    BY <1>3, <1>5, <1>8, <1>9, <1>11, <2>4, <2>7, LogAccept
<1> QED
  BY <1>10, <1>11

\* A loop that has inserted all its rows ends: they count as visible from now
\* on.  A commit may begin with its next stream in the same step.
LEMMA OnceEnds ==
  ASSUME OnceInv, Unique', NEW h \in Handlers, \A g \in Handlers \ {h} : Waits(g),
         NEW s \in Targets, s = dest[h], pc[h] = "ran", UNCHANGED <<copies, type>>, SameSealed,
         pc'[h] # "threw", ~Inserts(h, s)',
         h \in Conns => ~Inserting(h)',
         Inserting(h)' => Progress(h)' = 0,
         \A x \in LogStreams \ {s} : flushed'[x] = flushed[x] /\ offset'[x] = offset[x],
         s \in LogStreams =>
           /\ flushed'[s] = flushed[s] + rowNo[h]
           /\ offset'[s] = IF h \in Conns THEN offset[s] + msg[h].n ELSE offset[s]
  PROVE  NothingThrown' /\ VisibleOnce' /\ [Log!Next]_(Log!logVars)
<1>1. /\ SafeInv /\ LoopInv /\ LogStreams \subseteq Targets /\ rowNo[h] \in Nat
      /\ \A x \in Targets : flushed[x] \in Nat /\ offset[x] \in Nat
      /\ h \in Conns => msg[h].n \in Nat
  BY DEF OnceInv, LoopInv, LogInv, SafeInv, TypeInv, TypeOK, LogStreams
<1>2. NothingThrown'
  BY DEF OnceInv, NothingThrown, Waits
<1>3. SameHidden
  BY DEF SameHidden
<1>4. Inserting(h) /\ Inserts(h, s) /\ Progress(h) = rowNo[h]
  BY DEF Inserting, Inserts, Progress
<1>5. ASSUME NEW x \in LogStreams \ {s}
      PROVE  Inserted(x)' = Inserted(x) /\ Accepted(x)' = Accepted(x)
  <2>1. /\ x \in Targets /\ ~Inserts(h, x)
        /\ Inserts(h, x)' => Progress(h)' = 0
        /\ h \in Conns => ~Inserts(h, x)'
        /\ flushed'[x] = flushed[x] /\ offset'[x] = offset[x]
    BY <1>1 DEF Inserts, Inserting
  <2> QED
    BY <1>1, <2>1, InsertedElsewhere, AcceptedElsewhere DEF OnceInv
<1>6. CASE s \notin LogStreams
  <2>1. \A x \in LogStreams : Inserted(x)' = Inserted(x) /\ Accepted(x)' = Accepted(x)
    BY <1>5, <1>6
  <2>2. VisibleOnce' /\ SameVisible
    BY <2>1, OnceKept DEF OnceInv
  <2>3. SameAccepted /\ SameReported
    BY <1>6, <2>1 DEF SameAccepted, SameReported
  <2> QED
    BY <1>2, <1>3, <2>2, <2>3, LogStutter
<1>7. CASE s \in LogStreams
  <2> DEFINE n == flushed[s] + rowNo[h]
  <2>1. /\ n \in 1..LogLen
        /\ h \in Conns => Accepted(s) = offset[s] + msg[h].n
        /\ h \in Calls => Accepted(s) = offset[s]
        /\ Inserted(s) = n
    BY <1>1, <1>4, <1>7, RowInTurn DEF OnceInv
  <2>2. \A g \in Handlers : ~Inserts(g, s)'
    BY <1>4, EndsAlone DEF OnceInv
  <2>3. flushed'[s] = n /\ flushed'[s] \in Nat /\ offset'[s] \in Nat /\ n \in 0..LogLen
        /\ flushed[s] <= n
    BY <1>1, <1>7, <2>1
  <2>4. Inserted(s)' = n /\ Accepted(s)' = offset'[s]
    BY <2>2, <2>3, InsertedNoneNext, AcceptedNoneNext
  <2> HIDE DEF n
  <2>5. \A x \in LogStreams : Inserted(x)' = Inserted(x)
    BY <1>5, <2>1, <2>4
  <2>6. SameAccepted
    <3>1. Accepted(s)' = Accepted(s)
      BY <1>7, <2>1, <2>4, ParametersAssumption
    <3> QED
      BY <1>5, <3>1 DEF SameAccepted
  <2>7. VisibleOnce' /\ SameVisible
    BY <2>5, OnceKept DEF OnceInv
  <2>8. \A q \in 1..LogLen : copies[<<s, q>>] = IF q <= n THEN 1 ELSE 0
    BY <1>7, <2>1, OnceTo DEF OnceInv, VisibleTo
  <2>9. Log!Next
    BY <1>3, <1>7, <2>3, <2>6, <2>7, <2>8, LogReport
  <2> QED
    BY <1>2, <2>7, <2>9
<1> QED
  BY <1>6, <1>7

\* A message is answered: the offset moves by the rows it inserted.
LEMMA OnceFinishAppend ==
  ASSUME OnceInv, Unique', NEW c \in Conns, FinishAppend(c)
  PROVE  NothingThrown' /\ VisibleOnce' /\ [Log!Next]_(Log!logVars)
<1>0. PICK s \in Targets : s = dest[c]
  BY DEF FinishAppend, Active, OnceInv, LoopInv, LogInv, SafeInv, TypeInv, InHand
<1>1. /\ SafeInv /\ LoopInv /\ pc \in [Handlers -> Steps] /\ flushed \in [Targets -> Nat]
      /\ offset \in [Targets -> Nat] /\ LogStreams \subseteq Targets /\ msg[c].n \in Nat
  BY DEF OnceInv, LoopInv, LogInv, SafeInv, TypeInv, TypeOK, LogStreams
<1>2. \A g \in Handlers \ {c} : Waits(g)
  BY <1>1, OthersWait DEF ContinueAppend
<1>3. /\ UNCHANGED <<copies, type, state>> /\ SameSealed /\ pc[c] = "ran" /\ rowNo[c] = msg[c].n
  BY DEF FinishAppend, dbVars, SameSealed
<1>4. pc'[c] = "idle" /\ ~Inserting(c)' /\ ~Inserts(c, s)'
  BY <1>1 DEF FinishAppend, EndMessage, Inserting, Inserts
<1>5. IF Explicit(s)
        THEN /\ offset' = [offset EXCEPT ![s] = @ + msg[c].n]
             /\ flushed' = [flushed EXCEPT ![s] = offset[s] + msg[c].n]
        ELSE UNCHANGED <<offset, flushed>>
  BY <1>0 DEF FinishAppend, Written
<1>6. \A x \in LogStreams \ {s} : flushed'[x] = flushed[x] /\ offset'[x] = offset[x]
  BY <1>1, <1>5
<1>7. ASSUME s \in LogStreams
      PROVE  flushed'[s] = flushed[s] + rowNo[c] /\ offset'[s] = offset[s] + msg[c].n
  <2>1. flushed[s] = offset[s]
    <3>1. Inserting(c)
      BY <1>3 DEF Inserting
    <3> QED
      BY <1>0, <1>1, <1>7, <3>1, RowInTurn DEF OnceInv
  <2>2. Explicit(s)
    BY <1>7 DEF LogStreams
  <2> QED
    BY <1>1, <1>3, <1>5, <2>1, <2>2
<1> QED
  BY <1>0, <1>2, <1>3, <1>4, <1>6, <1>7, OnceEnds

\* A flush is answered: what it inserted counts as flushed.
LEMMA OnceFlushDone ==
  ASSUME OnceInv, Unique', NEW k \in Calls, FlushDone(k)
  PROVE  NothingThrown' /\ VisibleOnce' /\ [Log!Next]_(Log!logVars)
<1>0. PICK s \in Targets : s = dest[k]
  BY DEF FlushDone, Active, OnceInv, LoopInv, LogInv, SafeInv, TypeInv, InHand
<1>1. /\ SafeInv /\ LoopInv /\ pc \in [Handlers -> Steps] /\ flushed \in [Targets -> Nat]
      /\ LogStreams \subseteq Targets /\ k \notin Conns
  BY ParametersAssumption DEF OnceInv, LoopInv, LogInv, SafeInv, TypeInv, TypeOK, LogStreams
<1>2. \A g \in Handlers \ {k} : Waits(g)
  BY <1>1, OthersWait DEF ContinueCall
<1>3. /\ UNCHANGED <<copies, type, state, offset>> /\ SameSealed /\ pc[k] = "ran"
      /\ type[s] = "BUFFERED" /\ rowNo[k] >= size[k]
      /\ flushed' = [flushed EXCEPT ![s] = upto[k]]
  BY <1>0 DEF FlushDone, dbVars, SameSealed
<1>4. pc'[k] = "done" /\ ~Inserting(k)' /\ ~Inserts(k, s)'
  BY <1>1 DEF FlushDone, EndCall, Inserting, Inserts
<1>5. rowNo[k] = size[k] /\ upto[k] = flushed[s] + size[k]
  <2>1. Active(k) /\ Inserting(k)
    BY <1>3 DEF Active, Inserting
  <2>2. size[k] \in Nat /\ upto[k] = flushed[s] + size[k]
    BY <1>0, <1>1, <1>3, <2>1, FlushFits
  <2>3. rowNo[k] <= size[k] /\ rowNo[k] \in Nat
    BY <1>0, <1>1, <1>3, <2>1 DEF LoopInv, Loop, SafeInv, TypeInv, TypeOK
  <2> QED
    BY <1>3, <2>2, <2>3
<1>6. \A x \in LogStreams \ {s} : flushed'[x] = flushed[x] /\ offset'[x] = offset[x]
  BY <1>1, <1>3
<1>7. flushed'[s] = flushed[s] + rowNo[k] /\ offset'[s] = offset[s]
  BY <1>1, <1>3, <1>5
<1> QED
  BY <1>0, <1>1, <1>2, <1>3, <1>4, <1>6, <1>7, OnceEnds

\* What a commit replaces without rows counts as flushed already.
LEMMA OnceCommit ==
  ASSUME OnceInv, Unique', NEW k \in Calls, NEW now \in SUBSET Targets,
         NEW rest \in SUBSET Targets, now \cap rest = {}, CommitAndGoOn(k, now, rest),
         UNCHANGED <<type, offset, copies, bound, connVars, upto, size, acked>>,
         \A g \in Handlers \ {k} : Waits(g), \A x \in now \cup rest : Sealed(x),
         \/ now = {} /\ pc[k] = "idle"
         \/ now = {dest[k]} /\ CommitStreamDone(k)
  PROVE  NothingThrown' /\ VisibleOnce' /\ [Log!Next]_(Log!logVars)
<1>1. /\ SafeInv /\ LoopInv /\ k \in Handlers /\ k \notin Conns /\ LogStreams \subseteq Targets
      /\ \A x \in Targets : flushed[x] \in Nat /\ offset[x] \in Nat
  BY ParametersAssumption
  DEF OnceInv, LoopInv, LogInv, SafeInv, TypeInv, TypeOK, LogStreams
<1>2. PICK empties \in SUBSET {s \in rest : buffer[s] = << >>} :
        /\ \A x \in now \cup empties : flushed'[x] = offset[x] /\ state'[x] = "COMMITTED"
        /\ \A x \in Targets \ (now \cup empties) : flushed'[x] = flushed[x] /\ state'[x] = state[x]
        /\ \/ pc'[k] = "done"
           \/ pc'[k] = "preparing" /\ dest'[k] \in rest /\ rowNo'[k] = 1
  <2>1. Going(k, now, rest)
    BY <1>1, CommitGoing
  <2>2. PICK empties \in SUBSET {s \in rest : buffer[s] = << >>} :
          /\ \A x \in now \cup empties : /\ buffer'[x] = << >> /\ flushed'[x] = offset[x]
                                        /\ state'[x] = "COMMITTED"
          /\ \A x \in Targets \ (now \cup empties) : /\ buffer'[x] = buffer[x]
                                                    /\ flushed'[x] = flushed[x]
                                                    /\ state'[x] = state[x]
          /\ \/ pc'[k] = "done"
             \/ pc'[k] = "preparing" /\ dest'[k] \in rest /\ rowNo'[k] = 1
    BY <2>1 DEF Going
  <2> QED
    BY <2>2
<1>3. SameSealed
  BY <1>1, <1>2 DEF SameSealed, Sealed
<1>4. \A x \in Targets \ now : flushed'[x] = flushed[x]
  <2>1. ASSUME NEW x \in empties PROVE flushed'[x] = flushed[x]
    <3>1. x \in Targets /\ buffer[x] = << >> /\ Buffered(x)
      BY DEF Sealed, Buffered
    <3>2. Len(buffer[x]) = offset[x] - flushed[x]
      BY <1>1, <3>1 DEF LoopInv, Lengths
    <3> QED
      BY <1>1, <1>2, <3>1, <3>2
  <2> QED
    BY <1>2, <2>1
<1>5. pc'[k] # "threw" /\ (Inserting(k)' => Progress(k)' = 0 /\ dest'[k] \in rest)
  BY <1>2 DEF Inserting, Progress
<1>6. CASE now = {} /\ pc[k] = "idle"
  <2>1. ~Inserting(k)
    BY <1>6 DEF Inserting
  <2>2. flushed' = flushed
    <3>1. flushed \in [Targets -> Nat] /\ flushed' = [x \in Targets |-> flushed'[x]]
      BY <1>1 DEF SafeInv, TypeInv, TypeOK, CommitAndGoOn
    <3> QED
      BY <1>4, <1>6, <3>1
  <2> QED
    BY <1>1, <1>3, <1>5, <2>1, <2>2, OnceQuiet
<1>7. CASE now = {dest[k]} /\ CommitStreamDone(k)
  <2>1. PICK s \in Targets : s = dest[k]
    BY <1>7
  <2>2. pc[k] = "ran" /\ Inserting(k) /\ rowNo[k] >= Len(Iterated(k)) /\ Iterated(k) = buffer[s]
    BY <1>1, <1>7, <2>1 DEF CommitStreamDone, Inserting, LoopInv, Calling, Iterated
  <2>3. flushed'[s] = flushed[s] + rowNo[k]
    <3>1. rowNo[k] \in 1..Len(buffer[s]) /\ Len(buffer[s]) \in Nat
      BY <1>1, <2>1, <2>2, DataRows DEF LoopInv, Loop, Data
    <3>2. Len(buffer[s]) = offset[s] - flushed[s]
      BY <1>1, <1>7, <2>1 DEF LoopInv, Lengths, Sealed, Buffered
    <3>3. flushed'[s] = offset[s]
      BY <1>2, <1>7, <2>1
    <3> QED
      BY <1>1, <2>2, <3>1, <3>2, <3>3
  <2>4. ~Inserts(k, s)'
    BY <1>5, <1>7, <2>1 DEF Inserts, Inserting
  <2>5. \A x \in LogStreams \ {s} : flushed'[x] = flushed[x] /\ offset'[x] = offset[x]
    BY <1>1, <1>4, <1>7, <2>1
  <2> QED
    BY <1>1, <1>3, <1>5, <2>1, <2>2, <2>3, <2>4, <2>5, OnceEnds
<1> QED
  BY <1>6, <1>7

\* Every step, where the table rejects no row.
LEMMA OnceNext ==
  ASSUME OneWriter, BadRows = {}, OnceInv, Unique', [Next]_vars
  PROVE  NothingThrown' /\ VisibleOnce' /\ [Log!Next]_(Log!logVars)
<1>1. CASE UNCHANGED vars
  <2>1. UNCHANGED <<streamVars, copies, pc, dest, rowNo, msg>>
    BY <1>1 DEF vars, dbVars, connVars
  <2>2. NothingThrown' /\ SameHidden /\ SameSealed
    BY <2>1 DEF OnceInv, NothingThrown, SameHidden, SameSealed, streamVars
  <2>3. \A x \in LogStreams : Undisturbed(x)
    BY <2>1 DEF Undisturbed, Inserts, Progress
  <2> QED
    BY <2>1, <2>2, <2>3, OnceStill DEF streamVars
<1>2. ASSUME NEW s \in Targets,
             (\E ty \in Types : CreateWriteStream(s, ty)) \/ FinalizeWriteStream(s)
      PROVE  NothingThrown' /\ VisibleOnce' /\ [Log!Next]_(Log!logVars)
  BY <1>2, OnceStream
<1>3. ASSUME NEW h \in Handlers, Bind(h) \/ Run(h)
      PROVE  NothingThrown' /\ VisibleOnce' /\ [Log!Next]_(Log!logVars)
  BY <1>3, OnceBind, OnceRun
<1>4. ASSUME NEW c \in Conns,
             \/ \E s \in Uses[c], lo \in 0..LogLen, n \in Batches : Receive(c, s, lo, n)
             \/ \E s \in Uses[c] : RefuseContext(c, s)
             \/ Disconnect(c)
             \/ ContinueAppend(c)
      PROVE  NothingThrown' /\ VisibleOnce' /\ [Log!Next]_(Log!logVars)
  <2>1. Uses[c] \subseteq Targets
    BY ParametersAssumption
  <2> QED
    BY <1>4, <2>1, OnceMessage, OnceInsertFirst, OnceInsertNext, OnceBufferAppend,
       OnceFinishAppend DEF ContinueAppend
<1>5. ASSUME NEW k \in Calls,
             \/ \E s \in Targets, target \in 1..LogLen : FlushRows(k, s, target)
             \/ \E names \in SUBSET Targets : BatchCommit(k, names)
             \/ ContinueCall(k)
      PROVE  NothingThrown' /\ VisibleOnce' /\ [Log!Next]_(Log!logVars)
  <2>1. LoopInv
    BY DEF OnceInv
  <2>2. ASSUME NEW names \in SUBSET Targets, BatchCommit(k, names)
        PROVE  NothingThrown' /\ VisibleOnce' /\ [Log!Next]_(Log!logVars)
    <3>1. pc[k] = "idle"
      BY <2>2 DEF BatchCommit
    <3> QED
      BY <2>1, <2>2, <3>1, BatchCommitStep, OnceCommit
  <2>3. CASE CommitStreamDone(k)
    BY <2>1, <2>3, CommitStreamDoneStep, OnceCommit
  <2>4. ~FailCall(k)
    BY DEF FailCall, OnceInv, NothingThrown
  <2> QED
    BY <1>5, <2>2, <2>3, <2>4, OnceFlushRows, OnceInsertNext, OnceFlushDone DEF ContinueCall
<1> QED
  BY <1>1, <1>2, <1>3, <1>4, <1>5 DEF Next

\* Nothing is inserted, accepted or visible at the start.
LEMMA OnceInit == Init => NothingThrown /\ VisibleOnce /\ Log!Init
<1> SUFFICES ASSUME Init PROVE NothingThrown /\ VisibleOnce /\ Log!Init
  OBVIOUS
<1>1. NothingThrown /\ \A h \in Handlers, s \in Targets : ~Inserts(h, s)
  BY DEF Init, NothingThrown, Inserts
<1>2. \A s \in LogStreams : s \in Targets
  BY DEF LogStreams
<1>3. \A s \in LogStreams : Inserted(s) = 0 /\ Accepted(s) = 0
  BY <1>1, <1>2, InsertedNone, AcceptedNone DEF Init
<1>4. \A s \in LogStreams, p \in 1..LogLen : copies[<<s, p>>] = 0
  BY <1>2 DEF Init, Row
<1>5. VisibleOnce
  <2>1. \A s \in LogStreams : VisibleTo(s, 0)
    <3>1. \A p \in 1..LogLen : ~(p <= 0)
      OBVIOUS
    <3> QED
      BY <1>4, <3>1 DEF VisibleTo
  <2>2. \A s \in LogStreams : VisibleTo(s, Inserted(s))
    BY <1>3, <2>1
  <2> QED
    BY <2>2, OnceTo
<1>6. Log!Init
  BY <1>2, <1>3, <1>4 DEF Log!Init, Init
<1> QED
  BY <1>1, <1>5, <1>6

\* The invariant of the streams of a table that rejects no row.
LEMMA OnceAlways == ASSUME OneWriter, BadRows = {} PROVE Spec => []OnceInv
<1>1. Spec => [](LoopInv /\ Unique)
  BY LoopAlways, LoopUnique, PTL
<1>2. OnceInv /\ Unique' /\ [Next]_vars => NothingThrown' /\ VisibleOnce'
  BY OnceNext
<1>3. LoopInv /\ Unique /\ NothingThrown /\ VisibleOnce <=> OnceInv
  BY DEF OnceInv
<1> QED
  BY <1>1, <1>2, <1>3, OnceInit, PTL DEF Spec

\* Where clients keep one inserting call per table open and the table rejects
\* none of their rows, a reader of the table finds exactly the rows of a stream
\* that were flushed or inserted so far, each of them once and in their order,
\* whatever is resent, refused, flushed, committed and finalized in between.
THEOREM VisibleOnceAlways == ASSUME OneWriter, BadRows = {} PROVE Spec => []VisibleOnce
<1>1. OnceInv => VisibleOnce
  BY DEF OnceInv
<1> QED
  BY <1>1, OnceAlways, PTL

\* Under the same conditions the write streams implement StreamLog: every step
\* of the handlers, the statement cache and the clients is one step of an
\* append-only log that accepts, seals, shows and reports rows, or none of it.
THEOREM ImplementsAlways ==
  ASSUME OneWriter, BadRows = {} PROVE Spec => ImplementsStreamLog
<1>1. Spec => [](OnceInv /\ Unique)
  BY OnceAlways, LoopAlways, LoopUnique, PTL
<1>2. OnceInv /\ Unique' /\ [Next]_vars => [Log!Next]_(Log!logVars)
  BY OnceNext
<1> QED
  BY <1>1, <1>2, OnceInit, PTL DEF Spec, ImplementsStreamLog, Log!Spec
=============================================================================
