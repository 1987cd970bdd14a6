---------------------------- MODULE ScriptProofs ----------------------------
(***************************************************************************)
(* Theorems about Script for every value of its constants: any number of   *)
(* requests, any texts, any tables and procedures, and any parser.         *)
(***************************************************************************)
EXTENDS Script, SequenceTheorems, WellFoundedInduction, TLAPS

(***************************************************************************)
(* The inductive invariant.                                                *)
(***************************************************************************)

\* A row is nobody's but one of the owners'.
TableOK(rows, owners) ==
  /\ rows \in Seq(ToSet(rows))
  /\ \A k \in DOMAIN rows : DOMAIN rows[k] = {"v", "by"} /\ rows[k].by \in owners
TablesOK(tables, owners) == \A t \in DOMAIN tables : TableOK(tables[t], owners)

\* What is committed is nobody's; what is not belongs to who has the
\* transaction, and with none open there is nothing of the kind.
DbOK(d) ==
  /\ DOMAIN d = {"base", "work", "tx", "spoilt"}
  /\ d.tx \in Requests \cup {Nobody}
  /\ d.tx = Nobody => d.base = d.work /\ ~d.spoilt
  /\ DOMAIN d.base = DOMAIN d.work
  /\ TablesOK(d.base, {Nobody})
  /\ TablesOK(d.work, {Nobody, d.tx})

\* A scope whose FOR rows are among names.
ScopeOK(sc, names) ==
  /\ DOMAIN sc = {"vars", "rows"}
  /\ DOMAIN sc.rows \subseteq names
  /\ \A key \in DOMAIN sc.vars : sc.vars[key].type \in DuckTypes /\ sc.vars[key].value # Err

\* The script itself is the outermost frame and no other; the scope, and the
\* one each CALL keeps for its caller, has no rows but those of the FORs
\* around it in the same procedure.
Fields == {"of", "todo", "rows", "scope", "result"}
FramesOK(s, sc) ==
  /\ s \in Seq(ToSet(s))
  /\ \A k \in DOMAIN s :
       /\ DOMAIN s[k] = Fields
       /\ s[k].of.kind = "TOP" <=> k = 1
       /\ s[k].of.kind = "CALL" => ScopeOK(s[k].scope, BoundBy(s, k - 1))
  /\ ScopeOK(sc, BoundBy(s, Len(s)))

RequestOK(p, s, sc) ==
  /\ p \in {"none", "wait", "run", "rollback", "ok", "failed"}
  /\ p = "run" => s # <<>>
  /\ p \in {"none", "wait", "ok", "failed"} => s = <<>> /\ sc = NoScope
  /\ FramesOK(s, sc)

\* Who may have the transaction: a script while it runs or is about to roll
\* back, what ended well without ending its transaction, and a query of
\* several statements that failed.
MayHold(r) == pc[r] \in {"run", "rollback", "ok"} \/ (pc[r] = "failed" /\ Together(r))

ScriptInv ==
  /\ DOMAIN pc = Requests /\ DOMAIN stack = Requests /\ DOMAIN scope = Requests
  /\ \A r \in Requests : RequestOK(pc[r], stack[r], scope[r])
  /\ DbOK(db)
  /\ \A r \in Requests : db.tx = r => MayHold(r)

-----------------------------------------------------------------------------
(***************************************************************************)
(* Numbers.                                                                *)
(***************************************************************************)

\* A set of natural numbers has a least member.
LEMMA LeastNatural ==
  ASSUME NEW S \in SUBSET Nat, S # {}
  PROVE  \E m \in S : \A n \in S : m <= n
<1> DEFINE Less == {p \in Nat \X Nat : p[1] < p[2]}
<1>1. IsWellFoundedOn(Less, Nat)
  BY NatLessThanWellFounded DEF OpToRel
<1>2. PICK m \in S : \A n \in S : ~ (<<n, m>> \in Less)
  BY <1>1, WFMin
<1>3. \A n \in S : ~(n < m)
  BY <1>2
<1> QED
  BY <1>3

\* Min and Max of positions in a stack.
LEMMA MinOfPositions ==
  ASSUME NEW n \in Nat, NEW S \in SUBSET (1..n), S # {}
  PROVE  Min(S) \in S /\ \A k \in S : Min(S) <= k
<1>1. \E m \in S : \A k \in S : m <= k
  BY LeastNatural
<1> QED
  BY <1>1 DEF Min

LEMMA MaxOfPositions ==
  ASSUME NEW n \in Nat, NEW S \in SUBSET (1..n), S # {}
  PROVE  Max(S) \in S /\ \A k \in S : k <= Max(S)
<1> DEFINE U == {u \in Nat : \A k \in S : k <= u}
<1>1. n \in U
  OBVIOUS
<1>2. PICK u \in U : \A v \in U : u <= v
  BY <1>1, LeastNatural
<1>3. u \in S
  <2> SUFFICES ASSUME u \notin S
               PROVE  FALSE
    OBVIOUS
  <2>1. \A k \in S : k <= u - 1
    BY <1>2
  <2>2. u # 0
    <3>1. PICK k \in S : TRUE
      OBVIOUS
    <3>2. k <= u /\ k >= 1
      BY <1>2, <3>1
    <3> QED
      BY <3>2
  <2>3. u - 1 \in U
    BY <2>1, <2>2
  <2> QED
    BY <1>2, <2>3
<1>4. \E m \in S : \A k \in S : k <= m
  BY <1>2, <1>3
<1> QED
  BY <1>4 DEF Max

-----------------------------------------------------------------------------
(***************************************************************************)
(* Sequences.                                                              *)
(***************************************************************************)

\* A sequence of whatever it is a sequence of.
LEMMA ASequence ==
  ASSUME NEW s, s \in Seq(ToSet(s))
  PROVE  Len(s) \in Nat /\ DOMAIN s = 1..Len(s)
OBVIOUS

LEMMA ASequenceFunction ==
  ASSUME NEW n \in Nat, NEW f, f = [k \in 1..n |-> f[k]]
  PROVE  f \in Seq(ToSet(f)) /\ Len(f) = n
<1>1. f \in [1..n -> ToSet(f)]
  BY DEF ToSet
<1> HIDE DEF ToSet
<1> QED
  BY <1>1, SeqDef, LenProperties

LEMMA ASequenceAppend ==
  ASSUME NEW s, s \in Seq(ToSet(s)), NEW e
  PROVE  /\ Append(s, e) \in Seq(ToSet(Append(s, e)))
         /\ Len(Append(s, e)) = Len(s) + 1
         /\ DOMAIN Append(s, e) = 1..(Len(s) + 1)
         /\ \A k \in 1..Len(s) : Append(s, e)[k] = s[k]
         /\ Append(s, e)[Len(s) + 1] = e
<1> DEFINE t == Append(s, e)
<1>1. /\ t \in Seq(ToSet(s) \cup {e})
      /\ Len(t) = Len(s) + 1
      /\ \A k \in 1..Len(s) : t[k] = s[k]
      /\ t[Len(s) + 1] = e
  BY SMT DEF ToSet
<1>2. DOMAIN t = 1..Len(t)
  BY <1>1
<1> HIDE DEF t
<1>3. t \in Seq(ToSet(t))
  BY <1>1, <1>2 DEF ToSet
<1> QED
  BY <1>1, <1>2, <1>3 DEF t

LEMMA ASequenceUpTo ==
  ASSUME NEW s, s \in Seq(ToSet(s)), NEW at \in 1..Len(s)
  PROVE  /\ SubSeq(s, 1, at) \in Seq(ToSet(SubSeq(s, 1, at)))
         /\ Len(SubSeq(s, 1, at)) = at
         /\ \A k \in 1..at : SubSeq(s, 1, at)[k] = s[k]
<1> DEFINE t == SubSeq(s, 1, at)
<1>1. /\ t \in Seq(ToSet(s))
      /\ Len(t) = at
      /\ \A k \in 1..at : t[k] = s[k]
  OBVIOUS
<1>2. DOMAIN t = 1..at
  BY <1>1
<1> HIDE DEF t
<1>3. t \in Seq(ToSet(t))
  BY <1>1, <1>2 DEF ToSet
<1> QED
  BY <1>1, <1>2, <1>3 DEF t

\* One field of the last frame changed.
LEMMA ASequenceExcept ==
  ASSUME NEW s, s \in Seq(ToSet(s)), NEW i, NEW e
  PROVE  /\ [s EXCEPT ![i] = e] \in Seq(ToSet([s EXCEPT ![i] = e]))
         /\ Len([s EXCEPT ![i] = e]) = Len(s)
<1> DEFINE t == [s EXCEPT ![i] = e]
<1>1. t = [k \in 1..Len(s) |-> IF k = i THEN e ELSE s[k]]
  OBVIOUS
<1>2. t = [k \in 1..Len(s) |-> t[k]]
  BY <1>1
<1> HIDE DEF t
<1>3. Len(s) \in Nat
  OBVIOUS
<1>4. t \in Seq(ToSet(t)) /\ Len(t) = Len(s)
  BY <1>2, <1>3, ASequenceFunction
<1> QED
  BY <1>4 DEF t

-----------------------------------------------------------------------------
(***************************************************************************)
(* The database.                                                           *)
(***************************************************************************)

\* What a statement of r may make of the database now, and may give: rows
\* without an error in them.
Lawful(got, now, r) ==
  /\ DbOK(got.db)
  /\ got.db.tx \in {now.tx, r, Nobody}
  /\ got.rows \in Seq(ToSet(got.rows))
  /\ \A k \in DOMAIN got.rows : Err \notin ToSet(got.rows[k])

\* One statement that fails changes nothing.
Undone(got, now) == ~got.ok => got.db = now

LEMMA ErrorIsLawful ==
  ASSUME NEW now, DbOK(now), NEW r
  PROVE  Lawful(Error(now), now, r) /\ Undone(Error(now), now)
<1>1. <<>> \in Seq(ToSet(<<>>)) /\ DOMAIN <<>> = {}
  OBVIOUS
<1> QED
  BY <1>1 DEF Error, Lawful, Undone

LEMMA DoneIsLawful ==
  ASSUME NEW now, NEW r, NEW new, DbOK(new), new.tx \in {now.tx, r, Nobody}
  PROVE  Lawful(Done(new), now, r) /\ Undone(Done(new), now)
<1>1. <<>> \in Seq(ToSet(<<>>)) /\ DOMAIN <<>> = {}
  OBVIOUS
<1> QED
  BY <1>1 DEF Done, Gives, Lawful, Undone

LEMMA ShownIsLawful ==
  ASSUME NEW now, DbOK(now), NEW r, NEW items, NEW cells, cells \in Seq(ToSet(cells))
  PROVE  Lawful(Shown(items, cells, now), now, r) /\ Undone(Shown(items, cells, now), now)
<1>1. CASE items = <<>> \/ \E k \in DOMAIN cells : Err \in ToSet(cells[k])
  BY <1>1, ErrorIsLawful DEF Shown
<1>2. CASE ~(items = <<>> \/ \E k \in DOMAIN cells : Err \in ToSet(cells[k]))
  BY <1>2 DEF Shown, Gives, Lawful, Undone
<1> QED
  BY <1>1, <1>2

LEMMA SelectFromIsLawful ==
  ASSUME NEW now, DbOK(now), NEW r, NEW items, NEW source, NEW values,
         NEW n \in Nat, DOMAIN source = 1..n
  PROVE  LET got == SelectFrom(items, source, values, now) IN Lawful(got, now, r) /\ Undone(got, now)
<1> DEFINE cells == [k \in DOMAIN source |-> [j \in DOMAIN items |-> Eval(items[j].expr, values, source[k])]]
<1>1. cells = [k \in 1..n |-> cells[k]]
  OBVIOUS
<1>2. SelectFrom(items, source, values, now) = Shown(items, cells, now)
  BY DEF SelectFrom
<1> HIDE DEF cells
<1>3. cells \in Seq(ToSet(cells))
  BY <1>1, ASequenceFunction
<1> QED
  BY <1>2, <1>3, ShownIsLawful

LEMMA SelectIsLawful ==
  ASSUME NEW now, DbOK(now), NEW r, NEW sql, NEW values
  PROVE  LET got == Select(sql, values, now) IN Lawful(got, now, r) /\ Undone(got, now)
<1> DEFINE from == WordOutside(sql, 2, Len(sql) + 1, {"FROM"})
           table == TableAt(sql, from + 1).name
           items == Items(sql, from)
<1>1. Select(sql, values, now) \in {SelectFrom(items, OneRow, values, now), Error(now), Read(sql, from, table, values, now)}
  BY DEF Select
<1>2. Read(sql, from, table, values, now) \in {Error(now), SelectFrom(items, RowsOf(table, now), values, now)}
  BY DEF Read
<1>3. table \notin DOMAIN now.work => Read(sql, from, table, values, now) = Error(now)
  BY DEF Read
<1> HIDE DEF from, table, items
<1>4. CASE Select(sql, values, now) = Error(now)
  BY <1>4, ErrorIsLawful
<1>5. CASE Select(sql, values, now) = SelectFrom(items, OneRow, values, now)
  <2>1. DOMAIN OneRow = 1..1
    BY DEF OneRow
  <2> QED
    BY <1>5, <2>1, SelectFromIsLawful
<1>6. CASE /\ Select(sql, values, now) = SelectFrom(items, RowsOf(table, now), values, now)
           /\ table \in DOMAIN now.work
  <2>1. TableOK(now.work[table], {Nobody, now.tx})
    BY <1>6 DEF DbOK, TablesOK
  <2>2. now.work[table] \in Seq(ToSet(now.work[table]))
    BY <2>1 DEF TableOK
  <2>3. DOMAIN RowsOf(table, now) = 1..Len(now.work[table]) /\ Len(now.work[table]) \in Nat
    BY <2>2, ASequence DEF RowsOf
  <2> QED
    BY <1>6, <2>3, SelectFromIsLawful
<1> QED
  BY <1>1, <1>2, <1>3, <1>4, <1>5, <1>6

\* Tables whose rows are those of whoever writes.
LEMMA WrittenIsOK ==
  ASSUME NEW now, DbOK(now), NEW work, DOMAIN work = DOMAIN now.work, TablesOK(work, {Nobody, now.tx})
  PROVE  DbOK(Written(work, now)) /\ Written(work, now).tx = now.tx
<1>1. DOMAIN now = {"base", "work", "tx", "spoilt"}
  BY DEF DbOK
<1>2. CASE now.tx = Nobody
  <2> DEFINE new == [now EXCEPT !.work = work, !.base = work]
  <2>1. /\ DOMAIN new = DOMAIN now
        /\ new.work = work /\ new.base = work
        /\ new.tx = now.tx /\ new.spoilt = now.spoilt
    BY <1>1
  <2>2. TablesOK(work, {Nobody})
    BY <1>2
  <2>3. Written(work, now) = new
    BY <1>2 DEF Written
  <2> HIDE DEF new
  <2> QED
    BY <1>1, <2>1, <2>2, <2>3 DEF DbOK
<1>3. CASE now.tx # Nobody
  <2> DEFINE new == [now EXCEPT !.work = work]
  <2>1. /\ DOMAIN new = DOMAIN now
        /\ new.work = work /\ new.base = now.base
        /\ new.tx = now.tx /\ new.spoilt = now.spoilt
    BY <1>1
  <2>2. Written(work, now) = new
    BY <1>3 DEF Written
  <2> HIDE DEF new
  <2> QED
    BY <1>1, <1>3, <2>1, <2>2 DEF DbOK
<1> QED
  BY <1>2, <1>3

\* One table changed.
LEMMA OneTable ==
  ASSUME NEW now, DbOK(now), NEW t, NEW rows, TableOK(rows, {Nobody, now.tx}), NEW r
  PROVE  LET got == Done(Written([now.work EXCEPT ![t] = rows], now)) IN Lawful(got, now, r) /\ Undone(got, now)
<1> DEFINE work == [now.work EXCEPT ![t] = rows]
<1>1. DOMAIN work = DOMAIN now.work
  OBVIOUS
<1>2. \A u \in DOMAIN work : work[u] = IF u = t THEN rows ELSE now.work[u]
  OBVIOUS
<1> HIDE DEF work
<1>3. TablesOK(work, {Nobody, now.tx})
  BY <1>1, <1>2 DEF DbOK, TablesOK
<1>4. DbOK(Written(work, now)) /\ Written(work, now).tx = now.tx
  BY <1>1, <1>3, WrittenIsOK
<1>5. Lawful(Done(Written(work, now)), now, r) /\ Undone(Done(Written(work, now)), now)
  BY <1>4, DoneIsLawful
<1> QED
  BY <1>5 DEF work

LEMMA InsertIsLawful ==
  ASSUME NEW now, DbOK(now), NEW r, NEW sql, NEW values
  PROVE  LET got == Insert(sql, values, now, r) IN Lawful(got, now, r) /\ Undone(got, now)
<1> SUFFICES ASSUME NEW at, NEW columns, NEW value
             PROVE  LET got == InsertInto(at, columns, value, now, r) IN Lawful(got, now, r) /\ Undone(got, now)
  BY ErrorIsLawful DEF Insert
<1> DEFINE was  == now.work[at.name]
           row  == [v |-> value, by |-> IF now.tx = r THEN r ELSE Nobody]
           rows == Append(was, row)
<1>1. CASE at.name \notin DOMAIN now.work \/ value = Err \/ columns \notin {<<>>, <<"(", "v", ")">>}
  BY <1>1, ErrorIsLawful DEF InsertInto
<1>2. CASE ~(at.name \notin DOMAIN now.work \/ value = Err \/ columns \notin {<<>>, <<"(", "v", ")">>})
  <2>1. TableOK(was, {Nobody, now.tx})
    BY <1>2 DEF DbOK, TablesOK
  <2>2. DOMAIN row = {"v", "by"} /\ row.by \in {Nobody, now.tx}
    OBVIOUS
  <2>3. InsertInto(at, columns, value, now, r) = Done(Written([now.work EXCEPT ![at.name] = rows], now))
    BY <1>2 DEF InsertInto
  <2> HIDE DEF was, row
  <2>4. /\ rows \in Seq(ToSet(rows))
        /\ DOMAIN rows = 1..(Len(was) + 1)
        /\ \A k \in 1..Len(was) : rows[k] = was[k]
        /\ rows[Len(was) + 1] = row
        /\ DOMAIN was = 1..Len(was) /\ Len(was) \in Nat
    BY <2>1, ASequenceAppend, ASequence DEF TableOK
  <2> HIDE DEF rows
  <2>5. \A k \in DOMAIN rows : rows[k] = row \/ (k \in DOMAIN was /\ rows[k] = was[k])
    BY <2>4
  <2>6. TableOK(rows, {Nobody, now.tx})
    BY <2>1, <2>2, <2>4, <2>5 DEF TableOK
  <2> QED
    BY <2>3, <2>6, OneTable
<1> QED
  BY <1>1, <1>2

LEMMA UpdateIsLawful ==
  ASSUME NEW now, DbOK(now), NEW r, NEW sql, NEW values
  PROVE  LET got == Update(sql, values, now) IN Lawful(got, now, r) /\ Undone(got, now)
<1> DEFINE at   == TableAt(sql, 2)
           was  == now.work[at.name]
           expr == SubSeq(sql, at.next + 3, Len(sql))
           rows == Changed(was, expr, values)
<1>1. Update(sql, values, now) \in {Error(now), Overwrite(at.name, rows, now)}
  BY DEF Update, UpdateAt
<1>2. CASE at.name \notin DOMAIN now.work
  BY <1>2, ErrorIsLawful DEF Update, UpdateAt
<1>3. CASE at.name \in DOMAIN now.work
  <2>1. TableOK(was, {Nobody, now.tx})
    BY <1>3 DEF DbOK, TablesOK
  <2> HIDE DEF was, expr
  <2>2. DOMAIN was = 1..Len(was) /\ Len(was) \in Nat
    BY <2>1, ASequence DEF TableOK
  <2>3. DOMAIN rows = DOMAIN was /\ rows = [k \in DOMAIN was |-> rows[k]]
    BY DEF Changed
  <2>4. \A k \in DOMAIN was : DOMAIN rows[k] = DOMAIN was[k] /\ rows[k].by = was[k].by
    BY <2>1 DEF Changed, TableOK
  <2> HIDE DEF rows
  <2>5. rows \in Seq(ToSet(rows))
    BY <2>2, <2>3, ASequenceFunction
  <2>6. TableOK(rows, {Nobody, now.tx})
    BY <2>1, <2>3, <2>4, <2>5 DEF TableOK
  <2>7. Overwrite(at.name, rows, now) \in {Error(now), Done(Written([now.work EXCEPT ![at.name] = rows], now))}
    BY DEF Overwrite
  <2> HIDE DEF at
  <2> QED
    BY <1>1, <2>6, <2>7, OneTable, ErrorIsLawful
<1> QED
  BY <1>2, <1>3

LEMMA KeptIsOK ==
  ASSUME NEW tables, NEW owners, TablesOK(tables, owners)
  PROVE  TablesOK(Kept(tables), {Nobody}) /\ DOMAIN Kept(tables) = DOMAIN tables
<1>1. DOMAIN Kept(tables) = DOMAIN tables
  BY DEF Kept
<1>2. ASSUME NEW t \in DOMAIN tables
      PROVE  TableOK(Kept(tables)[t], {Nobody})
  <2> DEFINE was  == tables[t]
             rows == Kept(tables)[t]
  <2>1. TableOK(was, owners)
    BY DEF TablesOK
  <2>2. rows = [k \in DOMAIN was |-> [was[k] EXCEPT !.by = Nobody]]
    BY DEF Kept
  <2> HIDE DEF was, rows
  <2>3. DOMAIN was = 1..Len(was) /\ Len(was) \in Nat
    BY <2>1, ASequence DEF TableOK
  <2>4. rows = [k \in 1..Len(was) |-> rows[k]] /\ DOMAIN rows = DOMAIN was
    BY <2>2, <2>3
  <2>5. rows \in Seq(ToSet(rows))
    BY <2>3, <2>4, ASequenceFunction
  <2>6. \A k \in DOMAIN was : DOMAIN was[k] = {"v", "by"}
    BY <2>1 DEF TableOK
  <2>7. \A k \in DOMAIN was : DOMAIN rows[k] = DOMAIN was[k] /\ rows[k].by = Nobody
    BY <2>2, <2>6
  <2>8. TableOK(rows, {Nobody})
    BY <2>4, <2>5, <2>6, <2>7 DEF TableOK
  <2> QED
    BY <2>8 DEF rows
<1> QED
  BY <1>1, <1>2 DEF TablesOK

LEMMA BeginIsLawful ==
  ASSUME NEW now, DbOK(now), NEW r \in Requests
  PROVE  LET got == Begin(now, r) IN Lawful(got, now, r) /\ Undone(got, now)
<1>1. CASE now.tx # Nobody
  BY <1>1, ErrorIsLawful DEF Begin
<1>2. CASE now.tx = Nobody
  <2> DEFINE new == [now EXCEPT !.tx = r]
  <2>1. DOMAIN now = {"base", "work", "tx", "spoilt"}
    BY DEF DbOK
  <2>2. /\ DOMAIN new = DOMAIN now
        /\ new.work = now.work /\ new.base = now.base
        /\ new.tx = r /\ new.spoilt = now.spoilt
    BY <2>1
  <2>3. Begin(now, r) = Done(new)
    BY <1>2 DEF Begin
  <2> HIDE DEF new
  <2>4. TablesOK(new.work, {Nobody, new.tx})
    BY <1>2, <2>2 DEF DbOK, TablesOK, TableOK
  <2>5. r # Nobody
    BY NobodyAssumption
  <2>6. DbOK(new)
    BY <2>1, <2>2, <2>4, <2>5 DEF DbOK
  <2> QED
    BY <2>2, <2>3, <2>6, DoneIsLawful
<1> QED
  BY <1>1, <1>2

\* The transaction over, with one and the same tables in and out of it.
LEMMA OverIsLawful ==
  ASSUME NEW now, NEW r, NEW tables, TablesOK(tables, {Nobody})
  PROVE  LET got == Done([base |-> tables, work |-> tables, tx |-> Nobody, spoilt |-> FALSE])
         IN  Lawful(got, now, r) /\ Undone(got, now)
<1> DEFINE new == [base |-> tables, work |-> tables, tx |-> Nobody, spoilt |-> FALSE]
<1>1. /\ DOMAIN new = {"base", "work", "tx", "spoilt"}
      /\ new.base = tables /\ new.work = tables /\ new.tx = Nobody /\ new.spoilt = FALSE
  OBVIOUS
<1> HIDE DEF new
<1>2. TablesOK(new.work, {Nobody, new.tx})
  BY <1>1 DEF TablesOK, TableOK
<1>3. DbOK(new)
  BY <1>1, <1>2 DEF DbOK
<1>4. Lawful(Done(new), now, r) /\ Undone(Done(new), now)
  BY <1>1, <1>3, DoneIsLawful
<1> QED
  BY <1>4 DEF new

LEMMA CommitIsLawful ==
  ASSUME NEW now, DbOK(now), NEW r
  PROVE  LET got == Commit(now) IN Lawful(got, now, r) /\ Undone(got, now)
<1>1. CASE now.tx = Nobody
  BY <1>1, ErrorIsLawful DEF Commit
<1>2. CASE now.tx # Nobody
  <2>1. TablesOK(Kept(now.work), {Nobody})
    BY KeptIsOK DEF DbOK
  <2> QED
    BY <1>2, <2>1, OverIsLawful DEF Commit
<1> QED
  BY <1>1, <1>2

LEMMA RollbackIsLawful ==
  ASSUME NEW now, DbOK(now), NEW r
  PROVE  LET got == Rollback(now) IN Lawful(got, now, r) /\ Undone(got, now)
<1>1. CASE now.tx = Nobody
  BY <1>1, ErrorIsLawful DEF Rollback
<1>2. CASE now.tx # Nobody
  <2>1. TablesOK(now.base, {Nobody})
    BY DEF DbOK
  <2> QED
    BY <1>2, <2>1, OverIsLawful DEF Rollback
<1> QED
  BY <1>1, <1>2

\* A statement of r leaves the transaction with who has it, begins one for r
\* or ends the one there is; when it fails it changes nothing.
LEMMA ExecuteIsLawful ==
  ASSUME NEW now, DbOK(now), NEW r \in Requests, NEW sql, NEW values
  PROVE  LET got == Execute(sql, values, now, r) IN Lawful(got, now, r) /\ Undone(got, now)
<1>1. Execute(sql, values, now, r) \in
        {Rollback(now), Error(now), Select(sql, values, now), Insert(sql, values, now, r),
         Update(sql, values, now), Commit(now), Begin(now, r)}
  BY DEF Execute
<1> QED
  BY <1>1, RollbackIsLawful, ErrorIsLawful, SelectIsLawful, InsertIsLawful, UpdateIsLawful, CommitIsLawful,
     BeginIsLawful

\* Statements in a row: what each gives, from none to n of them.
AreResults(f, n, parts, values, now, r) ==
  f = [k \in 0..n |->
         IF k = 0 THEN Done(now)
         ELSE IF f[k - 1].ok THEN Execute(parts[k], values, f[k - 1].db, r) ELSE f[k - 1]]

LEMMA ResultsExist ==
  ASSUME NEW parts, NEW values, NEW now, NEW r, NEW n \in Nat
  PROVE  \E f : AreResults(f, n, parts, values, now, r)
<1> DEFINE Next_(k, got) == IF got.ok THEN Execute(parts[k], values, got.db, r) ELSE got
           Is(f, m) == f = [k \in 0..m |-> IF k = 0 THEN Done(now) ELSE Next_(k, f[k - 1])]
           Without_ == {m \in Nat : ~\E f : Is(f, m)}
<1> HIDE DEF Next_
<1> SUFFICES ASSUME Without_ # {}
             PROVE  FALSE
  <2>1. \E f : Is(f, n)
    OBVIOUS
  <2> QED
    BY <2>1 DEF Next_, AreResults
<1>1. PICK m \in Without_ : \A k \in Without_ : m <= k
  BY LeastNatural
<1>2. m # 0
  <2>1. Is([k \in 0..0 |-> Done(now)], 0)
    OBVIOUS
  <2> QED
    BY <1>1, <2>1
<1>3. PICK f : Is(f, m - 1)
  <2>1. m - 1 \in Nat /\ ~(m <= m - 1)
    BY <1>1, <1>2
  <2>2. m - 1 \notin Without_
    BY <1>1, <2>1
  <2> QED
    BY <2>1, <2>2
<1> DEFINE g == [k \in 0..m |-> IF k = m THEN Next_(m, f[m - 1]) ELSE f[k]]
<1>4. \A k \in 0..m : g[k] = IF k = 0 THEN Done(now) ELSE Next_(k, g[k - 1])
  <2> SUFFICES ASSUME NEW k \in 0..m
               PROVE  g[k] = IF k = 0 THEN Done(now) ELSE Next_(k, g[k - 1])
    OBVIOUS
  <2>1. m \in Nat
    BY <1>1
  <2>2. CASE k = 0
    BY <1>2, <1>3, <2>1, <2>2
  <2>3. CASE k # 0
    <3>1. k - 1 \in 0..(m - 1) /\ g[k - 1] = f[k - 1]
      BY <2>1, <2>3
    <3>2. CASE k = m
      BY <2>3, <3>1, <3>2
    <3>3. CASE k # m
      <4>1. k \in 0..(m - 1) /\ g[k] = f[k]
        BY <2>1, <3>3
      <4> QED
        BY <1>3, <2>3, <3>1, <4>1
    <3> QED
      BY <3>2, <3>3
  <2> QED
    BY <2>2, <2>3
<1>5. Is(g, m)
  <2> DEFINE h == [k \in 0..m |-> IF k = 0 THEN Done(now) ELSE Next_(k, g[k - 1])]
  <2>1. \A k \in 0..m : g[k] = h[k]
    BY <1>4
  <2> QED
    BY <2>1
<1> QED
  BY <1>1, <1>5

\* A text of several statements is as lawful as one; of a single statement,
\* or none, the one that fails changes nothing.
LEMMA ExecuteEachIsLawful ==
  ASSUME NEW now, DbOK(now), NEW r \in Requests, NEW parts, NEW values
  PROVE  LET got == ExecuteEach(parts, values, now, r)
         IN  /\ Lawful(got, now, r)
             /\ Len(parts) \in {0, 1} => Undone(got, now)
<1> DEFINE n == Len(parts)
           after == CHOOSE f : AreResults(f, n, parts, values, now, r)
           got == ExecuteEach(parts, values, now, r)
<1>1. got = IF n \in Nat \ {0} THEN after[n] ELSE Error(now)
  BY DEF ExecuteEach, AreResults
<1>2. CASE n \notin Nat \ {0}
  <2>1. got = Error(now)
    BY <1>1, <1>2
  <2> QED
    BY <2>1, ErrorIsLawful
<1>3. CASE n \in Nat \ {0}
  <2>1. \E f : AreResults(f, n, parts, values, now, r)
    BY <1>3, ResultsExist
  <2>2. AreResults(after, n, parts, values, now, r)
    BY <2>1
  <2> HIDE DEF after
  <2>3. after[0] = Done(now)
    BY <1>3, <2>2 DEF AreResults
  <2>4. \A k \in 1..n : after[k] = IF after[k - 1].ok THEN Execute(parts[k], values, after[k - 1].db, r) ELSE after[k - 1]
    <3> SUFFICES ASSUME NEW k \in 1..n
                 PROVE  after[k] = IF after[k - 1].ok THEN Execute(parts[k], values, after[k - 1].db, r) ELSE after[k - 1]
      OBVIOUS
    <3>1. k \in 0..n /\ k # 0
      BY <1>3
    <3> QED
      BY <2>2, <3>1 DEF AreResults
  <2> HIDE DEF n
  <2>5. \A k \in 0..n : Lawful(after[k], now, r)
    <3> DEFINE S == {k \in 0..n : ~Lawful(after[k], now, r)}
    <3> SUFFICES ASSUME S # {}
                 PROVE  FALSE
      OBVIOUS
    <3>1. S \in SUBSET Nat
      BY <1>3
    <3>2. PICK k \in S : \A j \in S : k <= j
      BY <3>1, LeastNatural
    <3>3. Lawful(after[0], now, r)
      BY <2>3, DoneIsLawful
    <3>4. k \in 1..n /\ k - 1 \in 0..n /\ ~(k <= k - 1)
      BY <1>3, <3>1, <3>2, <3>3
    <3> DEFINE was == after[k - 1]
               one == Execute(parts[k], values, was.db, r)
    <3>5. Lawful(was, now, r)
      BY <3>2, <3>4
    <3>6. after[k] \in {one, was}
      BY <2>4, <3>4
    <3>7. after[k] = one
      BY <3>2, <3>5, <3>6
    <3> HIDE DEF was
    <3>8. DbOK(was.db) /\ was.db.tx \in {now.tx, r, Nobody}
      BY <3>5 DEF Lawful
    <3>9. Lawful(one, was.db, r)
      BY <3>8, ExecuteIsLawful
    <3>10. Lawful(one, now, r)
      BY <3>8, <3>9 DEF Lawful
    <3> QED
      BY <3>2, <3>7, <3>10
  <2>6. ASSUME n \in {0, 1}
        PROVE  Undone(after[n], now)
    <3>1. n = 1 /\ 1 \in 1..n
      BY <1>3, <2>6
    <3>2. after[0].ok /\ after[0].db = now
      BY <2>3 DEF Done, Gives
    <3>3. after[1] = Execute(parts[1], values, now, r)
      BY <2>4, <3>1, <3>2
    <3> QED
      BY <3>1, <3>3, ExecuteIsLawful
  <2>7. got = after[n] /\ n \in 0..n
    BY <1>1, <1>3
  <2> HIDE DEF got
  <2>8. Lawful(got, now, r) /\ (n \in {0, 1} => Undone(got, now))
    BY <2>5, <2>6, <2>7
  <2> QED
    BY <2>8 DEF got, n
<1> QED
  BY <1>2, <1>3

LEMMA ExecuteAllIsLawful ==
  ASSUME NEW now, DbOK(now), NEW r \in Requests, NEW sql, NEW values
  PROVE  LET got == ExecuteAll(sql, values, now, r)
         IN  /\ Lawful(got, now, r)
             /\ Len(StatementsOf(sql)) \in {0, 1} => Undone(got, now)
BY ExecuteEachIsLawful DEF ExecuteAll

\* A refusal may spoil a transaction, and does nothing else.
LEMMA ShakenIsOK ==
  ASSUME NEW now, DbOK(now), NEW new \in Shaken(now)
  PROVE  DbOK(new) /\ new.tx = now.tx
<1>1. CASE new = now
  BY <1>1
<1>2. CASE new = [now EXCEPT !.spoilt = TRUE] /\ now.tx # Nobody
  <2>1. DOMAIN now = {"base", "work", "tx", "spoilt"}
    BY DEF DbOK
  <2>2. /\ DOMAIN new = DOMAIN now
        /\ new.work = now.work /\ new.base = now.base /\ new.tx = now.tx
    BY <1>2, <2>1
  <2> QED
    BY <1>2, <2>1, <2>2 DEF DbOK
<1> QED
  BY <1>1, <1>2 DEF Shaken

-----------------------------------------------------------------------------
(***************************************************************************)
(* Scopes and frames.                                                      *)
(***************************************************************************)

\* Only the statements the first n frames are the bodies of matter.
LEMMA BoundBySame ==
  ASSUME NEW s, NEW t, NEW n \in Int, \A k \in 1..n : s[k].of = t[k].of
  PROVE  BoundBy(s, n) = BoundBy(t, n)
<1> DEFINE In(f) == {j \in 1..n : f[j].of.kind = "FOR" /\ \A i \in (j + 1)..n : f[i].of.kind # "CALL"}
<1>1. \A j \in 1..n : \A i \in (j + 1)..n : i \in 1..n
  OBVIOUS
<1>2. In(s) = In(t)
  BY <1>1
<1>3. \A k \in In(s) : Key(s[k].of.name) = Key(t[k].of.name)
  OBVIOUS
<1>4. BoundBy(s, n) = {Key(s[k].of.name) : k \in In(s)} /\ BoundBy(t, n) = {Key(t[k].of.name) : k \in In(t)}
  BY DEF BoundBy
<1> HIDE DEF In
<1> QED
  BY <1>2, <1>3, <1>4

\* A name is bound by a FOR with no CALL after it.
LEMMA BoundByMember ==
  ASSUME NEW s, NEW n \in Nat, NEW x
  PROVE  x \in BoundBy(s, n) <=>
           \E j \in 1..n : /\ s[j].of.kind = "FOR"
                           /\ \A i \in (j + 1)..n : s[i].of.kind # "CALL"
                           /\ x = Key(s[j].of.name)
BY DEF BoundBy

\* One frame more, which is of no CALL.
LEMMA BoundByMore ==
  ASSUME NEW s, NEW n \in Nat, s[n + 1].of.kind # "CALL"
  PROVE  /\ BoundBy(s, n) \subseteq BoundBy(s, n + 1)
         /\ s[n + 1].of.kind = "FOR" => Key(s[n + 1].of.name) \in BoundBy(s, n + 1)
<1>1. \A j \in 1..n : j \in 1..(n + 1)
  OBVIOUS
<1>2. \A j \in 1..n : \A i \in (j + 1)..(n + 1) : i \in (j + 1)..n \/ i = n + 1
  OBVIOUS
<1>3. ASSUME NEW x \in BoundBy(s, n)
      PROVE  x \in BoundBy(s, n + 1)
  <2>1. PICK j \in 1..n : /\ s[j].of.kind = "FOR"
                          /\ \A i \in (j + 1)..n : s[i].of.kind # "CALL"
                          /\ x = Key(s[j].of.name)
    BY BoundByMember
  <2>2. \A i \in (j + 1)..(n + 1) : s[i].of.kind # "CALL"
    BY <1>2, <2>1
  <2>3. n + 1 \in Nat /\ j \in 1..(n + 1)
    OBVIOUS
  <2> QED
    BY <2>1, <2>2, <2>3, BoundByMember
<1>4. n + 1 \in Nat /\ n + 1 \in 1..(n + 1) /\ (n + 2)..(n + 1) = {} /\ n + 1 + 1 = n + 2
  OBVIOUS
<1>5. s[n + 1].of.kind = "FOR" => Key(s[n + 1].of.name) \in BoundBy(s, n + 1)
  <2>1. \A i \in (n + 1 + 1)..(n + 1) : s[i].of.kind # "CALL"
    BY <1>4
  <2> QED
    BY <1>4, <2>1, BoundByMember
<1> QED
  BY <1>3, <1>5

LEMMA ScopeMore ==
  ASSUME NEW sc, NEW names, NEW more, ScopeOK(sc, names), names \subseteq more
  PROVE  ScopeOK(sc, more)
BY DEF ScopeOK

LEMMA NoScopeIsOK ==
  ASSUME NEW names
  PROVE  ScopeOK(NoScope, names)
<1>1. DOMAIN <<>> = {}
  OBVIOUS
<1>2. DOMAIN NoScope = {"vars", "rows"} /\ NoScope.vars = <<>> /\ NoScope.rows = <<>>
  BY DEF NoScope
<1> QED
  BY <1>1, <1>2 DEF ScopeOK

\* A FOR row bound, and others unbound.
LEMMA BindIsOK ==
  ASSUME NEW sc, NEW names, ScopeOK(sc, names), NEW name, Key(name) \in names, NEW row
  PROVE  ScopeOK(Bind(sc, name, row), names)
<1> DEFINE new == Bind(sc, name, row)
           rows == With(sc.rows, Key(name), row)
<1>1. DOMAIN rows = DOMAIN sc.rows \cup {Key(name)}
  BY DEF With
<1>2. new = [sc EXCEPT !.rows = rows]
  BY DEF Bind
<1> HIDE DEF rows
<1>3. DOMAIN new = {"vars", "rows"} /\ new.rows = rows /\ new.vars = sc.vars
  BY <1>2 DEF ScopeOK
<1> HIDE DEF new
<1>4. ScopeOK(new, names)
  BY <1>1, <1>3 DEF ScopeOK
<1> QED
  BY <1>4 DEF new

LEMMA UnbindIsOK ==
  ASSUME NEW sc, NEW names, ScopeOK(sc, names), NEW keys
  PROVE  ScopeOK(Unbind(sc, keys), names \ keys)
<1>1. /\ DOMAIN Unbind(sc, keys) = {"vars", "rows"}
      /\ DOMAIN Unbind(sc, keys).rows = DOMAIN sc.rows \ keys
      /\ Unbind(sc, keys).vars = sc.vars
  BY DEF Unbind, ScopeOK
<1> QED
  BY <1>1 DEF ScopeOK

\* The same frames as far as their statements and the scopes of callers go.
LEMMA SameFrames ==
  ASSUME NEW s, NEW sc, FramesOK(s, sc), NEW t, t \in Seq(ToSet(t)), Len(t) = Len(s),
         \A k \in 1..Len(s) : DOMAIN t[k] = Fields /\ t[k].of = s[k].of /\ t[k].scope = s[k].scope
  PROVE  FramesOK(t, sc) /\ \A k \in 0..Len(s) : BoundBy(t, k) = BoundBy(s, k)
<1>1. DOMAIN s = 1..Len(s) /\ DOMAIN t = 1..Len(s) /\ Len(s) \in Nat
  BY ASequence DEF FramesOK
<1>2. \A k \in 0..Len(s) : BoundBy(t, k) = BoundBy(s, k)
  <2> SUFFICES ASSUME NEW k \in 0..Len(s)
               PROVE  BoundBy(t, k) = BoundBy(s, k)
    OBVIOUS
  <2>1. k \in Int /\ \A j \in 1..k : j \in 1..Len(s)
    BY <1>1
  <2> QED
    BY <2>1, BoundBySame
<1>3. \A k \in 1..Len(s) : k - 1 \in 0..Len(s)
  BY <1>1
<1>4. ASSUME NEW k \in DOMAIN t
      PROVE  /\ DOMAIN t[k] = Fields
             /\ t[k].of.kind = "TOP" <=> k = 1
             /\ t[k].of.kind = "CALL" => ScopeOK(t[k].scope, BoundBy(t, k - 1))
  <2>1. k \in 1..Len(s) /\ k \in DOMAIN s
    BY <1>1
  <2>2. /\ s[k].of.kind = "TOP" <=> k = 1
        /\ s[k].of.kind = "CALL" => ScopeOK(s[k].scope, BoundBy(s, k - 1))
    BY <2>1 DEF FramesOK
  <2>3. BoundBy(t, k - 1) = BoundBy(s, k - 1)
    BY <1>2, <1>3, <2>1
  <2> QED
    BY <2>1, <2>2, <2>3
<1>5. ScopeOK(sc, BoundBy(t, Len(t)))
  <2>1. Len(s) \in 0..Len(s)
    BY <1>1
  <2> QED
    BY <1>2, <2>1 DEF FramesOK
<1> QED
  BY <1>2, <1>4, <1>5 DEF FramesOK

\* One frame more.
LEMMA Pushed ==
  ASSUME NEW s, NEW sc, FramesOK(s, sc), s # <<>>,
         NEW f, DOMAIN f = Fields, f.of.kind # "TOP",
         f.of.kind = "CALL" => ScopeOK(f.scope, BoundBy(s, Len(s))),
         NEW new,
         f.of.kind = "CALL" => ScopeOK(new, {}),
         f.of.kind # "CALL" => ScopeOK(new, BoundBy(s, Len(s)) \cup (IF f.of.kind = "FOR" THEN {Key(f.of.name)} ELSE {}))
  PROVE  FramesOK(Append(s, f), new) /\ Append(s, f) # <<>>
<1> DEFINE t == Append(s, f)
           n == Len(s)
<1>1. s \in Seq(ToSet(s))
  BY DEF FramesOK
<1>2. n \in Nat /\ DOMAIN s = 1..n /\ n # 0
  BY <1>1, ASequence
<1>3. /\ t \in Seq(ToSet(t)) /\ Len(t) = n + 1 /\ DOMAIN t = 1..(n + 1)
      /\ \A k \in 1..n : t[k] = s[k]
      /\ t[n + 1] = f
  BY <1>1, ASequenceAppend
<1>4. t # <<>>
  OBVIOUS
<1> HIDE DEF t, n
<1>5. \A k \in 0..n : BoundBy(t, k) = BoundBy(s, k)
  <2> SUFFICES ASSUME NEW k \in 0..n
               PROVE  BoundBy(t, k) = BoundBy(s, k)
    OBVIOUS
  <2>1. k \in Int /\ \A j \in 1..k : j \in 1..n
    BY <1>2
  <2> QED
    BY <1>3, <2>1, BoundBySame
<1>6. n \in 0..n /\ BoundBy(t, n) = BoundBy(s, n)
  BY <1>2, <1>5
<1>7. ASSUME NEW k \in DOMAIN t
      PROVE  /\ DOMAIN t[k] = Fields
             /\ t[k].of.kind = "TOP" <=> k = 1
             /\ t[k].of.kind = "CALL" => ScopeOK(t[k].scope, BoundBy(t, k - 1))
  <2>1. CASE k \in 1..n
    <3>1. k \in DOMAIN s /\ t[k] = s[k]
      BY <1>2, <1>3, <2>1
    <3>2. k - 1 \in 0..n
      BY <1>2, <2>1
    <3>3. BoundBy(t, k - 1) = BoundBy(s, k - 1)
      BY <1>5, <3>2
    <3> QED
      BY <3>1, <3>3 DEF FramesOK
  <2>2. CASE k = n + 1
    <3>1. k - 1 = n /\ k # 1
      BY <1>2, <2>2
    <3>2. t[k] = f
      BY <1>3, <2>2
    <3>3. BoundBy(t, k - 1) = BoundBy(s, Len(s))
      BY <1>6, <3>1 DEF n
    <3> QED
      BY <3>1, <3>2, <3>3
  <2>3. k \in 1..n \/ k = n + 1
    BY <1>2, <1>3
  <2> QED
    BY <2>1, <2>2, <2>3
<1>8. ScopeOK(new, BoundBy(t, n + 1))
  <2>1. CASE f.of.kind = "CALL"
    BY <2>1, ScopeMore
  <2>2. CASE f.of.kind # "CALL"
    <3>1. /\ BoundBy(t, n) \subseteq BoundBy(t, n + 1)
          /\ f.of.kind = "FOR" => Key(f.of.name) \in BoundBy(t, n + 1)
      BY <1>2, <1>3, <2>2, BoundByMore
    <3> DEFINE names == BoundBy(s, n) \cup (IF f.of.kind = "FOR" THEN {Key(f.of.name)} ELSE {})
    <3>2. names \subseteq BoundBy(t, n + 1)
      BY <1>6, <3>1
    <3>3. ScopeOK(new, names)
      BY <2>2 DEF n
    <3> HIDE DEF names
    <3> QED
      BY <3>2, <3>3, ScopeMore
  <2> QED
    BY <2>1, <2>2
<1>9. FramesOK(t, new)
  BY <1>3, <1>7, <1>8 DEF FramesOK
<1> QED
  BY <1>4, <1>9 DEF t

\* Frames left, down to frame at: the rows of the FORs among them are
\* unbound, and of a CALL among them the caller has its scope again.
LEMMA LeaveToIsOK ==
  ASSUME NEW st, FramesOK(st.stack, st.scope), NEW at \in 1..Len(st.stack)
  PROVE  LET out == LeaveTo(st, at)
         IN  /\ FramesOK(out.stack, out.scope)
             /\ Len(out.stack) = at
             /\ out.stack # <<>>
             /\ \A k \in 1..at : out.stack[k] = st.stack[k]
<1> DEFINE s     == st.stack
           n     == Len(s)
           t     == SubSeq(s, 1, at)
           calls == Above(st, at, "CALL")
           fors  == {k \in Above(st, at, "FOR") : \A c \in calls : k < c}
           home  == IF calls = {} THEN st ELSE s[Min(calls)]
           top   == IF calls = {} THEN n ELSE Min(calls) - 1
           keys  == RowNames(st, fors)
           new   == Unbind(home.scope, keys)
<1>1. s \in Seq(ToSet(s)) /\ n \in Nat /\ DOMAIN s = 1..n
  BY ASequence DEF FramesOK
<1>2. t \in Seq(ToSet(t)) /\ Len(t) = at /\ \A k \in 1..at : t[k] = s[k]
  BY <1>1, ASequenceUpTo
<1>3. t # <<>>
  BY <1>2
<1>4. LeaveTo(st, at).stack = t /\ LeaveTo(st, at).scope = new
  BY DEF LeaveTo
<1>5. calls = {k \in (at + 1)..n : s[k].of.kind = "CALL"} /\ calls \in SUBSET (1..n)
  BY <1>1 DEF Above
<1>6. fors = {k \in (at + 1)..n : s[k].of.kind = "FOR" /\ \A c \in calls : k < c}
  BY DEF Above
<1>7. keys = {Key(s[k].of.name) : k \in fors}
  BY DEF RowNames
<1> HIDE DEF s, n, t, calls, fors, keys
\* The scope that stays is one for the frames up to top.
<1>8. /\ top \in at..n
      /\ ScopeOK(home.scope, BoundBy(s, top))
      /\ \A k \in (at + 1)..top : k \notin calls
      /\ \A k \in (at + 1)..top : \A c \in calls : k < c
  <2>1. CASE calls = {}
    <3>1. ScopeOK(st.scope, BoundBy(s, n))
      BY DEF FramesOK, s, n
    <3>2. n \in at..n
      BY <1>1 DEF s, n
    <3> QED
      BY <2>1, <3>1, <3>2
  <2>2. CASE calls # {}
    <3> DEFINE c == Min(calls)
    <3>1. c \in calls /\ \A k \in calls : c <= k
      BY <1>1, <1>5, <2>2, MinOfPositions
    <3> HIDE DEF c
    <3>2. c \in (at + 1)..n /\ s[c].of.kind = "CALL" /\ c \in DOMAIN s
      BY <1>1, <1>5, <3>1
    <3>3. ScopeOK(s[c].scope, BoundBy(s, c - 1))
      BY <3>2 DEF FramesOK, s
    <3>4. c - 1 \in at..n
      BY <1>1, <3>2
    <3>5. \A k \in (at + 1)..(c - 1) : \A d \in calls : k < d
      BY <1>1, <1>5, <3>1, <3>2
    <3>6. \A k \in (at + 1)..(c - 1) : k \notin calls
      BY <3>5
    <3>7. top = c - 1 /\ home = s[c]
      BY <2>2 DEF c
    <3> HIDE DEF top, home
    <3> QED
      BY <3>3, <3>4, <3>5, <3>6, <3>7
  <2> QED
    BY <2>1, <2>2
<1> HIDE DEF top, home
<1>9. at \in Nat /\ top \in Nat
  BY <1>1, <1>8
<1>10. BoundBy(s, top) \ keys \subseteq BoundBy(s, at)
  <2> SUFFICES ASSUME NEW x \in BoundBy(s, top), x \notin keys
               PROVE  x \in BoundBy(s, at)
    OBVIOUS
  <2>1. PICK j \in 1..top : /\ s[j].of.kind = "FOR"
                            /\ \A i \in (j + 1)..top : s[i].of.kind # "CALL"
                            /\ x = Key(s[j].of.name)
    BY <1>9, BoundByMember
  <2>2. j \notin fors
    BY <1>7, <2>1
  <2>3. ~(j \in (at + 1)..top)
    <3>1. j \in (at + 1)..top => j \in (at + 1)..n
      BY <1>1, <1>8
    <3> QED
      BY <1>6, <1>8, <2>1, <2>2, <3>1
  <2>4. j \in 1..at
    BY <1>8, <1>9, <2>1, <2>3
  <2>5. \A i \in (j + 1)..at : i \in (j + 1)..top
    BY <1>1, <1>8, <1>9
  <2> QED
    BY <1>9, <2>1, <2>4, <2>5, BoundByMember
<1>11. \A k \in 0..at : BoundBy(t, k) = BoundBy(s, k)
  <2> SUFFICES ASSUME NEW k \in 0..at
               PROVE  BoundBy(t, k) = BoundBy(s, k)
    OBVIOUS
  <2>1. k \in Int /\ \A j \in 1..k : j \in 1..at
    BY <1>9
  <2> QED
    BY <1>2, <2>1, BoundBySame
<1>12. ScopeOK(new, BoundBy(t, at))
  <2>1. ScopeOK(new, BoundBy(s, top) \ keys)
    BY <1>8, UnbindIsOK
  <2>2. at \in 0..at
    BY <1>9
  <2>3. BoundBy(s, top) \ keys \subseteq BoundBy(t, at)
    BY <1>10, <1>11, <2>2
  <2> HIDE DEF new
  <2> QED
    BY <2>1, <2>3, ScopeMore
<1>13. ASSUME NEW k \in DOMAIN t
       PROVE  /\ DOMAIN t[k] = Fields
              /\ t[k].of.kind = "TOP" <=> k = 1
              /\ t[k].of.kind = "CALL" => ScopeOK(t[k].scope, BoundBy(t, k - 1))
  <2>1. k \in 1..at
    BY <1>2
  <2>2. k \in DOMAIN s /\ t[k] = s[k]
    BY <1>1, <1>2, <2>1 DEF s, n
  <2>3. /\ DOMAIN s[k] = Fields
        /\ s[k].of.kind = "TOP" <=> k = 1
        /\ s[k].of.kind = "CALL" => ScopeOK(s[k].scope, BoundBy(s, k - 1))
    BY <2>2 DEF FramesOK, s
  <2>4. k - 1 \in 0..at
    BY <1>9, <2>1
  <2> QED
    BY <1>11, <2>2, <2>3, <2>4
<1>14. FramesOK(t, new)
  BY <1>2, <1>12, <1>13 DEF FramesOK
<1> QED
  BY <1>2, <1>3, <1>4, <1>14 DEF s

-----------------------------------------------------------------------------
(***************************************************************************)
(* Steps.  A step of r leaves the other requests alone.                    *)
(***************************************************************************)

Others(f, g, r) == DOMAIN g = DOMAIN f /\ \A q \in DOMAIN f : q # r => g[q] = f[q]

LEMMA OthersExcept ==
  ASSUME NEW f, NEW r, NEW x
  PROVE  /\ Others(f, [f EXCEPT ![r] = x], r)
         /\ r \in DOMAIN f => [f EXCEPT ![r] = x][r] = x
BY DEF Others

LEMMA OthersSame ==
  ASSUME NEW f, NEW r
  PROVE  Others(f, f, r)
BY DEF Others

LEMMA StepKeeps ==
  ASSUME ScriptInv, NEW r \in Requests, asked' = asked,
         Others(pc, pc', r), Others(stack, stack', r), Others(scope, scope', r),
         RequestOK(pc'[r], stack'[r], scope'[r]),
         DbOK(db'), db'.tx \in {db.tx, r, Nobody},
         db'.tx = r => pc'[r] \in {"run", "rollback", "ok"} \/ (pc'[r] = "failed" /\ Together(r))
  PROVE  ScriptInv'
<1>1. DOMAIN pc' = Requests /\ DOMAIN stack' = Requests /\ DOMAIN scope' = Requests
  BY DEF ScriptInv, Others
<1>2. ASSUME NEW q \in Requests
      PROVE  RequestOK(pc'[q], stack'[q], scope'[q])
  <2>1. CASE q = r
    BY <2>1
  <2>2. CASE q # r
    BY <2>2 DEF ScriptInv, Others
  <2> QED
    BY <2>1, <2>2
<1>3. ASSUME NEW q \in Requests, db'.tx = q
      PROVE  MayHold(q)'
  <2>1. Together(q)' = Together(q)
    BY DEF Together, TextOf
  <2>2. CASE q = r
    BY <1>3, <2>1, <2>2 DEF MayHold
  <2>3. CASE q # r
    <3>1. db.tx = q
      BY <1>3, <2>3, NobodyAssumption
    <3>2. MayHold(q) /\ pc'[q] = pc[q]
      BY <2>3, <3>1 DEF ScriptInv, Others
    <3> QED
      BY <2>1, <3>2 DEF MayHold
  <2> QED
    BY <2>2, <2>3
<1> QED
  BY <1>1, <1>2, <1>3 DEF ScriptInv

\* A running script has its frames.
LEMMA Running ==
  ASSUME ScriptInv, NEW r \in Requests
  PROVE  /\ r \in DOMAIN pc /\ r \in DOMAIN stack /\ r \in DOMAIN scope
         /\ FramesOK(stack[r], scope[r])
         /\ ScopeOK(scope[r], BoundBy(stack[r], Len(stack[r])))
         /\ stack[r] \in Seq(ToSet(stack[r]))
         /\ Len(stack[r]) \in Nat /\ DOMAIN stack[r] = 1..Len(stack[r])
         /\ \A k \in 1..Len(stack[r]) : DOMAIN stack[r][k] = Fields
         /\ DbOK(db)
         /\ pc[r] = "run" => stack[r] # <<>> /\ Len(stack[r]) \in 1..Len(stack[r])
<1>1. RequestOK(pc[r], stack[r], scope[r])
  BY DEF ScriptInv
<1>2. FramesOK(stack[r], scope[r]) /\ (pc[r] = "run" => stack[r] # <<>>)
  BY <1>1 DEF RequestOK
<1>3. stack[r] \in Seq(ToSet(stack[r]))
  BY <1>2 DEF FramesOK
<1>4. Len(stack[r]) \in Nat /\ DOMAIN stack[r] = 1..Len(stack[r])
  BY <1>3, ASequence
<1>5. stack[r] # <<>> => Len(stack[r]) \in 1..Len(stack[r])
  BY <1>3, <1>4
<1> QED
  BY <1>2, <1>3, <1>4, <1>5 DEF FramesOK, ScriptInv

LEMMA FailsKeeps ==
  ASSUME ScriptInv, NEW r \in Requests, Fails(r), DbOK(db'), db'.tx \in {db.tx, r, Nobody}
  PROVE  ScriptInv'
<1>1. /\ asked' = asked /\ stack' = stack /\ scope' = scope
      /\ pc' = [pc EXCEPT ![r] = "rollback"]
  BY DEF Fails
<1>2. Others(pc, pc', r) /\ pc'[r] = "rollback"
  BY <1>1, Running, OthersExcept
<1>3. Others(stack, stack', r) /\ Others(scope, scope', r)
  BY <1>1, OthersSame
<1>4. RequestOK(pc'[r], stack'[r], scope'[r])
  BY <1>1, <1>2, Running DEF RequestOK
<1> QED
  BY <1>1, <1>2, <1>3, <1>4, StepKeeps

LEMMA ThrowsKeeps ==
  ASSUME ScriptInv, NEW r \in Requests, Throws(r)
  PROVE  ScriptInv'
<1>1. Fails(r) /\ db' = db
  BY DEF Throws
<1> QED
  BY <1>1, Running, FailsKeeps

LEMMA RefusesKeeps ==
  ASSUME ScriptInv, NEW r \in Requests,
         NEW now, DbOK(now), now.tx \in {db.tx, r, Nobody}, Refuses(r, now)
  PROVE  ScriptInv'
<1>1. Fails(r) /\ db' \in Shaken(now)
  BY DEF Refuses
<1>2. DbOK(db') /\ db'.tx = now.tx
  BY <1>1, ShakenIsOK
<1> QED
  BY <1>1, <1>2, FailsKeeps

\* A script goes on.
LEMMA GoingKeeps ==
  ASSUME ScriptInv, NEW r \in Requests, pc[r] = "run", asked' = asked, pc' = pc,
         Others(stack, stack', r), Others(scope, scope', r),
         FramesOK(stack'[r], scope'[r]), stack'[r] # <<>>,
         DbOK(db'), db'.tx \in {db.tx, r, Nobody}
  PROVE  ScriptInv'
<1>1. RequestOK(pc'[r], stack'[r], scope'[r])
  BY DEF RequestOK
<1>2. Others(pc, pc', r)
  BY OthersSame
<1> QED
  BY <1>1, <1>2, StepKeeps

LEMMA Rescoped ==
  ASSUME NEW s, NEW sc, FramesOK(s, sc), NEW new, ScopeOK(new, BoundBy(s, Len(s)))
  PROVE  FramesOK(s, new)
BY DEF FramesOK

\* The statement that is done taken off its frame.
LEMMA AfterIsOK ==
  ASSUME ScriptInv, NEW r \in Requests, pc[r] = "run"
  PROVE  /\ FramesOK(After(r), scope[r])
         /\ After(r) # <<>>
         /\ Len(After(r)) = Len(stack[r])
         /\ BoundBy(After(r), Len(After(r))) = BoundBy(stack[r], Len(stack[r]))
<1> DEFINE s == stack[r]
           n == Len(s)
           f == [s[n] EXCEPT !.todo = Tail(@)]
           t == [s EXCEPT ![n] = f]
<1>1. t = After(r)
  BY DEF After
<1>2. /\ s \in Seq(ToSet(s)) /\ n \in 1..n /\ n \in Nat /\ DOMAIN s = 1..n
      /\ FramesOK(s, scope[r])
      /\ \A k \in 1..n : DOMAIN s[k] = Fields
  BY Running
<1>3. DOMAIN f = Fields /\ f.of = s[n].of /\ f.scope = s[n].scope
  BY <1>2 DEF Fields
<1> HIDE DEF s, n, f
<1>4. t \in Seq(ToSet(t)) /\ Len(t) = Len(s)
  BY <1>2, ASequenceExcept
<1>5. \A k \in 1..n : t[k] = IF k = n THEN f ELSE s[k]
  BY <1>2
<1> HIDE DEF t
<1>6. \A k \in 1..n : DOMAIN t[k] = Fields /\ t[k].of = s[k].of /\ t[k].scope = s[k].scope
  BY <1>2, <1>3, <1>5
<1>7. FramesOK(t, scope[r]) /\ \A k \in 0..n : BoundBy(t, k) = BoundBy(s, k)
  BY <1>2, <1>4, <1>6, SameFrames DEF n
<1>8. t # <<>>
  <2>1. Len(t) # 0
    BY <1>2, <1>4 DEF n
  <2> QED
    BY <2>1
<1>9. n \in 0..n
  BY <1>2
<1> QED
  BY <1>1, <1>4, <1>7, <1>8, <1>9 DEF s, n

\* The next statement.
LEMMA ProceedsKeeps ==
  ASSUME ScriptInv, NEW r \in Requests, pc[r] = "run", Proceeds(r), asked' = asked, pc' = pc,
         Others(scope, scope', r), ScopeOK(scope'[r], BoundBy(stack[r], Len(stack[r]))),
         DbOK(db'), db'.tx \in {db.tx, r, Nobody}
  PROVE  ScriptInv'
<1>1. stack' = [stack EXCEPT ![r] = After(r)]
  BY DEF Proceeds, Goes
<1>2. Others(stack, stack', r) /\ stack'[r] = After(r)
  BY <1>1, Running, OthersExcept
<1>3. FramesOK(After(r), scope'[r]) /\ After(r) # <<>>
  BY AfterIsOK, Rescoped
<1> QED
  BY <1>2, <1>3, GoingKeeps

\* A body begins.
LEMMA EntersKeeps ==
  ASSUME ScriptInv, NEW r \in Requests, pc[r] = "run", asked' = asked, pc' = pc,
         NEW f, DOMAIN f = Fields, f.of.kind # "TOP", Goes(r, Within(r, f)),
         f.of.kind = "CALL" => ScopeOK(f.scope, BoundBy(stack[r], Len(stack[r]))) /\ ScopeOK(scope'[r], {}),
         f.of.kind # "CALL" =>
           ScopeOK(scope'[r], BoundBy(stack[r], Len(stack[r])) \cup (IF f.of.kind = "FOR" THEN {Key(f.of.name)} ELSE {})),
         Others(scope, scope', r), DbOK(db'), db'.tx \in {db.tx, r, Nobody}
  PROVE  ScriptInv'
<1> DEFINE t == Append(After(r), f)
<1>1. stack' = [stack EXCEPT ![r] = t]
  BY DEF Goes, Within
<1>2. Others(stack, stack', r) /\ stack'[r] = t
  BY <1>1, Running, OthersExcept
<1>3. FramesOK(t, scope'[r]) /\ t # <<>>
  BY AfterIsOK, Pushed
<1> QED
  BY <1>2, <1>3, GoingKeeps

\* A signal, or the end of a body.
LEMMA ContinuesKeeps ==
  ASSUME ScriptInv, NEW r \in Requests, pc[r] = "run",
         NEW st, FramesOK(st.stack, st.scope), st.stack # <<>>, Continues(r, st)
  PROVE  ScriptInv'
<1>1. /\ stack' = [stack EXCEPT ![r] = st.stack]
      /\ scope' = [scope EXCEPT ![r] = st.scope]
      /\ asked' = asked /\ pc' = pc /\ db' = db
  BY DEF Continues
<1>2. Others(stack, stack', r) /\ stack'[r] = st.stack
  BY <1>1, Running, OthersExcept
<1>3. Others(scope, scope', r) /\ scope'[r] = st.scope
  BY <1>1, Running, OthersExcept
<1> QED
  BY <1>1, <1>2, <1>3, Running, GoingKeeps

-----------------------------------------------------------------------------
(***************************************************************************)
(* One lemma for each action.                                              *)
(***************************************************************************)

LEMMA RunDeclareKeeps ==
  ASSUME ScriptInv, NEW r \in Requests, RunDeclare(r)
  PROVE  ScriptInv'
<1>1. pc[r] = "run"
  BY DEF RunDeclare, Doing
<1> SUFFICES ASSUME NEW s, NEW value, Declares(r, s, value)
             PROVE  ScriptInv'
  BY DEF RunDeclare
<1> DEFINE keys == {Key(s.names[k]) : k \in DOMAIN s.names}
           new  == [type |-> DuckType(s.type), value |-> value]
           sc   == scope[r]
           given == [key \in keys \cup DOMAIN sc.vars |-> IF key \in keys THEN new ELSE sc.vars[key]]
           out  == [sc EXCEPT !.vars = given]
<1>2. CASE Refuses(r, db)
  BY <1>2, Running, RefusesKeeps
<1>3. CASE Throws(r)
  BY <1>3, ThrowsKeeps
<1>4. CASE /\ value # Err
           /\ scope' = [scope EXCEPT ![r] = out]
           /\ Proceeds(r)
           /\ UNCHANGED <<asked, pc, result, db, routines>>
  <2>1. Others(scope, scope', r) /\ scope'[r] = out
    BY <1>4, Running, OthersExcept
  <2>2. DuckType(s.type) \in DuckTypes
    BY DEF DuckType, DuckTypes
  <2>3. new.type \in DuckTypes /\ new.value # Err
    BY <1>4, <2>2
  <2>4. ScopeOK(sc, BoundBy(stack[r], Len(stack[r])))
    BY Running
  <2> HIDE DEF new, keys, sc
  <2>5. \A key \in DOMAIN given : given[key] = new \/ (key \in DOMAIN sc.vars /\ given[key] = sc.vars[key])
    OBVIOUS
  <2> HIDE DEF given
  <2>6. DOMAIN out = {"vars", "rows"} /\ out.rows = sc.rows /\ out.vars = given
    BY <2>4 DEF ScopeOK
  <2> HIDE DEF out
  <2>7. ScopeOK(out, BoundBy(stack[r], Len(stack[r])))
    BY <2>3, <2>4, <2>5, <2>6 DEF ScopeOK
  <2> QED
    BY <1>1, <1>4, <2>1, <2>7, Running, ProceedsKeeps
<1>5. Refuses(r, db) \/ Throws(r) \/
        (/\ value # Err
         /\ scope' = [scope EXCEPT ![r] = out]
         /\ Proceeds(r)
         /\ UNCHANGED <<asked, pc, result, db, routines>>)
  BY DEF Declares
<1> QED
  BY <1>2, <1>3, <1>4, <1>5

\* Variables given values that are no errors.
LEMMA AssignAllIsOK ==
  ASSUME NEW sc, NEW names, ScopeOK(sc, names), NEW to, NEW values, \A k \in DOMAIN values : values[k] # Err
  PROVE  ScopeOK(AssignAll(sc, to, values), names)
<1> DEFINE last(key) == {k \in DOMAIN values : /\ Key(to[k]) = key
                                              /\ \A j \in DOMAIN values : Key(to[j]) = key => j <= k}
           assigned(key) == IF last(key) = {} THEN sc.vars[key].value ELSE values[CHOOSE k \in last(key) : TRUE]
           given == [key \in DOMAIN sc.vars |-> [type |-> sc.vars[key].type, value |-> assigned(key)]]
           new == [sc EXCEPT !.vars = given]
<1>1. AssignAll(sc, to, values) = new
  BY DEF AssignAll
<1>2. ASSUME NEW key \in DOMAIN sc.vars
      PROVE  assigned(key) # Err
  <2>1. CASE last(key) = {}
    BY <2>1 DEF ScopeOK
  <2>2. CASE last(key) # {}
    <3>1. (CHOOSE k \in last(key) : TRUE) \in last(key)
      BY <2>2
    <3>2. (CHOOSE k \in last(key) : TRUE) \in DOMAIN values
      BY <3>1
    <3> QED
      BY <2>2, <3>2
  <2> QED
    BY <2>1, <2>2
<1> HIDE DEF assigned
<1>3. DOMAIN given = DOMAIN sc.vars /\ \A key \in DOMAIN given : given[key].type = sc.vars[key].type /\ given[key].value = assigned(key)
  OBVIOUS
<1> HIDE DEF given
<1>4. DOMAIN new = {"vars", "rows"} /\ new.rows = sc.rows /\ new.vars = given
  BY DEF ScopeOK
<1> HIDE DEF new
<1>5. ScopeOK(new, names)
  BY <1>2, <1>3, <1>4 DEF ScopeOK
<1> QED
  BY <1>1, <1>5

LEMMA AssignsKeeps ==
  ASSUME ScriptInv, NEW r \in Requests, pc[r] = "run", NEW to, NEW values, \A k \in DOMAIN values : values[k] # Err,
         scope' = [scope EXCEPT ![r] = AssignAll(@, to, values)], Proceeds(r), asked' = asked, pc' = pc,
         DbOK(db'), db'.tx \in {db.tx, r, Nobody}
  PROVE  ScriptInv'
<1> DEFINE out == AssignAll(scope[r], to, values)
<1>1. scope' = [scope EXCEPT ![r] = out]
  OBVIOUS
<1>2. ScopeOK(out, BoundBy(stack[r], Len(stack[r])))
  BY Running, AssignAllIsOK
<1>3. r \in DOMAIN scope
  BY Running
<1> HIDE DEF out
<1>4. Others(scope, scope', r) /\ scope'[r] = out
  BY ONLY <1>1, <1>3, OthersExcept
<1> QED
  BY <1>2, <1>4, ProceedsKeeps

LEMMA SetVariablesKeeps ==
  ASSUME ScriptInv, NEW r \in Requests, SetVariables(r)
  PROVE  ScriptInv'
<1>1. pc[r] = "run"
  BY DEF SetVariables, Doing
<1> SUFFICES ASSUME NEW names, NEW exprs, SetTo(r, names, exprs)
             PROVE  ScriptInv'
  BY DEF SetVariables
<1> DEFINE values == ValuesFor(r, names, exprs)
           bad    == {k \in DOMAIN names : values[k] \in {Nothing, Err}}
<1>2. CASE Throws(r)
  BY <1>2, ThrowsKeeps
<1>3. CASE Refuses(r, db)
  BY <1>3, Running, RefusesKeeps
<1>4. CASE /\ bad = {}
           /\ scope' = [scope EXCEPT ![r] = AssignAll(@, names, values)]
           /\ Proceeds(r)
           /\ UNCHANGED <<asked, pc, result, db, routines>>
  <2>1. DOMAIN values = DOMAIN names
    BY DEF ValuesFor
  <2> HIDE DEF values
  <2>2. \A k \in DOMAIN values : values[k] # Err
    BY <1>4, <2>1
  <2> QED
    BY <1>1, <1>4, <2>2, Running, AssignsKeeps
<1>5. Throws(r) \/ Refuses(r, db) \/
        (/\ bad = {}
         /\ scope' = [scope EXCEPT ![r] = AssignAll(@, names, values)]
         /\ Proceeds(r)
         /\ UNCHANGED <<asked, pc, result, db, routines>>)
  BY DEF SetTo, Sets
<1> QED
  BY <1>2, <1>3, <1>4, <1>5

\* The row of a result into variables.
LEMMA StoresKeeps ==
  ASSUME ScriptInv, NEW r \in Requests, pc[r] = "run",
         NEW got, Lawful(got, db, r), NEW names, Stores(r, got, names)
  PROVE  ScriptInv'
<1>1. DbOK(got.db) /\ got.db.tx \in {db.tx, r, Nobody}
  BY DEF Lawful
<1>2. CASE Refuses(r, got.db)
  BY <1>1, <1>2, RefusesKeeps
<1>3. CASE Fails(r) /\ db' = got.db
  BY <1>1, <1>3, FailsKeeps
<1>4. CASE /\ Fits(got, scope[r], names)
           /\ scope' = [scope EXCEPT ![r] = AssignAll(@, names, got.rows[1])]
           /\ Proceeds(r)
           /\ db' = got.db
           /\ UNCHANGED <<asked, pc, result, routines>>
  <2>1. DOMAIN got.rows = 1..Len(got.rows)
    BY ASequence DEF Lawful
  <2>2. 1 \in DOMAIN got.rows
    BY <1>4, <2>1 DEF Fits
  <2>3. Err \notin ToSet(got.rows[1])
    BY <2>2 DEF Lawful
  <2> DEFINE values == got.rows[1]
  <2>4. \A k \in DOMAIN values : values[k] # Err
    BY <2>3 DEF ToSet
  <2>5. scope' = [scope EXCEPT ![r] = AssignAll(@, names, values)]
    BY <1>4
  <2> HIDE DEF values
  <2> QED
    BY <1>1, <1>4, <2>4, <2>5, AssignsKeeps
<1> QED
  BY <1>2, <1>3, <1>4 DEF Stores

\* What a script has the database do is lawful.
LEMMA QueriedIsLawful ==
  ASSUME ScriptInv, NEW r \in Requests, NEW sql
  PROVE  Lawful(Queried(r, sql), db, r)
BY Running, ExecuteAllIsLawful DEF Queried, Submits

LEMMA SetFromQueryKeeps ==
  ASSUME ScriptInv, NEW r \in Requests, SetFromQuery(r)
  PROVE  ScriptInv'
<1>1. pc[r] = "run" /\ Stores(r, Queried(r, Stmt(r).sql), Stmt(r).names)
  BY DEF SetFromQuery, Doing
<1> QED
  BY <1>1, QueriedIsLawful, StoresKeeps

LEMMA ExecuteDynamicKeeps ==
  ASSUME ScriptInv, NEW r \in Requests, ExecuteDynamic(r)
  PROVE  ScriptInv'
<1>1. pc[r] = "run"
  BY DEF ExecuteDynamic, Doing
<1> SUFFICES ASSUME NEW s, NEW text, NEW using, Dynamically(r, s, text, using)
             PROVE  ScriptInv'
  BY DEF ExecuteDynamic
<1>2. CASE Refuses(r, db)
  BY <1>2, Running, RefusesKeeps
<1>3. CASE Throws(r)
  BY <1>3, ThrowsKeeps
<1>4. ASSUME NEW into, NEW q, Runs(r, into, q)
      PROVE  ScriptInv'
  <2> DEFINE got == ExecuteAll(q.sql, q.values, db, r)
  <2>1. Lawful(got, db, r)
    BY Running, ExecuteAllIsLawful
  <2>2. Throws(r) \/ Stores(r, got, into) \/ GoesOn(r, got)
    BY <1>4 DEF Runs
  <2> HIDE DEF got
  <2>3. DbOK(got.db) /\ got.db.tx \in {db.tx, r, Nobody}
    BY <2>1 DEF Lawful
  <2>4. CASE Throws(r)
    BY <2>4, ThrowsKeeps
  <2>5. CASE Stores(r, got, into)
    BY <1>1, <2>1, <2>5, StoresKeeps
  <2>6. CASE Refuses(r, got.db)
    BY <2>3, <2>6, RefusesKeeps
  <2>7. CASE Proceeds(r) /\ db' = got.db /\ UNCHANGED <<asked, pc, scope, result, routines>>
    <3>1. Others(scope, scope', r) /\ ScopeOK(scope'[r], BoundBy(stack[r], Len(stack[r])))
      BY <2>7, Running, OthersSame
    <3> QED
      BY <1>1, <2>3, <2>7, <3>1, ProceedsKeeps
  <2> QED
    BY <2>2, <2>4, <2>5, <2>6, <2>7 DEF GoesOn
<1>5. Refuses(r, db) \/ Throws(r) \/ Runs(r, s.into, Bound(s, using, Translate(Tokenize(text.text))))
  BY DEF Dynamically
<1> QED
  BY <1>2, <1>3, <1>4, <1>5

LEMMA PlainSqlKeeps ==
  ASSUME ScriptInv, NEW r \in Requests, PlainSql(r)
  PROVE  ScriptInv'
<1> DEFINE got == Queried(r, Stmt(r).sql)
<1>1. pc[r] = "run" /\ Surfaced(r, Stmt(r).sql, got)
  BY DEF PlainSql, Doing
<1>2. Lawful(got, db, r)
  BY QueriedIsLawful
<1> HIDE DEF got
<1>3. DbOK(got.db) /\ got.db.tx \in {db.tx, r, Nobody}
  BY <1>2 DEF Lawful
<1>4. CASE Refuses(r, got.db)
  BY <1>3, <1>4, RefusesKeeps
<1>5. CASE Proceeds(r) /\ db' = got.db /\ UNCHANGED <<asked, pc, scope, routines>>
  <2>1. Others(scope, scope', r) /\ ScopeOK(scope'[r], BoundBy(stack[r], Len(stack[r])))
    BY <1>5, Running, OthersSame
  <2> QED
    BY <1>1, <1>3, <1>5, <2>1, ProceedsKeeps
<1> QED
  BY <1>1, <1>4, <1>5 DEF Surfaced

\* A frame as a statement makes it.
LEMMA FrameIsOK ==
  ASSUME NEW s, NEW body, NEW rows
  PROVE  DOMAIN Frame(s, body, rows) = Fields /\ Frame(s, body, rows).of = s
BY DEF Frame, Fields

\* The body of a statement that binds no row begins.
LEMMA BodyKeeps ==
  ASSUME ScriptInv, NEW r \in Requests, pc[r] = "run",
         NEW s, s.kind \in {"IF", "BLOCK", "LOOP", "REPEAT", "WHILE"}, NEW body,
         Goes(r, Within(r, Frame(s, body, <<>>))), UNCHANGED <<asked, pc, scope, result, db, routines>>
  PROVE  ScriptInv'
<1> DEFINE f == Frame(s, body, <<>>)
<1>1. DOMAIN f = Fields /\ f.of = s
  BY FrameIsOK
<1> HIDE DEF f
<1>2. f.of.kind # "TOP" /\ f.of.kind # "CALL" /\ f.of.kind # "FOR"
  BY <1>1
<1>3. Others(scope, scope', r) /\ ScopeOK(scope'[r], BoundBy(stack[r], Len(stack[r])))
  BY Running, OthersSame
<1>4. Goes(r, Within(r, f))
  BY DEF f
<1>5. DbOK(db') /\ db'.tx \in {db.tx, r, Nobody}
  BY Running
<1>6. asked' = asked /\ pc' = pc
  OBVIOUS
<1>7. ScopeOK(scope'[r], BoundBy(stack[r], Len(stack[r])) \cup (IF f.of.kind = "FOR" THEN {Key(f.of.name)} ELSE {}))
  BY <1>2, <1>3
<1> QED
  BY <1>1, <1>2, <1>3, <1>4, <1>5, <1>6, <1>7, EntersKeeps

LEMMA BranchKeeps ==
  ASSUME ScriptInv, NEW r \in Requests, Branch(r)
  PROVE  ScriptInv'
<1> DEFINE s == Stmt(r)
<1>1. pc[r] = "run" /\ s.kind = "IF"
  BY DEF Branch, Doing
<1>2. Refuses(r, db) \/ \E body : /\ Goes(r, Within(r, Frame(s, body, <<>>)))
                                  /\ UNCHANGED <<asked, pc, scope, result, db, routines>>
  BY DEF Branch, Chooses
<1> HIDE DEF s
<1>3. CASE Refuses(r, db)
  BY <1>3, Running, RefusesKeeps
<1>4. ASSUME NEW body, Goes(r, Within(r, Frame(s, body, <<>>))), UNCHANGED <<asked, pc, scope, result, db, routines>>
      PROVE  ScriptInv'
  BY <1>1, <1>4, BodyKeeps
<1> QED
  BY <1>2, <1>3, <1>4

LEMMA EnterKeeps ==
  ASSUME ScriptInv, NEW r \in Requests, Enter(r)
  PROVE  ScriptInv'
<1> DEFINE s    == Stmt(r)
           body == IF s.kind = "WHILE" THEN <<>> ELSE s.body
<1>1. /\ pc[r] = "run" /\ s.kind \in {"IF", "BLOCK", "LOOP", "REPEAT", "WHILE"}
      /\ Goes(r, Within(r, Frame(s, body, <<>>)))
      /\ UNCHANGED <<asked, pc, scope, result, db, routines>>
  BY DEF Enter, Doing
<1> HIDE DEF s, body
<1> QED
  BY <1>1, BodyKeeps

LEMMA EnterForKeeps ==
  ASSUME ScriptInv, NEW r \in Requests, EnterFor(r)
  PROVE  ScriptInv'
<1> DEFINE s   == Stmt(r)
           got == Queried(r, s.sql)
<1>1. pc[r] = "run" /\ s.kind = "FOR" /\ Fetches(r, s, got)
  BY DEF EnterFor, Doing
<1>2. Lawful(got, db, r)
  BY QueriedIsLawful
<1> HIDE DEF s, got
<1>3. DbOK(got.db) /\ got.db.tx \in {db.tx, r, Nobody}
  BY <1>2 DEF Lawful
<1>4. CASE Refuses(r, got.db)
  BY <1>3, <1>4, RefusesKeeps
<1>5. ASSUME NEW rows, Iterates(r, s, rows, got.db)
      PROVE  ScriptInv'
  <2>1. db' = got.db
    BY <1>5 DEF Iterates
  <2>2. CASE Proceeds(r) /\ UNCHANGED <<asked, pc, scope, result, routines>>
    <3>1. Others(scope, scope', r) /\ ScopeOK(scope'[r], BoundBy(stack[r], Len(stack[r])))
      BY <2>2, Running, OthersSame
    <3> QED
      BY <1>1, <1>3, <2>1, <2>2, <3>1, ProceedsKeeps
  <2>3. CASE Fails(r)
    BY <1>3, <2>1, <2>3, FailsKeeps
  <2>4. CASE /\ scope' = [scope EXCEPT ![r] = Bind(@, s.name, Head(rows))]
             /\ Goes(r, Within(r, Frame(s, s.body, Tail(rows))))
             /\ UNCHANGED <<asked, pc, result, routines>>
    <3> DEFINE f     == Frame(s, s.body, Tail(rows))
               out   == Bind(scope[r], s.name, Head(rows))
               names == BoundBy(stack[r], Len(stack[r])) \cup {Key(s.name)}
    <3>1. DOMAIN f = Fields /\ f.of = s
      BY FrameIsOK
    <3>2. scope' = [scope EXCEPT ![r] = out]
      BY <2>4
    <3>3. r \in DOMAIN scope /\ ScopeOK(scope[r], BoundBy(stack[r], Len(stack[r])))
      BY Running
    <3>4. ScopeOK(scope[r], names)
      BY <3>3, ScopeMore
    <3>5. Key(s.name) \in names
      OBVIOUS
    <3>6. ScopeOK(out, names)
      BY <3>4, <3>5, BindIsOK
    <3>7. Goes(r, Within(r, f))
      BY <2>4
    <3> HIDE DEF f, out
    <3>8. Others(scope, scope', r) /\ scope'[r] = out
      BY ONLY <3>2, <3>3, OthersExcept
    <3>9. f.of.kind = "FOR" /\ f.of.kind # "TOP" /\ f.of.kind # "CALL" /\ f.of.name = s.name
      BY <1>1, <3>1
    <3>10. ScopeOK(scope'[r], BoundBy(stack[r], Len(stack[r])) \cup (IF f.of.kind = "FOR" THEN {Key(f.of.name)} ELSE {}))
      BY <3>6, <3>8, <3>9
    <3>11. asked' = asked /\ pc' = pc /\ DbOK(db') /\ db'.tx \in {db.tx, r, Nobody}
      BY <1>3, <2>1, <2>4
    <3> QED
      BY <1>1, <3>1, <3>7, <3>8, <3>9, <3>10, <3>11, EntersKeeps
  <2> QED
    BY <1>5, <2>2, <2>3, <2>4 DEF Iterates
<1> QED
  BY <1>1, <1>4, <1>5 DEF Fetches

LEMMA RunCallKeeps ==
  ASSUME ScriptInv, NEW r \in Requests, RunCall(r)
  PROVE  ScriptInv'
<1> DEFINE s == Stmt(r)
<1>1. pc[r] = "run" /\ s.kind = "CALL"
  BY DEF RunCall, Doing
<1>2. Throws(r) \/ \E p : Calls(r, s, p)
  BY DEF RunCall
<1> HIDE DEF s
<1>3. CASE Throws(r)
  BY <1>3, ThrowsKeeps
<1>4. ASSUME NEW p, Calls(r, s, p)
      PROVE  ScriptInv'
  <2> DEFINE given == Given(r, s, p)
             body  == Program(p.body)
             keys  == {Key(p.args[k].name) : k \in DOMAIN p.args}
             at(key) == CHOOSE k \in DOMAIN p.args : Key(p.args[k].name) = key
             local == [key \in keys |-> [type |-> ArgType(p, at(key)), value |-> given[at(key)]]]
             bad   == {k \in DOMAIN given : given[k] \in {Nothing, Err}}
             plain == Frame(s, body, <<>>)
             frame == [plain EXCEPT !.scope = scope[r], !.result = result[r]]
             out   == [vars |-> local, rows |-> <<>>]
  <2>1. CASE Throws(r)
    BY <2>1, ThrowsKeeps
  <2>2. CASE Refuses(r, db)
    BY <2>2, Running, RefusesKeeps
  <2>3. CASE /\ bad = {}
             /\ scope' = [scope EXCEPT ![r] = out]
             /\ Goes(r, Within(r, frame))
             /\ UNCHANGED <<asked, pc, db, routines>>
    <3>1. DOMAIN given = DOMAIN p.args
      BY DEF Given
    <3>2. DOMAIN plain = Fields /\ plain.of = s
      BY FrameIsOK
    <3> HIDE DEF given, plain
    <3>3. DOMAIN frame = Fields /\ frame.of = s /\ frame.scope = scope[r]
      BY <3>2 DEF Fields
    <3>4. ASSUME NEW key \in keys
          PROVE  local[key].type \in DuckTypes /\ local[key].value # Err
      <4>1. at(key) \in DOMAIN p.args
        OBVIOUS
      <4>2. given[at(key)] # Err
        BY <2>3, <3>1, <4>1
      <4>3. ArgType(p, at(key)) \in DuckTypes
        BY DEF ArgType, DuckType, DuckTypes
      <4> HIDE DEF at
      <4> QED
        BY <4>2, <4>3
    <3>5. DOMAIN local = keys
      OBVIOUS
    <3> HIDE DEF keys, local
    <3>6. DOMAIN out = {"vars", "rows"} /\ out.vars = local /\ DOMAIN out.rows = {}
      OBVIOUS
    <3>7. scope' = [scope EXCEPT ![r] = out] /\ Goes(r, Within(r, frame))
      BY <2>3
    <3> HIDE DEF out, frame
    <3>8. ScopeOK(out, {})
      BY <3>4, <3>5, <3>6 DEF ScopeOK
    <3>9. r \in DOMAIN scope /\ ScopeOK(scope[r], BoundBy(stack[r], Len(stack[r]))) /\ DbOK(db)
      BY Running
    <3>10. Others(scope, scope', r) /\ scope'[r] = out
      BY ONLY <3>7, <3>9, OthersExcept
    <3>11. frame.of.kind = "CALL" /\ frame.of.kind # "TOP"
      BY <1>1, <3>3
    <3>12. ScopeOK(frame.scope, BoundBy(stack[r], Len(stack[r]))) /\ ScopeOK(scope'[r], {})
      BY <3>3, <3>8, <3>9, <3>10
    <3>13. asked' = asked /\ pc' = pc /\ DbOK(db') /\ db'.tx \in {db.tx, r, Nobody}
      BY <2>3, <3>9
    <3> QED
      BY <1>1, <3>3, <3>7, <3>10, <3>11, <3>12, <3>13, EntersKeeps
  <2>4. Throws(r) \/ Refuses(r, db) \/
          (/\ bad = {}
           /\ scope' = [scope EXCEPT ![r] = out]
           /\ Goes(r, Within(r, frame))
           /\ UNCHANGED <<asked, pc, db, routines>>)
    <3>1. Throws(r) \/ Invokes(r, s, p, given, body)
      BY <1>4 DEF Calls
    <3> HIDE DEF given, body
    <3> QED
      BY <3>1 DEF Invokes
  <2> QED
    BY <2>1, <2>2, <2>3, <2>4
<1> QED
  BY <1>2, <1>3, <1>4

\* The end of a list, and signals.  A script, as far as signals go, is good
\* when its frames are and it has some.
StateOK(st) ==
  /\ DOMAIN st = {"stack", "scope", "result"}
  /\ FramesOK(st.stack, st.scope)
  /\ st.stack # <<>>

LEMMA StateIsOK ==
  ASSUME ScriptInv, NEW r \in Requests, pc[r] = "run"
  PROVE  StateOK(State(r)) /\ State(r).stack = stack[r] /\ State(r).scope = scope[r]
BY Running DEF StateOK, State

LEMMA StateOKLast ==
  ASSUME NEW st, StateOK(st)
  PROVE  /\ Len(st.stack) \in 1..Len(st.stack) /\ Len(st.stack) \in Nat
         /\ st.stack \in Seq(ToSet(st.stack)) /\ DOMAIN st.stack = 1..Len(st.stack)
         /\ Last(st.stack) = st.stack[Len(st.stack)]
         /\ \A k \in 1..Len(st.stack) : DOMAIN st.stack[k] = Fields /\ (st.stack[k].of.kind = "TOP" <=> k = 1)
<1> DEFINE s == st.stack
<1>1. s \in Seq(ToSet(s)) /\ s # <<>>
  BY DEF StateOK, FramesOK
<1>2. Len(s) \in Nat /\ DOMAIN s = 1..Len(s)
  BY <1>1, ASequence
<1>3. Len(s) \in 1..Len(s)
  BY <1>1, <1>2
<1>4. Last(s) = s[Len(s)]
  BY DEF Last
<1>5. \A k \in 1..Len(s) : DOMAIN s[k] = Fields /\ (s[k].of.kind = "TOP" <=> k = 1)
  BY <1>2 DEF StateOK, FramesOK
<1> QED
  BY <1>1, <1>2, <1>3, <1>4, <1>5

LEMMA LeaveToKeeps ==
  ASSUME NEW st, StateOK(st), NEW at \in 1..Len(st.stack)
  PROVE  /\ StateOK(LeaveTo(st, at))
         /\ Len(LeaveTo(st, at).stack) = at
         /\ \A k \in 1..at : LeaveTo(st, at).stack[k] = st.stack[k]
<1> DEFINE out == LeaveTo(st, at)
<1>1. DOMAIN out = {"stack", "scope", "result"}
  BY DEF LeaveTo
<1>2. /\ FramesOK(out.stack, out.scope)
      /\ Len(out.stack) = at
      /\ out.stack # <<>>
      /\ \A k \in 1..at : out.stack[k] = st.stack[k]
  BY LeaveToIsOK DEF StateOK
<1> HIDE DEF out
<1>3. StateOK(out)
  BY <1>1, <1>2 DEF StateOK
<1> QED
  BY <1>2, <1>3 DEF out

\* Every frame but the outermost can be left.
LEMMA LeaveKeeps ==
  ASSUME NEW st, StateOK(st), Last(st.stack).of.kind # "TOP"
  PROVE  StateOK(Leave(st))
<1> DEFINE n == Len(st.stack)
<1>1. n # 1 /\ n \in 1..n /\ n \in Nat
  BY StateOKLast
<1> HIDE DEF n
<1>2. n - 1 \in 1..n
  BY ONLY <1>1
<1> QED
  BY <1>2, LeaveToKeeps DEF Leave, n

\* The outermost frame stops every signal.
LEMMA UnwoundKeeps ==
  ASSUME NEW st, StateOK(st), NEW kinds
  PROVE  StateOK(Unwound(st, kinds))
<1> DEFINE S == {k \in DOMAIN st.stack : st.stack[k].of.kind \in kinds \cup {"TOP"}}
<1>1. Len(st.stack) \in 1..Len(st.stack) /\ Len(st.stack) \in Nat /\ DOMAIN st.stack = 1..Len(st.stack)
  BY StateOKLast
<1>2. 1 \in S
  <2>1. 1 \in 1..Len(st.stack)
    BY <1>1
  <2>2. st.stack[1].of.kind = "TOP"
    BY <2>1, StateOKLast
  <2> QED
    BY <1>1, <2>1, <2>2
<1>3. S \in SUBSET (1..Len(st.stack)) /\ S # {}
  BY <1>1, <1>2
<1>4. Unwound(st, kinds) = LeaveTo(st, Max(S))
  BY DEF Unwound
<1> HIDE DEF S
<1>5. Max(S) \in 1..Len(st.stack)
  BY <1>1, <1>3, MaxOfPositions
<1> QED
  BY <1>4, <1>5, LeaveToKeeps

\* Another list of statements in the innermost frame.
LEMMA TodoKeeps ==
  ASSUME NEW st, StateOK(st), NEW body
  PROVE  LET out == [st EXCEPT !.stack[Len(st.stack)].todo = body]
         IN  /\ StateOK(out)
             /\ Len(out.stack) = Len(st.stack)
             /\ out.scope = st.scope
             /\ \A k \in 0..Len(st.stack) : BoundBy(out.stack, k) = BoundBy(st.stack, k)
<1> DEFINE s   == st.stack
           n   == Len(s)
           f   == [s[n] EXCEPT !.todo = body]
           t   == [s EXCEPT ![n] = f]
           out == [st EXCEPT !.stack[Len(st.stack)].todo = body]
<1>1. DOMAIN out = DOMAIN st /\ out.stack = t /\ out.scope = st.scope
  BY DEF StateOK
<1>2. /\ s \in Seq(ToSet(s)) /\ n \in 1..n /\ n \in Nat /\ DOMAIN s = 1..n
      /\ \A k \in 1..n : DOMAIN s[k] = Fields
  BY StateOKLast
<1>3. FramesOK(s, st.scope)
  BY DEF StateOK
<1>4. DOMAIN f = Fields /\ f.of = s[n].of /\ f.scope = s[n].scope
  BY <1>2 DEF Fields
<1> HIDE DEF out, s, n, f
<1>5. t \in Seq(ToSet(t)) /\ Len(t) = Len(s)
  BY <1>2, ASequenceExcept
<1>6. \A k \in 1..n : t[k] = IF k = n THEN f ELSE s[k]
  BY <1>2
<1> HIDE DEF t
<1>7. \A k \in 1..n : DOMAIN t[k] = Fields /\ t[k].of = s[k].of /\ t[k].scope = s[k].scope
  BY <1>2, <1>4, <1>6
<1>8. FramesOK(t, st.scope) /\ \A k \in 0..n : BoundBy(t, k) = BoundBy(s, k)
  BY <1>3, <1>5, <1>7, SameFrames DEF n
<1>9. t # <<>>
  <2>1. Len(t) # 0
    BY <1>2, <1>5 DEF n
  <2> QED
    BY <2>1
<1>10. StateOK(out)
  BY <1>1, <1>8, <1>9 DEF StateOK
<1> QED
  BY <1>1, <1>5, <1>8, <1>10 DEF out, s, n

LEMMA GoesOnKeeps ==
  ASSUME ScriptInv, NEW r \in Requests, pc[r] = "run", NEW st, StateOK(st), Continues(r, st)
  PROVE  ScriptInv'
BY ContinuesKeeps DEF StateOK

LEMMA BreakKeeps ==
  ASSUME ScriptInv, NEW r \in Requests, Break(r)
  PROVE  ScriptInv'
<1> DEFINE st == Unwound(State(r), Loops)
<1>1. pc[r] = "run"
  BY DEF Break, Doing
<1>2. StateOK(st)
  BY <1>1, StateIsOK, UnwoundKeeps
<1>3. IF Last(st.stack).of.kind = "TOP" THEN Throws(r) ELSE Continues(r, Leave(st))
  BY DEF Break
<1> HIDE DEF st
<1>4. CASE Last(st.stack).of.kind = "TOP"
  BY <1>3, <1>4, ThrowsKeeps
<1>5. CASE Last(st.stack).of.kind # "TOP"
  BY <1>1, <1>2, <1>3, <1>5, LeaveKeeps, GoesOnKeeps
<1> QED
  BY <1>4, <1>5

LEMMA ContinueKeeps ==
  ASSUME ScriptInv, NEW r \in Requests, Continue(r)
  PROVE  ScriptInv'
<1> DEFINE st == Unwound(State(r), Loops)
<1>1. pc[r] = "run"
  BY DEF Continue, Doing
<1>2. StateOK(st)
  BY <1>1, StateIsOK, UnwoundKeeps
<1>3. Throws(r) \/ Continues(r, Cut(st))
  BY DEF Continue
<1> HIDE DEF st
<1>4. StateOK(Cut(st))
  BY <1>2, TodoKeeps DEF Cut
<1> QED
  BY <1>1, <1>3, <1>4, ThrowsKeeps, GoesOnKeeps

LEMMA ReturnKeeps ==
  ASSUME ScriptInv, NEW r \in Requests, Return(r)
  PROVE  ScriptInv'
<1> DEFINE st == Unwound(State(r), {"CALL"})
<1>1. pc[r] = "run" /\ Continues(r, Cut(st))
  BY DEF Return, Doing
<1>2. StateOK(st)
  BY <1>1, StateIsOK, UnwoundKeeps
<1> HIDE DEF st
<1>3. StateOK(Cut(st))
  BY <1>2, TodoKeeps DEF Cut
<1> QED
  BY <1>1, <1>3, GoesOnKeeps

\* A frame that is not the outermost ends, or its body starts again.
LEMMA EndLeaves ==
  ASSUME ScriptInv, NEW r \in Requests, pc[r] = "run", Top(r).of.kind # "TOP"
  PROVE  StateOK(Leave(State(r)))
<1>1. StateOK(State(r)) /\ Last(State(r).stack) = Top(r)
  BY StateIsOK DEF Top
<1> QED
  BY <1>1, LeaveKeeps

LEMMA AgainIsOK ==
  ASSUME ScriptInv, NEW r \in Requests, pc[r] = "run"
  PROVE  /\ StateOK(Again(r))
         /\ Len(Again(r).stack) = Len(stack[r])
         /\ Again(r).scope = scope[r]
         /\ \A k \in 0..Len(stack[r]) : BoundBy(Again(r).stack, k) = BoundBy(stack[r], k)
<1> DEFINE st   == State(r)
           body == Top(r).of.body
           out  == [st EXCEPT !.stack[Len(st.stack)].todo = body]
<1>1. StateOK(st) /\ st.stack = stack[r] /\ st.scope = scope[r]
  BY StateIsOK
<1>2. Again(r) = out
  BY <1>1 DEF Again
<1> HIDE DEF st, body
<1>3. /\ StateOK(out)
      /\ Len(out.stack) = Len(st.stack)
      /\ out.scope = st.scope
      /\ \A k \in 0..Len(st.stack) : BoundBy(out.stack, k) = BoundBy(st.stack, k)
  BY ONLY <1>1, TodoKeeps
<1> HIDE DEF out
<1> QED
  BY ONLY <1>1, <1>2, <1>3

LEMMA EndOfPlainKeeps ==
  ASSUME ScriptInv, NEW r \in Requests, EndOfPlain(r)
  PROVE  ScriptInv'
<1>1. pc[r] = "run" /\ Top(r).of.kind # "TOP" /\ Continues(r, Leave(State(r)))
  BY DEF EndOfPlain, AtEnd
<1> QED
  BY <1>1, EndLeaves, GoesOnKeeps

LEMMA EndOfLoopKeeps ==
  ASSUME ScriptInv, NEW r \in Requests, EndOfLoop(r)
  PROVE  ScriptInv'
<1>1. pc[r] = "run" /\ Continues(r, Again(r))
  BY DEF EndOfLoop, AtEnd
<1> QED
  BY <1>1, AgainIsOK, GoesOnKeeps

LEMMA TurnKeeps ==
  ASSUME ScriptInv, NEW r \in Requests, pc[r] = "run", Top(r).of.kind # "TOP",
         Refuses(r, db) \/ Continues(r, Again(r)) \/ Continues(r, Leave(State(r)))
  PROVE  ScriptInv'
<1>1. CASE Refuses(r, db)
  BY <1>1, Running, RefusesKeeps
<1>2. CASE Continues(r, Again(r))
  BY <1>2, AgainIsOK, GoesOnKeeps
<1>3. CASE Continues(r, Leave(State(r)))
  BY <1>3, EndLeaves, GoesOnKeeps
<1> QED
  BY <1>1, <1>2, <1>3

LEMMA EndOfWhileKeeps ==
  ASSUME ScriptInv, NEW r \in Requests, EndOfWhile(r)
  PROVE  ScriptInv'
<1>1. pc[r] = "run" /\ Top(r).of.kind # "TOP"
  BY DEF EndOfWhile, AtEnd
<1>2. Refuses(r, db) \/ Continues(r, Again(r)) \/ Continues(r, Leave(State(r)))
  BY DEF EndOfWhile, Repeats
<1> QED
  BY <1>1, <1>2, TurnKeeps

LEMMA UntilOfRepeatKeeps ==
  ASSUME ScriptInv, NEW r \in Requests, UntilOfRepeat(r)
  PROVE  ScriptInv'
<1>1. pc[r] = "run" /\ Top(r).of.kind # "TOP"
  BY DEF UntilOfRepeat, AtEnd
<1>2. Refuses(r, db) \/ Continues(r, Again(r)) \/ Continues(r, Leave(State(r)))
  BY DEF UntilOfRepeat, Ceases
<1> QED
  BY <1>1, <1>2, TurnKeeps

\* The next row of a FOR takes the place of the one before.
LEMMA EndOfForKeeps ==
  ASSUME ScriptInv, NEW r \in Requests, EndOfFor(r)
  PROVE  ScriptInv'
<1> DEFINE f    == Top(r)
           key  == Key(f.of.name)
           out  == Unbind(scope[r], {key})
           new  == Bind(out, f.of.name, Head(f.rows))
           n    == Len(stack[r])
           was  == Again(r)
           next == [was EXCEPT !.stack[n].rows = Tail(f.rows), !.scope = new]
<1>1. pc[r] = "run" /\ f.of.kind = "FOR"
  BY DEF EndOfFor, AtEnd
<1>2. Continues(r, Leave(State(r))) \/ Throws(r) \/ Continues(r, next)
  BY DEF EndOfFor
<1>3. CASE Continues(r, Leave(State(r)))
  BY <1>1, <1>3, EndLeaves, GoesOnKeeps
<1>4. CASE Throws(r)
  BY <1>4, ThrowsKeeps
<1>5. CASE Continues(r, next)
  <2>1. /\ StateOK(was) /\ Len(was.stack) = n
        /\ \A k \in 0..n : BoundBy(was.stack, k) = BoundBy(stack[r], k)
    BY <1>1, AgainIsOK
  <2>2. /\ n \in 1..n /\ n \in Nat /\ f = stack[r][n]
        /\ ScopeOK(scope[r], BoundBy(stack[r], n))
        /\ n \in 0..n
    <3>1. StateOK(State(r)) /\ State(r).stack = stack[r]
      BY <1>1, StateIsOK
    <3>2. n \in 1..n /\ n \in Nat /\ f = stack[r][n]
      BY <3>1, StateOKLast DEF Top
    <3>3. ScopeOK(scope[r], BoundBy(stack[r], n))
      BY Running
    <3> QED
      BY <3>2, <3>3
  <2> DEFINE names == BoundBy(stack[r], n)
             g     == [was.stack[n] EXCEPT !.rows = Tail(f.rows)]
             t     == [was.stack EXCEPT ![n] = g]
  <2>3. key \in names
    <3>1. \A i \in (n + 1)..n : stack[r][i].of.kind # "CALL"
      BY <2>2
    <3> QED
      BY <1>1, <2>2, <3>1, BoundByMember
  <2>4. ScopeOK(new, names)
    <3>1. ScopeOK(out, names \ {key})
      BY <2>2, UnbindIsOK
    <3>2. ScopeOK(out, names)
      BY <3>1, ScopeMore
    <3> HIDE DEF out, names
    <3> QED
      BY <2>3, <3>2, BindIsOK
  <2>5. DOMAIN next = {"stack", "scope", "result"} /\ next.stack = t /\ next.scope = new
    BY <2>1 DEF StateOK
  <2>6. /\ was.stack \in Seq(ToSet(was.stack)) /\ DOMAIN was.stack = 1..n
        /\ \A k \in 1..n : DOMAIN was.stack[k] = Fields
    BY <2>1, StateOKLast
  <2>7. DOMAIN g = Fields /\ g.of = was.stack[n].of /\ g.scope = was.stack[n].scope
    BY <2>2, <2>6 DEF Fields
  <2> HIDE DEF f, key, out, new, next, g, was, n
  <2>8. t \in Seq(ToSet(t)) /\ Len(t) = Len(was.stack)
    BY <2>6, ASequenceExcept
  <2>9. \A k \in 1..n : t[k] = IF k = n THEN g ELSE was.stack[k]
    BY <2>6
  <2> HIDE DEF t
  <2>10. \A k \in 1..n : DOMAIN t[k] = Fields /\ t[k].of = was.stack[k].of /\ t[k].scope = was.stack[k].scope
    BY <2>6, <2>7, <2>9
  <2>11. FramesOK(was.stack, was.scope)
    BY <2>1 DEF StateOK
  <2>12. FramesOK(t, was.scope) /\ \A k \in 0..n : BoundBy(t, k) = BoundBy(was.stack, k)
    BY <2>1, <2>8, <2>10, <2>11, SameFrames
  <2>13. BoundBy(t, Len(t)) = names
    BY <2>1, <2>2, <2>8, <2>12
  <2> HIDE DEF names
  <2>14. FramesOK(t, new)
    BY <2>4, <2>12, <2>13, Rescoped
  <2>15. t # <<>>
    <3>1. Len(t) # 0
      BY <2>1, <2>2, <2>8
    <3> QED
      BY <3>1
  <2>16. StateOK(next)
    BY <2>5, <2>14, <2>15 DEF StateOK
  <2> QED
    BY <1>1, <1>5, <2>16, GoesOnKeeps DEF next
<1> QED
  BY <1>2, <1>3, <1>4, <1>5

LEMMA EndOfCallKeeps ==
  ASSUME ScriptInv, NEW r \in Requests, EndOfCall(r)
  PROVE  ScriptInv'
<1> DEFINE st  == Leave(State(r))
           out == [st EXCEPT !.result = IF result[r] = Nothing THEN @ ELSE result[r]]
<1>1. pc[r] = "run" /\ Top(r).of.kind # "TOP" /\ Continues(r, out)
  BY DEF EndOfCall, AtEnd
<1>2. StateOK(st)
  BY <1>1, EndLeaves
<1> HIDE DEF st
<1>3. DOMAIN out = {"stack", "scope", "result"} /\ out.stack = st.stack /\ out.scope = st.scope
  BY <1>2 DEF StateOK
<1> HIDE DEF out
<1>4. StateOK(out)
  BY <1>2, <1>3 DEF StateOK
<1> QED
  BY <1>1, <1>4, GoesOnKeeps

\* The end of a request.
LEMMA EndsKeeps ==
  ASSUME ScriptInv, NEW r \in Requests, NEW how \in {"ok", "failed"}, Ends(r, how), asked' = asked,
         DbOK(db'), db'.tx \in {db.tx, r, Nobody},
         db'.tx = r => how = "ok" \/ Together(r)
  PROVE  ScriptInv'
<1>1. /\ pc' = [pc EXCEPT ![r] = how]
      /\ stack' = [stack EXCEPT ![r] = <<>>]
      /\ scope' = [scope EXCEPT ![r] = NoScope]
  BY DEF Ends
<1>2. r \in DOMAIN pc /\ r \in DOMAIN stack /\ r \in DOMAIN scope
  BY Running
<1>3. Others(pc, pc', r) /\ pc'[r] = how
  BY ONLY <1>1, <1>2, OthersExcept
<1>4. Others(stack, stack', r) /\ stack'[r] = <<>>
  BY ONLY <1>1, <1>2, OthersExcept
<1>5. Others(scope, scope', r) /\ scope'[r] = NoScope
  BY ONLY <1>1, <1>2, OthersExcept
<1>6. FramesOK(<<>>, NoScope)
  <2>1. <<>> \in Seq(ToSet(<<>>)) /\ DOMAIN <<>> = {}
    OBVIOUS
  <2> QED
    BY <2>1, NoScopeIsOK DEF FramesOK
<1>7. RequestOK(pc'[r], stack'[r], scope'[r])
  BY <1>3, <1>4, <1>5, <1>6 DEF RequestOK
<1>8. db'.tx = r => pc'[r] = "ok" \/ (pc'[r] = "failed" /\ Together(r))
  BY <1>3
<1> QED
  BY <1>3, <1>4, <1>5, <1>7, <1>8, StepKeeps

LEMMA EndOfScriptKeeps ==
  ASSUME ScriptInv, NEW r \in Requests, EndOfScript(r)
  PROVE  ScriptInv'
<1>1. Ends(r, "ok") /\ asked' = asked /\ db' = db
  BY DEF EndOfScript
<1> QED
  BY <1>1, Running, EndsKeeps

LEMMA RollBackKeeps ==
  ASSUME ScriptInv, NEW r \in Requests, RollBack(r)
  PROVE  ScriptInv'
<1>1. Ends(r, "failed") /\ asked' = asked /\ db' = Rollback(db).db
  BY DEF RollBack
<1>2. DbOK(db)
  BY Running
<1>3. DbOK(db') /\ db'.tx \in {db.tx, r, Nobody}
  BY <1>1, <1>2, RollbackIsLawful DEF Lawful
<1>4. db'.tx # r
  <2>1. CASE db.tx = Nobody
    BY <1>1, <2>1, NobodyAssumption DEF Rollback, Error
  <2>2. CASE db.tx # Nobody
    BY <1>1, <2>2, NobodyAssumption DEF Rollback, Done, Gives
  <2> QED
    BY <2>1, <2>2
<1> QED
  BY <1>1, <1>3, <1>4, EndsKeeps

\* The outermost frame of a script.
LEMMA LaunchIsOK ==
  ASSUME NEW body
  PROVE  LET s == <<Frame([kind |-> "TOP"], body, <<>>)>>
         IN  FramesOK(s, NoScope) /\ s # <<>>
<1> DEFINE f == Frame([kind |-> "TOP"], body, <<>>)
           s == <<f>>
<1>1. DOMAIN f = Fields /\ f.of = [kind |-> "TOP"]
  BY FrameIsOK
<1> HIDE DEF f
<1>2. s \in Seq(ToSet(s)) /\ DOMAIN s = {1} /\ s[1] = f /\ s # <<>>
  <2>1. s \in Seq({f}) /\ s[1] = f /\ DOMAIN s = {1}
    OBVIOUS
  <2>2. ToSet(s) = {f}
    BY <2>1 DEF ToSet
  <2> QED
    BY <2>1, <2>2
<1> HIDE DEF s
<1>3. f.of.kind = "TOP" /\ "TOP" # "CALL"
  BY <1>1
<1>4. FramesOK(s, NoScope)
  BY <1>1, <1>2, <1>3, NoScopeIsOK DEF FramesOK
<1> QED
  BY <1>2, <1>4 DEF s, f

LEMMA StartScriptKeeps ==
  ASSUME ScriptInv, NEW r \in Requests, StartScript(r)
  PROVE  ScriptInv'
<1> DEFINE program == Program(TextOf(r))
           s == <<Frame([kind |-> "TOP"], program, <<>>)>>
<1>1. pc[r] = "wait" /\ Launches(r, program)
  BY DEF StartScript, Asks
<1>2. CASE Throws(r)
  BY <1>2, ThrowsKeeps
<1>3. CASE ~Throws(r)
  <2>1. /\ pc' = [pc EXCEPT ![r] = "run"]
        /\ stack' = [stack EXCEPT ![r] = s]
        /\ asked' = asked /\ scope' = scope /\ db' = db
    BY <1>1, <1>3 DEF Launches, Goes
  <2>2. r \in DOMAIN pc /\ r \in DOMAIN stack /\ DbOK(db)
    BY Running
  <2>3. scope[r] = NoScope
    BY <1>1 DEF ScriptInv, RequestOK
  <2>4. FramesOK(s, NoScope) /\ s # <<>>
    BY LaunchIsOK
  <2> HIDE DEF s
  <2>5. Others(pc, pc', r) /\ pc'[r] = "run"
    BY ONLY <2>1, <2>2, OthersExcept
  <2>6. Others(stack, stack', r) /\ stack'[r] = s
    BY ONLY <2>1, <2>2, OthersExcept
  <2>7. Others(scope, scope', r) /\ scope'[r] = NoScope
    BY <2>1, <2>3, OthersSame
  <2>8. RequestOK(pc'[r], stack'[r], scope'[r])
    BY <2>4, <2>5, <2>6, <2>7 DEF RequestOK
  <2> QED
    BY <2>1, <2>2, <2>5, <2>6, <2>7, <2>8, StepKeeps
<1> QED
  BY <1>2, <1>3

\* A request that waits has no transaction.
LEMMA WaitsWithNone ==
  ASSUME ScriptInv, NEW r \in Requests, pc[r] = "wait"
  PROVE  db.tx # r
BY DEF ScriptInv, MayHold

LEMMA RunQueryKeeps ==
  ASSUME ScriptInv, NEW r \in Requests, RunQuery(r)
  PROVE  ScriptInv'
<1> DEFINE sql == Translate(TextOf(r)).sql
           got == ExecuteAll(sql, <<>>, db, r)
           how == IF got.ok THEN "ok" ELSE "failed"
<1>1. pc[r] = "wait" /\ StatementType(TextOf(r)) # "SCRIPT" /\ Answers(r, got)
  BY DEF RunQuery, Asks, Changes
<1>2. DbOK(db) /\ db.tx # r
  BY <1>1, Running, WaitsWithNone
<1>3. Lawful(got, db, r) /\ (Len(StatementsOf(sql)) \in {0, 1} => Undone(got, db))
  BY <1>2, ExecuteAllIsLawful
<1>4. Together(r) <=> Len(StatementsOf(sql)) \notin {0, 1}
  BY <1>1 DEF Together
<1>5. /\ Ends(r, how) /\ asked' = asked
      /\ db' \in IF got.ok THEN {got.db} ELSE Shaken(got.db)
  BY <1>1 DEF Answers
<1> HIDE DEF got, sql
<1>6. DbOK(got.db) /\ got.db.tx \in {db.tx, r, Nobody}
  BY <1>3 DEF Lawful
<1>7. DbOK(db') /\ db'.tx = got.db.tx
  BY <1>5, <1>6, ShakenIsOK
<1>8. db'.tx = r => how = "ok" \/ Together(r)
  BY <1>2, <1>3, <1>4, <1>7 DEF Undone
<1>9. how \in {"ok", "failed"} /\ db'.tx \in {db.tx, r, Nobody}
  BY <1>6, <1>7
<1> HIDE DEF how
<1> QED
  BY <1>5, <1>7, <1>8, <1>9, EndsKeeps

LEMMA RunDdlKeeps ==
  ASSUME ScriptInv, NEW r \in Requests, RunDdl(r)
  PROVE  ScriptInv'
<1> DEFINE t == Target(TextOf(r))
<1>1. pc[r] = "wait" /\ RunTarget(r, t)
  BY DEF RunDdl
<1> HIDE DEF t
<1>2. (Ends(r, "ok") \/ Ends(r, "failed")) /\ asked' = asked /\ db' = db
  BY <1>1 DEF RunTarget, RunProcedureDdl
<1>3. DbOK(db') /\ db'.tx \in {db.tx, r, Nobody} /\ db'.tx # r
  BY <1>1, <1>2, Running, WaitsWithNone
<1> QED
  BY <1>2, <1>3, EndsKeeps

-----------------------------------------------------------------------------
(***************************************************************************)
(* The invariant holds.                                                    *)
(***************************************************************************)

LEMMA StartedIsOK ==
  TablesOK(Started, {Nobody})
<1> SUFFICES ASSUME NEW t \in DOMAIN Tables
             PROVE  TableOK(Started[t], {Nobody})
  BY DEF TablesOK, Started
<1> DEFINE rows == Started[t]
           n == Len(Tables[t])
<1>1. n \in Nat /\ DOMAIN Tables[t] = 1..n
  BY TablesAssumption
<1>2. rows = [k \in 1..n |-> [v |-> Num(Tables[t][k]), by |-> Nobody]]
  BY <1>1 DEF Started
<1>3. \A k \in 1..n : DOMAIN rows[k] = {"v", "by"} /\ rows[k].by = Nobody
  BY <1>2
<1>4. rows = [k \in 1..n |-> rows[k]] /\ DOMAIN rows = 1..n
  BY <1>2
<1> HIDE DEF rows, n
<1>5. rows \in Seq(ToSet(rows))
  BY <1>1, <1>4, ASequenceFunction
<1>6. TableOK(rows, {Nobody})
  BY <1>3, <1>4, <1>5 DEF TableOK
<1> QED
  BY <1>6 DEF rows

LEMMA ScriptInit ==
  ASSUME Init
  PROVE  ScriptInv
<1>1. DOMAIN pc = Requests /\ DOMAIN stack = Requests /\ DOMAIN scope = Requests
  BY DEF Init
<1>2. \A r \in Requests : pc[r] \in {"none", "wait"} /\ stack[r] = <<>> /\ scope[r] = NoScope
  BY DEF Init
<1>3. FramesOK(<<>>, NoScope)
  <2>1. <<>> \in Seq(ToSet(<<>>)) /\ DOMAIN <<>> = {}
    OBVIOUS
  <2> QED
    BY <2>1, NoScopeIsOK DEF FramesOK
<1>4. \A r \in Requests : RequestOK(pc[r], stack[r], scope[r])
  BY <1>2, <1>3 DEF RequestOK
<1>5. /\ DOMAIN db = {"base", "work", "tx", "spoilt"}
      /\ db.base = Started /\ db.work = Started /\ db.tx = Nobody /\ db.spoilt = FALSE
  BY DEF Init
<1>6. TablesOK(Started, {Nobody}) /\ {Nobody, Nobody} = {Nobody}
  BY StartedIsOK
<1>7. DbOK(db)
  BY <1>5, <1>6 DEF DbOK
<1>8. \A r \in Requests : db.tx # r
  BY <1>5, NobodyAssumption
<1> QED
  BY <1>1, <1>4, <1>7, <1>8 DEF ScriptInv

LEMMA ScriptStutter ==
  ASSUME ScriptInv, UNCHANGED vars
  PROVE  ScriptInv'
BY DEF ScriptInv, MayHold, Together, TextOf, vars

LEMMA ScriptStep ==
  ASSUME ScriptInv, [Next]_vars
  PROVE  ScriptInv'
<1>1. CASE UNCHANGED vars
  BY <1>1, ScriptStutter
<1>2. ASSUME NEW r \in Requests, Step(r)
      PROVE  ScriptInv'
  <2>1. CASE StartScript(r)
    BY <2>1, StartScriptKeeps
  <2>2. CASE RunQuery(r)
    BY <2>2, RunQueryKeeps
  <2>3. CASE RunDdl(r)
    BY <2>3, RunDdlKeeps
  <2>4. CASE RunDeclare(r)
    BY <2>4, RunDeclareKeeps
  <2>5. CASE SetVariables(r)
    BY <2>5, SetVariablesKeeps
  <2>6. CASE SetFromQuery(r)
    BY <2>6, SetFromQueryKeeps
  <2>7. CASE ExecuteDynamic(r)
    BY <2>7, ExecuteDynamicKeeps
  <2>8. CASE PlainSql(r)
    BY <2>8, PlainSqlKeeps
  <2>9. CASE Branch(r)
    BY <2>9, BranchKeeps
  <2>10. CASE Enter(r)
    BY <2>10, EnterKeeps
  <2>11. CASE EnterFor(r)
    BY <2>11, EnterForKeeps
  <2>12. CASE RunCall(r)
    BY <2>12, RunCallKeeps
  <2>13. CASE Break(r)
    BY <2>13, BreakKeeps
  <2>14. CASE Continue(r)
    BY <2>14, ContinueKeeps
  <2>15. CASE Return(r)
    BY <2>15, ReturnKeeps
  <2>16. CASE EndOfPlain(r)
    BY <2>16, EndOfPlainKeeps
  <2>17. CASE EndOfLoop(r)
    BY <2>17, EndOfLoopKeeps
  <2>18. CASE EndOfWhile(r)
    BY <2>18, EndOfWhileKeeps
  <2>19. CASE UntilOfRepeat(r)
    BY <2>19, UntilOfRepeatKeeps
  <2>20. CASE EndOfFor(r)
    BY <2>20, EndOfForKeeps
  <2>21. CASE EndOfCall(r)
    BY <2>21, EndOfCallKeeps
  <2>22. CASE EndOfScript(r)
    BY <2>22, EndOfScriptKeeps
  <2>23. CASE RollBack(r)
    BY <2>23, RollBackKeeps
  <2> QED
    BY ONLY <1>2, <2>1, <2>2, <2>3, <2>4, <2>5, <2>6, <2>7, <2>8, <2>9, <2>10, <2>11, <2>12, <2>13, <2>14,
       <2>15, <2>16, <2>17, <2>18, <2>19, <2>20, <2>21, <2>22, <2>23 DEF Step
<1> QED
  BY <1>1, <1>2 DEF Next, Idle

\* The invariant the theorems rest on: every script is in well-formed frames,
\* the database is consistent, and only a request that may hold the one
\* transaction has it (script.ts, queryEngine.ts:1093-1140).
THEOREM ScriptInvariant == Spec => []ScriptInv
<1>1. Init => ScriptInv
  BY ScriptInit
<1>2. ScriptInv /\ [Next]_vars => ScriptInv'
  BY ScriptStep
<1> QED
  BY <1>1, <1>2, PTL DEF Spec

LEMMA ScriptTyped ==
  ASSUME ScriptInv
  PROVE  TypeOK
<1>1. db.tx \in Requests \cup {Nobody} /\ (db.tx = Nobody => db.base = db.work /\ ~db.spoilt)
  BY DEF ScriptInv, DbOK
<1>2. ASSUME NEW r \in Requests
      PROVE  /\ pc[r] \in {"none", "wait", "run", "rollback", "ok", "failed"}
             /\ pc[r] = "run" => stack[r] # <<>> /\ stack[r][1].of.kind = "TOP"
             /\ pc[r] \in {"ok", "failed"} => stack[r] = <<>> /\ scope[r] = NoScope
             /\ DOMAIN scope[r].rows \subseteq ForNames(r)
             /\ \A key \in DOMAIN scope[r].vars :
                  /\ scope[r].vars[key].type \in DuckTypes
                  /\ scope[r].vars[key].value # Err
  <2>1. RequestOK(pc[r], stack[r], scope[r])
    BY DEF ScriptInv
  <2>2. ScopeOK(scope[r], ForNames(r))
    BY <2>1 DEF RequestOK, FramesOK, ForNames
  <2>3. pc[r] = "run" => stack[r] # <<>> /\ stack[r][1].of.kind = "TOP"
    <3>1. ASSUME pc[r] = "run"
          PROVE  stack[r] # <<>> /\ stack[r][1].of.kind = "TOP"
      <4>1. stack[r] # <<>> /\ Len(stack[r]) \in 1..Len(stack[r]) /\ DOMAIN stack[r] = 1..Len(stack[r])
        BY <3>1, Running
      <4>2. 1 \in DOMAIN stack[r]
        BY <4>1
      <4> QED
        BY <2>1, <4>1, <4>2 DEF RequestOK, FramesOK
    <3> QED
      BY <3>1
  <2> QED
    BY <2>1, <2>2, <2>3 DEF RequestOK, ScopeOK
<1> QED
  BY <1>1, <1>2 DEF TypeOK

\* At every moment of every execution the state has its type: a script has
\* frames while it runs, its FOR rows are those of the FORs it is in, whatever
\* signal left the others, and with no transaction open nothing is uncommitted
\* (script.ts:337-512).
THEOREM TypeCorrect == Spec => []TypeOK
<1>1. ScriptInv => TypeOK
  BY ScriptTyped
<1> QED
  BY <1>1, ScriptInvariant, PTL

LEMMA ScriptClean ==
  ASSUME ScriptInv
  PROVE  FailedLeavesNothing
<1> SUFFICES ASSUME NEW r \in Requests, pc[r] = "failed", ~Together(r)
             PROVE  /\ db.tx # r
                    /\ \A t \in DOMAIN db.work :
                         /\ \A k \in DOMAIN db.work[t] : db.work[t][k].by # r
                         /\ \A k \in DOMAIN db.base[t] : db.base[t][k].by # r
  BY DEF FailedLeavesNothing
<1>1. db.tx # r
  BY DEF ScriptInv, MayHold
<1>2. /\ DOMAIN db.base = DOMAIN db.work
      /\ TablesOK(db.base, {Nobody})
      /\ TablesOK(db.work, {Nobody, db.tx})
  BY DEF ScriptInv, DbOK
<1>3. r \notin {Nobody, db.tx} /\ r \notin {Nobody}
  BY <1>1, NobodyAssumption
<1> QED
  BY <1>1, <1>2, <1>3 DEF TablesOK, TableOK

\* A request that failed left no transaction open on the shared connection
\* and no uncommitted row in any table, in every execution, but for a query
\* of several statements, which nothing rolls back (queryEngine.ts:1123-1135).
THEOREM NothingLeft == Spec => []FailedLeavesNothing
<1>1. ScriptInv => FailedLeavesNothing
  BY ScriptClean
<1> QED
  BY <1>1, ScriptInvariant, PTL
=============================================================================
