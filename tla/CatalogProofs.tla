--------------------------- MODULE CatalogProofs ---------------------------
(***************************************************************************)
(* Theorems of Catalog for every set of requests, whatever they ask.       *)
(*                                                                         *)
(* What is settled of a table is proved from what each request owes it: an *)
(* undamaged table is consistent until a request is in the middle of its   *)
(* changes, and then it is as far as that request has come.  There is one  *)
(* such request at most: requests that are not careful creators are at     *)
(* work alone (or the table is in mixed), and DuckDB refuses all careful   *)
(* creators but the first.                                                 *)
(***************************************************************************)
EXTENDS Catalog, FiniteSetTheorems, SequenceTheorems, TLAPS

-----------------------------------------------------------------------------
(***************************************************************************)
(* Where a request of each kind can be.                                    *)
(***************************************************************************)
Projecting == {"clearColumns", "clearPaths", "column", "path"}
TableDrops == {"dropTable", "dropView", "dropMv"}

\* Before it has changed more than added columns.
Early(b) ==
  CASE b.kind = "createView"      -> {"start", "ended", "dataset", "ensure", "duck"}
    [] b.kind \in TableCreators \ {"createView"} -> {"start", "ended", "dataset", "ensure", "read", "duck"}
    [] b.kind \in DatasetCreators -> {"start", "ended", "read", "upsert", "write"}
    [] b.kind \in RoutineCreators -> {"start", "ended", "dataset", "ensure", "read", "duck",
                                      "upsert", "write"}
    [] b.kind = "patchTable"      -> {"start", "ended", "read", "alter", "write"}
    [] b.kind \in Patches \ {"patchTable"} -> {"start", "ended", "read", "upsert", "write"}
    [] b.kind \in Deletes         -> {"start", "ended", "forget", "remove"}
    [] b.kind \in TableDrops      -> {"start", "ended", "dataset", "ensure", "read", "duck",
                                      "forget", "remove"}
    [] b.kind = "dropSchema"      -> {"start", "ended", "read", "duck"}
    [] b.kind \in {"dropFunction", "dropProcedure"} -> {"start", "ended", "read", "duck", "forget",
                                                        "remove"}
    [] b.kind = "refresh"         -> {"start", "ended", "read", "clear"}
    [] b.kind = "list"            -> {"start", "ended", "dataset", "page"}

\* And after.
Late(b) ==
  CASE b.kind = "insertTable"     -> {"ended", "upsert", "write"} \cup Projecting
    [] b.kind \in TableCreators \ {"insertTable"} ->
         {"ended", "describe", "upsert", "write"} \cup Projecting
    [] b.kind \in DatasetCreators -> {"ended", "ensure"}
    [] b.kind \in RoutineCreators -> {"ended", "upsert", "write"}
    [] b.kind = "patchTable"      -> {"ended"} \cup Projecting
    [] b.kind \in Patches \ {"patchTable"} -> {"ended"}
    [] b.kind = "deleteTable"     -> {"ended", "removeColumns", "removePaths", "drop"}
    [] b.kind \in Deletes \ {"deleteTable"} -> {"ended"}
    [] b.kind \in TableDrops      -> {"ended", "forget", "remove", "removeColumns", "removePaths"}
    [] b.kind = "dropSchema"      -> {"ended", "forgetTables", "forget", "remove"}
    [] b.kind \in {"dropFunction", "dropProcedure"} -> {"ended", "forget", "remove"}
    [] b.kind = "refresh"         -> {"ended", "fill"}
    [] b.kind = "list"            -> {}

\* A request's locals are of use: what it has read is there when it writes, and
\* its counters are places in the schema it writes.
LocalOK(r) ==
  /\ Pc(r) \in IF req[r].dirty THEN Late(B(r)) ELSE Early(B(r))
  /\ B(r).kind \in Patches /\ Pc(r) \in {"alter", "upsert", "write"} \cup Projecting => req[r].was \in Row
  /\ Pc(r) \in {"column", "path"} => req[r].at \in DOMAIN Input(r).fields
  /\ Pc(r) = "path" => req[r].sub \in 0..Len(Input(r).fields[req[r].at].subs)
  /\ Pc(r) # "ended" => req[r].outcome = "none"

TypeInv == TypeOK /\ \A r \in Requests : LocalOK(r)

\* Requests at work on one id together, unless they all are careful creators.
MixedInv ==
  \A r, s \in Requests :
    r # s /\ Active(r) /\ Active(s) /\ ~(Careful(B(r)) /\ Careful(B(s))) =>
      Touches(B(r)) \cap Touches(B(s)) \subseteq mixed

HeldInv ==
  \A r \in Requests :
    B(r).match /\ Pc(r) \in {"write", "remove"} /\ NameOf(r) \notin mixed \cup Routines =>
      RowOf(r) = req[r].held

Removing == \E s \in Requests : B(s).kind \in Deletes \cup Drops /\ Pc(s) # "start"

\* What was there early is listed, or comes on a later page.
Coming(r) ==
  \A n \in req[r].early :
    \/ n \in req[r].seen
    \/ /\ req[r].outcome # "ok"
       /\ n \in Listed(NameOf(r)) /\ Rank(n, Listed(NameOf(r))) >= req[r].at

ListInv ==
  \A r \in Requests : B(r).kind = "list" =>
    /\ req[r].at = 0 /\ Pc(r) # "ended" => req[r].early = {}
    /\ ~Removing => Coming(r)

\* n is undamaged: no two requests were at work on it together, none stopped
\* half way.
Clean(n) == n \notin mixed /\ \A r \in Requests : Stopped(r) => n \notin Touches(B(r))

\* A request that has yet to make the schema of d, or to remove d's row.
Owing(r, d) == /\ Active(r) /\ d \in Touches(B(r)) /\ req[r].dirty
               /\ Pc(r) \in {"ensure", "forgetTables", "forget", "remove"}

DatasetInv ==
  \A d \in Datasets : Clean(d) =>
    /\ row[d] # NoRow /\ d \notin schemas => \E r \in Requests : Owing(r, d)
    /\ \A r \in Requests :
         B(r).kind = "patchDataset" /\ NameOf(r) = d /\ Pc(r) \in {"upsert", "write"} => row[d] # NoRow

\* A table and its row, its projections and its data.
Consistent(t) ==
  IF row[t] = NoRow THEN ~Has(t)
  ELSE /\ duck[t].kind = KindOf(row[t].type) /\ Holds(duck[t], row[t].fields)
       /\ Sound(row[t].fields)
       /\ columns[t] = Range(row[t].fields) /\ paths[t] = FieldPaths(row[t].fields)
       /\ row[t].type = "MATERIALIZED_VIEW" => duck[t].copies = 1

\* What DuckDB has for the row that r writes.  Fields with one name twice are
\* not looked for: the insertion of the second one's column will fail.
Built(r, t) ==
  LET new == Input(r)
  IN  /\ duck[t].kind = KindOf(new.type)
      /\ Distinct(new.fields) => Holds(duck[t], new.fields)
      /\ new.type = "MATERIALIZED_VIEW" => duck[t].copies = 1

\* The row a PATCH writes is as sound as what it was asked.
Whole(r) == B(r).kind = "patchTable" /\ Sound(B(r).fields) => Sound(Input(r).fields)

\* No subfield twice before subfield k of field i.
SoundTo(F, i, k) ==
  /\ \A j \in 1..i-1 : IsInjective(F[j].subs)
  /\ \A l, m \in 1..k-1 : F[i].subs[l] = F[i].subs[m] => l = m

\* How far the projections have come: columns before place i, paths before
\* subfield k of field i.
ColumnsTo(r, t, i) ==
  LET F == Input(r).fields
  IN  /\ columns[t] = {F[j] : j \in 1..i-1}
      /\ \A j, k \in 1..i-1 : F[j].name = F[k].name => j = k

PathsTo(r, t, i, k) ==
  LET F == Input(r).fields
  IN  /\ paths[t] = (UNION {{Path(F[j], l) : l \in 0..Len(F[j].subs)} : j \in 1..i-1})
                    \cup {Path(F[i], l) : l \in 0..k-1}
      /\ SoundTo(F, i, k)

\* What request r, which is at work on table t alone and has changed it, has
\* made of it so far.
Stage(r, t) ==
  LET p == Pc(r)
      b == B(r)
      F == Input(r).fields
  IN  /\ b.kind \in TableCreators /\ p = "describe" =>
           /\ duck[t].kind = (IF b.kind = "createView" THEN "view" ELSE "table")
           /\ b.kind # "createView" => duck[t].copies = 1
      /\ p \in {"upsert", "write"} \cup Projecting => Built(r, t)
      /\ p \in Projecting => row[t] = Input(r) /\ Whole(r)
      /\ p = "clearPaths" => columns[t] = {}
      /\ p = "column" => ColumnsTo(r, t, req[r].at) /\ paths[t] = {}
      /\ p = "path" => ColumnsTo(r, t, Len(F) + 1) /\ PathsTo(r, t, req[r].at, req[r].sub)
      /\ b.kind = "deleteTable" => row[t] = NoRow
      /\ b.kind \in TableDrops => ~Has(t) /\ (p \in {"removeColumns", "removePaths"} => row[t] = NoRow)
      /\ p = "fill" => /\ row[t] # NoRow /\ row[t].type = "MATERIALIZED_VIEW"
                       /\ duck[t].kind = "table" /\ Holds(duck[t], row[t].fields)
                       /\ Sound(row[t].fields)
                       /\ columns[t] = Range(row[t].fields) /\ paths[t] = FieldPaths(row[t].fields)
                       /\ duck[t].copies = 0
      /\ p = "forgetTables" => ~Has(t)
      /\ b.kind = "dropSchema" /\ p \in {"forget", "remove"} => Consistent(t)

\* What r has found of table t, at work on it alone, before it changes it.
Prepared(r, t) ==
  LET p == Pc(r)
      b == B(r)
      was == req[r].was
  IN  /\ b.kind = "patchTable" /\ p \in {"start", "read"} => req[r].at = 0
      /\ b.kind = "patchTable" /\ p \in {"alter", "write"} =>
           /\ was = row[t]
           /\ b.fields # <<>> => Extends(was.fields, b.fields)
           /\ \A i \in Added(was.fields, b.fields) :
                i <= req[r].at \/ p = "write" => b.fields[i] \in Range(duck[t].fields)
      /\ b.kind = "refresh" /\ p = "clear" => row[t] # NoRow /\ row[t].type = "MATERIALIZED_VIEW"
      /\ b.kind \in TableDrops /\ p \in {"forget", "remove"} => ~Has(t)

\* r has changed t, and is not done.
Amid(r, t) == Active(r) /\ req[r].dirty /\ t \in Touches(B(r))

\* What is undamaged of a table: one request at most is in the middle of its
\* changes, and the table is as far as that one has come; else it is consistent.
TableOK(t) ==
  /\ \A r, s \in Requests : Amid(r, t) /\ Amid(s, t) => r = s
  /\ \A r \in Requests : Amid(r, t) => Stage(r, t)
  /\ (\A r \in Requests : ~Amid(r, t)) => Consistent(t)
  /\ \A r \in Requests : t \in Touches(B(r)) => Prepared(r, t)

TableInv == \A t \in Tables : Clean(t) => TableOK(t)

-----------------------------------------------------------------------------
(***************************************************************************)
(* Types.                                                                  *)
(***************************************************************************)
Pcs == {"start", "dataset", "ensure", "read", "duck", "describe", "alter", "upsert", "write",
        "clearColumns", "clearPaths", "column", "path", "forgetTables", "forget", "remove",
        "removeColumns", "removePaths", "drop", "clear", "fill", "page", "ended"}

\* A request's steps change nothing of the other requests.
Others(r) == /\ req' \in [Requests -> Locals]
             /\ \A s \in Requests \ {r} : req'[s] = req[s]
             /\ B(r)' = B(r)

\* All of r that no statement but the one it is read by changes.
Same(r) == /\ req'[r].held = req[r].held /\ req'[r].was = req[r].was
           /\ req'[r].fields = req[r].fields /\ req'[r].at = req[r].at /\ req'[r].sub = req[r].sub
           /\ req'[r].seen = req[r].seen /\ req'[r].early = req[r].early

\* To, Did, End and DidEnd: a request goes on, or ends.
LEMMA Goes ==
  ASSUME NEW r \in Requests, req \in [Requests -> Locals], NEW p \in Pcs, To(r, p)
  PROVE  /\ Others(r) /\ Same(r) /\ Pc(r)' = p
         /\ req'[r].dirty = req[r].dirty /\ req'[r].outcome = req[r].outcome
<1>1. req[r] \in Locals  OBVIOUS
<1>2. req'[r] = [req[r] EXCEPT !.pc = p]  BY DEF To
<1>3. [req[r] EXCEPT !.pc = p] \in Locals  BY <1>1 DEF Locals, Pcs
<1>4. req' \in [Requests -> Locals] /\ \A s \in Requests \ {r} : req'[s] = req[s]
  BY <1>3 DEF To
<1> QED  BY <1>1, <1>2, <1>4 DEF Others, Same, Pc, B, Locals

\* Did: r goes on, and has changed something.
LEMMA Does ==
  ASSUME NEW r \in Requests, req \in [Requests -> Locals], NEW p \in Pcs, Did(r, p)
  PROVE  /\ Others(r) /\ Same(r) /\ Pc(r)' = p
         /\ req'[r].dirty = TRUE /\ req'[r].outcome = req[r].outcome
<1>1. req[r] \in Locals  OBVIOUS
<1>2. req'[r] = [req[r] EXCEPT !.pc = p, !.dirty = TRUE]  BY DEF Did
<1>3. [req[r] EXCEPT !.pc = p, !.dirty = TRUE] \in Locals  BY <1>1 DEF Locals, Pcs
<1>4. req' \in [Requests -> Locals] /\ \A s \in Requests \ {r} : req'[s] = req[s]
  BY <1>3 DEF Did
<1> QED  BY <1>1, <1>2, <1>4 DEF Others, Same, Pc, B, Locals

\* End: r ends with the outcome o.
LEMMA Ends ==
  ASSUME NEW r \in Requests, req \in [Requests -> Locals], NEW o \in {"ok", "error"}, End(r, o)
  PROVE  /\ Others(r) /\ Same(r) /\ Pc(r)' = "ended"
         /\ req'[r].dirty = req[r].dirty /\ req'[r].outcome = o
<1>1. req[r] \in Locals  OBVIOUS
<1>2. req'[r] = [req[r] EXCEPT !.pc = "ended", !.outcome = o]  BY DEF End
<1>3. [req[r] EXCEPT !.pc = "ended", !.outcome = o] \in Locals  BY <1>1 DEF Locals
<1>4. req' \in [Requests -> Locals] /\ \A s \in Requests \ {r} : req'[s] = req[s]
  BY <1>3 DEF End
<1> QED  BY <1>1, <1>2, <1>4 DEF Others, Same, Pc, B, Locals

\* DidEnd: r ends with its last change.
LEMMA EndsDone ==
  ASSUME NEW r \in Requests, req \in [Requests -> Locals], DidEnd(r)
  PROVE  /\ Others(r) /\ Same(r) /\ Pc(r)' = "ended"
         /\ req'[r].dirty = TRUE /\ req'[r].outcome = "ok"
<1>1. req[r] \in Locals  OBVIOUS
<1>2. req'[r] = [req[r] EXCEPT !.pc = "ended", !.outcome = "ok", !.dirty = TRUE]  BY DEF DidEnd
<1>3. [req[r] EXCEPT !.pc = "ended", !.outcome = "ok", !.dirty = TRUE] \in Locals
  BY <1>1 DEF Locals
<1>4. req' \in [Requests -> Locals] /\ \A s \in Requests \ {r} : req'[s] = req[s]
  BY <1>3 DEF DidEnd
<1> QED  BY <1>1, <1>2, <1>4 DEF Others, Same, Pc, B, Locals

\* What a request is, and what it names.
LEMMA BodyTyped ==
  ASSUME NEW r \in Requests, req \in [Requests -> Locals]
  PROVE  /\ B(r) \in Body /\ B(r).kind \in Kinds /\ NameOf(r) \in Nameable(B(r).kind)
         /\ NameOf(r) \in Names /\ B(r).source \in Tables /\ B(r).fields \in Seq(Field)
         /\ B(r).text \in Texts /\ B(r).match \in BOOLEAN
         /\ B(r).match => B(r).kind \in Patches \cup Deletes
BY DEF Locals, Body, B, NameOf

\* The ids of each sort are disjoint.
LEMMA Sorts ==
  /\ DOMAIN Home = Tables \cup Routines \cup Models /\ Datasets \cap DOMAIN Home = {}
  /\ \A n \in DOMAIN Home : Home[n] \in Datasets
  /\ \A n \in Names : DatasetOf(n) \in Datasets
  /\ \A d \in Datasets : Within(d) \subseteq Names \ Datasets
BY CatalogAssumption DEF Names, DatasetOf, Within

\* What a request touches are ids.
LEMMA TouchesNames ==
  ASSUME NEW r \in Requests, req \in [Requests -> Locals]
  PROVE  Touches(B(r)) \subseteq Names
<1>1. NameOf(r) \in Names /\ NameOf(r) \in Nameable(B(r).kind)  BY BodyTyped
<1>2. CASE B(r).kind = "list"  BY <1>2 DEF Touches
<1>3. CASE B(r).kind = "dropSchema"
  <2>1. NameOf(r) \in Datasets
    BY <1>1, <1>3 DEF Nameable, TableCreators, DatasetCreators, RoutineCreators
  <2> QED  BY <1>1, <1>3, <2>1, Sorts DEF Touches, NameOf
<1>4. CASE B(r).kind \notin {"list", "dropSchema"}  BY <1>1, <1>4 DEF Touches, NameOf
<1> QED  BY <1>2, <1>3, <1>4

\* A row is a record of its four fields.
LEMMA RowFields ==
  ASSUME NEW a \in Row
  PROVE  a.type \in Types /\ a.fields \in Seq(Field) /\ a.text \in Texts
         /\ a.query \in Tables \cup {NoName}
BY DEF Row

\* What a creator writes is a row.
LEMMA FreshRow ==
  ASSUME NEW r \in Requests, req \in [Requests -> Locals]
  PROVE  /\ Fresh(r) \in Row
         /\ B(r).kind = "insertTable" => Fresh(r).fields = B(r).fields /\ Fresh(r).type = "TABLE"
         /\ B(r).kind = "createTable" => Fresh(r).fields = req[r].fields /\ Fresh(r).type = "TABLE"
         /\ B(r).kind = "createView"  => Fresh(r).fields = req[r].fields /\ Fresh(r).type = "VIEW"
         /\ B(r).kind = "createMv"    => Fresh(r).fields = req[r].fields
                                         /\ Fresh(r).type = "MATERIALIZED_VIEW"
<1>1. B(r).fields \in Seq(Field) /\ B(r).text \in Texts /\ B(r).source \in Tables
  BY BodyTyped
<1>2. req[r] \in Locals  OBVIOUS
<1>3. req[r].fields \in Seq(Field)  BY <1>2 DEF Locals
<1>4. NoText \in Texts /\ <<>> \in Seq(Field)  BY DEF Texts
<1> QED  BY <1>1, <1>3, <1>4 DEF Fresh, Row, Made, Types, DatasetCreators

\* What a PATCH writes is a row of the type it has read.
LEMMA MergedRow ==
  ASSUME NEW r \in Requests, req \in [Requests -> Locals], req[r].was \in Row
  PROVE  /\ Merged(r) \in Row /\ Merged(r).type = req[r].was.type
         /\ B(r).kind = "patchTable" =>
              Merged(r).fields = IF B(r).fields # <<>> THEN B(r).fields ELSE req[r].was.fields
<1>1. B(r).fields \in Seq(Field) /\ B(r).text \in Texts  BY BodyTyped
<1> QED  BY <1>1, RowFields DEF Merged, Row, Made

\* A request that is about to write has a row to write.
LEMMA InputRow ==
  ASSUME NEW r \in Requests, req \in [Requests -> Locals], LocalOK(r),
         Pc(r) \in {"alter", "upsert", "write"} \cup Projecting
  PROVE  Input(r) \in Row
<1>1. CASE B(r).kind \in Patches
  <2>1. req[r].was \in Row  BY <1>1 DEF LocalOK
  <2> QED  BY <1>1, <2>1, MergedRow DEF Input
<1>2. CASE B(r).kind \notin Patches  BY <1>2, FreshRow DEF Input
<1> QED  BY <1>1, <1>2

\* What a request writes depends on its own locals alone.
LEMMA InputSame ==
  ASSUME NEW r \in Requests, B(r)' = B(r), Same(r)
  PROVE  Input(r)' = Input(r)
<1>1. Fresh(r)' = Fresh(r)  BY DEF Fresh, Same
<1>2. Merged(r)' = Merged(r)  BY DEF Merged, Same
<1> QED  BY <1>1, <1>2 DEF Input

\* A request that nothing changes is still in order.
LEMMA LocalKept ==
  ASSUME NEW s \in Requests, req'[s] = req[s], LocalOK(s)
  PROVE  LocalOK(s)'
<1>1. B(s)' = B(s) /\ Pc(s)' = Pc(s) /\ Same(s)  BY DEF B, Pc, Same
<1>2. Input(s)' = Input(s)  BY <1>1, InputSame
<1> QED  BY <1>1, <1>2 DEF LocalOK

\* Paths are names of names.
LEMMA PathTyped ==
  ASSUME NEW f \in Field, NEW k \in 0..Len(f.subs)
  PROVE  Path(f, k) \in Seq(STRING)
<1>1. f.name \in STRING /\ f.subs \in Seq(STRING)  BY DEF Field
<1>2. CASE k = 0  BY <1>1, <1>2 DEF Path
<1>3. CASE k # 0
  <2>1. k \in 1..Len(f.subs)  BY <1>1, <1>3, LenProperties
  <2>2. f.subs[k] \in STRING  BY <1>1, <2>1, ElementOfSeq
  <2> QED  BY <1>1, <1>3, <2>2 DEF Path
<1> QED  BY <1>2, <1>3

\* A schema's fields are fields, and their paths sequences of names.
LEMMA FieldPathsTyped ==
  ASSUME NEW fields \in Seq(Field)
  PROVE  Range(fields) \subseteq Field /\ FieldPaths(fields) \in SUBSET Seq(STRING)
<1>1. Range(fields) \subseteq Field  BY DEF Range
<1> QED  BY <1>1, PathTyped DEF FieldPaths

\* DESCRIBE answers the fields, without their modes.
LEMMA DescribedTyped ==
  ASSUME NEW thing \in Thing
  PROVE  /\ Described(thing) \in Seq(Field)
         /\ Holds(thing, Described(thing))
<1> DEFINE F == thing.fields
           D == Described(thing)
<1>1. F \in Seq(Field)  BY DEF Thing
<1>2. \A i \in DOMAIN F : /\ F[i] \in Field
                          /\ D[i] = [F[i] EXCEPT !.mode = "NULLABLE"]
  BY <1>1 DEF Described
<1>3. \A i \in DOMAIN F : /\ D[i] \in Field
                          /\ D[i].name = F[i].name /\ D[i].type = F[i].type /\ D[i].subs = F[i].subs
  BY <1>2 DEF Field
<1>4. DOMAIN D = DOMAIN F  BY DEF Described
<1>5. D \in Seq(Field)
  <2>1. D = [i \in 1..Len(F) |-> D[i]] /\ Len(F) \in Nat  BY <1>1, <1>4 DEF Described
  <2>2. D \in [1..Len(F) -> Field]  BY <1>1, <1>3, <1>4, <2>1
  <2> QED  BY <2>1, <2>2, SeqDef
<1>6. Holds(thing, D)
  <2> SUFFICES ASSUME NEW f \in Range(D)
               PROVE  \E c \in Range(F) : c.name = f.name /\ c.type = f.type /\ c.subs = f.subs
    BY DEF Holds
  <2>1. PICK i \in DOMAIN F : f = D[i]  BY <1>4 DEF Range
  <2>2. F[i] \in Range(F)  BY <2>1 DEF Range
  <2> QED  BY <1>3, <2>1, <2>2
<1> QED  BY <1>5, <1>6

\* Lists are lists of ids.
LEMMA ListedNames ==
  ASSUME NEW n \in Names
  PROVE  Listed(n) \subseteq Names
BY CatalogAssumption DEF Names, Listed, DatasetsOf, TablesOf, RoutinesOf, ModelsOf

\* The catalog is as it was, and so are its types.
LEMMA CatalogKept ==
  ASSUME TypeOK, UNCHANGED <<metaVars, duckVars>>, req' \in [Requests -> Locals],
         mixed' \subseteq Names, crashes' \in 0..MaxCrashes
  PROVE  TypeOK'
BY DEF TypeOK, metaVars, duckVars

\* The first statements.
LEMMA StartType ==
  ASSUME TypeInv, NEW r \in Requests, Start(r)
  PROVE  TypeOK' /\ Others(r) /\ LocalOK(r)' /\ Same(r)
<1>0. req \in [Requests -> Locals] /\ LocalOK(r) /\ TypeOK  BY DEF TypeInv, TypeOK
<1>1. Pc(r) = "start" /\ To(r, First(B(r)))  BY DEF Start
<1>2. First(B(r)) \in Pcs  BY DEF First, Pcs
<1>3. /\ Others(r) /\ Same(r) /\ Pc(r)' = First(B(r))
      /\ req'[r].dirty = req[r].dirty /\ req'[r].outcome = req[r].outcome
  BY <1>0, <1>1, <1>2, Goes
<1>4. mixed' \subseteq Names
  <2>1. \A s \in Requests : Touches(B(s)) \subseteq Names  BY <1>0, TouchesNames
  <2>2. mixed \subseteq Names  BY <1>0 DEF TypeOK
  <2> QED  BY <2>1, <2>2 DEF Start
<1>5. TypeOK'
  BY <1>0, <1>3, <1>4, CatalogKept DEF Start, Others, TypeOK
<1>6. LocalOK(r)'
  <2>1. B(r).kind \in Kinds  BY <1>0, BodyTyped
  <2>2. ~req[r].dirty  BY <1>0, <1>1, <2>1 DEF LocalOK, Late, Projecting, TypeOK, Kinds, Locals,
     TableCreators, DatasetCreators, RoutineCreators, Creators, Patches, Deletes, Drops, TableDrops
  <2>3. First(B(r)) \in Early(B(r)) /\ First(B(r)) \notin {"alter", "upsert", "write"} \cup Projecting
    BY <2>1 DEF First, Early, Projecting, Kinds, TableCreators, DatasetCreators, RoutineCreators,
     Creators, Patches, Deletes, Drops, TableDrops
  <2> QED  BY <1>0, <1>1, <1>3, <2>2, <2>3 DEF LocalOK, Others, Projecting
<1> QED  BY <1>3, <1>5, <1>6

\* What the type invariant says of one request.
LEMMA OneRequest ==
  ASSUME TypeInv, NEW r \in Requests
  PROVE  /\ TypeOK /\ req \in [Requests -> Locals] /\ req[r] \in Locals /\ LocalOK(r)
         /\ B(r).kind \in Kinds /\ NameOf(r) \in Nameable(B(r).kind) /\ NameOf(r) \in Names
         /\ req[r].dirty \in BOOLEAN
<1>1. TypeOK /\ LocalOK(r) /\ req \in [Requests -> Locals]  BY DEF TypeInv, TypeOK
<1>2. req[r] \in Locals  BY <1>1
<1>3. req[r].dirty \in BOOLEAN  BY <1>2 DEF Locals
<1> QED  BY <1>1, <1>2, <1>3, BodyTyped

\* A statement that leaves the catalog alone keeps its types.
LEMMA FrameKept ==
  ASSUME TypeOK, UNCHANGED <<metaVars, duckVars>>, Frame, req' \in [Requests -> Locals]
  PROVE  TypeOK'
<1>1. mixed' \subseteq Names /\ crashes' \in 0..MaxCrashes  BY DEF TypeOK, Frame
<1> QED  BY <1>1, CatalogKept

\* A request that goes to the await p keeps its locals in order.
LEMMA LocalGoes ==
  ASSUME NEW r \in Requests, LocalOK(r), Others(r), Same(r), Pc(r) # "ended",
         Pc(r)' \in IF req'[r].dirty THEN Late(B(r)) ELSE Early(B(r)),
         Pc(r)' \notin {"column", "path"}, req'[r].outcome = req[r].outcome,
         B(r).kind \in Patches /\ Pc(r)' \in {"alter", "upsert", "write"} \cup Projecting =>
           Pc(r) \in {"alter", "upsert", "write"} \cup Projecting
  PROVE  LocalOK(r)'
BY DEF LocalOK, Others, Same

\* A request that ends has no use for its locals any more.
LEMMA LocalEnds ==
  ASSUME TypeInv, NEW r \in Requests, Others(r), Pc(r)' = "ended",
         req'[r].dirty = req[r].dirty \/ (req'[r].dirty = TRUE /\ B(r).kind # "list")
  PROVE  LocalOK(r)'
<1>1. LocalOK(r) /\ B(r).kind \in Kinds /\ req[r].dirty \in BOOLEAN  BY OneRequest
<1>2. "ended" \in Early(B(r)) /\ (B(r).kind # "list" => "ended" \in Late(B(r)))
  BY <1>1 DEF Early, Late, Kinds, TableCreators, DatasetCreators, RoutineCreators,
     Creators, Patches, Deletes, Drops, TableDrops
<1>3. B(r).kind = "list" => ~req[r].dirty
  BY <1>1 DEF LocalOK, Late, TableCreators, DatasetCreators, RoutineCreators,
     Creators, Patches, Deletes, Drops, TableDrops
<1> QED  BY <1>1, <1>2, <1>3 DEF LocalOK, Others, Projecting

USE DEF TableCreators, DatasetCreators, RoutineCreators, Creators, Patches, Deletes, Drops,
        TableDrops, Kinds, Projecting

\* To, Did, End and DidEnd keep a request's locals in order, when they go where
\* a request of that kind can be.
LEMMA TypeGoes ==
  ASSUME TypeInv, NEW r \in Requests, NEW p \in Pcs \ {"column", "path"}, To(r, p), Pc(r) # "ended",
         p \in IF req[r].dirty THEN Late(B(r)) ELSE Early(B(r)),
         B(r).kind \in Patches /\ p \in {"alter", "upsert", "write"} \cup Projecting =>
           Pc(r) \in {"alter", "upsert", "write"} \cup Projecting
  PROVE  Others(r) /\ LocalOK(r)' /\ Same(r)
<1>1. req \in [Requests -> Locals] /\ LocalOK(r)  BY OneRequest
<1>2. /\ Others(r) /\ Same(r) /\ Pc(r)' = p
      /\ req'[r].dirty = req[r].dirty /\ req'[r].outcome = req[r].outcome
  BY <1>1, Goes
<1> QED  BY <1>1, <1>2, LocalGoes

\* Did, to an await of a request that has changed something.
LEMMA TypeDoes ==
  ASSUME TypeInv, NEW r \in Requests, NEW p \in Pcs \ {"column", "path"}, Did(r, p), Pc(r) # "ended",
         p \in Late(B(r)),
         B(r).kind \in Patches /\ p \in {"alter", "upsert", "write"} \cup Projecting =>
           Pc(r) \in {"alter", "upsert", "write"} \cup Projecting
  PROVE  Others(r) /\ LocalOK(r)' /\ Same(r)
<1>1. req \in [Requests -> Locals] /\ LocalOK(r)  BY OneRequest
<1>2. /\ Others(r) /\ Same(r) /\ Pc(r)' = p
      /\ req'[r].dirty = TRUE /\ req'[r].outcome = req[r].outcome
  BY <1>1, Does
<1> QED  BY <1>1, <1>2, LocalGoes

\* End keeps a request's locals in order.
LEMMA TypeEnds ==
  ASSUME TypeInv, NEW r \in Requests, NEW o \in {"ok", "error"}, End(r, o)
  PROVE  Others(r) /\ LocalOK(r)' /\ Same(r)
<1>1. req \in [Requests -> Locals]  BY OneRequest
<1>2. Others(r) /\ Same(r) /\ Pc(r)' = "ended" /\ req'[r].dirty = req[r].dirty  BY <1>1, Ends
<1> QED  BY <1>2, LocalEnds

\* DidEnd keeps a request's locals in order.
LEMMA TypeDone ==
  ASSUME TypeInv, NEW r \in Requests, DidEnd(r), B(r).kind # "list"
  PROVE  Others(r) /\ LocalOK(r)' /\ Same(r)
<1>1. req \in [Requests -> Locals]  BY OneRequest
<1>2. Others(r) /\ Same(r) /\ Pc(r)' = "ended" /\ req'[r].dirty = TRUE  BY <1>1, EndsDone
<1> QED  BY <1>2, LocalEnds

\* A statement that leaves the catalog alone.
LEMMA TypeReads ==
  ASSUME TypeInv, NEW r \in Requests, Others(r), UNCHANGED <<metaVars, duckVars>>, Frame
  PROVE  TypeOK'
BY OneRequest, FrameKept DEF Others

\* The GET of a client that will send If-Match.
LEMMA GetType ==
  ASSUME TypeInv, NEW r \in Requests, Get(r)
  PROVE  TypeOK' /\ Others(r) /\ LocalOK(r)'
<1>0. /\ TypeOK /\ req \in [Requests -> Locals] /\ req[r] \in Locals /\ LocalOK(r)
      /\ NameOf(r) \in Names
  BY OneRequest
<1>1. CASE RowOf(r) = NoRow
  <2>1. End(r, "error")  BY <1>1 DEF Get
  <2>2. Others(r) /\ LocalOK(r)'  BY <2>1, TypeEnds
  <2>3. TypeOK'  BY <1>0, <2>2, FrameKept DEF Get, Others
  <2> QED  BY <2>2, <2>3
<1>2. CASE RowOf(r) # NoRow
  <2> DEFINE l == [req[r] EXCEPT !.held = RowOf(r)]
  <2>1. req' = [req EXCEPT ![r].held = RowOf(r)]  BY <1>2 DEF Get
  <2>2. RowOf(r) \in Row  BY <1>0, <1>2 DEF TypeOK, RowOf
  <2>3. l \in Locals  BY <1>0, <2>2 DEF Locals
  <2>4. /\ req'[r] = l /\ req' \in [Requests -> Locals]
        /\ \A s \in Requests \ {r} : req'[s] = req[s]
    BY <1>0, <2>1, <2>3
  <2>5. /\ l.body = req[r].body /\ l.pc = req[r].pc /\ l.dirty = req[r].dirty
        /\ l.outcome = req[r].outcome
    BY <1>0 DEF Locals
  <2>6. Others(r) /\ Pc(r)' = Pc(r) /\ Pc(r) = "start"
    BY <2>4, <2>5 DEF Others, B, Pc, Get
  <2>7. TypeOK'  BY <1>0, <2>4, FrameKept DEF Get
  <2>8. LocalOK(r)'  BY <1>0, <2>4, <2>5, <2>6 DEF LocalOK, Others
  <2> QED  BY <2>6, <2>7, <2>8
<1> QED  BY <1>1, <1>2

\* getDataset of the parent.
LEMMA ParentDatasetType ==
  ASSUME TypeInv, NEW r \in Requests, ParentDataset(r)
  PROVE  TypeOK' /\ Others(r) /\ LocalOK(r)'
<1>0. LocalOK(r) /\ B(r).kind \in Kinds  BY OneRequest
<1>1. CASE row[DatasetOf(NameOf(r))] = NoRow
  BY <1>1, TypeEnds, TypeReads DEF ParentDataset
<1>2. CASE row[DatasetOf(NameOf(r))] # NoRow
  <2> DEFINE p == AfterDataset(B(r))
  <2>1. To(r, p) /\ Pc(r) = "dataset"  BY <1>2 DEF ParentDataset
  <2>2. p \in {"page", "read", "ensure"}  BY DEF AfterDataset
  <2>3. ~req[r].dirty /\ p \in Early(B(r))
    BY <1>0, <2>1 DEF LocalOK, Early, Late, AfterDataset
  <2>4. p \in Pcs \ {"column", "path"}  BY <2>2 DEF Pcs
  <2> HIDE DEF p
  <2>5. Others(r) /\ LocalOK(r)'  BY <2>1, <2>2, <2>3, <2>4, TypeGoes
  <2> QED  BY <2>5, TypeReads DEF ParentDataset
<1> QED  BY <1>1, <1>2

\* CREATE SCHEMA IF NOT EXISTS.
LEMMA EnsureType ==
  ASSUME TypeInv, NEW r \in Requests, EnsureDatasetSchema(r)
  PROVE  TypeOK' /\ Others(r) /\ LocalOK(r)'
<1>0. TypeOK /\ LocalOK(r) /\ B(r).kind \in Kinds /\ NameOf(r) \in Names  BY OneRequest
<1>1. Pc(r) = "ensure" /\ schemas' = schemas \cup {DatasetOf(NameOf(r))} /\ Frame
      /\ UNCHANGED <<row, columns, paths, duck>>
  BY DEF EnsureDatasetSchema, metaVars
<1>2. schemas' \subseteq Datasets  BY <1>0, <1>1, Sorts DEF TypeOK
<1>3. ASSUME Others(r) PROVE TypeOK'
  BY <1>0, <1>1, <1>2, <1>3 DEF TypeOK, Others, Frame
<1>4. CASE B(r).kind \in DatasetCreators
  <2>1. DidEnd(r)  BY <1>4 DEF EnsureDatasetSchema
  <2>2. Others(r) /\ LocalOK(r)'  BY <1>4, <2>1, TypeDone
  <2> QED  BY <1>3, <2>2
<1>5. CASE B(r).kind \notin DatasetCreators
  <2> DEFINE p == IF B(r).kind \in {"createTable", "createMv", "dropMv"} THEN "read" ELSE "duck"
  <2>1. To(r, p)  BY <1>5 DEF EnsureDatasetSchema
  <2>2. p \in {"read", "duck"} /\ p \in Pcs \ {"column", "path"}  BY DEF Pcs
  <2>3. ~req[r].dirty /\ p \in Early(B(r))  BY <1>0, <1>1, <1>5 DEF LocalOK, Early, Late
  <2> HIDE DEF p
  <2>4. Others(r) /\ LocalOK(r)'  BY <1>1, <2>1, <2>2, <2>3, TypeGoes
  <2> QED  BY <1>3, <2>4
<1> QED  BY <1>4, <1>5

\* What the handlers read.
LEMMA ReadNewType ==
  ASSUME TypeInv, NEW r \in Requests, ReadNew(r)
  PROVE  TypeOK' /\ Others(r) /\ LocalOK(r)'
<1>0. LocalOK(r) /\ B(r).kind \in Kinds  BY OneRequest
<1>1. Pc(r) = "read" /\ B(r).kind \in Creators /\ ~req[r].dirty
  BY <1>0 DEF ReadNew, LocalOK, Late
<1>2. CASE RowOf(r) = NoRow \/ ReplacesIt(B(r))
  <2> DEFINE p == AfterNew(B(r))
  <2>1. To(r, p)  BY <1>2 DEF ReadNew
  <2>2. p \in Pcs \ {"column", "path"}  BY DEF AfterNew, Pcs
  <2>3. p \in Early(B(r))  BY <1>0, <1>1 DEF LocalOK, Early, AfterNew
  <2> HIDE DEF p
  <2>4. Others(r) /\ LocalOK(r)'  BY <1>1, <2>1, <2>2, <2>3, TypeGoes
  <2> QED  BY <2>4, TypeReads DEF ReadNew
<1>3. CASE ~(RowOf(r) = NoRow \/ ReplacesIt(B(r)))
  <2>1. PICK o \in {"ok", "error"} : End(r, o)  BY <1>3 DEF ReadNew
  <2> QED  BY <2>1, TypeEnds, TypeReads DEF ReadNew
<1> QED  BY <1>2, <1>3

\* A resource that is not there ends the request.
LEMMA ReadMissingType ==
  ASSUME TypeInv, NEW r \in Requests, ReadMissing(r)
  PROVE  TypeOK' /\ Others(r) /\ LocalOK(r)'
<1>1. PICK o \in {"ok", "error"} : End(r, o)  BY DEF ReadMissing
<1> QED  BY <1>1, TypeEnds, TypeReads DEF ReadMissing

\* A resource that is there is remembered as read.
LEMMA ReadOldType ==
  ASSUME TypeInv, NEW r \in Requests, ReadOld(r)
  PROVE  TypeOK' /\ Others(r) /\ LocalOK(r)'
<1>0. /\ TypeOK /\ req \in [Requests -> Locals] /\ req[r] \in Locals /\ LocalOK(r)
      /\ NameOf(r) \in Names /\ B(r).kind \in Kinds
  BY OneRequest
<1>1. CASE Refuses(B(r), RowOf(r))  BY <1>1, TypeEnds, TypeReads DEF ReadOld
<1>2. CASE ~Refuses(B(r), RowOf(r))
  <2> DEFINE p == AfterOld(B(r))
             l == [req[r] EXCEPT !.pc = p, !.was = RowOf(r)]
  <2>1. /\ req' = [req EXCEPT ![r].pc = p, ![r].was = RowOf(r)]
        /\ Pc(r) = "read" /\ B(r).kind \notin Creators
    BY <1>2 DEF ReadOld
  <2>2. RowOf(r) \in Row  BY <1>0 DEF TypeOK, RowOf, ReadOld
  <2>3. p \in {"alter", "upsert", "clear", "forget", "duck"} /\ p \in Pcs  BY DEF AfterOld, Pcs
  <2>4. ~req[r].dirty /\ p \in Early(B(r))
    <3>1. ~req[r].dirty  BY <1>0, <2>1 DEF LocalOK, Late
    <3>2. B(r).kind \in Patches \cup TableDrops
                       \cup {"refresh", "dropSchema", "dropFunction", "dropProcedure"}
      BY <1>0, <2>1, <3>1 DEF LocalOK, Early
    <3>3. CASE B(r).kind \in Patches  BY <3>1, <3>3 DEF AfterOld, Early
    <3>4. CASE B(r).kind \notin Patches  BY <3>1, <3>2, <3>4 DEF AfterOld, Early
    <3> QED  BY <3>3, <3>4
  <2> HIDE DEF p
  <2>5. l \in Locals  BY <1>0, <2>2, <2>3 DEF Locals, Pcs
  <2>6. /\ req'[r] = l /\ req' \in [Requests -> Locals]
        /\ \A s \in Requests \ {r} : req'[s] = req[s]
    BY <1>0, <2>1, <2>5
  <2>7. /\ l.body = req[r].body /\ l.pc = p /\ l.was = RowOf(r) /\ l.dirty = req[r].dirty
        /\ l.outcome = req[r].outcome
    BY <1>0 DEF Locals
  <2>8. Others(r) /\ Pc(r)' = p  BY <2>6, <2>7 DEF Others, B, Pc
  <2>9. TypeOK'  BY <2>8, TypeReads DEF ReadOld
  <2>10. LocalOK(r)'
    BY <1>0, <2>1, <2>2, <2>3, <2>4, <2>6, <2>7, <2>8 DEF LocalOK, Others
  <2> QED  BY <2>8, <2>9, <2>10
<1> QED  BY <1>1, <1>2

\* Statements on the data: what they make are things.
LEMMA DuckKept ==
  ASSUME TypeOK, UNCHANGED metaVars, Frame, req' \in [Requests -> Locals],
         schemas' \subseteq Datasets, duck' \in [Tables \cup Routines -> Thing]
  PROVE  TypeOK'
BY DEF TypeOK, metaVars, Frame

\* A thing made is a thing, and the others are as they were.
LEMMA MadeThing ==
  ASSUME TypeOK, NEW n, NEW thing \in Thing, Make(n, thing)
  PROVE  duck' \in [Tables \cup Routines -> Thing]
BY DEF TypeOK, Make

\* A thing of DuckDB, and none.
LEMMA Things ==
  /\ Nothing \in Thing
  /\ \A fields \in Seq(Field) :
       [Nothing EXCEPT !.kind = "table", !.fields = fields, !.copies = 1] \in Thing
  /\ \A fields \in Seq(Field), s \in Tables :
       [Nothing EXCEPT !.kind = "view", !.fields = fields, !.source = s] \in Thing
  /\ \A text \in Texts : [Nothing EXCEPT !.kind = "macro", !.text = text] \in Thing
<1>1. Nothing \in Thing
  <2>1. <<>> \in Seq(Field) /\ 0 \in Nat /\ NoText \in Texts  BY DEF Texts
  <2> QED  BY <2>1 DEF Nothing, Thing
<1> QED  BY <1>1 DEF Thing

\* CREATE TABLE of tables.insert.
LEMMA CreateTableType ==
  ASSUME TypeInv, NEW r \in Requests, CreateTable(r)
  PROVE  TypeOK' /\ Others(r) /\ LocalOK(r)'
<1>0. TypeOK /\ LocalOK(r) /\ B(r).fields \in Seq(Field)  BY OneRequest, BodyTyped
<1>1. Pc(r) = "duck" /\ B(r).kind = "insertTable"  BY DEF CreateTable
<1>2. CASE Free(NameOf(r))
  <2> DEFINE new == [Nothing EXCEPT !.kind = "table", !.fields = B(r).fields, !.copies = 1]
  <2>1. Make(NameOf(r), new) /\ Did(r, "upsert")  BY <1>2 DEF CreateTable
  <2>2. new \in Thing  BY <1>0, Things
  <2>3. "upsert" \in Late(B(r)) /\ "upsert" \in Pcs  BY <1>1 DEF Late, Pcs
  <2>4. Others(r) /\ LocalOK(r)'  BY <1>1, <2>1, <2>3, TypeDoes
  <2> HIDE DEF new
  <2>5. duck' \in [Tables \cup Routines -> Thing]  BY <1>0, <2>1, <2>2, MadeThing
  <2>6. TypeOK'  BY <1>0, <2>4, <2>5, DuckKept DEF CreateTable, Others, TypeOK
  <2> QED  BY <2>4, <2>6
<1>3. CASE ~Free(NameOf(r))
  BY <1>3, TypeEnds, TypeReads DEF CreateTable, Refused, duckVars
<1> QED  BY <1>2, <1>3

\* CREATE TABLE .. AS SELECT.
LEMMA CreateTableAsType ==
  ASSUME TypeInv, NEW r \in Requests, CreateTableAs(r)
  PROVE  TypeOK' /\ Others(r) /\ LocalOK(r)'
<1>0. TypeOK /\ LocalOK(r) /\ B(r).source \in Tables  BY OneRequest, BodyTyped
<1> DEFINE s == B(r).source
           new == [Nothing EXCEPT !.kind = "table", !.fields = duck[s].fields, !.copies = 1]
<1>1. Pc(r) = "duck" /\ B(r).kind \in {"createTable", "createMv"}  BY DEF CreateTableAs
<1>2. CASE Make(NameOf(r), new) /\ Did(r, "describe")
  <2>1. duck[s] \in Thing /\ duck[s].fields \in Seq(Field)  BY <1>0 DEF TypeOK, Thing
  <2>2. new \in Thing  BY <2>1, Things
  <2>3. "describe" \in Late(B(r)) /\ "describe" \in Pcs  BY <1>1 DEF Late, Pcs
  <2>4. Others(r) /\ LocalOK(r)'  BY <1>1, <1>2, <2>3, TypeDoes
  <2> HIDE DEF new
  <2>5. duck' \in [Tables \cup Routines -> Thing]  BY <1>0, <1>2, <2>2, MadeThing
  <2>6. TypeOK'  BY <1>0, <2>4, <2>5, DuckKept DEF CreateTableAs, Others, TypeOK
  <2> QED  BY <2>4, <2>6
<1>3. CASE Refused(r)
  BY <1>3, TypeEnds, TypeReads DEF CreateTableAs, Refused, duckVars
<1> QED  BY <1>2, <1>3 DEF CreateTableAs

\* CREATE VIEW.
LEMMA CreateViewType ==
  ASSUME TypeInv, NEW r \in Requests, CreateView(r)
  PROVE  TypeOK' /\ Others(r) /\ LocalOK(r)'
<1>0. TypeOK /\ LocalOK(r) /\ B(r).source \in Tables  BY OneRequest, BodyTyped
<1> DEFINE s == B(r).source
           new == [Nothing EXCEPT !.kind = "view", !.fields = duck[s].fields, !.source = s]
<1>1. Pc(r) = "duck" /\ B(r).kind = "createView"  BY DEF CreateView
<1>2. CASE Make(NameOf(r), new) /\ Did(r, "describe")
  <2>1. duck[s] \in Thing /\ duck[s].fields \in Seq(Field)  BY <1>0 DEF TypeOK, Thing
  <2>2. new \in Thing  BY <1>0, <2>1, Things
  <2>3. "describe" \in Late(B(r)) /\ "describe" \in Pcs  BY <1>1 DEF Late, Pcs
  <2>4. Others(r) /\ LocalOK(r)'  BY <1>1, <1>2, <2>3, TypeDoes
  <2> HIDE DEF new
  <2>5. duck' \in [Tables \cup Routines -> Thing]  BY <1>0, <1>2, <2>2, MadeThing
  <2>6. TypeOK'  BY <1>0, <2>4, <2>5, DuckKept DEF CreateView, Others, TypeOK
  <2> QED  BY <2>4, <2>6
<1>3. CASE Refused(r)
  BY <1>3, TypeEnds, TypeReads DEF CreateView, Refused, duckVars
<1> QED  BY <1>2, <1>3 DEF CreateView

\* DESCRIBE gives the request fields.
LEMMA DescribeType ==
  ASSUME TypeInv, NEW r \in Requests, Describe(r)
  PROVE  TypeOK' /\ Others(r) /\ LocalOK(r)'
<1>0. /\ TypeOK /\ req \in [Requests -> Locals] /\ req[r] \in Locals /\ LocalOK(r)
      /\ B(r).kind \in Kinds /\ NameOf(r) \in Nameable(B(r).kind)
  BY OneRequest
<1> DEFINE thing == duck[NameOf(r)]
<1>1. /\ Pc(r) = "describe" /\ req[r].dirty /\ B(r).kind \in TableCreators
  BY <1>0 DEF Describe, LocalOK, Early, Late
<1>2. CASE End(r, "error")  BY <1>2, TypeEnds, TypeReads DEF Describe
<1>3. CASE req' = [req EXCEPT ![r].pc = "upsert", ![r].fields = Described(thing)]
  <2> DEFINE l == [req[r] EXCEPT !.pc = "upsert", !.fields = Described(thing)]
  <2>1. NameOf(r) \in Tables  BY <1>0, <1>1 DEF Nameable
  <2>2. thing \in Thing  BY <1>0, <2>1 DEF TypeOK
  <2>3. Described(thing) \in Seq(Field)  BY <2>2, DescribedTyped
  <2>4. l \in Locals  BY <1>0, <2>3 DEF Locals
  <2>5. /\ req'[r] = l /\ req' \in [Requests -> Locals]
        /\ \A s \in Requests \ {r} : req'[s] = req[s]
    BY <1>0, <1>3, <2>4
  <2>6. /\ l.body = req[r].body /\ l.pc = "upsert" /\ l.dirty = req[r].dirty
        /\ l.outcome = req[r].outcome
    BY <1>0 DEF Locals
  <2>7. Others(r) /\ Pc(r)' = "upsert"  BY <2>5, <2>6 DEF Others, B, Pc
  <2>8. TypeOK'  BY <2>7, TypeReads DEF Describe
  <2>9. LocalOK(r)'
    BY <1>0, <1>1, <2>5, <2>6, <2>7 DEF LocalOK, Late, Others
  <2> QED  BY <2>7, <2>8, <2>9
<1> QED  BY <1>2, <1>3 DEF Describe

\* CREATE MACRO.
LEMMA CreateMacroType ==
  ASSUME TypeInv, NEW r \in Requests, CreateMacro(r)
  PROVE  TypeOK' /\ Others(r) /\ LocalOK(r)'
<1>0. TypeOK /\ LocalOK(r) /\ B(r).text \in Texts  BY OneRequest, BodyTyped
<1> DEFINE new == [Nothing EXCEPT !.kind = "macro", !.text = B(r).text]
<1>1. Pc(r) = "duck" /\ B(r).kind = "createFunction"  BY DEF CreateMacro
<1>2. /\ "upsert" \in Late(B(r)) /\ "upsert" \in Early(B(r))
      /\ "upsert" \in Pcs \ {"column", "path"}
  BY <1>1 DEF Late, Early, Pcs
<1>3. CASE Make(NameOf(r), new) /\ Did(r, "upsert")
  <2>1. Others(r) /\ LocalOK(r)'  BY <1>1, <1>2, <1>3, TypeDoes
  <2>2. new \in Thing  BY <1>0, Things
  <2> HIDE DEF new
  <2>3. duck' \in [Tables \cup Routines -> Thing]  BY <1>0, <1>3, <2>2, MadeThing
  <2>4. TypeOK'  BY <1>0, <2>1, <2>3, DuckKept DEF CreateMacro, Others, TypeOK
  <2> QED  BY <2>1, <2>4
<1>4. CASE To(r, "upsert") /\ UNCHANGED duck
  <2>1. Others(r) /\ LocalOK(r)'  BY <1>1, <1>2, <1>4, TypeGoes
  <2> QED  BY <1>4, <2>1, TypeReads DEF CreateMacro, duckVars
<1>5. CASE Refused(r)
  BY <1>5, TypeEnds, TypeReads DEF CreateMacro, Refused, duckVars
<1> QED  BY <1>3, <1>4, <1>5 DEF CreateMacro

\* DROP TABLE, VIEW or MACRO.
LEMMA DropThingType ==
  ASSUME TypeInv, NEW r \in Requests, DropThing(r)
  PROVE  TypeOK' /\ Others(r) /\ LocalOK(r)'
<1>0. TypeOK /\ LocalOK(r) /\ B(r).kind \in Kinds  BY OneRequest
<1>1. Pc(r) = "duck" /\ B(r).kind \in TableDrops \cup {"dropFunction"}  BY DEF DropThing
<1>2. /\ "forget" \in Late(B(r)) /\ "forget" \in Early(B(r))
      /\ "forget" \in Pcs \ {"column", "path"}
  BY <1>1 DEF Late, Early, Pcs
<1>3. CASE Make(NameOf(r), Nothing) /\ Did(r, "forget")
  <2>1. Others(r) /\ LocalOK(r)'  BY <1>1, <1>2, <1>3, TypeDoes
  <2>2. duck' \in [Tables \cup Routines -> Thing]  BY <1>0, <1>3, Things, MadeThing
  <2>3. TypeOK'  BY <1>0, <2>1, <2>2, DuckKept DEF DropThing, Others, TypeOK
  <2> QED  BY <2>1, <2>3
<1>4. CASE To(r, "forget") /\ UNCHANGED duck
  <2>1. Others(r) /\ LocalOK(r)'  BY <1>1, <1>2, <1>4, TypeGoes
  <2> QED  BY <1>4, <2>1, TypeReads DEF DropThing, duckVars
<1>5. CASE Refused(r)
  BY <1>5, TypeEnds, TypeReads DEF DropThing, Refused, duckVars
<1> QED  BY <1>3, <1>4, <1>5 DEF DropThing

\* DROP SCHEMA.
LEMMA DropSchemaType ==
  ASSUME TypeInv, NEW r \in Requests, DropSchema(r)
  PROVE  TypeOK' /\ Others(r) /\ LocalOK(r)'
<1>0. TypeOK /\ LocalOK(r)  BY OneRequest
<1>1. Pc(r) = "duck" /\ B(r).kind = "dropSchema"  BY DEF DropSchema
<1> DEFINE inside == {n \in DOMAIN duck : Home[n] = NameOf(r)}
<1>2. CASE End(r, "error") /\ UNCHANGED duckVars
  BY <1>2, TypeEnds, TypeReads DEF DropSchema
<1>3. CASE /\ schemas' = schemas \ {NameOf(r)}
           /\ duck' = [n \in DOMAIN duck |-> IF n \in inside THEN Nothing ELSE duck[n]]
           /\ Did(r, AfterDropSchema(B(r)))
  <2> DEFINE p == AfterDropSchema(B(r))
  <2>1. p \in {"forgetTables", "forget"}  BY DEF AfterDropSchema
  <2>2. p \in Late(B(r)) /\ p \in Pcs \ {"column", "path"}  BY <1>1, <2>1 DEF Late, Pcs
  <2> HIDE DEF p, inside
  <2>3. Did(r, p)  BY <1>3 DEF p
  <2>4. Others(r) /\ LocalOK(r)'  BY <1>1, <2>1, <2>2, <2>3, TypeDoes
  <2>5. duck' \in [Tables \cup Routines -> Thing]  BY <1>0, <1>3, Things DEF TypeOK
  <2>6. schemas' \subseteq Datasets  BY <1>0, <1>3 DEF TypeOK
  <2>7. TypeOK'  BY <1>0, <2>4, <2>5, <2>6, DuckKept DEF DropSchema, Others
  <2> QED  BY <2>4, <2>7
<1> QED  BY <1>2, <1>3 DEF DropSchema

\* DELETE FROM _bq.tables.
LEMMA ForgetTablesType ==
  ASSUME TypeInv, NEW r \in Requests, ForgetTables(r)
  PROVE  TypeOK' /\ Others(r) /\ LocalOK(r)'
<1>0. TypeOK /\ LocalOK(r) /\ B(r).kind \in Kinds  BY OneRequest
<1>1. Pc(r) = "forgetTables" /\ Did(r, "forget")  BY DEF ForgetTables
<1>2. B(r).kind = "dropSchema"  BY <1>0, <1>1 DEF LocalOK, Early, Late
<1>3. "forget" \in Late(B(r)) /\ "forget" \in Pcs \ {"column", "path"}  BY <1>2 DEF Late, Pcs
<1>4. Others(r) /\ LocalOK(r)'  BY <1>1, <1>3, TypeDoes
<1>5. row' \in [Names -> Row \cup {NoRow}]  BY <1>0 DEF TypeOK, ForgetTables
<1>6. TypeOK'  BY <1>0, <1>4, <1>5 DEF TypeOK, ForgetTables, duckVars, Frame, Others
<1> QED  BY <1>4, <1>6

\* ALTER TABLE: the new column goes behind the others.
LEMMA AddColumnType ==
  ASSUME TypeInv, NEW r \in Requests, AddColumn(r)
  PROVE  TypeOK' /\ Others(r) /\ LocalOK(r)'
<1>0. /\ TypeOK /\ req \in [Requests -> Locals] /\ req[r] \in Locals /\ LocalOK(r)
      /\ B(r).fields \in Seq(Field)
  BY OneRequest, BodyTyped
<1>1. PICK i \in ToAdd(r) :
        \/ Refused(r)
        \/ /\ duck' = [duck EXCEPT ![NameOf(r)].fields = Append(@, B(r).fields[i])]
           /\ req' = [req EXCEPT ![r].at = i]
  BY DEF AddColumn
<1>2. CASE Refused(r)
  BY <1>2, TypeEnds, TypeReads DEF AddColumn, Refused, duckVars
<1>3. CASE /\ duck' = [duck EXCEPT ![NameOf(r)].fields = Append(@, B(r).fields[i])]
           /\ req' = [req EXCEPT ![r].at = i]
  <2> DEFINE l == [req[r] EXCEPT !.at = i]
             n == NameOf(r)
             new == [duck[n] EXCEPT !.fields = Append(@, B(r).fields[i])]
  <2>1. i \in DOMAIN B(r).fields  BY DEF ToAdd, Added
  <2>2. i \in 1..Len(B(r).fields)  BY <1>0, <2>1, LenProperties
  <2>3. i \in Nat /\ B(r).fields[i] \in Field
    <3>1. Len(B(r).fields) \in Nat  BY <1>0, LenProperties
    <3> QED  BY <1>0, <2>2, <3>1, ElementOfSeq
  <2>4. l \in Locals  BY <1>0, <2>3 DEF Locals
  <2>5. /\ req'[r] = l /\ req' \in [Requests -> Locals]
        /\ \A s \in Requests \ {r} : req'[s] = req[s]
    BY <1>0, <1>3, <2>4
  <2>6. /\ l.body = req[r].body /\ l.pc = req[r].pc /\ l.dirty = req[r].dirty
        /\ l.outcome = req[r].outcome /\ l.was = req[r].was
    BY <1>0 DEF Locals
  <2>7. Others(r) /\ Pc(r)' = Pc(r) /\ Pc(r) = "alter"
    BY <2>5, <2>6 DEF Others, B, Pc, AddColumn
  <2>8. LocalOK(r)'  BY <1>0, <2>5, <2>6, <2>7 DEF LocalOK, Others
  <2>9. duck' \in [Tables \cup Routines -> Thing]
    <3>1. CASE n \in Tables \cup Routines
      <4>1. duck[n] \in Thing /\ duck[n].fields \in Seq(Field)  BY <1>0, <3>1 DEF TypeOK, Thing
      <4>2. Append(duck[n].fields, B(r).fields[i]) \in Seq(Field)  BY <2>3, <4>1, AppendProperties
      <4>3. new \in Thing  BY <4>1, <4>2 DEF Thing
      <4>4. duck' = [duck EXCEPT ![n] = new]  BY <1>3
      <4> HIDE DEF new
      <4> QED  BY <1>0, <4>3, <4>4 DEF TypeOK
    <3>2. CASE n \notin Tables \cup Routines
      <4>1. duck' = duck  BY <1>0, <1>3, <3>2 DEF TypeOK
      <4> QED  BY <1>0, <4>1 DEF TypeOK
    <3> QED  BY <3>1, <3>2
  <2>10. TypeOK'  BY <1>0, <2>7, <2>9, DuckKept DEF AddColumn, Others, TypeOK
  <2> QED  BY <2>7, <2>8, <2>10
<1> QED  BY <1>1, <1>2, <1>3

\* A new partitioning is refused.
LEMMA RepartitionType ==
  ASSUME TypeInv, NEW r \in Requests, RefuseRepartition(r)
  PROVE  TypeOK' /\ Others(r) /\ LocalOK(r)'
BY TypeEnds, TypeReads DEF RefuseRepartition

\* A refresh deletes the rows.
LEMMA ClearType ==
  ASSUME TypeInv, NEW r \in Requests, Clear(r)
  PROVE  TypeOK' /\ Others(r) /\ LocalOK(r)'
<1>0. TypeOK /\ LocalOK(r) /\ B(r).kind \in Kinds  BY OneRequest
<1>1. Pc(r) = "clear" /\ B(r).kind = "refresh"  BY <1>0 DEF Clear, LocalOK, Early, Late
<1>2. CASE duck' = [duck EXCEPT ![NameOf(r)].copies = 0] /\ Did(r, "fill")
  <2>1. "fill" \in Late(B(r)) /\ "fill" \in Pcs \ {"column", "path"}  BY <1>1 DEF Late, Pcs
  <2>2. Others(r) /\ LocalOK(r)'  BY <1>1, <1>2, <2>1, TypeDoes
  <2>3. duck' \in [Tables \cup Routines -> Thing]  BY <1>0, <1>2 DEF TypeOK, Thing
  <2>4. TypeOK'  BY <1>0, <2>2, <2>3, DuckKept DEF Clear, Others, TypeOK
  <2> QED  BY <2>2, <2>4
<1>3. CASE Refused(r)
  BY <1>3, TypeEnds, TypeReads DEF Clear, Refused, duckVars
<1> QED  BY <1>2, <1>3 DEF Clear

\* A refresh inserts the rows.
LEMMA FillType ==
  ASSUME TypeInv, NEW r \in Requests, Fill(r)
  PROVE  TypeOK' /\ Others(r) /\ LocalOK(r)'
<1>0. TypeOK /\ LocalOK(r) /\ B(r).kind \in Kinds  BY OneRequest
<1>1. Pc(r) = "fill" /\ B(r).kind = "refresh"  BY <1>0 DEF Fill, LocalOK, Early, Late
<1>2. CASE duck' = [duck EXCEPT ![NameOf(r)].copies = @ + 1] /\ DidEnd(r)
  <2>1. Others(r) /\ LocalOK(r)'  BY <1>1, <1>2, TypeDone
  <2>2. duck' \in [Tables \cup Routines -> Thing]
    <3> DEFINE n == NameOf(r)
               new == [duck[n] EXCEPT !.copies = @ + 1]
    <3>1. n \in Tables  BY <1>1, OneRequest DEF Nameable
    <3>2. duck[n] \in Thing /\ duck[n].copies + 1 \in Nat  BY <1>0, <3>1 DEF TypeOK, Thing
    <3>3. new \in Thing  BY <3>2 DEF Thing
    <3>4. duck' = [duck EXCEPT ![n] = new]  BY <1>2
    <3> HIDE DEF new
    <3> QED  BY <1>0, <3>1, <3>3, <3>4 DEF TypeOK
  <2>3. TypeOK'  BY <1>0, <2>1, <2>2, DuckKept DEF Fill, Others, TypeOK
  <2> QED  BY <2>1, <2>3
<1>3. CASE Refused(r)
  BY <1>3, TypeEnds, TypeReads DEF Fill, Refused, duckVars
<1> QED  BY <1>2, <1>3 DEF Fill

\* The upserts write the row that the request has made.
LEMMA UpsertType ==
  ASSUME TypeInv, NEW r \in Requests, Upsert(r)
  PROVE  TypeOK' /\ Others(r) /\ LocalOK(r)'
<1>0. LocalOK(r) /\ B(r).kind \in Kinds  BY OneRequest
<1>1. Pc(r) \in {"upsert", "alter"}  BY DEF Upsert, Altered
<1>2. CASE To(r, "write")
  <2>1. /\ "write" \in IF req[r].dirty THEN Late(B(r)) ELSE Early(B(r))
        /\ "write" \in Pcs \ {"column", "path"}
    BY <1>0, <1>1 DEF LocalOK, Late, Early, Pcs
  <2>2. Others(r) /\ LocalOK(r)'  BY <1>1, <1>2, <2>1, TypeGoes
  <2> QED  BY <2>2, TypeReads DEF Upsert
<1>3. CASE End(r, "error")
  BY <1>3, TypeEnds, TypeReads DEF Upsert
<1> QED  BY <1>2, <1>3 DEF Upsert

\* What a request writes is a row.
LEMMA WriteType ==
  ASSUME TypeInv, NEW r \in Requests, Write(r)
  PROVE  Input(r) \in Row /\ row' \in [Names -> Row \cup {NoRow}]
<1>1. TypeOK /\ LocalOK(r) /\ req \in [Requests -> Locals]  BY OneRequest
<1>2. Input(r) \in Row  BY <1>1, InputRow DEF Write
<1> QED  BY <1>1, <1>2 DEF Write, TypeOK

\* A row more or less keeps the types.
LEMMA RowKept ==
  ASSUME TypeOK, UNCHANGED <<columns, paths, duckVars>>, Frame, req' \in [Requests -> Locals],
         row' \in [Names -> Row \cup {NoRow}]
  PROVE  TypeOK'
BY DEF TypeOK, duckVars, Frame

\* The row of a table.
LEMMA UpsertTableType ==
  ASSUME TypeInv, NEW r \in Requests, UpsertTable(r)
  PROVE  TypeOK' /\ Others(r) /\ LocalOK(r)'
<1>0. TypeOK /\ LocalOK(r) /\ B(r).kind \in Kinds /\ NameOf(r) \in Nameable(B(r).kind)
  BY OneRequest
<1>1. Pc(r) = "write" /\ NameOf(r) \in Tables /\ Did(r, "clearColumns")  BY DEF UpsertTable, Write
<1>2. B(r).kind \in TableCreators \cup {"patchTable"}
  BY <1>0, <1>1, CatalogAssumption DEF LocalOK, Early, Late, Nameable
<1>3. "clearColumns" \in Late(B(r)) /\ "clearColumns" \in Pcs \ {"column", "path"}
  BY <1>2 DEF Late, Pcs
<1>4. Others(r) /\ LocalOK(r)'  BY <1>1, <1>3, TypeDoes
<1>5. row' \in [Names -> Row \cup {NoRow}]  BY WriteType DEF UpsertTable
<1>6. TypeOK'  BY <1>0, <1>4, <1>5, RowKept DEF UpsertTable, Others
<1> QED  BY <1>4, <1>6

\* The row of a dataset.
LEMMA UpsertDatasetType ==
  ASSUME TypeInv, NEW r \in Requests, UpsertDataset(r)
  PROVE  TypeOK' /\ Others(r) /\ LocalOK(r)'
<1>0. TypeOK /\ LocalOK(r) /\ B(r).kind \in Kinds /\ NameOf(r) \in Nameable(B(r).kind)
  BY OneRequest
<1>1. Pc(r) = "write" /\ NameOf(r) \in Datasets  BY DEF UpsertDataset, Write
<1>2. B(r).kind \in DatasetCreators \cup Patches
  BY <1>0, <1>1, CatalogAssumption DEF LocalOK, Early, Late, Nameable
<1>3. Others(r) /\ LocalOK(r)'
  <2>1. CASE B(r).kind \in Patches  BY <2>1, TypeDone DEF UpsertDataset
  <2>2. CASE B(r).kind \notin Patches
    <3>1. "ensure" \in Late(B(r)) /\ "ensure" \in Pcs \ {"column", "path"}
      BY <1>2, <2>2 DEF Late, Pcs
    <3>2. Did(r, "ensure")  BY <2>2 DEF UpsertDataset
    <3> QED  BY <1>1, <3>1, <3>2, TypeDoes
  <2> QED  BY <2>1, <2>2
<1>4. row' \in [Names -> Row \cup {NoRow}]  BY WriteType DEF UpsertDataset
<1>5. TypeOK'  BY <1>0, <1>3, <1>4, RowKept DEF UpsertDataset, Others
<1> QED  BY <1>3, <1>5

\* The row of a routine or a model.
LEMMA UpsertOtherType ==
  ASSUME TypeInv, NEW r \in Requests, UpsertRoutine(r) \/ UpsertModel(r)
  PROVE  TypeOK' /\ Others(r) /\ LocalOK(r)'
<1>0. TypeOK /\ LocalOK(r) /\ B(r).kind \in Kinds  BY OneRequest
<1>1. Write(r) /\ Pc(r) = "write" /\ DidEnd(r)  BY DEF UpsertRoutine, UpsertModel, Write
<1>2. B(r).kind # "list"  BY <1>0, <1>1 DEF LocalOK, Early, Late
<1>3. Others(r) /\ LocalOK(r)'  BY <1>1, <1>2, TypeDone
<1>4. row' \in [Names -> Row \cup {NoRow}]  BY <1>1, WriteType
<1>5. TypeOK'  BY <1>0, <1>3, <1>4, RowKept DEF UpsertRoutine, UpsertModel, Others
<1> QED  BY <1>3, <1>5

\* Projections are cleared, and filled column by column and path by path.
LEMMA ProjectingRow ==
  ASSUME TypeInv, NEW r \in Requests, Pc(r) \in Projecting
  PROVE  /\ B(r).kind \in TableCreators \cup {"patchTable"} /\ req[r].dirty
         /\ NameOf(r) \in Tables /\ Input(r) \in Row /\ Input(r).fields \in Seq(Field)
<1>0. /\ LocalOK(r) /\ req \in [Requests -> Locals] /\ B(r).kind \in Kinds
      /\ NameOf(r) \in Nameable(B(r).kind)
  BY OneRequest
<1>1. B(r).kind \in TableCreators \cup {"patchTable"} /\ req[r].dirty
  BY <1>0 DEF LocalOK, Early, Late
<1>2. NameOf(r) \in Tables  BY <1>0, <1>1 DEF Nameable
<1>3. Input(r) \in Row  BY <1>0, InputRow
<1> QED  BY <1>1, <1>2, <1>3, RowFields

\* New projections of their types keep the types.
LEMMA ProjectionsKept ==
  ASSUME TypeOK, UNCHANGED <<row, duckVars>>, Frame, req' \in [Requests -> Locals],
         columns' \in [Tables -> SUBSET Field],
         \A t \in Tables : \A c, d \in columns'[t] : c.name = d.name => c = d,
         paths' \in [Tables -> SUBSET Seq(STRING)]
  PROVE  TypeOK'
BY DEF TypeOK, duckVars, Frame

\* DELETE FROM _bq.table_columns.
LEMMA ClearColumnsType ==
  ASSUME TypeInv, NEW r \in Requests, ClearColumns(r)
  PROVE  TypeOK' /\ Others(r) /\ LocalOK(r)'
<1>0. TypeOK  BY OneRequest
<1>1. Pc(r) = "clearColumns" /\ To(r, "clearPaths")  BY DEF ClearColumns
<1>2. B(r).kind \in TableCreators \cup {"patchTable"} /\ req[r].dirty  BY <1>1, ProjectingRow
<1>3. "clearPaths" \in Late(B(r)) /\ "clearPaths" \in Pcs \ {"column", "path"}
  BY <1>2 DEF Late, Pcs
<1>4. Others(r) /\ LocalOK(r)'  BY <1>1, <1>2, <1>3, TypeGoes
<1>5. /\ columns' \in [Tables -> SUBSET Field]
      /\ \A t \in Tables : columns'[t] = columns[t] \/ columns'[t] = {}
  BY <1>0 DEF TypeOK, ClearColumns
<1>6. TypeOK'  BY <1>0, <1>4, <1>5, ProjectionsKept DEF ClearColumns, Others, TypeOK
<1> QED  BY <1>4, <1>6

\* DELETE FROM _bq.table_field_paths.
LEMMA ClearPathsType ==
  ASSUME TypeInv, NEW r \in Requests, ClearPaths(r)
  PROVE  TypeOK' /\ Others(r) /\ LocalOK(r)'
<1>0. TypeOK /\ LocalOK(r) /\ req \in [Requests -> Locals] /\ req[r] \in Locals  BY OneRequest
<1>1. Pc(r) = "clearPaths"  BY DEF ClearPaths
<1>2. /\ B(r).kind \in TableCreators \cup {"patchTable"} /\ req[r].dirty
      /\ Input(r).fields \in Seq(Field)
  BY <1>1, ProjectingRow
<1>3. Others(r) /\ LocalOK(r)'
  <2>1. CASE Input(r).fields = <<>>
    <3>1. DidEnd(r)  BY <2>1 DEF ClearPaths
    <3> QED  BY <1>2, <3>1, TypeDone
  <2>2. CASE Input(r).fields # <<>>
    <3> DEFINE l == [req[r] EXCEPT !.pc = "column", !.at = 1]
    <3>1. req' = [req EXCEPT ![r].pc = "column", ![r].at = 1]  BY <2>2 DEF ClearPaths
    <3>2. l \in Locals  BY <1>0 DEF Locals
    <3>3. /\ req'[r] = l /\ req' \in [Requests -> Locals]
          /\ \A s \in Requests \ {r} : req'[s] = req[s]
      BY <1>0, <3>1, <3>2
    <3>4. /\ l.body = req[r].body /\ l.pc = "column" /\ l.dirty = req[r].dirty /\ l.at = 1
          /\ l.outcome = req[r].outcome /\ l.was = req[r].was /\ l.fields = req[r].fields
      BY <1>0 DEF Locals
    <3>5. Others(r) /\ Pc(r)' = "column"  BY <3>3, <3>4 DEF Others, B, Pc
    <3>6. Input(r)' = Input(r)
      BY <3>3, <3>4, <3>5 DEF Input, Fresh, Merged, Others
    <3>7. 1 \in DOMAIN Input(r).fields  BY <1>2, <2>2, EmptySeq, LenProperties
    <3>8. "column" \in Late(B(r))  BY <1>2 DEF Late
    <3> QED  BY <1>0, <1>1, <1>2, <3>3, <3>4, <3>5, <3>6, <3>7, <3>8 DEF LocalOK, Others
  <2> QED  BY <2>1, <2>2
<1>4. paths' \in [Tables -> SUBSET Seq(STRING)]  BY <1>0 DEF TypeOK, ClearPaths
<1>5. TypeOK'  BY <1>0, <1>3, <1>4, ProjectionsKept DEF ClearPaths, Others, TypeOK
<1> QED  BY <1>3, <1>5

\* One column more, of a name that no column has.
LEMMA InsertColumnType ==
  ASSUME TypeInv, NEW r \in Requests, InsertColumn(r)
  PROVE  TypeOK' /\ Others(r) /\ LocalOK(r)'
<1>0. TypeOK /\ LocalOK(r) /\ req \in [Requests -> Locals] /\ req[r] \in Locals  BY OneRequest
<1> DEFINE t == NameOf(r)
           F == Input(r).fields
           i == req[r].at
<1>1. Pc(r) = "column"  BY DEF InsertColumn
<1>2. /\ B(r).kind \in TableCreators \cup {"patchTable"} /\ req[r].dirty /\ t \in Tables
      /\ F \in Seq(Field)
  BY <1>1, ProjectingRow
<1>3. i \in 1..Len(F) /\ Len(F) \in Nat /\ DOMAIN F = 1..Len(F)
  BY <1>0, <1>1, <1>2, LenProperties DEF LocalOK
<1>4. F[i] \in Field  BY <1>2, <1>3, ElementOfSeq
<1>5. CASE HasColumn(t, F[i])
  <2>1. End(r, "error") /\ UNCHANGED columns  BY <1>5 DEF InsertColumn
  <2> QED  BY <2>1, TypeEnds, TypeReads DEF InsertColumn, metaVars
<1>6. CASE ~HasColumn(t, F[i])
  <2> DEFINE l == IF i < Len(F) THEN [req[r] EXCEPT !.at = i + 1]
                  ELSE [req[r] EXCEPT !.pc = "path", !.at = 1, !.sub = 0]
  <2>1. /\ columns' = [columns EXCEPT ![t] = @ \cup {F[i]}]
        /\ req' = IF i < Len(F) THEN [req EXCEPT ![r].at = i + 1]
                  ELSE [req EXCEPT ![r].pc = "path", ![r].at = 1, ![r].sub = 0]
    BY <1>6 DEF InsertColumn
  <2>2. l \in Locals
    <3>1. i + 1 \in Nat /\ 1 \in Nat /\ 0 \in Nat  BY <1>3
    <3>2. CASE i < Len(F)
      <4>1. l = [req[r] EXCEPT !.at = i + 1]  BY <3>2
      <4> HIDE DEF l, i
      <4> QED  BY <1>0, <3>1, <4>1 DEF Locals
    <3>3. CASE ~(i < Len(F))
      <4>1. l = [req[r] EXCEPT !.pc = "path", !.at = 1, !.sub = 0]  BY <3>3
      <4> HIDE DEF l, i
      <4> QED  BY <1>0, <3>1, <4>1 DEF Locals
    <3> QED  BY <3>2, <3>3
  <2>3. /\ req'[r] = l /\ req' \in [Requests -> Locals]
        /\ \A s \in Requests \ {r} : req'[s] = req[s]
    BY <1>0, <2>1, <2>2
  <2>4. /\ l.body = req[r].body /\ l.dirty = req[r].dirty /\ l.outcome = req[r].outcome
        /\ l.was = req[r].was /\ l.fields = req[r].fields
        /\ \/ i < Len(F) /\ l.pc = "column" /\ l.at = i + 1
           \/ ~(i < Len(F)) /\ l.pc = "path" /\ l.at = 1 /\ l.sub = 0
    BY <1>0, <1>1 DEF Locals, Pc
  <2> HIDE DEF l
  <2>5. Others(r) /\ Pc(r)' = l.pc  BY <2>3, <2>4 DEF Others, B, Pc
  <2>6. Input(r)' = Input(r)  BY <2>3, <2>4, <2>5 DEF Input, Fresh, Merged, Others
  <2>7. l.pc \in Late(B(r))  BY <1>2, <2>4 DEF Late
  <2>8. l.at \in DOMAIN F  BY <1>3, <2>4
  <2>9. l.pc = "path" => l.sub \in 0..Len(F[l.at].subs)
    <3>1. F[1] \in Field  BY <1>2, <1>3, ElementOfSeq
    <3>2. Len(F[1].subs) \in Nat  BY <3>1, LenProperties DEF Field
    <3> QED  BY <2>4, <3>2
  <2> HIDE DEF F, i, t
  <2>10. LocalOK(r)'
    <3>1. req'[r].at \in DOMAIN Input(r)'.fields  BY <2>3, <2>6, <2>8 DEF F
    <3>2. Pc(r)' = "path" => req'[r].sub \in 0..Len(Input(r)'.fields[req'[r].at].subs)
      BY <2>3, <2>5, <2>6, <2>9 DEF F
    <3>3. Pc(r)' \in Late(B(r)) /\ Pc(r)' \in {"column", "path"} /\ B(r)' = B(r)
      BY <2>4, <2>5, <2>7 DEF Others
    <3>4. /\ req'[r].dirty /\ req'[r].outcome = "none" /\ req'[r].was = req[r].was
          /\ B(r).kind \in Patches => req[r].was \in Row
      BY <1>0, <1>1, <1>2, <2>3, <2>4 DEF LocalOK
    <3> QED  BY <3>1, <3>2, <3>3, <3>4 DEF LocalOK
  <2>11. /\ columns' \in [Tables -> SUBSET Field]
         /\ \A u \in Tables \ {t} : columns'[u] = columns[u]
         /\ columns'[t] = columns[t] \cup {F[i]}
    BY <1>0, <1>2, <1>4, <2>1 DEF TypeOK
  <2>12. \A u \in Tables : \A c, d \in columns'[u] : c.name = d.name => c = d
    BY <1>0, <1>6, <2>11 DEF TypeOK, HasColumn
  <2>13. TypeOK'
    BY <1>0, <2>3, <2>11, <2>12, ProjectionsKept DEF InsertColumn, TypeOK
  <2> QED  BY <2>5, <2>10, <2>13
<1> QED  BY <1>5, <1>6

\* One path more, and the next one's place.
LEMMA InsertPathType ==
  ASSUME TypeInv, NEW r \in Requests, InsertPath(r)
  PROVE  TypeOK' /\ Others(r) /\ LocalOK(r)'
<1>0. TypeOK /\ LocalOK(r) /\ req \in [Requests -> Locals] /\ req[r] \in Locals  BY OneRequest
<1> DEFINE t == NameOf(r)
           F == Input(r).fields
           i == req[r].at
           k == req[r].sub
<1>1. Pc(r) = "path"  BY DEF InsertPath
<1>2. /\ B(r).kind \in TableCreators \cup {"patchTable"} /\ req[r].dirty /\ t \in Tables
      /\ F \in Seq(Field)
  BY <1>1, ProjectingRow
<1>3. i \in 1..Len(F) /\ Len(F) \in Nat /\ DOMAIN F = 1..Len(F)
  BY <1>0, <1>1, <1>2, LenProperties DEF LocalOK
<1>4. F[i] \in Field  BY <1>2, <1>3, ElementOfSeq
<1>5. k \in 0..Len(F[i].subs) /\ Len(F[i].subs) \in Nat
  BY <1>0, <1>1, <1>4, LenProperties DEF LocalOK, Field
<1>6. CASE Path(F[i], k) \in paths[t]
  <2>1. End(r, "error") /\ UNCHANGED paths  BY <1>6 DEF InsertPath
  <2> QED  BY <2>1, TypeEnds, TypeReads DEF InsertPath, metaVars
<1>7. CASE Path(F[i], k) \notin paths[t]
  <2>1. /\ paths' = [paths EXCEPT ![t] = @ \cup {Path(F[i], k)}]
        /\ IF k < Len(F[i].subs) THEN req' = [req EXCEPT ![r].sub = k + 1]
           ELSE IF i < Len(F) THEN req' = [req EXCEPT ![r].at = i + 1, ![r].sub = 0]
           ELSE DidEnd(r)
    BY <1>7 DEF InsertPath
  <2>2. paths' \in [Tables -> SUBSET Seq(STRING)]
    <3>1. Path(F[i], k) \in Seq(STRING)  BY <1>4, <1>5, PathTyped
    <3> HIDE DEF F, i, k, t
    <3> QED  BY <1>0, <1>2, <2>1, <3>1 DEF TypeOK
  <2>3. Others(r) /\ LocalOK(r)'
    <3>1. CASE ~(k < Len(F[i].subs)) /\ ~(i < Len(F))
      <4>1. DidEnd(r)  BY <2>1, <3>1
      <4> QED  BY <1>2, <4>1, TypeDone
    <3>2. CASE k < Len(F[i].subs) \/ i < Len(F)
      <4> DEFINE l == IF k < Len(F[i].subs) THEN [req[r] EXCEPT !.sub = k + 1]
                      ELSE [req[r] EXCEPT !.at = i + 1, !.sub = 0]
      <4>1. req' = IF k < Len(F[i].subs) THEN [req EXCEPT ![r].sub = k + 1]
                   ELSE [req EXCEPT ![r].at = i + 1, ![r].sub = 0]
        BY <2>1, <3>2
      <4>2. l \in Locals
        <5>1. i + 1 \in Nat /\ k + 1 \in Nat /\ 0 \in Nat  BY <1>3, <1>5
        <5>2. CASE k < Len(F[i].subs)
          <6>1. l = [req[r] EXCEPT !.sub = k + 1]  BY <5>2
          <6> HIDE DEF l, i, k
          <6> QED  BY <1>0, <5>1, <6>1 DEF Locals
        <5>3. CASE ~(k < Len(F[i].subs))
          <6>1. l = [req[r] EXCEPT !.at = i + 1, !.sub = 0]  BY <5>3
          <6> HIDE DEF l, i, k
          <6> QED  BY <1>0, <5>1, <6>1 DEF Locals
        <5> QED  BY <5>2, <5>3
      <4>3. /\ req'[r] = l /\ req' \in [Requests -> Locals]
            /\ \A s \in Requests \ {r} : req'[s] = req[s]
        BY <1>0, <4>1, <4>2
      <4>4. /\ l.body = req[r].body /\ l.dirty = req[r].dirty /\ l.outcome = req[r].outcome
            /\ l.was = req[r].was /\ l.fields = req[r].fields /\ l.pc = "path"
            /\ \/ k < Len(F[i].subs) /\ l.at = i /\ l.sub = k + 1
               \/ i < Len(F) /\ l.at = i + 1 /\ l.sub = 0
        BY <1>0, <1>1, <3>2 DEF Locals, Pc
      <4> HIDE DEF l
      <4>5. Others(r) /\ Pc(r)' = "path"  BY <4>3, <4>4 DEF Others, B, Pc
      <4>6. Input(r)' = Input(r)  BY <4>3, <4>4, <4>5 DEF Input, Fresh, Merged, Others
      <4>7. l.at \in DOMAIN F  BY <1>3, <4>4
      <4>8. l.sub \in 0..Len(F[l.at].subs)
        <5>1. F[l.at] \in Field  BY <1>2, <1>3, <4>7, ElementOfSeq
        <5>2. Len(F[l.at].subs) \in Nat  BY <5>1, LenProperties DEF Field
        <5> HIDE DEF F, i, k
        <5> QED  BY <1>5, <4>4, <5>2
      <4> HIDE DEF F, i, k, t
      <4> QED
        BY <1>0, <1>1, <4>3, <4>4, <4>5, <4>6, <4>7, <4>8 DEF LocalOK, Others, F
    <3> QED  BY <3>1, <3>2
  <2>4. TypeOK'
    BY <1>0, <2>2, <2>3, ProjectionsKept DEF InsertPath, Others, TypeOK
  <2> QED  BY <2>3, <2>4
<1> QED  BY <1>6, <1>7

\* DELETE and DROP.
LEMMA ForgetType ==
  ASSUME TypeInv, NEW r \in Requests, Forget(r)
  PROVE  TypeOK' /\ Others(r) /\ LocalOK(r)'
<1>0. LocalOK(r) /\ B(r).kind \in Kinds  BY OneRequest
<1>1. Pc(r) = "forget"  BY DEF Forget
<1>2. CASE To(r, "remove")
  <2>1. "remove" \in IF req[r].dirty THEN Late(B(r)) ELSE Early(B(r))
    BY <1>0, <1>1 DEF LocalOK, Late, Early
  <2>2. "remove" \in Pcs \ {"column", "path"}  BY DEF Pcs
  <2>3. Others(r) /\ LocalOK(r)'  BY <1>1, <1>2, <2>1, <2>2, TypeGoes
  <2> QED  BY <2>3, TypeReads DEF Forget
<1>3. CASE \E o \in {"ok", "error"} : End(r, o)
  BY <1>3, TypeEnds, TypeReads DEF Forget
<1> QED  BY <1>2, <1>3 DEF Forget

\* DELETE of the row.
LEMMA RemoveRowType ==
  ASSUME TypeInv, NEW r \in Requests, RemoveRow(r)
  PROVE  TypeOK' /\ Others(r) /\ LocalOK(r)'
<1>0. /\ TypeOK /\ LocalOK(r) /\ B(r).kind \in Kinds /\ NameOf(r) \in Nameable(B(r).kind)
  BY OneRequest
<1>1. Pc(r) = "remove"  BY DEF RemoveRow
<1>2. B(r).kind \in Deletes \cup Drops  BY <1>0, <1>1 DEF LocalOK, Early, Late
<1>3. Others(r) /\ LocalOK(r)'
  <2>1. CASE NameOf(r) \in Tables
    <3>1. B(r).kind \in TableDrops \cup {"deleteTable"}
      BY <1>0, <1>2, <2>1, CatalogAssumption DEF Nameable
    <3>2. "removeColumns" \in Late(B(r)) /\ "removeColumns" \in Pcs \ {"column", "path"}
      BY <3>1 DEF Late, Pcs
    <3>3. Did(r, "removeColumns")  BY <2>1 DEF RemoveRow
    <3> QED  BY <1>1, <3>2, <3>3, TypeDoes
  <2>2. CASE NameOf(r) \notin Tables  BY <1>2, <2>2, TypeDone DEF RemoveRow
  <2> QED  BY <2>1, <2>2
<1>4. row' \in [Names -> Row \cup {NoRow}]  BY <1>0 DEF TypeOK, RemoveRow
<1>5. TypeOK'  BY <1>0, <1>3, <1>4, RowKept DEF RemoveRow, Others
<1> QED  BY <1>3, <1>5

\* DELETE of its columns.
LEMMA RemoveColumnsType ==
  ASSUME TypeInv, NEW r \in Requests, RemoveColumns(r)
  PROVE  TypeOK' /\ Others(r) /\ LocalOK(r)'
<1>0. TypeOK /\ LocalOK(r) /\ B(r).kind \in Kinds  BY OneRequest
<1>1. Pc(r) = "removeColumns" /\ To(r, "removePaths")  BY DEF RemoveColumns
<1>2. B(r).kind \in TableDrops \cup {"deleteTable"} /\ req[r].dirty
  BY <1>0, <1>1 DEF LocalOK, Early, Late
<1>3. "removePaths" \in Late(B(r)) /\ "removePaths" \in Pcs \ {"column", "path"}
  BY <1>2 DEF Late, Pcs
<1>4. Others(r) /\ LocalOK(r)'  BY <1>1, <1>2, <1>3, TypeGoes
<1>5. /\ columns' \in [Tables -> SUBSET Field]
      /\ \A t \in Tables : columns'[t] = columns[t] \/ columns'[t] = {}
  BY <1>0 DEF TypeOK, RemoveColumns
<1>6. TypeOK'  BY <1>0, <1>4, <1>5, ProjectionsKept DEF RemoveColumns, Others, TypeOK
<1> QED  BY <1>4, <1>6

\* DELETE of its paths.
LEMMA RemovePathsType ==
  ASSUME TypeInv, NEW r \in Requests, RemovePaths(r)
  PROVE  TypeOK' /\ Others(r) /\ LocalOK(r)'
<1>0. TypeOK /\ LocalOK(r) /\ B(r).kind \in Kinds  BY OneRequest
<1>1. Pc(r) = "removePaths"  BY DEF RemovePaths
<1>2. B(r).kind \in TableDrops \cup {"deleteTable"} /\ req[r].dirty
  BY <1>0, <1>1 DEF LocalOK, Early, Late
<1>3. Others(r) /\ LocalOK(r)'
  <2>1. CASE DropsData(B(r))
    <3>1. "drop" \in Late(B(r)) /\ "drop" \in Pcs \ {"column", "path"}
      BY <2>1 DEF Late, Pcs, DropsData
    <3>2. To(r, "drop")  BY <2>1 DEF RemovePaths
    <3> QED  BY <1>1, <1>2, <3>1, <3>2, TypeGoes
  <2>2. CASE ~DropsData(B(r))  BY <1>2, <2>2, TypeDone DEF RemovePaths
  <2> QED  BY <2>1, <2>2
<1>4. paths' \in [Tables -> SUBSET Seq(STRING)]  BY <1>0 DEF TypeOK, RemovePaths
<1>5. TypeOK'  BY <1>0, <1>3, <1>4, ProjectionsKept DEF RemovePaths, Others, TypeOK
<1> QED  BY <1>3, <1>5

\* DROP of the data.
LEMMA DropDataType ==
  ASSUME TypeInv, NEW r \in Requests, DropData(r)
  PROVE  TypeOK' /\ Others(r) /\ LocalOK(r)'
<1>0. TypeOK /\ LocalOK(r) /\ B(r).kind \in Kinds  BY OneRequest
<1>1. Pc(r) = "drop" /\ B(r).kind # "list"  BY <1>0 DEF DropData, LocalOK, Early, Late
<1>2. CASE Make(NameOf(r), Nothing) /\ DidEnd(r)
  <2>1. Others(r) /\ LocalOK(r)'  BY <1>1, <1>2, TypeDone
  <2>2. duck' \in [Tables \cup Routines -> Thing]  BY <1>0, <1>2, Things, MadeThing
  <2>3. TypeOK'  BY <1>0, <2>1, <2>2, DuckKept DEF DropData, Others, TypeOK
  <2> QED  BY <2>1, <2>3
<1>3. CASE Refused(r)
  BY <1>3, TypeEnds, TypeReads DEF DropData, Refused, duckVars
<1> QED  BY <1>2, <1>3 DEF DropData

\* A page of a list.
LEMMA ListPageType ==
  ASSUME TypeInv, NEW r \in Requests, ListPage(r)
  PROVE  TypeOK' /\ Others(r) /\ LocalOK(r)'
<1>0. /\ TypeOK /\ LocalOK(r) /\ req \in [Requests -> Locals] /\ req[r] \in Locals
      /\ B(r).kind \in Kinds /\ NameOf(r) \in Names
  BY OneRequest
<1> DEFINE S == Listed(NameOf(r))
           offset == req[r].at
           page == {n \in S : Rank(n, S) \in offset .. offset + PageSize - 1}
           more == Cardinality(S) > offset + PageSize
           l == [req[r] EXCEPT !.seen = @ \cup page,
                               !.early = IF offset = 0 THEN S ELSE @,
                               !.at = IF more THEN NextOffset(offset) ELSE @,
                               !.pc = IF more THEN First(B(r)) ELSE "ended",
                               !.outcome = IF more THEN "none" ELSE "ok"]
<1>1. Pc(r) = "page" /\ B(r).kind = "list" /\ ~req[r].dirty
  BY <1>0 DEF ListPage, LocalOK, Early, Late
<1>2. First(B(r)) \in {"page", "dataset"}  BY <1>1 DEF First
<1>3. /\ req' = [req EXCEPT ![r].seen = @ \cup page,
                            ![r].early = IF offset = 0 THEN S ELSE @,
                            ![r].at = IF more THEN NextOffset(offset) ELSE @,
                            ![r].pc = IF more THEN First(B(r)) ELSE "ended",
                            ![r].outcome = IF more THEN "none" ELSE "ok"]
  BY DEF ListPage
<1>4. S \subseteq Names /\ page \subseteq Names  BY <1>0, ListedNames
<1>5. offset \in Nat /\ NextOffset(offset) \in Nat
  BY <1>0, CatalogAssumption DEF Locals, NextOffset
<1> HIDE DEF S, page, more
<1>6. l \in Locals
  BY <1>0, <1>2, <1>4, <1>5 DEF Locals
<1>7. /\ req'[r] = l /\ req' \in [Requests -> Locals]
      /\ \A s \in Requests \ {r} : req'[s] = req[s]
  BY <1>0, <1>3, <1>6
<1>8. /\ l.body = req[r].body /\ l.dirty = req[r].dirty
      /\ \/ l.pc = "ended"
         \/ l.pc \in {"page", "dataset"} /\ l.outcome = "none"
  BY <1>0, <1>2 DEF Locals
<1> HIDE DEF l
<1>9. Others(r) /\ Pc(r)' = l.pc  BY <1>7, <1>8 DEF Others, B, Pc
<1>10. l.pc \in Early(B(r))  BY <1>1, <1>8 DEF Early
<1>11. LocalOK(r)'  BY <1>0, <1>1, <1>7, <1>8, <1>9, <1>10 DEF LocalOK, Others
<1>12. TypeOK'  BY <1>9, TypeReads DEF ListPage
<1> QED  BY <1>9, <1>11, <1>12

\* Every step of a request keeps the types, the other requests and its own locals.
LEMMA StepType ==
  ASSUME TypeInv, NEW r \in Requests, Step(r)
  PROVE  TypeOK' /\ Others(r) /\ LocalOK(r)'
BY StartType, GetType, ParentDatasetType, EnsureType, ReadNewType, ReadMissingType, ReadOldType,
   CreateTableType, CreateTableAsType, CreateViewType, DescribeType, CreateMacroType, DropThingType,
   DropSchemaType, ForgetTablesType, AddColumnType, RepartitionType, ClearType, FillType, UpsertType,
   UpsertTableType, UpsertDatasetType, UpsertOtherType, ClearColumnsType, ClearPathsType,
   InsertColumnType, InsertPathType, ForgetType, RemoveRowType, RemoveColumnsType, RemovePathsType,
   DropDataType, ListPageType DEF Step

\* What a crash makes of the requests.
LEMMA Crashes ==
  ASSUME TypeInv, Crash
  PROVE  /\ UNCHANGED <<metaVars, duckVars, mixed>> /\ req' \in [Requests -> Locals]
         /\ crashes' \in 0..MaxCrashes
         /\ \A r \in Requests :
              /\ B(r)' = B(r) /\ Same(r) /\ req'[r].dirty = req[r].dirty
              /\ Active(r) => Pc(r)' = "ended" /\ req'[r].outcome = "lost"
              /\ ~Active(r) => req'[r] = req[r]
<1>1. UNCHANGED <<metaVars, duckVars, mixed>>  BY DEF Crash
<1>2. crashes' \in 0..MaxCrashes
  <2>1. MaxCrashes \in Nat  BY CatalogAssumption
  <2>2. crashes \in 0..MaxCrashes  BY DEF TypeInv, TypeOK
  <2>3. crashes < MaxCrashes /\ crashes' = crashes + 1  BY DEF Crash
  <2> QED  BY <2>1, <2>2, <2>3
<1>3. \A r \in Requests : req[r] \in Locals  BY OneRequest
<1>4. ASSUME NEW r \in Requests
      PROVE  [req[r] EXCEPT !.pc = "ended", !.outcome = "lost"] \in Locals
  <2>1. req[r] \in Locals  BY <1>3
  <2> QED  BY <2>1 DEF Locals
<1>5. \A r \in Requests : req'[r] = IF Active(r) THEN [req[r] EXCEPT !.pc = "ended", !.outcome = "lost"]
                                    ELSE req[r]
  BY DEF Crash
<1>6. req' \in [Requests -> Locals]  BY <1>3, <1>4 DEF Crash
<1>7. ASSUME NEW r \in Requests
      PROVE  /\ B(r)' = B(r) /\ Same(r) /\ req'[r].dirty = req[r].dirty
             /\ Active(r) => Pc(r)' = "ended" /\ req'[r].outcome = "lost"
             /\ ~Active(r) => req'[r] = req[r]
  <2>1. CASE Active(r)
    <3>1. req'[r] = [req[r] EXCEPT !.pc = "ended", !.outcome = "lost"]  BY <1>5, <2>1
    <3>2. req[r] \in Locals  BY <1>3
    <3> QED  BY <2>1, <3>1, <3>2 DEF Locals, B, Same, Pc
  <2>2. CASE ~Active(r)
    <3>1. req'[r] = req[r]  BY <1>5, <2>2
    <3> QED  BY <2>2, <3>1 DEF B, Same, Pc
  <2> QED  BY <2>1, <2>2
<1> QED  BY <1>1, <1>2, <1>6, <1>7

\* The server starts with everything of its type.
LEMMA TypeInit == ASSUME Init PROVE TypeInv
<1>1. PICK mix \in Mixes :
        req = [r \in Requests |-> [pc |-> "start", body |-> mix[r], held |-> NoRow, was |-> NoRow,
                                   fields |-> <<>>, at |-> 0, sub |-> 0, seen |-> {}, early |-> {},
                                   dirty |-> FALSE, outcome |-> "none"]]
  BY DEF Init
<1>2. \A r \in Requests : mix[r] \in Body  BY CatalogAssumption
<1>3. /\ req \in [Requests -> Locals]
      /\ \A r \in Requests : /\ Pc(r) = "start" /\ req[r].dirty = FALSE /\ req[r].outcome = "none"
                             /\ B(r) \in Body
  <2>1. <<>> \in Seq(Field)  OBVIOUS
  <2> QED  BY <1>1, <1>2, <2>1 DEF Locals, Pc, B
<1>4. ASSUME NEW r \in Requests PROVE LocalOK(r)
  <2>1. B(r).kind \in Kinds  BY <1>3, BodyTyped
  <2>2. "start" \in Early(B(r))  BY <2>1 DEF Early
  <2> QED  BY <1>3, <2>2 DEF LocalOK
<1>5. ASSUME NEW t \in Tables, InitRow[t] # NoRow
      PROVE  InitRow[t].fields \in Seq(Field) /\ Distinct(InitRow[t].fields)
  <2>1. InitRow[t] \in Row  BY <1>5, CatalogAssumption DEF Names
  <2> QED  BY <1>5, <2>1, RowFields, StartAssumption DEF Sound
<1>6. columns \in [Tables -> SUBSET Field] /\ paths \in [Tables -> SUBSET Seq(STRING)]
  BY <1>5, FieldPathsTyped DEF Init
<1>7. ASSUME NEW t \in Tables, NEW c \in columns[t], NEW d \in columns[t], c.name = d.name
      PROVE  c = d
  <2>1. InitRow[t] # NoRow /\ columns[t] = Range(InitRow[t].fields)  BY <1>7 DEF Init
  <2> QED  BY <1>5, <1>7, <2>1 DEF Distinct, Range
<1>8. TypeOK
  BY <1>3, <1>6, <1>7, CatalogAssumption DEF Init, TypeOK
<1> QED  BY <1>4, <1>8 DEF TypeInv

\* Every step, and a crash, keeps the types and the requests' locals in order.
LEMMA TypeNext == ASSUME TypeInv, [Next]_vars PROVE TypeInv'
<1>1. ASSUME NEW r \in Requests, Step(r) PROVE TypeInv'
  <2>1. TypeOK' /\ Others(r) /\ LocalOK(r)'  BY <1>1, StepType
  <2>2. \A s \in Requests \ {r} : LocalOK(s)'
    <3>1. \A s \in Requests : LocalOK(s)  BY DEF TypeInv
    <3> QED  BY <2>1, <3>1, LocalKept DEF Others
  <2> QED  BY <2>1, <2>2 DEF TypeInv
<1>2. CASE Crash
  <2>0. TypeOK  BY DEF TypeInv
  <2>1. TypeOK'  BY <1>2, <2>0, Crashes, CatalogKept DEF TypeOK
  <2>2. ASSUME NEW r \in Requests PROVE LocalOK(r)'
    <3>0. LocalOK(r) /\ B(r).kind \in Kinds  BY OneRequest
    <3>1. CASE Active(r)
      <4>1. B(r)' = B(r) /\ Pc(r)' = "ended" /\ req'[r].dirty = req[r].dirty
        BY <1>2, <3>1, Crashes
      <4>2. "ended" \in IF req[r].dirty THEN Late(B(r)) ELSE Early(B(r))
        BY <3>0, <3>1 DEF LocalOK, Late, Early, Active
      <4> QED  BY <4>1, <4>2 DEF LocalOK
    <3>2. CASE ~Active(r)
      <4>1. req'[r] = req[r]  BY <1>2, <3>2, Crashes
      <4> QED  BY <3>0, <4>1, LocalKept
    <3> QED  BY <3>1, <3>2
  <2> QED  BY <2>1, <2>2 DEF TypeInv
<1>3. CASE UNCHANGED vars
  <2>1. UNCHANGED <<row, columns, paths, schemas, duck, req, mixed, crashes>>
    BY <1>3 DEF vars, metaVars, duckVars
  <2>2. TypeOK'  BY <2>1 DEF TypeInv, TypeOK
  <2>3. \A r \in Requests : LocalOK(r)'  BY <2>1, LocalKept DEF TypeInv
  <2> QED  BY <2>2, <2>3 DEF TypeInv
<1> QED  BY <1>1, <1>2, <1>3 DEF Next

\* Hence they always are.
LEMMA TypesAlways == Spec => []TypeInv
BY TypeInit, TypeNext, PTL DEF Spec

\* Every variable has its type; no two rows of _bq.table_columns have one table
\* and one name.
THEOREM TypeCorrect == Spec => []TypeOK
<1>1. TypeInv => TypeOK  BY DEF TypeInv
<1> QED  BY <1>1, TypesAlways, PTL

-----------------------------------------------------------------------------
(***************************************************************************)
(* What a step of one request leaves alone.                                *)
(***************************************************************************)
\* A list touches nothing, and changes nothing.
LEMMA NameTouched ==
  ASSUME TypeInv, NEW r \in Requests
  PROVE  /\ B(r).kind # "list" => NameOf(r) \in Touches(B(r))
         /\ Pc(r) \notin {"start", "ended", "dataset", "page"} => B(r).kind # "list"
<1>1. LocalOK(r) /\ B(r).kind \in Kinds  BY OneRequest
<1>2. B(r).kind # "list" => NameOf(r) \in Touches(B(r))  BY DEF Touches, NameOf
<1>3. B(r).kind = "list" => Pc(r) \in {"start", "ended", "dataset", "page"}
  BY <1>1 DEF LocalOK, Early, Late
<1> QED  BY <1>2, <1>3

\* The catalog is as it was but at the ids that r touches.
Spares(r) ==
  /\ \A n \in Names \ Touches(B(r)) : row'[n] = row[n]
  /\ \A t \in Tables \ Touches(B(r)) :
       columns'[t] = columns[t] /\ paths'[t] = paths[t] /\ duck'[t] = duck[t]

\* A statement that reads spares everything.
LEMMA ReadSpares ==
  ASSUME NEW r \in Requests, UNCHANGED <<metaVars, duckVars>>
  PROVE  Spares(r)
BY DEF Spares, metaVars, duckVars

\* A statement on one thing in DuckDB spares the others.
LEMMA DuckSpares ==
  ASSUME TypeInv, NEW r \in Requests, UNCHANGED metaVars, NEW thing, B(r).kind # "list",
         duck' = [duck EXCEPT ![NameOf(r)] = thing]
  PROVE  Spares(r)
<1>1. NameOf(r) \in Touches(B(r))  BY NameTouched
<1>2. duck \in [Tables \cup Routines -> Thing]  BY DEF TypeInv, TypeOK
<1> QED  BY <1>1, <1>2 DEF Spares, metaVars

\* A statement on one row spares the others.
LEMMA RowSpares ==
  ASSUME TypeInv, NEW r \in Requests, UNCHANGED <<columns, paths, duckVars>>, NEW new,
         B(r).kind # "list", row' = [row EXCEPT ![NameOf(r)] = new]
  PROVE  Spares(r)
<1>1. NameOf(r) \in Touches(B(r))  BY NameTouched
<1>2. row \in [Names -> Row \cup {NoRow}]  BY DEF TypeInv, TypeOK
<1> QED  BY <1>1, <1>2 DEF Spares, duckVars

\* A statement on one table's projections spares the others.
LEMMA ProjectionsSpare ==
  ASSUME TypeInv, NEW r \in Requests, UNCHANGED <<row, duckVars>>, NEW new, B(r).kind # "list",
         \/ columns' = [columns EXCEPT ![NameOf(r)] = new] /\ UNCHANGED paths
         \/ paths' = [paths EXCEPT ![NameOf(r)] = new] /\ UNCHANGED columns
         \/ UNCHANGED <<columns, paths>>
  PROVE  Spares(r)
<1>1. NameOf(r) \in Touches(B(r))  BY NameTouched
<1>2. columns \in [Tables -> SUBSET Field] /\ paths \in [Tables -> SUBSET Seq(STRING)]
  BY DEF TypeInv, TypeOK
<1> QED  BY <1>1, <1>2 DEF Spares, duckVars

\* DROP SCHEMA drops what is in the dataset, which it touches.
LEMMA DropSchemaSpares ==
  ASSUME TypeInv, NEW r \in Requests, DropSchema(r)
  PROVE  Spares(r)
<1>1. Touches(B(r)) = {NameOf(r)} \cup Within(NameOf(r)) /\ UNCHANGED metaVars
  BY DEF DropSchema, Touches, NameOf
<1>2. duck \in [Tables \cup Routines -> Thing]  BY DEF TypeInv, TypeOK
<1>3. ASSUME NEW t \in Tables \ Touches(B(r)) PROVE duck'[t] = duck[t]
  <2>1. t \in DOMAIN Home /\ t \in DOMAIN duck  BY <1>2, Sorts
  <2>2. Home[t] # NameOf(r)  BY <1>1, <2>1 DEF Within
  <2> QED  BY <1>2, <2>1, <2>2 DEF DropSchema, duckVars
<1> QED  BY <1>1, <1>3 DEF Spares, metaVars

\* CASCADE forgets the tables of the dataset, which it touches.
LEMMA ForgetTablesSpares ==
  ASSUME TypeInv, NEW r \in Requests, ForgetTables(r)
  PROVE  Spares(r)
<1>0. LocalOK(r) /\ B(r).kind \in Kinds /\ TypeOK  BY OneRequest
<1>1. B(r).kind = "dropSchema"  BY <1>0 DEF ForgetTables, LocalOK, Early, Late
<1>2. Touches(B(r)) = {NameOf(r)} \cup Within(NameOf(r))  BY <1>1 DEF Touches, NameOf
<1> QED  BY <1>0, <1>2 DEF ForgetTables, Spares, TypeOK, duckVars

\* No step changes what its request does not touch.
LEMMA StepSpares ==
  ASSUME TypeInv, NEW r \in Requests, Step(r)
  PROVE  Spares(r)
<1>1. CASE \/ Start(r) \/ Get(r) \/ ParentDataset(r) \/ ReadNew(r) \/ ReadMissing(r) \/ ReadOld(r)
           \/ Describe(r) \/ RefuseRepartition(r) \/ Upsert(r) \/ Forget(r) \/ ListPage(r)
  BY <1>1, ReadSpares
     DEF Start, Get, ParentDataset, ReadNew, ReadMissing, ReadOld, Describe, RefuseRepartition,
         Upsert, Forget, ListPage
<1>2. CASE EnsureDatasetSchema(r)
  BY <1>2 DEF EnsureDatasetSchema, Spares, metaVars
<1>3. CASE CreateTable(r) \/ CreateTableAs(r) \/ CreateView(r) \/ CreateMacro(r)
           \/ DropThing(r) \/ DropData(r)
  <2>1. B(r).kind # "list" /\ UNCHANGED metaVars
    BY <1>3, NameTouched DEF CreateTable, CreateTableAs, CreateView, CreateMacro, DropThing, DropData
  <2>2. \/ UNCHANGED duck
        \/ \E thing : duck' = [duck EXCEPT ![NameOf(r)] = thing]
    BY <1>3 DEF CreateTable, CreateTableAs, CreateView, CreateMacro, DropThing, DropData, Make, Refused
  <2> QED  BY <2>1, <2>2, DuckSpares DEF Spares, metaVars
<1>4. CASE AddColumn(r) \/ Clear(r) \/ Fill(r)
  <2>1. B(r).kind # "list" /\ UNCHANGED metaVars
    BY <1>4, NameTouched DEF AddColumn, Clear, Fill
  <2>2. \/ UNCHANGED duck
        \/ \E thing : duck' = [duck EXCEPT ![NameOf(r)] = thing]
    <3>1. CASE AddColumn(r)  BY <3>1 DEF AddColumn, Refused
    <3>2. CASE Clear(r)  BY <3>2 DEF Clear, Refused
    <3>3. CASE Fill(r)  BY <3>3 DEF Fill, Refused
    <3> QED  BY <1>4, <3>1, <3>2, <3>3
  <2> QED  BY <2>1, <2>2, DuckSpares DEF Spares, metaVars
<1>5. CASE UpsertTable(r) \/ UpsertDataset(r) \/ UpsertRoutine(r) \/ UpsertModel(r) \/ RemoveRow(r)
  <2>1. B(r).kind # "list" /\ UNCHANGED <<columns, paths, duckVars>>
    BY <1>5, NameTouched DEF UpsertTable, UpsertDataset, UpsertRoutine, UpsertModel, Write, RemoveRow
  <2>2. \E new : row' = [row EXCEPT ![NameOf(r)] = new]
    BY <1>5 DEF UpsertTable, UpsertDataset, UpsertRoutine, UpsertModel, Write, RemoveRow
  <2> QED  BY <2>1, <2>2, RowSpares
<1>6. CASE ClearColumns(r) \/ ClearPaths(r) \/ InsertColumn(r) \/ InsertPath(r)
           \/ RemoveColumns(r) \/ RemovePaths(r)
  <2>1. B(r).kind # "list" /\ UNCHANGED <<row, duckVars>>
    BY <1>6, NameTouched
       DEF ClearColumns, ClearPaths, InsertColumn, InsertPath, RemoveColumns, RemovePaths
  <2>2. \/ \E new : columns' = [columns EXCEPT ![NameOf(r)] = new] /\ UNCHANGED paths
        \/ \E new : paths' = [paths EXCEPT ![NameOf(r)] = new] /\ UNCHANGED columns
        \/ UNCHANGED <<columns, paths>>
    <3>1. CASE ClearColumns(r) \/ RemoveColumns(r)  BY <3>1 DEF ClearColumns, RemoveColumns
    <3>2. CASE ClearPaths(r) \/ RemovePaths(r)  BY <3>2 DEF ClearPaths, RemovePaths
    <3>3. CASE InsertColumn(r)  BY <3>3 DEF InsertColumn
    <3>4. CASE InsertPath(r)  BY <3>4 DEF InsertPath
    <3> QED  BY <1>6, <3>1, <3>2, <3>3, <3>4
  <2> QED  BY <2>1, <2>2, ProjectionsSpare
<1>7. CASE DropSchema(r)  BY <1>7, DropSchemaSpares
<1>8. CASE ForgetTables(r)  BY <1>8, ForgetTablesSpares
<1> QED  BY <1>1, <1>2, <1>3, <1>4, <1>5, <1>6, <1>7, <1>8 DEF Step

\* A step that is no first statement is one of a request at work, and leaves it
\* behind its start.  Only the checks of If-Match go on to change the row.
LEMMA StepMoves ==
  ASSUME TypeInv, NEW r \in Requests, Step(r), ~Start(r), ~Get(r)
  PROVE  /\ Active(r) /\ Pc(r)' # "start" /\ mixed' = mixed
         /\ Upsert(r) \/ Forget(r) \/ Pc(r)' \notin {"write", "remove"}
<1>0. req \in [Requests -> Locals] /\ req[r] \in Locals  BY OneRequest
<1>1. /\ \A p \in Pcs : To(r, p) \/ Did(r, p) => Pc(r)' = p
      /\ \A o \in {"ok", "error"} : End(r, o) => Pc(r)' = "ended"
      /\ DidEnd(r) => Pc(r)' = "ended"
  BY <1>0, Goes, Does, Ends, EndsDone
<1>2. CASE ParentDataset(r) \/ EnsureDatasetSchema(r) \/ ReadNew(r) \/ ReadMissing(r)
  BY <1>1, <1>2 DEF ParentDataset, EnsureDatasetSchema, ReadNew, ReadMissing, AfterDataset, AfterNew,
     Pcs, Active, Frame
<1>3. CASE ReadOld(r)
  <2>1. AfterOld(B(r)) \notin {"start", "write", "remove"}  BY DEF AfterOld
  <2>2. req' = [req EXCEPT ![r].pc = AfterOld(B(r)), ![r].was = RowOf(r)] => Pc(r)' = AfterOld(B(r))
    BY <1>0 DEF Pc, Locals
  <2>3. Pc(r)' \notin {"start", "write", "remove"}  BY <1>1, <1>3, <2>1, <2>2 DEF ReadOld
  <2> QED  BY <1>3, <2>3 DEF ReadOld, Active, Frame
<1>4. CASE \/ CreateTable(r) \/ CreateTableAs(r) \/ CreateView(r) \/ CreateMacro(r) \/ DropThing(r)
           \/ DropData(r)
  BY <1>1, <1>4 DEF CreateTable, CreateTableAs, CreateView, CreateMacro, DropThing, DropData,
     Refused, Pcs, Active, Frame
<1>5. CASE Describe(r)
  <2>1. req' = [req EXCEPT ![r].pc = "upsert", ![r].fields = Described(duck[NameOf(r)])]
          => Pc(r)' = "upsert"
    BY <1>0 DEF Pc, Locals
  <2>2. Pc(r)' \notin {"start", "write", "remove"}  BY <1>1, <1>5, <2>1 DEF Describe
  <2> QED  BY <1>5, <2>2 DEF Describe, Active, Frame
<1>6. CASE DropSchema(r) \/ ForgetTables(r)
  BY <1>1, <1>6 DEF DropSchema, ForgetTables, AfterDropSchema, Pcs, Active, Frame
<1>7. CASE AddColumn(r)
  <2>1. \A i : req' = [req EXCEPT ![r].at = i] => Pc(r)' = Pc(r)  BY <1>0 DEF Pc, Locals
  <2>2. Pc(r)' \notin {"start", "write", "remove"}  BY <1>1, <1>7, <2>1 DEF AddColumn, Refused
  <2> QED  BY <1>7, <2>2 DEF AddColumn, Active, Frame
<1>8. CASE RefuseRepartition(r) \/ Clear(r) \/ Fill(r) \/ Upsert(r)
  BY <1>1, <1>8 DEF RefuseRepartition, Altered, Clear, Fill, Upsert, Refused, Pcs, Active, Frame
<1>9. CASE \/ UpsertTable(r) \/ UpsertDataset(r) \/ UpsertRoutine(r) \/ UpsertModel(r)
           \/ ClearColumns(r) \/ Forget(r) \/ RemoveRow(r) \/ RemoveColumns(r) \/ RemovePaths(r)
  BY <1>1, <1>9 DEF UpsertTable, UpsertDataset, UpsertRoutine, UpsertModel, Write, ClearColumns,
     Forget, RemoveRow, RemoveColumns, RemovePaths, Pcs, Active, Frame
<1>10. CASE ClearPaths(r)
  <2>1. req' = [req EXCEPT ![r].pc = "column", ![r].at = 1] => Pc(r)' = "column"
    BY <1>0 DEF Pc, Locals
  <2>2. Pc(r)' \notin {"start", "write", "remove"}  BY <1>1, <1>10, <2>1 DEF ClearPaths
  <2> QED  BY <1>10, <2>2 DEF ClearPaths, Active, Frame
<1>11. CASE InsertColumn(r)
  <2>1. /\ \A i : req' = [req EXCEPT ![r].at = i] => Pc(r)' = Pc(r)
        /\ req' = [req EXCEPT ![r].pc = "path", ![r].at = 1, ![r].sub = 0] => Pc(r)' = "path"
    BY <1>0 DEF Pc, Locals
  <2>2. Pc(r)' \notin {"start", "write", "remove"}  BY <1>1, <1>11, <2>1 DEF InsertColumn
  <2> QED  BY <1>11, <2>2 DEF InsertColumn, Active, Frame
<1>12. CASE InsertPath(r)
  <2>1. /\ \A k : req' = [req EXCEPT ![r].sub = k] => Pc(r)' = Pc(r)
        /\ \A i : req' = [req EXCEPT ![r].at = i, ![r].sub = 0] => Pc(r)' = Pc(r)
    BY <1>0 DEF Pc, Locals
  <2>2. Pc(r)' \notin {"start", "write", "remove"}  BY <1>1, <1>12, <2>1 DEF InsertPath
  <2> QED  BY <1>12, <2>2 DEF InsertPath, Active, Frame
<1>13. CASE ListPage(r)
  <2>1. First(B(r)) \notin {"start", "write", "remove"}  BY DEF First
  <2>2. PICK seen, early, at, pc, outcome :
          /\ req' = [req EXCEPT ![r].seen = seen, ![r].early = early, ![r].at = at, ![r].pc = pc,
                                ![r].outcome = outcome]
          /\ pc \in {First(B(r)), "ended"}
    BY <1>13 DEF ListPage
  <2>3. Pc(r)' = pc  BY <1>0, <2>2 DEF Pc, Locals
  <2> QED  BY <1>13, <2>1, <2>2, <2>3 DEF ListPage, Active, Frame
<1> QED  BY <1>2, <1>3, <1>4, <1>5, <1>6, <1>7, <1>8, <1>9, <1>10, <1>11, <1>12, <1>13 DEF Step

\* Only Start makes a request active, and changes what is mixed.
LEMMA StepActive ==
  ASSUME TypeInv, NEW r \in Requests, Step(r)
  PROVE  /\ mixed \subseteq mixed' /\ Pc(r) # "ended"
         /\ Start(r) \/ (mixed' = mixed /\ (Active(r) \/ ~Active(r)'))
         /\ Active(r) \/ (Pc(r) = "start" /\ UNCHANGED <<metaVars, duckVars>>)
         /\ Pc(r)' # "start" \/ Pc(r) = "start"
<1>0. req \in [Requests -> Locals] /\ req[r] \in Locals  BY OneRequest
<1>1. CASE Start(r)  BY <1>1 DEF Start, Active
<1>2. CASE Get(r)
  <2>1. End(r, "error") => Pc(r)' = "ended"  BY <1>0, Ends
  <2>2. req' = [req EXCEPT ![r].held = RowOf(r)] => Pc(r)' = Pc(r)  BY <1>0 DEF Pc, Locals
  <2> QED  BY <1>2, <2>1, <2>2 DEF Get, Active, Frame
<1>3. CASE ~Start(r) /\ ~Get(r)  BY <1>3, StepMoves DEF Active
<1> QED  BY <1>1, <1>2, <1>3

-----------------------------------------------------------------------------
(***************************************************************************)
(* Requests at work together, and clients that send If-Match.              *)
(***************************************************************************)
\* Nobody is at work when the server starts.
LEMMA MixedInit == ASSUME Init PROVE MixedInv
BY DEF Init, MixedInv, Active, Pc

\* A request that starts beside another one is noted in mixed.
LEMMA MixedNext == ASSUME TypeInv, MixedInv, [Next]_vars PROVE MixedInv'
<1>1. ASSUME NEW r \in Requests, Step(r) PROVE MixedInv'
  <2>1. Others(r)  BY <1>1, StepType
  <2>2. /\ mixed \subseteq mixed'
        /\ Start(r) \/ (mixed' = mixed /\ (Active(r) \/ ~Active(r)'))
    BY <1>1, StepActive
  <2>3. \A s \in Requests : B(s)' = B(s)  BY <2>1 DEF Others, B
  <2>4. \A s \in Requests \ {r} : Active(s)' = Active(s)  BY <2>1 DEF Others, Active, Pc
  <2> SUFFICES ASSUME NEW s \in Requests, NEW u \in Requests, s # u, Active(s)', Active(u)',
                      ~(Careful(B(s)) /\ Careful(B(u)))
               PROVE  Touches(B(s)) \cap Touches(B(u)) \subseteq mixed'
    BY <2>3 DEF MixedInv
  <2>5. CASE Active(s) /\ Active(u)  BY <2>2, <2>5 DEF MixedInv
  <2>6. CASE ~(Active(s) /\ Active(u))
    <3>1. Start(r) /\ ~Active(r) /\ r \in {s, u}  BY <2>2, <2>4, <2>6 DEF Start, Active
    <3>2. \A v \in Requests : Active(v) /\ ~(Careful(B(r)) /\ Careful(B(v))) =>
            Touches(B(r)) \cap Touches(B(v)) \subseteq mixed'
      BY <3>1 DEF Start
    <3>3. Active(s) \/ Active(u)  BY <2>4, <3>1
    <3> QED  BY <3>1, <3>2, <3>3
  <2> QED  BY <2>5, <2>6
<1>2. CASE Crash
  <2>1. mixed' = mixed /\ \A r \in Requests : B(r)' = B(r) /\ (Active(r)' => Active(r))
    BY <1>2, Crashes DEF Active, Pc
  <2> QED  BY <2>1 DEF MixedInv
<1>3. CASE UNCHANGED vars
  BY <1>3 DEF vars, MixedInv, Active, Pc, B
<1> QED  BY <1>1, <1>2, <1>3 DEF Next

\* A request that changes something of n, which another one is at work on, and
\* not as a careful creator, makes it mixed.
LEMMA Alone ==
  ASSUME TypeInv, MixedInv, NEW r \in Requests, NEW s \in Requests, r # s,
         Active(r), Active(s), ~Careful(B(r)) \/ ~Careful(B(s)),
         NEW n \in Touches(B(r)), n \in Touches(B(s))
  PROVE  n \in mixed
BY DEF MixedInv

\* A client's row stays the row until its request has written it.
LEMMA HeldNext == ASSUME TypeInv, MixedInv, HeldInv, [Next]_vars PROVE HeldInv'
<1>1. ASSUME NEW r \in Requests, Step(r) PROVE HeldInv'
  <2>1. Others(r) /\ mixed \subseteq mixed'  BY <1>1, StepType, StepActive
  <2> SUFFICES ASSUME NEW s \in Requests, B(s)'.match, Pc(s)' \in {"write", "remove"},
                      NameOf(s)' \notin mixed' \cup Routines
               PROVE  RowOf(s)' = req'[s].held
    BY DEF HeldInv
  <2>2. B(s)' = B(s) /\ NameOf(s)' = NameOf(s)  BY <2>1 DEF Others, B, NameOf
  <2>3. NameOf(s) \notin mixed \cup Routines /\ B(s).match  BY <2>1, <2>2
  <2>4. CASE s = r
    <3>1. Upsert(r) \/ Forget(r)
      <4>1. ~Start(r) /\ ~Get(r)
        <5>0. req \in [Requests -> Locals] /\ req[r] \in Locals  BY OneRequest
        <5>1. Start(r) => Pc(r)' \notin {"write", "remove"}
          <6>1. First(B(r)) \in Pcs /\ First(B(r)) \notin {"write", "remove"}  BY DEF First, Pcs
          <6> QED  BY <5>0, <6>1, Goes DEF Start
        <5>2. End(r, "error") => Pc(r)' = "ended"  BY <5>0, Ends
        <5>3. req' = [req EXCEPT ![r].held = RowOf(r)] => Pc(r)' = Pc(r)  BY <5>0 DEF Pc, Locals
        <5>4. Get(r) => Pc(r)' \notin {"write", "remove"}  BY <5>2, <5>3 DEF Get
        <5> QED  BY <2>4, <5>1, <5>4
      <4> QED  BY <1>1, <2>4, <4>1, StepMoves
    <3>2. To(r, Pc(r)') /\ CheckIfMatch(r, RowOf(r)) /\ UNCHANGED row
      <4>0. req \in [Requests -> Locals] /\ req[r] \in Locals  BY OneRequest
      <4>1. /\ \A o \in {"ok", "error"} : End(r, o) => Pc(r)' = "ended"
            /\ \A p \in Pcs : To(r, p) => Pc(r)' = p
        BY <4>0, Goes, Ends
      <4>2. CASE Upsert(r)  BY <2>4, <4>1, <4>2 DEF Upsert, Pcs, metaVars
      <4>3. CASE Forget(r)  BY <2>4, <4>1, <4>3 DEF Forget, Pcs, metaVars
      <4> QED  BY <3>1, <4>2, <4>3
    <3>3. req'[r].held = req[r].held
      <4>1. req \in [Requests -> Locals] /\ req[r] \in Locals  BY OneRequest
      <4>2. PICK p : To(r, p)  BY <3>2
      <4> QED  BY <4>1, <4>2 DEF To, Locals
    <3>4. RowOf(r) = req[r].held  BY <2>3, <2>4, <3>2 DEF CheckIfMatch
    <3> QED  BY <2>2, <2>4, <3>2, <3>3, <3>4 DEF RowOf
  <2>5. CASE s # r
    <3>1. req'[s] = req[s] /\ Pc(s) \in {"write", "remove"} /\ Active(s)
      BY <2>1, <2>5 DEF Others, Pc, Active
    <3>2. RowOf(s) = req[s].held  BY <2>3, <3>1 DEF HeldInv
    <3>3. /\ NameOf(s) \in Touches(B(s)) /\ NameOf(s) \in Names /\ ~Careful(B(s))
      <4>1. B(s).kind \in Patches \cup Deletes /\ NameOf(s) \in Names
        BY <2>3, BodyTyped, OneRequest
      <4> QED  BY <4>1, NameTouched DEF Careful
    <3>4. CASE NameOf(s) \notin Touches(B(r))
      <4>1. row'[NameOf(s)] = row[NameOf(s)]  BY <1>1, <3>3, <3>4, StepSpares DEF Spares
      <4> QED  BY <2>2, <3>1, <3>2, <4>1 DEF RowOf
    <3>5. CASE NameOf(s) \in Touches(B(r))
      <4>1. ~Active(r)  BY <2>3, <2>5, <3>1, <3>3, <3>5, Alone
      <4>2. UNCHANGED row  BY <1>1, <4>1, StepActive DEF metaVars
      <4> QED  BY <2>2, <3>1, <3>2, <4>2 DEF RowOf
    <3> QED  BY <3>4, <3>5
  <2> QED  BY <2>4, <2>5
<1>2. CASE Crash
  <2>1. /\ UNCHANGED <<row, mixed>>
        /\ \A r \in Requests : /\ B(r)' = B(r)
                               /\ Pc(r)' \in {"write", "remove"} => req'[r] = req[r]
    BY <1>2, Crashes DEF metaVars, Active
  <2>2. \A r \in Requests : NameOf(r)' = NameOf(r) /\ RowOf(r)' = RowOf(r)
    BY <2>1 DEF NameOf, RowOf
  <2> QED  BY <2>1, <2>2 DEF HeldInv, Pc
<1>3. CASE UNCHANGED vars
  BY <1>3 DEF vars, metaVars, HeldInv, Pc, B, NameOf, RowOf
<1> QED  BY <1>1, <1>2, <1>3 DEF Next

\* Requests at work together on one id are always noted.
LEMMA MixedAlways == Spec => []MixedInv
BY MixedInit, MixedNext, TypesAlways, PTL DEF Spec

\* What a client holds under If-Match is always the row.
LEMMA HeldAlways == Spec => []HeldInv
<1>1. Init => HeldInv  BY DEF Init, HeldInv, Pc
<1> QED  BY <1>1, HeldNext, MixedAlways, TypesAlways, PTL DEF Spec

\* A PATCH or DELETE with If-Match that no other request overlaps overwrites or
\* removes the row its client has read.
THEOREM NoLostUpdateAlways == Spec => NoLostUpdate
<1>1. ASSUME HeldInv
      PROVE  \A r \in Requests : /\ Pc(r) \in {"write", "remove"} /\ Pc(r)' # Pc(r)
                                 /\ req'[r].outcome # "lost"
                                 /\ B(r).match /\ NameOf(r) \notin mixed \cup Routines
                                 => RowOf(r) = req[r].held
  BY <1>1 DEF HeldInv
<1> QED  BY <1>1, HeldAlways, PTL DEF NoLostUpdate

-----------------------------------------------------------------------------
(***************************************************************************)
(* Lists.                                                                  *)
(***************************************************************************)
\* The rank of an id in a set: lower than the set is large, and no lower in a
\* larger set.
LEMMA RankBound ==
  ASSUME NEW S, IsFiniteSet(S), S \subseteq Nat, NEW n \in S
  PROVE  Rank(n, S) \in Nat /\ Cardinality(S) \in Nat /\ Rank(n, S) < Cardinality(S)
<1> DEFINE below == {m \in S : m < n}
<1>1. below \subseteq S /\ n \notin below /\ below # S  OBVIOUS
<1> HIDE DEF below
<1>2. IsFiniteSet(below) /\ Cardinality(below) <= Cardinality(S)  BY <1>1, FS_Subset
<1>3. Cardinality(below) # Cardinality(S)  BY <1>1, FS_Subset
<1>4. Cardinality(below) \in Nat /\ Cardinality(S) \in Nat  BY <1>2, FS_CardinalityType
<1> QED  BY <1>2, <1>3, <1>4 DEF Rank, below

\* An id's rank in a set is no lower in a larger one.
LEMMA RankGrows ==
  ASSUME NEW T, IsFiniteSet(T), NEW S \in SUBSET T, NEW n
  PROVE  Rank(n, S) \in Nat /\ Rank(n, T) \in Nat /\ Rank(n, S) <= Rank(n, T)
<1> DEFINE inS == {m \in S : m < n}
           inT == {m \in T : m < n}
<1>1. inS \subseteq inT /\ inT \subseteq T  OBVIOUS
<1> HIDE DEF inS, inT
<1>2. IsFiniteSet(inT)  BY <1>1, FS_Subset
<1>3. IsFiniteSet(inS) /\ Cardinality(inS) <= Cardinality(inT)  BY <1>1, <1>2, FS_Subset
<1>4. Cardinality(inS) \in Nat /\ Cardinality(inT) \in Nat  BY <1>2, <1>3, FS_CardinalityType
<1> QED  BY <1>3, <1>4 DEF Rank, inS, inT

\* Lists are finite.
LEMMA ListedFinite ==
  ASSUME NEW n \in Names
  PROVE  Listed(n) \subseteq Names /\ Listed(n) \subseteq Nat /\ IsFiniteSet(Listed(n))
<1>1. Listed(n) \subseteq Names  BY ListedNames
<1>2. Names \subseteq Nat /\ IsFiniteSet(Names)  BY CatalogAssumption
<1> QED  BY <1>1, <1>2, FS_Subset

\* Rows are removed by DELETE and DROP alone.
LEMMA RowsStay ==
  ASSUME TypeInv, NEW r \in Requests, Step(r), B(r).kind \notin Deletes \cup Drops,
         NEW n \in Names, row[n] # NoRow
  PROVE  row'[n] # NoRow
<1>0. TypeOK /\ LocalOK(r) /\ B(r).kind \in Kinds  BY OneRequest
<1>1. CASE Write(r)
  <2>1. Input(r) \in Row  BY <1>1, WriteType
  <2>2. Input(r) # NoRow  BY <2>1, CatalogAssumption
  <2> QED  BY <1>0, <1>1, <2>2 DEF Write, TypeOK
<1>2. CASE RemoveRow(r) \/ ForgetTables(r)
  BY <1>0, <1>2 DEF RemoveRow, ForgetTables, LocalOK, Early, Late
<1>3. CASE row' = row  BY <1>3
<1>4. CASE \/ CreateTable(r) \/ CreateTableAs(r) \/ CreateView(r) \/ Describe(r) \/ CreateMacro(r)
           \/ DropThing(r) \/ DropSchema(r) \/ AddColumn(r) \/ RefuseRepartition(r) \/ Clear(r) \/ Fill(r)
  <2>1. UNCHANGED metaVars
    BY <1>4 DEF CreateTable, CreateTableAs, CreateView, Describe, CreateMacro, DropThing, DropSchema,
       AddColumn, RefuseRepartition, Clear, Fill
  <2> QED  BY <1>3, <2>1 DEF metaVars
<1>5. CASE \/ Start(r) \/ Get(r) \/ ParentDataset(r) \/ EnsureDatasetSchema(r) \/ ReadNew(r)
           \/ ReadMissing(r) \/ ReadOld(r) \/ Upsert(r) \/ Forget(r) \/ ListPage(r) \/ DropData(r)
  <2>1. UNCHANGED metaVars
    BY <1>5 DEF Start, Get, ParentDataset, EnsureDatasetSchema, ReadNew, ReadMissing, ReadOld, Upsert,
       Forget, ListPage, DropData
  <2> QED  BY <1>3, <2>1 DEF metaVars
<1>6. CASE \/ ClearColumns(r) \/ ClearPaths(r) \/ InsertColumn(r) \/ InsertPath(r)
           \/ RemoveColumns(r) \/ RemovePaths(r)
  BY <1>3, <1>6 DEF ClearColumns, ClearPaths, InsertColumn, InsertPath, RemoveColumns, RemovePaths
<1>7. CASE UpsertTable(r) \/ UpsertDataset(r) \/ UpsertRoutine(r) \/ UpsertModel(r)
  BY <1>1, <1>7 DEF UpsertTable, UpsertDataset, UpsertRoutine, UpsertModel
<1> QED  BY <1>2, <1>4, <1>5, <1>6, <1>7 DEF Step

\* What is listed stays listed as long as rows stay.
LEMMA ListedStays ==
  ASSUME NEW n \in Names, \A m \in Names : row[m] # NoRow => row'[m] # NoRow
  PROVE  Listed(n) \subseteq Listed(n)'
<1>1. /\ DatasetsOf \subseteq DatasetsOf'
      /\ \A d : /\ TablesOf(d) \subseteq TablesOf(d)'
                /\ RoutinesOf(d) \subseteq RoutinesOf(d)' /\ ModelsOf(d) \subseteq ModelsOf(d)'
  BY DEF DatasetsOf, TablesOf, RoutinesOf, ModelsOf, Names
<1>2. n \in Datasets \cup Tables \cup Routines \cup Models  BY DEF Names
<1>3. CASE n \in Datasets
  <2>1. Listed(n) = DatasetsOf /\ Listed(n)' = DatasetsOf'  BY <1>3, CatalogAssumption DEF Listed
  <2> QED  BY <1>1, <2>1
<1>4. CASE n \in Tables
  <2>1. Listed(n) = TablesOf(Home[n]) /\ Listed(n)' = TablesOf(Home[n])'
    BY <1>4, CatalogAssumption DEF Listed
  <2> QED  BY <1>1, <2>1
<1>5. CASE n \in Routines
  <2>1. Listed(n) = RoutinesOf(Home[n]) /\ Listed(n)' = RoutinesOf(Home[n])'
    BY <1>5, CatalogAssumption DEF Listed
  <2> QED  BY <1>1, <2>1
<1>6. CASE n \in Models
  <2>1. Listed(n) = ModelsOf(Home[n]) /\ Listed(n)' = ModelsOf(Home[n])'
    BY <1>6, CatalogAssumption DEF Listed
  <2> QED  BY <1>1, <2>1
<1> QED  BY <1>2, <1>3, <1>4, <1>5, <1>6

\* A step of another request moves nothing to a page that is past.
LEMMA ComingKept ==
  ASSUME TypeInv, NEW s \in Requests, \A m \in Names : row[m] # NoRow => row'[m] # NoRow,
         B(s)' = B(s), req'[s].early = req[s].early, req'[s].seen = req[s].seen,
         req'[s].at = req[s].at, req'[s].outcome # "ok" \/ req[s].outcome = "ok", Coming(s)
  PROVE  Coming(s)'
<1>0. NameOf(s) \in Names /\ req[s].at \in Nat  BY OneRequest DEF Locals
<1>1. PICK m \in Names : m = NameOf(s)  BY <1>0
<1> DEFINE S == Listed(m)
           T == Listed(m)'
<1>2. S \subseteq T  BY ListedStays
<1>3. IsFiniteSet(T)
  <2>1. T \subseteq Names
    BY CatalogAssumption DEF Names, Listed, DatasetsOf, TablesOf, RoutinesOf, ModelsOf
  <2>2. IsFiniteSet(Names)  BY CatalogAssumption
  <2> HIDE DEF T
  <2> QED  BY <2>1, <2>2, FS_Subset
<1>4. NameOf(s)' = m  BY <1>1 DEF NameOf
<1>5. \A n \in req[s].early :
        n \in req[s].seen \/ (req[s].outcome # "ok" /\ n \in S /\ Rank(n, S) >= req[s].at)
  BY <1>1 DEF Coming
<1>6. ASSUME NEW n \in req[s].early, n \notin req[s].seen
      PROVE  req'[s].outcome # "ok" /\ n \in T /\ Rank(n, T) >= req[s].at
  <2> HIDE DEF S, T
  <2>1. n \in S /\ Rank(n, S) >= req[s].at /\ req'[s].outcome # "ok"  BY <1>5, <1>6
  <2>2. Rank(n, S) \in Nat /\ Rank(n, T) \in Nat /\ Rank(n, S) <= Rank(n, T)
    BY <1>2, <1>3, RankGrows
  <2> QED  BY <1>0, <1>2, <2>1, <2>2
<1> QED  BY <1>4, <1>6 DEF Coming

\* A page takes all that is due but what comes after it.
LEMMA ComingPage ==
  ASSUME TypeInv, NEW r \in Requests, ListPage(r), Coming(r),
         req[r].at = 0 => req[r].early = {}
  PROVE  /\ Coming(r)'
         /\ req'[r].at = 0 /\ Pc(r)' # "ended" => req'[r].early = {}
<1>0. req \in [Requests -> Locals] /\ req[r] \in Locals /\ NameOf(r) \in Names  BY OneRequest
<1>10. PICK m \in Names : m = NameOf(r)  BY <1>0
<1> DEFINE S == Listed(m)
           offset == req[r].at
           page == {n \in S : Rank(n, S) \in offset .. offset + PageSize - 1}
           more == Cardinality(S) > offset + PageSize
<1>1. /\ req'[r].seen = req[r].seen \cup page
      /\ req'[r].early = IF offset = 0 THEN S ELSE req[r].early
      /\ req'[r].at = IF more THEN offset + PageSize ELSE offset
      /\ req'[r].outcome = IF more THEN "none" ELSE "ok"
      /\ req'[r].pc = IF more THEN First(B(r)) ELSE "ended"
      /\ req'[r].body = req[r].body
  <2>1. /\ req' = [req EXCEPT ![r].seen = @ \cup page,
                              ![r].early = IF offset = 0 THEN S ELSE @,
                              ![r].at = IF more THEN NextOffset(offset) ELSE @,
                              ![r].pc = IF more THEN First(B(r)) ELSE "ended",
                              ![r].outcome = IF more THEN "none" ELSE "ok"]
    BY <1>10 DEF ListPage
  <2> HIDE DEF S, page, more
  <2> QED  BY <1>0, <2>1 DEF Locals, NextOffset
<1>2. Listed(m)' = S /\ NameOf(r)' = m
  <2>1. UNCHANGED row  BY DEF ListPage, metaVars
  <2>2. NameOf(r)' = m  BY <1>1, <1>10 DEF NameOf, B
  <2> QED  BY <2>1, <2>2 DEF Listed, DatasetsOf, TablesOf, RoutinesOf, ModelsOf
<1>3. offset \in Nat /\ PageSize \in Nat \ {0}  BY <1>0, CatalogAssumption DEF Locals
<1>4. S \subseteq Nat /\ IsFiniteSet(S)  BY ListedFinite
<1>5. ASSUME NEW n \in req'[r].early, n \notin req'[r].seen
      PROVE  more /\ n \in S /\ Rank(n, S) >= offset + PageSize
  <2>1. n \in S /\ Rank(n, S) >= offset
    <3>1. CASE offset = 0
      <4>1. n \in S  BY <1>1, <1>5, <3>1
      <4>2. Rank(n, S) \in Nat  BY <1>4, <4>1, RankBound
      <4> QED  BY <3>1, <4>1, <4>2
    <3>2. CASE offset # 0
      <4>1. n \in req[r].early /\ n \notin req[r].seen  BY <1>1, <1>5, <3>2
      <4> QED  BY <1>10, <4>1 DEF Coming
    <3> QED  BY <3>1, <3>2
  <2>2. Rank(n, S) \in Nat /\ Cardinality(S) \in Nat /\ Rank(n, S) < Cardinality(S)
    BY <1>4, <2>1, RankBound
  <2>3. n \notin page  BY <1>1, <1>5
  <2>4. ~(Rank(n, S) \in offset .. offset + PageSize - 1)  BY <2>1, <2>3
  <2> HIDE DEF S, page, offset
  <2>5. Rank(n, S) >= offset + PageSize  BY <1>3, <2>1, <2>2, <2>4
  <2> QED  BY <1>3, <2>1, <2>2, <2>5
<1> HIDE DEF S, page, more, offset
<1>6. Coming(r)'
  <2> SUFFICES ASSUME NEW n \in req'[r].early, n \notin req'[r].seen
               PROVE  /\ req'[r].outcome # "ok"
                      /\ n \in Listed(m)' /\ Rank(n, Listed(m)') >= req'[r].at
    BY <1>2 DEF Coming
  <2> QED  BY <1>1, <1>2, <1>5
<1>7. req'[r].at = 0 /\ Pc(r)' # "ended" => req'[r].early = {}
  BY <1>1, <1>3 DEF Pc
<1> QED  BY <1>6, <1>7

\* A list's own step.
LEMMA ListStep ==
  ASSUME TypeInv, NEW r \in Requests, Step(r), B(r).kind = "list",
         req[r].at = 0 /\ Pc(r) # "ended" => req[r].early = {}
  PROVE  /\ req'[r].at = 0 /\ Pc(r)' # "ended" => req'[r].early = {}
         /\ Coming(r) => Coming(r)'
<1>0. /\ req \in [Requests -> Locals] /\ req[r] \in Locals /\ LocalOK(r) /\ NameOf(r) \in Names
      /\ ~B(r).match
  BY OneRequest, BodyTyped
<1>1. Pc(r) \in {"start", "ended", "dataset", "page"}  BY <1>0 DEF LocalOK, Early, Late
<1>2. Start(r) \/ ParentDataset(r) \/ ListPage(r)
  <2>1. /\ Pc(r) = "start" \/ Pc(r) = "dataset" \/ Pc(r) = "page" \/ Pc(r) = "ended"
        /\ B(r).kind \notin Creators /\ ~Get(r)
    BY <1>0, <1>1 DEF Get
  <2>2. ~EnsureDatasetSchema(r) /\ ~ReadNew(r) /\ ~ReadMissing(r) /\ ~ReadOld(r)
    BY <2>1 DEF EnsureDatasetSchema, ReadNew, ReadMissing, ReadOld
  <2>3. /\ ~CreateTable(r) /\ ~CreateTableAs(r) /\ ~CreateView(r) /\ ~Describe(r) /\ ~CreateMacro(r)
        /\ ~DropThing(r) /\ ~DropSchema(r) /\ ~ForgetTables(r)
    BY <2>1 DEF CreateTable, CreateTableAs, CreateView, Describe, CreateMacro, DropThing, DropSchema,
       ForgetTables
  <2>4. ~AddColumn(r) /\ ~RefuseRepartition(r) /\ ~Clear(r) /\ ~Fill(r) /\ ~Upsert(r)
    BY <2>1 DEF AddColumn, RefuseRepartition, Altered, Clear, Fill, Upsert
  <2>5. ~UpsertTable(r) /\ ~UpsertDataset(r) /\ ~UpsertRoutine(r) /\ ~UpsertModel(r)
    BY <2>1 DEF UpsertTable, UpsertDataset, UpsertRoutine, UpsertModel, Write
  <2>6. ~ClearColumns(r) /\ ~ClearPaths(r) /\ ~InsertColumn(r) /\ ~InsertPath(r)
    BY <2>1 DEF ClearColumns, ClearPaths, InsertColumn, InsertPath
  <2>7. ~Forget(r) /\ ~RemoveRow(r) /\ ~RemoveColumns(r) /\ ~RemovePaths(r) /\ ~DropData(r)
    BY <2>1 DEF Forget, RemoveRow, RemoveColumns, RemovePaths, DropData
  <2> QED  BY <2>1, <2>2, <2>3, <2>4, <2>5, <2>6, <2>7 DEF Step
<1>3. CASE Start(r) \/ ParentDataset(r)
  <2>1. /\ B(r)' = B(r) /\ Same(r) /\ (req'[r].outcome = "error" \/ req'[r].outcome = req[r].outcome)
        /\ UNCHANGED row
    <3>1. CASE Start(r)
      <4>1. First(B(r)) \in Pcs  BY DEF First, Pcs
      <4> QED  BY <1>0, <3>1, <4>1, Goes DEF Start, Others, metaVars
    <3>2. CASE ParentDataset(r)
      <4>1. AfterDataset(B(r)) \in Pcs  BY DEF AfterDataset, Pcs
      <4> QED  BY <1>0, <3>2, <4>1, Goes, Ends DEF ParentDataset, Others, metaVars
    <3> QED  BY <1>3, <3>1, <3>2
  <2>2. Coming(r) => Coming(r)'  BY <2>1, ComingKept DEF Same
  <2>3. Pc(r) # "ended"  BY <1>3 DEF Start, ParentDataset
  <2> QED  BY <2>1, <2>2, <2>3 DEF Same
<1>4. CASE ListPage(r)
  <2>1. Pc(r) # "ended"  BY <1>4 DEF ListPage
  <2>2. CASE Coming(r)  BY <1>4, <2>1, <2>2, ComingPage
  <2>3. CASE ~Coming(r)
    <3>1. req[r].at \in Nat /\ PageSize \in Nat \ {0}  BY <1>0, CatalogAssumption DEF Locals
    <3>2. req[r].at # 0  BY <2>1, <2>3 DEF Coming
    <3>3. req'[r].at \in {req[r].at, req[r].at + PageSize}
      BY <1>0, <1>4 DEF ListPage, NextOffset, Locals
    <3>4. req'[r].at # 0  BY <3>1, <3>2, <3>3
    <3> QED  BY <2>3, <3>4
  <2> QED  BY <2>2, <2>3
<1> QED  BY <1>2, <1>3, <1>4

\* Every step keeps what the lists promise.
LEMMA ListNext == ASSUME TypeInv, ListInv, [Next]_vars PROVE ListInv'
<1>1. ASSUME NEW r \in Requests, Step(r) PROVE ListInv'
  <2>1. Others(r) /\ (Pc(r)' # "start" \/ Pc(r) = "start")  BY <1>1, StepType, StepActive
  <2>2. \A s \in Requests : B(s)' = B(s)  BY <2>1 DEF Others, B
  <2>3. Removing => Removing'
    <3>1. \A s \in Requests : Pc(s)' # "start" \/ Pc(s) = "start"  BY <2>1 DEF Others, Pc
    <3> QED  BY <2>2, <3>1 DEF Removing
  <2>4. ASSUME NEW s \in Requests, B(s).kind = "list"
        PROVE  /\ req'[s].at = 0 /\ Pc(s)' # "ended" => req'[s].early = {}
               /\ ~Removing' => Coming(s)'
    <3>1. /\ req[s].at = 0 /\ Pc(s) # "ended" => req[s].early = {}
          /\ ~Removing => Coming(s)
      BY <2>4 DEF ListInv
    <3>2. CASE s = r  BY <1>1, <2>3, <2>4, <3>1, <3>2, ListStep
    <3>3. CASE s # r
      <4>1. req'[s] = req[s]  BY <2>1, <3>3 DEF Others
      <4>2. ASSUME ~Removing' PROVE Coming(s)'
        <5>1. ASSUME Get(r)
              PROVE  \A m \in Names : row[m] # NoRow => row'[m] # NoRow
          BY <5>1 DEF Get, metaVars
        <5>2. ASSUME ~Get(r)
              PROVE  \A m \in Names : row[m] # NoRow => row'[m] # NoRow
          <6>1. Start(r) => Pc(r)' # "start"
            <7>1. req \in [Requests -> Locals]  BY OneRequest
            <7>2. First(B(r)) \in Pcs /\ First(B(r)) # "start"  BY DEF First, Pcs
            <7> QED  BY <7>1, <7>2, Goes DEF Start
          <6>2. Pc(r)' # "start"  BY <1>1, <5>2, <6>1, StepMoves
          <6>3. B(r).kind \notin Deletes \cup Drops  BY <2>2, <4>2, <6>2 DEF Removing
          <6> QED  BY <1>1, <6>3, RowsStay
        <5>3. \A m \in Names : row[m] # NoRow => row'[m] # NoRow
          BY <1>1, <5>1, <5>2
        <5> QED  BY <2>2, <2>3, <3>1, <4>1, <4>2, <5>3, ComingKept
      <4> QED  BY <3>1, <4>1, <4>2 DEF Pc
    <3> QED  BY <3>2, <3>3
  <2> QED  BY <2>2, <2>4 DEF ListInv
<1>2. CASE Crash
  <2>1. /\ UNCHANGED row
        /\ \A r \in Requests : /\ B(r)' = B(r) /\ Same(r)
                               /\ (Pc(r)' = "start") = (Pc(r) = "start")
                               /\ Pc(r)' # "ended" => Pc(r) # "ended"
                               /\ req'[r].outcome # "ok" \/ req[r].outcome = "ok"
    BY <1>2, Crashes DEF metaVars, Active, Pc
  <2>2. Removing' = Removing  BY <2>1 DEF Removing
  <2>3. \A r \in Requests : Coming(r) => Coming(r)'  BY <2>1, ComingKept DEF Same
  <2> QED  BY <2>1, <2>2, <2>3 DEF ListInv, Same
<1>3. CASE UNCHANGED vars
  <2>1. UNCHANGED <<row, req>>  BY <1>3 DEF vars, metaVars
  <2>2. Removing' = Removing  BY <2>1 DEF Removing, Pc, B
  <2>3. \A r \in Requests : Coming(r) => Coming(r)'
    BY <2>1, ComingKept DEF B
  <2> QED  BY <2>1, <2>2, <2>3 DEF ListInv, B, Pc
<1> QED  BY <1>1, <1>2, <1>3 DEF Next

\* Hence they always keep it.
LEMMA ListAlways == Spec => []ListInv
<1>1. Init => ListInv
  BY DEF Init, ListInv, Coming, Pc
<1> QED  BY <1>1, ListNext, TypesAlways, PTL DEF Spec

\* A client that lists to the end misses nothing that was there when it began,
\* unless something of that kind was removed meanwhile.
THEOREM ListMissesNoneAlways == Spec => []ListMissesNone
<1>1. ListInv => ListMissesNone
  BY DEF ListInv, ListMissesNone, Coming, Removing
<1> QED  BY <1>1, ListAlways, PTL

-----------------------------------------------------------------------------
(***************************************************************************)
(* Datasets and their schemas.                                             *)
(***************************************************************************)
\* What is undamaged has always been.
LEMMA CleanBefore ==
  ASSUME TypeInv, [Next]_vars, NEW n, Clean(n)'
  PROVE  Clean(n)
<1>1. \A r \in Requests : LocalOK(r) /\ (Stopped(r) => Pc(r) = "ended")
  BY OneRequest DEF LocalOK, Stopped
<1>2. ASSUME NEW r \in Requests, Step(r) PROVE Clean(n)
  <2>1. mixed \subseteq mixed' /\ Pc(r) # "ended" /\ Others(r)  BY <1>2, StepActive, StepType
  <2>2. \A s \in Requests : Stopped(s) => Stopped(s)' /\ B(s)' = B(s)
    BY <1>1, <2>1 DEF Stopped, Others, B
  <2> QED  BY <2>1, <2>2 DEF Clean
<1>3. CASE Crash
  <2>1. mixed' = mixed  BY <1>3, Crashes
  <2>2. \A s \in Requests : Stopped(s) => Stopped(s)' /\ B(s)' = B(s)
    BY <1>1, <1>3, Crashes DEF Stopped, Active
  <2> QED  BY <2>1, <2>2 DEF Clean
<1>4. CASE UNCHANGED vars  BY <1>4 DEF vars, Clean, Stopped, B
<1> QED  BY <1>2, <1>3, <1>4 DEF Next

\* A request ends with what it leaves undamaged only if it has changed nothing
\* or is done.
LEMMA CleanCrash ==
  ASSUME TypeInv, Crash, NEW n, Clean(n)', NEW r \in Requests, Active(r), n \in Touches(B(r))
  PROVE  ~req[r].dirty
BY Crashes DEF Clean, Stopped

\* Only upserts and deletes of a dataset change its row.
LEMMA DatasetRow ==
  ASSUME TypeInv, NEW r \in Requests, Step(r), NEW d \in Datasets, row'[d] # row[d]
  PROVE  NameOf(r) = d /\ (UpsertDataset(r) \/ RemoveRow(r))
<1>0. d \in Names /\ d \notin Tables /\ TypeOK  BY OneRequest, CatalogAssumption DEF Names
<1>1. row' # row  OBVIOUS
<1>2. \/ UpsertTable(r) \/ UpsertDataset(r) \/ UpsertRoutine(r) \/ UpsertModel(r) \/ RemoveRow(r)
      \/ ForgetTables(r)
  <2>1. /\ ~CreateTable(r) /\ ~CreateTableAs(r) /\ ~CreateView(r) /\ ~Describe(r) /\ ~CreateMacro(r)
        /\ ~DropThing(r) /\ ~DropSchema(r) /\ ~AddColumn(r) /\ ~RefuseRepartition(r) /\ ~Clear(r)
        /\ ~Fill(r)
    BY <1>1 DEF CreateTable, CreateTableAs, CreateView, Describe, CreateMacro, DropThing, DropSchema,
       AddColumn, RefuseRepartition, Clear, Fill, metaVars
  <2>2. /\ ~Start(r) /\ ~Get(r) /\ ~ParentDataset(r) /\ ~EnsureDatasetSchema(r) /\ ~ReadNew(r)
        /\ ~ReadMissing(r) /\ ~ReadOld(r) /\ ~Upsert(r) /\ ~Forget(r) /\ ~ListPage(r) /\ ~DropData(r)
    BY <1>1 DEF Start, Get, ParentDataset, EnsureDatasetSchema, ReadNew, ReadMissing, ReadOld, Upsert,
       Forget, ListPage, DropData, metaVars
  <2>3. /\ ~ClearColumns(r) /\ ~ClearPaths(r) /\ ~InsertColumn(r) /\ ~InsertPath(r)
        /\ ~RemoveColumns(r) /\ ~RemovePaths(r)
    BY <1>1 DEF ClearColumns, ClearPaths, InsertColumn, InsertPath, RemoveColumns, RemovePaths
  <2> QED  BY <2>1, <2>2, <2>3 DEF Step
<1>3. ~ForgetTables(r)  BY <1>0 DEF ForgetTables, TypeOK
<1>4. \E new : row' = [row EXCEPT ![NameOf(r)] = new]
  BY <1>2, <1>3 DEF UpsertTable, UpsertDataset, UpsertRoutine, UpsertModel, Write, RemoveRow
<1>5. NameOf(r) = d  BY <1>0, <1>4 DEF TypeOK
<1>6. ~UpsertTable(r) /\ ~UpsertRoutine(r) /\ ~UpsertModel(r)
  BY <1>5, CatalogAssumption DEF UpsertTable, UpsertRoutine, UpsertModel
<1> QED  BY <1>2, <1>3, <1>5, <1>6

\* Only DROP SCHEMA takes a schema away.
LEMMA DatasetSchema ==
  ASSUME TypeInv, NEW r \in Requests, Step(r), NEW d \in schemas, d \notin schemas'
  PROVE  NameOf(r) = d /\ DropSchema(r) /\ Did(r, AfterDropSchema(B(r)))
<1>1. DropSchema(r)
  <2>1. /\ ~CreateTable(r) /\ ~CreateTableAs(r) /\ ~CreateView(r) /\ ~Describe(r) /\ ~CreateMacro(r)
        /\ ~DropThing(r) /\ ~ForgetTables(r) /\ ~AddColumn(r) /\ ~RefuseRepartition(r) /\ ~Clear(r)
        /\ ~Fill(r)
    BY DEF CreateTable, CreateTableAs, CreateView, Describe, CreateMacro, DropThing, ForgetTables,
       AddColumn, RefuseRepartition, Clear, Fill, duckVars
  <2>2. /\ ~Start(r) /\ ~Get(r) /\ ~ParentDataset(r) /\ ~EnsureDatasetSchema(r) /\ ~ReadNew(r)
        /\ ~ReadMissing(r) /\ ~ReadOld(r) /\ ~Upsert(r) /\ ~Forget(r) /\ ~ListPage(r) /\ ~DropData(r)
    BY DEF Start, Get, ParentDataset, EnsureDatasetSchema, ReadNew, ReadMissing, ReadOld, Upsert,
       Forget, ListPage, DropData, duckVars
  <2>3. /\ ~ClearColumns(r) /\ ~ClearPaths(r) /\ ~InsertColumn(r) /\ ~InsertPath(r)
        /\ ~RemoveRow(r) /\ ~RemoveColumns(r) /\ ~RemovePaths(r)
    BY DEF ClearColumns, ClearPaths, InsertColumn, InsertPath, RemoveRow, RemoveColumns, RemovePaths,
       duckVars
  <2>4. ~UpsertTable(r) /\ ~UpsertDataset(r) /\ ~UpsertRoutine(r) /\ ~UpsertModel(r)
    BY DEF UpsertTable, UpsertDataset, UpsertRoutine, UpsertModel, duckVars
  <2> QED  BY <2>1, <2>2, <2>3, <2>4 DEF Step
<1> QED  BY <1>1 DEF DropSchema, duckVars

\* At each await a request has the step of its handler, and no other.
LEMMA StepAt ==
  ASSUME NEW r \in Requests, Step(r)
  PROVE  /\ Pc(r) = "start" => Start(r) \/ Get(r)
         /\ Pc(r) = "dataset" => ParentDataset(r)
         /\ Pc(r) = "ensure" => EnsureDatasetSchema(r)
         /\ Pc(r) = "read" => ReadNew(r) \/ ReadMissing(r) \/ ReadOld(r)
         /\ Pc(r) = "duck" => \/ CreateTable(r) \/ CreateTableAs(r) \/ CreateView(r) \/ CreateMacro(r)
                              \/ DropThing(r) \/ DropSchema(r)
         /\ Pc(r) = "describe" => Describe(r)
         /\ Pc(r) = "alter" => AddColumn(r) \/ RefuseRepartition(r) \/ Upsert(r)
         /\ Pc(r) = "clear" => Clear(r)
         /\ Pc(r) = "fill" => Fill(r)
         /\ Pc(r) = "upsert" => Upsert(r)
         /\ Pc(r) = "write" => UpsertTable(r) \/ UpsertDataset(r) \/ UpsertRoutine(r) \/ UpsertModel(r)
         /\ Pc(r) = "clearColumns" => ClearColumns(r)
         /\ Pc(r) = "clearPaths" => ClearPaths(r)
         /\ Pc(r) = "column" => InsertColumn(r)
         /\ Pc(r) = "path" => InsertPath(r)
         /\ Pc(r) = "forgetTables" => ForgetTables(r)
         /\ Pc(r) = "forget" => Forget(r)
         /\ Pc(r) = "remove" => RemoveRow(r)
         /\ Pc(r) = "removeColumns" => RemoveColumns(r)
         /\ Pc(r) = "removePaths" => RemovePaths(r)
         /\ Pc(r) = "drop" => DropData(r)
<1>1. /\ Start(r) \/ Get(r) => Pc(r) = "start"
      /\ ParentDataset(r) => Pc(r) = "dataset"
      /\ EnsureDatasetSchema(r) => Pc(r) = "ensure"
      /\ ReadNew(r) \/ ReadMissing(r) \/ ReadOld(r) => Pc(r) = "read"
      /\ Describe(r) => Pc(r) = "describe"
      /\ AddColumn(r) \/ RefuseRepartition(r) => Pc(r) = "alter"
      /\ Clear(r) => Pc(r) = "clear"
      /\ Fill(r) => Pc(r) = "fill"
      /\ Upsert(r) => Pc(r) \in {"upsert", "alter"}
  BY DEF Start, Get, ParentDataset, EnsureDatasetSchema, ReadNew, ReadMissing, ReadOld, Describe,
     AddColumn, RefuseRepartition, Altered, Clear, Fill, Upsert
<1>2. (CreateTable(r) \/ CreateTableAs(r) \/ CreateView(r) \/ CreateMacro(r) \/ DropThing(r)
       \/ DropSchema(r)) => Pc(r) = "duck"
  BY DEF CreateTable, CreateTableAs, CreateView, CreateMacro, DropThing, DropSchema
<1>3. /\ UpsertTable(r) \/ UpsertDataset(r) \/ UpsertRoutine(r) \/ UpsertModel(r) => Pc(r) = "write"
      /\ ClearColumns(r) => Pc(r) = "clearColumns"
      /\ ClearPaths(r) => Pc(r) = "clearPaths"
      /\ InsertColumn(r) => Pc(r) = "column"
      /\ InsertPath(r) => Pc(r) = "path"
      /\ ForgetTables(r) => Pc(r) = "forgetTables"
      /\ Forget(r) => Pc(r) = "forget"
      /\ RemoveRow(r) => Pc(r) = "remove"
      /\ RemoveColumns(r) => Pc(r) = "removeColumns"
      /\ RemovePaths(r) => Pc(r) = "removePaths"
      /\ DropData(r) => Pc(r) = "drop"
      /\ ListPage(r) => Pc(r) = "page"
  BY DEF UpsertTable, UpsertDataset, UpsertRoutine, UpsertModel, Write, ClearColumns, ClearPaths,
     InsertColumn, InsertPath, ForgetTables, Forget, RemoveRow, RemoveColumns, RemovePaths, DropData,
     ListPage
<1> QED  BY <1>1, <1>2, <1>3 DEF Step

\* Who touches a dataset.
LEMMA TouchDataset ==
  ASSUME TypeInv, NEW r \in Requests, NEW d \in Datasets, d \in Touches(B(r))
  PROVE  /\ NameOf(r) = d /\ DatasetOf(NameOf(r)) = d
         /\ B(r).kind \in DatasetCreators \cup {"patchDataset", "deleteDataset", "dropSchema"}
<1>1. B(r).kind \in Kinds /\ NameOf(r) \in Nameable(B(r).kind)  BY OneRequest
<1>2. NameOf(r) = d
  <2>1. d \notin Within(NameOf(r))  BY Sorts DEF Within
  <2> QED  BY <2>1 DEF Touches, NameOf
<1>3. DatasetOf(NameOf(r)) = d  BY <1>2 DEF DatasetOf
<1>4. d \notin Tables /\ d \notin Routines /\ d \notin Models  BY CatalogAssumption
<1>5. B(r).kind # "list"  BY DEF Touches
<1> QED  BY <1>1, <1>2, <1>3, <1>4, <1>5 DEF Nameable

\* A request that owes something pays, or still owes.
LEMMA OwingStep ==
  ASSUME TypeInv, NEW r \in Requests, Step(r), NEW d \in Datasets, Owing(r, d), row[d] # NoRow
  PROVE  Owing(r, d)' \/ d \in schemas' \/ row'[d] = NoRow
<1>0. /\ req \in [Requests -> Locals] /\ LocalOK(r) /\ B(r).kind \in Kinds /\ TypeOK
      /\ d \in Names /\ (B(r).match => B(r).kind \in Patches \cup Deletes)
  BY OneRequest, BodyTyped DEF Names
<1>1. /\ NameOf(r) = d /\ DatasetOf(NameOf(r)) = d
      /\ B(r).kind \in DatasetCreators \cup {"patchDataset", "deleteDataset", "dropSchema"}
  BY TouchDataset DEF Owing
<1>2. /\ Pc(r) \in {"ensure", "forgetTables", "forget", "remove"} /\ req[r].dirty
      /\ d \in Touches(B(r))
  BY DEF Owing
<1>3. CASE Pc(r) = "ensure"
  <2>1. EnsureDatasetSchema(r)  BY <1>3, StepAt
  <2> QED  BY <1>1, <2>1 DEF EnsureDatasetSchema
<1>4. CASE Pc(r) = "forgetTables"
  <2>1. Did(r, "forget")  BY <1>4, StepAt DEF ForgetTables
  <2>2. Others(r) /\ Pc(r)' = "forget" /\ req'[r].dirty = TRUE  BY <1>0, <2>1, Does DEF Pcs
  <2> QED  BY <1>2, <2>2 DEF Owing, Others, Active
<1>5. CASE Pc(r) = "forget"
  <2>1. B(r).kind = "dropSchema"  BY <1>0, <1>1, <1>2, <1>5 DEF LocalOK, Late
  <2>2. CheckIfMatch(r, RowOf(r))  BY <1>0, <2>1 DEF CheckIfMatch
  <2>3. RowOf(r) # NoRow  BY <1>1 DEF RowOf
  <2>4. Forget(r)  BY <1>5, StepAt
  <2>5. To(r, "remove")  BY <2>2, <2>3, <2>4 DEF Forget
  <2>6. Others(r) /\ Pc(r)' = "remove" /\ req'[r].dirty = req[r].dirty
    BY <1>0, <2>5, Goes DEF Pcs
  <2> QED  BY <1>2, <2>6 DEF Owing, Others, Active
<1>6. CASE Pc(r) = "remove"
  <2>1. RemoveRow(r)  BY <1>6, StepAt
  <2> QED  BY <1>0, <1>1, <2>1 DEF RemoveRow, TypeOK
<1> QED  BY <1>2, <1>3, <1>4, <1>5, <1>6

\* A step of one request keeps what a dataset's row promises.
LEMMA DatasetStep ==
  ASSUME TypeInv, MixedInv, DatasetInv, NEW r \in Requests, Step(r), NEW d \in Datasets, Clean(d)
  PROVE  /\ row'[d] # NoRow /\ d \notin schemas' => \E s \in Requests : Owing(s, d)'
         /\ \A s \in Requests :
              B(s)'.kind = "patchDataset" /\ NameOf(s)' = d /\ Pc(s)' \in {"upsert", "write"} =>
                row'[d] # NoRow
<1>0. /\ req \in [Requests -> Locals] /\ LocalOK(r) /\ B(r).kind \in Kinds /\ TypeOK
      /\ Others(r) /\ d \in Names /\ d \notin mixed
  BY OneRequest, StepType DEF Names, Clean
<1>1. /\ row[d] # NoRow /\ d \notin schemas => \E s \in Requests : Owing(s, d)
      /\ \A s \in Requests :
           B(s).kind = "patchDataset" /\ NameOf(s) = d /\ Pc(s) \in {"upsert", "write"} =>
             row[d] # NoRow
  BY DEF DatasetInv
<1>2. ASSUME row'[d] # NoRow, d \notin schemas' PROVE \E s \in Requests : Owing(s, d)'
  <2>1. CASE row[d] # NoRow /\ d \notin schemas
    <3>1. PICK s \in Requests : Owing(s, d)  BY <1>1, <2>1
    <3>2. CASE s = r  BY <1>2, <2>1, <3>1, <3>2, OwingStep
    <3>3. CASE s # r  BY <1>0, <3>1, <3>3 DEF Owing, Others, Active, Pc, B
    <3> QED  BY <3>2, <3>3
  <2>2. CASE row[d] = NoRow
    <3>1. NameOf(r) = d /\ (UpsertDataset(r) \/ RemoveRow(r))  BY <1>2, <2>2, DatasetRow
    <3>2. ~RemoveRow(r)  BY <1>0, <1>2, <3>1 DEF RemoveRow, TypeOK
    <3>3. Pc(r) = "write" /\ UpsertDataset(r)  BY <3>1, <3>2 DEF UpsertDataset, Write
    <3>4. B(r).kind \notin Patches
      <4>1. B(r).kind # "list"  BY <3>3, NameTouched
      <4>2. d \in Touches(B(r))  BY <3>1, <4>1, NameTouched
      <4> QED  BY <1>1, <2>2, <3>1, <3>3, <4>2, TouchDataset
    <3>5. Did(r, "ensure")  BY <3>3, <3>4 DEF UpsertDataset
    <3>6. Pc(r)' = "ensure" /\ req'[r].dirty = TRUE  BY <1>0, <3>5, Does DEF Pcs
    <3>7. d \in Touches(B(r))  BY <3>1, <3>3, NameTouched
    <3> QED  BY <1>0, <3>6, <3>7 DEF Owing, Active, Others
  <2>3. CASE d \in schemas
    <3>1. NameOf(r) = d /\ DropSchema(r) /\ Did(r, AfterDropSchema(B(r)))
      BY <1>2, <2>3, DatasetSchema
    <3>2. AfterDropSchema(B(r)) \in {"forgetTables", "forget"}  BY DEF AfterDropSchema
    <3>3. Pc(r)' \in {"forgetTables", "forget"} /\ req'[r].dirty = TRUE
      BY <1>0, <3>1, <3>2, Does DEF Pcs
    <3>4. d \in Touches(B(r))  BY <3>1, NameTouched DEF DropSchema
    <3> QED  BY <1>0, <3>3, <3>4 DEF Owing, Active, Others
  <2> QED  BY <2>1, <2>2, <2>3
<1>3. ASSUME NEW s \in Requests, B(s)'.kind = "patchDataset", NameOf(s)' = d,
             Pc(s)' \in {"upsert", "write"}, row'[d] = NoRow
      PROVE  FALSE
  <2>1. B(s)' = B(s) /\ NameOf(s)' = NameOf(s)  BY <1>0 DEF Others, B, NameOf
  <2>2. CASE s # r
    <3>1. Pc(s) \in {"upsert", "write"}  BY <1>0, <1>3, <2>2 DEF Others, Pc
    <3>2. row[d] # NoRow  BY <1>1, <1>3, <2>1, <3>1
    <3>3. NameOf(r) = d /\ (UpsertDataset(r) \/ RemoveRow(r))  BY <1>3, <3>2, DatasetRow
    <3>4. Pc(r) \in {"write", "remove"}  BY <3>3 DEF UpsertDataset, Write, RemoveRow
    <3>5. d \in Touches(B(r)) /\ d \in Touches(B(s))
      BY <1>3, <2>1, <3>3, <3>4, NameTouched
    <3>6. Active(r) /\ Active(s) /\ ~Careful(B(s))
      BY <1>3, <2>1, <3>1, <3>4 DEF Active, Careful
    <3> QED  BY <1>0, <2>2, <3>5, <3>6, Alone
  <2>3. CASE s = r
    <3>1. B(r).kind = "patchDataset" /\ NameOf(r) = d  BY <1>3, <2>1, <2>3
    <3>2. Pc(r) \in {"start", "ended", "read", "upsert", "write"}
      BY <1>0, <3>1 DEF LocalOK, Early, Late
    <3>3. Pc(r) # "ended"  BY StepActive
    <3>4. CASE Pc(r) = "start"
      <4>1. row' = row  BY <3>4, StepActive DEF Active, metaVars
      <4>2. Start(r) \/ Get(r)  BY <3>4, StepAt
      <4>3. Start(r) => Pc(r)' = "read"
        <5>1. First(B(r)) = "read"  BY <3>1 DEF First
        <5> QED  BY <1>0, <5>1, Goes DEF Start, Pcs
      <4>4. Get(r) => Pc(r)' \in {"start", "ended"}
        <5>1. req[r] \in Locals  BY OneRequest
        <5>2. End(r, "error") => Pc(r)' = "ended"  BY <1>0, Ends
        <5>3. req' = [req EXCEPT ![r].held = RowOf(r)] => Pc(r)' = Pc(r)
          BY <1>0, <5>1 DEF Pc, Locals
        <5> QED  BY <3>4, <5>2, <5>3 DEF Get
      <4> QED  BY <1>3, <2>3, <4>2, <4>3, <4>4
    <3>5. CASE Pc(r) = "read"
      <4>1. ReadNew(r) \/ ReadMissing(r) \/ ReadOld(r)  BY <3>5, StepAt
      <4>2. ~ReadNew(r)  BY <3>1 DEF ReadNew
      <4>3. row' = row  BY <4>1 DEF ReadNew, ReadMissing, ReadOld, metaVars
      <4>4. ReadMissing(r) => Pc(r)' = "ended"  BY <1>0, Ends DEF ReadMissing
      <4>5. RowOf(r) # NoRow  BY <1>3, <2>3, <4>1, <4>2, <4>4 DEF ReadOld
      <4> QED  BY <1>3, <3>1, <4>3, <4>5 DEF RowOf
    <3>6. CASE Pc(r) = "upsert"
      <4>1. row' = row  BY <3>6, StepAt DEF Upsert, metaVars
      <4> QED  BY <1>1, <1>3, <3>1, <3>6, <4>1
    <3>7. CASE Pc(r) = "write"
      <4>1. d \notin Tables /\ d \notin Routines /\ d \notin Models  BY CatalogAssumption
      <4>2. UpsertDataset(r)
        BY <3>1, <3>7, <4>1, StepAt DEF UpsertTable, UpsertRoutine, UpsertModel
      <4>3. DidEnd(r)  BY <3>1, <4>2 DEF UpsertDataset
      <4> QED  BY <1>0, <1>3, <2>3, <4>3, EndsDone
    <3> QED  BY <3>2, <3>3, <3>4, <3>5, <3>6, <3>7
  <2> QED  BY <2>2, <2>3
<1> QED  BY <1>2, <1>3

\* Every step, and a crash, keeps what the rows of datasets promise.
LEMMA DatasetNext == ASSUME TypeInv, MixedInv, DatasetInv, [Next]_vars PROVE DatasetInv'
<1>1. ASSUME NEW r \in Requests, Step(r) PROVE DatasetInv'
  <2> SUFFICES ASSUME NEW d \in Datasets, Clean(d)'
               PROVE  /\ row'[d] # NoRow /\ d \notin schemas' => \E s \in Requests : Owing(s, d)'
                      /\ \A s \in Requests :
                           /\ B(s)'.kind = "patchDataset" /\ NameOf(s)' = d
                           /\ Pc(s)' \in {"upsert", "write"}
                           => row'[d] # NoRow
    BY DEF DatasetInv
  <2>1. Clean(d)  BY <1>1, CleanBefore DEF Next
  <2> QED  BY <1>1, <2>1, DatasetStep
<1>2. CASE Crash
  <2> SUFFICES ASSUME NEW d \in Datasets, Clean(d)'
               PROVE  /\ row'[d] # NoRow /\ d \notin schemas' => \E s \in Requests : Owing(s, d)'
                      /\ \A s \in Requests :
                           /\ B(s)'.kind = "patchDataset" /\ NameOf(s)' = d
                           /\ Pc(s)' \in {"upsert", "write"}
                           => row'[d] # NoRow
    BY DEF DatasetInv
  <2>1. Clean(d)  BY <1>2, CleanBefore DEF Next
  <2>2. UNCHANGED <<metaVars, duckVars>>  BY <1>2 DEF Crash
  <2>3. \A s \in Requests : ~Owing(s, d)  BY <1>2, CleanCrash DEF Owing
  <2>4. ASSUME NEW s \in Requests, Pc(s)' \in {"upsert", "write"}
        PROVE  Pc(s) = Pc(s)' /\ B(s)' = B(s) /\ NameOf(s)' = NameOf(s)
    <3>1. B(s)' = B(s)  BY <1>2, Crashes
    <3>2. ~Active(s) => req'[s] = req[s]  BY <1>2, Crashes
    <3>3. ~Active(s)  BY <1>2, <2>4, Crashes
    <3> QED  BY <3>1, <3>2, <3>3 DEF Pc, NameOf
  <2> QED  BY <2>1, <2>2, <2>3, <2>4 DEF DatasetInv, metaVars, duckVars
<1>3. CASE UNCHANGED vars
  BY <1>3 DEF vars, metaVars, duckVars, DatasetInv, Clean, Stopped, Owing, Active, Pc, B, NameOf
<1> QED  BY <1>1, <1>2, <1>3 DEF Next

\* Hence they always keep it.
LEMMA DatasetAlways == Spec => []DatasetInv
<1>1. Init => DatasetInv
  BY DEF Init, DatasetInv, Pc
<1> QED  BY <1>1, DatasetNext, MixedAlways, TypesAlways, PTL DEF Spec

-----------------------------------------------------------------------------
(***************************************************************************)
(* Tables: what a request that is at work on a table alone makes of it.    *)
(***************************************************************************)
\* Who touches a table.
LEMMA TouchTable ==
  ASSUME TypeInv, NEW r \in Requests, NEW t \in Tables, t \in Touches(B(r))
  PROVE  /\ t \in Names /\ t \in Tables \cup Routines /\ t \notin Datasets
         /\ t \notin Routines /\ t \notin Models
         /\ \/ /\ NameOf(r) = t
               /\ B(r).kind \in TableCreators \cup {"patchTable", "deleteTable", "refresh"} \cup TableDrops
            \/ /\ B(r).kind = "dropSchema" /\ NameOf(r) \in Datasets
               /\ t \in Within(NameOf(r)) /\ t \in DOMAIN Home /\ Home[t] = NameOf(r)
<1>1. B(r).kind \in Kinds /\ NameOf(r) \in Nameable(B(r).kind)  BY OneRequest
<1>2. t \in Names /\ t \notin Datasets /\ t \notin Routines /\ t \notin Models
  BY CatalogAssumption DEF Names
<1>3. B(r).kind # "list"  BY DEF Touches
<1>4. CASE B(r).kind = "dropSchema"
  <2>1. NameOf(r) \in Datasets  BY <1>1, <1>4 DEF Nameable
  <2>2. t \in Within(NameOf(r))  BY <1>2, <1>4, <2>1 DEF Touches, NameOf
  <2> QED  BY <1>2, <1>4, <2>1, <2>2 DEF Within
<1>5. CASE B(r).kind # "dropSchema"
  <2>1. NameOf(r) = t  BY <1>3, <1>5 DEF Touches, NameOf
  <2> QED  BY <1>1, <1>2, <1>3, <1>5, <2>1 DEF Nameable
<1> QED  BY <1>4, <1>5

\* A step changes nothing of t.
SameTable(t) == row'[t] = row[t] /\ columns'[t] = columns[t] /\ paths'[t] = paths[t] /\ duck'[t] = duck[t]

\* What is said of a table that nothing changes is as it was.
LEMMA ConsistentKept ==
  ASSUME NEW t, SameTable(t)
  PROVE  Consistent(t)' = Consistent(t)
BY DEF SameTable, Consistent, Has

\* A request that does not move, at a table that nothing changes, is as far as it was.
LEMMA StageKept ==
  ASSUME NEW t, SameTable(t), NEW s \in Requests, req'[s] = req[s]
  PROVE  /\ Stage(s, t)' = Stage(s, t) /\ Prepared(s, t)' = Prepared(s, t) /\ Amid(s, t)' = Amid(s, t)
<1>1. B(s)' = B(s) /\ Pc(s)' = Pc(s) /\ Same(s)  BY DEF B, Pc, Same
<1>2. Input(s)' = Input(s)  BY <1>1, InputSame
<1>3. Consistent(t)' = Consistent(t)  BY ConsistentKept
<1>4. Built(s, t)' = Built(s, t)  BY <1>2 DEF Built, SameTable
<1>5. Has(t)' = Has(t)  BY DEF Has, SameTable
<1>6. /\ ColumnsTo(s, t, req[s].at)' = ColumnsTo(s, t, req[s].at)
      /\ ColumnsTo(s, t, Len(Input(s).fields) + 1)' = ColumnsTo(s, t, Len(Input(s).fields) + 1)
      /\ PathsTo(s, t, req[s].at, req[s].sub)' = PathsTo(s, t, req[s].at, req[s].sub)
  BY <1>2 DEF ColumnsTo, PathsTo, SameTable
<1>6a. Whole(s)' = Whole(s)  BY <1>1, <1>2 DEF Whole
<1>7. Stage(s, t)' = Stage(s, t)
  BY <1>1, <1>2, <1>3, <1>4, <1>5, <1>6, <1>6a DEF Stage, SameTable
<1>8. Prepared(s, t)' = Prepared(s, t)
  BY <1>1, <1>5 DEF Prepared, SameTable
<1>9. Amid(s, t)' = Amid(s, t)  BY <1>1 DEF Amid, Active
<1> QED  BY <1>7, <1>8, <1>9

\* The table as r, alone at work on it, has made it.
Own(r, t) == /\ Prepared(r, t)
             /\ IF Active(r) /\ req[r].dirty THEN Stage(r, t) ELSE Consistent(t)

\* The awaits of the requests that touch a table, and what has been changed there.
LEMMA TablePc ==
  ASSUME TypeInv, NEW r \in Requests, NEW t \in Tables, t \in Touches(B(r))
  PROVE  /\ req[r].dirty \in BOOLEAN /\ Pc(r) # "page"
         /\ Pc(r) \in {"start", "dataset", "ensure", "read", "duck", "alter", "clear"} => ~req[r].dirty
         /\ Pc(r) \in {"describe", "forgetTables", "removeColumns", "removePaths", "drop", "fill"}
                      \cup Projecting => req[r].dirty
         /\ Pc(r) = "dataset" => B(r).kind \in TableCreators \cup TableDrops
         /\ Pc(r) = "ensure" => B(r).kind \in TableCreators \cup TableDrops
         /\ Pc(r) = "read" => B(r).kind \in (TableCreators \ {"createView"}) \cup TableDrops
                                            \cup {"patchTable", "refresh", "dropSchema"}
         /\ Pc(r) = "duck" => B(r).kind \in TableCreators \cup TableDrops \cup {"dropSchema"}
         /\ Pc(r) = "describe" => B(r).kind \in TableCreators \ {"insertTable"}
         /\ Pc(r) = "alter" => B(r).kind = "patchTable"
         /\ Pc(r) = "upsert" => B(r).kind \in TableCreators /\ req[r].dirty
         /\ Pc(r) = "write" => \/ B(r).kind \in TableCreators /\ req[r].dirty
                               \/ B(r).kind = "patchTable" /\ ~req[r].dirty
         /\ Pc(r) \in Projecting => B(r).kind \in TableCreators \cup {"patchTable"}
         /\ Pc(r) = "forgetTables" => B(r).kind = "dropSchema"
         /\ Pc(r) \in {"forget", "remove"} => \/ B(r).kind = "deleteTable" /\ ~req[r].dirty
                                              \/ B(r).kind \in TableDrops
                                              \/ B(r).kind = "dropSchema" /\ req[r].dirty
         /\ Pc(r) \in {"removeColumns", "removePaths"} => B(r).kind \in TableDrops \cup {"deleteTable"}
         /\ Pc(r) = "drop" => B(r).kind = "deleteTable"
         /\ Pc(r) \in {"clear", "fill"} => B(r).kind = "refresh"
<1>1. LocalOK(r) /\ req[r].dirty \in BOOLEAN  BY OneRequest
<1>2. B(r).kind \in TableCreators \cup {"patchTable", "deleteTable", "refresh", "dropSchema"}
                    \cup TableDrops
  BY TouchTable
<1>3. CASE req[r].dirty
  <2>1. Pc(r) \in Late(B(r))  BY <1>1, <1>3 DEF LocalOK
  <2>2. CASE B(r).kind \in TableCreators  BY <1>1, <1>3, <2>1, <2>2 DEF Late
  <2>3. CASE B(r).kind \in {"patchTable", "deleteTable"}  BY <1>1, <1>3, <2>1, <2>3 DEF Late
  <2>4. CASE B(r).kind \in {"refresh", "dropSchema"}  BY <1>1, <1>3, <2>1, <2>4 DEF Late
  <2>5. CASE B(r).kind \in TableDrops  BY <1>1, <1>3, <2>1, <2>5 DEF Late
  <2> QED  BY <1>2, <2>2, <2>3, <2>4, <2>5
<1>4. CASE ~req[r].dirty
  <2>1. Pc(r) \in Early(B(r))  BY <1>1, <1>4 DEF LocalOK
  <2>2. CASE B(r).kind \in TableCreators  BY <1>1, <1>4, <2>1, <2>2 DEF Early
  <2>3. CASE B(r).kind \in {"patchTable", "deleteTable"}  BY <1>1, <1>4, <2>1, <2>3 DEF Early
  <2>4. CASE B(r).kind \in {"refresh", "dropSchema"}  BY <1>1, <1>4, <2>1, <2>4 DEF Early
  <2>5. CASE B(r).kind \in TableDrops  BY <1>1, <1>4, <2>1, <2>5 DEF Early
  <2> QED  BY <1>2, <2>2, <2>3, <2>4, <2>5
<1> QED  BY <1>3, <1>4

\* r has changed nothing and changes nothing.
LEMMA OwnRest ==
  ASSUME NEW r \in Requests, NEW t, SameTable(t), Own(r, t), ~req[r].dirty, ~req'[r].dirty,
         Prepared(r, t)'
  PROVE  Own(r, t)'
BY ConsistentKept DEF Own

\* r ends before it has changed anything.
LEMMA OwnEnds ==
  ASSUME TypeInv, NEW r \in Requests, NEW t, SameTable(t), Own(r, t), ~req[r].dirty,
         NEW o \in {"ok", "error"}, End(r, o)
  PROVE  Own(r, t)'
<1>1. Others(r) /\ Pc(r)' = "ended" /\ req'[r].dirty = req[r].dirty  BY OneRequest, Ends
<1>2. Prepared(r, t)'  BY <1>1 DEF Prepared
<1> QED  BY <1>1, <1>2, OwnRest

\* An error after a change stops it half way.
LEMMA ErrorStops ==
  ASSUME TypeInv, NEW r \in Requests, req[r].dirty, End(r, "error"),
         ~(B(r).kind = "patchTable" /\ Sound(B(r).fields))
  PROVE  Stopped(r)'
<1>1. Others(r) /\ req'[r].dirty = req[r].dirty /\ req'[r].outcome = "error"  BY OneRequest, Ends
<1>2. B(r)' = B(r)  BY <1>1 DEF Others
<1> QED  BY <1>1, <1>2 DEF Stopped

\* The first statements find nothing of the table.
LEMMA OwnStart ==
  ASSUME TypeInv, NEW r \in Requests, NEW t \in Tables, t \in Touches(B(r)), Own(r, t),
         Start(r) \/ Get(r) \/ ParentDataset(r) \/ EnsureDatasetSchema(r)
  PROVE  Own(r, t)' /\ SameTable(t) /\ ~req'[r].dirty
<1>0. req \in [Requests -> Locals] /\ req[r] \in Locals /\ B(r).kind \in Kinds  BY OneRequest
<1>1. Pc(r) \in {"start", "dataset", "ensure"}
  BY DEF Start, Get, ParentDataset, EnsureDatasetSchema
<1>2. ~req[r].dirty  BY <1>1, TablePc
<1>3. SameTable(t)
  BY DEF Start, Get, ParentDataset, EnsureDatasetSchema, SameTable, metaVars, duckVars
<1>4. ASSUME End(r, "error") PROVE Own(r, t)' /\ ~req'[r].dirty
  BY <1>0, <1>2, <1>3, <1>4, OwnEnds, Ends
<1>5. CASE Start(r)
  <2>1. To(r, First(B(r))) /\ First(B(r)) \in Pcs  BY <1>5 DEF Start, First, Pcs
  <2>2. /\ Others(r) /\ Pc(r)' = First(B(r)) /\ req'[r].at = req[r].at
        /\ req'[r].dirty = req[r].dirty
    BY <1>0, <2>1, Goes DEF Same
  <2>3. /\ First(B(r)) \notin {"alter", "write", "clear", "remove", "start"}
        /\ B(r).kind \in TableDrops => First(B(r)) # "forget"
    BY DEF First
  <2>4. Pc(r) = "start"  BY <1>5 DEF Start
  <2>5. Prepared(r, t)'  BY <2>2, <2>3, <2>4 DEF Prepared, Own, Others
  <2> QED  BY <1>2, <1>3, <2>2, <2>5, OwnRest
<1>6. CASE Get(r)
  <2>1. CASE End(r, "error")  BY <1>3, <1>4, <2>1
  <2>2. CASE req' = [req EXCEPT ![r].held = RowOf(r)]
    <3>1. Pc(r)' = Pc(r) /\ B(r)' = B(r) /\ req'[r].at = req[r].at /\ req'[r].dirty = req[r].dirty
      BY <1>0, <2>2 DEF Pc, B, Locals
    <3>2. Pc(r) = "start"  BY <1>6 DEF Get
    <3>3. Prepared(r, t)'  BY <3>1, <3>2 DEF Prepared, Own
    <3> QED  BY <1>2, <1>3, <3>1, <3>3, OwnRest
  <2> QED  BY <1>6, <2>1, <2>2 DEF Get
<1>7. ASSUME NEW p \in {"read", "ensure", "duck"}, To(r, p), Pc(r) # "start", B(r).kind # "patchTable"
      PROVE  Own(r, t)' /\ ~req'[r].dirty
  <2>1. Others(r) /\ Pc(r)' = p /\ req'[r].dirty = req[r].dirty  BY <1>0, <1>7, Goes DEF Pcs
  <2>2. Prepared(r, t)'  BY <1>7, <2>1 DEF Prepared, Others
  <2> QED  BY <1>2, <1>3, <2>1, <2>2, OwnRest
<1>8. CASE ParentDataset(r)
  <2>1. Pc(r) = "dataset"  BY <1>8 DEF ParentDataset
  <2>2. B(r).kind \in TableCreators \cup TableDrops  BY <2>1, TablePc
  <2>3. AfterDataset(B(r)) \in {"read", "ensure"}  BY <2>2 DEF AfterDataset
  <2>4. End(r, "error") \/ To(r, AfterDataset(B(r)))  BY <1>8 DEF ParentDataset
  <2> QED  BY <1>3, <1>4, <1>7, <2>1, <2>2, <2>3, <2>4
<1>9. CASE EnsureDatasetSchema(r)
  <2>1. Pc(r) = "ensure"  BY <1>9 DEF EnsureDatasetSchema
  <2>2. B(r).kind \in TableCreators \cup TableDrops  BY <2>1, TablePc
  <2>3. \E p \in {"read", "duck"} : To(r, p)  BY <1>9, <2>2 DEF EnsureDatasetSchema
  <2> QED  BY <1>3, <1>7, <2>1, <2>2, <2>3
<1> QED  BY <1>5, <1>6, <1>8, <1>9

\* What the handlers read: a PATCH and a refresh go on with the row they found.
LEMMA OwnRead ==
  ASSUME TypeInv, NEW r \in Requests, NEW t \in Tables, t \in Touches(B(r)), Own(r, t),
         ReadNew(r) \/ ReadMissing(r) \/ ReadOld(r)
  PROVE  Own(r, t)' /\ SameTable(t) /\ ~req'[r].dirty
<1>0. req \in [Requests -> Locals] /\ req[r] \in Locals /\ B(r).kind \in Kinds /\ TypeOK
  BY OneRequest
<1>1. Pc(r) = "read"  BY DEF ReadNew, ReadMissing, ReadOld
<1>2. ~req[r].dirty
      /\ B(r).kind \in (TableCreators \ {"createView"}) \cup TableDrops
                       \cup {"patchTable", "refresh", "dropSchema"}
  BY <1>1, TablePc
<1>3. SameTable(t)  BY DEF ReadNew, ReadMissing, ReadOld, SameTable, metaVars, duckVars
<1>4. ASSUME NEW o \in {"ok", "error"}, End(r, o) PROVE Own(r, t)' /\ ~req'[r].dirty
  BY <1>0, <1>2, <1>3, <1>4, OwnEnds, Ends
<1>5. CASE ReadNew(r)
  <2>1. CASE To(r, AfterNew(B(r)))
    <3>1. B(r).kind \in TableCreators \ {"createView"}  BY <1>2, <1>5 DEF ReadNew
    <3>2. AfterNew(B(r)) \in {"ensure", "duck"}  BY <3>1 DEF AfterNew
    <3>3. Others(r) /\ Pc(r)' \in {"ensure", "duck"} /\ req'[r].dirty = req[r].dirty
      BY <1>0, <2>1, <3>2, Goes DEF Pcs
    <3>4. Prepared(r, t)'  BY <3>3 DEF Prepared, Others
    <3> QED  BY <1>2, <1>3, <3>3, <3>4, OwnRest
  <2> QED  BY <1>3, <1>4, <1>5, <2>1 DEF ReadNew
<1>6. CASE ReadMissing(r)  BY <1>3, <1>4, <1>6 DEF ReadMissing
<1>7. CASE ReadOld(r) /\ ~Refuses(B(r), RowOf(r))
  <2>1. req' = [req EXCEPT ![r].pc = AfterOld(B(r)), ![r].was = RowOf(r)]  BY <1>7 DEF ReadOld
  <2>2. /\ Pc(r)' = AfterOld(B(r)) /\ B(r)' = B(r) /\ req'[r].was = RowOf(r)
        /\ req'[r].at = req[r].at /\ req'[r].dirty = req[r].dirty
    BY <1>0, <2>1 DEF Pc, B, Locals
  <2>3. B(r).kind \in TableDrops \cup {"patchTable", "refresh", "dropSchema"} /\ RowOf(r) # NoRow
    BY <1>2, <1>7 DEF ReadOld
  <2>4. CASE B(r).kind = "patchTable"
    <3>1. Pc(r)' = "alter"  BY <2>2, <2>4 DEF AfterOld
    <3>2. RowOf(r) = row[t]  BY <2>4, TouchTable DEF RowOf
    <3>3. req[r].at = 0  BY <1>1, <2>4 DEF Own, Prepared
    <3>4. B(r).fields # <<>> => Extends(row[t].fields, B(r).fields)
      BY <1>7, <2>4, <3>2 DEF Refuses
    <3>5. \A i \in Added(row[t].fields, B(r).fields) : ~(i <= 0)
      <4>1. B(r).fields \in Seq(Field)  BY BodyTyped, <1>0
      <4> QED  BY <4>1 DEF Added
    <3>6. Prepared(r, t)'
      BY <1>3, <2>2, <2>4, <3>1, <3>2, <3>3, <3>4, <3>5 DEF Prepared, SameTable
    <3> QED  BY <1>2, <1>3, <2>2, <3>6, OwnRest
  <2>5. CASE B(r).kind = "refresh"
    <3>1. Pc(r)' = "clear"  BY <2>2, <2>5 DEF AfterOld
    <3>2. RowOf(r) = row[t]  BY <2>5, TouchTable DEF RowOf
    <3>3. row[t].type = "MATERIALIZED_VIEW"  BY <1>7, <2>5, <3>2 DEF Refuses
    <3>4. Prepared(r, t)'  BY <1>3, <2>2, <2>3, <2>5, <3>1, <3>2, <3>3 DEF Prepared, SameTable
    <3> QED  BY <1>2, <1>3, <2>2, <3>4, OwnRest
  <2>6. CASE B(r).kind \in TableDrops \cup {"dropSchema"}
    <3>1. Pc(r)' = "duck"  BY <2>2, <2>6 DEF AfterOld
    <3>2. Prepared(r, t)'  BY <2>2, <2>6, <3>1 DEF Prepared
    <3> QED  BY <1>2, <1>3, <2>2, <3>2, OwnRest
  <2> QED  BY <1>3, <1>2, <2>2, <2>3, <2>4, <2>5, <2>6
<1>8. CASE ReadOld(r) /\ Refuses(B(r), RowOf(r))  BY <1>3, <1>4, <1>8 DEF ReadOld
<1> QED  BY <1>5, <1>6, <1>7, <1>8

\* r has changed something and is in the middle of it.
LEMMA OwnAmid ==
  ASSUME NEW r \in Requests, NEW t, Stage(r, t)', Prepared(r, t)', req'[r].dirty
  PROVE  Own(r, t)' \/ ~Active(r)'
BY DEF Own

\* A creator of tables makes the table of its row, or has it described first.
LEMMA OwnCreate ==
  ASSUME TypeInv, NEW r \in Requests, NEW t \in Tables, t \in Touches(B(r)), Own(r, t),
         CreateTable(r) \/ CreateTableAs(r) \/ CreateView(r)
  PROVE  Own(r, t)'
<1>0. /\ req \in [Requests -> Locals] /\ req[r] \in Locals /\ B(r).kind \in Kinds /\ TypeOK
      /\ duck \in [Tables \cup Routines -> Thing]
  BY OneRequest DEF TypeOK
<1>1. Pc(r) = "duck" /\ B(r).kind \in TableCreators
  BY DEF CreateTable, CreateTableAs, CreateView
<1>2. ~req[r].dirty /\ NameOf(r) = t /\ t \in Tables \cup Routines  BY <1>1, TablePc, TouchTable
<1>3. CASE UNCHANGED duck /\ End(r, "error")
  <2>1. SameTable(t)
    BY <1>3 DEF CreateTable, CreateTableAs, CreateView, SameTable, metaVars
  <2> QED  BY <1>2, <1>3, <2>1, OwnEnds
<1>4. CASE CreateTable(r) /\ Did(r, "upsert")
  <2>1. /\ Others(r) /\ Same(r) /\ Pc(r)' = "upsert" /\ req'[r].dirty = TRUE  BY <1>0, <1>4, Does DEF Pcs
  <2>2. B(r)' = B(r) /\ B(r).kind = "insertTable" /\ Input(r)' = Input(r)
    BY <1>4, <2>1, InputSame DEF Others, CreateTable
  <2>3. Input(r).fields = B(r).fields /\ Input(r).type = "TABLE"
    BY <1>0, <2>2, FreshRow DEF Input
  <2>4. duck'[t].kind = "table" /\ duck'[t].fields = B(r).fields
    <3>1. Make(t, [Nothing EXCEPT !.kind = "table", !.fields = B(r).fields, !.copies = 1])
      <4>1. ~End(r, "error")
        <5>1. End(r, "error") => Pc(r)' = "ended"  BY <1>0, Ends
        <5> QED  BY <2>1, <5>1
      <4> QED  BY <1>2, <1>4, <4>1 DEF CreateTable, Refused
    <3> QED  BY <1>0, <1>2, <3>1 DEF Make, Nothing
  <2>5. Holds(duck[t], B(r).fields)'
    BY <2>2, <2>4 DEF Holds
  <2>6. Built(r, t)'
    BY <2>2, <2>3, <2>4, <2>5 DEF Built, KindOf
  <2>7. Stage(r, t)'  BY <2>1, <2>2, <2>6 DEF Stage
  <2>8. Prepared(r, t)'  BY <2>1, <2>2 DEF Prepared
  <2> QED  BY <2>1, <2>7, <2>8, OwnAmid DEF Active
<1>5. CASE (CreateTableAs(r) \/ CreateView(r)) /\ Did(r, "describe")
  <2>1. /\ Others(r) /\ Same(r) /\ Pc(r)' = "describe" /\ req'[r].dirty = TRUE
    BY <1>0, <1>5, Does DEF Pcs
  <2>2. B(r)' = B(r)  BY <2>1 DEF Others
  <2>3. ~End(r, "error")
    <3>1. End(r, "error") => Pc(r)' = "ended"  BY <1>0, Ends
    <3> QED  BY <2>1, <3>1
  <2>4. /\ duck'[t].kind = (IF B(r).kind = "createView" THEN "view" ELSE "table")
        /\ B(r).kind # "createView" => duck'[t].copies = 1
    <3>1. CASE CreateTableAs(r)
      <4>1. Make(t, [Nothing EXCEPT !.kind = "table", !.fields = duck[B(r).source].fields,
                                    !.copies = 1])
        BY <1>2, <2>3, <3>1 DEF CreateTableAs, Refused
      <4>2. B(r).kind # "createView"  BY <3>1 DEF CreateTableAs
      <4> QED  BY <1>0, <1>2, <4>1, <4>2 DEF Make, Nothing
    <3>2. CASE CreateView(r)
      <4>1. Make(t, [Nothing EXCEPT !.kind = "view", !.fields = duck[B(r).source].fields,
                                    !.source = B(r).source])
        BY <1>2, <2>3, <3>2 DEF CreateView, Refused
      <4>2. B(r).kind = "createView"  BY <3>2 DEF CreateView
      <4> QED  BY <1>0, <1>2, <4>1, <4>2 DEF Make, Nothing
    <3> QED  BY <1>5, <3>1, <3>2
  <2>5. Stage(r, t)'  BY <1>1, <2>1, <2>2, <2>4 DEF Stage
  <2>6. Prepared(r, t)'  BY <1>1, <2>1, <2>2 DEF Prepared
  <2> QED  BY <2>1, <2>5, <2>6, OwnAmid DEF Active
<1> QED  BY <1>3, <1>4, <1>5 DEF CreateTable, CreateTableAs, CreateView, Refused

\* What DESCRIBE answers is what the row will say.
LEMMA OwnDescribe ==
  ASSUME TypeInv, NEW r \in Requests, NEW t \in Tables, t \in Touches(B(r)), Own(r, t),
         Describe(r), ~Stopped(r)'
  PROVE  Own(r, t)'
<1>0. /\ req \in [Requests -> Locals] /\ req[r] \in Locals /\ TypeOK
      /\ duck \in [Tables \cup Routines -> Thing]
  BY OneRequest DEF TypeOK
<1>1. Pc(r) = "describe"  BY DEF Describe
<1>2. /\ req[r].dirty /\ NameOf(r) = t /\ t \in Tables \cup Routines
      /\ B(r).kind \in TableCreators \ {"insertTable"}
  BY <1>1, TablePc, TouchTable
<1>3. ~End(r, "error")  BY <1>2, ErrorStops
<1>4. req' = [req EXCEPT ![r].pc = "upsert", ![r].fields = Described(duck[t])]
  BY <1>2, <1>3 DEF Describe
<1>5. duck[t] \in Thing  BY <1>0, <1>2
<1>6. Described(duck[t]) \in Seq(Field) /\ Holds(duck[t], Described(duck[t]))
  BY <1>5, DescribedTyped
<1>7. /\ Pc(r)' = "upsert" /\ B(r)' = B(r) /\ req'[r].fields = Described(duck[t])
      /\ req'[r].dirty = TRUE
  BY <1>0, <1>2, <1>4 DEF Pc, B, Locals
<1>8. SameTable(t)  BY DEF Describe, SameTable, metaVars, duckVars
<1>9. Input(r)' = Fresh(r)'  BY <1>2, <1>7 DEF Input
<1>10. /\ Fresh(r)'.fields = Described(duck[t])
       /\ B(r).kind = "createTable" => Fresh(r)'.type = "TABLE"
       /\ B(r).kind = "createView" => Fresh(r)'.type = "VIEW"
       /\ B(r).kind = "createMv" => Fresh(r)'.type = "MATERIALIZED_VIEW"
  BY <1>2, <1>7 DEF Fresh, Made
<1>11. /\ duck[t].kind = (IF B(r).kind = "createView" THEN "view" ELSE "table")
       /\ B(r).kind # "createView" => duck[t].copies = 1
  BY <1>1, <1>2 DEF Own, Stage, Active
<1>12. Built(r, t)'
  BY <1>2, <1>6, <1>8, <1>9, <1>10, <1>11 DEF Built, SameTable, KindOf
<1>13. Stage(r, t)'  BY <1>2, <1>7, <1>12 DEF Stage
<1>14. Prepared(r, t)'  BY <1>2, <1>7 DEF Prepared
<1> QED  BY <1>7, <1>13, <1>14, OwnAmid DEF Active

\* A column that is added takes nothing away, and brings the PATCH further.
LEMMA OwnAddColumn ==
  ASSUME TypeInv, NEW r \in Requests, NEW t \in Tables, t \in Touches(B(r)), Own(r, t),
         AddColumn(r)
  PROVE  Own(r, t)'
<1>0. /\ req \in [Requests -> Locals] /\ req[r] \in Locals /\ TypeOK
      /\ duck \in [Tables \cup Routines -> Thing]
  BY OneRequest DEF TypeOK
<1>1. Pc(r) = "alter"  BY DEF AddColumn
<1>2. ~req[r].dirty /\ B(r).kind = "patchTable" /\ NameOf(r) = t /\ t \in Tables \cup Routines
  BY <1>1, TablePc, TouchTable
<1>3. PICK i \in ToAdd(r) :
        /\ \A j \in ToAdd(r) : i <= j
        /\ \/ /\ duck[t].kind = "table"
              /\ duck' = [duck EXCEPT ![t].fields = Append(@, B(r).fields[i])]
              /\ req' = [req EXCEPT ![r].at = i]
           \/ Refused(r)
  BY <1>2 DEF AddColumn
<1>4. row' = row /\ columns' = columns /\ paths' = paths  BY DEF AddColumn, metaVars
<1>5. CASE Refused(r)
  <2>1. SameTable(t)  BY <1>4, <1>5 DEF SameTable, Refused
  <2> QED  BY <1>2, <1>5, <2>1, OwnEnds DEF Refused
<1>6. CASE /\ duck[t].kind = "table"
           /\ duck' = [duck EXCEPT ![t].fields = Append(@, B(r).fields[i])]
           /\ req' = [req EXCEPT ![r].at = i]
  <2> DEFINE f == B(r).fields[i]
  <2>1. duck[t] \in Thing /\ duck[t].fields \in Seq(Field)  BY <1>0, <1>2 DEF Thing
  <2>2. B(r).fields \in Seq(Field) /\ req[r].at \in Nat  BY <1>0, BodyTyped DEF Locals
  <2>3. i \in DOMAIN B(r).fields /\ i \in Nat /\ f \in Field
    BY <2>2 DEF ToAdd, Added
  <2>4. /\ duck'[t].kind = duck[t].kind /\ duck'[t].copies = duck[t].copies
        /\ duck'[t].fields = Append(duck[t].fields, f)
    BY <1>0, <1>2, <1>6, <2>1 DEF Thing
  <2>5. Range(duck'[t].fields) = Range(duck[t].fields) \cup {f}
    <3> DEFINE F == duck[t].fields
    <3>1. /\ DOMAIN Append(F, f) = 1..Len(F)+1 /\ Append(F, f)[Len(F)+1] = f
          /\ \A j \in 1..Len(F) : Append(F, f)[j] = F[j]
          /\ DOMAIN F = 1..Len(F) /\ Len(F) \in Nat
      BY <2>1, <2>3, AppendProperties
    <3>2. 1..Len(F)+1 = (1..Len(F)) \cup {Len(F)+1}  BY <3>1
    <3> QED  BY <2>4, <3>1, <3>2 DEF Range
  <2>6. Pc(r)' = "alter" /\ B(r)' = B(r) /\ req'[r].was = req[r].was /\ req'[r].at = i
        /\ req'[r].dirty = req[r].dirty
    BY <1>0, <1>1, <1>6 DEF Pc, B, Locals
  <2>7. /\ req[r].was = row[t]
        /\ B(r).fields # <<>> => Extends(row[t].fields, B(r).fields)
        /\ \A j \in Added(row[t].fields, B(r).fields) :
             j <= req[r].at => B(r).fields[j] \in Range(duck[t].fields)
    BY <1>1, <1>2 DEF Own, Prepared
  <2>8. \A j \in Added(row[t].fields, B(r).fields) :
          j <= i => B(r).fields[j] \in Range(duck'[t].fields)
    <3> SUFFICES ASSUME NEW j \in Added(row[t].fields, B(r).fields), j <= i
                 PROVE  B(r).fields[j] \in Range(duck[t].fields) \cup {f}
      BY <2>5
    <3>1. j \in Nat  BY <2>2 DEF Added
    <3>2. CASE j <= req[r].at  BY <2>7, <3>2
    <3>3. CASE ~(j <= req[r].at)
      <4>1. j > req[r].at  BY <2>2, <3>1, <3>3
      <4>2. j \in ToAdd(r)  BY <2>7, <4>1 DEF ToAdd
      <4>3. j = i  BY <1>3, <2>3, <3>1, <4>2
      <4> QED  BY <4>3
    <3> QED  BY <3>2, <3>3
  <2>9. Prepared(r, t)'  BY <1>2, <1>4, <2>6, <2>7, <2>8 DEF Prepared
  <2>10. Consistent(t)'
    <3>1. Consistent(t)  BY <1>2 DEF Own
    <3>2. Has(t) /\ row[t] # NoRow  BY <1>6, <3>1 DEF Consistent, Has
    <3>3. Holds(duck[t], row[t].fields) => Holds(duck[t], row[t].fields)'
      BY <1>4, <2>5 DEF Holds
    <3> QED  BY <1>4, <2>4, <3>1, <3>2, <3>3 DEF Consistent
  <2> QED  BY <1>2, <2>6, <2>9, <2>10 DEF Own
<1> QED  BY <1>3, <1>5, <1>6

\* The row is read again, and is about to be written.
LEMMA OwnUpsert ==
  ASSUME TypeInv, NEW r \in Requests, NEW t \in Tables, t \in Touches(B(r)), Own(r, t),
         RefuseRepartition(r) \/ Upsert(r), ~Stopped(r)'
  PROVE  Own(r, t)'
<1>0. req \in [Requests -> Locals] /\ req[r] \in Locals  BY OneRequest
<1>1. Pc(r) \in {"alter", "upsert"}  BY DEF RefuseRepartition, Upsert, Altered
<1>2. SameTable(t)  BY DEF RefuseRepartition, Upsert, SameTable, metaVars, duckVars
<1>3. CASE End(r, "error")
  <2>1. req[r].dirty => B(r).kind # "patchTable"  BY <1>1, TablePc
  <2>2. ~req[r].dirty  BY <1>3, <2>1, ErrorStops
  <2> QED  BY <1>2, <1>3, <2>2, OwnEnds
<1>4. CASE Upsert(r) /\ To(r, "write")
  <2>1. Others(r) /\ Same(r) /\ Pc(r)' = "write" /\ req'[r].dirty = req[r].dirty
    BY <1>0, <1>4, Goes DEF Pcs
  <2>2. B(r)' = B(r) /\ Input(r)' = Input(r)  BY <2>1, InputSame DEF Others
  <2>3. CASE Pc(r) = "upsert"
    <3>1. req[r].dirty /\ B(r).kind \in TableCreators  BY <2>3, TablePc
    <3>2. Built(r, t)  BY <2>3, <3>1 DEF Own, Stage, Active
    <3>3. Built(r, t)'  BY <1>2, <2>2, <3>2 DEF Built, SameTable
    <3>4. Stage(r, t)'  BY <2>1, <2>2, <3>1, <3>3 DEF Stage
    <3>5. Prepared(r, t)'  BY <2>1, <2>2, <3>1 DEF Prepared
    <3> QED  BY <2>1, <3>1, <3>4, <3>5, OwnAmid DEF Active
  <2>4. CASE Pc(r) = "alter"
    <3>1. ~req[r].dirty /\ B(r).kind = "patchTable"  BY <2>4, TablePc
    <3>2. ToAdd(r) = {}  BY <1>4, <2>4 DEF Upsert, Altered
    <3>3. /\ req[r].was = row[t]
          /\ B(r).fields # <<>> => Extends(row[t].fields, B(r).fields)
          /\ \A j \in Added(row[t].fields, B(r).fields) :
               j <= req[r].at => B(r).fields[j] \in Range(duck[t].fields)
      BY <2>4, <3>1 DEF Own, Prepared
    <3>4. \A j \in Added(row[t].fields, B(r).fields) : j <= req[r].at
      <4>1. B(r).fields \in Seq(Field) /\ req[r].at \in Nat  BY <1>0, BodyTyped DEF Locals
      <4>2. \A j \in Added(row[t].fields, B(r).fields) : j \in Nat  BY <4>1 DEF Added
      <4> QED  BY <3>2, <3>3, <4>1, <4>2 DEF ToAdd
    <3>5. Prepared(r, t)'
      BY <1>2, <2>1, <2>2, <3>1, <3>3, <3>4 DEF Prepared, SameTable, Same
    <3> QED  BY <1>2, <2>1, <3>1, <3>5, OwnRest
  <2> QED  BY <1>1, <2>3, <2>4
<1> QED  BY <1>3, <1>4 DEF RefuseRepartition, Upsert

\* What a PATCH writes of a table, DuckDB has: the columns it keeps are those
\* of the row it has read, and the others it has added.
LEMMA PatchBuilt ==
  ASSUME TypeInv, NEW r \in Requests, NEW t \in Tables, B(r).kind = "patchTable", Pc(r) = "write",
         Prepared(r, t), Consistent(t)
  PROVE  Built(r, t)
<1>0. /\ req \in [Requests -> Locals] /\ req[r] \in Locals /\ TypeOK /\ LocalOK(r)
      /\ B(r).fields \in Seq(Field)
  BY OneRequest, BodyTyped
<1>1. req[r].was \in Row  BY <1>0 DEF LocalOK
<1>2. /\ Input(r).type = req[r].was.type
      /\ Input(r).fields = IF B(r).fields # <<>> THEN B(r).fields ELSE req[r].was.fields
  BY <1>0, <1>1, MergedRow DEF Input
<1>3. /\ req[r].was = row[t]
      /\ B(r).fields # <<>> => Extends(row[t].fields, B(r).fields)
      /\ \A j \in Added(row[t].fields, B(r).fields) : B(r).fields[j] \in Range(duck[t].fields)
  BY DEF Prepared
<1>4. row[t] # NoRow  BY <1>1, <1>3, CatalogAssumption
<1>5. /\ duck[t].kind = KindOf(row[t].type) /\ Holds(duck[t], row[t].fields)
      /\ row[t].type = "MATERIALIZED_VIEW" => duck[t].copies = 1
  BY <1>4 DEF Consistent
<1>6. ASSUME B(r).fields # <<>>, Distinct(B(r).fields), NEW g \in Range(B(r).fields)
      PROVE  \E c \in Range(duck[t].fields) : c.name = g.name /\ c.type = g.type /\ c.subs = g.subs
  <2>1. PICK i \in DOMAIN B(r).fields : g = B(r).fields[i]  BY <1>6 DEF Range
  <2>2. CASE i \in Added(row[t].fields, B(r).fields)  BY <1>3, <2>1, <2>2
  <2>3. CASE i \notin Added(row[t].fields, B(r).fields)
    <3>1. PICK f \in Range(row[t].fields) : f.name = g.name
      BY <2>1, <2>3 DEF Added, FieldNames
    <3>2. PICK h \in Range(B(r).fields) : /\ h.name = f.name /\ h.type = f.type
                                          /\ h.type = "STRUCT" => h.subs = f.subs
      BY <1>3, <1>6 DEF Extends
    <3>3. h = g
      <4>1. PICK j \in DOMAIN B(r).fields : h = B(r).fields[j]  BY DEF Range
      <4> QED  BY <1>6, <2>1, <3>1, <3>2, <4>1 DEF Distinct
    <3>4. g.subs = f.subs
      <4>1. row[t].fields \in Seq(Field)  BY <1>1, <1>3, RowFields
      <4>2. f \in Field /\ g \in Field  BY <1>0, <4>1, FieldPathsTyped
      <4> QED  BY <3>2, <3>3, <4>2 DEF Field
    <3>5. \E c \in Range(duck[t].fields) : c.name = f.name /\ c.type = f.type /\ c.subs = f.subs
      BY <1>5 DEF Holds
    <3> QED  BY <3>2, <3>3, <3>4, <3>5
  <2> QED  BY <2>2, <2>3
<1>7. Distinct(Input(r).fields) => Holds(duck[t], Input(r).fields)
  BY <1>2, <1>3, <1>5, <1>6 DEF Holds
<1> QED  BY <1>2, <1>3, <1>5, <1>7 DEF Built

\* A PATCH without a schema writes that of the row it has read.
LEMMA PatchWhole ==
  ASSUME TypeInv, NEW r \in Requests, NEW t \in Tables, B(r).kind = "patchTable", Pc(r) = "write",
         Prepared(r, t), Consistent(t)
  PROVE  Whole(r)
<1>0. /\ req \in [Requests -> Locals] /\ req[r] \in Locals /\ LocalOK(r)  BY OneRequest
<1>1. req[r].was \in Row /\ req[r].was = row[t]  BY <1>0 DEF LocalOK, Prepared
<1>2. Input(r).fields = IF B(r).fields # <<>> THEN B(r).fields ELSE req[r].was.fields
  BY <1>0, <1>1, MergedRow DEF Input
<1>3. row[t] # NoRow  BY <1>1, CatalogAssumption
<1>4. Sound(row[t].fields)  BY <1>3 DEF Consistent
<1> QED  BY <1>1, <1>2, <1>4 DEF Whole

\* The row is written: what it says, DuckDB has.
LEMMA OwnUpsertTable ==
  ASSUME TypeInv, NEW r \in Requests, NEW t \in Tables, t \in Touches(B(r)), Own(r, t),
         UpsertTable(r)
  PROVE  Own(r, t)'
<1>0. /\ req \in [Requests -> Locals] /\ req[r] \in Locals /\ TypeOK /\ t \in Names
      /\ row \in [Names -> Row \cup {NoRow}]
  BY OneRequest, TouchTable DEF TypeOK
<1>1. Pc(r) = "write" /\ row' = [row EXCEPT ![NameOf(r)] = Input(r)] /\ duck' = duck
  BY DEF UpsertTable, Write, duckVars
<1>2. NameOf(r) = t /\ B(r).kind \in TableCreators \cup {"patchTable"}  BY <1>1, TablePc, TouchTable
<1>3. Built(r, t)
  <2>1. CASE B(r).kind \in TableCreators
    <3>1. req[r].dirty  BY <1>1, <2>1, TablePc
    <3> QED  BY <1>1, <3>1 DEF Own, Stage, Active
  <2>2. CASE B(r).kind = "patchTable"
    <3>1. ~req[r].dirty  BY <1>1, <2>2, TablePc
    <3> QED  BY <1>1, <2>2, <3>1, PatchBuilt DEF Own
  <2> QED  BY <1>2, <2>1, <2>2
<1>3a. Whole(r)
  <2> SUFFICES ASSUME B(r).kind = "patchTable" PROVE Whole(r)  BY DEF Whole
  <2>1. ~req[r].dirty  BY <1>1, TablePc
  <2> QED  BY <1>1, <2>1, PatchWhole DEF Own
<1>4. Did(r, "clearColumns")  BY DEF UpsertTable
<1>5. Others(r) /\ Same(r) /\ Pc(r)' = "clearColumns" /\ req'[r].dirty = TRUE
  BY <1>0, <1>4, Does DEF Pcs
<1>6. B(r)' = B(r) /\ Input(r)' = Input(r)  BY <1>5, InputSame DEF Others
<1>7. row'[t] = Input(r)  BY <1>0, <1>1, <1>2
<1>8. Built(r, t)'  BY <1>1, <1>3, <1>6 DEF Built
<1>9. Stage(r, t)'  BY <1>2, <1>3a, <1>5, <1>6, <1>7, <1>8 DEF Stage, Whole
<1>10. Prepared(r, t)'  BY <1>2, <1>5, <1>6 DEF Prepared
<1> QED  BY <1>5, <1>9, <1>10, OwnAmid DEF Active

\* The projections are cleared.
LEMMA OwnClearColumns ==
  ASSUME TypeInv, NEW r \in Requests, NEW t \in Tables, t \in Touches(B(r)), Own(r, t),
         ClearColumns(r)
  PROVE  Own(r, t)'
<1>0. /\ req \in [Requests -> Locals] /\ TypeOK /\ columns \in [Tables -> SUBSET Field]
  BY OneRequest DEF TypeOK
<1>1. Pc(r) = "clearColumns"  BY DEF ClearColumns
<1>2. req[r].dirty /\ NameOf(r) = t /\ B(r).kind \in TableCreators \cup {"patchTable"}
  BY <1>1, TablePc, TouchTable
<1>3. Others(r) /\ Same(r) /\ Pc(r)' = "clearPaths" /\ req'[r].dirty = req[r].dirty
  BY <1>0, Goes DEF ClearColumns, Pcs
<1>4. B(r)' = B(r) /\ Input(r)' = Input(r)  BY <1>3, InputSame DEF Others
<1>5. Built(r, t) /\ row[t] = Input(r) /\ Whole(r)  BY <1>1, <1>2 DEF Own, Stage, Active
<1>6. row' = row /\ duck' = duck /\ columns'[t] = {}
  BY <1>0, <1>2 DEF ClearColumns, duckVars
<1>7. Built(r, t)'  BY <1>4, <1>5, <1>6 DEF Built
<1>8. Stage(r, t)'  BY <1>2, <1>3, <1>4, <1>5, <1>6, <1>7 DEF Stage, Whole
<1>9. Prepared(r, t)'  BY <1>2, <1>3, <1>4 DEF Prepared
<1> QED  BY <1>2, <1>3, <1>8, <1>9, OwnAmid DEF Active

\* Without fields that is all; else the columns come next.
LEMMA OwnClearPaths ==
  ASSUME TypeInv, NEW r \in Requests, NEW t \in Tables, t \in Touches(B(r)), Own(r, t),
         ClearPaths(r)
  PROVE  Own(r, t)'
<1>0. /\ req \in [Requests -> Locals] /\ req[r] \in Locals /\ TypeOK /\ LocalOK(r)
      /\ paths \in [Tables -> SUBSET Seq(STRING)]
  BY OneRequest DEF TypeOK
<1>1. Pc(r) = "clearPaths"  BY DEF ClearPaths
<1>2. req[r].dirty /\ NameOf(r) = t /\ B(r).kind \in TableCreators \cup {"patchTable"}
  BY <1>1, TablePc, TouchTable
<1>3. Built(r, t) /\ row[t] = Input(r) /\ Whole(r) /\ columns[t] = {}
  BY <1>1, <1>2 DEF Own, Stage, Active
<1>4. row' = row /\ duck' = duck /\ columns' = columns /\ paths'[t] = {}
  BY <1>0, <1>2 DEF ClearPaths, duckVars
<1>5. Input(r) \in Row  BY <1>0, <1>1, InputRow
<1>6. CASE Input(r).fields = <<>>
  <2>1. DidEnd(r)  BY <1>6 DEF ClearPaths
  <2>2. Others(r) /\ Pc(r)' = "ended"  BY <1>0, <2>1, EndsDone
  <2>3. row[t] # NoRow  BY <1>3, <1>5, CatalogAssumption
  <2>4. Range(<<>>) = {} /\ FieldPaths(<<>>) = {}  BY DEF Range, FieldPaths
  <2>5. Distinct(<<>>) /\ Sound(<<>>)  BY <2>4 DEF Distinct, Sound
  <2>7. Consistent(t)'
    BY <1>3, <1>4, <1>6, <2>3, <2>4, <2>5 DEF Consistent, Built
  <2>8. Prepared(r, t)'  BY <2>2 DEF Prepared
  <2> QED  BY <2>2, <2>7, <2>8 DEF Own, Active
<1>7. CASE Input(r).fields # <<>>
  <2>1. req' = [req EXCEPT ![r].pc = "column", ![r].at = 1]  BY <1>7 DEF ClearPaths
  <2>2. /\ Pc(r)' = "column" /\ B(r)' = B(r) /\ req'[r].at = 1 /\ req'[r].was = req[r].was
        /\ req'[r].fields = req[r].fields /\ req'[r].dirty = req[r].dirty
    BY <1>0, <2>1 DEF Pc, B, Locals
  <2>3. Input(r)' = Input(r)
    <3>1. Fresh(r)' = Fresh(r) /\ Merged(r)' = Merged(r)  BY <2>2 DEF Fresh, Merged
    <3> QED  BY <2>2, <3>1 DEF Input
  <2>4. Built(r, t)'  BY <1>3, <1>4, <2>3 DEF Built
  <2>5. ColumnsTo(r, t, 1)
    <3>1. 1..1-1 = {}  OBVIOUS
    <3> QED  BY <1>3, <3>1 DEF ColumnsTo
  <2>6. ColumnsTo(r, t, 1)'  BY <1>4, <2>3, <2>5 DEF ColumnsTo
  <2>7. ColumnsTo(r, t, req[r].at)'  BY <2>2, <2>6
  <2>8. Stage(r, t)'  BY <1>2, <1>3, <1>4, <2>2, <2>3, <2>4, <2>7 DEF Stage, Whole
  <2>9. Prepared(r, t)'  BY <2>2 DEF Prepared
  <2> QED  BY <1>2, <2>2, <2>8, <2>9, OwnAmid DEF Active
<1> QED  BY <1>6, <1>7

\* One column and one path more.
LEMMA ColumnAdded ==
  ASSUME NEW F \in Seq(Field), NEW i \in 1..Len(F), NEW C, C = {F[j] : j \in 1..i-1},
         \A j, k \in 1..i-1 : F[j].name = F[k].name => j = k,
         \A c \in C : c.name # F[i].name
  PROVE  /\ C \cup {F[i]} = {F[j] : j \in 1..i+1-1}
         /\ \A j, k \in 1..i+1-1 : F[j].name = F[k].name => j = k
<1>1. Len(F) \in Nat  BY LenProperties
<1>2. 1..i+1-1 = (1..i-1) \cup {i}  BY <1>1
<1> QED  BY <1>2

\* The same of the paths of one field.
LEMMA PathAdded ==
  ASSUME NEW f, NEW k \in Nat
  PROVE  {Path(f, l) : l \in 0..k-1} \cup {Path(f, k)} = {Path(f, l) : l \in 0..k+1-1}
<1>1. 0..k+1-1 = (0..k-1) \cup {k}  OBVIOUS
<1> QED  BY <1>1

\* What InsertColumn makes of the request.
LEMMA ColumnMoves ==
  ASSUME TypeInv, NEW r \in Requests, InsertColumn(r), ~HasColumn(NameOf(r), Input(r).fields[req[r].at])
  PROVE  /\ B(r)' = B(r) /\ Input(r)' = Input(r) /\ req'[r].dirty = req[r].dirty
         /\ \/ req[r].at < Len(Input(r).fields) /\ Pc(r)' = "column" /\ req'[r].at = req[r].at + 1
            \/ /\ ~(req[r].at < Len(Input(r).fields))
               /\ Pc(r)' = "path" /\ req'[r].at = 1 /\ req'[r].sub = 0
<1>0. req \in [Requests -> Locals] /\ req[r] \in Locals /\ Pc(r) = "column"
  BY OneRequest DEF InsertColumn
<1> DEFINE n == Len(Input(r).fields)
           i == req[r].at
<1>1. req' = IF i < n THEN [req EXCEPT ![r].at = i + 1]
             ELSE [req EXCEPT ![r].pc = "path", ![r].at = 1, ![r].sub = 0]
  BY DEF InsertColumn
<1>2. /\ B(r)' = B(r) /\ req'[r].dirty = req[r].dirty /\ req'[r].was = req[r].was
      /\ req'[r].fields = req[r].fields
      /\ \/ i < n /\ Pc(r)' = "column" /\ req'[r].at = i + 1
         \/ ~(i < n) /\ Pc(r)' = "path" /\ req'[r].at = 1 /\ req'[r].sub = 0
  <2>1. CASE i < n
    <3>1. req' = [req EXCEPT ![r].at = i + 1]  BY <1>1, <2>1
    <3> HIDE DEF n, i
    <3> QED  BY <1>0, <2>1, <3>1 DEF Pc, B, Locals
  <2>2. CASE ~(i < n)
    <3>1. req' = [req EXCEPT ![r].pc = "path", ![r].at = 1, ![r].sub = 0]  BY <1>1, <2>2
    <3> HIDE DEF n, i
    <3> QED  BY <1>0, <2>2, <3>1 DEF Pc, B, Locals
  <2> QED  BY <2>1, <2>2
<1>3. Input(r)' = Input(r)
  <2>1. Fresh(r)' = Fresh(r) /\ Merged(r)' = Merged(r)  BY <1>2 DEF Fresh, Merged
  <2> QED  BY <1>2, <2>1 DEF Input
<1> QED  BY <1>2, <1>3

\* One column more; a name that is there twice ends the request half way.
LEMMA OwnInsertColumn ==
  ASSUME TypeInv, NEW r \in Requests, NEW t \in Tables, t \in Touches(B(r)), Own(r, t),
         InsertColumn(r), ~Stopped(r)'
  PROVE  Own(r, t)'
<1>0. /\ req \in [Requests -> Locals] /\ req[r] \in Locals /\ TypeOK /\ LocalOK(r)
      /\ columns \in [Tables -> SUBSET Field]
  BY OneRequest DEF TypeOK
<1> DEFINE F == Input(r).fields
           i == req[r].at
<1>1. Pc(r) = "column"  BY DEF InsertColumn
<1>2. req[r].dirty /\ NameOf(r) = t /\ B(r).kind \in TableCreators \cup {"patchTable"}
  BY <1>1, TablePc, TouchTable
<1>3. /\ Built(r, t) /\ row[t] = Input(r) /\ Whole(r) /\ ColumnsTo(r, t, i) /\ paths[t] = {}
  BY <1>1, <1>2 DEF Own, Stage, Active
<1>4. F \in Seq(Field) /\ i \in 1..Len(F) /\ Len(F) \in Nat
  <2>1. F \in Seq(Field)  BY <1>0, <1>1, InputRow, RowFields
  <2> QED  BY <1>0, <1>1, <2>1, LenProperties DEF LocalOK
<1>5. ~HasColumn(t, F[i])
  <2> SUFFICES ASSUME HasColumn(t, F[i]) PROVE FALSE  OBVIOUS
  <2>1. PICK c \in columns[t] : c.name = F[i].name  BY DEF HasColumn
  <2>2. PICK j \in 1..i-1 : c = F[j]  BY <1>3, <2>1 DEF ColumnsTo
  <2>3. j \in DOMAIN F /\ i \in DOMAIN F /\ j # i  BY <1>4, <2>2, LenProperties
  <2>4. ~Distinct(F)  BY <2>1, <2>2, <2>3 DEF Distinct
  <2>5. ~(B(r).kind = "patchTable" /\ Sound(B(r).fields))  BY <1>3, <2>4 DEF Whole, Sound
  <2>6. ~End(r, "error")  BY <1>2, <2>5, ErrorStops
  <2> QED  BY <1>2, <2>6 DEF InsertColumn
<1>6. /\ columns'[t] = columns[t] \cup {F[i]} /\ row' = row /\ paths' = paths /\ duck' = duck
  BY <1>0, <1>2, <1>5 DEF InsertColumn, duckVars
<1>7. /\ B(r)' = B(r) /\ Input(r)' = Input(r) /\ req'[r].dirty = req[r].dirty
      /\ \/ i < Len(F) /\ Pc(r)' = "column" /\ req'[r].at = i + 1
         \/ ~(i < Len(F)) /\ Pc(r)' = "path" /\ req'[r].at = 1 /\ req'[r].sub = 0
  BY <1>2, <1>5, ColumnMoves
<1>8. /\ columns[t] = {F[j] : j \in 1..i-1}
      /\ \A j, k \in 1..i-1 : F[j].name = F[k].name => j = k
  BY <1>3 DEF ColumnsTo
<1>9. \A c \in columns[t] : c.name # F[i].name  BY <1>5 DEF HasColumn
<1> HIDE DEF F, i
<1>10. PICK a \in 1..Len(F) : a = i  BY <1>4
<1>11. PICK n \in Nat : n = Len(F)  BY <1>4
<1>12. /\ columns'[t] = {F[j] : j \in 1..i+1-1}
       /\ \A j, k \in 1..i+1-1 : F[j].name = F[k].name => j = k
  BY <1>4, <1>6, <1>8, <1>9, ColumnAdded
<1>13. ColumnsTo(r, t, a + 1)'
  BY <1>7, <1>12, <1>10 DEF ColumnsTo, F
<1>14. Built(r, t)'  BY <1>3, <1>6, <1>7 DEF Built
<1>15. Stage(r, t)'
  <2>1. CASE i < Len(F) /\ Pc(r)' = "column" /\ req'[r].at = i + 1
    <3>1. ColumnsTo(r, t, req[r].at)'  BY <1>13, <1>10, <2>1
    <3> QED  BY <1>2, <1>3, <1>6, <1>7, <1>14, <2>1, <3>1 DEF Stage, Whole
  <2>2. CASE ~(i < Len(F)) /\ Pc(r)' = "path" /\ req'[r].at = 1 /\ req'[r].sub = 0
    <3>1. a + 1 = n + 1  BY <1>4, <1>10, <1>11, <2>2
    <3>2. ColumnsTo(r, t, n + 1)'  BY <1>13, <3>1
    <3>3. ColumnsTo(r, t, Len(Input(r).fields) + 1)'  BY <1>7, <1>11, <3>2 DEF F
    <3>4. PathsTo(r, t, 1, 0)
      <4>1. 1..1-1 = {} /\ 0..0-1 = {}  OBVIOUS
      <4> QED  BY <1>3, <4>1 DEF PathsTo, SoundTo
    <3>5. PathsTo(r, t, 1, 0)'  BY <1>6, <1>7, <3>4 DEF PathsTo, SoundTo
    <3>6. PathsTo(r, t, req[r].at, req[r].sub)'  BY <2>2, <3>5
    <3> QED  BY <1>2, <1>3, <1>6, <1>7, <1>14, <2>2, <3>3, <3>6 DEF Stage, Whole
  <2> QED  BY <1>7, <2>1, <2>2
<1>16. Prepared(r, t)'  BY <1>2, <1>7 DEF Prepared
<1>17. Active(r)' /\ req'[r].dirty  BY <1>2, <1>7 DEF Active
<1> QED  BY <1>15, <1>16, <1>17 DEF Own

\* What InsertPath makes of the request.
LEMMA PathMoves ==
  ASSUME TypeInv, NEW r \in Requests, InsertPath(r), NEW f, f = Input(r).fields[req[r].at],
         Path(f, req[r].sub) \notin paths[NameOf(r)]
  PROVE  /\ B(r)' = B(r) /\ Input(r)' = Input(r) /\ req'[r].dirty
         /\ \/ /\ req[r].sub < Len(f.subs)
               /\ Pc(r)' = "path" /\ req'[r].at = req[r].at /\ req'[r].sub = req[r].sub + 1
            \/ /\ ~(req[r].sub < Len(f.subs)) /\ req[r].at < Len(Input(r).fields)
               /\ Pc(r)' = "path" /\ req'[r].at = req[r].at + 1 /\ req'[r].sub = 0
            \/ /\ ~(req[r].sub < Len(f.subs)) /\ ~(req[r].at < Len(Input(r).fields))
               /\ Pc(r)' = "ended"
<1>0. req \in [Requests -> Locals] /\ req[r] \in Locals /\ Pc(r) = "path" /\ req[r].dirty
  BY OneRequest, ProjectingRow DEF InsertPath
<1> DEFINE n == Len(Input(r).fields)
           i == req[r].at
           k == req[r].sub
<1>1. IF k < Len(f.subs) THEN req' = [req EXCEPT ![r].sub = k + 1]
      ELSE IF i < n THEN req' = [req EXCEPT ![r].at = i + 1, ![r].sub = 0]
      ELSE DidEnd(r)
  BY DEF InsertPath
<1>2. /\ B(r)' = B(r) /\ req'[r].dirty /\ req'[r].was = req[r].was
      /\ req'[r].fields = req[r].fields
      /\ \/ k < Len(f.subs) /\ Pc(r)' = "path" /\ req'[r].at = i /\ req'[r].sub = k + 1
         \/ /\ ~(k < Len(f.subs)) /\ i < n
            /\ Pc(r)' = "path" /\ req'[r].at = i + 1 /\ req'[r].sub = 0
         \/ ~(k < Len(f.subs)) /\ ~(i < n) /\ Pc(r)' = "ended"
  <2>1. CASE k < Len(f.subs)
    <3>1. req' = [req EXCEPT ![r].sub = k + 1]  BY <1>1, <2>1
    <3>2. k = req[r].sub /\ i = req[r].at  OBVIOUS
    <3> HIDE DEF n, i, k
    <3> QED  BY <1>0, <2>1, <3>1, <3>2 DEF Pc, B, Locals
  <2>2. CASE ~(k < Len(f.subs)) /\ i < n
    <3>1. req' = [req EXCEPT ![r].at = i + 1, ![r].sub = 0]  BY <1>1, <2>2
    <3> HIDE DEF n, i, k
    <3> QED  BY <1>0, <2>2, <3>1 DEF Pc, B, Locals
  <2>3. CASE ~(k < Len(f.subs)) /\ ~(i < n)
    <3>1. DidEnd(r)  BY <1>1, <2>3
    <3>2. Others(r) /\ Same(r) /\ Pc(r)' = "ended" /\ req'[r].dirty = TRUE  BY <1>0, <3>1, EndsDone
    <3> QED  BY <2>3, <3>2 DEF Others, Same
  <2> QED  BY <2>1, <2>2, <2>3
<1>3. Input(r)' = Input(r)
  <2>1. Fresh(r)' = Fresh(r) /\ Merged(r)' = Merged(r)  BY <1>2 DEF Fresh, Merged
  <2> QED  BY <1>2, <2>1 DEF Input
<1> QED  BY <1>2, <1>3

\* Equal paths are those of one name and one subfield.
LEMMA PathParts ==
  ASSUME NEW f, NEW g, NEW k, NEW l, Path(f, k) = Path(g, l)
  PROVE  f.name = g.name /\ (k = 0 <=> l = 0) /\ (k # 0 => f.subs[k] = g.subs[l])
<1>1. CASE k = 0 /\ l = 0  BY <1>1 DEF Path
<1>2. CASE k # 0 /\ l # 0  BY <1>2 DEF Path
<1>3. CASE k = 0 /\ l # 0
  <2>1. <<f.name>> = <<g.name, g.subs[l]>>  BY <1>3 DEF Path
  <2>2. Len(<<f.name>>) = 1 /\ Len(<<g.name, g.subs[l]>>) = 2  OBVIOUS
  <2> QED  BY <2>1, <2>2
<1>4. CASE k # 0 /\ l = 0
  <2>1. <<g.name>> = <<f.name, f.subs[k]>>  BY <1>4 DEF Path
  <2>2. Len(<<g.name>>) = 1 /\ Len(<<f.name, f.subs[k]>>) = 2  OBVIOUS
  <2> QED  BY <2>1, <2>2
<1> QED  BY <1>1, <1>2, <1>3, <1>4

\* The paths of the fields before place i, and of the subfields before k there.
PathsBefore(F, i, k) ==
  (UNION {{Path(F[j], l) : l \in 0..Len(F[j].subs)} : j \in 1..i-1})
  \cup {Path(F[i], l) : l \in 0..k-1}

\* One path more, up to all paths of a field, and of all fields.
LEMMA PathsGrow ==
  ASSUME NEW F \in Seq(Field), NEW i \in 1..Len(F), NEW k \in 0..Len(F[i].subs)
  PROVE  /\ PathsBefore(F, i, k) \cup {Path(F[i], k)} = PathsBefore(F, i, k + 1)
         /\ k = Len(F[i].subs) => PathsBefore(F, i, k + 1) = PathsBefore(F, i + 1, 0)
         /\ k = Len(F[i].subs) /\ i = Len(F) => PathsBefore(F, i, k + 1) = FieldPaths(F)
<1>1. Len(F) \in Nat /\ DOMAIN F = 1..Len(F) /\ F[i] \in Field  BY LenProperties, ElementOfSeq
<1>2. Len(F[i].subs) \in Nat /\ k \in Nat  BY <1>1, LenProperties DEF Field
<1>3. PathsBefore(F, i, k) \cup {Path(F[i], k)} = PathsBefore(F, i, k + 1)
  BY <1>2, PathAdded DEF PathsBefore
<1> DEFINE All(j) == {Path(F[j], l) : l \in 0..Len(F[j].subs)}
<1>4. ASSUME k = Len(F[i].subs)
      PROVE  PathsBefore(F, i, k + 1) = UNION {All(j) : j \in 1..i}
  <2>1. 0..k+1-1 = 0..Len(F[i].subs)  BY <1>2, <1>4
  <2>2. 1..i = (1..i-1) \cup {i}  BY <1>1
  <2>3. PathsBefore(F, i, k + 1) = (UNION {All(j) : j \in 1..i-1}) \cup All(i)
    BY <2>1 DEF PathsBefore
  <2> HIDE DEF All
  <2> QED  BY <2>2, <2>3
<1>5. PathsBefore(F, i + 1, 0) = UNION {All(j) : j \in 1..i}
  <2>1. 0..0-1 = {} /\ 1..i+1-1 = 1..i  BY <1>1
  <2> QED  BY <2>1 DEF PathsBefore
<1>6. FieldPaths(F) = UNION {All(j) : j \in 1..Len(F)}
  BY <1>1 DEF FieldPaths, Range
<1> QED  BY <1>3, <1>4, <1>5, <1>6

\* A path that is there belongs to a schema with a name twice.
LEMMA PathTwice ==
  ASSUME NEW F \in Seq(Field), NEW i \in 1..Len(F), NEW k \in 0..Len(F[i].subs),
         Path(F[i], k) \in PathsBefore(F, i, k)
  PROVE  ~Sound(F)
<1> SUFFICES ASSUME Sound(F) PROVE FALSE  OBVIOUS
<1>1. Len(F) \in Nat /\ DOMAIN F = 1..Len(F) /\ \A j \in 1..Len(F) : F[j] \in Field
  BY LenProperties, ElementOfSeq
<1>2. \A j \in 1..Len(F) : /\ F[j].subs \in Seq(STRING) /\ Len(F[j].subs) \in Nat
                           /\ DOMAIN F[j].subs = 1..Len(F[j].subs)
  BY <1>1, LenProperties DEF Field
<1>3. PICK j \in 1..i : \E l \in 0..Len(F[j].subs) :
        Path(F[i], k) = Path(F[j], l) /\ (j = i => l < k)
  <2>1. CASE Path(F[i], k) \in {Path(F[i], l) : l \in 0..k-1}
    <3>1. PICK l \in 0..k-1 : Path(F[i], k) = Path(F[i], l)  BY <2>1
    <3>2. l \in 0..Len(F[i].subs) /\ l < k /\ i \in 1..i  BY <1>1, <1>2
    <3> QED  BY <3>1, <3>2
  <2>2. CASE \E j \in 1..i-1 : \E l \in 0..Len(F[j].subs) : Path(F[i], k) = Path(F[j], l)
    <3>1. PICK j \in 1..i-1 : \E l \in 0..Len(F[j].subs) : Path(F[i], k) = Path(F[j], l)  BY <2>2
    <3>2. j \in 1..i /\ j # i  BY <1>1
    <3> QED  BY <3>1, <3>2
  <2> QED  BY <2>1, <2>2 DEF PathsBefore
<1>3a. PICK l \in 0..Len(F[j].subs) : Path(F[i], k) = Path(F[j], l) /\ (j = i => l < k)
  BY <1>3
<1>4. F[i].name = F[j].name /\ (k = 0 <=> l = 0) /\ (k # 0 => F[i].subs[k] = F[j].subs[l])
  BY <1>3a, PathParts
<1>5. j \in DOMAIN F /\ i \in DOMAIN F  BY <1>1
<1>6. i = j  BY <1>4, <1>5 DEF Sound, Distinct
<1>7. l < k /\ k \in Nat /\ l \in Nat /\ l # 0 /\ k # 0  BY <1>2, <1>3a, <1>4, <1>6
<1>8. k \in DOMAIN F[i].subs /\ l \in DOMAIN F[i].subs  BY <1>2, <1>6, <1>7
<1>9. IsInjective(F[i].subs)  BY <1>5 DEF Sound, Range
<1> QED  BY <1>4, <1>6, <1>7, <1>8, <1>9 DEF IsInjective

\* A path that is not there yet has a subfield of its own.
LEMMA SoundGrows ==
  ASSUME NEW F \in Seq(Field), NEW i \in 1..Len(F), NEW k \in 0..Len(F[i].subs),
         Distinct(F), SoundTo(F, i, k), Path(F[i], k) \notin PathsBefore(F, i, k)
  PROVE  /\ SoundTo(F, i, k + 1)
         /\ k = Len(F[i].subs) => SoundTo(F, i + 1, 0)
         /\ k = Len(F[i].subs) /\ i = Len(F) => Sound(F)
<1>1. Len(F) \in Nat /\ DOMAIN F = 1..Len(F) /\ F[i] \in Field  BY LenProperties, ElementOfSeq
<1>2. F[i].subs \in Seq(STRING) /\ Len(F[i].subs) \in Nat /\ DOMAIN F[i].subs = 1..Len(F[i].subs)
  BY <1>1, LenProperties DEF Field
<1>3. ASSUME NEW l \in 1..k-1 PROVE F[i].subs[l] # F[i].subs[k]
  <2>1. Path(F[i], l) # Path(F[i], k)
    <3>1. l \in 0..k-1  BY <1>2
    <3> QED  BY <3>1 DEF PathsBefore
  <2>2. l # 0 /\ k # 0  BY <1>2
  <2> QED  BY <2>1, <2>2 DEF Path
<1>4. SoundTo(F, i, k + 1)
  <2>1. \A l \in 1..k+1-1 : l \in 1..k-1 \/ l = k  BY <1>2
  <2> QED  BY <1>3, <2>1 DEF SoundTo
<1>5. ASSUME k = Len(F[i].subs) PROVE SoundTo(F, i + 1, 0)
  <2>1. 1..k+1-1 = DOMAIN F[i].subs  BY <1>2, <1>5
  <2>2. IsInjective(F[i].subs)  BY <1>4, <2>1 DEF SoundTo, IsInjective
  <2>3. \A j \in 1..i+1-1 : j \in 1..i-1 \/ j = i  BY <1>1
  <2>4. 1..0-1 = {}  OBVIOUS
  <2> QED  BY <1>4, <2>2, <2>3, <2>4 DEF SoundTo
<1>6. ASSUME k = Len(F[i].subs), i = Len(F) PROVE Sound(F)
  <2>1. 1..i+1-1 = DOMAIN F  BY <1>1, <1>6
  <2> QED  BY <1>5, <1>6, <2>1 DEF SoundTo, Sound, Range
<1> QED  BY <1>4, <1>5, <1>6

\* One path more; after the last one the table is consistent.
LEMMA OwnInsertPath ==
  ASSUME TypeInv, NEW r \in Requests, NEW t \in Tables, t \in Touches(B(r)), Own(r, t),
         InsertPath(r), ~Stopped(r)'
  PROVE  Own(r, t)'
<1>0. /\ req \in [Requests -> Locals] /\ req[r] \in Locals /\ TypeOK /\ LocalOK(r)
      /\ paths \in [Tables -> SUBSET Seq(STRING)]
  BY OneRequest DEF TypeOK
<1>1. Pc(r) = "path"  BY DEF InsertPath
<1>2. req[r].dirty /\ NameOf(r) = t /\ B(r).kind \in TableCreators \cup {"patchTable"}
  BY <1>1, TablePc, TouchTable
<1>3. Input(r) \in Row /\ Input(r).fields \in Seq(Field)  BY <1>0, <1>1, InputRow, RowFields
<1>4. PICK F \in Seq(Field) : F = Input(r).fields  BY <1>3
<1>5. PICK i \in 1..Len(F) : i = req[r].at
  BY <1>0, <1>1, <1>4, LenProperties DEF LocalOK
<1>6. PICK k \in 0..Len(F[i].subs) : k = req[r].sub
  BY <1>0, <1>1, <1>4, <1>5 DEF LocalOK
<1>7. F[i] \in Field /\ Len(F) \in Nat /\ DOMAIN F = 1..Len(F) /\ Len(F[i].subs) \in Nat
  <2>1. F[i] \in Field  BY ElementOfSeq
  <2> QED  BY <2>1, LenProperties DEF Field
<1>8. /\ Built(r, t) /\ row[t] = Input(r) /\ Whole(r)
      /\ ColumnsTo(r, t, Len(F) + 1) /\ PathsTo(r, t, i, k)
  BY <1>1, <1>2, <1>4, <1>5, <1>6 DEF Own, Stage, Active
<1>9. paths[t] = PathsBefore(F, i, k) /\ SoundTo(F, i, k)
  BY <1>4, <1>8 DEF PathsTo, PathsBefore
<1>9a. columns[t] = {F[j] : j \in 1..Len(F)+1-1} /\ Distinct(F)
  <2>1. 1..Len(F)+1-1 = DOMAIN F  BY <1>7
  <2> QED  BY <1>4, <1>8, <2>1 DEF ColumnsTo, Distinct
<1>10. Path(F[i], k) \notin paths[t]
  <2> SUFFICES ASSUME Path(F[i], k) \in paths[t] PROVE FALSE  OBVIOUS
  <2>1. ~Sound(F)  BY <1>9, <1>9a, PathTwice
  <2>2. ~(B(r).kind = "patchTable" /\ Sound(B(r).fields))  BY <1>4, <1>8, <2>1 DEF Whole
  <2>3. ~End(r, "error")  BY <1>2, <2>2, ErrorStops
  <2> QED  BY <1>2, <1>4, <1>5, <1>6, <2>3 DEF InsertPath
<1>11. /\ paths'[t] = paths[t] \cup {Path(F[i], k)}
       /\ row' = row /\ columns' = columns /\ duck' = duck
  BY <1>0, <1>2, <1>4, <1>5, <1>6, <1>10 DEF InsertPath, duckVars
<1>12. paths'[t] = PathsBefore(F, i, k + 1)  BY <1>9, <1>11, PathsGrow
<1>12a. /\ SoundTo(F, i, k + 1)
        /\ k = Len(F[i].subs) => SoundTo(F, i + 1, 0)
        /\ k = Len(F[i].subs) /\ i = Len(F) => Sound(F)
  BY <1>9, <1>9a, <1>10, SoundGrows
<1>13. /\ B(r)' = B(r) /\ Input(r)' = Input(r) /\ req'[r].dirty
       /\ \/ k < Len(F[i].subs) /\ Pc(r)' = "path" /\ req'[r].at = i /\ req'[r].sub = k + 1
          \/ /\ ~(k < Len(F[i].subs)) /\ i < Len(F)
             /\ Pc(r)' = "path" /\ req'[r].at = i + 1 /\ req'[r].sub = 0
          \/ ~(k < Len(F[i].subs)) /\ ~(i < Len(F)) /\ Pc(r)' = "ended"
  BY <1>2, <1>4, <1>5, <1>6, <1>10, PathMoves
<1>14. Prepared(r, t)'  BY <1>2, <1>13 DEF Prepared
<1>15. ASSUME NEW a \in Nat, NEW b \in Nat, Pc(r)' = "path", req'[r].at = a, req'[r].sub = b,
              paths'[t] = PathsBefore(F, a, b), SoundTo(F, a, b)
       PROVE  Own(r, t)'
  <2>1. Built(r, t)'  BY <1>8, <1>11, <1>13 DEF Built
  <2>2. ColumnsTo(r, t, Len(F) + 1)'  BY <1>8, <1>11, <1>13 DEF ColumnsTo
  <2>3. ColumnsTo(r, t, Len(Input(r).fields) + 1)'  BY <1>4, <1>13, <2>2
  <2>4. PathsTo(r, t, a, b)'  BY <1>4, <1>13, <1>15 DEF PathsTo, PathsBefore
  <2>5. PathsTo(r, t, req[r].at, req[r].sub)'  BY <1>15, <2>4
  <2>6. Stage(r, t)'  BY <1>2, <1>8, <1>11, <1>13, <1>15, <2>1, <2>3, <2>5 DEF Stage, Whole
  <2> QED  BY <1>13, <1>14, <1>15, <2>6 DEF Own, Active
<1>16. CASE k < Len(F[i].subs) /\ Pc(r)' = "path" /\ req'[r].at = i /\ req'[r].sub = k + 1
  BY <1>7, <1>12, <1>12a, <1>15, <1>16
<1>17. CASE /\ ~(k < Len(F[i].subs)) /\ i < Len(F)
            /\ Pc(r)' = "path" /\ req'[r].at = i + 1 /\ req'[r].sub = 0
  <2>1. k = Len(F[i].subs)  BY <1>7, <1>17
  <2>2. paths'[t] = PathsBefore(F, i + 1, 0)  BY <1>12, <2>1, PathsGrow
  <2>3. SoundTo(F, i + 1, 0)  BY <1>12a, <2>1
  <2> QED  BY <1>7, <1>15, <1>17, <2>2, <2>3
<1>18. CASE ~(k < Len(F[i].subs)) /\ ~(i < Len(F)) /\ Pc(r)' = "ended"
  <2>1. k = Len(F[i].subs) /\ i = Len(F)
    <3>1. i = Len(F)
      <4>1. PICK n \in Nat : n = Len(F)  BY <1>7
      <4>2. i \in 1..n  BY <4>1
      <4>3. ~(i < n)  BY <1>18, <4>1
      <4> QED  BY <4>1, <4>2, <4>3
    <3>2. k = Len(F[i].subs)
      <4>1. ~(k < Len(F[i].subs))  BY <1>18
      <4> QED  BY <1>7, <4>1
    <3> QED  BY <3>1, <3>2
  <2>2. paths'[t] = FieldPaths(F)  BY <1>12, <2>1, PathsGrow
  <2>3. Sound(F)  BY <1>12a, <2>1
  <2>4. columns[t] = Range(F)
    <3>1. 1..Len(F)+1-1 = DOMAIN F  BY <1>7
    <3> QED  BY <1>9a, <3>1 DEF Range
  <2>5. row'[t] = Input(r) /\ row'[t] # NoRow  BY <1>3, <1>8, <1>11, CatalogAssumption
  <2>6. Consistent(t)'
    BY <1>4, <1>8, <1>9a, <1>11, <2>2, <2>3, <2>4, <2>5 DEF Consistent, Built, Holds
  <2> QED  BY <1>14, <1>18, <2>6 DEF Own, Active
<1> QED  BY <1>13, <1>16, <1>17, <1>18

\* DROP TABLE and DROP VIEW: what goes on to forget the table has found none, or
\* dropped it.
LEMMA OwnDropThing ==
  ASSUME TypeInv, NEW r \in Requests, NEW t \in Tables, t \in Touches(B(r)), Own(r, t),
         DropThing(r)
  PROVE  Own(r, t)'
<1>0. /\ req \in [Requests -> Locals] /\ TypeOK /\ duck \in [Tables \cup Routines -> Thing]
  BY OneRequest DEF TypeOK
<1>1. Pc(r) = "duck" /\ B(r).kind \in Drops \ {"dropSchema", "dropProcedure"}  BY DEF DropThing
<1>2. ~req[r].dirty /\ NameOf(r) = t /\ t \in Tables \cup Routines /\ B(r).kind \in TableDrops
  BY <1>1, TablePc, TouchTable
<1>3. row' = row /\ columns' = columns /\ paths' = paths  BY DEF DropThing, metaVars
<1>4. CASE Make(t, Nothing) /\ Did(r, "forget")
  <2>1. Others(r) /\ Pc(r)' = "forget" /\ req'[r].dirty = TRUE  BY <1>0, <1>4, Does DEF Pcs
  <2>2. B(r)' = B(r)  BY <2>1 DEF Others
  <2>3. ~Has(t)'  BY <1>0, <1>2, <1>4 DEF Make, Has, Nothing
  <2>4. Stage(r, t)'  BY <1>2, <2>1, <2>2, <2>3 DEF Stage
  <2>5. Prepared(r, t)'  BY <1>2, <2>1, <2>2, <2>3 DEF Prepared
  <2> QED  BY <2>1, <2>4, <2>5 DEF Own, Active
<1>5. CASE ~Has(t) /\ To(r, "forget") /\ UNCHANGED duck
  <2>1. Others(r) /\ Pc(r)' = "forget" /\ req'[r].dirty = req[r].dirty  BY <1>0, <1>5, Goes DEF Pcs
  <2>2. B(r)' = B(r)  BY <2>1 DEF Others
  <2>3. SameTable(t) /\ ~Has(t)'  BY <1>3, <1>5 DEF SameTable, Has
  <2>4. Prepared(r, t)'  BY <1>2, <2>1, <2>2, <2>3 DEF Prepared
  <2> QED  BY <1>2, <2>1, <2>3, <2>4, OwnRest
<1>6. CASE Refused(r)
  <2>1. SameTable(t)  BY <1>3, <1>6 DEF SameTable, Refused
  <2> QED  BY <1>2, <1>6, <2>1, OwnEnds DEF Refused
<1> QED  BY <1>2, <1>4, <1>5, <1>6 DEF DropThing

\* DROP SCHEMA, which finds no table there or drops them all.
LEMMA OwnDropSchema ==
  ASSUME TypeInv, NEW r \in Requests, NEW t \in Tables, t \in Touches(B(r)), Own(r, t),
         DropSchema(r)
  PROVE  Own(r, t)'
<1>0. /\ req \in [Requests -> Locals] /\ TypeOK /\ duck \in [Tables \cup Routines -> Thing]
  BY OneRequest DEF TypeOK
<1>1. Pc(r) = "duck" /\ B(r).kind = "dropSchema"  BY DEF DropSchema
<1>2. ~req[r].dirty /\ Home[t] = NameOf(r) /\ t \in DOMAIN duck
  BY <1>0, <1>1, TablePc, TouchTable
<1>3. row' = row /\ columns' = columns /\ paths' = paths  BY DEF DropSchema, metaVars
<1>4. CASE End(r, "error") /\ UNCHANGED duckVars
  <2>1. SameTable(t)  BY <1>3, <1>4 DEF SameTable, duckVars
  <2> QED  BY <1>2, <1>4, <2>1, OwnEnds
<1>5. CASE /\ B(r).mode # "cascade" => \A n \in DOMAIN duck : Home[n] = NameOf(r) => ~Has(n)
           /\ duck' = [n \in DOMAIN duck |-> IF n \in {m \in DOMAIN duck : Home[m] = NameOf(r)}
                                             THEN Nothing ELSE duck[n]]
           /\ Did(r, AfterDropSchema(B(r)))
  <2>1. ~Has(t)'  BY <1>2, <1>5 DEF Has, Nothing
  <2>2. AfterDropSchema(B(r)) = IF B(r).mode = "cascade" THEN "forgetTables" ELSE "forget"
    BY DEF AfterDropSchema
  <2>3. /\ Others(r) /\ Pc(r)' = AfterDropSchema(B(r)) /\ req'[r].dirty = TRUE
        /\ Pc(r)' \in {"forgetTables", "forget"}
    BY <1>0, <1>5, <2>2, Does DEF Pcs
  <2>4. B(r)' = B(r)  BY <2>3 DEF Others
  <2>5. ASSUME Pc(r)' = "forget" PROVE Consistent(t)'
    <3>1. ~Has(t)  BY <1>2, <1>5, <2>2, <2>3, <2>5
    <3>2. Consistent(t)  BY <1>2 DEF Own
    <3>3. row[t] = NoRow  BY <3>1, <3>2 DEF Consistent, Has, KindOf
    <3> QED  BY <1>3, <2>1, <3>3 DEF Consistent
  <2>6. Stage(r, t)'  BY <1>1, <2>1, <2>3, <2>4, <2>5 DEF Stage
  <2>7. Prepared(r, t)'  BY <1>1, <2>3, <2>4 DEF Prepared
  <2> QED  BY <2>3, <2>6, <2>7 DEF Own, Active
<1>6. DropSchema(r) => \/ End(r, "error") /\ UNCHANGED duckVars
                       \/ /\ B(r).mode # "cascade" => \A n \in DOMAIN duck : Home[n] = NameOf(r) => ~Has(n)
                          /\ duck' = [n \in DOMAIN duck |->
                                        IF n \in {m \in DOMAIN duck : Home[m] = NameOf(r)}
                                        THEN Nothing ELSE duck[n]]
                          /\ Did(r, AfterDropSchema(B(r)))
  BY DEF DropSchema
<1> QED  BY <1>4, <1>5, <1>6

\* CASCADE forgets the rows of the tables it has dropped.
LEMMA OwnForgetTables ==
  ASSUME TypeInv, NEW r \in Requests, NEW t \in Tables, t \in Touches(B(r)), Own(r, t),
         ForgetTables(r)
  PROVE  Own(r, t)'
<1>0. req \in [Requests -> Locals] /\ TypeOK  BY OneRequest
<1>1. Pc(r) = "forgetTables"  BY DEF ForgetTables
<1>2. /\ req[r].dirty /\ B(r).kind = "dropSchema" /\ t \in Within(NameOf(r)) /\ t \in Names
  BY <1>1, TablePc, TouchTable
<1>3. ~Has(t)  BY <1>1, <1>2 DEF Own, Stage, Active
<1>4. row'[t] = NoRow /\ ~Has(t)'  BY <1>2, <1>3 DEF ForgetTables, duckVars, Has
<1>5. Consistent(t)'  BY <1>4 DEF Consistent
<1>6. Others(r) /\ Pc(r)' = "forget" /\ req'[r].dirty = TRUE
  BY <1>0, Does DEF ForgetTables, Pcs
<1>7. B(r)' = B(r)  BY <1>6 DEF Others
<1>8. Stage(r, t)'  BY <1>2, <1>5, <1>6, <1>7 DEF Stage
<1>9. Prepared(r, t)'  BY <1>2, <1>6, <1>7 DEF Prepared
<1> QED  BY <1>6, <1>8, <1>9 DEF Own, Active

\* The row of the table, or of the dataset around it, is looked for and removed.
LEMMA OwnForget ==
  ASSUME TypeInv, NEW r \in Requests, NEW t \in Tables, t \in Touches(B(r)), Own(r, t),
         Forget(r), ~Stopped(r)'
  PROVE  Own(r, t)'
<1>0. req \in [Requests -> Locals] /\ TypeOK  BY OneRequest
<1>1. Pc(r) = "forget"  BY DEF Forget
<1>2. \/ B(r).kind = "deleteTable" /\ ~req[r].dirty
      \/ B(r).kind \in TableDrops /\ NameOf(r) = t
      \/ B(r).kind = "dropSchema" /\ req[r].dirty
  BY <1>1, TablePc, TouchTable
<1>3. SameTable(t)  BY DEF Forget, SameTable, metaVars, duckVars
<1>4. req[r].dirty \in BOOLEAN  BY TablePc
<1>5. CASE End(r, "error")
  <2>1. ~req[r].dirty  BY <1>2, <1>5, ErrorStops
  <2> QED  BY <1>3, <1>5, <2>1, OwnEnds
<1>6. CASE End(r, "ok") /\ RowOf(r) = NoRow
  <2>1. CASE ~req[r].dirty  BY <1>3, <1>6, <2>1, OwnEnds
  <2>2. CASE req[r].dirty
    <3>1. Consistent(t)
      <4>1. CASE B(r).kind = "dropSchema"  BY <1>1, <2>2, <4>1 DEF Own, Stage, Active
      <4>2. CASE B(r).kind \in TableDrops /\ NameOf(r) = t
        <5>1. ~Has(t)  BY <1>1, <4>2 DEF Own, Prepared
        <5> QED  BY <1>6, <4>2, <5>1 DEF RowOf, Consistent
      <4> QED  BY <1>2, <2>2, <4>1, <4>2
    <3>2. Others(r) /\ Pc(r)' = "ended"  BY <1>0, <1>6, Ends
    <3>3. Prepared(r, t)'  BY <3>2 DEF Prepared
    <3> QED  BY <1>3, <3>1, <3>2, <3>3, ConsistentKept DEF Own, Active
  <2> QED  BY <2>1, <2>2
<1>7. CASE To(r, "remove")
  <2>1. Others(r) /\ Pc(r)' = "remove" /\ req'[r].dirty = req[r].dirty  BY <1>0, <1>7, Goes DEF Pcs
  <2>2. B(r)' = B(r)  BY <2>1 DEF Others
  <2>3. B(r).kind \in TableDrops => ~Has(t)  BY <1>1 DEF Own, Prepared
  <2>4. Has(t)' = Has(t)  BY <1>3 DEF SameTable, Has
  <2>5. Prepared(r, t)'  BY <1>2, <2>1, <2>2, <2>3, <2>4 DEF Prepared
  <2>6. CASE ~req[r].dirty  BY <1>3, <2>1, <2>5, <2>6, OwnRest
  <2>7. CASE req[r].dirty
    <3>1. B(r).kind = "dropSchema" => Consistent(t)  BY <1>1, <2>7 DEF Own, Stage, Active
    <3>2. Consistent(t)' = Consistent(t)  BY <1>3, ConsistentKept
    <3>3. Stage(r, t)'  BY <1>2, <2>1, <2>2, <2>3, <2>4, <2>7, <3>1, <3>2 DEF Stage
    <3> QED  BY <2>1, <2>5, <2>7, <3>3 DEF Own, Active
  <2> QED  BY <2>6, <2>7
<1> QED  BY <1>5, <1>6, <1>7 DEF Forget

\* The row goes, after or before the table.
LEMMA OwnRemoveRow ==
  ASSUME TypeInv, NEW r \in Requests, NEW t \in Tables, t \in Touches(B(r)), Own(r, t),
         RemoveRow(r)
  PROVE  Own(r, t)'
<1>0. /\ req \in [Requests -> Locals] /\ TypeOK /\ row \in [Names -> Row \cup {NoRow}]
  BY OneRequest DEF TypeOK
<1>1. Pc(r) = "remove" /\ row' = [row EXCEPT ![NameOf(r)] = NoRow]  BY DEF RemoveRow
<1>2. columns' = columns /\ paths' = paths /\ duck' = duck  BY DEF RemoveRow, duckVars
<1>3. t \in Names  BY TouchTable
<1>4. CASE NameOf(r) = t
  <2>1. B(r).kind \in TableDrops \cup {"deleteTable"}  BY <1>1, <1>4, TablePc, TouchTable
  <2>2. Did(r, "removeColumns")  BY <1>4 DEF RemoveRow
  <2>3. Others(r) /\ Pc(r)' = "removeColumns" /\ req'[r].dirty = TRUE  BY <1>0, <2>2, Does DEF Pcs
  <2>4. B(r)' = B(r)  BY <2>3 DEF Others
  <2>5. row'[t] = NoRow  BY <1>0, <1>1, <1>3, <1>4
  <2>6. B(r).kind \in TableDrops => ~Has(t)'  BY <1>1, <1>2 DEF Own, Prepared, Has
  <2>7. Stage(r, t)'  BY <2>1, <2>3, <2>4, <2>5, <2>6 DEF Stage
  <2>8. Prepared(r, t)'  BY <2>1, <2>3, <2>4 DEF Prepared
  <2> QED  BY <2>3, <2>7, <2>8 DEF Own, Active
<1>5. CASE NameOf(r) # t
  <2>1. B(r).kind = "dropSchema" /\ NameOf(r) \in Datasets  BY <1>5, TouchTable
  <2>2. req[r].dirty  BY <1>1, <2>1, TablePc
  <2>3. Consistent(t)  BY <1>1, <2>1, <2>2 DEF Own, Stage, Active
  <2>4. SameTable(t)  BY <1>0, <1>1, <1>2, <1>3, <1>5 DEF SameTable
  <2>5. DidEnd(r)  BY <2>1, CatalogAssumption DEF RemoveRow
  <2>6. Others(r) /\ Pc(r)' = "ended"  BY <1>0, <2>5, EndsDone
  <2>7. Prepared(r, t)'  BY <2>6 DEF Prepared
  <2> QED  BY <2>3, <2>4, <2>6, <2>7, ConsistentKept DEF Own, Active
<1> QED  BY <1>4, <1>5

\* The projections go; a DROP is done then.
LEMMA OwnRemoveProjections ==
  ASSUME TypeInv, NEW r \in Requests, NEW t \in Tables, t \in Touches(B(r)), Own(r, t),
         RemoveColumns(r) \/ RemovePaths(r)
  PROVE  Own(r, t)'
<1>0. req \in [Requests -> Locals] /\ TypeOK  BY OneRequest
<1>1. Pc(r) \in {"removeColumns", "removePaths"}  BY DEF RemoveColumns, RemovePaths
<1>2. req[r].dirty /\ B(r).kind \in TableDrops \cup {"deleteTable"}  BY <1>1, TablePc
<1>3. row[t] = NoRow /\ (B(r).kind \in TableDrops => ~Has(t))
  BY <1>1, <1>2 DEF Own, Stage, Active
<1>4. row' = row /\ duck' = duck  BY DEF RemoveColumns, RemovePaths, duckVars
<1>5. row'[t] = NoRow /\ (B(r).kind \in TableDrops => ~Has(t)')  BY <1>3, <1>4 DEF Has
<1>6. CASE DidEnd(r) /\ ~DropsData(B(r))
  <2>1. Others(r) /\ Pc(r)' = "ended"  BY <1>0, <1>6, EndsDone
  <2>2. B(r).kind \in TableDrops  BY <1>2, <1>6 DEF DropsData
  <2>3. Consistent(t)'  BY <1>5, <2>2 DEF Consistent
  <2>4. Prepared(r, t)'  BY <2>1 DEF Prepared
  <2> QED  BY <2>1, <2>3, <2>4 DEF Own, Active
<1>7. ASSUME NEW p \in {"removePaths", "drop"}, To(r, p) PROVE Own(r, t)'
  <2>1. Others(r) /\ Pc(r)' = p /\ req'[r].dirty = req[r].dirty  BY <1>0, <1>7, Goes DEF Pcs
  <2>2. B(r)' = B(r)  BY <2>1 DEF Others
  <2>3. Stage(r, t)'  BY <1>2, <1>5, <2>1, <2>2 DEF Stage
  <2>4. Prepared(r, t)'  BY <1>2, <2>1, <2>2 DEF Prepared
  <2> QED  BY <1>2, <2>1, <2>3, <2>4 DEF Own, Active
<1> QED  BY <1>6, <1>7 DEF RemoveColumns, RemovePaths

\* The table of a row that a DELETE has removed is dropped.
LEMMA OwnDropData ==
  ASSUME TypeInv, NEW r \in Requests, NEW t \in Tables, t \in Touches(B(r)), Own(r, t),
         DropData(r), ~Stopped(r)'
  PROVE  Own(r, t)'
<1>0. /\ req \in [Requests -> Locals] /\ TypeOK /\ duck \in [Tables \cup Routines -> Thing]
  BY OneRequest DEF TypeOK
<1>1. Pc(r) = "drop"  BY DEF DropData
<1>2. /\ req[r].dirty /\ B(r).kind = "deleteTable" /\ NameOf(r) = t /\ t \in Tables \cup Routines
  BY <1>1, TablePc, TouchTable
<1>3. ~End(r, "error")  BY <1>2, ErrorStops
<1>4. Make(t, Nothing) /\ DidEnd(r)  BY <1>2, <1>3 DEF DropData, Refused
<1>5. row[t] = NoRow  BY <1>1, <1>2 DEF Own, Stage, Active
<1>6. row'[t] = NoRow /\ ~Has(t)'
  BY <1>0, <1>2, <1>4, <1>5 DEF DropData, metaVars, Make, Has, Nothing
<1>7. Others(r) /\ Pc(r)' = "ended"  BY <1>0, <1>4, EndsDone
<1>8. Consistent(t)' /\ Prepared(r, t)'  BY <1>6, <1>7 DEF Consistent, Prepared
<1> QED  BY <1>7, <1>8 DEF Own, Active

\* A refresh empties a materialized view and fills it again.
LEMMA OwnRefresh ==
  ASSUME TypeInv, NEW r \in Requests, NEW t \in Tables, t \in Touches(B(r)), Own(r, t),
         Clear(r) \/ Fill(r), ~Stopped(r)'
  PROVE  Own(r, t)'
<1>0. /\ req \in [Requests -> Locals] /\ TypeOK /\ duck \in [Tables \cup Routines -> Thing]
  BY OneRequest DEF TypeOK
<1>1. Pc(r) \in {"clear", "fill"}  BY DEF Clear, Fill
<1>2. B(r).kind = "refresh" /\ NameOf(r) = t /\ t \in Tables \cup Routines
  BY <1>1, TablePc, TouchTable
<1>3. row' = row /\ columns' = columns /\ paths' = paths  BY DEF Clear, Fill, metaVars
<1>4. duck[t] \in Thing  BY <1>0, <1>2
<1>5. CASE Refused(r)
  <2>1. SameTable(t)  BY <1>3, <1>5 DEF SameTable, Refused
  <2>2. ~req[r].dirty  BY <1>2, <1>5, ErrorStops DEF Refused
  <2> QED  BY <1>5, <2>1, <2>2, OwnEnds DEF Refused
<1>6. CASE /\ Clear(r) /\ duck[t].kind = "table"
           /\ duck' = [duck EXCEPT ![t].copies = 0] /\ Did(r, "fill")
  <2>1. Pc(r) = "clear"  BY <1>6 DEF Clear
  <2>2. ~req[r].dirty  BY <2>1, TablePc
  <2>3. row[t] # NoRow /\ row[t].type = "MATERIALIZED_VIEW" /\ Consistent(t)
    BY <1>2, <2>1, <2>2 DEF Own, Prepared
  <2>4. Others(r) /\ Pc(r)' = "fill" /\ req'[r].dirty = TRUE  BY <1>0, <1>6, Does DEF Pcs
  <2>5. B(r)' = B(r)  BY <2>4 DEF Others
  <2>6. duck'[t].kind = "table" /\ duck'[t].fields = duck[t].fields /\ duck'[t].copies = 0
    BY <1>0, <1>2, <1>4, <1>6 DEF Thing
  <2>7. Holds(duck[t], row[t].fields)'  BY <1>3, <2>3, <2>6 DEF Consistent, Holds
  <2>8. Stage(r, t)'
    BY <1>2, <1>3, <2>3, <2>4, <2>5, <2>6, <2>7 DEF Stage, Consistent
  <2>9. Prepared(r, t)'  BY <1>2, <2>4, <2>5 DEF Prepared
  <2> QED  BY <2>4, <2>8, <2>9 DEF Own, Active
<1>7. CASE Fill(r) /\ duck' = [duck EXCEPT ![t].copies = @ + 1] /\ DidEnd(r)
  <2>1. Pc(r) = "fill"  BY <1>7 DEF Fill
  <2>2. req[r].dirty  BY <2>1, TablePc
  <2>3. /\ row[t] # NoRow /\ row[t].type = "MATERIALIZED_VIEW"
        /\ duck[t].kind = "table" /\ Holds(duck[t], row[t].fields) /\ Sound(row[t].fields)
        /\ columns[t] = Range(row[t].fields) /\ paths[t] = FieldPaths(row[t].fields)
        /\ duck[t].copies = 0
    BY <2>1, <2>2 DEF Own, Stage, Active
  <2>4. Others(r) /\ Pc(r)' = "ended"  BY <1>0, <1>7, EndsDone
  <2>5. duck'[t].kind = "table" /\ duck'[t].fields = duck[t].fields /\ duck'[t].copies = 1
    BY <1>0, <1>2, <1>4, <1>7, <2>3 DEF Thing
  <2>6. Holds(duck[t], row[t].fields)'  BY <1>3, <2>3, <2>5 DEF Holds
  <2>7. Consistent(t)'  BY <1>3, <2>3, <2>5, <2>6 DEF Consistent, KindOf
  <2>8. Prepared(r, t)'  BY <2>4 DEF Prepared
  <2> QED  BY <2>4, <2>7, <2>8 DEF Own, Active
<1> QED  BY <1>2, <1>5, <1>6, <1>7 DEF Clear, Fill

\* Every step of a request that is at work on a table alone.
LEMMA OwnStep ==
  ASSUME TypeInv, NEW r \in Requests, NEW t \in Tables, t \in Touches(B(r)), Own(r, t),
         Step(r), ~Stopped(r)'
  PROVE  Own(r, t)'
<1>1. Pc(r) # "page"  BY TablePc
<1>2. ~ListPage(r)  BY <1>1 DEF ListPage
<1>3. ~CreateMacro(r)
  <2>1. CreateMacro(r) => Pc(r) = "duck" /\ B(r).kind = "createFunction"  BY DEF CreateMacro
  <2> QED  BY <2>1, TouchTable
<1>4. ~UpsertDataset(r) /\ ~UpsertRoutine(r) /\ ~UpsertModel(r)
  <2>1. UpsertDataset(r) \/ UpsertRoutine(r) \/ UpsertModel(r) => Pc(r) = "write"
    BY DEF UpsertDataset, UpsertRoutine, UpsertModel, Write
  <2>2. Pc(r) = "write" => NameOf(r) = t  BY TablePc, TouchTable
  <2>3. t \notin Datasets /\ t \notin Routines /\ t \notin Models  BY TouchTable
  <2> QED  BY <2>1, <2>2, <2>3 DEF UpsertDataset, UpsertRoutine, UpsertModel
<1>5. CASE \/ Start(r) \/ Get(r) \/ ParentDataset(r) \/ EnsureDatasetSchema(r)
           \/ ReadNew(r) \/ ReadMissing(r) \/ ReadOld(r)
  BY <1>5, OwnStart, OwnRead
<1>6. CASE \/ CreateTable(r) \/ CreateTableAs(r) \/ CreateView(r) \/ Describe(r) \/ AddColumn(r)
           \/ RefuseRepartition(r) \/ Upsert(r) \/ UpsertTable(r)
  BY <1>6, OwnCreate, OwnDescribe, OwnAddColumn, OwnUpsert, OwnUpsertTable
<1>7. CASE ClearColumns(r) \/ ClearPaths(r) \/ InsertColumn(r) \/ InsertPath(r)
  BY <1>7, OwnClearColumns, OwnClearPaths, OwnInsertColumn, OwnInsertPath
<1>8. CASE \/ DropThing(r) \/ DropSchema(r) \/ ForgetTables(r) \/ Forget(r) \/ RemoveRow(r)
           \/ RemoveColumns(r) \/ RemovePaths(r) \/ DropData(r) \/ Clear(r) \/ Fill(r)
  BY <1>8, OwnDropThing, OwnDropSchema, OwnForgetTables, OwnForget, OwnRemoveRow,
     OwnRemoveProjections, OwnDropData, OwnRefresh
<1> QED  BY <1>2, <1>3, <1>4, <1>5, <1>6, <1>7, <1>8 DEF Step

\* A careful creator that comes second changes nothing: the name is taken.
LEMMA BesideStep ==
  ASSUME TypeInv, NEW r \in Requests, NEW t \in Tables, t \in Touches(B(r)), Careful(B(r)), Has(t),
         ~req[r].dirty, Step(r)
  PROVE  SameTable(t) /\ ~req'[r].dirty /\ B(r).kind \in TableCreators
<1>0. /\ req \in [Requests -> Locals] /\ req[r] \in Locals /\ TypeOK /\ LocalOK(r)
      /\ B(r).kind \in Kinds
  BY OneRequest
<1>1. B(r).kind \in TableCreators /\ NameOf(r) = t /\ B(r).mode # "orReplace"
  BY TouchTable DEF Careful
<1>2. Pc(r) \in {"start", "dataset", "ensure", "read", "duck"}
  <2>1. Pc(r) \in Early(B(r))  BY <1>0 DEF LocalOK
  <2>2. Pc(r) # "ended"  BY StepActive
  <2> QED  BY <1>1, <2>1, <2>2 DEF Early
<1>3. /\ \A p \in Pcs : To(r, p) => req'[r].dirty = req[r].dirty
      /\ \A o \in {"ok", "error"} : End(r, o) => req'[r].dirty = req[r].dirty
  BY <1>0, Goes, Ends
<1>4. CASE Pc(r) = "start"
  <2>1. Start(r) \/ Get(r)  BY <1>4, StepAt
  <2>2. First(B(r)) \in Pcs  BY DEF First, Pcs
  <2>3. req' = [req EXCEPT ![r].held = RowOf(r)] => req'[r].dirty = req[r].dirty
    BY <1>0 DEF Locals
  <2>4. ~req'[r].dirty  BY <1>3, <2>1, <2>2, <2>3 DEF Start, Get
  <2>5. SameTable(t)  BY <2>1 DEF Start, Get, SameTable, metaVars, duckVars
  <2> QED  BY <1>1, <2>4, <2>5
<1>5. CASE Pc(r) = "dataset"
  <2>1. ParentDataset(r)  BY <1>5, StepAt
  <2>2. AfterDataset(B(r)) \in Pcs  BY DEF AfterDataset, Pcs
  <2>3. ~req'[r].dirty  BY <1>3, <2>1, <2>2 DEF ParentDataset
  <2>4. SameTable(t)  BY <2>1 DEF ParentDataset, SameTable, metaVars, duckVars
  <2> QED  BY <1>1, <2>3, <2>4
<1>6. CASE Pc(r) = "ensure"
  <2>1. EnsureDatasetSchema(r)  BY <1>6, StepAt
  <2>2. ~req'[r].dirty  BY <1>1, <1>3, <2>1 DEF EnsureDatasetSchema, Pcs
  <2>3. SameTable(t)  BY <2>1 DEF EnsureDatasetSchema, SameTable, metaVars
  <2> QED  BY <1>1, <2>2, <2>3
<1>7. CASE Pc(r) = "read"
  <2>1. ReadNew(r)  BY <1>1, <1>7, StepAt DEF ReadMissing, ReadOld
  <2>2. AfterNew(B(r)) \in Pcs  BY DEF AfterNew, Pcs
  <2>3. ~req'[r].dirty  BY <1>3, <2>1, <2>2 DEF ReadNew
  <2>4. SameTable(t)  BY <2>1 DEF ReadNew, SameTable, metaVars, duckVars
  <2> QED  BY <1>1, <2>3, <2>4
<1>8. CASE Pc(r) = "duck"
  <2>1. CreateTable(r) \/ CreateTableAs(r) \/ CreateView(r)
    BY <1>1, <1>8, StepAt DEF CreateMacro, DropThing, DropSchema
  <2>2. ~Free(t)  BY DEF Free
  <2>3. Refused(r)
    BY <1>1, <2>1, <2>2 DEF CreateTable, CreateTableAs, CreateView
  <2>4. ~req'[r].dirty  BY <1>3, <2>3 DEF Refused
  <2>5. SameTable(t)
    BY <2>1, <2>3 DEF Refused, CreateTable, CreateTableAs, CreateView, SameTable, metaVars
  <2> QED  BY <1>1, <2>4, <2>5
<1> QED  BY <1>2, <1>4, <1>5, <1>6, <1>7, <1>8

\* A creator that has made something of a table is seen.
LEMMA CreatorHas ==
  ASSUME TypeInv, NEW s \in Requests, NEW t \in Tables, Amid(s, t), Stage(s, t), Careful(B(s))
  PROVE  Has(t)
<1>1. t \in Touches(B(s)) /\ Active(s) /\ req[s].dirty  BY DEF Amid
<1>2. B(s).kind \in TableCreators  BY <1>1, TouchTable DEF Careful
<1>3. Pc(s) \in {"describe", "upsert", "write"} \cup Projecting
  <2>1. LocalOK(s)  BY OneRequest
  <2> QED  BY <1>1, <1>2, <2>1 DEF LocalOK, Late, Active
<1> QED  BY <1>2, <1>3 DEF Stage, Built, KindOf, Has

\* What a request that works beside another one, which is amid its changes,
\* makes of the table: nothing.
LEMMA Beside ==
  ASSUME TypeInv, MixedInv, NEW t \in Tables, TableOK(t), Clean(t), Clean(t)',
         NEW r \in Requests, Step(r), t \in Touches(B(r)),
         NEW s \in Requests, s # r, Amid(s, t)
  PROVE  SameTable(t) /\ ~Amid(r, t)' /\ Prepared(r, t)'
<1>0. /\ Others(r) /\ req \in [Requests -> Locals] /\ req[r] \in Locals /\ t \notin mixed
      /\ t \notin mixed' /\ Active(s) /\ t \in Touches(B(s))
  BY OneRequest, StepType DEF Clean, Amid
<1>1. ~Amid(r, t) /\ Stage(s, t) /\ Prepared(r, t)  BY DEF TableOK
<1>2. ~req[r].dirty
  <2>1. ~Active(r) => Pc(r) = "start"  BY StepActive
  <2> QED  BY <1>1, <2>1, TablePc DEF Amid
<1>3. CASE Careful(B(r)) /\ Careful(B(s))
  <2>1. Has(t)  BY <1>1, <1>3, CreatorHas
  <2>2. SameTable(t) /\ ~req'[r].dirty /\ B(r).kind \in TableCreators
    BY <1>2, <1>3, <2>1, BesideStep
  <2>3. Prepared(r, t)'  BY <1>0, <2>2 DEF Prepared, Others
  <2> QED  BY <2>2, <2>3 DEF Amid
<1>4. CASE ~(Careful(B(r)) /\ Careful(B(s)))
  <2>1. ~Active(r)  BY <1>0, <1>4, Alone
  <2>2. Pc(r) = "start"  BY <2>1, StepActive
  <2>3. ~Start(r)  BY <1>0, <1>4 DEF Start
  <2>4. Get(r)  BY <2>2, <2>3, StepAt
  <2>5. SameTable(t)  BY <2>4 DEF Get, SameTable, metaVars, duckVars
  <2>6. Pc(r)' \in {"start", "ended"} /\ req'[r].at = req[r].at
    <3>1. End(r, "error") => Pc(r)' = "ended" /\ req'[r].at = req[r].at
      BY <1>0, Ends DEF Same
    <3>2. req' = [req EXCEPT ![r].held = RowOf(r)] => Pc(r)' = Pc(r) /\ req'[r].at = req[r].at
      BY <1>0 DEF Pc, Locals
    <3> QED  BY <2>2, <2>4, <3>1, <3>2 DEF Get
  <2>7. Prepared(r, t)'  BY <1>0, <1>1, <2>2, <2>6 DEF Prepared, Others
  <2>8. ~Amid(r, t)'  BY <2>6 DEF Amid, Active
  <2> QED  BY <2>5, <2>7, <2>8
<1> QED  BY <1>3, <1>4

\* What r changes of a table on its own, nobody else has prepared to change.
LEMMA PreparedKept ==
  ASSUME TypeInv, MixedInv, NEW t \in Tables, Clean(t), NEW r \in Requests, Step(r),
         t \in Touches(B(r)), NEW s \in Requests, s # r, t \in Touches(B(s)), Prepared(s, t)
  PROVE  Prepared(s, t)'
<1>0. Others(r) /\ req'[s] = req[s] /\ t \notin mixed  BY StepType DEF Others, Clean
<1>1. B(s)' = B(s) /\ Pc(s)' = Pc(s)  BY <1>0 DEF B, Pc
<1>2. CASE ~Active(r)
  <2>1. UNCHANGED <<metaVars, duckVars>>  BY <1>2, StepActive
  <2>2. SameTable(t)  BY <2>1 DEF SameTable, metaVars, duckVars
  <2> QED  BY <1>0, <2>2, StageKept
<1>3. CASE ~Active(s)
  <2>1. Pc(s) \in {"start", "ended"}  BY <1>3 DEF Active
  <2> QED  BY <1>0, <1>1, <2>1 DEF Prepared
<1>4. CASE Active(r) /\ Active(s)
  <2>1. Careful(B(s))  BY <1>0, <1>4, Alone
  <2> QED  BY <1>1, <2>1 DEF Careful, Prepared
<1> QED  BY <1>2, <1>3, <1>4

\* A step keeps an undamaged table as far as its request has come.
LEMMA TableStep ==
  ASSUME TypeInv, MixedInv, NEW t \in Tables, TableOK(t), Clean(t), Clean(t)',
         NEW r \in Requests, Step(r)
  PROVE  TableOK(t)'
<1>0. Others(r) /\ B(r)' = B(r) /\ t \in Names
  BY StepType, CatalogAssumption DEF Others, Names
<1>1. \A s \in Requests : B(s)' = B(s)  BY <1>0 DEF Others, B
<1>2. \A s \in Requests \ {r} : Amid(s, t)' = Amid(s, t)
  BY <1>0 DEF Others, Amid, Active, Pc, B
<1>3. ASSUME SameTable(t), ~Amid(r, t)', ~Amid(r, t), t \in Touches(B(r)) => Prepared(r, t)'
      PROVE  TableOK(t)'
  <2>1. \A s \in Requests \ {r} : Stage(s, t)' = Stage(s, t) /\ Prepared(s, t)' = Prepared(s, t)
    BY <1>0, <1>3, StageKept DEF Others
  <2>2. Consistent(t)' = Consistent(t)  BY <1>3, ConsistentKept
  <2>3. /\ \A s, u \in Requests : Amid(s, t) /\ Amid(u, t) => s = u
        /\ \A s \in Requests : Amid(s, t) => Stage(s, t)
        /\ (\A s \in Requests : ~Amid(s, t)) => Consistent(t)
        /\ \A s \in Requests : t \in Touches(B(s)) => Prepared(s, t)
    BY DEF TableOK
  <2>4. \A s, u \in Requests : Amid(s, t)' /\ Amid(u, t)' => s = u  BY <1>2, <1>3, <2>3
  <2>5. \A s \in Requests : Amid(s, t)' => Stage(s, t)'  BY <1>2, <1>3, <2>1, <2>3
  <2>6. (\A s \in Requests : ~Amid(s, t)') => Consistent(t)'  BY <1>2, <1>3, <2>2, <2>3
  <2>7. \A s \in Requests : t \in Touches(B(s)') => Prepared(s, t)'  BY <1>1, <1>3, <2>1, <2>3
  <2> QED  BY <2>4, <2>5, <2>6, <2>7 DEF TableOK
<1>4. CASE t \notin Touches(B(r))
  <2>1. SameTable(t)  BY <1>0, <1>4, StepSpares DEF Spares, SameTable
  <2>2. ~Amid(r, t)' /\ ~Amid(r, t)  BY <1>0, <1>4 DEF Amid
  <2> QED  BY <1>3, <1>4, <2>1, <2>2
<1>5. CASE t \in Touches(B(r)) /\ \E s \in Requests : s # r /\ Amid(s, t)
  <2>1. PICK s \in Requests : s # r /\ Amid(s, t)  BY <1>5
  <2>2. SameTable(t) /\ ~Amid(r, t)' /\ Prepared(r, t)'  BY <1>5, <2>1, Beside
  <2>3. ~Amid(r, t)  BY <2>1 DEF TableOK
  <2> QED  BY <1>3, <2>2, <2>3
<1>6. CASE t \in Touches(B(r)) /\ \A s \in Requests : s # r => ~Amid(s, t)
  <2>1. Own(r, t)  BY <1>6 DEF TableOK, Own, Amid
  <2>2. ~Stopped(r)'  BY <1>0, <1>6 DEF Clean
  <2>3. Own(r, t)'  BY <1>6, <2>1, <2>2, OwnStep
  <2>4. \A s \in Requests : s # r => ~Amid(s, t)'  BY <1>2, <1>6
  <2>5. Amid(r, t)' = (Active(r)' /\ req'[r].dirty)  BY <1>0, <1>6 DEF Amid
  <2>6. \A s, u \in Requests : Amid(s, t)' /\ Amid(u, t)' => s = u  BY <2>4
  <2>7. \A s \in Requests : Amid(s, t)' => Stage(s, t)'  BY <2>3, <2>4, <2>5 DEF Own
  <2>8. (\A s \in Requests : ~Amid(s, t)') => Consistent(t)'  BY <2>3, <2>5 DEF Own
  <2>9. ASSUME NEW s \in Requests, t \in Touches(B(s)') PROVE Prepared(s, t)'
    <3>1. CASE s = r  BY <2>3, <3>1 DEF Own
    <3>2. CASE s # r
      <4>1. t \in Touches(B(s))  BY <1>1, <2>9
      <4>2. Prepared(s, t)  BY <4>1 DEF TableOK
      <4> QED  BY <1>6, <3>2, <4>1, <4>2, PreparedKept
    <3> QED  BY <3>1, <3>2
  <2> QED  BY <2>6, <2>7, <2>8, <2>9 DEF TableOK
<1> QED  BY <1>4, <1>5, <1>6

\* A crash damages what a request was amid, and nothing else.
LEMMA TableCrash ==
  ASSUME TypeInv, NEW t \in Tables, TableOK(t), Clean(t)', Crash
  PROVE  TableOK(t)'
<1>1. SameTable(t)  BY Crashes DEF SameTable, metaVars, duckVars
<1>2. \A r \in Requests : ~Amid(r, t)  BY CleanCrash DEF Amid
<1>3. \A r \in Requests : ~Amid(r, t)'
  <2> SUFFICES ASSUME NEW r \in Requests, Amid(r, t)' PROVE FALSE  OBVIOUS
  <2>1. Active(r) => Pc(r)' = "ended"  BY Crashes
  <2>2. ~Active(r) => req'[r] = req[r]  BY Crashes
  <2> QED  BY <1>2, <2>1, <2>2 DEF Amid, Active, Pc, B
<1>4. Consistent(t)'  BY <1>1, <1>2, ConsistentKept DEF TableOK
<1>5. ASSUME NEW r \in Requests, t \in Touches(B(r)') PROVE Prepared(r, t)'
  <2>1. B(r)' = B(r)  BY Crashes
  <2>2. Prepared(r, t)  BY <1>5, <2>1 DEF TableOK
  <2>3. CASE Active(r)
    <3>1. Pc(r)' = "ended"  BY <2>3, Crashes
    <3> QED  BY <3>1 DEF Prepared
  <2>4. CASE ~Active(r)
    <3>1. req'[r] = req[r]  BY <2>4, Crashes
    <3> QED  BY <1>1, <2>2, <3>1, StageKept
  <2> QED  BY <2>3, <2>4
<1> QED  BY <1>3, <1>4, <1>5 DEF TableOK

\* Every step keeps what undamaged tables are.
LEMMA TableNext == ASSUME TypeInv, MixedInv, TableInv, [Next]_vars PROVE TableInv'
<1> SUFFICES ASSUME NEW t \in Tables, Clean(t)' PROVE TableOK(t)'
  BY DEF TableInv
<1>1. Clean(t)  BY CleanBefore
<1>2. TableOK(t)  BY <1>1 DEF TableInv
<1>3. ASSUME NEW r \in Requests, Step(r) PROVE TableOK(t)'  BY <1>1, <1>2, <1>3, TableStep
<1>4. CASE Crash  BY <1>2, <1>4, TableCrash
<1>5. CASE UNCHANGED vars
  <2>1. UNCHANGED <<row, columns, paths, schemas, duck, req>>
    BY <1>5 DEF vars, metaVars, duckVars
  <2>2. SameTable(t) /\ \A r \in Requests : req'[r] = req[r] /\ B(r)' = B(r)
    BY <2>1 DEF SameTable, B
  <2>3. \A r \in Requests : /\ Stage(r, t)' = Stage(r, t) /\ Prepared(r, t)' = Prepared(r, t)
                            /\ Amid(r, t)' = Amid(r, t)
    BY <2>2, StageKept
  <2>4. Consistent(t)' = Consistent(t)  BY <2>2, ConsistentKept
  <2> QED  BY <1>2, <2>2, <2>3, <2>4 DEF TableOK
<1> QED  BY <1>3, <1>4, <1>5 DEF Next

\* The server starts with consistent tables.
LEMMA TableInit == ASSUME Init PROVE TableInv
<1>1. PICK mix \in Mixes :
        req = [r \in Requests |-> [pc |-> "start", body |-> mix[r], held |-> NoRow, was |-> NoRow,
                                   fields |-> <<>>, at |-> 0, sub |-> 0, seen |-> {}, early |-> {},
                                   dirty |-> FALSE, outcome |-> "none"]]
  BY DEF Init
<1>2. \A r \in Requests : Pc(r) = "start" /\ ~req[r].dirty /\ req[r].at = 0  BY <1>1 DEF Pc
<1>3. ASSUME NEW t \in Tables PROVE TableOK(t)
  <2>1. /\ row[t] = InitRow[t] /\ duck[t] = InitDuck[t]
        /\ columns[t] = (IF InitRow[t] = NoRow THEN {} ELSE Range(InitRow[t].fields))
        /\ paths[t] = (IF InitRow[t] = NoRow THEN {} ELSE FieldPaths(InitRow[t].fields))
    BY DEF Init
  <2>2. Consistent(t)  BY <2>1, StartAssumption DEF Consistent, Has
  <2>3. \A r \in Requests : ~Amid(r, t)  BY <1>2 DEF Amid
  <2>4. \A r \in Requests : Prepared(r, t)  BY <1>2 DEF Prepared
  <2> QED  BY <2>2, <2>3, <2>4 DEF TableOK
<1> QED  BY <1>3 DEF TableInv

\* Hence undamaged tables are always as far as their request has come.
LEMMA TablesAlways == Spec => []TableInv
BY TableInit, TableNext, MixedAlways, TypesAlways, PTL DEF Spec

\* What is settled is undamaged, and nobody is amid changes of it.
LEMMA SettledTable ==
  ASSUME TableInv, NEW t \in Tables, Settled(t)
  PROVE  Consistent(t)
BY DEF TableInv, TableOK, Settled, Quiet, Clean, Amid

\* A settled dataset has its schema.
LEMMA SettledDataset ==
  ASSUME DatasetInv, NEW d \in Datasets, Settled(d), row[d] # NoRow
  PROVE  d \in schemas
BY DEF DatasetInv, Owing, Settled, Quiet, Clean

\* What the catalog describes is there: each dataset's schema, and each table or
\* view with the fields of its row.
THEOREM DescribedIsThereAlways == Spec => []DescribedIsThere
<1>1. TableInv /\ DatasetInv => DescribedIsThere
  BY SettledTable, SettledDataset DEF DescribedIsThere, Consistent
<1> QED  BY <1>1, TablesAlways, DatasetAlways, PTL

\* What DuckDB has is described: no table is left that no request can find.
THEOREM NothingLeftBehindAlways == Spec => []NothingLeftBehind
<1>1. TableInv => NothingLeftBehind  BY SettledTable DEF NothingLeftBehind, Consistent
<1> QED  BY <1>1, TablesAlways, PTL

\* The two projections show the schema of a table's row.
THEOREM ProjectionsFollowAlways == Spec => []ProjectionsFollow
<1>1. TableInv => ProjectionsFollow  BY SettledTable DEF ProjectionsFollow, Consistent
<1> QED  BY <1>1, TablesAlways, PTL

\* A materialized view holds the rows of its query once.
THEOREM MvHoldsItsRowsAlways == Spec => []MvHoldsItsRows
<1>1. TableInv => MvHoldsItsRows  BY SettledTable DEF MvHoldsItsRows, Consistent
<1> QED  BY <1>1, TablesAlways, PTL
=============================================================================
