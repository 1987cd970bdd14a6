------------------------------- MODULE Catalog -------------------------------
(***************************************************************************)
(* The catalog: what _bq.datasets, _bq.tables, _bq.routines and _bq.models *)
(* say there is (src/src/storage/meta.ts), what DuckDB has, and the        *)
(* requests that change both: the REST routes (src/src/routes/tables.ts,   *)
(* datasets.ts, routines.ts, models.ts) and the DDL statements of          *)
(* src/src/sql/queryEngine.ts.                                             *)
(*                                                                         *)
(* A request is cut at its awaits: an action executes one statement and    *)
(* goes on to the next await.  No handler opens a transaction, so between  *)
(* two statements of one request any other may run, and a crash keeps what *)
(* was executed.                                                           *)
(***************************************************************************)
EXTENDS Naturals, Sequences, FiniteSets, Functions

CONSTANTS
  Datasets, Tables, Routines, Models, \* disjoint ids, numbered in their order
  Home,       \* the dataset of a table, routine or model
  Requests,   \* HTTP requests, among them query jobs that run DDL
  Mixes,      \* bound: what may be asked together: functions from Requests to Body
  InitRow, InitDuck, \* what there is when the server starts
  PageSize,   \* maxResults of a client that lists
  MaxCrashes, \* bound
  NoRow, NoText, NoName

VARIABLES
  row,        \* [n]: the row of a dataset, table, routine or model, or NoRow
  columns,    \* [t]: the rows of _bq.table_columns
  paths,      \* [t]: the rows of _bq.table_field_paths
  schemas,    \* DuckDB schemas
  duck,       \* [n]: the DuckDB table, view or macro of that name
  req,        \* [r]: the request's await and its local variables
  mixed,      \* history: ids that two requests were at work on together
  crashes     \* how often the server has crashed

metaVars == <<row, columns, paths>>
duckVars == <<schemas, duck>>
vars == <<metaVars, duckVars, req, mixed, crashes>>

Names   == Datasets \cup Tables \cup Routines \cup Models
Texts   == {"a", "b", NoText}      \* labels, descriptions and bodies

\* subs: the fields of a STRUCT column; no other type has any.
Field == {f \in [name : STRING, type : {"INT64", "STRUCT"}, mode : {"NULLABLE", "REQUIRED"},
                  subs : Seq(STRING)] : f.type # "STRUCT" => f.subs = <<>>}

\* An etag is a hash of the row, so the row stands for it.  query: the table a
\* stored view query selects from.
Types == {"DATASET", "TABLE", "VIEW", "MATERIALIZED_VIEW", "MODEL", "SCALAR_FUNCTION", "PROCEDURE"}
Row   == [type : Types, fields : Seq(Field), text : Texts, query : Tables \cup {NoName}]

\* copies: how often a materialized view holds the rows of its query.
Thing   == [kind : {"none", "table", "view", "macro"}, fields : Seq(Field), copies : Nat,
            text : Texts, source : Tables \cup {NoName}]
Nothing == [kind |-> "none", fields |-> <<>>, copies |-> 0, text |-> NoText, source |-> NoName]

TableCreators   == {"insertTable", "createTable", "createView", "createMv"}
DatasetCreators == {"insertDataset", "createSchema"}
RoutineCreators == {"insertRoutine", "createFunction", "createProcedure"}
Creators == TableCreators \cup DatasetCreators \cup RoutineCreators
Patches  == {"patchTable", "patchDataset", "patchRoutine", "patchModel"}
Deletes  == {"deleteTable", "deleteDataset", "deleteRoutine", "deleteModel"}
Drops    == {"dropTable", "dropView", "dropMv", "dropSchema", "dropFunction", "dropProcedure"}
Kinds    == Creators \cup Patches \cup Deletes \cup Drops \cup {"refresh", "list"}

\* What a request of each kind may name.
Nameable(kind) ==
  CASE kind \in TableCreators \cup {"patchTable", "deleteTable", "dropTable", "dropView", "dropMv",
                                "refresh"}                                    -> Tables
    [] kind \in DatasetCreators \cup {"patchDataset", "deleteDataset", "dropSchema"} -> Datasets
    [] kind \in RoutineCreators \cup {"patchRoutine", "deleteRoutine", "dropFunction",
                                  "dropProcedure"}                            -> Routines
    [] kind \in {"patchModel", "deleteModel"}                                 -> Models
    [] OTHER                                                                  -> Names

\* fields: those of a TableSchema, <<>> for none; mode: OR REPLACE, IF [NOT]
\* EXISTS, CASCADE, or a timePartitioning other than the table's; match: the
\* client reads the resource and sends its etag as If-Match.
Body == {b \in [kind : Kinds, name : Names, source : Tables, fields : Seq(Field), text : Texts,
                mode : {"plain", "orReplace", "ifExists", "cascade", "repartition"},
                match : BOOLEAN] :
           /\ b.name \in Nameable(b.kind)
           /\ b.match => b.kind \in Patches \cup Deletes}

Locals == [pc : {"start", "dataset", "ensure", "read", "duck", "describe", "alter", "upsert",
                 "write", "clearColumns", "clearPaths", "column", "path", "forgetTables", "forget",
                 "remove", "removeColumns", "removePaths", "drop", "clear", "fill", "page", "ended"},
           body : Body,
           held : Row \cup {NoRow}, \* what the client has read
           was : Row \cup {NoRow},  \* what the handler has read
           fields : Seq(Field),     \* what DESCRIBE has returned
           at : Nat,                \* a field of the schema, or rows listed
           sub : Nat,               \* a subfield of that field, 0 for the field itself
           seen : SUBSET Names, early : SUBSET Names, \* listed; there when the list began
           dirty : BOOLEAN,         \* history: it has changed more than added columns
           outcome : {"none", "ok", "error", "lost"}]

ASSUME CatalogAssumption ==
  /\ Names \subseteq Nat /\ IsFiniteSet(Names)
  /\ Datasets \cap Tables = {} /\ Datasets \cap Routines = {} /\ Datasets \cap Models = {}
  /\ Tables \cap Routines = {} /\ Tables \cap Models = {} /\ Routines \cap Models = {}
  /\ Home \in [Tables \cup Routines \cup Models -> Datasets]
  /\ \A mix \in Mixes : mix \in [Requests -> Body]
  /\ InitRow \in [Names -> Row \cup {NoRow}]
  /\ InitDuck \in [Tables \cup Routines -> Thing]
  /\ PageSize \in Nat \ {0}
  /\ MaxCrashes \in Nat
  /\ NoRow \notin Row /\ NoName \notin Names

Pc(r)     == req[r].pc
B(r)      == req[r].body
NameOf(r) == B(r).name
RowOf(r)  == row[NameOf(r)]
Active(r) == Pc(r) \notin {"start", "ended"}
DatasetOf(n) == IF n \in Datasets THEN n ELSE Home[n]
Within(d) == {n \in DOMAIN Home : Home[n] = d}

To(r, p)     == req' = [req EXCEPT ![r].pc = p]
Did(r, p)    == req' = [req EXCEPT ![r].pc = p, ![r].dirty = TRUE]
End(r, o)    == req' = [req EXCEPT ![r].pc = "ended", ![r].outcome = o]
DidEnd(r)    == req' = [req EXCEPT ![r].pc = "ended", ![r].outcome = "ok", ![r].dirty = TRUE]
Frame        == UNCHANGED <<mixed, crashes>>

-----------------------------------------------------------------------------
(***************************************************************************)
(* Schemas.                                                                *)
(***************************************************************************)
FieldNames(fields) == {f.name : f \in Range(fields)}

Widens(old, new) == old = new \/ (old = "REQUIRED" /\ new = "NULLABLE")

\* What diffSchemaForPatch lets a client make of a schema.
Extends(old, new) ==
  \A f \in Range(old) : \E g \in Range(new) :
    /\ g.name = f.name /\ g.type = f.type
    /\ Widens(f.mode, g.mode)
    /\ g.type = "STRUCT" => g.subs = f.subs

\* The places in the new schema of the fields it adds.
Added(old, new) == {i \in DOMAIN new : new[i].name \notin FieldNames(old)}

\* collectFieldPaths: path 0 of a field is that of the column, the others are
\* those of its subfields.
Path(f, k) == IF k = 0 THEN <<f.name>> ELSE <<f.name, f.subs[k]>>
FieldPaths(fields) == UNION {{Path(f, k) : k \in 0..Len(f.subs)} : f \in Range(fields)}

\* DuckDB has the fields of a row, and maybe more.
Holds(thing, fields) ==
  \A f \in Range(fields) :
    \E c \in Range(thing.fields) : c.name = f.name /\ c.type = f.type /\ c.subs = f.subs

\* Fields of different names, with subfields of different names.
Distinct(fields) == \A i, j \in DOMAIN fields : fields[i].name = fields[j].name => i = j
Sound(fields)    == Distinct(fields) /\ \A f \in Range(fields) : IsInjective(f.subs)

KindOf(type) == IF type = "VIEW" THEN "view" ELSE "table"

\* DESCRIBE knows no modes, and duckTypeToBq makes none up.
Described(thing) == [i \in DOMAIN thing.fields |-> [thing.fields[i] EXCEPT !.mode = "NULLABLE"]]

-----------------------------------------------------------------------------
(***************************************************************************)
(* The requests' first statements.                                         *)
(***************************************************************************)
\* list is given any id of the kind it lists.
Touches(b) ==
  CASE b.kind = "list"       -> {}
    [] b.kind = "dropSchema" -> {b.name} \cup Within(b.name)
    [] OTHER                 -> {b.name}

\* Creators that leave alone what is there.
Careful(b) == b.kind \in Creators /\ b.mode # "orReplace"

\* The server starts with tables that are as it leaves them.
ASSUME StartAssumption ==
  \A t \in Tables :
    IF InitRow[t] = NoRow THEN InitDuck[t].kind = "none"
    ELSE /\ InitDuck[t].kind = KindOf(InitRow[t].type)
         /\ Sound(InitRow[t].fields) /\ Holds(InitDuck[t], InitRow[t].fields)
         /\ InitRow[t].type = "MATERIALIZED_VIEW" => InitDuck[t].copies = 1

Init ==
  /\ row = InitRow
  /\ columns = [t \in Tables |-> IF InitRow[t] = NoRow THEN {} ELSE Range(InitRow[t].fields)]
  /\ paths = [t \in Tables |-> IF InitRow[t] = NoRow THEN {}
                               ELSE FieldPaths(InitRow[t].fields)]
  /\ schemas = {d \in Datasets : InitRow[d] # NoRow}
  /\ duck = InitDuck
  /\ \E mix \in Mixes :
       req = [r \in Requests |-> [pc |-> "start", body |-> mix[r], held |-> NoRow, was |-> NoRow,
                                  fields |-> <<>>, at |-> 0, sub |-> 0, seen |-> {}, early |-> {},
                                  dirty |-> FALSE, outcome |-> "none"]]
  /\ mixed = {}
  /\ crashes = 0

First(b) ==
  IF b.kind \in Deletes THEN "forget"
  ELSE IF b.kind \in TableCreators \cup RoutineCreators \cup {"dropView", "dropMv"} THEN "dataset"
  ELSE IF b.kind = "list" THEN (IF b.name \in Datasets THEN "page" ELSE "dataset")
  ELSE "read"

Start(r) ==
  LET others == {s \in Requests : Active(s) /\ ~(Careful(B(r)) /\ Careful(B(s)))}
  IN  /\ Pc(r) = "start" /\ (B(r).match => req[r].held # NoRow)
      /\ To(r, First(B(r)))
      /\ mixed' = mixed \cup UNION {Touches(B(r)) \cap Touches(B(s)) : s \in others}
      /\ UNCHANGED <<metaVars, duckVars, crashes>>

\* The GET of a client that will send If-Match, a request before the request.
Get(r) ==
  /\ Pc(r) = "start" /\ B(r).match /\ req[r].held = NoRow
  /\ IF RowOf(r) = NoRow THEN End(r, "error") ELSE req' = [req EXCEPT ![r].held = RowOf(r)]
  /\ UNCHANGED <<metaVars, duckVars>> /\ Frame

AfterDataset(b) ==
  IF b.kind = "list" THEN "page"
  ELSE IF b.kind \in {"insertTable", "insertRoutine", "createProcedure"} THEN "read"
  ELSE "ensure"

\* getDataset of the parent dataset.
ParentDataset(r) ==
  /\ Pc(r) = "dataset"
  /\ IF row[DatasetOf(NameOf(r))] = NoRow THEN End(r, "error") ELSE To(r, AfterDataset(B(r)))
  /\ UNCHANGED <<metaVars, duckVars>> /\ Frame

\* CREATE SCHEMA IF NOT EXISTS
EnsureDatasetSchema(r) ==
  /\ Pc(r) = "ensure"
  /\ schemas' = schemas \cup {DatasetOf(NameOf(r))}
  /\ IF B(r).kind \in DatasetCreators THEN DidEnd(r)
     ELSE To(r, IF B(r).kind \in {"createTable", "createMv", "dropMv"} THEN "read" ELSE "duck")
  /\ UNCHANGED <<metaVars, duck>> /\ Frame

-----------------------------------------------------------------------------
(***************************************************************************)
(* What the handlers read of the resource, and refuse.                     *)
(***************************************************************************)
\* IF NOT EXISTS and OR REPLACE, of the statements that look for them.
LeavesIt(b)   == b.mode = "ifExists" /\ b.kind \in {"createTable", "createSchema", "createProcedure"}
ReplacesIt(b) == b.mode = "orReplace" /\ b.kind \in {"createTable", "createProcedure"}

AfterNew(b) ==
  CASE b.kind = "insertTable" -> "ensure"
    [] b.kind \in {"createTable", "createMv"} -> "duck"
    [] OTHER -> "upsert"

ReadNew(r) ==
  /\ Pc(r) = "read" /\ B(r).kind \in Creators
  /\ IF RowOf(r) = NoRow \/ ReplacesIt(B(r)) THEN To(r, AfterNew(B(r)))
     ELSE End(r, IF LeavesIt(B(r)) THEN "ok" ELSE "error")
  /\ UNCHANGED <<metaVars, duckVars>> /\ Frame

\* IF EXISTS of a DROP; DROP MATERIALIZED VIEW does not look for it.
ReadMissing(r) ==
  /\ Pc(r) = "read" /\ B(r).kind \notin Creators
  /\ RowOf(r) = NoRow
  /\ End(r, IF B(r).mode = "ifExists" /\ B(r).kind \in Drops \ {"dropMv"} THEN "ok" ELSE "error")
  /\ UNCHANGED <<metaVars, duckVars>> /\ Frame

\* Not a materialized view, or one whose query a PATCH has dropped; a schema
\* that takes something away.
Refuses(b, old) ==
  \/ b.kind \in {"dropMv", "refresh"} /\ old.type # "MATERIALIZED_VIEW"
  \/ b.kind = "refresh" /\ old.query = NoName
  \/ b.kind = "patchTable" /\ b.fields # <<>> /\ ~Extends(old.fields, b.fields)

AfterOld(b) ==
  CASE b.kind = "patchTable"    -> "alter"
    [] b.kind \in Patches \ {"patchTable"} -> "upsert"
    [] b.kind = "refresh"       -> "clear"
    [] b.kind = "dropProcedure" -> "forget"
    [] OTHER                    -> "duck"

ReadOld(r) ==
  /\ Pc(r) = "read" /\ B(r).kind \notin Creators
  /\ RowOf(r) # NoRow
  /\ IF Refuses(B(r), RowOf(r)) THEN End(r, "error")
     ELSE req' = [req EXCEPT ![r].pc = AfterOld(B(r)), ![r].was = RowOf(r)]
  /\ UNCHANGED <<metaVars, duckVars>> /\ Frame

-----------------------------------------------------------------------------
(***************************************************************************)
(* Statements that DuckDB executes on the data.                            *)
(***************************************************************************)
Has(n)  == duck[n].kind # "none"
Make(n, thing) == duck' = [duck EXCEPT ![n] = thing]
Refused(r) == End(r, "error") /\ UNCHANGED duck

\* A name is taken, whatever has it.
Free(n) == Home[n] \in schemas /\ ~Has(n)

CreateTable(r) ==
  LET n == NameOf(r)
  IN  /\ Pc(r) = "duck" /\ B(r).kind = "insertTable"
      /\ IF Free(n)
         THEN /\ Make(n, [Nothing EXCEPT !.kind = "table", !.fields = B(r).fields, !.copies = 1])
              /\ Did(r, "upsert")
         ELSE Refused(r)
      /\ UNCHANGED <<metaVars, schemas>> /\ Frame

\* CREATE [OR REPLACE] TABLE .. AS SELECT * FROM source
CreateTableAs(r) ==
  LET n == NameOf(r)
      s == B(r).source
      mayReplace == B(r).kind = "createTable" /\ B(r).mode = "orReplace" /\ duck[n].kind = "table"
  IN  /\ Pc(r) = "duck" /\ B(r).kind \in {"createTable", "createMv"}
      /\ IF Has(s) /\ (Free(n) \/ mayReplace)
         THEN /\ Make(n, [Nothing EXCEPT !.kind = "table", !.fields = duck[s].fields, !.copies = 1])
              /\ Did(r, "describe")
         ELSE Refused(r)
      /\ UNCHANGED <<metaVars, schemas>> /\ Frame

CreateView(r) ==
  LET n == NameOf(r)
      s == B(r).source
  IN  /\ Pc(r) = "duck" /\ B(r).kind = "createView"
      /\ IF Has(s) /\ (Free(n) \/ (B(r).mode = "orReplace" /\ duck[n].kind = "view"))
         THEN /\ Make(n, [Nothing EXCEPT !.kind = "view", !.fields = duck[s].fields, !.source = s])
              /\ Did(r, "describe")
         ELSE Refused(r)
      /\ UNCHANGED <<metaVars, schemas>> /\ Frame

\* DESCRIBE, which binds a view's query again.
Describe(r) ==
  LET thing == duck[NameOf(r)]
  IN  /\ Pc(r) = "describe"
      /\ IF thing.kind = "none" \/ (thing.kind = "view" /\ ~Has(thing.source)) THEN End(r, "error")
         ELSE req' = [req EXCEPT ![r].pc = "upsert", ![r].fields = Described(thing)]
      /\ UNCHANGED <<metaVars, duckVars>> /\ Frame

\* CREATE [OR REPLACE] MACRO [IF NOT EXISTS]
CreateMacro(r) ==
  LET n == NameOf(r)
      macro == [Nothing EXCEPT !.kind = "macro", !.text = B(r).text]
  IN  /\ Pc(r) = "duck" /\ B(r).kind = "createFunction"
      /\ \/ (Free(n) \/ (Has(n) /\ B(r).mode = "orReplace")) /\ Make(n, macro) /\ Did(r, "upsert")
         \/ Has(n) /\ B(r).mode = "ifExists" /\ To(r, "upsert") /\ UNCHANGED duck
         \/ ~Free(n) /\ B(r).mode \notin (IF Has(n) THEN {"orReplace", "ifExists"} ELSE {}) /\ Refused(r)
      /\ UNCHANGED <<metaVars, schemas>> /\ Frame

\* DROP TABLE, VIEW or MACRO; another kind of thing by that name is an error.
DropThing(r) ==
  LET n    == NameOf(r)
      kind == CASE B(r).kind \in {"dropTable", "dropMv"} -> "table"
                [] B(r).kind = "dropView"                -> "view"
                [] B(r).kind = "dropFunction"            -> "macro"
      ifExists == B(r).kind \in {"dropTable", "dropFunction"} \/ B(r).mode = "ifExists"
  IN  /\ Pc(r) = "duck" /\ B(r).kind \in Drops \ {"dropSchema", "dropProcedure"}
      /\ IF duck[n].kind = kind THEN Make(n, Nothing) /\ Did(r, "forget")
         ELSE IF ~Has(n) /\ ifExists /\ B(r).kind # "dropMv" THEN To(r, "forget") /\ UNCHANGED duck
         ELSE Refused(r)
      /\ UNCHANGED <<metaVars, schemas>> /\ Frame

\* Variant: the rows of _bq.tables are left.
AfterDropSchemaShort(b) == "forget"

AfterDropSchema(b) == IF b.mode = "cascade" THEN "forgetTables" ELSE "forget"

DropSchema(r) ==
  LET d     == NameOf(r)
      inside == {n \in DOMAIN duck : Home[n] = d}
  IN  /\ Pc(r) = "duck" /\ B(r).kind = "dropSchema"
      /\ IF B(r).mode # "cascade" /\ \E n \in inside : Has(n)
         THEN End(r, "error") /\ UNCHANGED duckVars
         ELSE /\ schemas' = schemas \ {d}
              /\ duck' = [n \in DOMAIN duck |-> IF n \in inside THEN Nothing ELSE duck[n]]
              /\ Did(r, AfterDropSchema(B(r)))
      /\ UNCHANGED metaVars /\ Frame

\* CASCADE: DELETE FROM _bq.tables of the dataset, and of nothing else.
ForgetTables(r) ==
  /\ Pc(r) = "forgetTables"
  /\ row' = [n \in Names |-> IF n \in Tables \cap Within(NameOf(r)) THEN NoRow ELSE row[n]]
  /\ Did(r, "forget")
  /\ UNCHANGED <<columns, paths, duckVars>> /\ Frame

\* The fields a PATCH adds that it has not added yet.
ToAdd(r) == {i \in Added(req[r].was.fields, B(r).fields) : i > req[r].at}

\* ALTER TABLE .. ADD COLUMN, which takes no constraint, hence no REQUIRED field.
AddColumn(r) ==
  LET n == NameOf(r)
  IN  /\ Pc(r) = "alter"
      /\ \E i \in ToAdd(r) :
           LET f == B(r).fields[i]
           IN  /\ \A j \in ToAdd(r) : i <= j
               /\ IF /\ duck[n].kind = "table" /\ f.mode = "NULLABLE"
                     /\ f.name \notin FieldNames(duck[n].fields)
                  THEN /\ duck' = [duck EXCEPT ![n].fields = Append(@, f)]
                       /\ req' = [req EXCEPT ![r].at = i]
                  ELSE Refused(r)
      /\ UNCHANGED <<metaVars, schemas>> /\ Frame

Altered(r) == Pc(r) = "alter" /\ ToAdd(r) = {}

\* A new partitioning is refused after the columns have been added.
RefuseRepartition(r) ==
  /\ Altered(r) /\ B(r).mode = "repartition"
  /\ End(r, "error")
  /\ UNCHANGED <<metaVars, duckVars>> /\ Frame

\* Variant of Clear: the rows are kept.
ClearNot(r) == /\ Pc(r) = "clear" /\ Did(r, "fill")
               /\ UNCHANGED <<metaVars, duckVars>> /\ Frame

\* A refresh is two statements.
Clear(r) ==
  LET n == NameOf(r)
  IN  /\ Pc(r) = "clear"
      /\ IF duck[n].kind = "table" THEN duck' = [duck EXCEPT ![n].copies = 0] /\ Did(r, "fill")
         ELSE Refused(r)
      /\ UNCHANGED <<metaVars, schemas>> /\ Frame

Fill(r) ==
  LET n == NameOf(r)
      s == req[r].was.query
  IN  /\ Pc(r) = "fill"
      /\ IF duck[n].kind = "table" /\ Has(s) /\ Len(duck[s].fields) = Len(duck[n].fields)
         THEN duck' = [duck EXCEPT ![n].copies = @ + 1] /\ DidEnd(r)
         ELSE Refused(r)
      /\ UNCHANGED <<metaVars, schemas>> /\ Frame

-----------------------------------------------------------------------------
(***************************************************************************)
(* upsertTable, upsertDataset, upsertRoutine, upsertModel.                 *)
(***************************************************************************)
Made(type, fields, text, query) ==
  [type |-> type, fields |-> fields, text |-> text, query |-> query]

\* The row a creator writes.
Fresh(r) ==
  LET b == B(r)
  IN  CASE b.kind = "insertTable"     -> Made("TABLE", b.fields, b.text, NoName)
        [] b.kind = "createTable"     -> Made("TABLE", req[r].fields, NoText, NoName)
        [] b.kind = "createView"      -> Made("VIEW", req[r].fields, NoText, b.source)
        [] b.kind = "createMv"        -> Made("MATERIALIZED_VIEW", req[r].fields, NoText, b.source)
        [] b.kind \in DatasetCreators -> Made("DATASET", <<>>, b.text, NoName)
        [] b.kind = "createProcedure" -> Made("PROCEDURE", <<>>, b.text, NoName)
        [] OTHER                      -> Made("SCALAR_FUNCTION", <<>>, b.text, NoName)

\* The row a PATCH writes: what it gives, else what was read.  A table's merged
\* row has no view query.
Merged(r) ==
  LET b   == B(r)
      was == req[r].was
  IN  Made(was.type,
           IF b.kind = "patchTable" /\ b.fields # <<>> THEN b.fields ELSE was.fields,
           IF b.text # NoText THEN b.text ELSE was.text,
           IF b.kind = "patchTable" THEN NoName ELSE was.query)

Input(r) == IF B(r).kind \in Patches THEN Merged(r) ELSE Fresh(r)

\* Variant: If-Match is not looked at.
CheckIfMatchNot(r, existing) == TRUE

\* checkIfMatch, and a missing resource under If-Match.  Routines have neither.
CheckIfMatch(r, existing) ==
  (B(r).match /\ NameOf(r) \notin Routines) => existing = req[r].held

\* The upsert reads the row a second time.
Upsert(r) ==
  /\ \/ Pc(r) = "upsert"
     \/ Altered(r) /\ B(r).mode # "repartition"
  /\ IF CheckIfMatch(r, RowOf(r)) THEN To(r, "write") ELSE End(r, "error")
  /\ UNCHANGED <<metaVars, duckVars>> /\ Frame

\* INSERT .. ON CONFLICT DO UPDATE
Write(r) == Pc(r) = "write" /\ row' = [row EXCEPT ![NameOf(r)] = Input(r)]

UpsertTable(r) ==
  /\ NameOf(r) \in Tables /\ Write(r)
  /\ Did(r, "clearColumns")
  /\ UNCHANGED <<columns, paths, duckVars>> /\ Frame

UpsertDataset(r) ==
  /\ NameOf(r) \in Datasets /\ Write(r)
  /\ IF B(r).kind \in Patches THEN DidEnd(r) ELSE Did(r, "ensure")
  /\ UNCHANGED <<columns, paths, duckVars>> /\ Frame

UpsertRoutine(r) ==
  /\ NameOf(r) \in Routines /\ Write(r)
  /\ DidEnd(r)
  /\ UNCHANGED <<columns, paths, duckVars>> /\ Frame

UpsertModel(r) ==
  /\ NameOf(r) \in Models /\ Write(r)
  /\ DidEnd(r)
  /\ UNCHANGED <<columns, paths, duckVars>> /\ Frame

-----------------------------------------------------------------------------
(***************************************************************************)
(* refreshTableInfoProjections: one statement for each column and path.    *)
(***************************************************************************)
ClearColumnsNot(r) == /\ Pc(r) = "clearColumns" /\ To(r, "clearPaths")
                      /\ UNCHANGED <<metaVars, duckVars>> /\ Frame

ClearColumns(r) ==
  /\ Pc(r) = "clearColumns"
  /\ columns' = [columns EXCEPT ![NameOf(r)] = {}]
  /\ To(r, "clearPaths")
  /\ UNCHANGED <<row, paths, duckVars>> /\ Frame

ClearPaths(r) ==
  /\ Pc(r) = "clearPaths"
  /\ paths' = [paths EXCEPT ![NameOf(r)] = {}]
  /\ IF Input(r).fields = <<>> THEN DidEnd(r)
     ELSE req' = [req EXCEPT ![r].pc = "column", ![r].at = 1]
  /\ UNCHANGED <<row, columns, duckVars>> /\ Frame

\* Variant: _bq.table_columns without its primary key.
HasColumnNever(t, f) == FALSE

HasColumn(t, f) == \E c \in columns[t] : c.name = f.name

InsertColumn(r) ==
  LET t == NameOf(r)
      i == req[r].at
      f == Input(r).fields[i]
  IN  /\ Pc(r) = "column"
      /\ IF HasColumn(t, f) THEN End(r, "error") /\ UNCHANGED columns
         ELSE /\ columns' = [columns EXCEPT ![t] = @ \cup {f}]
              /\ req' = IF i < Len(Input(r).fields) THEN [req EXCEPT ![r].at = i + 1]
                        ELSE [req EXCEPT ![r].pc = "path", ![r].at = 1, ![r].sub = 0]
      /\ UNCHANGED <<row, paths, duckVars>> /\ Frame

InsertPath(r) ==
  LET t == NameOf(r)
      i == req[r].at
      k == req[r].sub
      f == Input(r).fields[i]
  IN  /\ Pc(r) = "path"
      /\ IF Path(f, k) \in paths[t] THEN End(r, "error") /\ UNCHANGED paths
         ELSE /\ paths' = [paths EXCEPT ![t] = @ \cup {Path(f, k)}]
              /\ IF k < Len(f.subs) THEN req' = [req EXCEPT ![r].sub = k + 1]
                 ELSE IF i < Len(Input(r).fields)
                      THEN req' = [req EXCEPT ![r].at = i + 1, ![r].sub = 0]
                      ELSE DidEnd(r)
      /\ UNCHANGED <<row, columns, duckVars>> /\ Frame

-----------------------------------------------------------------------------
(***************************************************************************)
(* deleteTable, deleteDataset, deleteRoutine, deleteModel.                 *)
(***************************************************************************)
\* DELETE answers 404 for what is not there; a DROP does not look.
Forget(r) ==
  /\ Pc(r) = "forget"
  /\ IF RowOf(r) = NoRow THEN End(r, IF B(r).kind \in Deletes THEN "error" ELSE "ok")
     ELSE IF CheckIfMatch(r, RowOf(r)) THEN To(r, "remove")
     ELSE End(r, "error")
  /\ UNCHANGED <<metaVars, duckVars>> /\ Frame

RemoveRow(r) ==
  /\ Pc(r) = "remove"
  /\ row' = [row EXCEPT ![NameOf(r)] = NoRow]
  /\ IF NameOf(r) \in Tables THEN Did(r, "removeColumns") ELSE DidEnd(r)
  /\ UNCHANGED <<columns, paths, duckVars>> /\ Frame

RemoveColumns(r) ==
  /\ Pc(r) = "removeColumns"
  /\ columns' = [columns EXCEPT ![NameOf(r)] = {}]
  /\ To(r, "removePaths")
  /\ UNCHANGED <<row, paths, duckVars>> /\ Frame

\* Variant: DELETE forgets the table and keeps its data.
KeepsData(b) == FALSE
DropsData(b) == b.kind = "deleteTable"

RemovePaths(r) ==
  /\ Pc(r) = "removePaths"
  /\ paths' = [paths EXCEPT ![NameOf(r)] = {}]
  /\ IF DropsData(B(r)) THEN To(r, "drop") ELSE DidEnd(r)
  /\ UNCHANGED <<row, columns, duckVars>> /\ Frame

\* DROP TABLE IF EXISTS, which a view of that name refuses.
DropData(r) ==
  LET n == NameOf(r)
  IN  /\ Pc(r) = "drop"
      /\ IF duck[n].kind = "view" THEN Refused(r) ELSE Make(n, Nothing) /\ DidEnd(r)
      /\ UNCHANGED <<metaVars, schemas>> /\ Frame

-----------------------------------------------------------------------------
(***************************************************************************)
(* listTables, listDatasets, listRoutines, listModels: a client that pages *)
(* to the end.  The page token is an offset.                               *)
(***************************************************************************)
TablesOf(d)   == {t \in Tables \cap Within(d) : row[t] # NoRow}
RoutinesOf(d) == {t \in Routines \cap Within(d) : row[t] # NoRow}
ModelsOf(d)   == {t \in Models \cap Within(d) : row[t] # NoRow}
DatasetsOf    == {d \in Datasets : row[d] # NoRow}

Listed(n) ==
  CASE n \in Datasets -> DatasetsOf
    [] n \in Tables   -> TablesOf(Home[n])
    [] n \in Routines -> RoutinesOf(Home[n])
    [] n \in Models   -> ModelsOf(Home[n])

Rank(n, S) == Cardinality({m \in S : m < n})

\* Variant: the row that was read to see whether there are more is counted.
NextOffsetPast(offset) == offset + PageSize + 1

NextOffset(offset) == offset + PageSize

ListPage(r) ==
  LET S      == Listed(NameOf(r))
      offset == req[r].at
      page   == {n \in S : Rank(n, S) \in offset .. offset + PageSize - 1}
      more   == Cardinality(S) > offset + PageSize
  IN  /\ Pc(r) = "page"
      /\ req' = [req EXCEPT ![r].seen = @ \cup page,
                            ![r].early = IF offset = 0 THEN S ELSE @,
                            ![r].at = IF more THEN NextOffset(offset) ELSE @,
                            ![r].pc = IF more THEN First(B(r)) ELSE "ended",
                            ![r].outcome = IF more THEN "none" ELSE "ok"]
      /\ UNCHANGED <<metaVars, duckVars>> /\ Frame

-----------------------------------------------------------------------------
Crash ==
  /\ crashes < MaxCrashes
  /\ crashes' = crashes + 1
  /\ req' = [r \in Requests |->
               IF Active(r) THEN [req[r] EXCEPT !.pc = "ended", !.outcome = "lost"] ELSE req[r]]
  /\ UNCHANGED <<metaVars, duckVars, mixed>>

Step(r) ==
  \/ Start(r) \/ Get(r) \/ ParentDataset(r) \/ EnsureDatasetSchema(r)
  \/ ReadNew(r) \/ ReadMissing(r) \/ ReadOld(r)
  \/ CreateTable(r) \/ CreateTableAs(r) \/ CreateView(r) \/ Describe(r) \/ CreateMacro(r)
  \/ DropThing(r) \/ DropSchema(r) \/ ForgetTables(r)
  \/ AddColumn(r) \/ RefuseRepartition(r) \/ Clear(r) \/ Fill(r)
  \/ Upsert(r) \/ UpsertTable(r) \/ UpsertDataset(r) \/ UpsertRoutine(r) \/ UpsertModel(r)
  \/ ClearColumns(r) \/ ClearPaths(r) \/ InsertColumn(r) \/ InsertPath(r)
  \/ Forget(r) \/ RemoveRow(r) \/ RemoveColumns(r) \/ RemovePaths(r) \/ DropData(r)
  \/ ListPage(r)

Next == Crash \/ \E r \in Requests : Step(r)

Spec == Init /\ [][Next]_vars

-----------------------------------------------------------------------------
(***************************************************************************)
(* Properties.                                                             *)
(***************************************************************************)
\* Ids at which nobody is at work, two requests never were at work together,
\* and no request stopped half way: neither a crash nor an error came after it
\* had changed something.  A PATCH may stop while it adds columns, and has no
\* excuse for an error once it writes, but for a schema with a name twice.
Quiet(n)   == \A r \in Requests : Active(r) => n \notin Touches(B(r))
Stopped(r) == /\ req[r].dirty
              /\ \/ req[r].outcome = "lost"
                 \/ req[r].outcome = "error" /\ ~(B(r).kind = "patchTable" /\ Sound(B(r).fields))
Settled(n) == /\ Quiet(n) /\ n \notin mixed
              /\ \A r \in Requests : Stopped(r) => n \notin Touches(B(r))

\* Every variable has its type, and a table's columns have different names,
\* which is the primary key of _bq.table_columns.
TypeOK ==
  /\ row \in [Names -> Row \cup {NoRow}]
  /\ columns \in [Tables -> SUBSET Field]
  /\ \A t \in Tables : \A c, d \in columns[t] : c.name = d.name => c = d
  /\ paths \in [Tables -> SUBSET Seq(STRING)]
  /\ schemas \subseteq Datasets
  /\ duck \in [Tables \cup Routines -> Thing]
  /\ req \in [Requests -> Locals]
  /\ mixed \subseteq Names
  /\ crashes \in 0..MaxCrashes

\* What the catalog describes is there: a dataset has its DuckDB schema, a table
\* its DuckDB table or view with the fields of the row among its columns, for
\* all that creators raced for the name and PATCHes failed.
DescribedIsThere ==
  /\ \A d \in Datasets : Settled(d) /\ row[d] # NoRow => d \in schemas
  /\ \A t \in Tables : Settled(t) /\ row[t] # NoRow =>
       duck[t].kind = KindOf(row[t].type) /\ Holds(duck[t], row[t].fields)

\* What DuckDB has is described: a DELETE or DROP that was answered leaves no
\* table behind that no request can find.
NothingLeftBehind == \A t \in Tables : Settled(t) /\ Has(t) => row[t] # NoRow

\* INFORMATION_SCHEMA.COLUMNS and COLUMN_FIELD_PATHS show the schema of the
\* table's row, whichever requests wrote it.
ProjectionsFollow ==
  \A t \in Tables : Settled(t) /\ row[t] # NoRow =>
    columns[t] = Range(row[t].fields) /\ paths[t] = FieldPaths(row[t].fields)

\* A materialized view holds the rows of its query once: no refresh leaves it
\* empty, none doubles it.
MvHoldsItsRows ==
  \A t \in Tables : Settled(t) /\ row[t] # NoRow /\ row[t].type = "MATERIALIZED_VIEW" =>
    duck[t].copies = 1

\* A PATCH or DELETE with If-Match that no other request overlaps overwrites
\* the row its client has read.
NoLostUpdate ==
  [][\A r \in Requests : /\ Pc(r) \in {"write", "remove"} /\ Pc(r)' # Pc(r)
                         /\ req'[r].outcome # "lost"
                         /\ B(r).match /\ NameOf(r) \notin mixed \cup Routines
                         => RowOf(r) = req[r].held]_vars

\* A client that lists to the end misses nothing that was there when it began,
\* unless something of that kind was removed meanwhile.
ListMissesNone ==
  \A r \in Requests :
    B(r).kind = "list" /\ req[r].outcome = "ok" /\ ~ req[r].early \subseteq req[r].seen =>
      \E s \in Requests : B(s).kind \in Deletes \cup Drops /\ Pc(s) # "start"
=============================================================================
