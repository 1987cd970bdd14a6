------------------------------ MODULE MCCatalog ------------------------------
(***************************************************************************)
(* Instances of Catalog: dataset 1, tables 2 to 4, routine 5 and model 6.  *)
(***************************************************************************)
EXTENDS Catalog, TLC

CONSTANTS r1, r2, r3

T1 == 2
T2 == 3
Source == 4

Col(name)  == [name |-> name, type |-> "INT64", mode |-> "NULLABLE", subs |-> <<>>]
Required(f) == [f EXCEPT !.mode = "REQUIRED"]
Struct     == [name |-> "s", type |-> "STRUCT", mode |-> "NULLABLE", subs |-> <<"x">>]
Retyped    == [Struct EXCEPT !.name = "k"]
Given(fields) == [type |-> "TABLE", fields |-> fields, text |-> NoText, query |-> NoName]

MCHome == [n \in 2..6 |-> 1]
MCRow  == (1 :> [Given(<<>>) EXCEPT !.type = "DATASET"]) @@ (T1 :> NoRow) @@ (T2 :> NoRow)
          @@ (Source :> Given(<<Required(Col("k"))>>)) @@ (5 :> NoRow)
          @@ (6 :> [Given(<<>>) EXCEPT !.type = "MODEL"])
MCDuck == [n \in 2..5 |-> IF n = Source
            THEN [Nothing EXCEPT !.kind = "table", !.fields = <<Required(Col("k"))>>, !.copies = 1]
            ELSE Nothing]

Plain == [kind |-> "insertTable", name |-> T1, source |-> Source, fields |-> <<>>,
          text |-> NoText, mode |-> "plain", match |-> FALSE]
Do(kind, n)    == [Plain EXCEPT !.kind = kind, !.name = n]
As(b, mode)    == [b EXCEPT !.mode = mode]
With(b, f)     == [b EXCEPT !.fields = f]
Saying(b, text) == [b EXCEPT !.text = text]
IfMatch(b)     == [b EXCEPT !.match = TRUE]

Insert == With(Plain, <<Required(Col("k"))>>)
Patch(f) == With(Do("patchTable", T1), f)
Label(text) == Saying(Do("patchTable", T1), text)

Together(A, B1, C) == {(r1 :> a) @@ (r2 :> b) @@ (r3 :> c) : a \in A, b \in B1, c \in C}

\* A table, view or materialized view is made, changed and removed.
Makers   == {Insert, Do("createTable", T1), Do("createView", T1), Do("createMv", T1)}
Changers == {Patch(<<Col("k"), Struct>>), Patch(<<Col("k"), Col("j"), Required(Col("i"))>>),
             Patch(<<Retyped>>), As(Patch(<<Col("k"), Col("j")>>), "repartition"),
             As(Do("createTable", T1), "orReplace"), As(Do("createView", T1), "orReplace"),
             Do("refresh", T1)}
Removers == {Do("deleteTable", T1), Do("dropTable", T1), As(Do("dropView", T1), "ifExists"),
             Do("dropMv", T1)}
TableMixes == Together(Makers, Changers, Removers)

\* Creators race for a name.
RaceMixes == Together({Insert}, {As(Do("createTable", T1), "ifExists"), Do("createView", T1)},
                      {With(Plain, <<Col("j")>>)})

\* Clients with If-Match.
MatchMixes ==
  Together({Insert}, {IfMatch(Label("a"))}, {IfMatch(Label("b")), IfMatch(Do("deleteTable", T1))})
  \cup Together({IfMatch(Saying(Do("patchModel", 6), "a"))}, {Saying(Do("patchModel", 6), "b")},
                {IfMatch(Do("deleteModel", 6))})
  \cup Together({IfMatch(Saying(Do("patchDataset", 1), "a"))}, {Saying(Do("patchDataset", 1), "b")},
                {IfMatch(Do("deleteDataset", 1))})

\* A refresh whose source goes, two refreshes, and a query that a PATCH drops.
RefreshMixes == Together({Do("createMv", T1)}, {Do("refresh", T1)},
                         {Do("dropTable", Source), Do("refresh", T1), Label("a")})

\* A dataset goes, with what is in it, and comes back.
SchemaMixes ==
  Together({Insert}, {Do("dropSchema", 1), As(Do("dropSchema", 1), "cascade"), Do("deleteDataset", 1)},
           {Saying(Do("insertDataset", 1), "a"), As(Do("createSchema", 1), "ifExists")})
  \cup Together({As(Do("dropSchema", 1), "cascade")}, {Do("createSchema", 1)}, {Do("insertDataset", 1)})

\* Functions and procedures.
Function == Saying(Do("createFunction", 5), "a")
RoutineMixes ==
  Together({Function, Saying(Do("insertRoutine", 5), "a")},
           {As(Saying(Function, "b"), "orReplace"), As(Saying(Function, "b"), "ifExists"),
            Saying(Do("createProcedure", 5), "b"),
            As(Saying(Do("createProcedure", 5), "b"), "orReplace"),
            IfMatch(Saying(Do("patchRoutine", 5), "b"))},
           {Do("dropFunction", 5), As(Do("dropProcedure", 5), "ifExists"), Do("deleteRoutine", 5)})

\* Tables are listed while others are made and removed.
ListMixes ==
  Together({Do("list", T1)}, {Insert}, {Do("createView", T2), Do("deleteTable", Source)})
  \cup Together({Do("list", 5)}, {Function}, {Do("list", 6)})
  \cup Together({Do("list", 1)}, {Do("list", T1)}, {Do("deleteDataset", 1)})

AllMixes == TableMixes \cup RaceMixes \cup MatchMixes \cup RefreshMixes \cup SchemaMixes
            \cup RoutineMixes \cup ListMixes
=============================================================================
