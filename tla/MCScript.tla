------------------------------- MODULE MCScript -------------------------------
(***************************************************************************)
(* Script on texts: nested programs with the meaning of ScriptMeaning,     *)
(* DDL in all its forms, single statements with what they should give,     *)
(* and transactions of two clients on the one connection.                  *)
(***************************************************************************)
EXTENDS Script, ScriptSyntax, ScriptMeaning

CONSTANTS r1, r2

MCRequests == {r1, r2}
MCMaxInt   == 6
MCSource   == <<1, 2>>

MCSpelling == [x |-> "X", y |-> "Y", z |-> "Z", v |-> "V", w |-> "W", a |-> "A", b |-> "B",
               r |-> "R", q |-> "Q", library |-> "LIBRARY", d |-> "D", p |-> "P", t |-> "T", u |-> "U", f |-> "F",
               sql |-> "SQL", js |-> "JS", js2 |-> "JS2"]

MCTicked == ("|d.t|" :> <<"d", "t">>) @@ ("|d.u|" :> <<"d", "u">>) @@ ("|p.d.t|" :> <<"p", "d", "t">>)
            @@ ("|d|" :> <<"d">>) @@ ("|t|" :> <<"t">>) @@ ("|p.d|" :> <<"p", "d">>)
            @@ ("|d.e|" :> <<"d", "e">>) @@ ("|d.f|" :> <<"d", "f">>) @@ ("|p.d.f|" :> <<"p", "d", "f">>)

MCQuoted == ("'body'" :> <<"a", "+", "1">>)
            @@ ("'url'" :> <<"url">>)
            @@ ("'select both'" :> <<"SELECT", "@a", "+", "?", "AS", "w">>)
            @@ ("'select two'" :> <<"SELECT", "1", "AS", "w", ",", "2", "AS", "z">>)
            @@ ("'insert'" :> <<"INSERT", "INTO", "|d.t|", "VALUES", "(", "@a", ")">>)
            @@ ("'begin'" :> <<"BEGIN", "TRANSACTION">>)

MCTables == (<<"p", "d", "t">> :> <<>>) @@ (<<"p", "d", "u">> :> MCSource) @@ (<<"p", "d", "e">> :> <<>>)

\* d.f(a INT64): the last SELECT surfaces, RETURN ends the procedure only.
\* d.b(): leaves the loop of its caller.  d.g(a w): an argument of no type.
MCProcedures ==
  (<<"p", "d", "f">> :>
     [args |-> <<[name |-> "a", type |-> <<"INT64">>, mode |-> "IN"]>>,
      body |-> <<"BEGIN", "DECLARE", "x", "INT64", "DEFAULT", "3", ";", "SELECT", "a", "+", "x", "AS", "w", ";",
                 "IF", "a", "<", "2", "THEN", "RETURN", ";", "END", "IF", ";", "SELECT", "a", ";", "END">>])
  @@ (<<"p", "d", "b">> :> [args |-> <<>>, body |-> <<"BEGIN", "BREAK", ";", "END">>])
  @@ (<<"p", "d", "g">> :> [args |-> <<[name |-> "a", type |-> <<"w">>, mode |-> "IN"]>>, body |-> <<"BEGIN", "END">>])

-----------------------------------------------------------------------------
Silent == [text |-> <<>>, meant |-> Unsaid]
Alone(text, meant) == [r \in MCRequests |-> IF r = r1 THEN [text |-> text, meant |-> meant] ELSE Silent]
Both(a, b) == [r \in MCRequests |-> IF r = r1 THEN a ELSE b]
Free(text) == [text |-> text, meant |-> Unsaid]

Rows(cols, nums) == [cols |-> cols, rows |-> [k \in DOMAIN nums |-> [j \in DOMAIN nums[k] |-> Num(nums[k][j])]]]
Ok(cols, nums) == <<"ok", Rows(cols, nums)>>
Failed == <<"failed", Nothing>>
Declarations == <<"DECLARE", "x", "INT64", "DEFAULT", "0", ";", "--", "DECLARE", "y", "INT64", "DEFAULT", "0", ";">>

\* DECLARE x; DECLARE y; the program; SELECT x, y.
Outcome(env) ==
  CASE env.how = "on"     -> Ok(<<"x", "y">>, <<<<env.x, env.y>>>>)
    [] env.how = "return" -> IF env.shown = <<>> THEN <<"ok", Nothing>> ELSE Ok(<<"x">>, <<env.shown>>)
    [] OTHER              -> Failed

Nested == {Alone(Declarations \o TextOfAll(<<program>>) \o <<"SELECT", "x", ",", "y", ";">>, Outcome(Meaning(<<program>>))) :
             program \in Programs}

-----------------------------------------------------------------------------
\* Statements in a row, and what a script that begins with Declarations gives.
Lines(list) == FlattenSeq([k \in DOMAIN list |-> list[k] \o <<";">>])
Case(list, meant) == Alone(Declarations \o Lines(list), meant)
Shows == <<"SELECT", "x", ",", "y">>
Gets(list, x, y) == Case(Append(list, Shows), Ok(<<"x", "y">>, <<<<x, y>>>>))
Fails_(list) == Case(list, Failed)

\* Statements whose meaning is known.
Specifics ==
  {Gets(<<<<"SET", "(", "x", ",", "y", ")", "=", "(", "x", "+", "1", ",", "x", "+", "2", ")">>,
          <<"SET", "(", "x", ",", "y", ")", "=", "(", "y", ",", "x", ")">>>>, 2, 1),
   Gets(<<<<"SET", "(", "x", ",", "y", ")", "=", "(", "SELECT", "1", "AS", "w", ",", "2", "AS", "z", ")">>>>, 1, 2),
   Gets(<<<<"SET", "y", "=", "CASE", "WHEN", "x", "<", "1", "THEN", "1", "ELSE", "2", "END">>>>, 0, 1),
   Gets(<<<<"DECLARE", "a", ",", "b", "BOOL", "DEFAULT", "x", "<", "1">>,
          <<"IF", "a", "THEN", "SET", "x", "=", "3", ";", "END", "IF">>>>, 3, 0),
   Gets(<<<<"DECLARE", "a", "STRING", "DEFAULT", "2">>, <<"SET", "x", "=", "a">>>>, 2, 0),
   Gets(<<<<"DECLARE", "a", "INT64">>, <<"IF", "a", "<", "1", "THEN", "SET", "x", "=", "1", ";", "END", "IF">>>>, 0, 0),
   Gets(<<<<"EXECUTE", "IMMEDIATE", "'select both'", "INTO", "y", "USING", "x", "+", "1", "AS", "a", ",", "2">>>>, 0, 3),
   Gets(<<<<"EXECUTE", "IMMEDIATE", "'select two'", "INTO", "x", ",", "y">>>>, 1, 2),
   Gets(<<<<"CALL", "d", ".", "f", "(", "x", ")">>>>, 0, 0),
   Case(<<<<"CALL", "d", ".", "f", "(", "x", "+", "1", ")">>>>, Ok(<<"w">>, <<<<4>>>>)),
   Case(<<<<"CALL", "|p.d.f|", "(", "2", ")">>>>, Ok(<<"a">>, <<<<2>>>>)),
   Case(<<<<"EXECUTE", "IMMEDIATE", "'insert'", "USING", "3", "AS", "a">>, <<"SELECT", "v", "FROM", "|d.t|">>>>,
        Ok(<<"v">>, <<<<3>>>>)),
   Case(<<<<"INSERT", "INTO", "|d.t|", "(", "v", ")", "VALUES", "(", "x", "+", "1", ")">>,
          <<"UPDATE", "|d.t|", "SET", "v", "=", "v", "+", "2">>, <<"SELECT", "v", "FROM", "|d.t|">>>>,
        Ok(<<"v">>, <<<<3>>>>)),
   Case(<<<<"DECLARE", "v", "INT64", "DEFAULT", "2">>,
          <<"INSERT", "INTO", "|d.t|", "(", "v", ")", "VALUES", "(", "v", ")">>,
          <<"SELECT", "v", "AS", "w", "FROM", "|d.t|">>>>, Ok(<<"w">>, <<<<2>>>>)),
   Gets(<<<<"WHILE", "x", "<", "1", "DO", "BREAK", ";", "END", "WHILE">>>>, 0, 0),
   Gets(<<<<"REPEAT", "CONTINUE", ";", "UNTIL", "x", "<", "1", "END", "REPEAT">>>>, 0, 0),
   Gets(<<<<"LOOP", "LEAVE", ";", "END", "LOOP">>>>, 0, 0),
   Gets(<<<<"FOR", "r", "IN", "(", "SELECT", "v", "FROM", "|d.u|", ")", "DO", "IF", "x", "<", "1", "THEN", "ITERATE", ";", "END", "IF",
           ";", "END", "FOR">>>>, 0, 0),
   Case(<<Shows, <<"RETURN">>, <<"SELECT", "1", "AS", "w">>>>, Ok(<<"x", "y">>, <<<<0, 0>>>>))}

\* Statements that must fail, and the script with them.
Failing ==
  {Fails_(<<s, Shows>>) : s \in
     {<<"SET", "z", "=", "1">>,
      <<"SET", "(", "x", ",", "y", ")", "=", "(", "1", ")">>,
      <<"SET", "(", "x", ",", "y", ")", "=", "(", "SELECT", "v", ",", "v", "AS", "w", "FROM", "|d.u|", ")">>,
      <<"SET", "(", "x", ",", "y", ")", "=", "(", "SELECT", "1", "AS", "w", ")">>,
      <<"SET", "x", "1">>, <<"SET", "(", "x", ",", "1", ")", "=", "(", "1", ",", "2", ")">>,
      <<"DECLARE", "x", "INT64">>, <<"DECLARE", "a", ",", "a", "INT64">>, <<"DECLARE", "a", "w">>,
      <<"DECLARE", "INT64">>, <<"DECLARE", "a", "BOOL", "DEFAULT", "'url'">>,
      <<"SET", "x", "=", "3", "+", "3", "+", "1">>, <<"SET", "x", "=", "'url'">>,
      <<"SELECT", "w">>, <<"SELECT", "v", "FROM", "|t|">>, <<"SELECT", "v", "FROM", "t">>,
      <<"INSERT", "INTO", "|d.t|", "(", "w", ")", "VALUES", "(", "1", ")">>, <<"INSERT", "INTO", "t">>,
      <<"UPDATE", "|d.u|", "SET", "w", "=", "1">>, <<"UPDATE", "|d.u|", "SET", "v", "=", "w">>, <<"UPDATE", "t">>,
      <<"COMMIT", "TRANSACTION">>, <<"BREAK">>, <<"CONTINUE">>, <<"LEAVE">>,
      <<"CALL", "d", ".", "f", "(", ")">>, <<"CALL", "d", ".", "w", "(", ")">>, <<"CALL", "f", "(", "1", ")">>,
      <<"CALL", "d", ".", "f", "(", "w", ")">>, <<"CALL", "d", ".", "g", "(", "1", ")">>, <<"CALL", "d", ".", "f", "1">>, <<"CALL", "1">>,
      <<"EXECUTE", "IMMEDIATE", "'select both'", "USING", "1">>,
      <<"EXECUTE", "IMMEDIATE", "'select both'", "USING", "1", ",", "2">>,
      <<"EXECUTE", "IMMEDIATE", "'select two'", "INTO", "x">>,
      <<"EXECUTE", "IMMEDIATE", "'select two'", "INTO", "x", ",", "z">>,
      <<"EXECUTE", "IMMEDIATE", "'select both'", "USING", "1", ",">>, <<"EXECUTE", "IMMEDIATE">>,
      <<"EXECUTE", "IMMEDIATE", "NULL">>, <<"EXECUTE", "IMMEDIATE", "w">>,
      <<"EXECUTE", "IMMEDIATE", "'select two'", "INTO", "1">>, <<"EXECUTE", "IMMEDIATE", "'url'">>,
      <<"IF", "w", "THEN", "SELECT", "1", ";", "END", "IF">>, <<"IF", "x", "<", "1">>,
      <<"IF", "x", "<", "1", "THEN", "SELECT", "1">>, <<"IF", "x", "<", "1", "THEN", "ELSE", "SELECT", "1">>,
      <<"IF", "x", "<", "1", "THEN", "DECLARE", ";", "END", "IF">>,
      <<"LOOP", "BREAK">>, <<"WHILE", "x", "<", "1">>, <<"WHILE", "w", "DO", "END", "WHILE">>,
      <<"REPEAT", "BREAK", ";", "END", "REPEAT">>, <<"REPEAT", "UNTIL", "w", "END", "REPEAT">>,
      <<"FOR", "r", "IN", "x", "DO">>, <<"FOR", "r", "IN", "(", "SELECT", "w", ")", "DO", "END", "FOR">>,
      <<"FOR", "x", "IN", "(", "SELECT", "v", "FROM", "|d.u|", ")", "DO", "END", "FOR">>,
      <<"FOR", "r", "IN", "(", "SELECT", "v", "FROM", "|d.u|", ")", "DO", "SELECT", "r", ".", "w", ";", "END", "FOR">>}}

\* Texts the interpreter reads in its own way: an IF( or a BEGIN TRANSACTION
\* that takes the rest of the text with it, an END that is of a CASE, a row
\* name used twice, a BREAK in a procedure, an alias that is a variable.
Odd ==
  {Case(list, Unsaid) : list \in
     {<<<<"SET", "y", "=", "IF", "(", "x", "<", "1", ",", "1", ",", "2", ")">>, Shows>>,
      <<<<"SET", "y", "=", "IF", "(", "x", "<", "1", ",", "1", ",", "2", ")">>>>,
      <<<<"IF", "x", "<", "1", "THEN", "SET", "y", "=", "CASE", "WHEN", "x", "<", "1", "THEN", "1", "ELSE", "2", "END",
          ";", "END", "IF">>, Shows>>,
      <<<<"BEGIN", "SET", "y", "=", "CASE", "WHEN", "x", "<", "1", "THEN", "1", "ELSE", "2", "END", ";", "END">>, Shows>>,
      <<<<"FOR", "r", "IN", "(", "SELECT", "v", "FROM", "|d.u|", ")", "DO",
          "FOR", "r", "IN", "(", "SELECT", "v", "FROM", "|d.u|", ")", "DO", "SET", "x", "=", "r", ".", "v", ";", "END", "FOR", ";",
          "SET", "y", "=", "r", ".", "v", ";", "END", "FOR">>, Shows>>,
      <<<<"FOR", "r", "IN", "(", "SELECT", "v", "FROM", "|d.e|", ")", "DO", "END", "FOR">>, Shows>>,
      <<<<"LOOP", "CALL", "d", ".", "b", "(", ")", ";", "END", "LOOP">>, Shows>>,
      <<<<"SELECT", "1", "AS", "x">>>>, <<<<"SELECT", "x", ".", "v">>>>, <<<<"VALUES", "(", "x", ")">>>>,
      <<<<"UPDATE", "|d.u|", "SET", "v", "=", "x", "+", "1">>, <<"SELECT", "v", "FROM", "|p.d.u|">>>>}}

-----------------------------------------------------------------------------
\* DDL: what the text says, and what it is about.
Opt(b, words) == IF b THEN words ELSE <<>>
Ddl_(text, target) == Alone(text, <<"ok", target>>)

TableNames == {<<"|p.d.t|">>, <<"|d.t|">>, <<"d", ".", "t">>, <<"p", ".", "d", ".", "t">>, <<"|d|", ".", "|t|">>, <<"p", ".", "|d.t|">>}
TheTable == <<"p", "d", "t">>

Views ==
  {Ddl_(<<"CREATE">> \o Opt(re, <<"OR", "REPLACE">>) \o Opt(mat, <<"MATERIALIZED">>) \o <<"VIEW">>
        \o Opt(ine, <<"IF", "NOT", "EXISTS">>) \o n \o <<"AS", "--", "SELECT", "1", ";">>,
        [kind |-> IF mat THEN "CREATE_MATERIALIZED_VIEW" ELSE "CREATE_VIEW", name |-> TheTable,
         query |-> <<"SELECT", "1">>, orReplace |-> re]) : n \in TableNames, re, mat, ine \in BOOLEAN}
  \cup {Ddl_(<<"DROP">> \o Opt(mat, <<"MATERIALIZED">>) \o <<"VIEW">> \o Opt(ie, <<"IF", "EXISTS">>) \o n,
             [kind |-> IF mat THEN "DROP_MATERIALIZED_VIEW" ELSE "DROP_VIEW", name |-> TheTable]) :
             n \in TableNames, mat, ie \in BOOLEAN}

Tables_ ==
  {Ddl_(<<"CREATE">> \o Opt(re, <<"OR", "REPLACE">>) \o <<"TABLE">> \o Opt(ine, <<"IF", "NOT", "EXISTS">>) \o n
        \o Opt(cols, <<"(", "v", "INT64", ")">>) \o Opt(part, <<"PARTITION", "BY", "f", "(", "v", ")">>)
        \o Opt(clus, <<"CLUSTER", "BY", "v", ",", "w">>) \o Opt(opts, <<"OPTIONS", "(", "a", "=", "1", ")">>)
        \o <<"AS", "SELECT", "1", "AS", "v", ";">>,
        [kind |-> "CREATE_TABLE_AS_SELECT", name |-> TheTable, orReplace |-> re, ifNotExists |-> ine,
         partitionBy |-> Opt(part, <<<<"f", "(", "v", ")">>>>), clusterBy |-> Opt(clus, <<"v", "w">>),
         options |-> Opt(opts, <<<<"a", "=", "1">>>>), query |-> <<"SELECT", "1", "AS", "v">>]) :
        n \in {<<"|d.t|">>, <<"p", ".", "d", ".", "t">>}, re, ine, cols, part, clus, opts \in BOOLEAN}
  \cup {Ddl_(<<"DROP", "TABLE">> \o Opt(ie, <<"IF", "EXISTS">>) \o n,
             [kind |-> "DROP_TABLE", name |-> TheTable, ifExists |-> ie]) : n \in TableNames, ie \in BOOLEAN}

Schemas ==
  {Ddl_(<<verb, "SCHEMA">> \o Opt(guard, IF verb = "DROP" THEN <<"IF", "EXISTS">> ELSE <<"IF", "NOT", "EXISTS">>)
        \o n \o Opt(cascade, <<"CASCADE">>),
        [kind |-> verb \o "_SCHEMA", name |-> <<"p", "d">>, ifExists |-> guard /\ verb = "DROP",
         ifNotExists |-> guard /\ verb = "CREATE", cascade |-> cascade]) :
        n \in {<<"|p.d|">>, <<"d">>, <<"|d|">>, <<"p", ".", "d">>}, verb \in {"CREATE", "DROP"}, guard, cascade \in BOOLEAN}

TheFunction == <<"p", "d", "f">>
Arg(name, type) == [name |-> name, type |-> type, mode |-> "IN"]
Arguments_ == {[text |-> <<>>, args |-> <<>>],
               [text |-> <<"a", "STRUCT", "<", "x", "INT64", ",", "y", "BOOL", ">", ",", "b", "INT64">>,
                args |-> <<Arg("a", <<"STRUCT", "<", "x", "INT64", ",", "y", "BOOL", ">">>), Arg("b", <<"INT64">>)>>]}
Libraries_ == {[text |-> <<>>, urls |-> <<>>],
               [text |-> <<"OPTIONS", "(", "w", "=", "1", ",", "library", "=", "'url'", ")">>, urls |-> <<<<"url">>>>],
               [text |-> <<"OPTIONS", "(", "library", "=", "[", "'url'", ",", "'body'", "]", ")">>,
                urls |-> <<<<"url">>, <<"a", "+", "1">>>>]}

Functions_ ==
  {Ddl_(<<"CREATE">> \o Opt(re, <<"OR", "REPLACE">>) \o Opt(temp, <<"TEMP">>) \o Opt(tvf, <<"TABLE">>) \o <<"FUNCTION">>
        \o Opt(re, <<"IF", "NOT", "EXISTS">>) \o n \o <<"(">> \o a.text \o <<")">>
        \o Opt(typed, <<"RETURNS", "STRUCT", "<", "x", "INT64", ">">>) \o Opt(js, <<"LANGUAGE", "js">>) \o l.text
        \o <<"AS">> \o (IF js THEN <<"'body'">> ELSE <<"(", "a", "+", "1", ")">>),
        [kind |-> IF tvf THEN "CREATE_TABLE_FUNCTION" ELSE "CREATE_FUNCTION", name |-> TheFunction, temp |-> temp,
         orReplace |-> re, ifNotExists |-> re, args |-> a.args,
         returns |-> Opt(typed, <<"STRUCT", "<", "x", "INT64", ">">>), language |-> IF js THEN "JAVASCRIPT" ELSE "SQL",
         libraries |-> l.urls, body |-> <<"a", "+", "1">>]) :
        n \in {<<"|d.f|">>, <<"p", ".", "d", ".", "f">>}, a \in Arguments_, l \in Libraries_,
        re, temp, tvf, typed, js \in BOOLEAN}
  \cup {Ddl_(<<"CREATE", "TEMPORARY", "FUNCTION", "f", "(", "a", "INT64", ")", "AS", "(", "a", ")">>,
             [kind |-> "CREATE_FUNCTION", name |-> <<"p", "", "f">>, temp |-> TRUE, orReplace |-> FALSE,
              ifNotExists |-> FALSE, args |-> <<Arg("a", <<"INT64">>)>>, returns |-> <<>>, language |-> "SQL",
              libraries |-> <<>>, body |-> <<"a">>])}
  \cup {Ddl_(<<"DROP">> \o Opt(tvf, <<"TABLE">>) \o <<"FUNCTION">> \o Opt(ie, <<"IF", "EXISTS">>) \o n,
             [kind |-> IF tvf THEN "DROP_TABLE_FUNCTION" ELSE "DROP_FUNCTION", name |-> TheFunction, ifExists |-> ie]) :
             n \in {<<"|d.f|">>, <<"p", ".", "d", ".", "f">>}, tvf, ie \in BOOLEAN}

\* The statements of a procedure, with all that opens and closes in them.
Body_ == <<"BEGIN", "IF", "a", "<", "1", "THEN", "BEGIN", "SELECT", "1", ";", "END", ";", "END", "IF", ";",
           "WHILE", "a", "<", "1", "DO", "BREAK", ";", "END", "WHILE", ";", "END">>
Procedures_ ==
  {Ddl_(<<"CREATE">> \o Opt(re, <<"OR", "REPLACE">>) \o <<"PROCEDURE">> \o Opt(ine, <<"IF", "NOT", "EXISTS">>)
        \o <<"d", ".", "q", "(">> \o Opt(args, <<"OUT", "a", "INT64", ",", "b", "STRING">>) \o <<")">>
        \o Opt(opts, <<"OPTIONS", "(", "w", "=", "1", ")">>) \o Body_ \o <<";">>,
        [kind |-> "CREATE_PROCEDURE", name |-> <<"p", "d", "q">>, orReplace |-> re, ifNotExists |-> ine,
         args |-> Opt(args, <<[name |-> "a", type |-> <<"INT64">>, mode |-> "OUT"], Arg("b", <<"STRING">>)>>),
         body |-> Body_]) : re, ine, args, opts \in BOOLEAN}

\* DDL that does not parse, and heads that are no DDL.
Refusals ==
  {Alone(text, <<"failed", Refused>>) : text \in
     {<<"CREATE", "VIEW", "t", "AS", "SELECT", "1">>, <<"CREATE", "VIEW", "|d.t|">>, <<"DROP", "TABLE", "t">>, <<"DROP", "SCHEMA", "1">>,
      <<"CREATE", "TABLE", "|d.t|", "CLUSTER", "v", "AS", "SELECT", "1">>,
      <<"CREATE", "TABLE", "|d.t|", "OPTIONS", "AS", "SELECT", "1">>, <<"CREATE", "TABLE", "|d.t|", "(", "v", "AS", "SELECT", "1">>,
      <<"CREATE", "FUNCTION", "f", "(", ")", "AS", "(", "1", ")">>, <<"CREATE", "FUNCTION", "|d.f|", "AS", "(", "1", ")">>,
      <<"CREATE", "FUNCTION", "|d.f|", "(", "1", ")", "AS", "(", "1", ")">>,
      <<"CREATE", "FUNCTION", "|d.f|", "(", ")", "LANGUAGE", "w", "AS", "(", "1", ")">>,
      <<"CREATE", "FUNCTION", "|d.f|", "(", ")", "OPTIONS", "AS", "(", "1", ")">>, <<"CREATE", "FUNCTION", "|d.f|", "(", ")", "AS", "1">>,
      <<"CREATE", "FUNCTION", "|d.f|", "(", ")", "(", "1", ")">>, <<"CREATE", "FUNCTION", "|d.f|", "(", ")", "AS", "(", "1">>,
      <<"CREATE", "PROCEDURE", "f", "(", ")", "BEGIN", "END">>, <<"CREATE", "PROCEDURE", "d", ".", "q", "BEGIN", "END">>,
      <<"CREATE", "PROCEDURE", "d", ".", "q", "(", ")", "SELECT", "1">>, <<"CREATE", "TEMP", "PROCEDURE", "d", ".", "q", "(", ")", "BEGIN", "END">>}}
  \cup {Alone(text, Unsaid) : text \in
     {<<"TRUNCATE", "TABLE", "|d.t|">>, <<"WITH", "a", "AS", "(", "SELECT", "1", ")", "INSERT", "INTO", "|d.t|">>,
      <<"WITH", "a", "AS", "(", "SELECT", "1", ")", "SELECT", "1">>, <<"DROP", "w">>, <<"CREATE", "TABLE", "|d.t|", "(", "v", "INT64", ")">>}}

DdlMixes == Views \cup Tables_ \cup Schemas \cup Functions_ \cup Procedures_ \cup Refusals

-----------------------------------------------------------------------------
\* Two clients: procedures made and dropped while they are called, and
\* transactions, ended and broken off, while the other reads and writes.
InsertOf(n)  == <<"INSERT", "INTO", "|d.t|", "VALUES", "(", n, ")">>
Opens        == <<"START", "TRANSACTION">>
Closed       == <<"COMMIT", "TRANSACTION">>
Breaks       == <<"SET", "z", "=", "1">>
Transactions ==
  {Lines(<<Opens, InsertOf("1"), Closed>>), Lines(<<Opens, InsertOf("1"), Breaks, Closed>>),
   Lines(<<Opens, InsertOf("1"), <<"ROLLBACK", "TRANSACTION">>, InsertOf("2")>>),
   Lines(<<Opens, InsertOf("1"), <<"SELECT", "w">>, Closed>>), Lines(<<Opens, InsertOf("1"), InsertOf("2")>>),
   Lines(<<<<"BEGIN", "TRANSACTION">>, InsertOf("1"), Closed>>),
   Lines(<<<<"BEGIN", "TRANSACTION">>, InsertOf("1"), <<"SELECT", "w">>, Closed>>),
   Lines(<<<<"EXECUTE", "IMMEDIATE", "'begin'">>, InsertOf("1"), Breaks>>),
   Lines(<<<<"DECLARE", "x", "INT64", "DEFAULT", "1">>, InsertOf("x"), Breaks>>)}
Others == Transactions \cup {InsertOf("3"), <<"SELECT", "v", "FROM", "|d.t|">>, <<"UPDATE", "|d.t|", "SET", "v", "=", "v", "+", "1">>,
                             <<"SELECT", "w">>,
                             <<"SELECT", "1", ";">> \o Opens \o <<";">> \o InsertOf("3") \o <<";", "SELECT", "w">>,
                             <<"SELECT", "1", ";">> \o Opens \o <<";">> \o InsertOf("3") \o <<";">> \o Closed}
Concurrent == {Both(Free(a), Free(b)) : a \in Transactions, b \in Others}

MakeQ == <<"CREATE", "PROCEDURE", "d", ".", "q", "(", ")", "BEGIN", "SELECT", "1", "AS", "w", ";", "END">>
Routined ==
  {Both(Free(a), Free(b)) :
     a \in {<<"CALL", "d", ".", "q", "(", ")", ";", "CALL", "d", ".", "f", "(", "2", ")">>, MakeQ,
            <<"DROP", "PROCEDURE", "d", ".", "f">>},
     b \in {MakeQ, <<"CREATE", "PROCEDURE", "IF", "NOT", "EXISTS">> \o SubSeq(MakeQ, 3, Len(MakeQ)),
            <<"CREATE", "OR", "REPLACE">> \o Tail(MakeQ),
            <<"DROP", "PROCEDURE", "d", ".", "f">>, <<"DROP", "PROCEDURE", "IF", "EXISTS", "d", ".", "f">>}}

MCMixes == Nested \cup Specifics \cup Failing \cup Odd \cup DdlMixes \cup Concurrent \cup Routined
=============================================================================
