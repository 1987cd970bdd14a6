-------------------------------- MODULE Script --------------------------------
(***************************************************************************)
(* Scripts (src/sql/script.ts) and how the query engine runs them          *)
(* (executeScript in src/sql/queryEngine.ts).                              *)
(*                                                                         *)
(* Every client shares one DuckDB connection.  A script runs one statement *)
(* at a time, and between two of them other requests run: so a transaction *)
(* a script has open is everybody's.  An action is what happens between    *)
(* two answers of the database.                                            *)
(***************************************************************************)
EXTENDS ScriptTypes, Ddl

CONSTANTS
  Requests,
  Mixes,       \* what the requests may ask: [Requests -> [text, meant]]
  Tables,      \* the tables at the start: name -> sequence of numbers
  Procedures,  \* the procedures at the start: name -> [args, body]
  MaxInt,      \* the largest INT64
  Nobody, Unsaid,
  Program(_)   \* the parser: the statements of a text, <<Bad>> when it throws

ASSUME NobodyAssumption == Nobody \notin Requests
ASSUME TablesAssumption == \A t \in DOMAIN Tables : Tables[t] \in Seq(Int)

VARIABLES
  asked,     \* the text of each request, and what it should give
  pc,        \* "wait", "run", "rollback", "ok", "failed" or "none"
  stack,     \* the statements each script is in
  scope,     \* its variables and its FOR rows
  result,    \* its last SELECT; of a DDL statement, what it is about
  db,        \* DuckDB
  routines   \* the procedures

vars == <<asked, pc, stack, scope, result, db, routines>>

-----------------------------------------------------------------------------
(***************************************************************************)
(* Values.  A BOOL is 0 or 1.  An expression that DuckDB refuses is Err.   *)
(***************************************************************************)

Num(n)   == [num |-> n]
Text(ts) == [text |-> ts]
Null     == [null |-> TRUE]
Err      == [error |-> TRUE]
IsNum(v) == "num" \in DOMAIN v

Numbers == [n \in Digits |-> CHOOSE k \in 0..9 : ToString(k) = n]

\* CAST(v AS type)
Cast(v, type) ==
  CASE v \in {Null, Err} \/ type = "" -> v
    [] type = "VARCHAR" /\ IsNum(v) -> Text(<<ToString(v.num)>>)
    [] type = "BOOLEAN" /\ IsNum(v) -> Num(IF v.num = 0 THEN 0 ELSE 1)
    [] type = "BIGINT" /\ ~IsNum(v) ->
         IF Len(v.text) = 1 /\ v.text[1] \in Digits THEN Num(Numbers[v.text[1]]) ELSE Err
    [] type = "BOOLEAN" -> Err
    [] OTHER -> v

Atom(t, values, row) ==
  CASE t \in Digits -> Num(Numbers[t])
    [] t \in DOMAIN Quoted -> Text(Quoted[t])
    [] Upper(t) = "TRUE" -> Num(1)
    [] Upper(t) = "FALSE" -> Num(0)
    [] Upper(t) = "NULL" -> Null
    [] t \in DOMAIN row -> row[t]
    [] \E k \in DOMAIN values : t = "$" \o ToString(k) ->
         values[CHOOSE k \in DOMAIN values : t = "$" \o ToString(k)]
    [] OTHER -> Err

\* The operator op of two values.
Apply(op, a, b) ==
  CASE Err \in {a, b} -> Err
    [] Null \in {a, b} -> Null
    [] ~(IsNum(a) /\ IsNum(b)) -> Err
    [] op = "<" -> Num(IF a.num < b.num THEN 1 ELSE 0)
    [] op = "=" -> Num(IF a.num = b.num THEN 1 ELSE 0)
    [] OTHER    -> IF a.num + b.num > MaxInt THEN Err ELSE Num(a.num + b.num)

\* What DuckDB makes of the expression e.
Eval(e, values, row) ==
  LET eval[x \in Seq(STRING)] ==
        LET n == Len(x)
            at(word) == WordOutside(x, 1, n + 1, {word})
            of(lo, hi) == eval[Slice(x, lo, hi)]
            choose(c, a, b) == IF c = Err THEN Err ELSE IF c = Num(1) THEN a ELSE b
            args == Pieces(x, 3, n)
            op   == CASE at("<") <= n -> "<" [] at("=") <= n -> "=" [] OTHER -> "+"
        IN  CASE n = 0 -> Err
              [] n = 1 -> Atom(x[1], values, row)
              [] x[1] = "(" /\ Closing(x, 1, n + 1) = n -> of(2, n)
              [] At(x, 1) = "IF" /\ Closing(x, 2, n + 1) = n /\ Len(args) = 3 ->
                   choose(eval[args[1]], eval[args[2]], eval[args[3]])
              [] At(x, 1) = "CASE" /\ At(x, 2) = "WHEN" /\ at("END") = n /\ at("ELSE") < n /\ at("THEN") < n ->
                   choose(of(3, at("THEN")), of(at("THEN") + 1, at("ELSE")), of(at("ELSE") + 1, n))
              [] at(op) \in 2..(n - 1) -> Apply(op, of(1, at(op)), of(at(op) + 1, n + 1))
              [] OTHER -> Err
  IN  eval[e]

-----------------------------------------------------------------------------
(***************************************************************************)
(* Variables in SQL: a name that is declared becomes a placeholder.        *)
(***************************************************************************)

NoScope == [vars |-> <<>>, rows |-> <<>>]

Terminators == {"FROM", "WHERE", "GROUP", "ORDER", "HAVING", "LIMIT", "WINDOW", "QUALIFY",
                "UNION", "INTERSECT", "EXCEPT"}
OtherHeads  == {"INSERT", "UPDATE", "DELETE", "MERGE", "VALUES", "CREATE", "DROP", "ALTER",
                "TRUNCATE", "CALL", "SET", "DECLARE", "IF", "BEGIN"}

\* The last of the words at position i or before it, outside parentheses.
LastWord(tokens, i, words) ==
  LET hits == {k \in 1..i : At(tokens, k) \in words /\ Parens(tokens, 1, k) = 0}
  IN  IF hits = {} THEN "" ELSE At(tokens, Max(hits))

InSelectList(tokens, i) ==
  /\ Parens(tokens, 1, i) = 0
  /\ LastWord(tokens, i, {"SELECT"} \cup Terminators \cup OtherHeads) = "SELECT"

\* The columns of INSERT INTO t (a, b).
InColumnList(tokens, i) ==
  \E k \in 1..(i - 1) :
    /\ tokens[k] = "("
    /\ Parens(tokens, 1, k) = 1
    /\ LastWord(tokens, k, {"SELECT", "INSERT", "VALUES"}) = "INSERT"
    /\ Parens(tokens, 1, i) = 1
    /\ Closing(tokens, k, Len(tokens) + 1) \notin 1..i
    /\ ~\E j \in 1..(k - 1) : /\ tokens[j] = ")"
                              /\ LastWord(tokens, j, {"SELECT", "INSERT", "VALUES"}) = "INSERT"

\* The column of SET column = ... in an UPDATE.
IsAssigned(tokens, i) ==
  /\ Parens(tokens, 1, i) = 0
  /\ LastWord(tokens, i, {"SELECT", "INSERT", "UPDATE", "SET", "VALUES", "WHERE", "FROM"}) = "SET"
  /\ At(tokens, i + 1) = "="

\* An item of a select list with no name of its own; its tokens are lo..hi.
IsBareItem(tokens, lo, hi) ==
  /\ InSelectList(tokens, lo)
  /\ At(tokens, lo - 1) \in {"SELECT", ","}
  /\ hi = Len(tokens) \/ At(tokens, hi + 1) \in {",", ";", ")"} \cup Terminators

\* A mutant: the column list of an INSERT is not left alone.
ReplaceableAnywhere(tokens, i) ==
  /\ IsName(tokens, i)
  /\ At(tokens, i - 1) # "."
  /\ ~IsAssigned(tokens, i)
  /\ ~(At(tokens, i) = "SELECT" /\ Parens(tokens, 1, i) = 0)

Replaceable(tokens, i) ==
  /\ IsName(tokens, i)
  /\ At(tokens, i - 1) # "."
  /\ ~InColumnList(tokens, i)
  /\ ~IsAssigned(tokens, i)
  /\ ~(At(tokens, i) = "SELECT" /\ Parens(tokens, 1, i) = 0)

IsVariable(tokens, sc, i) == At(tokens, i + 1) # "." /\ At(tokens, i) \in DOMAIN sc.vars

\* row.column of a FOR row.
IsField(tokens, sc, i) ==
  /\ At(tokens, i + 1) = "."
  /\ IsName(tokens, i + 2)
  /\ At(tokens, i) \in DOMAIN sc.rows
  /\ At(tokens, i + 2) \in DOMAIN sc.rows[At(tokens, i)]

\* What is replaced: its first and last token, and its value.
Occurrence(tokens, sc, i) ==
  IF IsVariable(tokens, sc, i) THEN [at |-> i, last |-> i, value |-> sc.vars[At(tokens, i)].value]
  ELSE [at |-> i, last |-> i + 2, value |-> sc.rows[At(tokens, i)][At(tokens, i + 2)]]

Occurrences(tokens, sc) ==
  LET hits == SelectSeq(Positions(1, Len(tokens) + 1),
                    LAMBDA i : Replaceable(tokens, i) /\ (IsVariable(tokens, sc, i) \/ IsField(tokens, sc, i)))
  IN  [k \in DOMAIN hits |-> Occurrence(tokens, sc, hits[k])]

\* The k-th placeholder, with a name when it stands for a column of a result.
Placeholder(tokens, o, k) ==
  <<"$" \o ToString(k)>> \o (IF IsBareItem(tokens, o.at, o.last) THEN <<"AS", tokens[o.last]>> ELSE <<>>)

Replaced(tokens, occurrences) ==
  LET piece(i) == LET here == {k \in DOMAIN occurrences : i \in occurrences[k].at..occurrences[k].last}
                  IN  IF here = {} THEN <<tokens[i]>>
                      ELSE IF i # occurrences[Min(here)].at THEN <<>>
                      ELSE Placeholder(tokens, occurrences[Min(here)], Min(here))
  IN  [sql    |-> FlattenSeq([i \in DOMAIN tokens |-> piece(i)]),
       values |-> [k \in DOMAIN occurrences |-> occurrences[k].value]]

\* The SQL with placeholders, and the values of the placeholders.
Substitute(tokens, sc) == Replaced(tokens, Occurrences(tokens, sc))

\* @name becomes a placeholder, the same one for the same name.
Parameters(tokens) ==
  LET firsts == SelectSeq(Positions(1, Len(tokens) + 1),
                      LAMBDA i : Kind(tokens[i]) = "parameter" /\ ~\E k \in 1..(i - 1) : tokens[k] = tokens[i])
  IN  [k \in DOMAIN firsts |-> tokens[firsts[k]]]

Numbered(tokens, order) ==
  [sql   |-> [i \in DOMAIN tokens |->
                IF tokens[i] \in ToSet(order)
                THEN "$" \o ToString(CHOOSE k \in DOMAIN order : order[k] = tokens[i]) ELSE tokens[i]],
   order |-> order]

Translate(tokens) == Numbered(tokens, Parameters(tokens))

\* Each ? becomes a placeholder after those of the names.
ReplaceQuestionMarks(tokens, named) ==
  LET count(i) == Cardinality({k \in 1..i : tokens[k] = "?"})
  IN  [sql   |-> [i \in DOMAIN tokens |->
                    IF tokens[i] = "?" THEN "$" \o ToString(named + count(i)) ELSE tokens[i]],
       count |-> count(Len(tokens))]

-----------------------------------------------------------------------------
(***************************************************************************)
(* The database: DuckDB, as one connection sees it.  A row says who        *)
(* inserted it in a transaction of its own that has not committed.         *)
(***************************************************************************)

\* The table a dotted run of backtick identifiers from i on names.
TableAt(tokens, i) ==
  LET next  == First({k \in (i + 1)..Len(tokens) :
                        IF (k - i) % 2 = 1 THEN tokens[k] # "." ELSE ~IsTicked(tokens, k)},
                     Len(tokens) + 1)
      parts == FlattenSeq([k \in 1..((next - i + 1) \div 2) |-> Ticked[tokens[i + 2 * (k - 1)]]])
  IN  [name |-> IF Len(parts) = 2 THEN <<Project>> \o parts ELSE parts, next |-> next]

NoTable(tokens, i) == ~IsTicked(tokens, i)

\* What a statement gives, and the database after it.
Gives(cols, rows, new) == [ok |-> TRUE, cols |-> cols, rows |-> rows, db |-> new]
Done(new)  == Gives(<<>>, <<>>, new)
Error(new) == [ok |-> FALSE, cols |-> <<>>, rows |-> <<>>, db |-> new]

\* SELECT item, ... [FROM table]; an item is expr [[AS] column].
Item(p, as) == [expr |-> SubSeq(p, 1, as - 1), col |-> IF as < Len(p) THEN p[as + 1] ELSE Last(p)]
Items(sql, from) ==
  LET pieces == Pieces(sql, 2, from)
  IN  [j \in DOMAIN pieces |-> Item(pieces[j], WordOutside(pieces[j], 1, Len(pieces[j]) + 1, {"AS"}))]

\* The rows of a table as a query sees them; one row of no columns without one.
RowsOf(table, now) == [k \in DOMAIN now.work[table] |-> [v |-> now.work[table][k].v]]
OneRow == << <<>> >>

Shown(items, cells, now) ==
  IF items = <<>> \/ \E k \in DOMAIN cells : Err \in ToSet(cells[k]) THEN Error(now)
  ELSE Gives([j \in DOMAIN items |-> items[j].col], cells, now)

SelectFrom(items, source, values, now) ==
  Shown(items, [k \in DOMAIN source |-> [j \in DOMAIN items |-> Eval(items[j].expr, values, source[k])]], now)

Read(sql, from, table, values, now) ==
  IF table \notin DOMAIN now.work THEN Error(now)
  ELSE SelectFrom(Items(sql, from), RowsOf(table, now), values, now)

Select(sql, values, now) ==
  LET from == WordOutside(sql, 2, Len(sql) + 1, {"FROM"})
  IN  CASE from > Len(sql)       -> SelectFrom(Items(sql, from), OneRow, values, now)
        [] NoTable(sql, from + 1) -> Error(now)
        [] OTHER -> Read(sql, from, TableAt(sql, from + 1).name, values, now)

\* Writes what the tables are; outside a transaction that is for good.
Written(work, now) ==
  IF now.tx = Nobody THEN [now EXCEPT !.work = work, !.base = work] ELSE [now EXCEPT !.work = work]

\* INSERT INTO table [(v)] VALUES (expr)
InsertInto(at, columns, value, now, r) ==
  IF at.name \notin DOMAIN now.work \/ value = Err \/ columns \notin {<<>>, <<"(", "v", ")">>} THEN Error(now)
  ELSE Done(Written([now.work EXCEPT ![at.name] =
                       Append(@, [v |-> value, by |-> IF now.tx = r THEN r ELSE Nobody])], now))

Insert(sql, values, now, r) ==
  LET word == WordOutside(sql, 3, Len(sql) + 1, {"VALUES"})
  IN  IF NoTable(sql, 3) THEN Error(now)
      ELSE InsertInto(TableAt(sql, 3), Slice(sql, TableAt(sql, 3).next, word),
                      Eval(Slice(sql, word + 2, Len(sql)), values, <<>>), now, r)

\* UPDATE table SET v = expr
Changed(rows, expr, values) ==
  [k \in DOMAIN rows |-> [rows[k] EXCEPT !.v = Eval(expr, values, [v |-> @])]]
Overwrite(table, rows, now) ==
  IF \E k \in DOMAIN rows : rows[k].v = Err THEN Error(now)
  ELSE Done(Written([now.work EXCEPT ![table] = rows], now))

UpdateAt(sql, at, values, now) ==
  IF at.name \notin DOMAIN now.work \/ At(sql, at.next + 1) # "V" THEN Error(now)
  ELSE Overwrite(at.name, Changed(now.work[at.name], SubSeq(sql, at.next + 3, Len(sql)), values), now)

Update(sql, values, now) ==
  IF NoTable(sql, 2) THEN Error(now) ELSE UpdateAt(sql, TableAt(sql, 2), values, now)

Begin(now, r) == IF now.tx = Nobody THEN Done([now EXCEPT !.tx = r]) ELSE Error(now)

Kept(tables) == [t \in DOMAIN tables |-> [k \in DOMAIN tables[t] |-> [tables[t][k] EXCEPT !.by = Nobody]]]

Commit(now) ==
  IF now.tx = Nobody THEN Error(now)
  ELSE Done([base |-> Kept(now.work), work |-> Kept(now.work), tx |-> Nobody, spoilt |-> FALSE])

Rollback(now) ==
  IF now.tx = Nobody THEN Error(now)
  ELSE Done([base |-> now.base, work |-> now.base, tx |-> Nobody, spoilt |-> FALSE])

\* One statement.
Execute(sql, values, now, r) ==
  LET word == At(sql, 1)
  IN  CASE word = "ROLLBACK" -> Rollback(now)
        [] now.spoilt        -> Error(now)
        [] word = "SELECT"   -> Select(sql, values, now)
        [] word = "INSERT"   -> Insert(sql, values, now, r)
        [] word = "UPDATE"   -> Update(sql, values, now)
        [] word = "COMMIT"   -> Commit(now)
        [] word \in {"BEGIN", "START"} /\ At(sql, 2) = "TRANSACTION" -> Begin(now, r)
        [] OTHER -> Error(now)

\* The statements of a text, up to the first that fails.
StatementsOf(sql) ==
  SelectSeq(CutAt(sql, 1, Append(SelectSeq(Positions(1, Len(sql) + 1), LAMBDA i : sql[i] = ";"), Len(sql) + 1)),
            LAMBDA p : p # <<>>)

\* A text of no statement is refused.
ExecuteEach(parts, values, now, r) ==
  LET after[k \in 0..Len(parts)] ==
        IF k = 0 THEN Done(now)
        ELSE LET got == after[k - 1]
             IN  IF got.ok THEN Execute(parts[k], values, got.db, r) ELSE got
  IN  IF Len(parts) \in Nat \ {0} THEN after[Len(parts)] ELSE Error(now)

ExecuteAll(sql, values, now, r) == ExecuteEach(StatementsOf(sql), values, now, r)

\* After a statement that failed in a transaction DuckDB may refuse all that
\* follows but a ROLLBACK.
Shaken(now) == IF now.tx = Nobody THEN {now} ELSE {now, [now EXCEPT !.spoilt = TRUE]}

-----------------------------------------------------------------------------
(***************************************************************************)
(* Running a script.  A frame is a statement list that has begun: what is  *)
(* left of it, the statement it is the body of, the rows a FOR still has,  *)
(* and the scope and result of the caller under a CALL.                    *)
(***************************************************************************)

Loops == {"LOOP", "WHILE", "REPEAT", "FOR"}

Nothing == [cols |-> <<>>, rows |-> <<>>]

Frame(of, todo, rows) == [of |-> of, todo |-> todo, rows |-> rows, scope |-> NoScope, result |-> Nothing]

Top(r)  == Last(stack[r])
Stmt(r) == Head(Top(r).todo)
Doing(r, kind) == pc[r] = "run" /\ Top(r).todo # <<>> /\ Stmt(r).kind = kind
AtEnd(r, kind) == pc[r] = "run" /\ Top(r).todo = <<>> /\ Top(r).of.kind = kind

\* The stack after the statement, and with a body to run first.
After(r)        == [stack[r] EXCEPT ![Len(stack[r])].todo = Tail(@)]
Within(r, frame) == Append(After(r), frame)

Goes(r, frames) == stack' = [stack EXCEPT ![r] = frames]
Proceeds(r) == Goes(r, After(r))

Fails(r) == pc' = [pc EXCEPT ![r] = "rollback"] /\ UNCHANGED <<asked, stack, scope, result, routines>>

\* The code throws, or a statement of the database fails.
Throws(r) == Fails(r) /\ UNCHANGED db
Refuses(r, now) == Fails(r) /\ db' \in Shaken(now)

\* SELECT CAST((expr) AS type)
ScalarOf(s, type) ==
  IF db.spoilt THEN Err ELSE Cast(Eval(Translate(s.sql).sql, s.values, <<>>), type)
Scalar(r, expr, type) == ScalarOf(Substitute(expr, scope[r]), type)

Key(name) == Upper(name)
Declared(sc, name) == Key(name) \in DOMAIN sc.vars \cup DOMAIN sc.rows
IsSet(sc, name) == Key(name) \in DOMAIN sc.vars
With(f, key, value) == [k \in DOMAIN f \cup {key} |-> IF k = key THEN value ELSE f[k]]
Without(f, key) == [k \in DOMAIN f \ {key} |-> f[k]]

\* Several variables at once; of a name that comes twice the last value stays.
AssignAll(sc, names, values) ==
  LET last(key) == {k \in DOMAIN values : /\ Key(names[k]) = key
                                          /\ \A j \in DOMAIN values : Key(names[j]) = key => j <= k}
      assigned(key) == IF last(key) = {} THEN sc.vars[key].value ELSE values[CHOOSE k \in last(key) : TRUE]
  IN  [sc EXCEPT !.vars = [key \in DOMAIN sc.vars |-> [type |-> sc.vars[key].type, value |-> assigned(key)]]]

Declares(r, s, value) ==
  LET keys == {Key(s.names[k]) : k \in DOMAIN s.names}
      new  == [type |-> DuckType(s.type), value |-> value]
  IN  IF value = Err THEN Refuses(r, db)
      ELSE IF Cardinality(keys) < Len(s.names) \/ \E k \in DOMAIN s.names : Declared(scope[r], s.names[k])
           THEN Throws(r)
      ELSE /\ scope' = [scope EXCEPT ![r].vars = [key \in keys \cup DOMAIN @ |-> IF key \in keys THEN new ELSE @[key]]]
           /\ Proceeds(r)
           /\ UNCHANGED <<asked, pc, result, db, routines>>

RunDeclare(r) ==
  /\ Doing(r, "DECLARE")
  /\ Declares(r, Stmt(r), IF Stmt(r).expr = <<>> THEN Null ELSE Scalar(r, Stmt(r).expr[1], DuckType(Stmt(r).type)))

\* SET a = expr and SET (a, b) = (expr, expr): all is evaluated first.
Assignments(s) ==
  IF s.kind = "SET_SCALAR" THEN [names |-> <<s.name>>, exprs |-> <<s.expr>>]
  ELSE [names |-> s.names, exprs |-> s.exprs]

\* The value of each expression; Nothing where the variable is unknown.
ValuesFor(r, names, exprs) ==
  [k \in DOMAIN names |->
     IF IsSet(scope[r], names[k]) THEN Scalar(r, exprs[k], scope[r].vars[Key(names[k])].type) ELSE Nothing]

Sets(r, names, values) ==
  LET bad == {k \in DOMAIN names : values[k] \in {Nothing, Err}}
  IN  IF bad # {} THEN (IF values[Min(bad)] = Err THEN Refuses(r, db) ELSE Throws(r))
      ELSE /\ scope' = [scope EXCEPT ![r] = AssignAll(@, names, values)]
           /\ Proceeds(r)
           /\ UNCHANGED <<asked, pc, result, db, routines>>

SetTo(r, names, exprs) ==
  IF Len(names) # Len(exprs) THEN Throws(r) ELSE Sets(r, names, ValuesFor(r, names, exprs))

SetVariables(r) ==
  /\ Doing(r, "SET_SCALAR") \/ Doing(r, "SET_TUPLE")
  /\ SetTo(r, Assignments(Stmt(r)).names, Assignments(Stmt(r)).exprs)

\* The one row of a result, into as many variables.
Fits(got, sc, names) ==
  /\ Len(got.rows) = 1
  /\ Len(got.cols) = Len(names)
  /\ \A k \in DOMAIN names : IsSet(sc, names[k])

Stores(r, got, names) ==
  \/ ~got.ok /\ Refuses(r, got.db)
  \/ got.ok /\ ~Fits(got, scope[r], names) /\ Fails(r) /\ db' = got.db
  \/ /\ got.ok
     /\ Fits(got, scope[r], names)
     /\ scope' = [scope EXCEPT ![r] = AssignAll(@, names, got.rows[1])]
     /\ Proceeds(r)
     /\ db' = got.db
     /\ UNCHANGED <<asked, pc, result, routines>>

\* A query with the variables of the script in it.
Submits(r, s) == ExecuteAll(Translate(s.sql).sql, s.values, db, r)
Queried(r, sql) == Submits(r, Substitute(sql, scope[r]))

SetFromQuery(r) == Doing(r, "SET_SUBQUERY") /\ Stores(r, Queried(r, Stmt(r).sql), Stmt(r).names)

\* EXECUTE IMMEDIATE: the text is not substituted; USING gives the values of
\* its placeholders.
GoesOn(r, got) ==
  IF ~got.ok THEN Refuses(r, got.db)
  ELSE Proceeds(r) /\ db' = got.db /\ UNCHANGED <<asked, pc, scope, result, routines>>

\* The text, translated, with the values of its USING clauses.
Bound(s, using, t) ==
  LET plain    == SelectSeq([k \in DOMAIN using |-> k], LAMBDA k : s.using[k].name = <<>>)
      named(p) == {k \in DOMAIN using : s.using[k].name # <<>> /\ "@" \o s.using[k].name[1] = p}
  IN  [sql    |-> ReplaceQuestionMarks(t.sql, Len(t.order)).sql,
       good   |-> /\ ReplaceQuestionMarks(t.sql, Len(t.order)).count = Len(plain)
                  /\ \A k \in DOMAIN t.order : named(t.order[k]) # {},
       values |-> [k \in DOMAIN t.order |-> IF named(t.order[k]) = {} THEN Null ELSE using[Max(named(t.order[k]))]]
                  \o [k \in DOMAIN plain |-> using[plain[k]]]]

Runs(r, into, q) ==
  IF ~q.good THEN Throws(r)
  ELSE IF into # <<>> THEN Stores(r, ExecuteAll(q.sql, q.values, db, r), into)
  ELSE GoesOn(r, ExecuteAll(q.sql, q.values, db, r))

Dynamically(r, s, text, using) ==
  IF Err \in {text} \cup ToSet(using) THEN Refuses(r, db)
  ELSE IF text = Null THEN Throws(r)
  ELSE Runs(r, s.into, Bound(s, using, Translate(Tokenize(text.text))))

ExecuteDynamic(r) ==
  /\ Doing(r, "EXECUTE_IMMEDIATE")
  /\ Dynamically(r, Stmt(r), Scalar(r, Stmt(r).expr, "VARCHAR"),
                 [k \in DOMAIN Stmt(r).using |-> Scalar(r, Stmt(r).using[k].expr, "")])

\* A plain statement: a SELECT becomes the result.
Surfaces == {"SELECT", "WITH", "VALUES"}

Surfaced(r, sql, got) ==
  IF ~got.ok THEN Refuses(r, got.db)
  ELSE /\ result' = [result EXCEPT ![r] = IF At(sql, 1) \in Surfaces
                                           THEN [cols |-> got.cols, rows |-> got.rows] ELSE @]
       /\ Proceeds(r)
       /\ db' = got.db
       /\ UNCHANGED <<asked, pc, scope, routines>>

PlainSql(r) == Doing(r, "SQL") /\ Surfaced(r, Stmt(r).sql, Queried(r, Stmt(r).sql))

Test(r, cond) == Scalar(r, cond, "BOOLEAN")

\* IF: the body of the first branch that holds.
Chooses(r, s, tests) ==
  LET hits == {k \in DOMAIN tests : tests[k] \in {Num(1), Err}}
      body == IF hits = {} THEN s.els ELSE s.branches[Min(hits)].body
  IN  IF hits # {} /\ tests[Min(hits)] = Err THEN Refuses(r, db)
      ELSE /\ Goes(r, Within(r, Frame(s, body, <<>>)))
           /\ UNCHANGED <<asked, pc, scope, result, db, routines>>

Branch(r) ==
  /\ Doing(r, "IF")
  /\ Chooses(r, Stmt(r), [k \in DOMAIN Stmt(r).branches |-> Test(r, Stmt(r).branches[k].cond)])

\* BEGIN, LOOP and REPEAT start with their body, WHILE with its condition.
Enter(r) ==
  /\ Doing(r, "BLOCK") \/ Doing(r, "LOOP") \/ Doing(r, "REPEAT") \/ Doing(r, "WHILE")
  /\ LET s == Stmt(r) IN Goes(r, Within(r, Frame(s, IF s.kind = "WHILE" THEN <<>> ELSE s.body, <<>>)))
  /\ UNCHANGED <<asked, pc, scope, result, db, routines>>

Bind(sc, name, row)  == [sc EXCEPT !.rows = With(@, Key(name), row)]
Unbind(sc, keys)     == [sc EXCEPT !.rows = [key \in DOMAIN sc.rows \ keys |-> sc.rows[key]]]

\* FOR: the first row is bound, when there is one.
RowsFor(got) ==
  [k \in DOMAIN got.rows |->
     [c \in {Upper(got.cols[j]) : j \in DOMAIN got.cols} |->
        got.rows[k][CHOOSE j \in DOMAIN got.cols : Upper(got.cols[j]) = c]]]

Iterates(r, s, rows, new) ==
  /\ db' = new
  /\ IF rows = <<>> THEN Proceeds(r) /\ UNCHANGED <<asked, pc, scope, result, routines>>
     ELSE IF IsSet(scope[r], s.name) THEN Fails(r)
     ELSE /\ scope' = [scope EXCEPT ![r] = Bind(@, s.name, Head(rows))]
          /\ Goes(r, Within(r, Frame(s, s.body, Tail(rows))))
          /\ UNCHANGED <<asked, pc, result, routines>>

Fetches(r, s, got) == IF got.ok THEN Iterates(r, s, RowsFor(got), got.db) ELSE Refuses(r, got.db)

EnterFor(r) == Doing(r, "FOR") /\ Fetches(r, Stmt(r), Queried(r, Stmt(r).sql))

\* CALL: the arguments are evaluated in the scope of the caller; the body
\* runs in a scope of its own.
TypeWord(p, k) == Upper(Head(p.args[k].type))
IsTyped(p, k)  == p.args[k].type # <<>> /\ TypeWord(p, k) \in DOMAIN Aliases
ArgType(p, k)  == DuckType(Aliases[TypeWord(p, k)])

\* Each argument, cast to its type; Nothing where that is no type.
Given(r, s, p) ==
  [k \in DOMAIN p.args |-> IF IsTyped(p, k) THEN Scalar(r, s.args[k], ArgType(p, k)) ELSE Nothing]

Invokes(r, s, p, given, body) ==
  LET keys  == {Key(p.args[k].name) : k \in DOMAIN p.args}
      local == [key \in keys |->
                  LET k == CHOOSE k \in DOMAIN p.args : Key(p.args[k].name) = key
                  IN  [type |-> ArgType(p, k), value |-> given[k]]]
      bad   == {k \in DOMAIN given : given[k] \in {Nothing, Err}}
      frame == [Frame(s, body, <<>>) EXCEPT !.scope = scope[r], !.result = result[r]]
  IN  IF bad # {} THEN (IF given[Min(bad)] = Err THEN Refuses(r, db) ELSE Throws(r))
      ELSE IF Cardinality(keys) < Len(p.args) \/ Broken(body) THEN Throws(r)
      ELSE /\ scope' = [scope EXCEPT ![r] = [vars |-> local, rows |-> <<>>]]
           /\ result' = [result EXCEPT ![r] = Nothing]
           /\ Goes(r, Within(r, frame))
           /\ UNCHANGED <<asked, pc, db, routines>>

Calls(r, s, p) ==
  IF Len(p.args) # Len(s.args) THEN Throws(r) ELSE Invokes(r, s, p, Given(r, s, p), Program(p.body))

Qualified(name) == IF Len(name) = 2 THEN <<Project>> \o name ELSE name

RunCall(r) ==
  /\ Doing(r, "CALL")
  /\ IF Qualified(Stmt(r).name) \in DOMAIN routines THEN Calls(r, Stmt(r), routines[Qualified(Stmt(r).name)])
     ELSE Throws(r)

-----------------------------------------------------------------------------
(***************************************************************************)
(* The end of a statement list, and the signals that end one early.        *)
(***************************************************************************)

\* A script as far as signals go.
State(r) == [stack |-> stack[r], scope |-> scope[r], result |-> result[r]]

\* It without the frames above frame at: the rows of FORs are unbound, and a
\* CALL gives its caller back.
Above(st, at, kind) == {k \in (at + 1)..Len(st.stack) : st.stack[k].of.kind = kind}
RowNames(st, keys) == {Key(st.stack[k].of.name) : k \in keys}

\* A mutant: a FOR row stays bound when its loop is left.
LeaveToBound(st, at) ==
  LET calls == Above(st, at, "CALL")
      home  == IF calls = {} THEN st ELSE st.stack[Min(calls)]
  IN  [stack |-> SubSeq(st.stack, 1, at), scope |-> home.scope, result |-> home.result]

LeaveTo(st, at) ==
  LET calls == Above(st, at, "CALL")
      fors  == {k \in Above(st, at, "FOR") : \A c \in calls : k < c}
      home  == IF calls = {} THEN st ELSE st.stack[Min(calls)]
  IN  [stack |-> SubSeq(st.stack, 1, at), scope |-> Unbind(home.scope, RowNames(st, fors)), result |-> home.result]

\* Without its innermost frame, and out to the innermost frame of one of the
\* kinds; the script itself is one.
Leave(st) == LeaveTo(st, Len(st.stack) - 1)
Unwound(st, kinds) ==
  LeaveTo(st, Max({k \in DOMAIN st.stack : st.stack[k].of.kind \in kinds \cup {"TOP"}}))

Continues(r, st) ==
  /\ stack'  = [stack EXCEPT ![r] = st.stack]
  /\ scope'  = [scope EXCEPT ![r] = st.scope]
  /\ result' = [result EXCEPT ![r] = st.result]
  /\ UNCHANGED <<asked, pc, db, routines>>

\* The rest of a body is dropped.
Cut(st) == [st EXCEPT !.stack[Len(st.stack)].todo = <<>>]

Break(r) ==
  /\ Doing(r, "BREAK")
  /\ LET st == Unwound(State(r), Loops)
     IN  IF Last(st.stack).of.kind = "TOP" THEN Throws(r) ELSE Continues(r, Leave(st))

\* A mutant: CONTINUE starts the body again, whatever the condition.
ContinueAtOnce(r) ==
  /\ Doing(r, "CONTINUE")
  /\ LET st == Unwound(State(r), Loops)
     IN  IF Last(st.stack).of.kind = "TOP" THEN Throws(r)
         ELSE Continues(r, [st EXCEPT !.stack[Len(st.stack)].todo = Last(st.stack).of.body])

Continue(r) ==
  /\ Doing(r, "CONTINUE")
  /\ LET st == Unwound(State(r), Loops)
     IN  IF Last(st.stack).of.kind = "TOP" THEN Throws(r) ELSE Continues(r, Cut(st))

\* RETURN ends the procedure, or the script.
Return(r) == Doing(r, "RETURN") /\ Continues(r, Cut(Unwound(State(r), {"CALL"})))

EndOfPlain(r) == (AtEnd(r, "IF") \/ AtEnd(r, "BLOCK")) /\ Continues(r, Leave(State(r)))

Again(r) == [State(r) EXCEPT !.stack[Len(stack[r])].todo = Top(r).of.body]

EndOfLoop(r) == AtEnd(r, "LOOP") /\ Continues(r, Again(r))

Repeats(r, holds) ==
  CASE holds = Err    -> Refuses(r, db)
    [] holds = Num(1) -> Continues(r, Again(r))
    [] OTHER          -> Continues(r, Leave(State(r)))

EndOfWhile(r) == AtEnd(r, "WHILE") /\ Repeats(r, Test(r, Top(r).of.cond))

Ceases(r, holds) ==
  CASE holds = Err    -> Refuses(r, db)
    [] holds = Num(1) -> Continues(r, Leave(State(r)))
    [] OTHER          -> Continues(r, Again(r))

UntilOfRepeat(r) == AtEnd(r, "REPEAT") /\ Ceases(r, Test(r, Top(r).of.cond))

\* The next row of a FOR.
EndOfFor(r) ==
  /\ AtEnd(r, "FOR")
  /\ LET f    == Top(r)
         out  == Unbind(scope[r], {Key(f.of.name)})
         next == [Again(r) EXCEPT !.stack[Len(stack[r])].rows = Tail(f.rows),
                                  !.scope = Bind(out, f.of.name, Head(f.rows))]
     IN  IF f.rows = <<>> THEN Continues(r, Leave(State(r)))
         ELSE IF IsSet(scope[r], f.of.name) THEN Throws(r) ELSE Continues(r, next)

\* The last SELECT of a procedure becomes one of the caller.
EndOfCall(r) ==
  /\ AtEnd(r, "CALL")
  /\ LET st == Leave(State(r))
     IN  Continues(r, [st EXCEPT !.result = IF result[r] = Nothing THEN @ ELSE result[r]])

Ends(r, how) ==
  /\ pc' = [pc EXCEPT ![r] = how]
  /\ stack' = [stack EXCEPT ![r] = <<>>]
  /\ scope' = [scope EXCEPT ![r] = NoScope]

EndOfScript(r) ==
  /\ AtEnd(r, "TOP")
  /\ Ends(r, "ok")
  /\ UNCHANGED <<asked, result, db, routines>>

\* A mutant: a script that fails keeps what is open.
RollBackNot(r) ==
  /\ pc[r] = "rollback"
  /\ Ends(r, "failed")
  /\ result' = [result EXCEPT ![r] = Nothing]
  /\ UNCHANGED <<asked, db, routines>>

\* executeScript rolls back what is open, whoever opened it.
RollBack(r) ==
  /\ pc[r] = "rollback"
  /\ Ends(r, "failed")
  /\ result' = [result EXCEPT ![r] = Nothing]
  /\ db' = Rollback(db).db
  /\ UNCHANGED <<asked, routines>>

-----------------------------------------------------------------------------
(***************************************************************************)
(* Requests.                                                               *)
(***************************************************************************)

TextOf(r) == Tokenize(asked[r].text)
Asks(r, types) == pc[r] = "wait" /\ StatementType(TextOf(r)) \in types

\* A script: all of it is parsed before any of it runs.
Launches(r, program) ==
  IF Broken(program) THEN Throws(r)
  ELSE /\ pc' = [pc EXCEPT ![r] = "run"]
       /\ Goes(r, <<Frame([kind |-> "TOP"], program, <<>>)>>)
       /\ UNCHANGED <<asked, scope, result, db, routines>>

StartScript(r) == Asks(r, {"SCRIPT"}) /\ Launches(r, Program(TextOf(r)))

\* A query or a change of rows.
Answers(r, got) ==
  /\ Ends(r, IF got.ok THEN "ok" ELSE "failed")
  /\ result' = [result EXCEPT ![r] = [cols |-> got.cols, rows |-> got.rows]]
  /\ db' \in IF got.ok THEN {got.db} ELSE Shaken(got.db)
  /\ UNCHANGED <<asked, routines>>

RunQuery(r) ==
  /\ Asks(r, {"SELECT"} \cup Changes)
  /\ Answers(r, ExecuteAll(Translate(TextOf(r)).sql, <<>>, db, r))

\* What a DDL statement does to the procedures.
Exists(t) == t.name \in DOMAIN routines

RunProcedureDdl(r, t) ==
  CASE t.kind = "CREATE_PROCEDURE" /\ Exists(t) /\ ~t.orReplace ->
         Ends(r, IF t.ifNotExists THEN "ok" ELSE "failed") /\ UNCHANGED routines
    [] t.kind = "CREATE_PROCEDURE" ->
         Ends(r, "ok") /\ routines' = With(routines, t.name, [args |-> t.args, body |-> t.body])
    [] t.kind = "DROP_PROCEDURE" /\ ~Exists(t) ->
         Ends(r, IF t.ifExists THEN "ok" ELSE "failed") /\ UNCHANGED routines
    [] OTHER -> Ends(r, "ok") /\ routines' = Without(routines, t.name)

Procedural == {"CREATE_PROCEDURE", "DROP_PROCEDURE"}

RunTarget(r, t) ==
  /\ result' = [result EXCEPT ![r] = t]
  /\ IF t.kind \in Procedural THEN RunProcedureDdl(r, t)
     ELSE Ends(r, IF t = Refused THEN "failed" ELSE "ok") /\ UNCHANGED routines
  /\ UNCHANGED <<asked, db>>

RunDdl(r) ==
  /\ pc[r] = "wait"
  /\ ~Asks(r, {"SCRIPT", "SELECT"} \cup Changes)
  /\ RunTarget(r, Target(TextOf(r)))

-----------------------------------------------------------------------------
Started == [t \in DOMAIN Tables |->
              [k \in DOMAIN Tables[t] |-> [v |-> Num(Tables[t][k]), by |-> Nobody]]]

Init ==
  /\ asked \in Mixes
  /\ pc = [r \in Requests |-> IF asked[r].text = <<>> THEN "none" ELSE "wait"]
  /\ stack = [r \in Requests |-> <<>>]
  /\ scope = [r \in Requests |-> NoScope]
  /\ result = [r \in Requests |-> Nothing]
  /\ db = [base |-> Started, work |-> Started, tx |-> Nobody, spoilt |-> FALSE]
  /\ routines = Procedures

Step(r) ==
  \/ StartScript(r)
  \/ RunQuery(r)
  \/ RunDdl(r)
  \/ RunDeclare(r)
  \/ SetVariables(r)
  \/ SetFromQuery(r)
  \/ ExecuteDynamic(r)
  \/ PlainSql(r)
  \/ Branch(r)
  \/ Enter(r)
  \/ EnterFor(r)
  \/ RunCall(r)
  \/ Break(r)
  \/ Continue(r)
  \/ Return(r)
  \/ EndOfPlain(r)
  \/ EndOfLoop(r)
  \/ EndOfWhile(r)
  \/ UntilOfRepeat(r)
  \/ EndOfFor(r)
  \/ EndOfCall(r)
  \/ EndOfScript(r)
  \/ RollBack(r)

Unfinished(r) == pc[r] \in {"wait", "run", "rollback"}
Idle == (\A r \in Requests : ~Unfinished(r)) /\ UNCHANGED vars

Next == Idle \/ \E r \in Requests : Step(r)

\* Every answer of the database comes: a request goes on.  This is
\* WF_vars(Step(r)), with Unfinished(r) for ENABLED: a request that is not
\* finished can take a step (the runs check for deadlock).
Fair(r) == []<>~Unfinished(r) \/ []<><<Step(r)>>_vars

Spec == Init /\ [][Next]_vars /\ \A r \in Requests : Fair(r)

-----------------------------------------------------------------------------
(***************************************************************************)
(* Properties.                                                             *)
(***************************************************************************)

\* The rows of the FOR statements in the first n frames, since the last CALL.
BoundBy(frames, n) ==
  {Key(frames[k].of.name) :
     k \in {j \in 1..n : frames[j].of.kind = "FOR" /\ \A i \in (j + 1)..n : frames[i].of.kind # "CALL"}}
ForNames(r) == BoundBy(stack[r], Len(stack[r]))

\* Types.  A script has a scope and a stack while it runs and no longer; the
\* rows that are bound are those of FOR statements it is in, however it left
\* the others (script.ts:493-512); with no transaction open, what the tables
\* are is what was committed.
TypeOK ==
  /\ \A r \in Requests :
       /\ pc[r] \in {"none", "wait", "run", "rollback", "ok", "failed"}
       /\ pc[r] = "run" => stack[r] # <<>> /\ stack[r][1].of.kind = "TOP"
       /\ pc[r] \in {"ok", "failed"} => stack[r] = <<>> /\ scope[r] = NoScope
       /\ DOMAIN scope[r].rows \subseteq ForNames(r)
       /\ \A key \in DOMAIN scope[r].vars :
            /\ scope[r].vars[key].type \in DuckTypes
            /\ scope[r].vars[key].value # Err
  /\ db.tx \in Requests \cup {Nobody}
  /\ db.tx = Nobody => db.base = db.work /\ ~db.spoilt

\* A request whose meaning is known ends as it should: a script with the
\* result its program computes, or failed when it cannot (the parser, the
\* substitution of variables and the interpreter together); a DDL statement
\* with the target its text names.
EndsAsMeant ==
  \A r \in Requests :
    pc[r] \in {"ok", "failed"} /\ asked[r].meant # Unsaid => <<pc[r], result[r]>> = asked[r].meant

\* A query of several statements, which DuckDB runs as one text: nothing rolls
\* back what it has begun when one of them fails (queryEngine.ts:505).
Together(r) ==
  /\ StatementType(TextOf(r)) # "SCRIPT"
  /\ Len(StatementsOf(Translate(TextOf(r)).sql)) \notin {0, 1}

\* A request that failed, a script above all, has no transaction open on the
\* shared connection, and nothing it wrote in a transaction that was not
\* committed is in a table, whatever the other requests did meanwhile
\* (queryEngine.ts:1123-1135).
FailedLeavesNothing ==
  \A r \in Requests :
    pc[r] = "failed" /\ ~Together(r) =>
      /\ db.tx # r
      /\ \A t \in DOMAIN db.work :
           /\ \A k \in DOMAIN db.work[t] : db.work[t][k].by # r
           /\ \A k \in DOMAIN db.base[t] : db.base[t][k].by # r

\* Every request ends: no loop of these programs is run for ever, whatever
\* the way a turn of it ends (script.ts:337-392).
ScriptsEnd == \A r \in Requests : pc[r] = "wait" ~> pc[r] \in {"ok", "failed"}
=============================================================================
