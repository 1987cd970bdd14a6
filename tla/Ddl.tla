--------------------------------- MODULE Ddl ---------------------------------
(***************************************************************************)
(* What kind of statement a text is, and what a DDL statement is about     *)
(* (src/sql/ddl.ts).  A parse that throws gives Refused.                   *)
(***************************************************************************)
EXTENDS SqlTokens

CONSTANTS Project   \* the project of a request, for names that say none

Refused == [kind |-> "REFUSED"]

Has(tokens, lo, words) == \E i \in lo..Len(tokens) : At(tokens, i) \in words

\* Where one of the words stands, wherever that is; Len + 1 when nowhere.
NextWord(tokens, lo, words) ==
  First({i \in lo..Len(tokens) : At(tokens, i) \in words}, Len(tokens) + 1)

ObjectWords == {"VIEW", "TABLE", "SCHEMA", "FUNCTION", "PROCEDURE", "MATERIALIZED"}

\* The object of a CREATE or a DROP; "" for none.
ObjectKind(tokens) ==
  LET at   == NextWord(tokens, 2, ObjectWords)
      word == At(tokens, at)
  IN  CASE word = "MATERIALIZED" -> IF At(tokens, at + 1) = "VIEW" THEN "MATERIALIZED_VIEW" ELSE ""
        [] word = "TABLE" -> IF At(tokens, at + 1) = "FUNCTION" THEN "TABLE_FUNCTION" ELSE "TABLE"
        [] OTHER -> word

CreateType(tokens) ==
  LET kind == ObjectKind(tokens)
  IN  CASE kind = "" -> "SELECT"
        [] kind = "TABLE" -> IF Has(tokens, NextWord(tokens, 2, ObjectWords) + 1, {"AS"})
                             THEN "CREATE_TABLE_AS_SELECT" ELSE "SELECT"
        [] OTHER -> "CREATE_" \o kind

DropType(tokens) == IF ObjectKind(tokens) = "" THEN "SELECT" ELSE "DROP_" \o ObjectKind(tokens)

Changes == {"INSERT", "UPDATE", "DELETE", "MERGE"}

\* The statement after the common table expressions.
AfterCtes(tokens) ==
  LET word == At(tokens, WordOutside(tokens, 2, Len(tokens) + 1, Changes \cup {"SELECT"}))
  IN  IF word \in Changes THEN word ELSE "SELECT"

ScriptHeads == {"BEGIN", "START", "DECLARE", "SET", "IF", "CALL", "RETURN", "LOOP", "WHILE",
                "REPEAT", "FOR", "EXECUTE"}

StatementType(tokens) ==
  LET head == At(tokens, 1)
  IN  CASE head \in Changes     -> head
        [] head = "TRUNCATE"    -> "TRUNCATE_TABLE"
        [] head \in ScriptHeads -> "SCRIPT"
        [] head = "CREATE"      -> CreateType(tokens)
        [] head = "DROP"        -> DropType(tokens)
        [] head = "WITH"        -> AfterCtes(tokens)
        [] OTHER                -> "SELECT"

-----------------------------------------------------------------------------
(***************************************************************************)
(* Names.                                                                  *)
(***************************************************************************)

IsTicked(tokens, i) == i \in DOMAIN tokens /\ Kind(tokens[i]) = "backtick-identifier"
IsSegment(tokens, i) == IsName(tokens, i) \/ IsTicked(tokens, i)
PartsOf(tokens, i) == IF IsTicked(tokens, i) THEN Ticked[tokens[i]] ELSE <<tokens[i]>>

\* Past a name whose segments may be identifiers or backtick identifiers.
NameEnd(i, stop) == IF (stop - i) % 2 = 1 THEN stop ELSE stop - 1
PastTarget(tokens, i) ==
  NameEnd(i, First({k \in (i + 1)..Len(tokens) :
                      IF (k - i) % 2 = 1 THEN tokens[k] # "." ELSE ~IsSegment(tokens, k)},
                   Len(tokens) + 1))

MixedName(tokens, i) ==
  IF ~IsSegment(tokens, i) THEN <<>>
  ELSE LET segments == [k \in 1..((PastTarget(tokens, i) - i + 1) \div 2) |->
                          PartsOf(tokens, i + 2 * (k - 1))]
       IN  FlattenSeq(segments)

\* A table or view: <<project, dataset, table>>, or <<>> for one refused.
TableName(tokens, i) ==
  LET parts == MixedName(tokens, i)
  IN  CASE Len(parts) = 3 -> parts [] Len(parts) = 2 -> <<Project>> \o parts [] OTHER -> <<>>

SchemaName(tokens, i) ==
  LET parts == MixedName(tokens, i)
  IN  CASE Len(parts) = 2 -> parts [] Len(parts) = 1 -> <<Project>> \o parts [] OTHER -> <<>>

\* A function or procedure: one backtick identifier or dotted identifiers; a
\* temporary function may have a bare name.
RoutineName(tokens, i, temp) ==
  LET parts == IF IsTicked(tokens, i) THEN Ticked[tokens[i]]
               ELSE IF IsName(tokens, i) THEN Dotted(tokens, i).parts ELSE <<>>
  IN  CASE Len(parts) = 3 -> parts
        [] Len(parts) = 2 -> <<Project>> \o parts
        [] Len(parts) = 1 /\ temp -> <<Project, "">> \o parts
        [] OTHER -> <<>>

OrReplace(tokens, before) ==
  At(tokens, 1) = "CREATE" /\ NextWord(tokens, 2, {"REPLACE"}) < before

\* A query, without the `;` after it.
Query(tokens, lo) ==
  LET all == SubSeq(tokens, lo, Len(tokens))
  IN  IF all # <<>> /\ Last(all) = ";" THEN Front(all) ELSE all

-----------------------------------------------------------------------------
(***************************************************************************)
(* Views, tables and schemas.                                              *)
(***************************************************************************)

\* Past IF [NOT] [EXISTS]; a view has no use for them.
PastIf(tokens, i) ==
  LET j == i + 1
      k == IF At(tokens, j) = "NOT" THEN j + 1 ELSE j
  IN  IF At(tokens, i) # "IF" THEN i ELSE IF At(tokens, k) = "EXISTS" THEN k + 1 ELSE k

ViewAt(tokens, view, at, name) ==
  LET as   == NextWord(tokens, PastTarget(tokens, at), {"AS"})
      kind == IF NextWord(tokens, 2, {"MATERIALIZED"}) < view THEN "MATERIALIZED_VIEW" ELSE "VIEW"
  IN  CASE name = <<>> -> Refused
        [] At(tokens, 1) = "DROP" -> [kind |-> "DROP_" \o kind, name |-> name]
        [] as > Len(tokens) -> Refused
        [] OTHER -> [kind |-> "CREATE_" \o kind, name |-> name, query |-> Query(tokens, as + 1),
                     orReplace |-> OrReplace(tokens, view)]

ViewNamed(tokens, view, at) == ViewAt(tokens, view, at, TableName(tokens, at))
ViewDdl(tokens) ==
  LET view == NextWord(tokens, 2, {"VIEW"}) IN ViewNamed(tokens, view, PastIf(tokens, view + 1))

Clusters(tokens, lo, hi) ==
  SelectSeq(Slice(tokens, lo, hi), LAMBDA t : Kind(t) \in {"identifier", "backtick-identifier"})

\* The clauses between the name of a table and its query, in any order: past
\* the one at was.at.
PastClause(tokens, was) ==
  LET i     == was.at
      word  == At(tokens, i)
      until(words) == WordOutside(tokens, i + 2, Len(tokens) + 1, words)
      upTo  == until({"CLUSTER", "OPTIONS", "AS"})
      upTo2 == until({"OPTIONS", "AS"})
      close == Closing(tokens, i + 1, Len(tokens) + 1)
      past(next, told) == [at |-> next, told |-> told]
      ends(told) == past(Len(tokens) + 1, told)
  IN  CASE word \in {"PARTITION", "CLUSTER"} /\ At(tokens, i + 1) # "BY" -> ends(Refused)
        [] word = "PARTITION" -> past(upTo, [was.told EXCEPT !.partitionBy = <<Slice(tokens, i + 2, upTo)>>])
        [] word = "CLUSTER" -> past(upTo2, [was.told EXCEPT !.clusterBy = Clusters(tokens, i + 2, upTo2)])
        [] word = "OPTIONS" /\ (At(tokens, i + 1) # "(" \/ close = 0) -> ends(Refused)
        [] word = "OPTIONS" -> past(close + 1, [was.told EXCEPT !.options = <<Slice(tokens, i + 2, close)>>])
        [] word = "AS" -> ends([was.told EXCEPT !.query = Query(tokens, i + 1)])
        [] OTHER -> was

\* There are fewer clauses than tokens.
Clauses(tokens, i, told) ==
  FoldLeft(LAMBDA was, t : PastClause(tokens, was), [at |-> i, told |-> told], tokens).told

TablePast(tokens, told, past, close) ==
  CASE At(tokens, past) # "(" -> Clauses(tokens, past, told)
    [] close = 0              -> Refused
    [] OTHER                  -> Clauses(tokens, close + 1, told)

TableNamed(tokens, told, name, past) ==
  CASE name = <<>> -> Refused
    [] At(tokens, 1) = "DROP" ->
         [kind |-> "DROP_TABLE", name |-> name, ifExists |-> told.says /\ ~told.missing]
    [] OTHER ->
         TablePast(tokens,
                   [kind |-> "CREATE_TABLE_AS_SELECT", name |-> name, orReplace |-> told.orReplace,
                    ifNotExists |-> told.missing, partitionBy |-> <<>>, clusterBy |-> <<>>,
                    options |-> <<>>, query |-> <<>>],
                   past, Closing(tokens, past, Len(tokens) + 1))

\* TABLE [IF [NOT] [EXISTS]] of a table; any of the words may be missing.
TableFrom(tokens, table) ==
  LET says    == At(tokens, table + 1) = "IF"
      missing == says /\ At(tokens, table + 2) = "NOT"
      at      == PastIf(tokens, table + 1)
  IN  TableNamed(tokens, [says |-> says, missing |-> missing, orReplace |-> OrReplace(tokens, table)],
                 TableName(tokens, at), PastTarget(tokens, at))

TableDdl(tokens) == TableFrom(tokens, NextWord(tokens, 2, {"TABLE"}))

SchemaDdl(tokens) ==
  LET i       == NextWord(tokens, 2, {"SCHEMA"}) + 1
      says    == At(tokens, i) = "IF"
      missing == says /\ At(tokens, i + 1) = "NOT" /\ At(tokens, i + 2) = "EXISTS"
      present == says /\ At(tokens, i + 1) = "EXISTS"
      at      == CASE missing -> i + 3
                   [] present -> i + 2
                   [] OTHER   -> i + (IF says THEN 1 ELSE 0)
                                   + (IF says /\ At(tokens, i + 1) = "NOT" THEN 1 ELSE 0)
      name    == SchemaName(tokens, at)
  IN  IF name = <<>> THEN Refused
      ELSE [kind |-> At(tokens, 1) \o "_SCHEMA", name |-> name, ifExists |-> present,
            ifNotExists |-> missing, cascade |-> Has(tokens, PastTarget(tokens, at), {"CASCADE"})]

-----------------------------------------------------------------------------
(***************************************************************************)
(* Functions and procedures.                                               *)
(***************************************************************************)

\* CREATE [OR REPLACE] [TEMP] and DROP, up to the object.
Preamble(tokens) ==
  LET create  == At(tokens, 1) = "CREATE"
      replace == create /\ At(tokens, 2) = "OR" /\ At(tokens, 3) = "REPLACE"
      i       == IF replace THEN 4 ELSE 2
      temp    == create /\ At(tokens, i) \in {"TEMP", "TEMPORARY"}
  IN  [create |-> create, replace |-> replace, temp |-> temp, next |-> IF temp THEN i + 1 ELSE i]

\* IF NOT EXISTS of a CREATE, IF EXISTS of a DROP: whether, and what follows.
\* An IF that is neither is stepped over.
Guarded(tokens, i, create) ==
  LET says   == At(tokens, i) = "IF"
      not    == says /\ create /\ At(tokens, i + 1) = "NOT"
      word   == IF not THEN i + 2 ELSE i + 1
      exists == says /\ (create => not) /\ At(tokens, word) = "EXISTS"
  IN  [guarded |-> exists, next |-> IF ~says THEN i ELSE IF exists THEN word + 1 ELSE word]

\* Whether the comma at i separates arguments of lo..hi-1.
Separates(tokens, lo, i) ==
  /\ tokens[i] = ","
  /\ Parens(tokens, lo, i) + Open(tokens, lo, i, "<", ">") = 0

\* name type, name type, ...; with modes IN, OUT and INOUT for a procedure.
ArgumentsOf(parts, modes) ==
  LET moded(p) == modes /\ At(p, 1) \in {"IN", "OUT", "INOUT"} /\ IsName(p, 2)
      arg(p)  == LET at == IF moded(p) THEN 2 ELSE 1
                 IN  [name |-> p[at], type |-> SubSeq(p, at + 1, Len(p)),
                      mode |-> IF moded(p) THEN At(p, 1) ELSE "IN"]
  IN  IF \A k \in DOMAIN parts : IsName(parts[k], 1)
      THEN [good |-> TRUE, args |-> [k \in DOMAIN parts |-> arg(parts[k])]]
      ELSE [good |-> FALSE, args |-> <<>>]

Arguments(tokens, lo, hi, modes) ==
  LET commas == SelectSeq(Positions(lo, hi), LAMBDA i : Separates(tokens, lo, i))
  IN  ArgumentsOf(Parts(tokens, lo, Append(commas, hi)), modes)

TypeStops == {"AS", "LANGUAGE", "OPTIONS", "DETERMINISTIC", "NOT"}

\* Where a type that starts at lo ends.
PastType(tokens, lo) ==
  First({i \in lo..Len(tokens) : /\ At(tokens, i) \in TypeStops
                                 /\ Parens(tokens, lo, i) + Open(tokens, lo, i, "<", ">") = 0},
        Len(tokens) + 1)

Strings(tokens, lo, hi) ==
  LET found == SelectSeq(Slice(tokens, lo, hi), LAMBDA t : Kind(t) = "string")
  IN  [k \in DOMAIN found |-> Quoted[found[k]]]

\* library = "url" and library = ["url", ...] among the options of lo..hi-1:
\* past the token or the option at was.at.
PastOption(tokens, was, hi) ==
  LET lo    == was.at
      value == lo + 2
      array == At(tokens, value) = "["
      close == SquareClosing(tokens, value, Len(tokens) + 1)
      next  == IF array THEN close + 1 ELSE value + 1
      past(at, urls) == [at |-> at, urls |-> urls]
  IN  CASE lo >= hi -> was
        [] ~IsName(tokens, lo) \/ At(tokens, lo + 1) # "=" -> past(lo + 1, <<>>)
        [] At(tokens, lo) = "LIBRARY" /\ IsString(tokens, value) -> past(hi, <<Quoted[tokens[value]]>>)
        [] At(tokens, lo) = "LIBRARY" /\ array -> past(hi, Strings(tokens, value + 1, close))
        [] OTHER -> past(IF At(tokens, next) = "," THEN next + 1 ELSE next, <<>>)

Libraries(tokens, lo, hi) ==
  FoldLeft(LAMBDA was, t : PastOption(tokens, was, hi), [at |-> lo, urls |-> <<>>], tokens).urls

Languages == [SQL |-> "SQL", JS |-> "JAVASCRIPT", JAVASCRIPT |-> "JAVASCRIPT"]

\* From AS on, where a body in parentheses would end at last.
FunctionBody(tokens, told, as, last) ==
  CASE At(tokens, as) # "AS"     -> Refused
    [] IsString(tokens, as + 1) -> told @@ [body |-> Quoted[tokens[as + 1]]]
    [] At(tokens, as + 1) # "(" \/ last = 0 -> Refused
    [] OTHER -> told @@ [body |-> Slice(tokens, as + 2, last)]
FunctionAs(tokens, told, as) == FunctionBody(tokens, told, as, Closing(tokens, as + 1, Len(tokens) + 1))

\* [OPTIONS (...)] at position i.
FunctionOptions(tokens, told, i, done) ==
  CASE At(tokens, i) # "OPTIONS" -> FunctionAs(tokens, told @@ [libraries |-> <<>>], i)
    [] At(tokens, i + 1) # "(" \/ done = 0 -> Refused
    [] OTHER -> FunctionAs(tokens, told @@ [libraries |-> Libraries(tokens, i + 2, done)], done + 1)
FunctionSpoken(tokens, told, i) == FunctionOptions(tokens, told, i, Closing(tokens, i + 1, Len(tokens) + 1))

\* [LANGUAGE name] at position i.
FunctionLanguage(tokens, told, i) ==
  CASE At(tokens, i) # "LANGUAGE" -> FunctionSpoken(tokens, told @@ [language |-> "SQL"], i)
    [] At(tokens, i + 1) \notin DOMAIN Languages -> Refused
    [] OTHER -> FunctionSpoken(tokens, told @@ [language |-> Languages[At(tokens, i + 1)]], i + 2)

\* [RETURNS type] at position i; the type would end at typed.
FunctionReturns(tokens, told, i, typed) ==
  IF At(tokens, i) = "RETURNS"
  THEN FunctionLanguage(tokens, told @@ [returns |-> Slice(tokens, i + 1, typed)], typed)
  ELSE FunctionLanguage(tokens, told @@ [returns |-> <<>>], i)
FunctionArgs(tokens, told, args, i) ==
  IF args.good THEN FunctionReturns(tokens, told @@ [args |-> args.args], i, PastType(tokens, i + 1))
  ELSE Refused

\* The arguments between the brackets at open and close.
FunctionOpen(tokens, told, open, close) ==
  IF At(tokens, open) # "(" \/ close = 0 THEN Refused
  ELSE FunctionArgs(tokens, told, Arguments(tokens, open + 1, close, FALSE), close + 1)

FunctionNamed(tokens, head, if, kind, name, open) ==
  CASE name = <<>>  -> Refused
    [] ~head.create -> [kind |-> "DROP_" \o kind, name |-> name, ifExists |-> if.guarded]
    [] OTHER ->
         FunctionOpen(tokens, [kind |-> "CREATE_" \o kind, name |-> name, temp |-> head.temp,
                               orReplace |-> head.replace, ifNotExists |-> if.guarded],
                      open, Closing(tokens, open, Len(tokens) + 1))

FunctionGuarded(tokens, head, if, kind) ==
  FunctionNamed(tokens, head, if, kind, RoutineName(tokens, if.next, head.temp), PastTarget(tokens, if.next))

FunctionFrom(tokens, head) ==
  LET table == At(tokens, head.next) = "TABLE"
      word  == IF table THEN head.next + 1 ELSE head.next
  IN  IF At(tokens, word) # "FUNCTION" THEN Refused
      ELSE FunctionGuarded(tokens, head, Guarded(tokens, word + 1, head.create),
                           IF table THEN "TABLE_FUNCTION" ELSE "FUNCTION")

FunctionDdl(tokens) == FunctionFrom(tokens, Preamble(tokens))

\* Past the END that matches the BEGIN at position begin, or past the text.
PastBody(tokens, begin) ==
  LET end == FirstOutside(tokens, begin + 1, Len(tokens) + 1,
                          {i \in (begin + 1)..Len(tokens) : At(tokens, i) = "END"})
  IN  Min({end + 1, Len(tokens) + 1})

ProcedureFrom(tokens, told, args, begin) ==
  IF ~args.good \/ begin = 0 \/ At(tokens, begin) # "BEGIN" THEN Refused
  ELSE told @@ [args |-> args.args, body |-> Slice(tokens, begin, PastBody(tokens, begin))]

\* Past [OPTIONS (...)] at position i; 0 when it is not closed.
PastOptions(tokens, i, done) ==
  CASE ~(At(tokens, i) = "OPTIONS" /\ At(tokens, i + 1) = "(") -> i
    [] done = 0 -> 0
    [] OTHER    -> done + 1

ProcedureOpen(tokens, told, open, close) ==
  IF At(tokens, open) # "(" \/ close = 0 THEN Refused
  ELSE ProcedureFrom(tokens, told, Arguments(tokens, open + 1, close, TRUE),
                     PastOptions(tokens, close + 1, Closing(tokens, close + 2, Len(tokens) + 1)))

ProcedureNamed(tokens, head, if, name, open) ==
  CASE name = <<>>  -> Refused
    [] ~head.create -> [kind |-> "DROP_PROCEDURE", name |-> name, ifExists |-> if.guarded]
    [] OTHER ->
         ProcedureOpen(tokens, [kind |-> "CREATE_PROCEDURE", name |-> name, orReplace |-> head.replace,
                                ifNotExists |-> if.guarded],
                       open, Closing(tokens, open, Len(tokens) + 1))

ProcedureGuarded(tokens, head, if) ==
  ProcedureNamed(tokens, head, if, RoutineName(tokens, if.next, FALSE), PastTarget(tokens, if.next))

ProcedureAfter(tokens, head) ==
  IF head.temp \/ At(tokens, head.next) # "PROCEDURE" THEN Refused
  ELSE ProcedureGuarded(tokens, head, Guarded(tokens, head.next + 1, head.create))

ProcedureDdl(tokens) == ProcedureAfter(tokens, Preamble(tokens))

\* What executeQuery takes a DDL statement to be about.
Target(tokens) ==
  LET type == StatementType(tokens)
  IN  CASE type \in {"CREATE_VIEW", "DROP_VIEW", "CREATE_MATERIALIZED_VIEW", "DROP_MATERIALIZED_VIEW"} ->
             ViewDdl(tokens)
        [] type \in {"CREATE_TABLE_AS_SELECT", "DROP_TABLE"} -> TableDdl(tokens)
        [] type \in {"CREATE_SCHEMA", "DROP_SCHEMA"} -> SchemaDdl(tokens)
        [] type \in {"CREATE_FUNCTION", "DROP_FUNCTION", "CREATE_TABLE_FUNCTION", "DROP_TABLE_FUNCTION"} ->
             FunctionDdl(tokens)
        [] type \in {"CREATE_PROCEDURE", "DROP_PROCEDURE"} -> ProcedureDdl(tokens)
        [] OTHER -> [kind |-> type]
=============================================================================
