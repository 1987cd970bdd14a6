----------------------------- MODULE ScriptSyntax -----------------------------
(***************************************************************************)
(* The parser of BigQuery scripts (src/sql/script.ts): from tokens to      *)
(* statements.  Expressions and plain SQL stay sequences of tokens.  A     *)
(* parse that throws gives Bad.                                            *)
(***************************************************************************)
EXTENDS ScriptTypes

Parsed(stmt, next) == [stmt |-> stmt, next |-> next]
Throw == Parsed(Bad, 1)
Sensible(cond, stmt, next) == IF cond THEN Parsed(stmt, next) ELSE Throw

\* DECLARE a, b type [DEFAULT expr]
Declare(tokens, lo, hi) ==
  LET l     == Listed(tokens, lo + 1, hi)
      type  == At(tokens, l.next)
      upTo  == WordOrSemi(tokens, l.next, hi, {"DEFAULT"})
      given == At(tokens, upTo) = "DEFAULT"
      end   == IF given THEN EndOfStatement(tokens, upTo + 1, hi) ELSE upTo
  IN  IF ~(l.good /\ l.names # <<>> /\ l.next < upTo /\ type \in DOMAIN Aliases) THEN Throw
      ELSE Parsed([kind  |-> "DECLARE", names |-> l.names, type |-> Aliases[type],
                   expr  |-> IF given THEN <<Slice(tokens, upTo + 1, end)>> ELSE <<>>], end)

\* SET a = expr
SetScalar(tokens, i, hi) ==
  LET end == EndOfStatement(tokens, i + 2, hi)
  IN  Sensible(IsName(tokens, i) /\ At(tokens, i + 1) = "=",
               [kind |-> "SET_SCALAR", name |-> tokens[i], expr |-> Slice(tokens, i + 2, end)], end)

\* SET (a, b) = (expr, expr) and SET (a, b) = (SELECT ...)
SetTuple(tokens, i, hi) ==
  LET close == Closing(tokens, i, hi)
      names == SelectSeq(Slice(tokens, i + 1, close), LAMBDA t : t # ",")
      open  == close + 2
      end   == Closing(tokens, open, hi)
  IN  IF \/ close = 0
         \/ \E k \in DOMAIN names : Kind(names[k]) # "identifier"
         \/ At(tokens, close + 1) # "="
         \/ At(tokens, open) # "("
         \/ end = 0
      THEN Throw
      ELSE Parsed(IF At(tokens, open + 1) \in {"SELECT", "WITH"}
                  THEN [kind |-> "SET_SUBQUERY", names |-> names, sql |-> Slice(tokens, open + 1, end)]
                  ELSE [kind |-> "SET_TUPLE", names |-> names, exprs |-> Pieces(tokens, open + 1, end)],
                  end + 1)

Set(tokens, lo, hi) ==
  IF At(tokens, lo + 1) = "(" THEN SetTuple(tokens, lo + 1, hi) ELSE SetScalar(tokens, lo + 1, hi)

\* EXECUTE IMMEDIATE expr [INTO a, b] [USING expr [AS name], ...]
Clause(p, as) == [expr |-> SubSeq(p, 1, as - 1), name |-> IF as < Len(p) THEN <<p[as + 1]>> ELSE <<>>,
                  good |-> as > 1 /\ (as <= Len(p) => IsName(p, as + 1))]
Using(tokens, i, end) ==
  LET pieces == Pieces(tokens, i, end)
  IN  [k \in DOMAIN pieces |-> Clause(pieces[k], WordOutside(pieces[k], 1, Len(pieces[k]) + 1, {"AS"}))]

Dynamic(expr, into, using) ==
  [kind |-> "EXECUTE_IMMEDIATE", expr |-> expr, into |-> into, using |-> using]

\* USING at position at, its clauses up to end.
UsingTo(tokens, expr, into, at, end, hi) ==
  LET clauses == Using(tokens, at + 1, end)
  IN  Sensible((end < hi => At(tokens, end - 1) \notin {",", "USING"}) /\ \A k \in DOMAIN clauses : clauses[k].good,
               Dynamic(expr, into, clauses), end)

AfterInto(tokens, expr, into, at, hi) ==
  IF At(tokens, at) # "USING" THEN Parsed(Dynamic(expr, into, <<>>), at)
  ELSE UsingTo(tokens, expr, into, at,
               First({k \in (at + 1)..(hi - 1) : tokens[k] = ";" /\ Parens(tokens, at + 1, k) = 0}, hi), hi)

Into(tokens, expr, l, hi) == IF l.good THEN AfterInto(tokens, expr, l.names, l.next, hi) ELSE Throw

ExecuteTo(tokens, i, upTo, hi) ==
  IF upTo = i THEN Throw
  ELSE IF At(tokens, upTo) = "INTO" THEN Into(tokens, Slice(tokens, i, upTo), Listed(tokens, upTo + 1, hi), hi)
  ELSE AfterInto(tokens, Slice(tokens, i, upTo), <<>>, upTo, hi)

ExecuteImmediate(tokens, at, hi) ==
  ExecuteTo(tokens, at + 1, WordOrSemi(tokens, at + 1, hi, {"INTO", "USING"}), hi)

\* CALL dataset.procedure(expr, ...)
CallTarget(tokens, i) ==
  IF i \in DOMAIN tokens /\ Kind(tokens[i]) = "backtick-identifier"
  THEN [parts |-> Ticked[tokens[i]], next |-> i + 1]
  ELSE IF IsName(tokens, i) THEN Dotted(tokens, i) ELSE [parts |-> <<>>, next |-> i]

Call(tokens, lo, hi) ==
  LET target == CallTarget(tokens, lo + 1)
      open   == target.next
      close  == Closing(tokens, open, hi)
  IN  IF Len(target.parts) \notin {2, 3} \/ At(tokens, open) # "(" \/ close = 0 THEN Throw
      ELSE Parsed([kind |-> "CALL", name |-> target.parts, args |-> Pieces(tokens, open + 1, close)],
                  close + 1)

SqlUntilSemi(tokens, lo, hi) ==
  LET end == EndOfStatement(tokens, lo, hi)
  IN  Parsed([kind |-> "SQL", sql |-> Slice(tokens, lo, end)], end)

-----------------------------------------------------------------------------
RECURSIVE Statements(_, _, _)

\* A compound statement with its body and the words from position end on that
\* close it.
Closes(tokens, end, words) ==
  \A k \in DOMAIN words : At(tokens, end + k - 1) = words[k]
Completed(stmt, good, next) == Sensible(good /\ ~Broken(stmt.body), stmt, next)
Compound(tokens, head, lo, end, words) ==
  Completed(head @@ [body |-> Statements(tokens, lo, end)],
            Closes(tokens, end, words), end + Len(words))

\* BEGIN ... END
Block(tokens, lo, hi) ==
  Compound(tokens, [kind |-> "BLOCK"], lo + 1, EndOfCompound(tokens, lo + 1, hi, ""), <<"END">>)

\* LOOP ... END LOOP
Loop(tokens, lo, hi) ==
  Compound(tokens, [kind |-> "LOOP"], lo + 1, EndOfCompound(tokens, lo + 1, hi, "LOOP"),
           <<"END", "LOOP">>)

\* WHILE expr DO ... END WHILE
While(tokens, lo, hi) ==
  LET do == WordOutside(tokens, lo + 1, hi, {"DO"})
  IN  IF At(tokens, do) # "DO" THEN Throw
      ELSE Compound(tokens, [kind |-> "WHILE", cond |-> Slice(tokens, lo + 1, do)], do + 1,
                    EndOfCompound(tokens, do + 1, hi, "WHILE"), <<"END", "WHILE">>)

\* REPEAT ... UNTIL expr END REPEAT
Until(tokens, until, end, body) ==
  Completed([kind |-> "REPEAT", cond |-> Slice(tokens, until + 1, end), body |-> body],
            At(tokens, until) = "UNTIL" /\ Closes(tokens, end, <<"END", "REPEAT">>), end + 2)
RepeatTo(tokens, lo, until, hi) ==
  Until(tokens, until, WordOutside(tokens, until + 1, hi, {"END"}), Statements(tokens, lo + 1, until))
Repeat(tokens, lo, hi) == RepeatTo(tokens, lo, EndOfRepeat(tokens, lo + 1, hi), hi)

\* FOR row IN (SELECT ...) DO ... END FOR
ForFrom(tokens, lo, close, hi) ==
  IF \/ ~IsName(tokens, lo + 1) \/ At(tokens, lo + 2) # "IN" \/ At(tokens, lo + 3) # "("
     \/ close = 0 \/ At(tokens, close + 1) # "DO"
  THEN Throw
  ELSE Compound(tokens, [kind |-> "FOR", name |-> tokens[lo + 1], sql |-> Slice(tokens, lo + 4, close)],
                close + 2, EndOfCompound(tokens, close + 2, hi, "FOR"), <<"END", "FOR">>)
For(tokens, lo, hi) == ForFrom(tokens, lo, Closing(tokens, lo + 3, hi), hi)

\* IF expr THEN ... [ELSEIF expr THEN ...] [ELSE ...] END IF, from an expr on.
\* A branch is read to the word that ends it, at position end.
If(branches, els) == [kind |-> "IF", branches |-> branches, els |-> els]
Joined(first, rest) ==
  Sensible(rest.stmt # Bad, [rest.stmt EXCEPT !.branches = <<first>> \o @], rest.next)
Otherwise(tokens, first, els, end) ==
  Sensible(~Broken(els) /\ Closes(tokens, end, <<"END", "IF">>), If(<<first>>, els), end + 2)
ElseTo(tokens, first, lo, end) == Otherwise(tokens, first, Statements(tokens, lo, end), end)

RECURSIVE Branches(_, _, _)
AfterBranch(tokens, first, end, hi) ==
  CASE Broken(first.body)         -> Throw
    [] At(tokens, end) = "ELSEIF" -> Joined(first, Branches(tokens, end + 1, hi))
    [] At(tokens, end) = "ELSE"   -> ElseTo(tokens, first, end + 1, EndOfBranch(tokens, end + 1, hi))
    [] OTHER -> Sensible(Closes(tokens, end, <<"END", "IF">>), If(<<first>>, <<>>), end + 2)
BranchTo(tokens, i, then, end, hi) ==
  AfterBranch(tokens, [cond |-> Slice(tokens, i, then), body |-> Statements(tokens, then + 1, end)], end, hi)
Branches(tokens, i, hi) ==
  LET then == WordOutside(tokens, i, hi, {"THEN"})
  IN  IF At(tokens, then) # "THEN" THEN Throw
      ELSE BranchTo(tokens, i, then, EndOfBranch(tokens, then + 1, hi), hi)

Signals == [BREAK |-> "BREAK", LEAVE |-> "BREAK", CONTINUE |-> "CONTINUE",
            ITERATE |-> "CONTINUE", RETURN |-> "RETURN"]

Single(tokens, lo, hi) ==
  LET word == At(tokens, lo)
      next == At(tokens, lo + 1)
  IN  CASE word = "DECLARE" -> Declare(tokens, lo, hi)
        [] word = "SET"     -> Set(tokens, lo, hi)
        [] word = "IF"      -> Branches(tokens, lo + 1, hi)
        [] word = "LOOP"    -> Loop(tokens, lo, hi)
        [] word = "WHILE"   -> While(tokens, lo, hi)
        [] word = "REPEAT"  -> Repeat(tokens, lo, hi)
        [] word = "FOR"     -> For(tokens, lo, hi)
        [] word = "CALL"    -> Call(tokens, lo, hi)
        [] word \in DOMAIN Signals -> Parsed([kind |-> Signals[word]], lo + 1)
        [] word = "EXECUTE" /\ next = "IMMEDIATE" -> ExecuteImmediate(tokens, lo + 1, hi)
        [] word = "BEGIN" /\ next # "TRANSACTION" -> Block(tokens, lo, hi)
        [] OTHER -> SqlUntilSemi(tokens, lo, hi)

\* The statements in lo..hi-1; <<Bad>> when one of them does not parse.
Before(one, rest) == IF one.stmt = Bad \/ Broken(rest) THEN <<Bad>> ELSE <<one.stmt>> \o rest
Following(tokens, one, hi) == Before(one, Statements(tokens, one.next, hi))
Statements(tokens, lo, hi) ==
  IF lo >= hi THEN <<>>
  ELSE IF tokens[lo] = ";" THEN Statements(tokens, lo + 1, hi)
  ELSE Following(tokens, Single(tokens, lo, hi), hi)

ParseTokens(tokens) == Statements(tokens, 1, Len(tokens) + 1)
Parse(text) == ParseTokens(Tokenize(text))
=============================================================================
