----------------------------- MODULE ScriptMeaning -----------------------------
(***************************************************************************)
(* What a script means, said a second time and without a stack: programs   *)
(* as trees, the text of a tree, and what a tree computes.  The programs   *)
(* have two INT64 variables x and y and FOR rows with a column v.          *)
(***************************************************************************)
EXTENDS Integers, Sequences, SequencesExt

CONSTANTS Limit,   \* the largest INT64
          Source   \* the rows a FOR reads: a sequence of numbers

Inc         == [do |-> "inc"]
Break_      == [do |-> "break"]
Continue_   == [do |-> "continue"]
Return_     == [do |-> "return"]
Show        == [do |-> "show"]
Add(row)    == [do |-> "add", row |-> row]
IfElse(branches, els) == [do |-> "if", branches |-> branches, els |-> els]
When(cond, body) == [cond |-> cond, body |-> body]
Block_(body) == [do |-> "block", body |-> body]
Loop_(body) == [do |-> "loop", body |-> body]
While_(cond, body)  == [do |-> "while", cond |-> cond, body |-> body]
Repeat_(body, cond) == [do |-> "repeat", cond |-> cond, body |-> body]
For_(row, body) == [do |-> "for", row |-> row, body |-> body]

\* A condition: which sides of a < b there are.
Under(n) == <<"x", "<", n>>
Over(n)  == <<n, "<", "x">>

Value == [n \in {"0", "1", "2", "3"} |-> CASE n = "0" -> 0 [] n = "1" -> 1 [] n = "2" -> 2 [] n = "3" -> 3]
Side(a, env)  == IF a = "x" THEN env.x ELSE Value[a]
Holds(c, env) == Side(c[1], env) < Side(c[3], env)

-----------------------------------------------------------------------------
RECURSIVE TextOfAll(_), TextOfOne(_)
TextOfOne(s) ==
  LET body == TextOfAll(s.body)
      arm(k) == (IF k = 1 THEN <<"IF">> ELSE <<"ELSEIF">>) \o s.branches[k].cond \o <<"THEN">>
                \o TextOfAll(s.branches[k].body)
  IN  CASE s.do = "inc"      -> <<"SET", "x", "=", "x", "+", "1">>
        [] s.do = "add"      -> <<"SET", "y", "=", "y", "+", s.row, ".", "v">>
        [] s.do = "show"     -> <<"SELECT", "x">>
        [] s.do = "break"    -> <<"BREAK">>
        [] s.do = "continue" -> <<"ITERATE">>
        [] s.do = "return"   -> <<"RETURN">>
        [] s.do = "block"    -> <<"BEGIN">> \o body \o <<"END">>
        [] s.do = "loop"     -> <<"LOOP">> \o body \o <<"END", "LOOP">>
        [] s.do = "while"    -> <<"WHILE">> \o s.cond \o <<"DO">> \o body \o <<"END", "WHILE">>
        [] s.do = "repeat"   -> <<"REPEAT">> \o body \o <<"UNTIL">> \o s.cond \o <<"END", "REPEAT">>
        [] s.do = "for"      -> <<"FOR", s.row, "IN", "(", "SELECT", "v", "FROM", "|d.u|", ")", "DO">>
                                \o body \o <<"END", "FOR">>
        [] OTHER -> FlattenSeq([k \in DOMAIN s.branches |-> arm(k)])
                    \o (IF s.els = <<>> THEN <<>> ELSE <<"ELSE">> \o TextOfAll(s.els))
                    \o <<"END", "IF">>
TextOfAll(list) == FlattenSeq([k \in DOMAIN list |-> TextOfOne(list[k]) \o <<" ", ";">>])

-----------------------------------------------------------------------------
\* How far it got: "on", or what it is on its way out for.
Start == [x |-> 0, y |-> 0, rows |-> [r \in {} |-> 0], shown |-> <<>>, how |-> "on"]
With_(f, k, v) == [j \in DOMAIN f \cup {k} |-> IF j = k THEN v ELSE f[j]]

RECURSIVE DoAll(_, _), Do(_, _), Around(_, _), Over_(_, _, _)
DoAll(list, env) ==
  IF list = <<>> \/ env.how # "on" THEN env ELSE DoAll(Tail(list), Do(Head(list), env))

\* A loop, from a test of its condition or a start of its body on.
Around(s, env) ==
  IF s.do = "while" /\ ~Holds(s.cond, env) THEN env
  ELSE LET e == DoAll(s.body, env)
           n == [e EXCEPT !.how = "on"]
       IN  CASE e.how \in {"return", "error"} -> e
             [] e.how = "break" -> n
             [] s.do = "repeat" /\ Holds(s.cond, n) -> n
             [] OTHER -> Around(s, n)

\* A FOR over the rows that are left.
Over_(s, rows, env) ==
  IF rows = <<>> THEN env
  ELSE LET e == DoAll(s.body, [env EXCEPT !.rows = With_(@, s.row, Head(rows))])
           n == [e EXCEPT !.rows = env.rows]
       IN  CASE e.how \in {"return", "error"} -> n
             [] e.how = "break" -> [n EXCEPT !.how = "on"]
             [] OTHER -> Over_(s, Tail(rows), [n EXCEPT !.how = "on"])

Do(s, env) ==
  CASE s.do = "inc" -> IF env.x = Limit THEN [env EXCEPT !.how = "error"] ELSE [env EXCEPT !.x = @ + 1]
    [] s.do = "add" -> IF env.y + env.rows[s.row] > Limit THEN [env EXCEPT !.how = "error"]
                       ELSE [env EXCEPT !.y = @ + env.rows[s.row]]
    [] s.do = "show" -> [env EXCEPT !.shown = <<env.x>>]
    [] s.do \in {"break", "continue", "return"} -> [env EXCEPT !.how = s.do]
    [] s.do = "block" -> DoAll(s.body, env)
    [] s.do \in {"loop", "while", "repeat"} -> Around(s, env)
    [] s.do = "for" -> Over_(s, Source, env)
    [] OTHER -> LET hits == {k \in DOMAIN s.branches : Holds(s.branches[k].cond, env)}
                IN  DoAll(IF hits = {} THEN s.els ELSE s.branches[Min(hits)].body, env)

\* What a program comes to, from x = 0 and y = 0 on.
Meaning(list) == DoAll(list, Start)

-----------------------------------------------------------------------------
(***************************************************************************)
(* Programs: one construct in another, with something to do in the inner.  *)
(***************************************************************************)

\* inner, in each construct; x grows with every turn of a loop.
Constructs(row, inner) ==
  {IfElse(<<When(Under("2"), inner)>>, <<>>),
   IfElse(<<When(Over("1"), <<Inc>>), When(Under("1"), inner)>>, <<Inc>> \o inner),
   Block_(<<Inc>> \o inner),
   Loop_(<<Inc>> \o inner \o <<IfElse(<<When(Over("2"), <<Break_>>)>>, <<>>)>>),
   While_(Under("3"), <<Inc>> \o inner),
   Repeat_(<<Inc>> \o inner, Over("2")),
   For_(row, <<Inc, Add(row)>> \o inner)}

Leaves == {<<Inc>>, <<Show>>, <<Break_, Inc>>, <<Continue_, Inc>>, <<Return_, Inc>>}

Programs == UNION {UNION {Constructs("r", <<c>>) : c \in Constructs("q", leaf)} : leaf \in Leaves}
=============================================================================
