------------------------------ MODULE SqlTokens ------------------------------
(***************************************************************************)
(* Tokens of a SQL text and the walks over them that the script            *)
(* interpreter (src/sql/script.ts) and the DDL parsers (src/sql/ddl.ts)    *)
(* share.                                                                  *)
(*                                                                         *)
(* A token is a string.  What characters it is made of does not matter,    *)
(* only its kind, and for a keyword or a name which one it is.  A position *)
(* is one more than the code's, and a range lo..hi-1 is given by lo and    *)
(* hi, as in the code.                                                     *)
(***************************************************************************)
EXTENDS Integers, Sequences, FiniteSets, SequencesExt

CONSTANTS
  Spelling,  \* what a word that is not in upper case is in upper case
  Quoted,    \* the tokens in a string literal
  Ticked     \* the dotted parts in a backtick identifier (written between bars here)

Punctuation == {"(", ")", ",", ";", ".", "[", "]"}
Operators   == {"+", "=", "<", ">", "?"}
Digits      == {"0", "1", "2", "3"}
Trivia      == {" ", "--"}

\* readToken, for the tokens of the texts.
Kind(t) ==
  CASE t \in Trivia         -> "trivia"
    [] t \in Punctuation    -> "punctuation"
    [] t \in Operators      -> "operator"
    [] t \in Digits         -> "number"
    [] t \in DOMAIN Quoted  -> "string"
    [] t \in DOMAIN Ticked  -> "backtick-identifier"
    [] t \in {"@a", "@b"}   -> "parameter"
    [] OTHER                -> "identifier"

Upper(t) == IF t \in DOMAIN Spelling THEN Spelling[t] ELSE t

\* Every walk steps over white space and comments: they are dropped here.
Tokenize(text) == SelectSeq(text, LAMBDA t : Kind(t) # "trivia")

At(tokens, i)      == IF i \in DOMAIN tokens THEN Upper(tokens[i]) ELSE ""
IsName(tokens, i)  == i \in DOMAIN tokens /\ Kind(tokens[i]) = "identifier"
IsString(tokens, i) == i \in DOMAIN tokens /\ Kind(tokens[i]) = "string"
Slice(tokens, lo, hi) == SubSeq(tokens, lo, hi - 1)

\* The first of the positions found, or hi; and all that a walk passes.
First(found, hi) == IF found = {} THEN hi ELSE Min(found)
Positions(lo, hi) == [k \in 1..(hi - lo) |-> lo + k - 1]

\* How many brackets are open after position i of a walk that starts at lo.
Open(tokens, lo, i, open, close) ==
  Cardinality({k \in lo..i : tokens[k] = open}) - Cardinality({k \in lo..i : tokens[k] = close})
Parens(tokens, lo, i) == Open(tokens, lo, i, "(", ")")

\* The word that ends a clause, outside parentheses.
WordOutside(tokens, lo, hi, words) ==
  First({i \in lo..(hi - 1) : At(tokens, i) \in words /\ Parens(tokens, lo, i) = 0}, hi)

WordOrSemi(tokens, lo, hi, words) == WordOutside(tokens, lo, hi, words \cup {";"})

\* The bracket that closes the one at position open; 0 when there is none.
Closing(tokens, open, hi) ==
  LET at == First({i \in open..(hi - 1) : Parens(tokens, open, i) = 0}, hi)
  IN  IF at = hi THEN 0 ELSE at

SquareClosing(tokens, open, hi) ==
  LET at == First({i \in open..(hi - 1) : Open(tokens, open, i, "[", "]") = 0}, hi)
  IN  IF at = hi THEN hi - 1 ELSE at

Openers  == {"BEGIN", "IF", "LOOP", "WHILE", "REPEAT", "FOR"}
EndWords == Openers \ {"BEGIN"}
Marks    == Openers \cup {"END", "ELSEIF", "ELSE", "UNTIL"}

\* The first of the marks m that is among the ends and in no compound statement,
\* or hi.  The word after an END that closes one opens none.
FirstAmong(tokens, m, hi, ends) ==
  LET walk[k \in DOMAIN m] ==
        IF k = 1 THEN [depth |-> 0, over |-> FALSE]
        ELSE LET was == walk[k - 1]
                 t   == At(tokens, m[k - 1])
             IN  CASE t \in Openers /\ ~was.over -> [depth |-> was.depth + 1, over |-> FALSE]
                   [] t = "END" /\ was.depth > 0 ->
                        [depth |-> was.depth - 1,
                         over  |-> m[k] = m[k - 1] + 1 /\ At(tokens, m[k]) \in EndWords]
                   [] OTHER -> [depth |-> was.depth, over |-> FALSE]
  IN  Append(m, hi)[First({j \in DOMAIN m : m[j] \in ends /\ walk[j].depth = 0}, Len(m) + 1)]

FirstOutside(tokens, lo, hi, ends) ==
  FirstAmong(tokens, SelectSeq(Positions(lo, hi), LAMBDA i : At(tokens, i) \in Marks), hi, ends)

\* Where the body of a compound statement ends.
EndOfCompound(tokens, lo, hi, word) ==
  FirstOutside(tokens, lo, hi,
               {i \in lo..(hi - 1) : /\ At(tokens, i) = "END"
                                     /\ IF word = "" THEN At(tokens, i + 1) \notin EndWords
                                                     ELSE At(tokens, i + 1) = word})

EndOfBranch(tokens, lo, hi) ==
  FirstOutside(tokens, lo, hi, {i \in lo..(hi - 1) : At(tokens, i) \in {"ELSEIF", "ELSE", "END"}})

EndOfRepeat(tokens, lo, hi) ==
  FirstOutside(tokens, lo, hi, {i \in lo..(hi - 1) : At(tokens, i) = "UNTIL"})

\* The `;` that ends a statement.  Any opener raises the depth, also IF( and
\* the BEGIN of BEGIN TRANSACTION, and any END lowers it, also that of CASE.
EndAmong(tokens, m, lo, hi) ==
  LET deep[k \in DOMAIN m] ==
        IF k = 1 THEN 0
        ELSE LET was == deep[k - 1]
                 t   == At(tokens, m[k - 1])
             IN  CASE t \in Openers -> was + 1
                   [] t = "END" /\ was > 0 -> was - 1
                   [] OTHER -> was
      ends(k) == tokens[m[k]] = ";" /\ Parens(tokens, lo, m[k]) = 0 /\ deep[k] = 0
  IN  Append(m, hi)[First({k \in DOMAIN m : ends(k)}, Len(m) + 1)]

EndOfStatement(tokens, lo, hi) ==
  EndAmong(tokens, SelectSeq(Positions(lo, hi), LAMBDA i : At(tokens, i) \in Openers \cup {"END", ";"}),
           lo, hi)

\* The parts of a range that starts at lo and is cut at the positions cuts;
\* the last one is left out when it is empty.
CutAt(tokens, lo, cuts) ==
  [k \in DOMAIN cuts |-> Slice(tokens, IF k = 1 THEN lo ELSE cuts[k - 1] + 1, cuts[k])]
Filled(parts) == IF Last(parts) = <<>> THEN Front(parts) ELSE parts
Parts(tokens, lo, cuts) == Filled(CutAt(tokens, lo, cuts))

\* The pieces of lo..hi-1 between the commas outside brackets.
Pieces(tokens, lo, hi) ==
  LET commas == SelectSeq(Positions(lo, hi),
                          LAMBDA i : tokens[i] = "," /\ Parens(tokens, lo, i) = 0)
  IN  Parts(tokens, lo, Append(commas, hi))

\* Names a, b, c from lo: the names, and the first position after them.
Listed(tokens, lo, hi) ==
  LET next == First({i \in lo..(hi - 1) : (i - lo) % 2 = 1 /\ tokens[i] # ","}, hi)
  IN  [names |-> [k \in 1..((next - lo + 1) \div 2) |-> tokens[lo + 2 * (k - 1)]],
       next  |-> next,
       good  |-> \A k \in lo..(next - 1) : (k - lo) % 2 = 0 => IsName(tokens, k)]

\* Identifiers joined by dots from position i.
Dotted(tokens, i) ==
  LET next == First({k \in (i + 1)..Len(tokens) : IF (k - i) % 2 = 1 THEN tokens[k] # "."
                                                 ELSE ~IsName(tokens, k)}, Len(tokens) + 1)
      last == IF (next - i) % 2 = 1 THEN next ELSE next - 1   \* a dot before no name stays
  IN  [parts |-> [k \in 1..((last - i + 1) \div 2) |-> tokens[i + 2 * (k - 1)]], next |-> last]
=============================================================================
