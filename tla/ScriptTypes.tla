----------------------------- MODULE ScriptTypes -----------------------------
(***************************************************************************)
(* What the parser and the interpreter of scripts (src/sql/script.ts)      *)
(* share: the types of variables, and what a parse that throws gives.      *)
(***************************************************************************)
EXTENDS SqlTokens

Bad == [kind |-> "BAD"]
Broken(body) == body = <<Bad>>

\* The names of the types; no other name is one.
Aliases == [INT64 |-> "INT64", INTEGER |-> "INT64", BOOL |-> "BOOL", BOOLEAN |-> "BOOL",
            STRING |-> "STRING"]

\* The DuckDB type a value of each is cast to.
DuckTypes == {"BIGINT", "BOOLEAN", "VARCHAR"}
DuckType(type) ==
  CASE type = "INT64" -> "BIGINT" [] type = "BOOL" -> "BOOLEAN" [] OTHER -> "VARCHAR"
=============================================================================
