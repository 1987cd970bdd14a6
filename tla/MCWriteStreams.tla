--------------------------- MODULE MCWriteStreams ---------------------------
(***************************************************************************)
(* Instances of WriteStreams with one destination table, so that all       *)
(* streams share one prepared INSERT statement.                            *)
(***************************************************************************)
EXTENDS WriteStreams, TLC

CONSTANTS tab

MCTableOf == [s \in Targets |-> tab]
\* Every connection may write to every stream.
MCUses == [c \in Conns |-> Targets]
MCSymmetry == Permutations(Calls)
MCNoBadRows == {}
\* The second row of every stream is one that the table rejects.
MCBadRows == {<<s, 2>> : s \in Targets}
=============================================================================
