---------------------------- MODULE MCInsertAll ----------------------------
(***************************************************************************)
(* Instances of InsertAll.                                                 *)
(***************************************************************************)
EXTENDS InsertAll, TLC

Good(id) == [id |-> id, fate |-> "good"]

InsertBody(rs) == [table |-> "base", suffix |-> FALSE, skip |-> FALSE, rows |-> rs]
SkipBody(rs)   == [InsertBody(rs) EXCEPT !.skip = TRUE]
SuffixBody(rs) == [InsertBody(rs) EXCEPT !.suffix = TRUE, !.table = "template"]

Refuse(id)   == [id |-> id, fate |-> "refused"]
Malformed(id) == [id |-> id, fate |-> "unencodable"]

SomeBodies ==
  { InsertBody(<<Good(1), Good(2)>>),
    InsertBody(<<Good(3), Refuse(2)>>),
    InsertBody(<<Good(1), Malformed(3)>>),
    SkipBody(<<Good(2), Refuse(NoId), Good(1)>>),
    SuffixBody(<<Good(1), Good(1)>>) }

SkippingBodies == { InsertBody(<<Refuse(1)>>), SkipBody(<<Good(2)>>) }

CallSymmetry == Permutations(Calls)
=============================================================================
