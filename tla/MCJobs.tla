------------------------------- MODULE MCJobs -------------------------------
(***************************************************************************)
(* Instances of Jobs.                                                      *)
(***************************************************************************)
EXTENDS Jobs, TLC

CONSTANTS r1, r2, r3, j1, j2, src, dst

Select == [kind |-> "select", job |-> j1, table |-> src, source |-> src,
           disposition |-> "WRITE_APPEND", rows |-> <<TRUE, TRUE>>, schema |-> "given",
           seeded |-> FALSE, elsewhere |-> FALSE, useCache |-> TRUE, broken |-> FALSE, sync |-> FALSE]

Of(kind, job) == [Select EXCEPT !.kind = kind, !.job = job]
To2(b, t, d)  == [b EXCEPT !.table = t, !.disposition = d]
Seeded        == [Select EXCEPT !.seeded = TRUE]
SelectAgain   == [Of("select", j2) EXCEPT !.sync = TRUE]
Short(b)      == [b EXCEPT !.rows = <<TRUE>>]
LoadNew(job)  == To2(Of("load", job), dst, "WRITE_EMPTY")

Together(A, B1, C) == {(r1 :> a) @@ (r2 :> b) @@ (r3 :> c) : a \in A, b \in B1, c \in C}

\* Two SELECTs of a table, one of them after or beside each way to write it.
CacheMixes == Together({Select}, {SelectAgain},
  { Of("clear", j2), Of("insertAll", j2), Of("append", j2),
    [To2(Of("load", j2), src, "WRITE_APPEND") EXCEPT !.rows = <<TRUE, FALSE>>],
    [To2(Of("parquet", j2), src, "WRITE_TRUNCATE") EXCEPT !.rows = <<FALSE>>],
    To2(Of("copy", j2), src, "WRITE_TRUNCATE") })

\* A client of a job, while other requests use its id, cancel or delete it.
ResultMixes ==
  Together({Of("results", j1)}, {Seeded},
    { [Select EXCEPT !.useCache = FALSE], Of("cancel", j1), Of("delete", j1) })
  \cup Together({Of("results", j1)}, {[Seeded EXCEPT !.broken = TRUE], LoadNew(j1)},
    { Of("clear", j2) })

\* A job that is cancelled or deleted under the requests that run it.
EndMixes ==
  Together({Seeded, LoadNew(j1)}, {[Select EXCEPT !.useCache = FALSE]},
    { Of("cancel", j1), Of("delete", j1) })
  \cup Together({Of("extractParquet", j1)}, {Of("insert", j1)}, {Of("delete", j1)})

\* A job id that is sent twice, and the table replaced in between.
RetryMixes == Together({Select}, {[Select EXCEPT !.useCache = FALSE]},
  { To2(Of("parquet", j2), src, "WRITE_TRUNCATE") })

\* Two jobs with one destination, which neither or one of them creates.
DestinationMixes ==
  Together({Short(LoadNew(j1))},
    { [Short(To2(Of("load", j2), dst, "WRITE_TRUNCATE")) EXCEPT !.schema = "none"],
      To2(Of("copy", j2), dst, "WRITE_EMPTY") },
    { [Of("extract", j2) EXCEPT !.source = dst] })
  \cup Together({Short(LoadNew(j1))},
    { [To2(Of("parquet", j2), dst, "WRITE_TRUNCATE") EXCEPT !.schema = "autodetect"] },
    { Of("delete", j1) })

\* Jobs that are listed while others are created and deleted.
ListMixes ==
  Together({Of("list", j1)}, {LoadNew(j1)}, {SelectAgain, Of("delete", j1)})
  \cup Together({Of("list", j1)}, {[Seeded EXCEPT !.elsewhere = TRUE], Of("dryRun", j1)},
    { Of("extract", j2) })
  \cup Together({Of("data", j1)}, {Of("insertAll", j2)},
    { Of("append", j2), Of("clear", j2) })

AllMixes == RetryMixes \cup ListMixes \cup CacheMixes \cup ResultMixes \cup EndMixes \cup DestinationMixes
=============================================================================
