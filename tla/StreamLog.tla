------------------------------ MODULE StreamLog ------------------------------
(***************************************************************************)
(* What an explicit write stream promises to a client that sets offsets:   *)
(* an append-only log of accepted rows, each of which becomes visible in   *)
(* the destination table exactly once and in the order of the log; the     *)
(* rows of a PENDING stream only after the stream was sealed (finalized).  *)
(* `reported` is how many rows the stream itself counts as visible.        *)
(***************************************************************************)
EXTENDS Naturals

CONSTANTS
  Streams,
  LogLen    \* a natural number: rows of data the client has for each stream

VARIABLES
  accepted,  \* [s]: number of rows in the log of s
  visible,   \* [s][p]: how many times readers see row p of s
  hidden,    \* the streams that show nothing before they are sealed
  sealed,    \* the streams that were finalized
  reported   \* [s]: rows that s says are visible

logVars == <<accepted, visible, hidden, sealed, reported>>

\* Exactly the first n rows of s are visible, once each.
Shows(s, n) == \A p \in 1..LogLen : visible[s][p] = IF p <= n THEN 1 ELSE 0

Init ==
  /\ accepted = [s \in Streams |-> 0]
  /\ visible = [s \in Streams |-> [p \in 1..LogLen |-> 0]]
  /\ hidden = {}
  /\ sealed = {}
  /\ reported = [s \in Streams |-> 0]

Hide(s) ==
  /\ accepted[s] = 0
  /\ hidden' = hidden \cup {s}
  /\ UNCHANGED <<accepted, visible, sealed, reported>>

Accept(s, n) ==
  /\ accepted[s] + n <= LogLen
  /\ accepted' = [accepted EXCEPT ![s] = @ + n]
  /\ UNCHANGED <<visible, hidden, sealed, reported>>

Expose(s, p) ==
  /\ p <= accepted[s]
  /\ Shows(s, p - 1)
  /\ s \in hidden => s \in sealed
  /\ visible' = [visible EXCEPT ![s][p] = 1]
  /\ UNCHANGED <<accepted, hidden, sealed, reported>>

Seal(s) ==
  /\ sealed' = sealed \cup {s}
  /\ UNCHANGED <<accepted, visible, hidden, reported>>

Report(s, n) ==
  /\ reported[s] <= n
  /\ n \in 0..LogLen
  /\ Shows(s, n)
  /\ reported' = [reported EXCEPT ![s] = n]
  /\ UNCHANGED <<accepted, visible, hidden, sealed>>

Next ==
  \E s \in Streams :
    \/ \E n \in 1..LogLen : Accept(s, n) \/ Expose(s, n)
    \/ Hide(s) \/ Seal(s)
    \/ \E n \in 0..LogLen : Report(s, n)

Spec == Init /\ [][Next]_logVars
=============================================================================
