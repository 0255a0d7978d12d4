------------------------------- MODULE RowSink ------------------------------
(***************************************************************************)
(* What the writer of src/src/store promises to the threads that submit    *)
(* rows, without its channel, its thread and its batches: rows are taken   *)
(* in the order of the calls, leave memory oldest first, in transactions;  *)
(* the first row of a primary key wins; once closed, nothing is taken.     *)
(* Only the rows in memory are lost when the program is killed, and the    *)
(* sink is open again when it is restarted.                                *)
(***************************************************************************)
EXTENDS Integers

CONSTANTS Keys, Data

VARIABLES
  sent,     \* number of rows submitted
  pending,  \* rows accepted and still in memory
  table,    \* rows of the database
  open,     \* the sink still takes rows
  restarts  \* number of restarts of the program

vars == <<sent, pending, table, open, restarts>>

\* S is what a transaction may take: no older row stays behind.
Oldest(S) ==
  /\ S \subseteq pending
  /\ \A r \in S, p \in pending \ S : r.id < p.id

Winners(S) ==
  {r \in S : /\ \A t \in table : t.key # r.key
             /\ \A s \in S : s.key = r.key => r.id <= s.id}

Accept ==
  /\ open
  /\ sent' = sent + 1
  /\ \E k \in Keys, d \in Data :
       pending' = pending \cup {[id |-> sent + 1, key |-> k, data |-> d]}
  /\ UNCHANGED <<table, open>>

Refuse ==
  /\ ~open
  /\ sent' = sent + 1
  /\ UNCHANGED <<pending, table, open>>

Commit(S) ==
  /\ table' = table \cup Winners(S)
  /\ pending' = pending \ S
  /\ UNCHANGED <<sent, open>>

\* A transaction failed: its rows are gone, all of them.
Fail(S) ==
  /\ pending' = pending \ S
  /\ UNCHANGED <<sent, table, open>>

\* Closing commits or fails a last transaction and forgets the rest.
Close(S) ==
  /\ open
  /\ open' = FALSE
  /\ pending' = {}
  /\ table' = table \cup Winners(S)
  /\ UNCHANGED sent

Restart ==
  /\ restarts' = restarts + 1
  /\ pending' = {}
  /\ open' = TRUE
  /\ UNCHANGED <<sent, table>>

Init ==
  /\ sent = 0
  /\ pending = {}
  /\ table = {}
  /\ open = TRUE
  /\ restarts = 0

Running ==
  \/ Accept
  \/ Refuse
  \/ \E S \in SUBSET pending : Oldest(S) /\ (Commit(S) \/ Fail(S) \/ Close(S))

Next == (Running /\ UNCHANGED restarts) \/ Restart

Spec == Init /\ [][Next]_vars
=============================================================================
