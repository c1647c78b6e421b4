----------------------------- MODULE DurableLog -----------------------------
(***************************************************************************)
(* What the requests of the master rely on when they write an operation to *)
(* the log before applying it: the promise of master/recovery, without     *)
(* files, records, sequence numbers or checkpoints.  OperationLog is shown *)
(* to implement it.                                                        *)
(*                                                                         *)
(* Operations are numbered in the order they are attempted.  The tables    *)
(* are the operations applied to them, oldest first.                       *)
(***************************************************************************)
EXTENDS Naturals, Sequences

VARIABLES
  mode,     \* "up", "down", or "refused": Initialize returned false
  tables,   \* what the tables hold, or held when the master went down
  tried,    \* the number of operations attempted so far
  damaged   \* a failed operation left the log in a state it cannot be read in

promise == <<mode, tables, tried, damaged>>

Elements(s) == {s[i] : i \in DOMAIN s}

Ascending(s) == \A i, j \in DOMAIN s : i < j => s[i] < s[j]

Init ==
  /\ mode = "up"
  /\ tables = <<>>
  /\ tried = 0
  /\ damaged = FALSE

Acknowledge ==
  /\ mode = "up"
  /\ tried' = tried + 1
  /\ tables' = Append(tables, tried + 1)
  /\ UNCHANGED <<mode, damaged>>

\* The caller is told that the operation failed, and does not apply it.
Fail ==
  /\ mode = "up"
  /\ tried' = tried + 1
  /\ damaged' \in {damaged, TRUE}
  /\ UNCHANGED <<mode, tables>>

Stop ==
  /\ mode = "up"
  /\ mode' = "down"
  /\ UNCHANGED <<tables, tried, damaged>>

\* Everything the tables held comes back, in the order it was attempted and
\* once; what was reported as failed may be there as well.
Start ==
  /\ mode # "up"
  /\ ~damaged
  /\ mode' = "up"
  /\ tables' \in Seq(1..tried)
  /\ Ascending(tables')
  /\ Elements(tables) \subseteq Elements(tables')
  /\ UNCHANGED <<tried, damaged>>

\* A damaged log is never read as a shorter one: the master does not start.
Refuse ==
  /\ mode # "up"
  /\ damaged
  /\ mode' = "refused"
  /\ UNCHANGED <<tables, tried, damaged>>

Next == Acknowledge \/ Fail \/ Stop \/ Start \/ Refuse

Spec == Init /\ [][Next]_promise

=============================================================================
