----------------------------- MODULE JobLedger -----------------------------
(***************************************************************************)
(* What the durable job queue promises its clients: at-least-once.  A job  *)
(* that was accepted stays owed until an outcome has been counted for it;  *)
(* a settled job may be owed again (it will then be run once more), but an *)
(* unsettled one is never dropped.                                         *)
(***************************************************************************)
CONSTANT Jobs

VARIABLES
    owed,       \* jobs a restart of the supervisor would run
    settled     \* jobs for which an outcome has been counted

Init == owed = {} /\ settled = {}

Accept(j) == j \notin settled /\ owed' = owed \cup {j} /\ UNCHANGED settled

\* An outcome is counted only for a job that was accepted.
Settle(j) == j \in owed \cup settled /\ settled' = settled \cup {j} /\ UNCHANGED owed

\* The books catch up with, or fall behind, an outcome that was counted.
Clear(j) == j \in settled /\ owed' = owed \ {j} /\ UNCHANGED settled
Reopen(j) == j \in settled /\ owed' = owed \cup {j} /\ UNCHANGED settled

Next == \E j \in Jobs : Accept(j) \/ Settle(j) \/ Clear(j) \/ Reopen(j)

Spec == Init /\ [][Next]_<<owed, settled>>
=============================================================================
