---------------------------- MODULE MCSchedulerLease ---------------------------
(* A small instance of SchedulerLease for TLC. *)
EXTENDS SchedulerLease

CONSTANTS a, b, backup, retention

TwoReplicas == {a, b}
BothJobs == {backup, retention}

MCInterval == [j \in Jobs |-> IF j = backup THEN 1 ELSE 2]
================================================================================
