--------------------------- MODULE MCPollerSessions ---------------------------
(* A small instance of PollerSessions for TLC: two calls at once, one job. *)
EXTENDS PollerSessions

CONSTANTS t1, t2, n1, c1, c2, j1

MCTenants == {t1, t2}
MCNames == {n1}
MCCalls == {c1, c2}
MCJobs == {j1}
MCJobTenant == [j \in {j1} |-> t1]
===============================================================================
