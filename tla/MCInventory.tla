------------------------------ MODULE MCInventory ------------------------------
(* Small instances of Inventory for TLC. *)
EXTENDS Inventory

CONSTANTS r1, r2, q1, q2, h1, h2

MCReplicas == {r1, r2}
OneReplica == {r1}
TwoHandlers == {q1, q2}
OneHandler == {q1}
TwoHostnames == {h1, h2}
MCPasswords == {}

\* Like 0001_init.sql, then like 0003_audit.sql.
MCMigrations == << <<"create">>, <<"column", "create">> >>
IdempotentMigrations == << <<"create">> >>
================================================================================
