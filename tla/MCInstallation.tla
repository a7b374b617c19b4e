----------------------------- MODULE MCInstallation -----------------------------
(* What the HTTP server's requests act as and what they do to the inventory of an
   installation, in one run: a behaviour is of Access or of Inventory, and leaves the
   other as it was. *)
EXTENDS Access, MCInventory, TLC

CONSTANTS admin, operator

MCUsers == {admin, operator}
MCAdmins == {admin}
Symmetry == Permutations(MCReplicas) \cup Permutations(TwoHandlers)

VARIABLE part

\* Several replicas start, and one handler at a time changes a small inventory.
Installation ==
    /\ Cardinality({q \in Handlers : job[q].next # "idle"}) <= 1
    /\ made.devices <= 1 /\ made.credentials <= 1
    /\ \A d \in DOMAIN devices : devices[d].hostname = h1

\* One replica starts once, for one tenant without a quota, and serves two handlers,
\* which make two devices or two credentials.
Audit == starts <= 1 /\ DOMAIN quotas = {} /\ made.devices + made.credentials <= 3

MCInit ==
    /\ AccessInit /\ Init
    /\ part \in {"access", "installation", "audit"}
    /\ part # "access" => secrets = 0 /\ tokens = <<>>

MCNext ==
    /\ \/ part = "access" /\ AccessNext /\ UNCHANGED vars
       \/ part = "installation" /\ Next /\ Installation' /\ UNCHANGED accessVars
       \/ part = "audit" /\ Next /\ Audit' /\ UNCHANGED accessVars
    /\ UNCHANGED part

MCSpec == MCInit /\ [][MCNext]_<<accessVars, vars, part>>
================================================================================
