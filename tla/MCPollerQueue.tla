----------------------------- MODULE MCPollerQueue -----------------------------
(* Small instances of PollerQueue for TLC. *)
EXTENDS PollerQueue

CONSTANTS p1, p2, k1, k2

MCPollers == {p1, p2}
OneKey == {k1}
TwoKeys == {k1, k2}

\* p2 runs only the type of k1.
MCSupports == [p \in Pollers |-> IF p = p1 THEN Keys ELSE {k1}]

\* Short behaviours with two rows, whose lifetime is under a second, and long ones with
\* a single row, pollers that stay, and Enqueue of the key answered with that row.
Short ==
    /\ now <= 2
    /\ \A i \in Rows : ttl[i] \in {0, NoTime}
    /\ \A p \in Pollers : candExpiry[p] \in {NoTime, 0, 1}
Long ==
    /\ \A i \in Rows : i > 1 => status[i] = "free"
    /\ pollers = Pollers
    /\ status[1] # "free" => answer.row = 1

MCSpec == Init /\ [][Next /\ (Short' \/ Long')]_vars
================================================================================
