---------------------------------- MODULE Table ----------------------------------
(* Tables whose rows are inserted and deleted: functions from the ids of the rows. *)

Without(table, i) == [j \in DOMAIN table \ {i} |-> table[j]]
With(table, i, row) == [j \in DOMAIN table \cup {i} |-> IF j = i THEN row ELSE table[j]]
==================================================================================
