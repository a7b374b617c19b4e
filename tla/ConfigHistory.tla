----------------------------- MODULE ConfigHistory ------------------------------
(***************************************************************************)
(* What the configuration store promises for one device: a history to      *)
(* which trees are appended.  Each holds the files of one fetch; a file    *)
(* that fetch did not have is as it was in the tree before, or was left    *)
(* by a backup that came to nothing.  No tree repeats the one before it,   *)
(* and nothing is ever removed or rewritten.                               *)
(***************************************************************************)
EXTENDS Naturals, Sequences

CONSTANTS Artifacts,  \* the files of a device
          Snapshots,  \* what a backup may bring home: the text of the first ones
          Trees,      \* the text of every file
          NoTree      \* no file yet

VARIABLES history,    \* the trees committed, oldest first
          fetched,    \* the snapshots backups have brought home so far
          abandoned   \* those of backups that came to nothing

vars == <<history, fetched, abandoned>>

Init == history = <<>> /\ fetched = {} /\ abandoned = {}

Fetch ==
    /\ \E s \in Snapshots : fetched' = fetched \cup {s}
    /\ UNCHANGED <<history, abandoned>>

\* Backups fail, or die together.
Abandon ==
    /\ abandoned \subseteq abandoned' /\ abandoned' \subseteq fetched
    /\ UNCHANGED <<history, fetched>>

Newest == IF history = <<>> THEN NoTree ELSE history[Len(history)]

\* A file the fetch did not have.
Old(tree, a) ==
    \/ tree[a] = Newest[a]
    \/ \E x \in abandoned : a \in DOMAIN x /\ tree[a] = x[a]

Record ==
    /\ \E s \in fetched : \E tree \in Trees :
          /\ \A a \in Artifacts : IF a \in DOMAIN s THEN tree[a] = s[a] ELSE Old(tree, a)
          /\ tree # Newest
          /\ history' = Append(history, tree)
    /\ UNCHANGED <<fetched, abandoned>>

Next == Fetch \/ Abandon \/ Record

Spec == Init /\ [][Next]_vars
================================================================================
