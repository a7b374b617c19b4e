---------------------------- MODULE MCBackupPipeline ----------------------------
(* Small instances of BackupPipeline for TLC. *)
EXTENDS BackupPipeline, TLC

CONSTANTS b1, b2, old, new

TwoBackups == {b1, b2}
TwoContents == {old, new}
Symmetry == Permutations(TwoBackups) \cup Permutations(TwoContents)
================================================================================
