------------------------------ MODULE MCCompliance ------------------------------
(* Small instances of Compliance for TLC. *)
EXTENDS Compliance, TLC

CONSTANTS e1, e2, e3, g, t1, t2

MCEvaluations == {e1, e2, e3}
OneGroup == {g}
TwoTexts == {t1, t2}
EitherText == {{t1}, {t2}}
Symmetry == Permutations(MCEvaluations) \cup Permutations(TwoTexts)
================================================================================
