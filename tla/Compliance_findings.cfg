\* Three evaluations, two rules, two edits, one fault. Evaluations end and edits are bounded.
SPECIFICATION Spec
CONSTANTS
    e1 = e1
    e2 = e2
    e3 = e3
    g = g
    t1 = t1
    t2 = t2
    Evaluations <- MCEvaluations
    Names = {1, 2}
    Groups <- OneGroup
    NoGroup = NoGroup
    Deleted = Deleted
    NoText = NoText
    Texts <- TwoTexts
    Criteria <- EitherText
    MaxRules = 2
    MaxEdits = 2
    MaxFaults = 1
SYMMETRY Symmetry
CHECK_DEADLOCK FALSE
INVARIANTS
    FindingsSettle
    NoticesTellTheState
