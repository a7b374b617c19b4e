\* Two backups of one device, and one fault: a crash, or a call
\* whose statements may fail from then on. Every backup ends, and the clock is bounded.
SPECIFICATION Spec
CONSTANTS
    b1 = b1
    b2 = b2
    NoBackup = NoBackup
    NoContent = NoContent
    EmptyFile = EmptyFile
    Backups <- TwoBackups
    NumArtifacts = 2
    Contents <- TwoContents
    old = old
    new = new
    Workers = 2
    MaxTime = 1
    MaxFaults = 1
SYMMETRY Symmetry
CHECK_DEADLOCK FALSE
INVARIANTS
    RunTellsTheTruth
    VersionsAccounted
    ChangesAreReal
    NewContentIsReported
    DocumentsStay
PROPERTY ImplementsHistory
