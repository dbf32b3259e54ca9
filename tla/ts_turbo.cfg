\* turbo_ingest and audit_sweep next to the ordinary lane, with reopens.
SPECIFICATION Spec
CONSTANTS
    a = a
    b = b
    r = r
    Blank = Blank
    Term <- MCTerm
    Fact <- MCFact3
    Source = {1}
    Legacy <- NoLegacy
    TurboBatch <- MCBatch
    KeyBase = 5
    Chunk = 2
    CrashPoint <- IdlePoint
    AuditOn = TRUE
    ReaderOn = FALSE
    Retractable = {}
    SameSecond = FALSE
    MaxRows = 4
    MaxOpens = 2
    MaxGen = 0
INVARIANTS
    NoForeignSource
    DebtFlagged
PROPERTIES
    SweepRestoresExactness
    ImplementsLog
CHECK_DEADLOCK FALSE
