\* The writer dies between the column appends of one flush.
SPECIFICATION Spec
CONSTANTS
    a = a
    b = b
    r = r
    Blank = Blank
    Term <- MCTerm
    Fact <- MCFact3
    Source = {1}
    Legacy <- NoLegacy
    TurboBatch <- NoBatch
    KeyBase = 5
    Chunk = 2
    CrashPoint <- TornPoints
    AuditOn = FALSE
    ReaderOn = FALSE
    Retractable = {}
    SameSecond = FALSE
    MaxRows = 3
    MaxOpens = 2
    MaxGen = 0
INVARIANTS
    NothingInvented
CHECK_DEADLOCK FALSE
