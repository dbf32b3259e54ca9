\* Two rebuilds within one second, and a crash between the saves of the second.
SPECIFICATION Spec
CONSTANTS
    a = a
    b = b
    r = r
    Blank = Blank
    Term <- MCTerm
    Fact <- MCFact
    Source = {1}
    Legacy <- NoLegacy
    TurboBatch <- NoBatch
    KeyBase = 5
    Chunk = 2
    CrashPoint <- SavePoint
    AuditOn = FALSE
    ReaderOn = FALSE
    Retractable = {}
    SameSecond = TRUE
    MaxRows = 3
    MaxOpens = 2
    MaxGen = 1
INVARIANTS
    QueryExact
CHECK_DEADLOCK FALSE
