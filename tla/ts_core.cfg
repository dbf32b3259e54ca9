\* add, flush, retract, index and reopen over a legacy store, with crashes.
SPECIFICATION Spec
CONSTANTS
    a = a
    b = b
    r = r
    Blank = Blank
    Term <- MCTerm
    Fact <- CoreFact
    Source = {1}
    Legacy <- CoreLegacy
    TurboBatch <- NoBatch
    KeyBase = 2
    Chunk = 2
    CrashPoint <- SafePoints
    AuditOn = FALSE
    ReaderOn = TRUE
    Retractable <- MCRetractable
    SameSecond = FALSE
    MaxRows = 2
    MaxOpens = 2
    MaxGen = 2
INVARIANTS
    TypeOK
    RefusedIsHeld
    QueryExact
    NoForeignSource
    DistinctInRun
    ReaderAgrees
    CountWithinRows
PROPERTIES
    ImplementsLog
CHECK_DEADLOCK FALSE
