\* A turbo batch over a store from before provenance.
SPECIFICATION Spec
CONSTANTS
    a = a
    b = b
    r = r
    Blank = Blank
    Term <- MCTerm
    Fact <- MCFact3
    Source = {1}
    Legacy <- MCLegacy
    TurboBatch <- MCBatch
    KeyBase = 5
    Chunk = 2
    CrashPoint <- NoPoint
    AuditOn = FALSE
    ReaderOn = FALSE
    Retractable = {}
    SameSecond = FALSE
    MaxRows = 4
    MaxOpens = 1
    MaxGen = 0
INVARIANTS
    NoForeignSource
CHECK_DEADLOCK FALSE
