\* The process dies between the dedupe index and the row.
SPECIFICATION Spec
CONSTANTS
    Sentence <- MCSentence
    Subject <- MCSubject
    Object <- MCObject
    Voice <- MCVoice
    Pairs <- MCPairs
    Mangled <- MCMangled
    MinSources = 2
    MinTicks = 1
    CrashPoint <- RowPoint
    MaxEvents = 2
    MaxCrashes = 1
    MaxHolds = 1
INVARIANTS
    PromotedIsStored
