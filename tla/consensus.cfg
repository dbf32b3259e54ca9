\* Evidence, aliases, a rival, holds, freezes and a crash; two voices are needed.
SPECIFICATION FairSpec
CONSTANTS
    Sentence <- MCSentence
    Subject <- MCSubject
    Object <- MCObject
    Voice <- MCVoice
    Pairs <- MCPairs
    Mangled <- MCMangled
    MinSources = 2
    MinTicks = 1
    CrashPoint <- SafePoints
    MaxEvents = 4
    MaxCrashes = 1
    MaxHolds = 1
INVARIANTS
    TypeOK
    EnoughVoices
    PromotedIsStored
PROPERTIES
    ConfirmedIsPromoted
