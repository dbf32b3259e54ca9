\* Stops, starts, polls, faults and crashes around ticks over two files.
SPECIFICATION HippoFairSpec
CONSTANTS
    a = a
    Worker = {w1, w2}
    Route = route
    NoOne = none
    SelfHeal = TRUE
    Boots = {"none", "resume", "always"}
    MaxEvents = 2
    File <- MCFile
    Of <- MCOf
    c = c
    d = d
    r = r
    Concept = {c, d}
    Relation = {r}
    Labels = 2
    Links <- MCLinks
    Readings <- MCReadings
    Settling = 1
INVARIANTS
    TypeOK
    OneWorker
    StopHolds
    IngestTypeOK
    RowBacked
    PotentiatedOnce
    CurrentWhenSeen
PROPERTIES
    DesiredRuns
    StopTakesEffect
    Learned
    Indexed
    Quiesces
