\* Pressure, a restart of the process, and then polls for ever.
SPECIFICATION FairSpec
CONSTANTS
    Worker = {w1, w2}
    Route = route
    NoOne = none
    SelfHeal = TRUE
    Boots = {"none"}
    MaxEvents = 3
PROPERTIES
    GuardRetries
