\* A conversation that went on since /threads is opened from the old list.
SPECIFICATION Spec
CONSTANTS
    MaxThreads = 3
    MaxTurns = 3
    MaxDeltas = 1
    SavesFail = FALSE
    MayOpenStale = TRUE
INVARIANTS
    NothingIsLost
