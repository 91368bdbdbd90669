SPECIFICATION FairSpec
CONSTANTS
    Requests = {1, 2}
    NoOne = 0
    Setups <- MCSetups
    Asks <- MCAsks
    MayAsk <- MCMayAsk
    Completions <- MCCompletions
    RecentLimit = 1
INVARIANTS
    ScrapeNeverAhead
    HitsComeFromTheTarget
    LatchHolds
    AdapterRoutesAlike
PROPERTY EveryRequestAnswered
CHECK_DEADLOCK FALSE
