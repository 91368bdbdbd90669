\* Streams that end, break or are left at every point.
SPECIFICATION FairSpec
CONSTANTS
    local = local
    spare = spare
    middle = middle
    cloud = cloud
    Requests = {1, 2}
    Names <- MCNames
    Configured <- MCNames
    Enabled <- MCNames
    Window <- MCWindow
    Fallbacks <- MCFallbacks
    Ladder <- MCLadder
    Threshold = 1
    Cooldown = 2
    Inputs <- StreamInputs
    Statuses = {0, 200, 400}
    Retries = 0
    RecentLimit = 1
    MaxClock = 1
INVARIANTS
    OneVerdictPerTarget
    BooksAgree
    OpenOnlyBehindItsBack
PROPERTIES
    EveryRequestEnds
