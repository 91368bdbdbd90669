\* Plain requests with retries, fallbacks and tiers on both sides of a gap.
SPECIFICATION Spec
CONSTANTS
    local = local
    spare = spare
    middle = middle
    cloud = cloud
    Requests = {r1, r2}
    Names <- GapNames
    Configured <- MCNames
    Enabled <- MCNames
    Window <- MCWindow
    Fallbacks <- GapFallbacks
    Ladder <- GapLadder
    Threshold = 2
    Cooldown = 1
    Inputs <- PlainInputs
    Statuses = {0, 200, 401}
    Retries = 1
    RecentLimit = 1
    MaxClock = 1
SYMMETRY Interchangeable
INVARIANTS
    TypeOK
    FailoverDiscipline
    BooksAgree
    BreakerTracksStreak
    StaysOnItsSide
    NearestTierFirst
