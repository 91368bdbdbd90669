\* Every short answer and the usual longer ones, with either line end, cut anywhere.
SPECIFICATION FairSpec
CONSTANTS
    Scripts <- AllScripts
    Calls = {0, 1}
INVARIANTS
    NothingLost
    AccountedUnlessMissed
PROPERTIES
    WellFormed
    ClientIsTold
