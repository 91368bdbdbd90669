\* Three prompts, three threads; any save may fail; a conversation is opened as it was
\* listed last.
SPECIFICATION FairSpec
CONSTANTS
    MaxThreads = 3
    MaxTurns = 3
    MaxDeltas = 1
    SavesFail = TRUE
    MayOpenStale = FALSE
INVARIANTS
    AnswersBehindPrompts
    PendingIsLast
    WithdrawnOnlyFirst
    NothingIsLost
PROPERTIES
    ComposerComesBack
