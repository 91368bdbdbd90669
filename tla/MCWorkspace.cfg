SPECIFICATION FairSpec
CONSTANTS
    Agents = {1, 2}
    Jobs <- MCJobs
    MaxJobs = 3
    FirstTexts <- MCFirstTexts
    FirstLogs <- MCFirstLogs
    Features <- MCFeatures
    Answers <- MCAnswers
    DefaultThreshold = 2000000
    EnvThreshold <- MCEnvThreshold
    MaxLexiconTerms = 2
    Raw <- MCRaw
    Debugged <- MCDebugged
    KeyPath <- MCKeyPath
    NameOrder <- MCNameOrder
    Fit <- MCFit
    MinAnswerChars = 2
    AutoJunk = 200
    KappaFloor = 40
    Folds = 3
INVARIANTS
    AddedModelsStay
    FileIsSound
    FitsTheLabels
    ShownLoadsBack
PROPERTY SupervisedServes
CHECK_DEADLOCK FALSE
