SPECIFICATION Spec
CONSTANTS
    Agents = {1, 2}
    Jobs <- RecalibrateOnly
    MaxJobs = 2
    FirstTexts <- MCFirstTexts
    FirstLogs <- Greetings
    Features <- MCFeatures
    Answers <- MCAnswers
    DefaultThreshold = 2000000
    EnvThreshold <- MCEnvThreshold
    MaxLexiconTerms = 2
    Raw <- MCRaw
    Debugged <- MCDebugged
    KeyPath <- MCKeyPath
    NameOrder <- MCNameOrder
    Fit <- MCFit
    MinAnswerChars = 2
    AutoJunk = 200
    KappaFloor = 40
    Folds = 3
INVARIANT RecalibratedFileLoads
CHECK_DEADLOCK FALSE
