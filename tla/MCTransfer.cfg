CONSTANTS
    N = 3
    RetryCount = 2
    SaveEvery = 2
SPECIFICATION FairSpec
INVARIANT TypeOK
INVARIANT AnswerIsOwn
INVARIANT AckedMeansStored
INVARIANT SentCountExact
INVARIANT CleanRunComplete
PROPERTY Terminates
