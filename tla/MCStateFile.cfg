CONSTANTS
    N = 2
    MaxVersions = 2
    MaxAcked = 2
SPECIFICATION Spec
VIEW View
INVARIANT TypeOK
INVARIANT CleanMeansSaved
INVARIANT AckCountExact
INVARIANT ResumePointSafe
PROPERTY CommitOfOneState
