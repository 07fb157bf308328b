CONSTANTS
    N = 3
    W = 2
    SaveEvery = 2
SPECIFICATION FairSpec
INVARIANT TypeOK
INVARIANT WindowBound
INVARIANT InFlightExact
INVARIANT SlotNotStolen
INVARIANT SlotWakeup
INVARIANT AckedMeansStored
INVARIANT StatsHonest
INVARIANT CleanRunComplete
PROPERTY Terminates
