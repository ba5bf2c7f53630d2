SPECIFICATION FairSpec
CONSTANTS
    MaxCalls = 3
    MaxSeq = 20
    MaxFaults = 2
    MaxOps = 2
PROPERTY EveryCallSettles
INVARIANTS LastCommandHolds RunsOnce AnswersAreTrue
CHECK_DEADLOCK FALSE
