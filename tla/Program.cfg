SPECIFICATION FairEitherSpec
CONSTANTS
    Workers = {w1, w2, w3}
    MaxStarts = 3
    CommandLine <- CommandLine0
INVARIANTS
    IInv
    OneTaskPerChain
    NothingRunsOnTheDead
    OneFlushAtATime
    OptionsExact
PROPERTIES
    StoppedEnds
    DroppedEnds
CHECK_DEADLOCK FALSE
