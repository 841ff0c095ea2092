\* Three workers, so that two sleep while the third is busy.  After the
\* destructor the system stops.
CONSTANTS
    NumWorkers = 3
    Clients = {c1, c2}
    MaxTasks = 3
    Nobody = nobody
SPECIFICATION FairSpec
INVARIANTS
    IInv
    NoLostWakeup
    Fifo
    GoneIsQuiet
PROPERTIES
    AtMostOnce
    DestructorReturns
    EveryTaskAnswered
CHECK_DEADLOCK FALSE
