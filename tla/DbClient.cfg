SPECIFICATION FairSpec
CONSTANTS
    Threads = {t1, t2}
    Nobody = Nobody
    MaxTxns = 2
    MaxCopies = 2
INVARIANTS
    IInv
    EndedByOwner
PROPERTY
    FreedAgain
CHECK_DEADLOCK FALSE
