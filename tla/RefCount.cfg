\* Two locks, a copy and the last release can all be in progress while one weak
\* pointer stays.  Nothing obliges the program to create another object; what
\* may not stop is stated by AbandonedIsFreed.
SPECIFICATION FairSpec
CONSTANTS
    StrongPtrs = {p1, p2, p3, p4}
    WeakPtrs = {w1, w2}
INVARIANTS
    IInv
    NoTrap
    NoUseAfterFree
PROPERTIES
    AbandonedIsFreed
    ImplementsSharedObject
CHECK_DEADLOCK FALSE
