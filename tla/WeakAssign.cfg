CONSTANTS
    StrongPtrs = {p1}
    WeakPtrs = {w1, w2}
SPECIFICATION SpecWithAssign
INVARIANT NoTrap
