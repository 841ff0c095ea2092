SPECIFICATION ProgramSpec
CONSTANTS
    Workers = {w1, w2}
    MaxStarts = 1
INVARIANT
    ProcessSurvives
CHECK_DEADLOCK FALSE
