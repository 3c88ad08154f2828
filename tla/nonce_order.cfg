CONSTANTS
    NumSize = 2
    Order <- MCOrder
    Candidates <- MCCandidates
    Numbers <- MCNumbers
    MaxCandidates = 4
SPECIFICATION SignSpec
CHECK_DEADLOCK FALSE
INVARIANT NonceBelowOrder
