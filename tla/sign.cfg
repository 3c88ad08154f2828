CONSTANTS
    NumSize = 2
    Order <- MCOrder
    Candidates <- MCCandidates
    Numbers <- MCNumbers
    MaxCandidates = 4
SPECIFICATION SignSpec
CHECK_DEADLOCK FALSE
INVARIANTS
    SignTypeOK
    NoncesFollowRfc6979
    SignatureIsCanonical
PROPERTIES
    NoCandidateSkipped
