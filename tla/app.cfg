\* Both builds; a host that continues only a transaction it may continue.
CONSTANTS
    CounterMod = 3
    Paths = {p1, p2}
    Garbage = Garbage
    NoPath = NoPath
    Builds = {"bagl", "nbgl"}
    HostConforms = TRUE
    MaxFields = 8
SPECIFICATION AppSpec
SYMMETRY PathSymmetry
INVARIANTS
    AppTypeOK
    AsyncReplyHasReview
    SignedOnlyWhatWasApproved
    PathLostOnlyToKey
    SignPromptIsFinal
    AddressShownIsAddressSent
    SettingSurvives
