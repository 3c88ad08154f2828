CONSTANTS
    CounterMod = 2
    Paths = {p1}
    Garbage = Garbage
    NoPath = NoPath
    Builds = {"bagl"}
    HostConforms = FALSE
    MaxFields = 8
SPECIFICATION AppSpec
INVARIANT SignedOnlyWhatWasApproved
