\* A host that asks for a public key between two blocks of a transaction.
CONSTANTS
    CounterMod = 2
    Paths = {p1}
    Garbage = Garbage
    NoPath = NoPath
    Builds = {"bagl"}
    HostConforms = TRUE
    MaxFields = 8
SPECIFICATION AppSpec
INVARIANT SignedWithGivenPath
