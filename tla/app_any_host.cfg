\* Any host: P1_MORE may follow a refusal, a fault, a signature, another command.
CONSTANTS
    CounterMod = 3
    Paths = {p1}
    Garbage = Garbage
    NoPath = NoPath
    Builds = {"nbgl"}
    HostConforms = FALSE
    MaxFields = 3
SPECIFICATION AnyHostSpec
INVARIANTS
    SignedHasNoReview
    EveryActionWasAnswered
    FinishedAfterEveryAction
    WarningBeforeActions
    AuthorizationsAsAnnounced
PROPERTIES
    ReviewOnlyAdvances
    OneSettingPerTransaction
    EveryCommandAnswered
