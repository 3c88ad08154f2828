CONSTANTS
    Transactions <- MCTransactions
    CounterMod = 64
    ActionDataSize = 160
    MaxArguments = 255
SPECIFICATION FairBaglSpec
INVARIANTS
    BaglTypeOK
    EveryArgumentSeen
    ReviewShowsArguments
    PageInsideData
PROPERTIES
    ImplementsFlow
    ForwardLeadsToDecision
