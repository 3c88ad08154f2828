CONSTANTS
    Transactions <- MCTransactions
    CounterMod = 64
    ActionDataSize = 160
    NbMax = 3
SPECIFICATION NbglSpec
INVARIANTS
    NbglTypeOK
    PageShowsPairs
    ConfirmedAfterAllPairs
