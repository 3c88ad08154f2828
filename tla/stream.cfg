CONSTANTS
    Transactions <- MCTransactions
    BlockSizes = {1, 2, 3, 5, 8, 13, 34, 255}
    CounterMod = 64
    ActionDataSize = 104
SPECIFICATION FairStreamSpec
INVARIANTS
    StreamTypeOK
    VerdictIndependentOfBlocks
    HashCoversEveryField
    ReviewShowsTransaction
PROPERTIES
    ImplementsReview
    EveryTransactionEnds
