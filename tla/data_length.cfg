CONSTANTS
    Transactions <- UntestedLengths
    CounterMod = 64
    ActionDataSize = 160
    MaxArguments = 255
SPECIFICATION BaglSpec
INVARIANT PageInsideData
