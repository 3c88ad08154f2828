CONSTANTS
    Inputs <- MCInputs
    Width = 16
    TextSize = 16
    Fields <- MCFields
SPECIFICATION TextSpec
CHECK_DEADLOCK FALSE
INVARIANTS
    EncTypeOK
    ValueKept
    TextReadsBack
    WifFits
    NumberReadsBack
    AssetReadsBack
