SPECIFICATION Spec
CONSTANTS
    LineLength = 12
    FoldingWindow = 2
    FoldingMargin = 4
    Versions = {1, 2}
    Codes <- MCCodes
    Names <- MCNames
    Values <- MCValues
    CommonValues <- MCCommon
    MaxValues = 2
INVARIANTS
    ReadsBack
    LinesFit
    ColumnIsKnown
    FailsForAReason
CHECK_DEADLOCK FALSE
