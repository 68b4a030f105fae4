SPECIFICATION Spec
CONSTANTS
    LineLength = 12
    FoldingWindow = 2
    FoldingMargin = 4
    Versions = {2}
    Codes <- MCCodes
    Names <- MCNames
    Values <- MCValues
    CommonValues <- MCCommon
    MaxValues = 1
INVARIANT FullyWritten
CHECK_DEADLOCK FALSE
