SPECIFICATION Spec
CONSTANTS
    DDig = 3
    LineLength = 12
    MaxObjects = 4
    Kinds = {"unk", "char", "list", "table"}
    Keys = {k}
    Texts <- MCTexts
    InitCalls <- MCInits
    AutoCalls <- MCAutos
    CommonTexts <- MCCommonTexts
    CommonInits <- MCCommonInits
    Growth = 1
INVARIANTS
    EveryValueHasOneOwner
    ListsFitTheirArrays
    NumberReadsItsText
PROPERTIES
    CopiesAreFaithful
    CallsAreLocal
    AutoScaleIsLargest
VIEW View
