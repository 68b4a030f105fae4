SPECIFICATION Spec
CONSTANTS
    Maps = {m1, m2}
    Items = {a, b}
    Forms = {0, 1}
    Values = {v}
    Unk = Unk
    MaxNames = 2
    RespellNormalized = FALSE
INVARIANT
    StringsHaveOneOwner
PROPERTY
    ActsAsMap
VIEW View
