SPECIFICATION Spec
CONSTANTS
    Maps = {m1}
    Items = {a}
    Forms = {0, 1}
    Values = {v}
    Unk = Unk
    MaxNames = 1
    RespellNormalized = TRUE
INVARIANT
    KeysBelongToEntries
VIEW View
