SPECIFICATION Spec
CONSTANTS
  Code = {"a"}
  ItemName = {"_a"}
  Category = {}
  NoCategory = NoCategory
  Scalars = Scalars
  Value = {Unknown}
  Unknown = Unknown
  CodeSpelling <- MCCodeSpelling
  NormCode <- MCNormCode
  ItemSpelling = {"_a", "_A"}
  NormItem <- OneName
  Invalid = "invalid"
  LoopCategory = {NoCategory}
  NewCategory = {}
  Slot = {s1}
  NameLists <- AllLists
  Packets = {}
  UnsetsScalar = FALSE
  MaxId = 4
  MaxLoopNum = 1
  MaxRow = 1
VIEW View
INVARIANTS
  TypeOK
  KeysUnique
  ReferentialIntegrity
  ContainerIdsNeverReused
