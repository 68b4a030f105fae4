SPECIFICATION Spec
CONSTANTS
  Code = {"a"}
  ItemName = {"_a", "_b"}
  Category = {c1}
  NoCategory = NoCategory
  Scalars = Scalars
  Value = {Unknown, v1}
  Unknown = Unknown
  CodeSpelling = {"A"}
  NormCode <- OneCode
  ItemSpelling <- ThreeSpellings
  NormItem <- TwoNames
  Invalid = "invalid"
  LoopCategory = {c1, Scalars}
  NewCategory = {c1, Scalars}
  Slot = {s1, s2}
  NameLists <- AllLists
  Packets <- AllPackets
  UnsetsScalar = FALSE
  MaxId = 1
  MaxLoopNum = 2
  MaxRow = 2
SYMMETRY Slots
VIEW View
INVARIANTS
  LoopNumbersBelowNext
  NoLoopWithoutItems
  ScalarsAreScalar
  RowsBelowLast
  IterationCurrent
  TransactionIsIterators
PROPERTIES
  StaleHandleStaysStale
  FailureChangesNothing
