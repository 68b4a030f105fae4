CONSTANTS
  Node <- MCNode
  Root = "cif"
  Kind <- MCKind
  Children <- MCChildren
  Fault = "CIF_ERROR"
SPECIFICATION Spec
INVARIANTS VisitedAsDirected EndedAsDirected ResultAsAnswered IteratorsClosed
PROPERTIES WalkReturns
CHECK_DEADLOCK FALSE
