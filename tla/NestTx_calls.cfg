CONSTANTS
  MaxCalls = 4
  NoTx = {NoTx}
SPECIFICATION Spec
INVARIANT SavepointIsOwn
PROPERTY CallsAreAtomic
CHECK_DEADLOCK FALSE
