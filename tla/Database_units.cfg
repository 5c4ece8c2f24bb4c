SPECIFICATION Spec
CONSTANTS
  t1 = t1
  t2 = t2
  Threads <- TwoThreads
  Free = Free
  MaxDepth = 3
  MaxWrites = 2
  MaxUnits = 2
INVARIANT Inv
INVARIANT AllOrNothing
INVARIANT NestedFailureDoomsUnit
INVARIANT NoDirtyReads
PROPERTY ImplementsAtomicStore
SYMMETRY ThreadSymmetry
CHECK_DEADLOCK FALSE
