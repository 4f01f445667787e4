SPECIFICATION Spec
CONSTANTS
  MaxDelta = 3
  Second = 4
  Targets <- AnyTargets
  MaxTarget = 2
  MaxLeft = 5
  MaxNow = 6
  MaxTicks = 3
  MaxChanges = 2
INVARIANTS
  TimeConserved
  CatchUpBounded
PROPERTIES
  TickReturns
