\* The same, and the promise of the option: two threads can both be let through.
CONSTANTS
  t1 = t1
  t2 = t2
  p1 = p1
  p2 = p2
  p3 = p3
  Callers <- TwoCallers
  PalletIds <- ThreePallets
  Window = 1
  CleanupLimit = 1
  MaxTime = 3
  MaxCalls = 4
SYMMETRY MCSymmetry
SPECIFICATION Spec
INVARIANTS
  DuplicatesRejected
CHECK_DEADLOCK FALSE
