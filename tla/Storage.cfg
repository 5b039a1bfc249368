SPECIFICATION AnySpec
CONSTANTS
  p1 = p1
  p2 = p2
  i1 = i1
  i2 = i2
  t1 = t1
  t2 = t2
  signer = signer
  frontend = frontend
  Replicas = {r1, r2}
  ByRevision = TRUE
  Text <- OldText
  OldLines = {"l1", "l2", "o1"}
  NewLines = {"n1"}
  LockLapses = TRUE
  Retries = 2
  MaxCrashes = 1
SYMMETRY Symmetry
CHECK_DEADLOCK FALSE
INVARIANT InventoryAgrees
INVARIANT ImportKeepsEveryLine
PROPERTY LocksHold
PROPERTY ImplementsLock
