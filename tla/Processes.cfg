SPECIFICATION AnySpec
CONSTANTS
  MaxInt = 1023
  Unit = 8
  Levels = 1
  MinReserve = 4
  MinFrontend = 12
  DefaultLauncher = 4
  DefaultSigner = 12
  DefaultPercent = 90
  Amounts = {3, 127, 1023, 1024}
  Percents = {0, 100}
  Instances = {"t1", "t2", "s1", "s2"}
  Isolated = {"t1", "t2"}
  MaxSignals = 2
  MaxFaults = 2
CHECK_DEADLOCK FALSE
INVARIANT StoreHasOneWriter
INVARIANT TreeFitsTheCeiling
INVARIANT BudgetIsExact
PROPERTY ListenerPresentsValid
PROPERTY SignersAnswerTruly
PROPERTY AdmissionHoldsFirm
