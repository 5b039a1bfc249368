SPECIFICATION AnySpec
CONSTANTS
  KeyValues = {"k1", "k2"}
  MaxEntry = 3
  MaxOps = 3
  MaxFaults = 2
  MaxShort = 1
CHECK_DEADLOCK FALSE
INVARIANT FilesSurviveFailures
PROPERTY CAIsNeverForked
PROPERTY IntegrityIsEarned
PROPERTY ManagedCertsAccounted
PROPERTY ChainNeverRegresses
