SPECIFICATION FairSpec
CHECK_DEADLOCK FALSE
PROPERTY LocksComeFree
PROPERTY StoresSettle
PROPERTY ProcessesSettle
