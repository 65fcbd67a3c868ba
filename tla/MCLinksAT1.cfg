CONSTANTS
  AT1 = TRUE
  LinksCount = 2
  SerialMod = 8
  MaxConns = 3
  MaxData = 1
  MaxLine = 2
  MaxFaults = 1
SPECIFICATION FairSpec
INVARIANTS TypeOK OwnConnection UniqueIds
PROPERTY Repaired
CHECK_DEADLOCK FALSE
