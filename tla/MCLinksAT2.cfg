CONSTANTS
  AT1 = FALSE
  LinksCount = 2
  SerialMod = 8
  MaxConns = 3
  MaxData = 2
  MaxLine = 2
  MaxFaults = 1
SPECIFICATION FairSpec
INVARIANTS AvailableExact UnreadReadable LinkReleased
PROPERTIES GivenOnce Repaired
CHECK_DEADLOCK FALSE
