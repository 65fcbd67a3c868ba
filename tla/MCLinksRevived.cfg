CONSTANTS
  AT1 = FALSE
  LinksCount = 2
  SerialMod = 8
  MaxConns = 3
  MaxData = 1
  MaxLine = 2
  MaxFaults = 1
SPECIFICATION Spec
INVARIANTS NoIdTwice
CHECK_DEADLOCK FALSE
