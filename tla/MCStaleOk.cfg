SPECIFICATION Spec
CONSTANTS
  Versions = {TRUE, FALSE}
  Ops = {"apQuery", "staAutoConnect", "joinAP"}
  TimeoutCount = 3
  MaxIgnored = 8
  MaxLeft = 1
  MaxBusy = 1
  MaxFaults = 0
PROPERTY OwnAnswerAlways
