CONSTANTS
  Versions = {TRUE, FALSE}
  Outcomes = {"done", "refused"}
  Ports = {1}
  MaxResets = 1
SPECIFICATION ServicesSpec
INVARIANTS StatusTrue CacheFresh
PROPERTY WaitingConnects
