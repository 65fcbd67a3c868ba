CONSTANTS
  Versions = {TRUE}
  Outcomes = {"done"}
SPECIFICATION Spec
PROPERTY RememberedAT2
