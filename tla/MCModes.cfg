CONSTANTS
  Versions = {FALSE, TRUE}
  Outcomes = {"done", "refused"}
SPECIFICATION Spec
INVARIANTS TypeOK ModeKnown SavesKnown
PROPERTIES FlashOnlyWhenAsked RememberedAT1
