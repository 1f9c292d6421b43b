CONSTANTS
  NBanks = 2
  PerBank = 1
  Values = {"x"}
  Blank = "blank"
  Torn = "torn"
  MaxOps = 2
  MaxPlugs = 1
SPECIFICATION Spec
PROPERTIES FlashingNeedsIdentifiedChip
\* A crashed Studio does nothing more.
CHECK_DEADLOCK FALSE
