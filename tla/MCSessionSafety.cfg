CONSTANTS
  NBanks = 2
  PerBank = 2
  Values = {"x", "y"}
  Blank = "blank"
  Torn = "torn"
  MaxOps = 2
  MaxPlugs = 1
SPECIFICATION Spec
INVARIANTS OneUserOfThePort ReportIsTrue
PROPERTIES OnlyConfirmedBlocksChange NoLiveThreadDestroyed
\* A crashed Studio does nothing more.
CHECK_DEADLOCK FALSE
