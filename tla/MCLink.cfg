\* Two units, so that a command or a payload may hit the wrong one.
CONSTANTS
  Units = {"u0", "u1"}
  Data = {"a"}
  Blank = "blank"
  Torn = "torn"
  Bytes <- MCBytes
  Frame <- MCFrame
  MaxSessions = 4
  MaxCalls = 3
  Unknown = "unknown"
SPECIFICATION FairSpec
INVARIANTS TypeOK BeliefIsTrue OnlyAskedIsExecuted
PROPERTIES ParserRecovers KeepsPromise
\* The bounded host stops when its sessions are used up.
CHECK_DEADLOCK FALSE
