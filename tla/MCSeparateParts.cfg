SPECIFICATION PartsSpec
CONSTANTS
  Signatures = {"1E9587", "000000"}
  LowFuses = {"5E", "FF"}
  HighFuses = {"99", "98", "D8"}
  ExtendedFuses = {"F3", "FB", "CB", "FF"}
  Factory = {"F3"}
  Installed = {"FB", "CB"}
  Unlocked = {"FF"}
  Locks = {"FF", "EC"}
  Images = {"factory", "partial"}
  Complete = {"factory"}
  ProbeCounts = {2, 3}
  Severities = {"INFO", "UNKNOWN"}
  Unknown = "UNKNOWN"
  MaxMessages = 3
  TrimMessages = 2
  MaxLines = 3
  MaxArrivals = 6
  Release <- MCRelease
  Entry = "s"
  Chunks = {"a", "b", "s"}
  Limit = 2
  MaxChunks = 3
  MaxRedirects = 2
  Files = {"a", "b", "c"}
  Aliases = {"./a"}
  Canonical <- MCCanonical
  Banks = {"rom", "game"}
  OtherData = {"short"}
  Roms = {"curated"}
  MaxRecent = 2
  MaxChanges = 1
  FrameMod = 16
  COMMAND_TIMEOUT_MS = 7
  PAYLOAD_TIMEOUT_MS = 15
  Watchdog = 15
  LongestJob = 40
  CommandLength = 3
  FrameLength = 3
INVARIANTS PartsTypeOK SaysTheTruth LogViewIsRight InstallsRelease ReloadsWhatIsShown ExpiresOnTime
PROPERTIES OnlyFitIsWritten BootResetLast NeverForgotten DownloadEnds
\* The log stops when its messages are used up.
CHECK_DEADLOCK FALSE
