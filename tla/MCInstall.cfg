SPECIFICATION FairSpec
CONSTANTS
  Devices = {c1, c2, c3}
  Silent = {c3}
  Legacy = {}
  Ports = {p1, p2}
  Images = {i1}
  Bad = bad
  NoSerial = none
  MaxMoves = 3
  MaxTries = 1
  MaxRebuilds = 1
INVARIANTS SelectedIsProgrammed ReportIsTrue
PROPERTIES InstallEnds CartridgesBehave
