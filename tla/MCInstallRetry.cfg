SPECIFICATION Spec
CONSTANTS
  Devices = {c1, c2}
  Silent = {c2}
  Legacy = {c1}
  Ports = {p1, p2}
  Images = {i1}
  Bad = bad
  NoSerial = none
  MaxMoves = 3
  MaxTries = 2
  MaxRebuilds = 1
INVARIANT RetryCanIdentify
CHECK_DEADLOCK FALSE
