SPECIFICATION Spec
CONSTANTS
  ManifestAt = 4
  BootSize = 4
  Row = 2
  Space = 16
  Word = 48
  FF = 3
  Magic = 2
  Protocol = 2
  Crc <- MCCrc
  Lines <- MCLines
INVARIANTS AcceptedStarts StudioIsStricter StampedAccepted FactoryAccepted
CONSTRAINT StillRead
CHECK_DEADLOCK FALSE
