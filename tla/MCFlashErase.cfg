\* Two banks of two sectors of two blocks, one byte of one bit each: the
\* sector arithmetic, and sectors whose polled byte is not their only byte.
CONSTANTS
  NBanks = 2
  BankSectors = 2
  SectorBlocks = 2
  BlockBytes = 1
  Bits = {7}
  DQ7 = 7
  MaxAttempts = 2
SPECIFICATION Spec
INVARIANTS OutsideUntouched
