\* One bank of two one-block sectors, two bytes of two bits: every contents of
\* the flash, every pair of data bytes and every stopping point of the loop.
CONSTANTS
  NBanks = 1
  BankSectors = 2
  SectorBlocks = 1
  BlockBytes = 2
  Bits = {0, 7}
  DQ7 = 7
  MaxAttempts = 2
SPECIFICATION FairSpec
INVARIANTS SuccessMeansStored RefusedLeavesFlash RetryFits
PROPERTIES KeepsPromise RequestEnds
