------------------------- MODULE CartridgeGeometry -------------------------
(***************************************************************************)
(* The address space of the cartridge flash as the firmware numbers it     *)
(* (banks of sectors, sectors of blocks, blocks of bytes) and the requests *)
(* made on it.  In the code: 16 banks, 4 sectors per bank, 16 blocks per   *)
(* sector and 256 bytes per block (1024 blocks).  A byte is the set of its *)
(* bits that read as one, so that the erased byte 0xff is Bits and (x & y) *)
(* is the intersection of x and y.                                         *)
(***************************************************************************)
EXTENDS Naturals

CONSTANTS
  NBanks,        \* number of banks (16)
  BankSectors,   \* erase sectors in a bank (4)
  SectorBlocks,  \* 256-byte blocks in a sector (16)
  BlockBytes,    \* bytes in a block (256)
  Bits,          \* the bit positions of a byte
  DQ7            \* the bit that completion polling looks at (mask 0x80)

ASSUME GeometryAssumption ==
  /\ NBanks \in Nat \ {0}
  /\ BankSectors \in Nat \ {0}
  /\ SectorBlocks \in Nat \ {0}
  /\ BlockBytes \in Nat \ {0}
  /\ DQ7 \in Bits

BankBlocks == BankSectors * SectorBlocks
NBlocks    == NBanks * BankBlocks

Blocks  == 0 .. NBlocks - 1
Banks   == 0 .. NBanks - 1
Offsets == 0 .. BlockBytes - 1

Byte      == SUBSET Bits
BlockData == [Offsets -> Byte]
Stores    == [Blocks -> BlockData]

\* A block whose 256 bytes are all 0xff.
Blank == [o \in Offsets |-> Bits]

\* The blocks of a bank and of one of its sectors: start = bank << 14 and
\* start + (sector << 12), in units of 256 bytes.
InBank(bank)           == {b \in Blocks : bank * BankBlocks <= b /\ b < (bank + 1) * BankBlocks}
SectorStartShift(bank, s) == bank * SectorBlocks + s * SectorBlocks   \* mutant
SectorStart(bank, s)   == bank * BankBlocks + s * SectorBlocks
InSector(bank, s)      == {b \in Blocks : /\ SectorStart(bank, s) <= b
                                          /\ b < SectorStart(bank, s) + SectorBlocks}

\* Programming x over y needs no zero-to-one transition: (y & x) == x.
Fits(x, y) == \A o \in Offsets : x[o] \subseteq y[o]

-----------------------------------------------------------------------------
\* Requests name a block or a bank by number; one past the last block stands
\* for every number out of range.
Targets  == 0 .. NBlocks
Requests == [kind : {"program"}, target : Targets, data : BlockData]
            \cup [kind : {"eraseBank", "eraseChip", "read"}, target : Targets, data : {Blank}]

\* Status bytes of the driver.
Success   == 0
BadNumber == 2
WrongChip == 3
Timeout   == 4   \* the chip did not complete
ZeroToOne == 6   \* the data needs a bit to go from zero to one
Mismatch  == 5   \* what was read back is not what was asked for

Refusals == {BadNumber, WrongChip, ZeroToOne}
Failures == {Timeout, Mismatch}
Statuses == {Success} \cup Refusals \cup Failures

Region(o) ==
  CASE o.kind = "program"   -> {b \in Blocks : b = o.target}
    [] o.kind = "eraseBank" -> InBank(o.target)
    [] o.kind = "eraseChip" -> Blocks
    [] OTHER                -> {}

\* What the region of request o must hold for status 0.
Achieved(o, s) ==
  /\ o.kind = "program" => o.target \in Blocks /\ s[o.target] = o.data
  /\ o.kind \in {"eraseBank", "eraseChip"} => \A b \in Region(o) : s[b] = Blank

OnlyInRegion(o, s, t) == \A b \in Blocks \ Region(o) : t[b] = s[b]
=============================================================================
