-------------------------- MODULE FlashDriverProofs --------------------------
(***************************************************************************)
(* Proofs about the flash driver for every geometry, every byte width and  *)
(* every behaviour of the chip that FlashDriver admits.                    *)
(***************************************************************************)
EXTENDS FlashDriver, TLAPS

\* Status bytes are numbers throughout, and polling has a bound.
USE PollingAssumption DEF Success, Refusals, Failures, Statuses, BadNumber, WrongChip, Timeout, Mismatch, ZeroToOne

\* Sector i of a bank ends no later than the bank (start + (sector << 12)
\* stays below the next bank, sst39sf020.c:226-228).
LEMMA SectorFitsBank ==
  ASSUME NEW t \in Nat, NEW i \in Nat, i < BankSectors
  PROVE  InSector(t, i) \subseteq InBank(t)
<1> USE GeometryAssumption
<1>1. PICK k \in Nat : BankSectors = (i + 1) + k
  <2>1. BankSectors - (i + 1) \in Nat
    OBVIOUS
  <2> QED BY <2>1
<1>2. BankSectors * SectorBlocks = (i * SectorBlocks + SectorBlocks) + k * SectorBlocks
  BY <1>1
<1>3. k * SectorBlocks \in Nat /\ i * SectorBlocks \in Nat /\ BankBlocks \in Nat /\ t * BankBlocks \in Nat
  BY DEF BankBlocks
<1>4. (t + 1) * BankBlocks = t * BankBlocks + BankBlocks
  BY <1>3
<1>5. BankBlocks >= i * SectorBlocks + SectorBlocks
  BY <1>2, <1>3 DEF BankBlocks
<1>6. NBlocks \in Nat
  BY <1>3 DEF NBlocks
<1> SUFFICES ASSUME NEW b \in InSector(t, i)
             PROVE  b \in InBank(t)
  OBVIOUS
<1>7. /\ b \in Blocks /\ b \in Nat
      /\ t * BankBlocks + i * SectorBlocks <= b
      /\ b < t * BankBlocks + i * SectorBlocks + SectorBlocks
  BY <1>6 DEF InSector, SectorStart, Blocks
<1> HIDE DEF BankBlocks
<1> DEFINE tb == t * BankBlocks
           is == i * SectorBlocks
           nx == (t + 1) * BankBlocks
<1>8. tb \in Nat /\ is \in Nat /\ nx = tb + BankBlocks
  BY <1>3, <1>4
<1>9. tb + is <= b /\ b < tb + is + SectorBlocks
  BY <1>7
<1>10. BankBlocks >= is + SectorBlocks
  BY <1>5
<1> HIDE DEF tb, is, nx
<1>11. tb <= b /\ b < nx
  BY <1>3, <1>7, <1>8, <1>9, <1>10
<1> QED BY <1>7, <1>11 DEF InBank, tb, nx

-----------------------------------------------------------------------------
\* The erased block is block data, so the first request and every erase
\* request are well typed.
LEMMA BlankType == Blank \in BlockData
BY DEF Blank, BlockData, Byte

\* A driver that has just started satisfies the inductive invariant.
LEMMA DriverInit == Init => DriverInv
<1> SUFFICES ASSUME Init PROVE DriverInv
  OBVIOUS
<1>1. 0 \in 0 .. NBlocks
  <2>1. NBlocks \in Nat
    BY GeometryAssumption DEF NBlocks, BankBlocks
  <2> QED BY <2>1
<1>2. op \in Requests
  BY <1>1, BlankType DEF Init, Requests, Targets
<1>3. TypeOK
  BY <1>2, BlankType DEF Init, TypeOK, Chips, ExpectedChip
<1> QED
  BY <1>3 DEF Init, DriverInv, SuccessMeansStored, RefusedLeavesFlash, OutsideUntouched,
     RetryFits, OnlyInRegion, Running

\* Erasing the blocks of a set R of a store.
LEMMA PatchBlocks ==
  ASSUME NEW s \in Stores, NEW R \in SUBSET Blocks, NEW e \in [R -> BlockData]
  PROVE  LET n == [b \in Blocks |-> IF b \in R THEN e[b] ELSE s[b]]
         IN /\ n \in Stores
            /\ \A b \in Blocks : b \notin R => n[b] = s[b]
BY DEF Stores

-----------------------------------------------------------------------------
\* A driver that answers without touching the flash keeps the invariant,
\* provided that success is earned and a refusal comes before any change.
LEMMA AnswerKeeps ==
  ASSUME DriverInv, NEW c \in Statuses, Answer(c),
         UNCHANGED <<store, op, chip, before>>, out' \in BlockData,
         c = Success => Achieved(op, store),
         c \in Refusals => store = before
  PROVE  DriverInv'
<1>1. TypeOK'
  BY DEF DriverInv, TypeOK, Answer
<1>2. /\ store' = store /\ op' = op /\ before' = before
      /\ pc' = "idle" /\ status' = c /\ attempts' = 0
  BY DEF Answer
<1>3. SuccessMeansStored' /\ RefusedLeavesFlash'
  BY <1>2 DEF SuccessMeansStored, RefusedLeavesFlash, Achieved, Region
<1>4. OutsideUntouched' /\ RetryFits'
  BY <1>2 DEF DriverInv, OutsideUntouched, RetryFits, OnlyInRegion, Region
<1> QED
  BY <1>1, <1>2, <1>3, <1>4 DEF DriverInv, Running

\* Accepting a request: the flash is remembered as it is.
LEMMA RequestKeeps ==
  ASSUME DriverInv, NEW r \in Requests, Request(r)
  PROVE  DriverInv'
<1>1. TypeOK'
  BY BlankType DEF DriverInv, TypeOK, Request, Running
<1>2. SuccessMeansStored' /\ RefusedLeavesFlash' /\ OutsideUntouched' /\ RetryFits'
  BY DEF Request, SuccessMeansStored, RefusedLeavesFlash, OutsideUntouched, RetryFits, OnlyInRegion
<1> QED
  BY <1>1, <1>2 DEF DriverInv, Request

\* A read answers with data or refuses a bad number.
LEMMA ReadKeeps == DriverInv /\ ReadBlock => DriverInv'
<1> SUFFICES ASSUME DriverInv, ReadBlock PROVE DriverInv'
  OBVIOUS
<1>1. store = before /\ Achieved(op, store)
  BY DEF DriverInv, ReadBlock, Achieved
<1>2. out' \in BlockData
  BY DEF DriverInv, TypeOK, ReadBlock, Stores
<1>3. CASE Answer(BadNumber)
  BY <1>1, <1>2, <1>3, AnswerKeeps DEF ReadBlock
<1>4. CASE Answer(Success)
  BY <1>1, <1>2, <1>4, AnswerKeeps DEF ReadBlock
<1> QED
  BY <1>3, <1>4 DEF ReadBlock

\* sst_program_block refuses, or starts with a block the data fits into.
LEMMA ProgramEntryKeeps == DriverInv /\ ProgramEntry => DriverInv'
<1> SUFFICES ASSUME DriverInv, ProgramEntry PROVE DriverInv'
  OBVIOUS
<1>1. store = before /\ UNCHANGED <<store, op, chip, before>> /\ out' \in BlockData
  BY DEF DriverInv, TypeOK, ProgramEntry
<1>2. CASE \E c \in Refusals : Answer(c)
  BY <1>1, <1>2, AnswerKeeps
<1>3. CASE /\ op.target \in Blocks /\ Fits(op.data, store[op.target])
           /\ Continue("program", 0)
  <2>1. TypeOK'
    BY <1>1, <1>3 DEF DriverInv, TypeOK, Continue, Running
  <2>2. SuccessMeansStored' /\ RefusedLeavesFlash' /\ OutsideUntouched' /\ RetryFits'
    BY <1>1, <1>3 DEF Continue, SuccessMeansStored, RefusedLeavesFlash, OutsideUntouched,
       RetryFits, OnlyInRegion
  <2>3. outcome' = "none" /\ op'.kind = "program" /\ op'.target \in Blocks
    BY <1>1, <1>3 DEF DriverInv, ProgramEntry, Continue, Running
  <2>4. pc' = "program" /\ index' = 0 /\ attempts' = 0 /\ Fits(op'.data, store'[op'.target])
    BY <1>1, <1>3 DEF Continue
  <2>5. 0 <= BlockBytes /\ \A o \in Offsets : ~(o < 0)
    BY GeometryAssumption DEF Offsets
  <2> QED
    BY <2>1, <2>2, <2>3, <2>4, <2>5 DEF DriverInv
<1> QED
  BY <1>2, <1>3 DEF ProgramEntry, Precheck

\* The end of the program loop: all bytes have been compared.
LEMMA ProgramDoneKeeps == DriverInv /\ ProgramDone => DriverInv'
<1> SUFFICES ASSUME DriverInv, ProgramDone PROVE DriverInv'
  OBVIOUS
<1>1. /\ op.kind = "program" /\ op.target \in Blocks
      /\ \A o \in Offsets : store[op.target][o] = op.data[o]
  BY GeometryAssumption DEF DriverInv, ProgramDone, Offsets
<1>2. store[op.target] \in BlockData /\ op.data \in BlockData
  BY <1>1, BlankType DEF DriverInv, TypeOK, Stores, Requests
<1>3. Achieved(op, store)
  BY <1>1, <1>2 DEF Achieved, BlockData
<1>4. UNCHANGED <<store, op, chip, before>> /\ out' \in BlockData /\ Answer(Success)
  BY DEF DriverInv, TypeOK, ProgramDone
<1> QED
  BY <1>3, <1>4, AnswerKeeps

\* What one program command, complete or not, does to a block that the data
\* fits into: it still fits, other blocks and the bytes already stored do not
\* change, and a byte that reads back equal extends the stored prefix.
LEMMA ProgramCommand ==
  ASSUME DriverInv, pc = "program", index < BlockBytes,
         NEW v \in Programmed(store[op.target][index], op.data[index]),
         store' = [store EXCEPT ![op.target][index] = v]
  PROVE  /\ store' \in Stores
         /\ Fits(op.data, store'[op.target])
         /\ \A b \in Blocks : b # op.target => store'[b] = store[b]
         /\ \A o \in Offsets : o < index => store'[op.target][o] = op.data[o]
         /\ v = op.data[index] =>
              \A o \in Offsets : o < index + 1 => store'[op.target][o] = op.data[o]
<1>1. /\ op.target \in Blocks /\ store \in Stores /\ index \in Nat
      /\ Fits(op.data, store[op.target])
      /\ \A o \in Offsets : o < index => store[op.target][o] = op.data[o]
  BY DEF DriverInv, TypeOK
<1>2. index \in Offsets
  BY <1>1, GeometryAssumption DEF Offsets
<1>3. /\ v \in Byte
      /\ (store[op.target][index] \cap op.data[index]) \subseteq v
  BY DEF Programmed
<1>4. /\ store' \in Stores
      /\ store'[op.target][index] = v
      /\ \A o \in Offsets : o # index => store'[op.target][o] = store[op.target][o]
      /\ \A b \in Blocks : b # op.target => store'[b] = store[b]
  BY <1>1, <1>2, <1>3 DEF Stores, BlockData
<1>5. op.data[index] \subseteq v
  BY <1>1, <1>2, <1>3 DEF Fits
<1>6. Fits(op.data, store'[op.target])
  BY <1>1, <1>4, <1>5 DEF Fits
<1>7. \A o \in Offsets : o \in Nat
  BY GeometryAssumption DEF Offsets
<1> QED
  BY <1>1, <1>4, <1>6, <1>7

\* A program command disturbs neither what lies outside the block nor the
\* possibility of a retry.
LEMMA ProgramCommandSafe ==
  ASSUME DriverInv, pc = "program", index < BlockBytes,
         NEW v \in Programmed(store[op.target][index], op.data[index]),
         store' = [store EXCEPT ![op.target][index] = v],
         UNCHANGED <<op, before>>
  PROVE  OutsideUntouched' /\ RetryFits'
<1>1. op.kind = "program" /\ op.target \in Blocks
  BY DEF DriverInv
<1>2. OutsideUntouched'
  BY <1>1, ProgramCommand DEF DriverInv, OutsideUntouched, OnlyInRegion, Region
<1>3. RetryFits'
  BY <1>1, ProgramCommand DEF RetryFits
<1> QED
  BY <1>2, <1>3

\* A poll that finds the chip busy changes nothing but the count.
LEMMA BusyKeeps ==
  ASSUME DriverInv, attempts > 0, StillBusy, UNCHANGED <<op, out, chip, before>>
  PROVE  DriverInv'
<1>1. attempts' \in 0 .. MaxAttempts /\ attempts' > 0
  BY DEF DriverInv, TypeOK, StillBusy, LeftAfter
<1>2. UNCHANGED <<store, pc, index, outcome, status, op, out, chip, before>>
  BY DEF StillBusy
<1>3. TypeOK'
  BY <1>1, <1>2 DEF DriverInv, TypeOK
<1>4. SuccessMeansStored' /\ RefusedLeavesFlash' /\ OutsideUntouched' /\ RetryFits'
  BY <1>2 DEF DriverInv, SuccessMeansStored, RefusedLeavesFlash, OutsideUntouched, RetryFits,
     OnlyInRegion, Region, Achieved
<1>5. \/ pc = "program" /\ index < BlockBytes
      \/ pc = "eraseBank" /\ index < BankSectors
      \/ pc = "eraseChip"
  BY DEF DriverInv
<1> QED
  BY <1>1, <1>2, <1>3, <1>4, <1>5 DEF DriverInv

\* A failure after the flash may have been modified keeps the invariant,
\* provided that the damage stays inside the request's region.
LEMMA FailureKeeps ==
  ASSUME DriverInv, NEW c \in Failures, Answer(c), UNCHANGED <<op, out, chip, before>>,
         store' \in Stores, OutsideUntouched', RetryFits'
  PROVE  DriverInv'
<1>1. TypeOK'
  BY DEF DriverInv, TypeOK, Answer
<1>2. SuccessMeansStored' /\ RefusedLeavesFlash'
  BY DEF Answer, SuccessMeansStored, RefusedLeavesFlash
<1> QED
  BY <1>1, <1>2 DEF DriverInv, Answer, Running

\* One iteration of the program loop, up to its flash command.
LEMMA ProgramByteKeeps == DriverInv /\ ProgramByte => DriverInv'
<1> SUFFICES ASSUME DriverInv, ProgramByte PROVE DriverInv'
  OBVIOUS
<1>1. /\ pc = "program" /\ index < BlockBytes /\ index \in Nat /\ index + 1 <= BlockBytes
      /\ op.kind = "program" /\ op.target \in Blocks
      /\ outcome = "none" /\ UNCHANGED <<store, op, out, chip, before>>
  BY GeometryAssumption DEF DriverInv, TypeOK, ProgramByte, Running
<1>2. \A o \in Offsets : o < index => store[op.target][o] = op.data[o]
  BY <1>1 DEF DriverInv
<1>3. CASE store[op.target][index] = op.data[index] /\ Continue("program", index + 1)
  <2>1. \A o \in Offsets : o < index + 1 => store[op.target][o] = op.data[o]
    <3>1. \A o \in Offsets : o \in Nat
      BY GeometryAssumption DEF Offsets
    <3>2. \A o \in Offsets : o < index + 1 => o < index \/ o = index
      BY <1>1, <3>1
    <3> QED BY <1>2, <1>3, <3>2
  <2>2. TypeOK'
    BY <1>1, <1>3 DEF DriverInv, TypeOK, Continue, Running
  <2>3. SuccessMeansStored' /\ RefusedLeavesFlash' /\ OutsideUntouched' /\ RetryFits'
    BY <1>1, <1>3 DEF DriverInv, Continue, SuccessMeansStored, RefusedLeavesFlash,
       OutsideUntouched, RetryFits, OnlyInRegion, Region
  <2> QED
    BY <1>1, <1>3, <2>1, <2>2, <2>3 DEF DriverInv, Continue
<1>4. CASE Command("program", index)
  <2>1. TypeOK'
    BY <1>1, <1>4 DEF DriverInv, TypeOK, Command, Running
  <2>2. SuccessMeansStored' /\ RefusedLeavesFlash' /\ OutsideUntouched' /\ RetryFits'
    BY <1>1, <1>4 DEF DriverInv, Command, SuccessMeansStored, RefusedLeavesFlash,
       OutsideUntouched, RetryFits, OnlyInRegion, Region
  <2> QED
    BY <1>1, <1>2, <1>4, <2>1, <2>2 DEF DriverInv, Command
<1> QED
  BY <1>3, <1>4 DEF ProgramByte

\* A poll of DQ7, and the comparison once it agrees.
LEMMA PollByteKeeps == DriverInv /\ PollByte => DriverInv'
<1> SUFFICES ASSUME DriverInv, PollByte PROVE DriverInv'
  OBVIOUS
<1>1. /\ pc = "program" /\ index < BlockBytes /\ index \in Nat /\ index + 1 <= BlockBytes
      /\ op.kind = "program" /\ op.target \in Blocks /\ attempts > 0
      /\ outcome = "none" /\ UNCHANGED <<op, out, chip, before>>
  BY GeometryAssumption DEF DriverInv, TypeOK, PollByte, Running
<1>2. CASE StillBusy
  BY <1>1, <1>2, BusyKeeps
<1>3. ASSUME NEW v \in Programmed(store[op.target][index], op.data[index]),
             store' = [store EXCEPT ![op.target][index] = v],
             \/ v = op.data[index] /\ Continue("program", index + 1)
             \/ \E c \in Failures : Answer(c)
      PROVE  DriverInv'
  <2>1. /\ store' \in Stores /\ Fits(op.data, store'[op.target])
        /\ OutsideUntouched' /\ RetryFits'
    BY <1>1, <1>3, ProgramCommand, ProgramCommandSafe
  <2>2. CASE v = op.data[index] /\ Continue("program", index + 1)
    <3>1. \A o \in Offsets : o < index + 1 => store'[op.target][o] = op.data[o]
      BY <1>1, <1>3, <2>2, ProgramCommand
    <3>2. TypeOK'
      BY <1>1, <2>1, <2>2 DEF DriverInv, TypeOK, Continue, Running
    <3>3. SuccessMeansStored' /\ RefusedLeavesFlash'
      BY <1>1, <2>2 DEF Continue, SuccessMeansStored, RefusedLeavesFlash
    <3> QED
      BY <1>1, <2>1, <2>2, <3>1, <3>2, <3>3 DEF DriverInv, Continue
  <2>3. CASE \E c \in Failures : Answer(c)
    BY <1>1, <2>1, <2>3, FailureKeeps
  <2> QED
    BY <1>3, <2>2, <2>3
<1> QED
  BY <1>2, <1>3 DEF PollByte, Verified, GivesUp

\* sst_erase_bank refuses, or starts on a bank of the chip.
LEMMA EraseBankEntryKeeps == DriverInv /\ EraseBankEntry => DriverInv'
<1> SUFFICES ASSUME DriverInv, EraseBankEntry PROVE DriverInv'
  OBVIOUS
<1>1. /\ store = before /\ UNCHANGED <<store, op, chip, before>> /\ out' \in BlockData
      /\ op.kind = "eraseBank" /\ outcome = "none"
  BY DEF DriverInv, TypeOK, EraseBankEntry, Running
<1>2. CASE Answer(BadNumber) \/ Answer(WrongChip)
  BY <1>1, <1>2, AnswerKeeps
<1>3. CASE op.target \in Banks /\ Continue("eraseBank", 0)
  <2>1. TypeOK'
    BY <1>1, <1>3 DEF DriverInv, TypeOK, Continue, Running
  <2>2. SuccessMeansStored' /\ RefusedLeavesFlash' /\ OutsideUntouched' /\ RetryFits'
    BY <1>1, <1>3 DEF Continue, SuccessMeansStored, RefusedLeavesFlash, OutsideUntouched,
       RetryFits, OnlyInRegion
  <2> QED
    BY <1>1, <1>3, <2>1, <2>2, GeometryAssumption DEF DriverInv, Continue
<1> QED
  BY <1>2, <1>3 DEF EraseBankEntry

\* sst_erase refuses or starts.
LEMMA EraseChipEntryKeeps == DriverInv /\ EraseChipEntry => DriverInv'
<1> SUFFICES ASSUME DriverInv, EraseChipEntry PROVE DriverInv'
  OBVIOUS
<1>1. /\ store = before /\ UNCHANGED <<store, op, chip, before>> /\ out' \in BlockData
      /\ op.kind = "eraseChip" /\ outcome = "none"
  BY DEF DriverInv, TypeOK, EraseChipEntry, Running
<1>2. CASE Answer(WrongChip)
  BY <1>1, <1>2, AnswerKeeps
<1>3. CASE Command("eraseChip", 0)
  <2>1. TypeOK'
    BY <1>1, <1>3 DEF DriverInv, TypeOK, Command, Running
  <2>2. SuccessMeansStored' /\ RefusedLeavesFlash' /\ OutsideUntouched' /\ RetryFits'
    BY <1>1, <1>3 DEF Command, SuccessMeansStored, RefusedLeavesFlash, OutsideUntouched,
       RetryFits, OnlyInRegion
  <2> QED
    BY <1>1, <1>3, <2>1, <2>2 DEF DriverInv, Command
<1> QED
  BY <1>2, <1>3 DEF EraseChipEntry

\* What an erase command on a set R of blocks inside the region of the request
\* can do, complete or not.
LEMMA EraseCommand ==
  ASSUME DriverInv, NEW R \in SUBSET Region(op), NEW s \in Erased(R),
         store' = [b \in Blocks |-> IF b \in R THEN s[b] ELSE store[b]],
         op.kind # "program",
         UNCHANGED <<op, before>>
  PROVE  store' \in Stores /\ OutsideUntouched' /\ RetryFits'
<1>1. R \subseteq Blocks /\ s \in [R -> BlockData] /\ store \in Stores
  BY DEF DriverInv, TypeOK, Region, Erased, InBank
<1>2. store' \in Stores /\ \A b \in Blocks : b \notin R => store'[b] = store[b]
  BY <1>1, PatchBlocks
<1>3. OutsideUntouched'
  <2>1. Region(op)' = Region(op)
    BY DEF Region
  <2> QED
    BY <1>2, <2>1 DEF DriverInv, OutsideUntouched, OnlyInRegion
<1> QED
  BY <1>2, <1>3 DEF RetryFits

\* The erase command of one sector.
LEMMA EraseSectorKeeps == DriverInv /\ EraseSector => DriverInv'
<1> SUFFICES ASSUME DriverInv, EraseSector PROVE DriverInv'
  OBVIOUS
<1>1. /\ op.kind = "eraseBank" /\ op.target \in Banks /\ index \in Nat /\ index < BankSectors
      /\ outcome = "none" /\ UNCHANGED <<store, op, out, chip, before>>
      /\ Command("eraseBank", index)
  BY DEF DriverInv, TypeOK, EraseSector, Running
<1>2. TypeOK'
  BY <1>1 DEF DriverInv, TypeOK, Command, Running
<1>3. SuccessMeansStored' /\ RefusedLeavesFlash' /\ OutsideUntouched' /\ RetryFits'
  BY <1>1 DEF DriverInv, Command, SuccessMeansStored, RefusedLeavesFlash,
     OutsideUntouched, RetryFits, OnlyInRegion, Region
<1> QED
  BY <1>1, <1>2, <1>3, GeometryAssumption DEF DriverInv, Command

\* A poll of the sector's first byte.
LEMMA PollSectorKeeps == DriverInv /\ PollSector => DriverInv'
<1> SUFFICES ASSUME DriverInv, PollSector PROVE DriverInv'
  OBVIOUS
<1> DEFINE sector == InSector(op.target, index)
<1>1. /\ op.kind = "eraseBank" /\ op.target \in Banks /\ index \in Nat /\ index < BankSectors
      /\ outcome = "none" /\ attempts > 0 /\ UNCHANGED <<op, out, chip, before>>
  BY DEF DriverInv, TypeOK, PollSector, Running
<1>2. CASE StillBusy
  BY <1>1, <1>2, BusyKeeps
<1>3. ASSUME NEW s \in Erased(sector),
             store' = [b \in Blocks |-> IF b \in sector THEN s[b] ELSE store[b]],
             Continue("eraseBank", index + 1) \/ Answer(Timeout)
      PROVE  DriverInv'
  <2>1. sector \subseteq Region(op)
    <3>1. op.target \in Nat
      BY <1>1 DEF Banks
    <3> QED
      BY <1>1, <3>1, SectorFitsBank DEF Region
  <2> HIDE DEF sector
  <2>2. store' \in Stores /\ OutsideUntouched' /\ RetryFits'
    BY <1>1, <1>3, <2>1, EraseCommand
  <2>3. CASE Continue("eraseBank", index + 1)
    <3>1. TypeOK'
      BY <1>1, <2>2, <2>3 DEF DriverInv, TypeOK, Continue, Running
    <3>2. SuccessMeansStored' /\ RefusedLeavesFlash'
      BY <1>1, <2>3 DEF Continue, SuccessMeansStored, RefusedLeavesFlash
    <3>3. index + 1 <= BankSectors
      BY <1>1, GeometryAssumption
    <3> QED
      BY <1>1, <2>2, <2>3, <3>1, <3>2, <3>3 DEF DriverInv, Continue
  <2>4. CASE Answer(Timeout)
    BY <1>1, <2>2, <2>4, FailureKeeps
  <2> QED
    BY <1>3, <2>3, <2>4
<1> QED
  BY <1>2, <1>3 DEF PollSector, GivesUp

\* The blank check that ends a bank erase.
LEMMA EraseBankCheckKeeps == DriverInv /\ EraseBankCheck => DriverInv'
<1> SUFFICES ASSUME DriverInv, EraseBankCheck PROVE DriverInv'
  OBVIOUS
<1>1. /\ op.kind = "eraseBank" /\ UNCHANGED <<store, op, chip, before>> /\ out' \in BlockData
  BY DEF DriverInv, TypeOK, EraseBankCheck
<1>2. CASE AllBlank(InBank(op.target)) /\ Answer(Success)
  <2>1. Achieved(op, store)
    BY <1>1, <1>2 DEF Achieved, Region, AllBlank
  <2> QED
    BY <1>1, <1>2, <2>1, AnswerKeeps
<1>3. CASE Answer(Mismatch)
  BY <1>1, <1>3, AnswerKeeps
<1> QED
  BY <1>2, <1>3 DEF EraseBankCheck

\* A poll of the first byte of the chip.
LEMMA PollChipKeeps == DriverInv /\ PollChip => DriverInv'
<1> SUFFICES ASSUME DriverInv, PollChip PROVE DriverInv'
  OBVIOUS
<1>1. /\ op.kind = "eraseChip" /\ outcome = "none" /\ attempts > 0
      /\ UNCHANGED <<op, out, chip, before>>
  BY DEF DriverInv, TypeOK, PollChip, Running
<1>2. CASE StillBusy
  BY <1>1, <1>2, BusyKeeps
<1>3. ASSUME NEW s \in Erased(Blocks), store' = s, Continue("chipCheck", 0) \/ Answer(Timeout)
      PROVE  DriverInv'
  <2>1. store' \in Stores /\ OutsideUntouched' /\ RetryFits'
    BY <1>1, <1>3 DEF Erased, Stores, OutsideUntouched, OnlyInRegion, Region, RetryFits
  <2>2. CASE Continue("chipCheck", 0)
    <3>1. TypeOK'
      BY <1>1, <2>1, <2>2 DEF DriverInv, TypeOK, Continue, Running
    <3>2. SuccessMeansStored' /\ RefusedLeavesFlash'
      BY <1>1, <2>2 DEF Continue, SuccessMeansStored, RefusedLeavesFlash
    <3> QED
      BY <1>1, <2>1, <2>2, <3>1, <3>2 DEF DriverInv, Continue
  <2>3. CASE Answer(Timeout)
    BY <1>1, <2>1, <2>3, FailureKeeps
  <2> QED
    BY <1>3, <2>2, <2>3
<1> QED
  BY <1>2, <1>3 DEF PollChip, GivesUp

\* The blank check that ends a chip erase.
LEMMA EraseChipCheckKeeps == DriverInv /\ EraseChipCheck => DriverInv'
<1> SUFFICES ASSUME DriverInv, EraseChipCheck PROVE DriverInv'
  OBVIOUS
<1>1. /\ op.kind = "eraseChip" /\ UNCHANGED <<store, op, chip, before>> /\ out' \in BlockData
  BY DEF DriverInv, TypeOK, EraseChipCheck
<1>2. CASE AllBlank(Blocks) /\ Answer(Success)
  <2>1. Achieved(op, store)
    BY <1>1, <1>2 DEF Achieved, Region, AllBlank
  <2> QED
    BY <1>1, <1>2, <2>1, AnswerKeeps
<1>3. CASE Answer(Mismatch)
  BY <1>1, <1>3, AnswerKeeps
<1> QED
  BY <1>2, <1>3 DEF EraseChipCheck

\* Losing power in any state keeps the invariant: the region may be torn, but
\* nothing outside it is, and a torn block can be programmed again.
LEMMA PowerLossKeeps == DriverInv /\ PowerLoss => DriverInv'
<1> SUFFICES ASSUME DriverInv, PowerLoss PROVE DriverInv'
  OBVIOUS
<1>1. /\ pc' = "idle" /\ outcome' = "lost" /\ index' = 0 /\ attempts' = 0
      /\ UNCHANGED <<op, status, out, chip, before>>
  BY DEF PowerLoss
<1>2. store' \in Stores /\ OutsideUntouched' /\ RetryFits'
  <2>1. CASE UNCHANGED store
    BY <1>1, <2>1 DEF DriverInv, TypeOK, OutsideUntouched, RetryFits, OnlyInRegion, Region
  <2>2. CASE /\ pc = "program" /\ attempts > 0
             /\ \E v \in Programmed(store[op.target][index], op.data[index]) :
                  store' = [store EXCEPT ![op.target][index] = v]
    <3>1. index < BlockBytes
      BY <2>2 DEF DriverInv
    <3> QED
      BY <1>1, <2>2, <3>1, ProgramCommand, ProgramCommandSafe
  <2>3. CASE /\ pc = "eraseBank" /\ attempts > 0
             /\ LET sector == InSector(op.target, index)
                IN \E s \in Erased(sector) :
                     store' = [b \in Blocks |-> IF b \in sector THEN s[b] ELSE store[b]]
    <3> DEFINE sector == InSector(op.target, index)
    <3>1. op.kind = "eraseBank" /\ op.target \in Banks /\ index \in Nat /\ index < BankSectors
      BY <2>3 DEF DriverInv, TypeOK
    <3>2. sector \subseteq Region(op)
      BY <2>3, <3>1, SectorFitsBank DEF Region, Banks
    <3>3. PICK s \in Erased(sector) :
            store' = [b \in Blocks |-> IF b \in sector THEN s[b] ELSE store[b]]
      BY <2>3
    <3> HIDE DEF sector
    <3> QED
      BY <1>1, <3>1, <3>2, <3>3, EraseCommand
  <2>4. CASE pc = "eraseChip" /\ \E s \in Erased(Blocks) : store' = s
    BY <1>1, <2>4 DEF DriverInv, Erased, Stores, OutsideUntouched, OnlyInRegion, Region, RetryFits
  <2> QED
    BY <2>1, <2>2, <2>3, <2>4 DEF PowerLoss
<1>3. TypeOK' /\ SuccessMeansStored' /\ RefusedLeavesFlash'
  BY <1>1, <1>2 DEF DriverInv, TypeOK, SuccessMeansStored, RefusedLeavesFlash
<1> QED
  BY <1>1, <1>2, <1>3 DEF DriverInv, Running

-----------------------------------------------------------------------------
\* The inductive invariant holds in every reachable state.
THEOREM DriverInvariant == Spec => []DriverInv
<1>1. Init => DriverInv
  BY DriverInit
<1>2. DriverInv /\ [Next]_vars => DriverInv'
  <2> SUFFICES ASSUME DriverInv, [Next]_vars PROVE DriverInv'
    OBVIOUS
  <2>1. ASSUME NEW r \in Requests, Request(r) PROVE DriverInv'
    BY <2>1, RequestKeeps
  <2>2. CASE ReadBlock \/ ProgramEntry \/ ProgramByte \/ PollByte \/ ProgramDone
    BY <2>2, ReadKeeps, ProgramEntryKeeps, ProgramByteKeeps, PollByteKeeps, ProgramDoneKeeps
  <2>3. CASE EraseBankEntry \/ EraseSector \/ PollSector \/ EraseBankCheck
    BY <2>3, EraseBankEntryKeeps, EraseSectorKeeps, PollSectorKeeps, EraseBankCheckKeeps
  <2>4. CASE EraseChipEntry \/ PollChip \/ EraseChipCheck
    BY <2>4, EraseChipEntryKeeps, PollChipKeeps, EraseChipCheckKeeps
  <2>5. CASE PowerLoss
    BY <2>5, PowerLossKeeps
  <2>6. CASE UNCHANGED vars
    BY <2>6 DEF vars, DriverInv, TypeOK, SuccessMeansStored, RefusedLeavesFlash,
       OutsideUntouched, RetryFits, Achieved, OnlyInRegion, Region
  <2> QED
    BY <2>1, <2>2, <2>3, <2>4, <2>5, <2>6 DEF Next, Work
<1> QED
  BY <1>1, <1>2, PTL DEF Spec

\* Type correctness of the driver's state.
THEOREM DriverTypeCorrect == Spec => []TypeOK
<1>1. DriverInv => TypeOK
  BY DEF DriverInv
<1> QED
  BY <1>1, DriverInvariant, PTL

\* Status 0 means that the flash holds what was asked for, on every geometry
\* and however the chip behaves.
THEOREM SuccessIsStored == Spec => []SuccessMeansStored
<1>1. DriverInv => SuccessMeansStored
  BY DEF DriverInv
<1> QED
  BY <1>1, DriverInvariant, PTL

\* A refused request has changed nothing.
THEOREM RefusalChangesNothing == Spec => []RefusedLeavesFlash
<1>1. DriverInv => RefusedLeavesFlash
  BY DEF DriverInv
<1> QED
  BY <1>1, DriverInvariant, PTL

\* No request, failing or interrupted, reaches outside its block or bank.
THEOREM NothingOutsideTouched == Spec => []OutsideUntouched
<1>1. DriverInv => OutsideUntouched
  BY DEF DriverInv
<1> QED
  BY <1>1, DriverInvariant, PTL

\* A torn block always accepts the same data again.
THEOREM RetryAlwaysFits == Spec => []RetryFits
<1>1. DriverInv => RetryFits
  BY DEF DriverInv
<1> QED
  BY <1>1, DriverInvariant, PTL

-----------------------------------------------------------------------------
\* The promise and the driver speak of the same requests, stores and regions.
LEMMA SameWords ==
  /\ Promise!Stores = Stores /\ Promise!Requests = Requests /\ Promise!Statuses = Statuses
  /\ Promise!Refusals = Refusals /\ Promise!Success = Success
  /\ \A o, s, t : Promise!OnlyInRegion(o, s, t) <=> OnlyInRegion(o, s, t)
  /\ \A o, s : Promise!Achieved(o, s) <=> Achieved(o, s)
<1>1. /\ Promise!Blocks = Blocks /\ Promise!Stores = Stores /\ Promise!Blank = Blank
      /\ Promise!BlockData = BlockData /\ Promise!Targets = Targets
  BY DEF Promise!Blocks, Blocks, Promise!NBlocks, NBlocks, Promise!BankBlocks, BankBlocks,
     Promise!Stores, Stores, Promise!BlockData, BlockData, Promise!Offsets, Offsets,
     Promise!Byte, Byte, Promise!Blank, Blank, Promise!Targets, Targets
<1>2. \A t : Promise!InBank(t) = InBank(t)
  BY <1>1 DEF Promise!InBank, InBank, Promise!BankBlocks, BankBlocks
<1>3. \A o : Promise!Region(o) = Region(o)
  BY <1>1, <1>2 DEF Promise!Region, Region
<1>4. Promise!Requests = Requests
  BY <1>1 DEF Promise!Requests, Requests
<1>5. /\ Promise!Statuses = Statuses /\ Promise!Refusals = Refusals
      /\ Promise!Success = Success
  BY DEF Promise!Statuses, Promise!Refusals, Promise!Failures, Promise!Success, Promise!BadNumber,
     Promise!WrongChip, Promise!Timeout, Promise!Mismatch, Promise!ZeroToOne
<1>6. \A o, s, t : Promise!OnlyInRegion(o, s, t) <=> OnlyInRegion(o, s, t)
  BY <1>1, <1>3 DEF Promise!OnlyInRegion, OnlyInRegion
<1>7. \A o, s : Promise!Achieved(o, s) <=> Achieved(o, s)
  BY <1>1, <1>3 DEF Promise!Achieved, Achieved
<1> QED
  BY <1>1, <1>4, <1>5, <1>6, <1>7

\* A step of the driver that is neither a request nor a loss of power answers
\* (a refusal only from "dispatch", with the flash as it was) or goes on.
LEMMA WorkShape ==
  ASSUME DriverInv, Work
  PROVE  /\ pc \in Running /\ UNCHANGED <<op, before>>
         /\ \/ /\ pc' = "idle" /\ outcome' = "answered"
               /\ status' \in Refusals => pc = "dispatch" /\ store' = store
            \/ pc' \in Mutating /\ UNCHANGED <<outcome, status>>
<1> USE DEF Running, Mutating, Answer, Continue
<1>1. CASE ReadBlock
  BY <1>1 DEF ReadBlock
<1>2. CASE ProgramEntry
  BY <1>2 DEF ProgramEntry
<1>3. CASE ProgramByte
  BY <1>3 DEF ProgramByte, Command
<1>4. CASE ProgramDone
  BY <1>4 DEF ProgramDone
<1>5. CASE EraseBankEntry
  BY <1>5 DEF EraseBankEntry
<1>6. CASE EraseSector
  BY <1>6 DEF EraseSector, Command
<1>7. CASE EraseBankCheck
  BY <1>7 DEF EraseBankCheck
<1>8. CASE EraseChipEntry
  BY <1>8 DEF EraseChipEntry, Command
<1>9. CASE EraseChipCheck
  BY <1>9 DEF EraseChipCheck
<1>10. CASE PollByte
  <2>1. \/ StillBusy
        \/ Continue("program", index + 1)
        \/ Answer(Timeout)
        \/ Answer(Mismatch)
    BY <1>10 DEF PollByte, GivesUp
  <2>2. pc = "program" /\ UNCHANGED <<op, before>>
    BY <1>10 DEF PollByte
  <2> QED
    BY <2>1, <2>2 DEF StillBusy
<1>11. CASE PollSector
  BY <1>11 DEF PollSector, StillBusy, GivesUp
<1>12. CASE PollChip
  BY <1>12 DEF PollChip, StillBusy, GivesUp
<1> QED
  BY <1>1, <1>2, <1>3, <1>4, <1>5, <1>6, <1>7, <1>8, <1>9, <1>10, <1>11, <1>12 DEF Work

\* Within one request only its region changes, step by step.
LEMMA StepInRegion ==
  ASSUME DriverInv, DriverInv', UNCHANGED <<op, before>>
  PROVE  OnlyInRegion(op, store, store') /\ store' \in Stores
<1>1. Region(op)' = Region(op)
  BY DEF Region
<1> QED
  BY <1>1 DEF DriverInv, TypeOK, OutsideUntouched, OnlyInRegion

\* The driver keeps the promise stated by CartridgeStore: each of its steps is
\* a step, or a stuttering step, of the abstract specification.
THEOREM DriverKeepsPromise == Spec => KeepsPromise
<1>1. Init => Promise!AbsInit
  <2> SUFFICES ASSUME Init PROVE Promise!AbsInit
    OBVIOUS
  <2>1. store \in Stores /\ op \in Requests /\ pc = "idle" /\ outcome = "none" /\ status = Success
    BY DriverInit DEF Init, DriverInv, TypeOK
  <2> QED
    BY <2>1, SameWords DEF Promise!AbsInit, Running, Mutating
<1>2. DriverInv /\ DriverInv' /\ [Next]_vars => [Promise!AbsNext]_(Promise!absVars)
  <2> SUFFICES ASSUME DriverInv, DriverInv', [Next]_vars
               PROVE  Promise!AbsNext \/ UNCHANGED Promise!absVars
    OBVIOUS
  <2>1. ASSUME NEW r \in Requests, Request(r) PROVE Promise!AbsRequest
    BY <2>1, SameWords DEF Request, Promise!AbsRequest, Running, Mutating
  <2>2. CASE Work
    <3>1. /\ pc \in Running /\ UNCHANGED <<op, before>>
          /\ OnlyInRegion(op, store, store') /\ store' \in Stores
      BY <2>2, WorkShape, StepInRegion
    <3>2. CASE /\ pc' = "idle" /\ outcome' = "answered"
               /\ status' \in Refusals => pc = "dispatch" /\ store' = store
      <4>1. status' = Success => Achieved(op, store')
        BY <3>1, <3>2 DEF DriverInv, SuccessMeansStored, Achieved, Region
      <4>2. status' \in Statuses
        BY DEF DriverInv, TypeOK
      <4> QED
        BY <3>1, <3>2, <4>1, <4>2, SameWords DEF Promise!AbsNext, Promise!AbsAnswer, Running, Mutating
    <3>3. CASE pc' \in Mutating /\ UNCHANGED <<outcome, status>>
      BY <3>1, <3>3, SameWords DEF Promise!AbsNext, Promise!AbsModify, Running, Mutating
    <3> QED
      BY <2>2, <3>2, <3>3, WorkShape DEF Promise!AbsNext
  <2>3. CASE PowerLoss
    <3>1. /\ pc \in Running /\ pc' = "idle" /\ outcome' = "lost"
          /\ UNCHANGED <<op, status, before>>
      BY <2>3 DEF PowerLoss
    <3> QED
      BY <3>1, StepInRegion, SameWords DEF Promise!AbsNext, Promise!AbsLose, Running, Mutating
  <2>4. CASE UNCHANGED vars
    BY <2>4 DEF vars, Promise!absVars
  <2> QED
    BY <2>1, <2>2, <2>3, <2>4 DEF Next, Promise!AbsNext
<1> QED
  BY <1>1, <1>2, DriverInvariant, PTL DEF Spec, KeepsPromise, Promise!AbsSpec
=============================================================================
