----------------------------- MODULE FlashDriver -----------------------------
(***************************************************************************)
(* The SST39SF020 driver of the cartridge firmware (sst39sf020.c), one     *)
(* step per flash command and one per poll of its completion, so that a    *)
(* loss of power or a misbehaving chip can fall between any two of them.   *)
(* The chip itself is external: a program command can only clear bits that *)
(* should be cleared, an erase command can only set bits, either may stop  *)
(* half way, and either may look busy for as long as the chip likes.  A    *)
(* chip that has not completed when the polling attempts run out is taken  *)
(* never to complete (the bounds in the code are far above the data-sheet  *)
(* maxima).  What a command has done so far shows at the poll that ends it *)
(* or when the power goes: nothing reads the cells in between.             *)
(***************************************************************************)
EXTENDS CartridgeGeometry

CONSTANT MaxAttempts   \* polls of one command (100 for a byte, 1000 for an erase)

ASSUME PollingAssumption == MaxAttempts \in Nat \ {0}

VARIABLES
  store,    \* contents of every block
  op,       \* the request being served, or the last one served
  pc,       \* where the driver is
  index,    \* byte offset in a program loop, sector in an erase loop
  attempts, \* polls left of the command in flight; 0 when there is none
  outcome,  \* "none", "answered" or "lost"
  status,   \* the status byte of an answer
  out,      \* the data returned by a read
  chip,     \* the chip in the slot
  before    \* history: the flash when the request arrived

vars == <<store, op, pc, index, attempts, outcome, status, out, chip, before>>

Running  == {"dispatch", "program", "eraseBank", "eraseChip", "chipCheck"}
Mutating == {"program", "eraseBank", "eraseChip", "chipCheck"}

\* The promise this driver is meant to keep.
Promise == INSTANCE CartridgeStore WITH active  <- pc \in Running,
                                        touched <- pc \in Mutating

ExpectedChip == "SST39SF020"
Chips        == {ExpectedChip, "other"}

\* Whatever is asked and however the chip fails, the driver answers with one of
\* its status codes (serial_interface.cpp:13-26) and the flash holds bytes.
TypeOK ==
  /\ store \in Stores
  /\ op \in Requests
  /\ pc \in Running \cup {"idle"}
  /\ index \in Nat
  /\ attempts \in 0 .. MaxAttempts
  /\ outcome \in {"none", "answered", "lost"}
  /\ status \in Statuses
  /\ out \in BlockData
  /\ chip \in Chips
  /\ before \in Stores

Init ==
  /\ store \in Stores
  /\ op = [kind |-> "read", target |-> 0, data |-> Blank]
  /\ pc = "idle"
  /\ index = 0
  /\ attempts = 0
  /\ outcome = "none"
  /\ status = Success
  /\ out = Blank
  /\ chip \in Chips
  /\ before = store

-----------------------------------------------------------------------------
\* Helpers: reading the ID, ending a request, and what the chip can do.

correct_chip == chip = ExpectedChip

Answer(code) ==
  /\ pc' = "idle"
  /\ outcome' = "answered"
  /\ status' = code
  /\ index' = 0
  /\ attempts' = 0

Continue(where, i) ==
  /\ pc' = where
  /\ index' = i
  /\ attempts' = 0
  /\ UNCHANGED <<outcome, status>>

\* A flash command has been sent, and polling for its completion begins.
Command(where, i) ==
  /\ pc' = where
  /\ index' = i
  /\ attempts' = MaxAttempts
  /\ UNCHANGED <<outcome, status>>

\* The count of a polling loop: while (busy && --attempts).
LeftAfterRearmed(a) == IF a = 1 THEN MaxAttempts ELSE a - 1   \* mutant
LeftAfter(a) == a - 1

\* One poll that finds the chip busy: try again, or give up.
StillBusy ==
  /\ LeftAfter(attempts) > 0
  /\ attempts' = LeftAfter(attempts)
  /\ UNCHANGED <<store, pc, index, outcome, status>>
GivesUp == LeftAfter(attempts) = 0 /\ Answer(Timeout)

\* What a byte may hold after a program command for value d: each bit that
\* d clears may or may not have been cleared.
Programmed(old, d) == {v \in Byte : (old \cap d) \subseteq v /\ v \subseteq old}

\* What the blocks of R may hold after an erase command: bits only rise.
Erased(R) == {s \in [R -> BlockData] : \A b \in R : Fits(store[b], s[b])}

\* The blank check of a set of blocks (a mutant trusts the polled byte instead).
AllBlankPolled(R) == \A b \in R : (\A c \in R : b <= c) => DQ7 \in store[b][0]
AllBlank(R) == \A b \in R : store[b] = Blank

\* The zero-to-one check over all bytes of the block.
PrecheckFirstByte(o) == o.data[0] \subseteq store[o.target][0]   \* mutant
Precheck(o) == Fits(o.data, store[o.target])

\* DQ7 of a byte being programmed with d agrees: the chip has completed.
Ready(v, d) == DQ7 \in v <=> DQ7 \in d

\* The full-byte comparison after DQ7 polling has ended.
VerifiedDQ7(v, d) == Ready(v, d)   \* mutant
Verified(v, d) == v = d

-----------------------------------------------------------------------------
\* A command reaches the driver.  The firmware runs one at a time: nothing
\* else is parsed until the driver has returned.
Request(r) ==
  /\ pc = "idle"
  /\ op' = r
  /\ pc' = "dispatch"
  /\ outcome' = "none"
  /\ status' = Success
  /\ out' = Blank
  /\ before' = store
  /\ UNCHANGED <<store, index, attempts, chip>>

\* sst_read_block: only the block number is checked, never the chip.
ReadBlock ==
  /\ pc = "dispatch" /\ op.kind = "read"
  /\ \/ op.target \notin Blocks /\ Answer(BadNumber) /\ UNCHANGED out
     \/ op.target \in Blocks /\ Answer(Success) /\ out' = store[op.target]
  /\ UNCHANGED <<store, op, chip, before>>

\* sst_program_block up to its first flash command: every byte is checked
\* for a zero-to-one transition before any byte is modified.
ProgramEntry ==
  /\ pc = "dispatch" /\ op.kind = "program"
  /\ \/ op.target \notin Blocks /\ Answer(BadNumber)
     \/ op.target \in Blocks /\ ~correct_chip /\ Answer(WrongChip)
     \/ /\ op.target \in Blocks /\ correct_chip
        /\ \/ ~Precheck(op) /\ Answer(ZeroToOne)
           \/ Precheck(op) /\ Continue("program", 0)
  /\ UNCHANGED <<store, op, out, chip, before>>

\* One iteration of the program loop: skip an equal byte, or program it ...
ProgramByte ==
  /\ pc = "program" /\ index < BlockBytes /\ attempts = 0
  /\ \/ store[op.target][index] = op.data[index] /\ Continue("program", index + 1)
     \/ store[op.target][index] # op.data[index] /\ Command("program", index)
  /\ UNCHANGED <<store, op, out, chip, before>>

\* ... poll DQ7, and compare.
PollByte ==
  /\ pc = "program" /\ attempts > 0
  /\ LET new == op.data[index]
     IN \/ StillBusy
        \/ \E v \in Programmed(store[op.target][index], new) :
             /\ store' = [store EXCEPT ![op.target][index] = v]
             /\ \/ GivesUp
                \/ Ready(v, new) /\ Verified(v, new) /\ Continue("program", index + 1)
                \/ Ready(v, new) /\ ~Verified(v, new) /\ Answer(Mismatch)
  /\ UNCHANGED <<op, out, chip, before>>

ProgramDone ==
  /\ pc = "program" /\ index = BlockBytes
  /\ Answer(Success)
  /\ UNCHANGED <<store, op, out, chip, before>>

\* sst_erase_bank: refuse, or erase the sectors in order.
EraseBankEntry ==
  /\ pc = "dispatch" /\ op.kind = "eraseBank"
  /\ \/ op.target \notin Banks /\ Answer(BadNumber)
     \/ op.target \in Banks /\ ~correct_chip /\ Answer(WrongChip)
     \/ op.target \in Banks /\ correct_chip /\ Continue("eraseBank", 0)
  /\ UNCHANGED <<store, op, out, chip, before>>

\* erase_sector: the command ...
EraseSector ==
  /\ pc = "eraseBank" /\ index < BankSectors /\ attempts = 0
  /\ Command("eraseBank", index)
  /\ UNCHANGED <<store, op, out, chip, before>>

\* ... whose completion is judged by DQ7 of the sector's first byte only.
PollSector ==
  /\ pc = "eraseBank" /\ attempts > 0
  /\ LET sector == InSector(op.target, index)
     IN \/ StillBusy
        \/ \E s \in Erased(sector) :
             /\ store' = [b \in Blocks |-> IF b \in sector THEN s[b] ELSE store[b]]
             /\ \/ GivesUp
                \/ /\ DQ7 \in store'[SectorStart(op.target, index)][0]
                   /\ Continue("eraseBank", index + 1)
  /\ UNCHANGED <<op, out, chip, before>>

\* The blank check over the whole bank that ends sst_erase_bank.
EraseBankCheck ==
  /\ pc = "eraseBank" /\ index = BankSectors
  /\ \/ AllBlank(InBank(op.target)) /\ Answer(Success)
     \/ ~AllBlank(InBank(op.target)) /\ Answer(Mismatch)
  /\ UNCHANGED <<store, op, out, chip, before>>

\* sst_erase: the chip-erase command ...
EraseChipEntry ==
  /\ pc = "dispatch" /\ op.kind = "eraseChip"
  /\ \/ ~correct_chip /\ Answer(WrongChip)
     \/ correct_chip /\ Command("eraseChip", 0)
  /\ UNCHANGED <<store, op, out, chip, before>>

\* ... polling byte 0 of the chip ...
PollChip ==
  /\ pc = "eraseChip"
  /\ \/ StillBusy
     \/ \E s \in Erased(Blocks) :
          /\ store' = s
          /\ \/ GivesUp
             \/ DQ7 \in s[0][0] /\ Continue("chipCheck", 0)
  /\ UNCHANGED <<op, out, chip, before>>

\* ... and the blank check of every block.
EraseChipCheck ==
  /\ pc = "chipCheck"
  /\ \/ AllBlank(Blocks) /\ Answer(Success)
     \/ ~AllBlank(Blocks) /\ Answer(Mismatch)
  /\ UNCHANGED <<store, op, out, chip, before>>

\* Power goes away: the flash command in flight is left anywhere between
\* not started and complete, the request is never answered, and the firmware
\* starts again with nothing to do.
PowerLoss ==
  /\ pc \in Running
  /\ \/ UNCHANGED store
     \/ /\ pc = "program" /\ attempts > 0
        /\ \E v \in Programmed(store[op.target][index], op.data[index]) :
             store' = [store EXCEPT ![op.target][index] = v]
     \/ /\ pc = "eraseBank" /\ attempts > 0
        /\ LET sector == InSector(op.target, index)
           IN \E s \in Erased(sector) :
                store' = [b \in Blocks |-> IF b \in sector THEN s[b] ELSE store[b]]
     \/ /\ pc = "eraseChip"
        /\ \E s \in Erased(Blocks) : store' = s
  /\ pc' = "idle"
  /\ index' = 0
  /\ attempts' = 0
  /\ outcome' = "lost"
  /\ UNCHANGED <<op, status, out, chip, before>>

Work ==
  \/ ReadBlock
  \/ ProgramEntry \/ ProgramByte \/ PollByte \/ ProgramDone
  \/ EraseBankEntry \/ EraseSector \/ PollSector \/ EraseBankCheck
  \/ EraseChipEntry \/ PollChip \/ EraseChipCheck

Next == (\E r \in Requests : Request(r)) \/ Work \/ PowerLoss

Spec == Init /\ [][Next]_vars

\* The driver's loops run on a microcontroller that nothing else preempts.
FairSpec == Spec /\ WF_vars(Work)

-----------------------------------------------------------------------------
\* Status 0 is a promise about the flash and not about the commands sent: the
\* block holds exactly the requested bytes, the erased bank or chip is blank,
\* and this stays so until another request arrives.  The final comparisons
\* and blank checks are what makes it true, since polling looks at one bit of
\* one byte (sst39sf020.c:168, 192-199, 231-232).
SuccessMeansStored ==
  pc = "idle" /\ outcome = "answered" /\ status = Success
    => Achieved(op, store)

\* A refused request (bad number, wrong chip, zero-to-one transition) has not
\* changed one bit of the flash: all checks come before the first command
\* (sst39sf020.c:149-155, 177, 224-225).
RefusedLeavesFlash ==
  outcome = "answered" /\ status \in Refusals => store = before

\* Whatever happens during a request, power loss and failing chip included,
\* every block outside the addressed block or bank keeps its contents; a bank
\* erase covers its own four sectors and no sector of a neighbour
\* (sst39sf020.c:226-228).
OutsideUntouched == OnlyInRegion(op, before, store)

\* A block that a program request has modified at all still accepts the same
\* data again, wherever the request stopped: retrying after a failure or a
\* power loss is never refused as a zero-to-one transition
\* (sst39sf020.c:152-155).
RetryFits ==
  op.kind = "program" /\ op.target \in Blocks /\ store[op.target] # before[op.target]
    => Fits(op.data, store[op.target])

\* The driver implements its promise to the parser, step by step: only the
\* region asked for is ever modified, refusals come before the first
\* modification, success means stored (sst39sf020.c:113-237).
KeepsPromise == Promise!AbsSpec

\* Every request is answered unless the power goes, however long the chip
\* looks busy: neither the loops over bytes and sectors nor the polling inside
\* them is without an end (sst39sf020.c:156, 164-165, 185-190, 214-219, 227).
RequestEnds == pc \in Running ~> pc = "idle"

\* The inductive strengthening of the invariants above: what the driver knows
\* at each place in its loops.
DriverInv ==
  /\ TypeOK
  /\ SuccessMeansStored /\ RefusedLeavesFlash /\ OutsideUntouched /\ RetryFits
  /\ pc \in Running => outcome = "none"
  /\ attempts > 0 => \/ pc = "program" /\ index < BlockBytes
                     \/ pc = "eraseBank" /\ index < BankSectors
                     \/ pc = "eraseChip"
  /\ pc = "eraseChip" => attempts > 0
  /\ pc = "dispatch" => store = before
  /\ pc = "program" =>
       /\ op.kind = "program" /\ op.target \in Blocks /\ index <= BlockBytes
       /\ Fits(op.data, store[op.target])
       /\ \A o \in Offsets : o < index => store[op.target][o] = op.data[o]
  /\ pc = "eraseBank" => op.kind = "eraseBank" /\ op.target \in Banks /\ index <= BankSectors
  /\ pc \in {"eraseChip", "chipCheck"} => op.kind = "eraseChip"
=============================================================================
