---------------------------- MODULE StudioSession ----------------------------
(***************************************************************************)
(* The Studio's main window and its two workers (mainwindow.cpp,           *)
(* flashthread.cpp, readthread.cpp).  The window's slots run one at a time *)
(* on the GUI thread; a worker runs on its own and posts signals that the  *)
(* GUI thread delivers later, in order.  A modal dialog blocks the user    *)
(* but not the timer that watches the cartridge.  Calls on the serial      *)
(* interface behave as CartridgeLink promises: a call that returns has     *)
(* done its work, one that throws may have done part of it.                *)
(***************************************************************************)
EXTENDS Naturals, Sequences, SequencesExt

CONSTANTS
  NBanks,      \* banks of the flash
  PerBank,     \* blocks of a bank
  Values,      \* contents of a block the user may write
  Blank, Torn, \* contents of an erased block, of a half-written one
  MaxOps,      \* bound on the operations the user starts
  MaxPlugs     \* bound on how often the cable is pulled

ASSUME SessionAssumption ==
  /\ NBanks \in Nat \ {0} /\ PerBank \in Nat \ {0}
  /\ Blank # Torn /\ Blank \notin Values /\ Torn \notin Values
  /\ MaxOps \in Nat /\ MaxPlugs \in Nat

VARIABLES
  present,            \* the cartridge is on the bus
  away,               \* history: unplugged since a worker last opened the port
  plugs,              \* times the cable was pulled
  flash,              \* contents of each block
  iface, board, chip, \* serial_interface # null, board_connected, chip_identified
  other,              \* the port connected to is gone, or has another serial number
  busy, cancellable,  \* operation_busy; the cancel button is enabled
  dialog,             \* the modal dialog on the screen
  release,            \* closing the message ends the operation
  op,                 \* the operation pressed last: its kind and active_bank
  data,               \* flash_data
  flasher, reader,    \* flashthread, readerthread
  posted,             \* signals the workers have posted
  alive,              \* "running", "quit", or "crashed"
  outcome,            \* history: how the last operation ended
  stopped,            \* history: the cancel button was pressed while programming
  ops                 \* operations started

cartridge == <<present, away, plugs, flash>>
connection == <<iface, board, chip, other>>
window == <<busy, cancellable, dialog, release>>
job == <<op, data>>
threads == <<flasher, reader>>
history == <<outcome, stopped, ops>>
vars == <<cartridge, connection, window, job, threads, posted, alive, history>>

Banks  == 0 .. NBanks - 1
Blocks == 0 .. NBanks * PerBank - 1
Contents == Values \cup {Blank, Torn}
BankBlocks(b) == (b * PerBank) .. ((b + 1) * PerBank - 1)

Complete == {"read_rom", "flash_rom", "erase_chip"}
Partial  == {"read_bank", "write_bank", "erase_bank"}
Ops == [kind : Complete, bank : {0}] \cup [kind : Partial, bank : Banks]

\* The blocks an operation is about: everything or the active bank.
First(o) == IF o.kind \in Complete THEN 0 ELSE o.bank * PerBank
Count(o) == IF o.kind \in Complete THEN NBanks * PerBank ELSE PerBank
Scope(o) == First(o) .. First(o) + Count(o) - 1
Writes   == {"flash_rom", "write_bank"}
Erases   == {"erase_chip", "erase_bank"}

\* A thread: the operation it was made for, whether it has a serial interface,
\* how far it is, whether it has been asked to stop, and whether the device it
\* opened has left the bus.
NoThread == [pc |-> "null", op |-> [kind |-> "read_rom", bank |-> 0], iface |-> FALSE,
             at |-> 0, got |-> <<>>, intr |-> FALSE, lost |-> FALSE]
Thread(o) == [NoThread EXCEPT !.pc = "open", !.op = o, !.iface = iface]
Live(t) == t.pc \notin {"null", "finished"}

Init ==
  /\ present = TRUE /\ away = FALSE /\ plugs = 0
  /\ flash \in [Blocks -> Values]
  /\ \A i, j \in Blocks : flash[i] = flash[j]
  /\ iface = FALSE /\ board = FALSE /\ chip = FALSE /\ other = FALSE
  /\ busy = FALSE /\ cancellable = FALSE /\ dialog = "none" /\ release = FALSE
  /\ op = [kind |-> "read_rom", bank |-> 0] /\ data = <<>>
  /\ flasher = NoThread /\ reader = NoThread
  /\ posted = <<>>
  /\ alive = "running"
  /\ outcome = "none" /\ stopped = FALSE /\ ops = 0

-----------------------------------------------------------------------------
\* The flash thread (FlashThread::run).
Finish(t) == [t EXCEPT !.pc = "finished"]
Post(signal) == posted' = Append(posted, signal)

\* A thread made with a null serial interface dereferences it.
CrashOnNull(t) ==
  /\ t.pc = "open" /\ ~t.iface
  /\ alive' = "crashed"
  /\ UNCHANGED <<cartridge, connection, window, job, threads, posted, history>>

\* thread_abort is posted before the port is closed and the thread ends.
FlasherFails ==
  /\ flasher' = [flasher EXCEPT !.pc = "closing"]
  /\ Post("abort")

\* open_port and get_chip_id.
Opens(t) ==
  /\ t.pc = "open" /\ t.iface /\ present
  /\ away' = FALSE
  /\ UNCHANGED posted

FlasherOpens ==
  \/ Opens(flasher) /\ flasher' = [flasher EXCEPT !.pc = "erase"] /\ UNCHANGED flash
  \/ flasher.pc = "open" /\ flasher.iface /\ FlasherFails /\ UNCHANGED <<away, flash>>

Talks(t) == present /\ ~t.lost
BlockFromZero(t) == t.at   \* mutant
BlockOf(t) == First(t.op) + t.at

\* What the flash may hold when the flasher's current call is cut short.
Cut ==
  CASE flasher.pc = "erase" ->
         {[i \in Blocks |-> IF i \in S THEN c ELSE flash[i]] :
            S \in SUBSET Scope(flasher.op), c \in {Blank, Torn}}
    [] flasher.pc = "program" /\ flasher.at < Count(flasher.op) ->
         {[flash EXCEPT ![BlockOf(flasher)] = c] : c \in {data[flasher.at + 1], Torn}} \cup {flash}
    [] OTHER -> {flash}

\* A call throws: the firmware has failed, or the device is gone.
FlasherCallFails ==
  /\ flash' \in IF Talks(flasher) THEN Cut ELSE {flash}
  /\ FlasherFails

FlasherErases ==
  /\ flasher.pc = "erase"
  /\ \/ /\ Talks(flasher)
        /\ flash' = [i \in Blocks |-> IF i \in Scope(flasher.op) THEN Blank ELSE flash[i]]
        /\ IF flasher.op.kind \in Erases \/ flasher.intr
           THEN /\ flasher' = Finish(flasher)
                /\ Post(IF flasher.intr THEN "cancelled" ELSE "erase_result")
           ELSE /\ flasher' = [flasher EXCEPT !.pc = "program"]
                /\ UNCHANGED posted
     \/ FlasherCallFails
  /\ UNCHANGED away

\* The interruption is looked at before each block, not after the last one.
FlasherPrograms ==
  /\ flasher.pc = "program"
  /\ \/ /\ flasher.at = Count(flasher.op)
        /\ flasher' = Finish(flasher)
        /\ Post("flash_result")
        /\ UNCHANGED flash
     \/ /\ flasher.at < Count(flasher.op) /\ flasher.intr
        /\ flasher' = Finish(flasher)
        /\ Post("cancelled")
        /\ UNCHANGED flash
     \/ /\ flasher.at < Count(flasher.op) /\ ~flasher.intr
        /\ \/ /\ Talks(flasher)
              /\ flash' = [flash EXCEPT ![BlockOf(flasher)] = data[flasher.at + 1]]
              /\ flasher' = [flasher EXCEPT !.at = @ + 1]
              /\ UNCHANGED posted
           \/ FlasherCallFails
  /\ UNCHANGED away

FlasherEnds ==
  /\ flasher.pc = "closing"
  /\ flasher' = Finish(flasher)
  /\ UNCHANGED <<away, flash, posted>>

Flasher ==
  \/ CrashOnNull(flasher)
  \/ /\ FlasherOpens \/ FlasherErases \/ FlasherPrograms \/ FlasherEnds
     /\ UNCHANGED <<present, plugs, connection, window, job, reader, alive, history>>

-----------------------------------------------------------------------------
\* The read thread (ReadThread::run), and its range (set_bank_range).
ReaderFails ==
  /\ reader' = [reader EXCEPT !.pc = "closing"]
  /\ Post("abort")

ReaderOpens ==
  \/ Opens(reader) /\ reader' = [reader EXCEPT !.pc = "read"]
  \/ reader.pc = "open" /\ reader.iface /\ ReaderFails /\ UNCHANGED away

FirstBank(o) == IF o.kind \in Complete THEN 0 ELSE o.bank
BankCount(o) == IF o.kind \in Complete THEN NBanks ELSE 1
BankData(b)  == [i \in 1 .. PerBank |-> flash[b * PerBank + i - 1]]

ReaderReads ==
  /\ reader.pc = "read"
  /\ \/ /\ reader.intr
        /\ reader' = Finish(reader)
        /\ Post("cancelled")
     \/ /\ ~reader.intr /\ reader.at < BankCount(reader.op)
        /\ \/ /\ Talks(reader)
              /\ reader' = [reader EXCEPT
                   !.got = @ \o BankData(FirstBank(reader.op) + reader.at), !.at = @ + 1]
              /\ UNCHANGED posted
           \/ ReaderFails
     \/ /\ ~reader.intr /\ reader.at = BankCount(reader.op)
        /\ reader' = Finish(reader)
        /\ Post(IF reader.op.kind \in Writes THEN "verify_result" ELSE "read_result")
  /\ UNCHANGED away

ReaderEnds ==
  /\ reader.pc = "closing"
  /\ reader' = Finish(reader)
  /\ UNCHANGED <<away, posted>>

Reader ==
  \/ CrashOnNull(reader)
  \/ /\ ReaderOpens \/ ReaderReads \/ ReaderEnds
     /\ UNCHANGED <<present, plugs, flash, connection, window, job, flasher, alive, history>>

-----------------------------------------------------------------------------
\* set_operation_busy, and a message whose slot returns when it is closed.
SetBusy(b, c) == busy' = b /\ cancellable' = (b /\ c)
Message(ends) == dialog' = "message" /\ release' = ends

\* invalidate_connection: forget the device.  It keeps operation_busy but not
\* the cancel button.
Invalidate == iface' = FALSE /\ board' = FALSE /\ chip' = FALSE /\ other' = FALSE

\* The user can act: the window is open and no dialog covers it.
Free == alive = "running" /\ dialog = "none"
Idle == Free /\ ~busy

\* scan_com_devices and select_com_port: the board of the only port, or of the
\* one selected, is asked who it is; a scan that finds several ports leaves it
\* at that.
Connect ==
  /\ Idle
  /\ \/ /\ present /\ iface' = TRUE /\ board' = TRUE /\ chip' = FALSE /\ other' = FALSE
        /\ UNCHANGED <<dialog, release>>
     \/ Invalidate /\ UNCHANGED <<dialog, release>>
     \/ Invalidate /\ Message(FALSE)
  /\ SetBusy(FALSE, FALSE)
  /\ UNCHANGED <<cartridge, job, threads, posted, alive, history>>

\* verify_chip: the chip is asked who it is, or the connection is given up.
VerifyChip(ok) ==
  IF ok THEN iface /\ present /\ UNCHANGED <<iface, board, other>>
        ELSE Invalidate

\* read_chip_id.
Identify ==
  /\ Idle /\ board
  /\ \/ VerifyChip(TRUE) /\ chip' = TRUE /\ UNCHANGED <<dialog, release>>
     \/ VerifyChip(FALSE) /\ Message(FALSE)
  /\ SetBusy(FALSE, FALSE)
  /\ UNCHANGED <<cartridge, job, threads, posted, alive, history>>

\* check_device_presence, once a second, dialog or not: no port has the name and
\* the serial number of the one connected to.
Poll ==
  /\ alive = "running" /\ ~busy /\ board /\ (~present \/ other)
  /\ Invalidate
  /\ SetBusy(FALSE, FALSE)
  /\ UNCHANGED <<cartridge, dialog, release, job, threads, posted, alive, history>>

-----------------------------------------------------------------------------
\* An operation starts: its worker is made and started.
Start(o, image) ==
  /\ SetBusy(TRUE, TRUE)
  /\ data' = IF o.kind \in Writes THEN image ELSE data
  /\ IF o.kind \in Writes \cup Erases
     THEN flasher' = Thread(o) /\ UNCHANGED reader
     ELSE reader' = Thread(o) /\ UNCHANGED flasher
  /\ ops' = ops + 1 /\ outcome' = "none" /\ stopped' = FALSE

Images(o) == [1 .. Count(o) -> Values]

\* Before the user is asked to confirm a write: the image must have the right
\* size, and the chip must answer.
CheckBeforeWriting ==
  \/ VerifyChip(TRUE) /\ dialog' = "confirm" /\ UNCHANGED <<chip, busy, cancellable, release>>
  \/ VerifyChip(FALSE) /\ Message(FALSE) /\ SetBusy(FALSE, FALSE)
  \/ Message(FALSE) /\ UNCHANGED <<connection, busy, cancellable>>

\* A button of the bank or ROM group is pressed.  Reading a bank starts at once;
\* whole-flash reads and writes ask for a file first; erasing asks for
\* confirmation, and so does writing once the chip has answered.
Press(o) ==
  /\ Idle /\ chip /\ ops < MaxOps
  /\ op' = o
  /\ \/ /\ o.kind = "read_bank"
        /\ Start(o, <<>>)
        /\ UNCHANGED <<connection, dialog, release>>
     \/ /\ o.kind \in {"read_rom", "flash_rom"}
        /\ dialog' = "file"
        /\ UNCHANGED <<connection, busy, cancellable, release, data, threads, history>>
     \/ /\ o.kind \in Erases
        /\ dialog' = "confirm"
        /\ UNCHANGED <<connection, busy, cancellable, release, data, threads, history>>
     \/ /\ o.kind = "write_bank"
        /\ CheckBeforeWriting
        /\ UNCHANGED <<data, threads, history>>
  /\ UNCHANGED <<cartridge, posted, alive>>

\* The user closes a file or confirmation dialog without going on.
Decline ==
  /\ alive = "running" /\ dialog \in {"file", "confirm"}
  /\ dialog' = "none"
  /\ UNCHANGED <<cartridge, connection, busy, cancellable, release, job, threads, posted, alive, history>>

\* A file is chosen: to store the flash in, or to program after the chip has
\* answered and the user has confirmed.
ChooseFile ==
  /\ alive = "running" /\ dialog = "file"
  /\ \/ /\ op.kind = "read_rom"
        /\ dialog' = "none"
        /\ Start(op, <<>>)
        /\ UNCHANGED <<connection, release, op>>
     \/ /\ op.kind = "flash_rom"
        /\ CheckBeforeWriting
        /\ UNCHANGED <<job, threads, history>>
  /\ UNCHANGED <<cartridge, posted, alive>>

\* The user confirms: flash_rom, write_bank, erase_chip and erase_bank go on.
Confirm ==
  /\ alive = "running" /\ dialog = "confirm"
  /\ dialog' = "none"
  /\ \E image \in IF op.kind \in Writes THEN Images(op) ELSE {<<>>} : Start(op, image)
  /\ UNCHANGED <<cartridge, connection, release, op, posted, alive>>

\* cancel_operation.
Interrupt(t) == [t EXCEPT !.intr = Live(t)]
Cancel ==
  /\ Free /\ cancellable
  /\ cancellable' = FALSE
  /\ reader' = Interrupt(reader) /\ flasher' = Interrupt(flasher)
  /\ stopped' = (flasher.pc = "program")
  /\ UNCHANGED <<cartridge, connection, busy, dialog, release, job, posted, alive, outcome, ops>>

-----------------------------------------------------------------------------
\* The GUI thread delivers the next signal.  Slots wait for the thread to end.
Deliver(signal) ==
  /\ alive = "running" /\ posted # <<>> /\ Head(posted) = signal
  /\ posted' = Tail(posted)
  /\ UNCHANGED <<cartridge, alive, ops, stopped, job>>
SettledAtOnce(t) == TRUE   \* mutant
Settled(t) == ~Live(t)

\* read_result_ready (which may fail to save the file) and
\* bank_read_result_ready.
ReadResult ==
  /\ Deliver("read_result")
  /\ Settled(reader)
  /\ reader' = NoThread
  /\ \/ SetBusy(FALSE, FALSE) /\ outcome' = "read" /\ UNCHANGED <<dialog, release>>
     \/ /\ op.kind = "read_rom"
        /\ outcome' = "unsaved" /\ Message(TRUE) /\ UNCHANGED <<busy, cancellable>>
  /\ UNCHANGED <<connection, flasher>>

\* flash_result_ready: programming is done, reading back starts.
FlashResultReleases ==   \* mutant
  /\ Deliver("flash_result")
  /\ Settled(flasher)
  /\ reader' = Thread(op)
  /\ SetBusy(FALSE, FALSE)
  /\ UNCHANGED <<connection, dialog, release, flasher, outcome>>
FlashResult ==
  /\ Deliver("flash_result")
  /\ Settled(flasher)
  /\ reader' = Thread(op)
  /\ UNCHANGED <<connection, window, flasher, outcome>>

\* verify_result_ready: the comparison of what was read with what was written.
SizesMatch == Len(reader.got) = Len(data)   \* mutant
ReadBackMatches == reader.got = data

VerifyResult ==
  /\ Deliver("verify_result")
  /\ Settled(reader)
  /\ reader' = NoThread /\ flasher' = NoThread
  /\ outcome' = IF ReadBackMatches THEN "verified" ELSE "mismatch"
  /\ Message(TRUE)
  /\ UNCHANGED <<connection, busy, cancellable>>

\* erase_result_ready.
EraseResult ==
  /\ Deliver("erase_result")
  /\ Settled(flasher)
  /\ flasher' = NoThread
  /\ outcome' = "erased"
  /\ Message(TRUE)
  /\ UNCHANGED <<connection, busy, cancellable, reader>>

\* thread_cancelled.
ThreadCancelled ==
  /\ Deliver("cancelled")
  /\ Settled(reader) /\ Settled(flasher)
  /\ reader' = NoThread /\ flasher' = NoThread
  /\ SetBusy(FALSE, FALSE)
  /\ outcome' = "cancelled"
  /\ Message(FALSE)
  /\ UNCHANGED connection

\* thread_abort.
ThreadAbort ==
  /\ Deliver("abort")
  /\ Settled(reader) /\ Settled(flasher)
  /\ reader' = NoThread /\ flasher' = NoThread
  /\ Invalidate
  /\ SetBusy(FALSE, FALSE)
  /\ outcome' = "aborted"
  /\ Message(FALSE)

Slot == ReadResult \/ FlashResult \/ VerifyResult \/ EraseResult \/ ThreadCancelled \/ ThreadAbort

\* A message is closed, and the slot that showed it goes on.
DismissKeepsBusy ==   \* mutant
  /\ alive = "running" /\ dialog = "message"
  /\ dialog' = "none" /\ release' = FALSE
  /\ UNCHANGED <<busy, cancellable, cartridge, connection, job, threads, posted, alive, history>>
Dismiss ==
  /\ alive = "running" /\ dialog = "message"
  /\ dialog' = "none" /\ release' = FALSE
  /\ IF release THEN SetBusy(FALSE, FALSE) ELSE UNCHANGED <<busy, cancellable>>
  /\ UNCHANGED <<cartridge, connection, job, threads, posted, alive, history>>

\* The window is closed: its destructor stops the workers and waits for them.
Quit ==
  /\ Free
  /\ alive' = "quit"
  /\ reader' = Interrupt(reader) /\ flasher' = Interrupt(flasher)
  /\ UNCHANGED <<cartridge, connection, window, job, posted, history>>

\* The cable is pulled: whatever talks to the device will fail, and what the
\* firmware was doing is cut short.
Lose(t) == [t EXCEPT !.lost = (t.pc \in {"erase", "program", "read"})]
Unplug ==
  /\ present /\ plugs < MaxPlugs
  /\ present' = FALSE /\ plugs' = plugs + 1 /\ away' = TRUE
  /\ flash' \in Cut
  /\ flasher' = Lose(flasher) /\ reader' = Lose(reader)
  /\ UNCHANGED <<connection, window, job, posted, alive, history>>

\* A cartridge is plugged in, the same or another one; it may come back under
\* another port name, and not every one has a serial number.
Plug ==
  /\ ~present
  /\ present' = TRUE
  /\ flash' \in {flash} \cup {[i \in Blocks |-> c] : c \in Values}
  /\ other' \in IF board THEN BOOLEAN ELSE {FALSE}
  /\ UNCHANGED <<away, plugs, iface, board, chip, window, job, threads, posted, alive, history>>

User == Connect \/ Identify \/ (\E o \in Ops : Press(o)) \/ Decline \/ ChooseFile \/ Confirm \/ Cancel \/ Quit
Next ==
  \/ alive # "crashed" /\ (Flasher \/ Reader)
  \/ User \/ Poll \/ Slot \/ Dismiss
  \/ Unplug \/ Plug

Spec == Init /\ [][Next]_vars

\* Threads and the event loop are scheduled, and messages do get closed.
FairSpec ==
  /\ Spec
  /\ WF_vars(alive # "crashed" /\ Flasher)
  /\ WF_vars(alive # "crashed" /\ Reader)
  /\ WF_vars(Slot) /\ WF_vars(Dismiss)

-----------------------------------------------------------------------------
Signals == {"abort", "cancelled", "read_result", "flash_result", "verify_result", "erase_result"}
ThreadOK(t) ==
  /\ t.pc \in {"null", "open", "erase", "program", "read", "closing", "finished"}
  /\ t.op \in Ops /\ t.iface \in BOOLEAN /\ t.intr \in BOOLEAN /\ t.lost \in BOOLEAN
  /\ t.at \in 0 .. NBanks * PerBank
  /\ t.got \in Seq(Contents) /\ Len(t.got) <= NBanks * PerBank

\* No worker posts a signal before the previous one was taken, so that no slot
\* ever runs for an operation that is over (flashthread.cpp:43-103,
\* readthread.cpp:14-51).
TypeOK ==
  /\ present \in BOOLEAN /\ away \in BOOLEAN /\ plugs \in 0 .. MaxPlugs
  /\ flash \in [Blocks -> Contents]
  /\ iface \in BOOLEAN /\ board \in BOOLEAN /\ chip \in BOOLEAN /\ other \in BOOLEAN
  /\ busy \in BOOLEAN /\ cancellable \in BOOLEAN
  /\ dialog \in {"none", "file", "confirm", "message"} /\ release \in BOOLEAN
  /\ op \in Ops /\ data \in Seq(Values)
  /\ ThreadOK(flasher) /\ ThreadOK(reader)
  /\ posted \in Seq(Signals) /\ Len(posted) <= 1
  /\ alive \in {"running", "quit", "crashed"}
  /\ outcome \in {"none", "read", "unsaved", "verified", "mismatch", "erased", "cancelled", "aborted"}
  /\ stopped \in BOOLEAN /\ ops \in 0 .. MaxOps

\* At any time the serial port has one user: never two workers, and never the
\* window's own calls, which it makes only when it is not busy, next to a
\* worker (mainwindow.cpp:1356-1374, flash_result_ready).
OneUserOfThePort ==
  /\ ~(Live(flasher) /\ Live(reader))
  /\ Live(flasher) \/ Live(reader) => busy

\* When the window says "programmed and all bytes verified" the blocks in scope
\* of the cartridge that was read back hold the image and, when it says
\* "verified as FF", they are blank (verify_result_ready, erase_result_ready).
\* Between programming and reading back the port is closed and opened again, and
\* the cartridge may have been exchanged.
ReportIsTrue ==
  dialog = "message" /\ release /\ ~away =>
    /\ outcome = "verified" =>
         \A i \in Scope(op) : flash[i] = data[i - First(op) + 1]
    /\ outcome = "erased" => \A i \in Scope(op) : flash[i] = Blank

\* While a cartridge is connected no step changes a block outside the bank of the
\* operation the user confirmed, and none changes the flash unless the user has
\* confirmed one (mainwindow.cpp:965-999, 1089-1107; flashthread.cpp:58-95).
OnlyConfirmedBlocksChange ==
  [][present => \A i \in Blocks : flash'[i] # flash[i] =>
       Live(flasher) /\ flasher.op = op /\ op.kind \in Writes \cup Erases /\ i \in Scope(op)]_vars

\* A thread object is destroyed only after its thread has ended: destroying a
\* running QThread kills the Studio (the wait() in every slot).
NoLiveThreadDestroyed ==
  [][/\ Live(flasher) => flasher'.pc # "null"
     /\ Live(reader) => reader'.pc # "null"]_vars

\* Every operation comes to an end, whatever the cartridge does, and closing the
\* window in the middle of one does not leave its worker running
\* (set_operation_busy(false) in every final slot; ~MainWindow).
WorkEnds ==
  /\ busy ~> ~busy \/ alive # "running"
  /\ alive = "quit" ~> ~(Live(flasher) \/ Live(reader)) \/ alive = "crashed"

\* "You must identify the chip before you can flash ROMs to the cartridge"
\* (README.md:64-65): a worker that erases or programs is only ever made while
\* the chip is identified.
FlashingNeedsIdentifiedChip ==
  [][flasher.pc = "null" /\ flasher'.pc # "null" => chip]_vars

\* "Add cancellation at safe bank/block boundaries for read, erase, program and
\* verification workers" (CHANGELOG.md:61-62): an operation that was cancelled
\* while it was programming does not go on to be verified.
CancelledProgrammingStops == stopped => outcome # "verified"
=============================================================================
