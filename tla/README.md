# Formal models of P2000T Cartridge Studio

TLA+ models of the P2000T cartridge firmware, its USB bootloader, the desktop
program (Studio) that drives them, the firmware images they exchange and the tool
that prepares a new cartridge, with TLC configurations that check them on small
instances and TLAPS proofs of the safety properties of every component. Paths below are relative to
the repository's root.

## The system

| component | source | state | operations | talks to |
| --- | --- | --- | --- | --- |
| flash driver | `firmware/sst39sf020.c` | the SST39SF020 flash, the data and latch pins | read ID, read block, program block, erase bank, erase chip | called by the parser; calls `sst_service` so that USB is served meanwhile |
| command parser | `firmware/protocol.c` | `protocol_t`: collected command, payload, `writing`, `failed`, idle time | `protocol_feed`, `protocol_tick`, `protocol_reset`, `protocol_take_bank_read` | fed by the main loop, calls the driver |
| firmware main loop | `firmware/main.c` | the parser, `boot_requested`, the DTR line | one iteration per byte; USB event handlers (interrupts); bank streaming; hand-over to the bootloader | parser, USB endpoints, watchdog |
| bootloader | `firmware/bootloader/*` | `MagicBootKey`, `StayInBootloader`, `RunBootloader`, `BootTicks`, `CurrAddress`, the controller's flash | start-up check, boot window, AVR109 commands, transfer timeout | host (avrdude); application, through the key and a watchdog reset |
| serial interface | `src/src/serial_interface.cpp` | port, receive buffer | open, close, READINFO/READVERS, DEVIDSST, RDBANK, WRBK, ERBANK, ERASEALL, BOOTLOAD, each with time-outs | firmware, over the port |
| serial transport | `src/src/serial_transport_qt.cpp` | a `QSerialPort` | read, write, wait | operating system |
| main window, workers | `src/src/mainwindow.cpp`, `flashthread.cpp`, `readthread.cpp` | `serial_interface`, `board_connected`, `chip_identified`, `operation_busy`, `active_bank`, `flash_data`, two threads | connect, identify, read, program and verify, erase, cancel, device monitor, quit | serial interface; signals from worker to GUI thread |
| firmware installation | `src/src/mainwindow.cpp:57-140, 571-801` | the chosen image, the device waited for, the avrdude process | validate, confirm, enter the bootloader, find and identify the device, run avrdude, cancel, wait for the application | bootloader, avrdude |
| firmware image | `src/src/firmwareupdater.cpp`, `firmware/tools/*.py`, `ApplicationIsValid` | what a reader has collected of a HEX file | validate, checksum, stamp a manifest, combine with a bootloader | installation, preparation tool, bootloader |
| downloader | `src/src/filedownloader.cpp`, `mainwindow.cpp:586-661` | reply, data, redirect count, two timers | start, redirect, limit, cancel, time out, compare the checksum | network, main window, installation |
| files | `src/src/mainwindow.cpp:862-924, 1176-1349` | the data view, its file for Reload, the recent-files setting | open, reload, drop, save, bundled and downloaded ROMs, bank reads | disk, settings, downloader, session |
| log | `src/src/logbuffer.cpp`, `logwindow.cpp` | bounded buffer, view positions | append and trim, show, pause, filter, clear | every thread |
| compatibility, bank selector | `src/src/firmwarecompatibility.cpp`, `bankselector.cpp` | tables, current bank | look up, select | main window |
| preparation tool | `tools/bootloader-installer/src/main.cpp` | the last probe, the options | probe the contacts, check, erase, write, verify, set fuses, check again | avrdude, a USBasp held by hand |

What is hard here, and what must hold:

* **Flash driver.** A chip that stops half way, completion polling that looks at
  one bit of one byte, loss of power between any two flash commands. Status 0 must
  mean that the region holds what was asked for; a refusal must leave everything
  alone; nothing outside the addressed region may change; what was cut short can
  be retried.
* **Link.** Timeouts on both sides, answers that come late or are cut, bus resets
  in the middle of a command, binary payloads that spell commands. The host must
  never believe a stale answer, the firmware must never execute what was not asked
  for, and both must recover.
* **Session.** Two threads, posted signals, modal dialogs with their own event
  loop, a timer, and a cable that may be pulled. The port has one user, a thread is
  not destroyed while it runs, reports are true, operations end.
* **Bootloader.** Power failures and stalls during an upload, keys handed over
  through a reset. Only a complete application runs; the bootloader survives.
* **Images and installation.** The same file is judged by Studio, the build, the
  preparation tool and the bootloader, each with its own code. Cables move, several
  cartridges are plugged in, the file is rebuilt, avrdude fails or hangs, the user
  cancels. What Studio accepts must start; the cartridge that was asked is the one
  programmed; success is true; every installation ends.
* **Preparation.** Contacts are held by hand: readings may be disturbed and writes cut
  off. Nothing unfit is written, the boot-reset fuse comes last, what is said is so.
* **Downloads, log, files, timers.** Abort and finish race for one signal; indices into
  a buffer survive its trimming; results arrive inside other dialogs' event loops; an
  11-bit counter measures gaps.

`PROJECT.json` lists each hazard at its line with the properties that cover it.

## Modules

| module | models |
| --- | --- |
| `CartridgeGeometry` | address arithmetic of the flash, requests and status codes |
| `CartridgeStore` | what the driver promises (the abstract specification) |
| `FlashDriver` | `sst39sf020.c`, one step per flash command |
| `CartridgeRequests` | the calls Studio makes on a cartridge and the flash operations they ask for |
| `CartridgeCalls` | what the calls promise their callers (the abstract specification) |
| `UsbLink` | tokens, frames, the two directions of the link, DTR |
| `FirmwareProtocol` | `protocol.c` and the loop of `main.c` |
| `SerialInterface` | `serial_interface.cpp` in the sessions its callers make |
| `CartridgeLink`, `MCCartridgeLink` | both ends composed, bus resets and replugs |
| `FrameTimer` | the frame counter of `main.c` and the time-outs of `protocol_tick` |
| `StudioSession` | the main window, its flash thread and its read thread |
| `CartridgeModes` | what the bootloader promises those who install (the abstract specification) |
| `Bootloader`, `MCBootloader` | the bootloader and its hand-overs with the application |
| `FirmwareImage`, `MCFirmwareImage` | a HEX file and everybody who judges it, stamping and combining |
| `FirmwareInstall` | `install_firmware_file`, cartridges and ports, avrdude |
| `PreparationTool` | the preparation tool and the chip it works on |
| `ReleaseDownload` | `FileDownloader` in the two downloads of `install_latest_firmware` |
| `StudioFiles` | the data view, Reload, Save, ROMs and the recent files |
| `LogView` | `LogBuffer` and the log window |
| `SequenceFilter` | dropping members of a sequence, as the log's filters and the recent files do |
| `SeparateParts`, `MCSeparateParts` | the last four and `FrameTimer` side by side, and an instance of that |
| `FlashDriverProofs`, `CartridgeLinkProofs`, `StudioSessionProofs`, `BootloaderProofs`, `FirmwareImageProofs`, `FirmwareInstallProofs`, `PreparationToolProofs`, `SeparatePartsProofs` | the theorems about the module they are named after |

The modules form layers. `FlashDriver` is shown to implement `CartridgeStore`
(`Promise`, an `INSTANCE` in which "active" and "touched" are read off the driver's
program counter). `FirmwareProtocol` uses that promise for its flash
operations: a successful one has stored its data, a failed one leaves the units it
addresses in any state. `CartridgeLink`, both ends and the line between them, is shown to
implement `CartridgeCalls` (its own `Promise`): "waiting" is read off the host's program
counter, "connected" is `board`, and "known" is the history of results. One step of
`CartridgeCalls` calls, one returns with the work done, one loses the connection, and in between a job
that was asked for may change a unit of which no result speaks; all bytes, gaps, resets
and half responses are stutters. `StudioSession` in turn uses that promise: a call that
returns has done its work, one that throws may have done part of it. `Bootloader` is shown to implement `CartridgeModes`: `Seen`
says what its flags, key and reset cause look like from outside, where a reset already counts as on
its way to where the check will lead. `FirmwareInstall` is held to the same
specification from above: each of its cartridges takes only steps that `CartridgeModes`
allows (`CartridgesBehave`), so that what it says of installations rests on nothing the bootloader
does not do. It also relies on `FirmwareImage`
(what validates starts); `PreparationTool` takes its image check from
`FirmwareImage` (`ToolAccepts`). The three abstract specifications are checked and
proved; the other steps are assumptions of the upper model worded like the lower model's
properties. `FrameTimer` refines nothing but time: `FirmwareProtocol` lets a time-out fall
at any moment, `FrameTimer` says at which one it does.

### How state and actions correspond to the code

**`FlashDriver`.** A byte is the set of its one-bits, so `x & y` is an intersection
and 0xff is the full set. `Request` is the call from the parser; `ProgramEntry` is
`sst_program_block` up to its first flash command, `ProgramByte` one iteration of the
loop, `EraseSector` one `erase_sector`, `EraseBankCheck` and `EraseChipCheck` the
blank checks. The chip is external: a program command clears any part of the bits it should clear,
an erase command raises any bits. `Command` starts a polling loop with `MaxAttempts`
polls (in the code 100 for a byte, 1000 for an erase, each a delay and a turn of `sst_service`); in
each, the chip has completed, or it is still busy (`StillBusy`), and the last of them
gives up (`GivesUp`). A chip that has timed out is taken never to complete later. `PowerLoss` cuts
the flash command in flight at any point.

**`UsbLink`, `FirmwareProtocol`, `SerialInterface`, `CartridgeLink`.** A command is
two tokens (eight bytes in the code), a block frame three data tokens and a
CRC token; data tokens may be command tokens or a line end. The CRC is ideal: no
cut or shifted frame has a right one. A bank is one unit long, so that a bank read
and a block write address the same thing. An
iteration of the main loop is one step (`NotReady`, `Tick`, `Receive`), except that a
flash operation runs in a step of its own (`Execute`), because the host may give up and
DTR may drop and rise again while it runs. `Tick` may fire at any time, or never: it
covers every elapsed time. `BusReset` is the interrupt that resets the parser while
`protocol_feed` runs; its unlocked increment of `used` may write the old count back,
which is a choice in the model. `StartCall`, `Accept`, `Fail` are `send_command` and
`wait_for_response` with the checks their callers make; a call that throws closes the port and ends the
connection, as all callers do. `Reopen` assumes that the endpoint is drained before
the port is opened again, which takes the loop milliseconds once DTR is low, unless a
flash operation is running.

**`StudioSession`.** The slots run one at a time on the GUI thread. A worker posts a
signal (`posted`) and may still be closing its port when the slot is delivered; the
slots wait for it (`Settled`). A modal dialog blocks the user but neither the
one-second monitor (`Poll`) nor slots. `other` says that the port Studio is connected to is no longer
there under its name and serial number, which the monitor notices; a scan may find several ports and then connects to none. `Connect`, `Identify` and `VerifyChip` do
their serial calls in one step, since the GUI thread does nothing else meanwhile. `Press`,
`ChooseFile`, `Confirm` and `Decline` split `read_rom`, `flash_rom`, `write_bank`, `erase_chip`
and `erase_bank` at their dialogs. `CrashOnNull` is the undefined behaviour of calling through a null
`serial_interface`, taken as a crash. `Unplug` and `Plug` are the cable; another
cartridge may come back.

**`Bootloader`.** Flash is kept by words; addresses and sizes are in bytes, as in the
code. The manifest's CRC is ideal: the application is valid exactly when it is one of
`Images`. `ApplicationJumpCheck` is the start-up check, `LeaveLoop` and
`StartApplication` the main loop and its end, `Command` what every command does to
the window. A block write is `BlockWrite`, `ErasePage`, one `FillWord` per word, `WritePage`;
`EraseFlash` is one `WipePage` per page. Power may fail between any two of these and inside a
page operation. Byte-wise flash, EEPROM and lock-bit commands are compiled out
(`bootloader/Config/AppConfig.h:46-48`).

**`FirmwareImage`.** One action, `ReadLine`, gives the next line of a file to four readers
at once: Studio (`validate_application_hex`), the build (`read_hex`),
the preparation tool (`validate_combined_image`) and avrdude's loader, which is external. Each keeps
its own base, end-of-file flag and memory, and refuses lines by its own rules; sums of
addresses have the width they have in the code (`Word`). `StudioAccepts`,
`ToolAccepts`, `Validate`, `Stamped`, `Combined`, `WriteHex` and `ApplicationIsValid` are what the functions of these names
compute from that. `WriteHex` leaves out the refusal of addresses from 0x10000 on, which no memory
that `read_hex` yields can have, and a manifest has no cell for its reserved byte, which nothing reads. A byte is a number below four in the instance, the
manifest has one cell per field and the CRC is a parameter.

**`FirmwareInstall`.** `install_firmware_file` step by step (`pc`), one action for each
round of a wait and one for its end. A cartridge has a mode (application, boot window,
bootloader, on its way to either) and the contents of its application section; the operating
system's view of a port (`PortOf`) has a name derived from the serial number or, without
one, from the place. avrdude is external: it reads the file again, opens the port
by name, and erases, writes and verifies in steps that may fail or never come. `Scan` drops the connection, and does so
whether or not a board answers afterwards; `Identify` may fail before or after its first byte has cancelled the cartridge's boot window.

**`PreparationTool`.** `Probe` is one connection probe, disturbed or not; a series that agrees
and passes the checks continues with `Erase`, `WriteFlash`, `VerifyFlash`, `WriteExtendedFuse` and
`WriteHighFuse`, the memory operations of AVRDUDE in the order (`After`) of the command line; each may go
wrong or lose its contacts (`StepFails`): an erase may leave the flash torn, a fuse may be left with any value. The extended fuse
and the lock byte are compared by some of their bits only, so that `Factory`, `Installed` and `Unlocked` are
sets of bytes. The assumption
about the world, written where the readings are made, is that the contacts do not
disturb every reading of one series.

**`ReleaseDownload`.** Signals run their slots at once, so that an abort runs
`fileDownloaded` inside it (`Aborts`); timers, network and the Cancel button are events of the
loop. `Chunk` may hold back `readyRead`; a body that exceeds its limit in the last read is
only refused by the caller (`SizeOk`).

**`LogView`.** A handler of the window is two steps (the lines, then `update_status`), and three when
`update_log` has seen a trim and calls `rebuild_log` (`RebuildLog`), since
each takes a snapshot of its own and other threads append in between. Messages of severity `Unknown` have no filter. Any number of messages may
arrive between two updates; the history `since` counts them and remembers an update
that missed a whole trim, because then the buffer does not look shorter.

**`StudioFiles`.** A file dialog, warning box or download is a state of `gui` in which
`BankRead` may be delivered, or `BankReadEnds`, the end of a read that failed or was cancelled. `ReadFile` ends with the new
list in the settings, `Sync` writes it and shows it in the menu; `Restart` is the end of Studio, in order or not, after
which an unsynced setting may or may not have been written.

**`FrameTimer`.** An iteration reads the counter, ticks and takes at most one byte; then
time passes: less than the watchdog, or up to `LongestJob` after a flash operation.

## Runs

| run | instance | shows |
| --- | --- | --- |
| `flash_program` | 1 bank, 2 sectors of one block, 2 bytes of 2 bits | `SuccessMeansStored`, `RefusedLeavesFlash`, `RetryFits`; the driver implements `CartridgeStore` (`KeepsPromise`); every request ends (`RequestEnds`) |
| `flash_erase` | 2 banks of 2 sectors of 2 blocks, one bit | `OutsideUntouched` |
| `link` | 2 units, 4 sessions of 3 calls, one datum whose tokens are a line end and a command that erases | `TypeOK`, `BeliefIsTrue`, `OnlyAskedIsExecuted`, `ParserRecovers`; both ends implement `CartridgeCalls` (`KeepsPromise`) |
| `session_safety` | 2 banks of 2 blocks, 2 contents, 2 operations, 1 unplug | `OneUserOfThePort`, `ReportIsTrue`, `OnlyConfirmedBlocksChange`, `NoLiveThreadDestroyed` |
| `session_ends` | 2 banks of 1 block | `WorkEnds` |
| `session_identified` | as above | **violated**: see findings |
| `session_cancelled` | as above | **violated**: see findings |
| `boot` | 2 application pages and 1 boot page of 2 words, 2 images, a window of 2 ticks | `TypeOK`, `RunsOnlyValid`, `BootIntact`, `StaysWhenAsked`, `WindowEnds`; the bootloader implements `CartridgeModes` (`KeepsPromise`) |
| `image_checks` | an application section of 8 bytes, a boot section of 4, rows of 2, some forty different lines | `AcceptedStarts`, `StudioIsStricter`, `StampedAccepted`, `FactoryAccepted` |
| `install` | 3 cartridges, one without a serial number, 2 ports, 3 cable moves, 1 installation, 1 rebuild | `SelectedIsProgrammed`, `ReportIsTrue`, `InstallEnds`; every cartridge behaves as `CartridgeModes` says (`CartridgesBehave`) |
| `install_retry` | 2 cartridges, one with the legacy bootloader, 2 installations | **violated**: see findings |
| `separate_parts` | the tool; the log with a buffer of 3 and any gaps among 6 messages; the download; the files; the timer | `PartsTypeOK`, `SaysTheTruth`, `OnlyFitIsWritten`, `BootResetLast`; `LogViewIsRight`; `InstallsRelease`, `DownloadEnds`; `ReloadsWhatIsShown`, `NeverForgotten`; `ExpiresOnTime` |

`separate_parts` holds five components that share no state with each other. A behaviour of all
of them together is an interleaving in which each property only sees stuttering of the
others, so that one part runs in each behaviour and the others stay in their initial state.

**Why the bounds are enough.** Two bytes per block are needed for a program loop
that stops between bytes, two bits for a polled bit that agrees while another does
not, two polls for a chip that is late, two sectors and two banks for the address arithmetic; contents and data
are exhaustive at that size. On the link, one session can leave something behind and
the next can meet it; READINFO is the only flush, so the shortest dangerous history is
connect, fail, connect, work, which four sessions cover. Two
units tell a wrong target from a right one, and the data tokens spell the command that
erases. In the session one operation may follow another and one disconnection may
fall anywhere; two blocks per bank are what cancellation between blocks needs. In the
bootloader two pages make a half-uploaded application, an odd size and one size above
the page exist, and addresses reach past the boot section's start.

The image instance has every kind of line, whole, cut and foreign manifests of every length
and several CRCs, gaps, overlaps, a blank vector, bases that wrap in 32 bits and lines across each
boundary; the files are all sequences of these lines, cut off by the constraint
`StillRead` only where the remaining readers have refused for good. Three cartridges and two
ports give a bystander in its boot window, an exchange at the same port and a serial number that is not reported; three moves are
needed to pull one cartridge and plug in another while a third stays. In the download, bodies exceed
the limit by one chunk and there is one redirect too many. In the log, six messages
trim a buffer of three twice. The timer's numbers keep the order that the real ones have
(1000 < 2000 ms < 2048 and a watchdog below one turn of the counter). For the safety
properties the proofs remove the scale.

The bounds are `MaxAttempts` (flash driver), `MaxSessions` and `MaxCalls` (link), `MaxOps` and `MaxPlugs` (session), `MaxAddress` and
`Window` (bootloader), `MaxMoves`, `MaxTries` and `MaxRebuilds` (installation), `MaxChunks`,
`MaxRedirects` and `Limit` (download), `MaxArrivals`, `MaxMessages`, `TrimMessages` and `MaxLines` (log),
`MaxRecent` and `MaxChanges` (files), `ProbeCounts` (preparation) and `FrameTimer`'s lengths. Each is a guard or a
range in its module, and the real program has `MaxAttempts`, `Window`, `Limit`, `MaxRedirects`, `MaxMessages`, `TrimMessages`, `MaxLines`,
`MaxRecent` and `ProbeCounts` too, with larger values.

A definition whose comment says `mutant` is a deliberate bug. `PROJECT.json` pairs it with
the definition it stands in for and with the property that must then fail; no
specification uses it.

`CHECK_DEADLOCK FALSE` is used where the modelled world may really stop: the host has
used up its sessions (`link`), Studio has crashed or quit (the session runs), all tries are
used up (`install_retry`), the log's messages are used up (`separate_parts`), or the constraint
ends a file (`image_checks`).

**Fairness.** `FlashDriver`: the driver is sequential code on a controller that nothing
preempts for ever, and its polling loops are counted. `CartridgeLink`: the main loop
runs for ever and reads a timer, and every wait of the host is bounded by one.
`StudioSession`: threads and the event loop are scheduled; messages get closed by the user.
No fairness is given to the user's other actions, the cable or the monitor.
`Bootloader`: the loop, the timer interrupt and the transfer timeout run, and power does
not fail for ever. `FirmwareInstall`: the GUI thread's own steps, whose waits end by
a clock, messages that get closed, and the one-second monitor; none for avrdude, the cartridges or the cables.
`ReleaseDownload`: the queued start, the download's own timer and the code after the event loop;
none for the network, the caller's timer or the user.

## Findings

1. *Confirming after the cartridge has gone* (`session_identified`). The slots that
   erase and program show a modal confirmation and then go on without looking again
   at the connection. If the cartridge is unplugged meanwhile, `check_device_presence`
   (`mainwindow.cpp:535-554`) clears `chip_identified` and drops `serial_interface`; the
   thread started after "Continue" calls through a null pointer (`flashthread.cpp:51`).
   `README.md:64-65` says that the chip must be identified before ROMs can be flashed.
2. *A cancellation that is forgotten* (`session_cancelled`). After the last block has been
   programmed the interruption is not looked at again (`flashthread.cpp:84-98`), and the read-back
   is a new thread. A cancellation pressed during the last block is lost, although the button
   is disabled and the status bar says that it has been requested.
   `CHANGELOG.md:61-62` promises cancellation at block boundaries.
3. *A retry that cannot succeed* (`install_retry`). A bootloader that identifies as
   `LUFACDC` is accepted only in the installation that sent BOOTLOAD itself
   (`mainwindow.cpp:704-713, 131`). When that installation fails the cartridge stays in its
   bootloader and is no longer connected; every retry is refused, while the message says "The protected USB bootloader can be used to retry."
   (`mainwindow.cpp:797`).

Met while modelling, modelled as the code is, and contradicting nothing the repository says: avrdude reads the file
again after the validation and the waits (`mainwindow.cpp:739`), so that a
rebuilt file that would not validate may be programmed, and `ReportIsTrue` only promises what avrdude has
read (the bootloader still refuses to start a bad one); when the buffer is trimmed, a cleared
log shows old messages again and a paused one changes at the next filter (`logwindow.cpp:318, 342`); a cartridge that
is prepared a second time and cut off after the erase keeps its boot-reset fuse over a blank boot section, and must be prepared once
more (`tools/bootloader-installer/src/main.cpp:314`); `open_file` does
not look at the size again when it has read the file (`mainwindow.cpp:1195`); `validate_combined_image` sums addresses in 32 bits and goes on
after the end-of-file record (`tools/bootloader-installer/src/main.cpp:292-305`).

## Proofs

Each proof module has an inductive invariant, a lemma per action that keeps it, and theorems that
follow. The constants are arbitrary within the named assumptions, which TLC evaluates on every run.
What the less obvious assumptions say: no unit's number is the name of a command and no command token is
the last token of a frame, so that a cut payload continued by a command fails its CRC
(`TokenAssumption`); the watchdog fires within one turn of the frame counter and each time-out
takes less than a turn (`TimerAssumption`, in `PartsAssumption`); the value for "no result" is no contents
(`HostAssumption`); the boot section begins and ends with a row of `write_hex`, and a row holds the whole reset
vector (`ImageAssumption`: with rows of one byte, a vector whose second byte the linker left out would be stamped but
not written, and Studio would refuse what the build has made; `write_hex` has rows of sixteen); a trim drops at least one
message and no more than the buffer holds, which is no more than the text box keeps (`LogAssumption`); a ROM's address
is not a path (`FilesAssumption`).

| module | assumption | proved, as invariants unless stated otherwise | from |
| --- | --- | --- | --- |
| `FlashDriverProofs` | `GeometryAssumption` | `TypeOK`, `SuccessMeansStored`, `RefusedLeavesFlash`, `OutsideUntouched`, `RetryFits`; `Spec => Promise!AbsSpec` | `DriverInv` |
| `CartridgeLinkProofs` | `LinkAssumption`, `TokenAssumption`, `HostAssumption` | `TypeOK`, `BeliefIsTrue`, `OnlyAskedIsExecuted`; `Spec => Promise!AbsSpec` | `IInv` |
| `BootloaderProofs` | `BootAssumption` | `TypeOK`, `RunsOnlyValid`, `BootIntact`, `StaysWhenAsked`; `Spec => Promise!AbsSpec` | `BootInv` |
| `StudioSessionProofs` | `SessionAssumption` | `TypeOK`, `OneUserOfThePort`, `ReportIsTrue`; the action properties `OnlyConfirmedBlocksChange`, `NoLiveThreadDestroyed` | `SessionInv`, `TrueSoFar` |
| `FirmwareImageProofs` | `ImageAssumption` | `TypeOK`, `AcceptedStarts`, `StudioIsStricter`, `StampedAccepted`, `FactoryAccepted` | `ImageInv` |
| `FirmwareInstallProofs` | `InstallAssumption` | `TypeOK`, `SelectedIsProgrammed`, `ReportIsTrue`; that every cartridge keeps to `CartridgeModes` (`CartridgesBehave`) | `InstallInv` |
| `PreparationToolProofs` | `ToolAssumption` | `TypeOK`, `SaysTheTruth`; the action properties `OnlyFitIsWritten`, `BootResetLast` | `ToolInv` |
| `SeparatePartsProofs` | `PartsAssumption`, `ToolAssumption` | `PartsTypeOK`, `LogViewIsRight`, `InstallsRelease`, `ReloadsWhatIsShown`, `ExpiresOnTime`; the action property `NeverForgotten` | `PartsInv` |

Why the invariants have to say more than the properties:

* `DriverInv`. `RetryFits` in the middle of a loop needs that the data still fits the whole block,
  `SuccessMeansStored` at the end of a program loop that every byte below `index` is already
  right, `RefusedLeavesFlash` at a dispatch that nothing has happened since the request came. The
  refinement maps entry actions to stutters or answers, loop steps to
  `AbsModify` or answers, and `PowerLoss` to `AbsLose`.
* `IInv` of the link. With a connected board, nothing is on the line between two calls (`Quiet`), and during a call what the
  parser holds, the driver's job and the tokens in both directions are one of the stages of just that call
  (`InFlight`): a prefix of a response can only be the one that the call waits for. Before that, a connection may find
  the remains of earlier sessions: a late status, half a frame, an erase that still
  runs. `Greeted` and `VersionInv` say why none of it survives the greeting: READINFO's tokens are the only
  ones that can reach the parser, whatever is stale in front of its echo makes the call fail (`Dead`), and
  an answered READVERS has passed through an idle parser. `JobInv` adds that a job that still
  runs was asked for and that of the units it touches nothing is believed. A gap or a bus reset in
  the middle of a command leads to `VersionLost`, or to a stage of `InFlight` in which half of the command is gone.
  The refinement needs little more: a step that returns has just set `belief`, which `BeliefIsTrue` makes the flash's
  contents, and `JobInv` says that a job which runs on touches nothing known.
* `BootInv`. That the boot section survives a block write needs where the write has got to:
  `BlockInPlace` keeps its address and what remains of it below the boot section. `StaysWhenAsked`
  needs that the key, the reset cause and `StayInBootloader` agree through a reset
  (`StayKept`, `LoopRuns`). The refinement adds that a page is only touched when the window is
  cancelled and the main loop goes on (`PageStays`); a step of the abstract cartridge is then found for every command,
  reset and page operation.
* `SessionInv`. That the port has one user follows from which thread and which signal may be pending in
  each phase of an operation (`Phase`), what the workers have done so far (`Progress`) and that their
  targets are those the user confirmed (`Targets`). `TrueSoFar` carries a report from the
  slot that makes it back to the blocks that were read, as long as no disconnection intervened.
* `ImageInv`. As long as Studio has refused no line, all readers have read the same memory and nothing of it
  lies in the boot section (`ReadersAgree`); Studio's rules do not imply this of a single line, but of a whole file.
  What the build has read lies within the addresses (`Bounded`), which is all that stamping and writing need: the
  rows written up to one hold exactly the cells up to it (`WritingSteps`, `WrittenAndRead`), and the readers, which
  take them in order, have read each cell once and in the place it was written to, so that neither "overlaps" nor
  "beyond" ever refuses a row.
* `InstallInv`. What is known of the device at each step (`OnItsTrack`): after a `BOOTLOAD` the
  remembered serial number is the wanted cartridge's, a found port has the same one or none, and
  avrdude's device answers at that name. `UploadState` and `StartedIsValid` relate the process to
  what the cartridges hold.
* `ToolInv`. Between two probes all readings were equal and either undisturbed or all
  disturbed (`SeriesAgrees`), so that a series which ends well has read the chip; within the command
  what has been written so far follows from the step (`WriteOrder`). That a chip whose preparation was cut off still fits
  (`OnlyFitIsWritten`) needs that it fitted before each of the steps.
* `PartsInv` joins the invariants of parts that share no state.
  * `LogInv`. The buffer holds consecutive numbers, and the lines of the text box are a filtered stretch of what came
    before `linesread`. A trim moves the positions under the window's feet; the invariant therefore ties every position to what
    the buffer had dropped when it was taken (`asked`), says that either a lost trim can still be seen (the buffer
    is shorter than `linesread`) or `since` counts at least a trim's worth of messages, and only otherwise that the text is
    what a rebuild would give. A filter toggled before the next update destroys the evidence but rebuilds the text, so that it
    keeps all three.
  * `DownloadInv`. A reply that is open has brought what was read plus what waits (`Transfer`); a
    download has emitted exactly when it has finished, and what reaches the installer was complete, compared and not
    cancelled (`Outcome`), through every slot that an abort runs inside another.
  * `ViewInv`. Whatever state the window waits in, it waits for a file, a ROM or data of its kind (`Waits`); the menu,
    the setting and what has been written of it hold each file once and differ only in what was removed or, for as long as
    `add_recent_file` runs, in the file just opened.
  * `TimerInv`. Between the bytes of anything, the counter has not made a turn since the
    last iteration, because the only iterations that may outlast one run a flash
    operation and leave the parser idle.

What is computed by recursive functions needs induction, which `SetInduction`, derived in both modules that use it from
well-foundedness of `<`, provides. `WriteHex` and `Reading` go over the rows and the lines of a file, and their lemmas
go from one row to the next. The log's filters and `removeAll` are one function (`Without`), of which the proofs need: what is left is placed in the old order and complete
(`WithoutPlaces`), and it distributes over concatenation (`WithoutConcat`), by which appending the
unread lines equals rebuilding.

**Only model-checked.** The liveness properties (`RequestEnds`, `ParserRecovers`,
`WorkEnds`, `WindowEnds`, `InstallEnds`, `DownloadEnds`), because the prover does not handle fairness and
`ENABLED`. Every safety property of every passing run is a theorem. Conversely the `TypeOK` of the flash driver, the image
readers and the session are theorems that no run repeats.

## Not modelled, and the plan

* Constant tables: USB descriptors, the firmware compatibility list.
* Thin wrappers: the Qt transport (the link's queues stand for it) and the bank selector, which holds one number.
* Presentation: dialogs, hex view, settings, about box, bank viewer, progress and status texts; copying
  and saving the log, which read the text box and change nothing.
* `read_block` of the serial interface, which only tests call, and `cartridgereadthread`, which nothing creates.
* The P2000T's bank-test ROM and packaging, which are independent of the rest.
* Bus timing of the flash pins and the bootloader's tick counter, abstracted to ticks that may come at any
  time; that the log's status line catches up (nothing but its own timer is needed for it).

What is left to do, in order of importance:

1. The step from `FirmwareProtocol`'s time-outs at any moment to `FrameTimer`'s, as a refinement.
2. The step from `StudioSession`, whose workers make several calls in a step, to the calls of `CartridgeCalls`.
