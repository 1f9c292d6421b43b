------------------------------ MODULE Bootloader ------------------------------
(***************************************************************************)
(* The cartridge's USB bootloader (firmware/bootloader/BootloaderCDC.c,    *)
(* BootloaderAPI.c) from reset to reset: the check that may jump to the    *)
(* application, the boot window, the AVR109 commands that read, erase and  *)
(* write the application's flash, and the ways out.  The host may send any *)
(* command, or stall; power may fail between any two steps and inside a    *)
(* page operation.                                                         *)
(*                                                                         *)
(* Addresses and sizes are in bytes, as in the code; flash is kept by      *)
(* words of two bytes.  The manifest's CRC is ideal: the application is    *)
(* valid when the flash below the boot section is exactly one of Images.   *)
(***************************************************************************)
EXTENDS Naturals, Sequences

CONSTANTS
  AppPages, BootPages, PageWords,
  Images,      \* stamped applications: functions from application words
  Values,      \* words the host may send
  FF, Torn,    \* an erased word, a word of a page operation cut short
  BootCode,    \* a word of the bootloader
  Window,      \* BootTicks at which the boot window closes
  MaxAddress   \* bound on CurrAddress

AppWords  == 0 .. AppPages * PageWords - 1
BootWords == AppPages * PageWords .. (AppPages + BootPages) * PageWords - 1
Contents  == Values \cup {FF, Torn, BootCode}

ASSUME BootAssumption ==
  /\ AppPages \in Nat \ {0} /\ BootPages \in Nat \ {0} /\ PageWords \in Nat \ {0}
  /\ Window \in Nat \ {0} /\ MaxAddress \in Nat /\ 2 * AppPages * PageWords <= MaxAddress
  /\ FF \notin Values \cup {Torn, BootCode} /\ Torn \notin Values
  /\ Images \subseteq [AppWords -> Values \cup {FF}]

VARIABLES
  flash,   \* the controller's own flash, by word
  mode,    \* "reset", "boot" (the bootloader's main loop), or "app"
  wdrf,    \* the watchdog caused the last reset
  key,     \* MagicBootKey: "start" (0xDC42), "stay" (0xB007) or "other"
  stay,    \* StayInBootloader
  run,     \* RunBootloader
  ticks,   \* BootTicks
  addr,    \* CurrAddress
  pc,      \* where CDC_Task is: "idle" between two commands
  block,   \* the block being written: its page address, size and words so far
  asked    \* history: BOOTLOAD has been obeyed and nothing has undone it

vars == <<flash, mode, wdrf, key, stay, run, ticks, addr, pc, block, asked>>

PageSize  == 2 * PageWords
BootStartLate == 2 * AppPages * PageWords + PageSize   \* mutant
BootStart == 2 * AppPages * PageWords
Keys      == {"start", "stay", "other"}
NoBlock   == [page |-> 0, size |-> 0, words |-> <<>>]

\* ApplicationIsValid.
Valid == [w \in AppWords |-> flash[w]] \in Images

Init ==
  /\ \E image \in Images \cup {[w \in AppWords |-> FF]} :
       flash = [w \in AppWords \cup BootWords |-> IF w \in AppWords THEN image[w] ELSE BootCode]
  /\ mode = "reset" /\ wdrf = FALSE /\ key \in Keys
  /\ stay = FALSE /\ run = TRUE /\ ticks = 0
  /\ addr = 0 /\ pc = "idle" /\ block = NoBlock
  /\ asked = FALSE

-----------------------------------------------------------------------------
\* A reset: by the watchdog, which leaves the key in memory, or not.
Reset(watchdog, k) ==
  /\ mode' = "reset" /\ wdrf' = watchdog /\ key' = k
  /\ pc' = "idle" /\ block' = NoBlock

\* What Application_Jump_Check decides: to stay for a host that asked, to jump to
\* an application that is valid.
StaysNever == FALSE   \* mutant
Stays == wdrf /\ key = "stay"
JumpsUnchecked == wdrf /\ key = "start"   \* mutant
Jumps == wdrf /\ key = "start" /\ Valid

\* Application_Jump_Check and the start-up code that follows it.  The key is
\* used once.
ApplicationJumpCheck ==
  /\ mode = "reset"
  /\ key' = "other" /\ wdrf' = FALSE
  /\ stay' = Stays
  /\ mode' = IF Jumps THEN "app" ELSE "boot"
  /\ run' = TRUE /\ ticks' = 0 /\ addr' = 0
  /\ UNCHANGED <<flash, pc, block, asked>>

\* The timer interrupt.
Tick ==
  /\ mode = "boot" /\ ticks < Window
  /\ ticks' = ticks + 1
  /\ UNCHANGED <<flash, mode, wdrf, key, stay, run, addr, pc, block, asked>>

\* The main loop after CDC_Task: the window closes on a valid application.
WindowCloses == ~stay /\ ticks >= Window /\ Valid
LeaveLoop ==
  /\ mode = "boot" /\ pc = "idle"
  /\ run /\ WindowCloses
  /\ run' = FALSE
  /\ UNCHANGED <<flash, mode, wdrf, key, stay, ticks, addr, pc, block, asked>>

\* The end of main: the key is set and the watchdog resets the controller.
StartWithoutKey ==   \* mutant
  /\ mode = "boot" /\ pc = "idle" /\ ~run
  /\ Reset(TRUE, "other")
  /\ UNCHANGED <<flash, stay, run, ticks, addr, asked>>
StartApplication ==
  /\ mode = "boot" /\ pc = "idle" /\ ~run
  /\ Reset(TRUE, "start")
  /\ UNCHANGED <<flash, stay, run, ticks, addr, asked>>

-----------------------------------------------------------------------------
\* A page operation, refused outside the application section and off a page
\* boundary (IsPageAddressValid).
PageValid(a) == a < BootStart /\ a % PageSize = 0
PageOf(a) == (a \div 2) .. (a \div 2) + PageWords - 1
Paged(a, f) ==
  IF PageValid(a) THEN [w \in DOMAIN flash |-> IF w \in PageOf(a) THEN f[w] ELSE flash[w]]
                  ELSE flash
All(c) == [w \in DOMAIN flash |-> c]

\* What the block's words make of its page: words not sent stay erased.
Filled == [w \in DOMAIN flash |->
             LET i == w - block.page \div 2 + 1
             IN IF i \in DOMAIN block.words THEN block.words[i] ELSE FF]

\* CDC_Task takes a command, which cancels the boot window.
CommandKeepsWindow ==   \* mutant
  /\ mode = "boot" /\ pc = "idle" /\ run
  /\ UNCHANGED <<mode, wdrf, key, stay, ticks>>
Command ==
  /\ mode = "boot" /\ pc = "idle" /\ run
  /\ stay' = TRUE
  /\ UNCHANGED <<mode, wdrf, key, ticks>>

Exit ==
  /\ Command
  /\ run' = FALSE /\ pc' = "respond" /\ asked' = FALSE
  /\ UNCHANGED <<flash, addr, block>>

SetCurrentAddress ==
  /\ Command
  /\ \E w \in 0 .. MaxAddress \div 2 : addr' = 2 * w
  /\ pc' = "respond"
  /\ UNCHANGED <<flash, run, block, asked>>

\* Commands that change nothing but the window: identity, mode, LED, unknown.
OtherCommand ==
  /\ Command
  /\ pc' = "respond"
  /\ UNCHANGED <<flash, run, addr, block, asked>>

EraseFlash ==
  /\ Command
  /\ pc' = "wipe" /\ block' = NoBlock
  /\ UNCHANGED <<flash, run, addr, asked>>

\* A block read moves the address by whole words.
BlockRead ==
  /\ Command
  /\ \E size \in 0 .. PageSize + 1 :
       /\ addr + size <= MaxAddress
       /\ addr' = addr + 2 * (size \div 2)
  /\ pc' = "respond"
  /\ UNCHANGED <<flash, run, block, asked>>

\* A malformed block write is swallowed before anything is erased.
MalformedEven(size) ==   \* mutant
  \/ size = 0 \/ size > PageSize
  \/ addr % PageSize # 0
  \/ addr + size > BootStart
Malformed(size) ==
  \/ size = 0 \/ size > PageSize \/ size % 2 = 1
  \/ addr % PageSize # 0
  \/ addr + size > BootStart
BlockWrite ==
  /\ Command
  /\ \E size \in 0 .. PageSize + 1 :
       IF Malformed(size) THEN pc' = "respond" /\ UNCHANGED block
       ELSE pc' = "erase" /\ block' = [page |-> addr, size |-> size, words |-> <<>>]
  /\ UNCHANGED <<flash, run, addr, asked>>

-----------------------------------------------------------------------------
Going == UNCHANGED <<mode, wdrf, key, stay, run, ticks, asked>>

\* EraseFLASH, one page after the other.
WipePage ==
  /\ pc = "wipe"
  /\ flash' = Paged(block.page, All(FF))
  /\ block' = [block EXCEPT !.page = @ + PageSize]
  /\ pc' = IF block.page + PageSize < BootStart THEN "wipe" ELSE "respond"
  /\ Going /\ UNCHANGED addr

\* A block write: erase the page, collect the words, write the page.
ErasePage ==
  /\ pc = "erase"
  /\ flash' = Paged(block.page, All(FF))
  /\ pc' = "fill"
  /\ Going /\ UNCHANGED <<addr, block>>

FillWord ==
  /\ pc = "fill"
  /\ \E v \in Values \cup {FF} : block' = [block EXCEPT !.words = Append(@, v)]
  /\ addr' = addr + 2
  /\ pc' = IF 2 * Len(block'.words) = block.size THEN "write" ELSE "fill"
  /\ Going /\ UNCHANGED flash

WritePage ==
  /\ pc = "write"
  /\ flash' = Paged(block.page, Filled)
  /\ pc' = "respond"
  /\ Going /\ UNCHANGED <<addr, block>>

\* The host takes the response.
Respond ==
  /\ pc = "respond"
  /\ pc' = "idle" /\ block' = NoBlock
  /\ Going /\ UNCHANGED <<flash, addr>>

\* The host stalls a transfer, or is gone: ResetAfterTransferFailure.
TransferFailure ==
  /\ pc \in {"fill", "respond"}
  /\ Reset(TRUE, "other")
  /\ asked' = FALSE
  /\ UNCHANGED <<flash, stay, run, ticks, addr>>

Transfer == WipePage \/ ErasePage \/ FillWord \/ WritePage \/ Respond \/ TransferFailure

-----------------------------------------------------------------------------
\* The application obeys BOOTLOAD: the key asks for the bootloader
\* (main.c:106-114).
Bootload ==
  /\ mode = "app"
  /\ Reset(TRUE, "stay")
  /\ asked' = TRUE
  /\ UNCHANGED <<flash, stay, run, ticks, addr>>

\* The application hangs and its watchdog resets the controller; the key's place
\* in memory holds the application's stack.
Hang ==
  /\ mode = "app"
  /\ Reset(TRUE, "other")
  /\ UNCHANGED <<flash, stay, run, ticks, addr, asked>>

\* Power fails: memory holds anything when it is back, and the page being erased
\* or written is half done.
PowerLoss ==
  /\ \E k \in Keys : Reset(FALSE, k)
  /\ flash' \in {flash} \cup
       IF pc \in {"wipe", "erase", "write"} THEN {Paged(block.page, All(Torn))} ELSE {}
  /\ asked' = FALSE
  /\ UNCHANGED <<stay, run, ticks, addr>>

HostCommand == Exit \/ SetCurrentAddress \/ OtherCommand \/ EraseFlash \/ BlockRead \/ BlockWrite
MainLoop == ApplicationJumpCheck \/ LeaveLoop \/ StartApplication
Next == MainLoop \/ Tick \/ HostCommand \/ Transfer \/ Bootload \/ Hang \/ PowerLoss

Spec == Init /\ [][Next]_vars

\* The controller runs and its timer ticks; a stalled transfer times out.  Power
\* does not fail for ever.
FairSpec ==
  /\ Spec
  /\ WF_vars(MainLoop) /\ WF_vars(Tick) /\ WF_vars(Transfer)
  /\ <>[][~PowerLoss]_vars

-----------------------------------------------------------------------------
\* The word counter and the address never leave the page being written: a block
\* that ends off a word boundary is refused (BootloaderCDC.c:298-301, 332-349).
TypeOK ==
  /\ flash \in [AppWords \cup BootWords -> Contents]
  /\ mode \in {"reset", "boot", "app"} /\ wdrf \in BOOLEAN /\ key \in Keys
  /\ stay \in BOOLEAN /\ run \in BOOLEAN /\ ticks \in 0 .. Window
  /\ addr \in 0 .. MaxAddress
  /\ pc \in {"idle", "wipe", "erase", "fill", "write", "respond"}
  /\ block.page \in 0 .. BootStart /\ block.size \in 0 .. PageSize
  /\ block.words \in Seq(Contents) /\ 2 * Len(block.words) <= block.size
  /\ asked \in BOOLEAN

\* Whatever the host sends and wherever power fails, the application that runs is
\* complete: a partly uploaded one is never started, not even when the bootloader
\* left its loop for it before (firmware/README.md:76-90).
RunsOnlyValid == mode = "app" => Valid

\* No sequence of commands changes the bootloader itself.
BootIntact == \A w \in BootWords : flash[w] = BootCode

\* A BOOTLOAD request holds: without a host's exit command, a failed transfer or
\* a loss of power, no timeout starts the application again
\* (firmware/README.md:78-79, BootloaderCDC.c:117, 144).
StaysWhenAsked == asked => mode # "app"

\* What somebody who only waits for USB devices can tell of the bootloader: a reset is
\* already on the way to where the check will lead.
Seen ==
  CASE mode = "app"                        -> "app"
    [] mode = "reset" /\ wdrf              -> IF key = "stay" THEN "entering"
                                              ELSE IF key = "start" THEN "leaving" ELSE "window"
    [] mode = "reset" /\ ~wdrf             -> "window"
    [] mode = "boot"                       -> IF ~run THEN "leaving"
                                              ELSE IF stay THEN "boot" ELSE "window"

\* Seen like that, the bootloader keeps what an installation relies on
\* (CartridgeModes): no timeout, command, failed transfer or loss of power makes it
\* leave, start or write in another order than its host and its window allow
\* (firmware/README.md:76-90).
Promise == INSTANCE CartridgeModes WITH
  state <- Seen, contents <- [w \in AppWords |-> flash[w]],
  Contents <- [AppWords -> Contents], Whole <- Images
KeepsPromise == Promise!AbsSpec

\* A bootloader that nobody talks to starts a valid application, and one that a
\* host talks to never waits for the host for ever (BootloaderCDC.c:144, 366-381).
WindowEnds ==
  /\ mode = "boot" /\ Valid /\ ~stay ~> mode = "app" \/ stay \/ ~Valid
  /\ pc # "idle" ~> pc = "idle"
=============================================================================
