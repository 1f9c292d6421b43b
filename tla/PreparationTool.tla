--------------------------- MODULE PreparationTool ---------------------------
(***************************************************************************)
(* The preparation tool (tools/bootloader-installer/src/main.cpp): it      *)
(* installs the combined application and bootloader image on a factory-new *)
(* cartridge through a USBasp programmer whose contacts are held on the    *)
(* board by hand.  A reading may be disturbed and a write may go wrong or  *)
(* be cut off; the tool only sees what AVRDUDE reads and its exit code.    *)
(* What the tool relies on is that in each series of connection probes one *)
(* reading at least is undisturbed: that is why it takes several.          *)
(***************************************************************************)
EXTENDS Naturals

CONSTANTS
  Signatures, LowFuses, HighFuses, ExtendedFuses, Locks, \* readable values
  Factory,     \* the extended fuse bytes with the low four bits 3, as from the factory
  Installed,   \* those with the low four bits b, as the tool sets it
  Unlocked,    \* the lock bytes with the low six bits set
  Images,      \* HEX files the tool may be given
  Complete,    \* those that validate_combined_image accepts (FirmwareImage)
  ProbeCounts  \* values of --probes

ExpectedSignature == "1E9587"
ExpectedLowFuse == "5E"
InstalledHighFuse == "98"
PostInstallProbes == 3

ASSUME ToolAssumption ==
  /\ ExpectedSignature \in Signatures /\ ExpectedLowFuse \in LowFuses
  /\ {InstalledHighFuse, "99"} \subseteq HighFuses
  /\ Factory \cup Installed \subseteq ExtendedFuses /\ Installed # {}
  /\ Unlocked \subseteq Locks /\ Unlocked # {} /\ Complete \subseteq Images /\ Images # {}
  /\ ProbeCounts \subseteq 2 .. 20 /\ ProbeCounts # {}

NoProbe == {}  \* std::nullopt
Probes == [signature : Signatures, low : LowFuses, high : HighFuses,
           extended : ExtendedFuses, lock : Locks]
Contents == Images \cup {"blank", "torn", "other"}
Steps == {"erase", "flash", "verify", "efuse", "hfuse"}

VARIABLES
  chip,      \* what reading the chip on the contacts would give, undisturbed
  flash,     \* what its flash holds
  pc,        \* "menu", "probe", "install", or a step of the AVRDUDE command
  options,   \* the action, image and number of probes asked for
  reference, \* the reading of the last probe, if there is one (a set)
  probe,     \* probes of this series taken so far
  disturbed, \* those of them that were disturbed
  post,      \* the series after the installation (postinstall)
  said       \* the last message: "none", "error", "checked" or "prepared"

vars == <<chip, flash, pc, options, reference, probe, disturbed, post, said>>
board == <<chip, flash>>
series == <<reference, probe, disturbed, post>>

Count == IF post THEN PostInstallProbes ELSE options.probes

\* validate_preinstall: what may be written to.
PreinstallFresh(r) ==   \* mutant: not a cartridge whose preparation was cut off
  /\ r.signature = ExpectedSignature
  /\ r.low = ExpectedLowFuse
  /\ r.high = "99"
  /\ r.extended \in Factory
Preinstall(r) ==
  /\ r.signature = ExpectedSignature
  /\ r.low = ExpectedLowFuse
  /\ r.high \in {"99", InstalledHighFuse}
  /\ r.extended \in Factory \cup Installed

\* What the series after the installation requires of the reading.
Postinstall(r) ==
  /\ r.low = ExpectedLowFuse
  /\ r.high = InstalledHighFuse
  /\ r.extended \in Installed
  /\ r.lock \in Unlocked

Init ==
  /\ chip \in Probes /\ flash \in {"blank", "other"}
  /\ pc = "menu"
  /\ options = [action |-> "check", image |-> CHOOSE i \in Images : TRUE,
                probes |-> CHOOSE n \in ProbeCounts : TRUE]
  /\ reference = NoProbe /\ probe = 0 /\ disturbed = 0 /\ post = FALSE
  /\ said = "none"

\* Another cartridge, of whatever history, is put under the contacts.
Swap ==
  /\ pc = "menu"
  /\ chip' \in Probes /\ flash' \in {"blank", "other"}
  /\ said' = "none"
  /\ UNCHANGED <<pc, options, series>>

\* A series of probes begins, or what the last one left is gone.
NewSeries(after) ==
  reference' = NoProbe /\ probe' = 0 /\ disturbed' = 0 /\ post' = after

Ends(message) ==
  pc' = "menu" /\ said' = message /\ NewSeries(FALSE) /\ UNCHANGED options

Fail == Ends("error")
------------------------------------------------------------------------------
(***************************************************************************)
(* execute_operation, from the menu or the command line: AVRDUDE, its      *)
(* configuration and the image are found, or the operation ends at once.   *)
(***************************************************************************)

Start ==
  /\ pc = "menu"
  /\ \E action \in {"check", "flash"}, i \in Images, n \in ProbeCounts :
       options' = [action |-> action, image |-> i, probes |-> n]
  /\ NewSeries(FALSE)
  /\ said' = "none" /\ pc' = "probe"
  /\ UNCHANGED board

NothingFound == pc = "menu" /\ Fail /\ UNCHANGED board
------------------------------------------------------------------------------
(***************************************************************************)
(* check_connection and probe_once.                                        *)
(***************************************************************************)

DiffersInSignature(current) == \* mutant: only the signatures are compared
  \E r \in reference : current.signature # r.signature

Differs(current) == \E r \in reference : current # r

Accepted(current) ==
  IF post THEN Postinstall(current) ELSE Preinstall(current)

\* The series has ended well.
Stable ==
  CASE post -> Ends("prepared")
    [] ~post /\ options.action = "check" -> Ends("checked")
    [] OTHER -> pc' = "install" /\ NewSeries(FALSE) /\ UNCHANGED <<options, said>>

Read(current) ==
  CASE current.signature # ExpectedSignature \/ Differs(current) -> Fail
    [] OTHER ->
         IF probe + 1 < Count
           THEN /\ reference' = {current} /\ probe' = probe + 1
                /\ disturbed' = IF current = chip THEN disturbed ELSE disturbed + 1
                /\ UNCHANGED <<pc, options, post, said>>
           ELSE IF Accepted(current) THEN Stable ELSE Fail

\* One probe; of a series at most all but one are disturbed.
Probe ==
  /\ pc = "probe"
  /\ \E current \in Probes :
       /\ current # chip => disturbed + 1 < Count
       /\ Read(current)
  /\ UNCHANGED board

\* AVRDUDE reports an error.
ProbeFails == pc = "probe" /\ Fail /\ UNCHANGED board
------------------------------------------------------------------------------
(***************************************************************************)
(* install: one AVRDUDE command that erases the chip, writes and verifies  *)
(* the flash, and writes the extended and then the high fuse; AVRDUDE      *)
(* verifies each write and ends at the first that failed.                  *)
(***************************************************************************)

FirstStep == "erase"

Validate ==
  /\ pc = "install"
  /\ IF options.image \in Complete
       THEN pc' = FirstStep /\ UNCHANGED <<options, series, said>>
       ELSE Fail
  /\ UNCHANGED board

HighFuseFirst(step) == \* mutant: -U hfuse:w before -U efuse:w
  CASE step = "erase" -> "flash" [] step = "flash" -> "verify"
    [] step = "verify" -> "hfuse" [] step = "hfuse" -> "efuse"
    [] step = "efuse" -> "probe"

\* The order of the -U operations; then the second series.
After(step) ==
  CASE step = "erase" -> "flash" [] step = "flash" -> "verify"
    [] step = "verify" -> "efuse" [] step = "efuse" -> "hfuse"
    [] step = "hfuse" -> "probe"

\* AVRDUDE exits with 0 after the last operation.
Advance(step) ==
  /\ pc' = After(step)
  /\ IF After(step) = "probe" THEN NewSeries(TRUE) ELSE UNCHANGED series
  /\ UNCHANGED <<options, said>>

\* A chip erase also opens the lock bits.
Erase ==
  /\ pc = "erase"
  /\ flash' = "blank"
  /\ \E l \in Unlocked : chip' = [chip EXCEPT !.lock = l]
  /\ Advance("erase")

WriteFlash ==
  /\ pc = "flash"
  /\ flash' = options.image
  /\ UNCHANGED chip /\ Advance("flash")

VerifyFlash ==
  /\ pc = "verify"
  /\ flash = options.image
  /\ UNCHANGED board /\ Advance("verify")

WriteExtendedFuse ==
  /\ pc = "efuse"
  /\ \E e \in Installed : chip' = [chip EXCEPT !.extended = e]
  /\ UNCHANGED flash /\ Advance("efuse")

WriteHighFuse ==
  /\ pc = "hfuse"
  /\ chip' = [chip EXCEPT !.high = InstalledHighFuse]
  /\ UNCHANGED flash /\ Advance("hfuse")

\* The contacts are lost, or a write goes wrong and its verification says so.
StepFails ==
  /\ pc \in Steps
  /\ \/ UNCHANGED board
     \/ /\ pc = "erase" /\ flash' = "torn"
        /\ \E l \in {chip.lock} \cup Unlocked : chip' = [chip EXCEPT !.lock = l]
     \/ pc = "flash" /\ flash' = "torn" /\ UNCHANGED chip
     \/ /\ pc = "efuse" /\ UNCHANGED flash
        /\ \E e \in ExtendedFuses : chip' = [chip EXCEPT !.extended = e]
     \/ /\ pc = "hfuse" /\ UNCHANGED flash
        /\ \E h \in HighFuses : chip' = [chip EXCEPT !.high = h]
  /\ Fail

Next ==
  \/ Swap \/ Start \/ NothingFound
  \/ Probe \/ ProbeFails
  \/ Validate \/ Erase \/ WriteFlash \/ VerifyFlash
  \/ WriteExtendedFuse \/ WriteHighFuse \/ StepFails

Spec == Init /\ [][Next]_vars
------------------------------------------------------------------------------
\* The local state of execute_operation and check_connection (main.cpp:227-251,
\* 431-466), and the bytes the tool can read.
TypeOK ==
  /\ chip \in Probes /\ flash \in Contents
  /\ pc \in {"menu", "probe", "install"} \cup Steps
  /\ options \in [action : {"check", "flash"}, image : Images,
                  probes : ProbeCounts]
  /\ reference \in {NoProbe} \cup {{r} : r \in Probes}
  /\ probe \in 0 .. (Count - 1) /\ disturbed \in 0 .. probe /\ post \in BOOLEAN
  /\ said \in {"none", "error", "checked", "prepared"}

\* What the tool says last is true of the chip on the contacts, disturbed
\* readings and all: "Cartridge preparation and verification succeeded" of the
\* image and every fuse, "ISP connection check succeeded" of a chip that could
\* be prepared (main.cpp:452-461).
SaysTheTruth ==
  /\ said = "prepared" => /\ flash = options.image /\ options.image \in Complete
                          /\ Preinstall(chip) /\ Postinstall(chip)
  /\ said = "checked" => Preinstall(chip)

\* `flash` runs the connection check first: a chip is written to only while it
\* is an ATmega32U4 with fuses of an unprepared, a prepared or a half-prepared
\* cartridge.  And it remains one, so that a preparation that was cut off at any
\* step can be started again, as long as no fuse was left with a value that is
\* neither its old nor its new one
\* (README.md:58-62 of the tool, main.cpp:215-225, 310-322, 451-453).
FusesAsAsked ==
  /\ chip'.extended \in {chip.extended} \cup Installed
  /\ chip'.high \in {chip.high, InstalledHighFuse}
OnlyFitIsWritten ==
  [][pc # "menu" /\ board' # board =>
       Preinstall(chip) /\ (FusesAsAsked => Preinstall(chip'))]_vars

\* The fuse that makes the chip start in its bootloader is written last, over a
\* verified image and after the extended fuse, and the low fuse never
\* (main.cpp:313-318, README.md:61-62 of the tool).
BootResetLast ==
  [][pc # "menu" =>
       /\ chip'.low = chip.low /\ chip'.signature = chip.signature
       /\ chip'.high # chip.high =>
            flash \in Complete /\ chip.extended \in Installed]_vars
=============================================================================
