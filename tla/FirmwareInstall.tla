--------------------------- MODULE FirmwareInstall ---------------------------
(***************************************************************************)
(* Installing application firmware from Studio (mainwindow.cpp:57-140,     *)
(* 571-581, 663-801): check the file, ask, send the cartridge into its     *)
(* bootloader, find it again among whatever is plugged in, ask who it is,  *)
(* let avrdude program it, wait for the application.  Meanwhile cables     *)
(* move, other cartridges pass through their boot windows, the user        *)
(* cancels, avrdude fails or hangs, and the file may be rebuilt.           *)
(***************************************************************************)
EXTENDS Naturals, FiniteSets

CONSTANTS
  Devices, \* cartridges
  Silent,  \* those whose USB serial number the operating system does not report
  Legacy,  \* those with a bootloader that answers LUFACDC
  Ports,   \* places a cable goes into
  Images,  \* contents of a HEX file that Studio validates
  Bad,     \* contents that it refuses
  NoSerial,
  MaxMoves, MaxTries, MaxRebuilds \* bounds on cable moves, installations and file changes

ASSUME InstallAssumption ==
  /\ Silent \subseteq Devices /\ Legacy \subseteq Devices
  /\ {Bad, "old", "torn"} \cap Images = {} /\ Bad \notin {"old", "torn"}
  /\ NoSerial \notin Devices /\ Ports \cap Devices = {} /\ "out" \notin Ports
  /\ MaxMoves \in Nat /\ MaxTries \in Nat /\ MaxRebuilds \in Nat

VARIABLES
  place,     \* port of each device, or "out"
  mode,      \* "app", "window" (boot window), "boot" (stays in the bootloader), or
             \* on its way: "entering" the bootloader, "leaving" it
  app,       \* application section: "old", "torn", or contents of a file
  file,      \* contents of the chosen file
  board,     \* board_connected
  chosen,    \* selected port name and selected_device_serial
  bootSeen,  \* bootloader_present
  pc,        \* where install_firmware_file is
  cancelled, \* progress.wasCanceled()
  found,     \* boot_device
  legacyOk,  \* allow_legacy_bootloader
  avrdude,   \* the process: its state, device and image
  wanted,    \* history: the device that obeyed BOOTLOAD, or NoSerial
  result,    \* history: how the last installation ended
  moves, tries, rebuilds

usb == <<place, mode, app>>
session == <<board, chosen, bootSeen>>
attempt == <<cancelled, found, legacyOk, avrdude, wanted>>
bounds == <<moves, tries, rebuilds>>
vars == <<usb, file, session, pc, attempt, result, bounds>>

Serial(d) == IF d \in Silent THEN NoSerial ELSE d
Plugged == {d \in Devices : place[d] # "out"}
Booting == {d \in Plugged : mode[d] \in {"window", "boot"}}
Running == {d \in Plugged : mode[d] = "app"}

\* The operating system names a port after the serial number, without one after
\* the place; application and bootloader have different products, hence names.
Product(d) == IF mode[d] = "app" THEN "0x2044" ELSE "0x204A"
Name(d) == <<Product(d), IF d \in Silent THEN place[d] ELSE d>>
PortOf(d) == [name |-> Name(d), serial |-> Serial(d)]
NoPort == [name |-> <<>>, serial |-> NoSerial]
Behind(name) == {d \in Booting \cup Running : Name(d) = name}

Sections == Images \cup {Bad, "old", "torn"}
Valid(contents) == contents # "torn" /\ contents # Bad
NoProcess == [pc |-> "off", on |-> NoSerial, image |-> Bad]
Working == {"erase", "write", "verify"}
Busy == pc \notin {"ready", "confirm"}

Init ==
  /\ place \in [Devices -> Ports \cup {"out"}]
  /\ \A d, e \in Devices : d # e => place[d] = "out" \/ place[d] # place[e]
  /\ mode = [d \in Devices |-> "app"] /\ app = [d \in Devices |-> "old"]
  /\ file \in Images \cup {Bad}
  /\ board = FALSE /\ chosen = NoPort /\ bootSeen = FALSE
  /\ pc = "ready" /\ cancelled = FALSE /\ found = NoPort /\ legacyOk = FALSE
  /\ avrdude = NoProcess /\ wanted = NoSerial /\ result = "none"
  /\ moves = 0 /\ tries = 0 /\ rebuilds = 0

-----------------------------------------------------------------------------
\* Cables and cartridges.  One that is plugged in passes through its boot window;
\* avrdude loses one that is pulled.
Unplug(d) ==
  /\ d \in Plugged /\ moves < MaxMoves
  /\ place' = [place EXCEPT ![d] = "out"]
  /\ avrdude' = IF avrdude.on = d /\ avrdude.pc \in Working
                THEN [avrdude EXCEPT !.pc = "lost"] ELSE avrdude
  /\ moves' = moves + 1
  /\ UNCHANGED <<mode, app, file, session, pc, cancelled, found, legacyOk, wanted, result,
                 tries, rebuilds>>

Plug(d) ==
  /\ d \notin Plugged /\ moves < MaxMoves
  /\ \E p \in Ports \ {place[e] : e \in Devices} : place' = [place EXCEPT ![d] = p]
  /\ mode' = [mode EXCEPT ![d] = "window"]
  /\ moves' = moves + 1
  /\ UNCHANGED <<app, file, session, pc, attempt, result, tries, rebuilds>>

\* The boot window closes, or a device appears again after it has reset; an invalid
\* application keeps the bootloader.
StartedAnyhow(d) == "app"   \* mutant
Started(d) == IF Valid(app[d]) THEN "app" ELSE "boot"
WindowEnds(d) ==
  /\ d \in Plugged /\ mode[d] \in {"window", "leaving"}
  /\ mode' = [mode EXCEPT ![d] = Started(d)]
  /\ UNCHANGED <<place, app, file, session, pc, attempt, result, bounds>>
Enters(d) ==
  /\ d \in Plugged /\ mode[d] = "entering"
  /\ mode' = [mode EXCEPT ![d] = "boot"]
  /\ UNCHANGED <<place, app, file, session, pc, attempt, result, bounds>>

\* Somebody builds the firmware again.
Rebuild ==
  /\ rebuilds < MaxRebuilds
  /\ file' \in (Images \cup {Bad}) \ {file}
  /\ rebuilds' = rebuilds + 1
  /\ UNCHANGED <<usb, session, pc, attempt, result, moves, tries>>

-----------------------------------------------------------------------------
\* scan_com_devices, which drops the connection first: no cartridge to select at
\* once, or one that select_com_port cannot connect to.
Scan ==
  /\ pc = "ready"
  /\ board' = FALSE /\ chosen' = NoPort
  /\ \/ bootSeen' = (Booting # {})
     \/ Running # {} /\ bootSeen' = FALSE
  /\ UNCHANGED <<usb, file, pc, attempt, result, bounds>>

\* scan_com_devices and select_com_port, for a cartridge that answers.
Connect(d) ==
  /\ pc = "ready" /\ d \in Running
  /\ board' = TRUE /\ chosen' = PortOf(d) /\ bootSeen' = (Booting # {})
  /\ UNCHANGED <<usb, file, pc, attempt, result, bounds>>

\* invalidate_connection.
Invalidate ==
  /\ board' = FALSE /\ chosen' = NoPort /\ bootSeen' = FALSE

\* check_device_presence, once a second unless an operation is busy.
StillThere == \E d \in Behind(chosen.name) : chosen.serial \in {NoSerial, Serial(d)}
Poll ==
  /\ ~Busy
  /\ IF board
     THEN IF StillThere THEN UNCHANGED session ELSE Invalidate
     ELSE bootSeen' = (Booting # {}) /\ UNCHANGED <<board, chosen>>
  /\ UNCHANGED <<usb, file, pc, attempt, result, bounds>>

-----------------------------------------------------------------------------
\* install_firmware_file, up to its confirmation: a file that does not validate
\* ends in a message.
Choose ==
  /\ pc = "ready" /\ (board \/ bootSeen) /\ tries < MaxTries
  /\ file \in Images
  /\ pc' = "confirm" /\ tries' = tries + 1
  /\ UNCHANGED <<usb, file, session, attempt, result, moves, rebuilds>>

Decline ==
  /\ pc = "confirm"
  /\ pc' = "ready"
  /\ UNCHANGED <<usb, file, session, attempt, result, bounds>>

Confirm ==
  /\ pc = "confirm"
  /\ pc' = "enter"
  /\ cancelled' = FALSE /\ found' = NoPort /\ legacyOk' = FALSE
  /\ avrdude' = NoProcess /\ wanted' = NoSerial
  /\ UNCHANGED <<usb, file, session, result, bounds>>

\* The progress dialog's button.
Cancel ==
  /\ pc \in {"enter", "wait", "upload"} /\ ~cancelled
  /\ cancelled' = TRUE
  /\ UNCHANGED <<usb, file, session, pc, found, legacyOk, avrdude, wanted, result, bounds>>

\* The handler at the end: the connection is gone, a message is shown.
Fails ==
  /\ Invalidate
  /\ pc' = "message" /\ result' = "failed"

\* The connected cartridge is told to enter its bootloader.  Its answer may be
\* lost; nothing may be behind the port any more.
EnterBootloader ==
  /\ pc = "enter" /\ board
  /\ \/ Booting = {} /\ \E d \in Behind(chosen.name) :
          /\ mode' = [mode EXCEPT ![d] = "entering"]
          /\ wanted' = d
          /\ \/ /\ pc' = "wait" /\ legacyOk' = TRUE
                /\ UNCHANGED <<session, result>>
             \/ Fails /\ UNCHANGED legacyOk
     \/ Fails /\ UNCHANGED <<mode, wanted, legacyOk>>
  /\ UNCHANGED <<place, app, file, cancelled, found, avrdude, bounds>>

\* Without a connection: the one device that is in its bootloader.
TakeBootloader ==
  /\ pc = "enter" /\ ~board
  /\ IF Cardinality(Booting) > 1 THEN Fails /\ UNCHANGED found
     ELSE /\ found' \in IF Booting = {} THEN {NoPort} ELSE {PortOf(d) : d \in Booting}
          /\ pc' = "found" /\ UNCHANGED <<session, result>>
  /\ UNCHANGED <<usb, file, cancelled, legacyOk, avrdude, wanted, bounds>>

\* One round of wait_for_cartridge_port(0x204A), or its end after 15 seconds.
WaitForBootloader ==
  /\ pc = "wait" /\ ~cancelled
  /\ \/ /\ Cardinality(Booting) = 1
        /\ found' \in {PortOf(d) : d \in Booting}
        /\ pc' = "found" /\ UNCHANGED <<session, result>>
     \/ Cardinality(Booting) > 1 /\ Fails /\ UNCHANGED found
  /\ UNCHANGED <<usb, file, cancelled, legacyOk, avrdude, wanted, bounds>>
WaitEnds ==
  /\ pc = "wait"
  /\ found' = NoPort /\ pc' = "found"
  /\ UNCHANGED <<usb, file, session, cancelled, legacyOk, avrdude, wanted, result, bounds>>

\* What is done with the device found.
NeverMismatch == FALSE   \* mutant
Mismatch ==
  /\ legacyOk
  /\ chosen.serial # NoSerial /\ found.serial # NoSerial /\ found.serial # chosen.serial
CheckFound ==
  /\ pc = "found"
  /\ IF Mismatch \/ cancelled \/ found = NoPort THEN Fails
     ELSE pc' = "identify" /\ UNCHANGED <<session, result>>
  /\ UNCHANGED <<usb, file, attempt, bounds>>

\* validate_bootloader_identity.  Its first byte cancels the boot window, whether the
\* answers that follow are the right ones or not; a port that does not open gets none.
Identifies(d, allow) == d \notin Legacy \/ allow
Identify ==
  /\ pc = "identify"
  /\ \/ \E d \in Behind(found.name) \cap Booting :
          /\ mode' = [mode EXCEPT ![d] = "boot"]
          /\ \/ Identifies(d, legacyOk) /\ pc' = "start" /\ UNCHANGED <<session, result>>
             \/ Fails
     \/ Fails /\ UNCHANGED mode
  /\ UNCHANGED <<place, app, file, attempt, bounds>>

StartAvrdude ==
  /\ pc = "start"
  /\ \/ avrdude' = [NoProcess EXCEPT !.pc = "open"] /\ pc' = "upload" /\ UNCHANGED <<session, result>>
     \/ Fails /\ UNCHANGED avrdude
  /\ UNCHANGED <<usb, file, cancelled, found, legacyOk, wanted, bounds>>

-----------------------------------------------------------------------------
\* avrdude, on its own: it reads the file, opens the port by its name, erases,
\* writes and verifies, and restarts the device.  Any step may fail.
OnAvrdude == UNCHANGED <<place, file, session, pc, cancelled, found, legacyOk, wanted, result, bounds>>
Reaches == avrdude.on \in Plugged /\ mode[avrdude.on] = "boot"

AvrdudeOpens ==
  /\ avrdude.pc = "open"
  /\ \E d \in Behind(found.name) \cap Booting :
       /\ avrdude' = [pc |-> "erase", on |-> d, image |-> file]
       /\ mode' = [mode EXCEPT ![d] = "boot"]
  /\ OnAvrdude /\ UNCHANGED app
AvrdudeErases ==
  /\ avrdude.pc = "erase" /\ Reaches
  /\ app' = [app EXCEPT ![avrdude.on] = "torn"]
  /\ avrdude' = [avrdude EXCEPT !.pc = "write"]
  /\ OnAvrdude /\ UNCHANGED mode
AvrdudeWrites ==
  /\ avrdude.pc = "write" /\ Reaches
  /\ app' = [app EXCEPT ![avrdude.on] = avrdude.image]
  /\ avrdude' = [avrdude EXCEPT !.pc = "verify"]
  /\ OnAvrdude /\ UNCHANGED mode
AvrdudeEnds ==
  /\ avrdude.pc = "verify" /\ Reaches
  /\ mode' = [mode EXCEPT ![avrdude.on] = "leaving"]
  /\ avrdude' = [avrdude EXCEPT !.pc = "ok"]
  /\ OnAvrdude /\ UNCHANGED app

\* What a device does that avrdude leaves in the middle of a transfer, or between two.
Left == IF Reaches /\ avrdude.pc \in Working
        THEN {mode, [mode EXCEPT ![avrdude.on] = "window"]} ELSE {mode}
AvrdudeFails ==
  /\ avrdude.pc \in Working \cup {"open", "lost"}
  /\ avrdude' = [avrdude EXCEPT !.pc = "error"]
  /\ mode' \in Left
  /\ OnAvrdude /\ UNCHANGED app

AvrdudeStep ==
  \/ AvrdudeOpens \/ AvrdudeErases \/ AvrdudeWrites \/ AvrdudeEnds \/ AvrdudeFails

\* One round of the upload loop: cancelled, timed out, or the process has ended.
Killed == avrdude' = [avrdude EXCEPT !.pc = "killed"] /\ mode' \in Left
UploadCancelled ==
  /\ pc = "upload" /\ cancelled
  /\ Killed /\ Fails
  /\ UNCHANGED <<place, app, file, cancelled, found, legacyOk, wanted, bounds>>
NeverTimesOut == FALSE /\ UNCHANGED vars   \* mutant
UploadTimesOut ==
  /\ pc = "upload" /\ avrdude.pc \notin {"ok", "error"}
  /\ Killed /\ Fails
  /\ UNCHANGED <<place, app, file, cancelled, found, legacyOk, wanted, bounds>>
EndsAnyhow == avrdude.pc \in {"ok", "error"}   \* mutant
Succeeded == avrdude.pc = "ok"
UploadEnds ==
  /\ pc = "upload" /\ ~cancelled /\ avrdude.pc \in {"ok", "error"}
  /\ IF Succeeded THEN pc' = "reappear" /\ UNCHANGED <<session, result>> ELSE Fails
  /\ UNCHANGED <<usb, file, attempt, bounds>>

\* One round of wait_for_cartridge_port(0x2044), or its end after 15 seconds.
Installed == Invalidate /\ pc' = "message" /\ result' = "installed"
Reappear ==
  /\ pc = "reappear"
  /\ IF found.serial = NoSerial /\ Cardinality(Running) > 1 THEN Fails ELSE Installed
  /\ UNCHANGED <<usb, file, attempt, bounds>>

\* The user has read the message.
Dismiss ==
  /\ pc = "message"
  /\ pc' = "ready"
  /\ UNCHANGED <<usb, file, session, attempt, result, bounds>>

Cables == (\E d \in Devices : Unplug(d) \/ Plug(d)) \/ Rebuild
User == (\E d \in Devices : Connect(d)) \/ Scan \/ Choose \/ Decline \/ Confirm \/ Cancel
Install ==
  \/ EnterBootloader \/ TakeBootloader \/ WaitForBootloader \/ WaitEnds \/ CheckFound
  \/ Identify \/ StartAvrdude \/ UploadCancelled \/ UploadTimesOut \/ UploadEnds
  \/ Reappear \/ Dismiss
Next == Cables \/ (\E d \in Devices : WindowEnds(d) \/ Enters(d)) \/ Poll \/ User \/ Install \/ AvrdudeStep

Spec == Init /\ [][Next]_vars

\* The GUI thread runs and its clocks end every wait; the timer polls; the user
\* reads messages.  Nothing is assumed of avrdude or of the devices.
FairSpec ==
  /\ Spec
  /\ WF_vars(Install) /\ WF_vars(Poll)

-----------------------------------------------------------------------------
\* avrdude has a device only while an upload runs or after it
\* (mainwindow.cpp:730-760).
TypeOK ==
  /\ place \in [Devices -> Ports \cup {"out"}]
  /\ mode \in [Devices -> {"app", "window", "boot", "entering", "leaving"}]
  /\ app \in [Devices -> Sections]
  /\ file \in Images \cup {Bad}
  /\ board \in BOOLEAN /\ bootSeen \in BOOLEAN /\ cancelled \in BOOLEAN /\ legacyOk \in BOOLEAN
  /\ pc \in {"ready", "confirm", "enter", "wait", "found", "identify", "start", "upload",
             "reappear", "message"}
  /\ avrdude.pc \in Working \cup {"off", "open", "lost", "ok", "error", "killed"}
  /\ avrdude.pc \in Working \cup {"open", "lost"} => pc = "upload"
  /\ avrdude.on \in Devices \cup {NoSerial} /\ wanted \in Devices \cup {NoSerial}
  /\ result \in {"none", "failed", "installed"}

\* A cartridge that was sent to its bootloader for an upload is the one that is
\* programmed, whatever else appears or passes through its boot window meanwhile, as
\* far as serial numbers are reported (mainwindow.cpp:706-717).
SelectedIsProgrammed ==
  avrdude.pc \in {"erase", "write", "verify", "ok"} /\ wanted \notin {NoSerial} \cup Silent =>
    avrdude.on \in {wanted} \cup Silent

\* "AVRDUDE programmed and verified the image" is only said when a device holds
\* all of what avrdude read, and what does not start is never left running
\* (mainwindow.cpp:762-790).
ReportIsTrue ==
  /\ pc = "message" /\ result = "installed" =>
       \E d \in Devices : avrdude.on = d /\ app[d] = avrdude.image
  /\ \A d \in Running : Valid(app[d])

\* Every cartridge behaves as its bootloader promises (CartridgeModes, which Bootloader
\* implements): Studio and avrdude ask nothing else of it than what it does, and count
\* on nothing it does not do (mainwindow.cpp:663-760).
Cartridge(d) == INSTANCE CartridgeModes WITH
  state <- mode[d], contents <- app[d],
  Contents <- Sections, Whole <- {c \in Sections : Valid(c)}
CartridgesBehave ==
  /\ \A d \in Devices : Cartridge(d)!AbsInit
  /\ [][\A d \in Devices : [Cartridge(d)!AbsNext]_<<mode[d], app[d]>>]_usb

\* An installation ends, however avrdude and the bus behave, and while a cartridge
\* is in its bootloader and nothing is connected the next one is offered
\* (mainwindow.cpp:539-541, 746-759).
InstallEnds ==
  /\ pc = "enter" ~> pc = "message"
  /\ Booting # {} /\ ~board /\ pc = "ready" ~> bootSeen \/ Booting = {} \/ board \/ Busy

\* "Firmware installation failed. The protected USB bootloader can be used to
\* retry." (mainwindow.cpp:797): a cartridge alone in its bootloader is accepted.
RetryCanIdentify ==
  \A d \in Devices :
    pc = "ready" /\ result = "failed" /\ ~board /\ Booting = {d} => Identifies(d, board)
=============================================================================
