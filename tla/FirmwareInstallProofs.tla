------------------------ MODULE FirmwareInstallProofs ------------------------
(***************************************************************************)
(* Proofs about the installation of firmware, for any number of cartridges *)
(* and ports and any bounds on what happens to them.                       *)
(***************************************************************************)
EXTENDS FirmwareInstall, TLAPS

Products == {"0x2044", "0x204A"}
\* What the operating system says of a port, now or earlier.
PortRecords ==
  {NoPort}
  \cup {[name |-> <<p, d>>, serial |-> d] : p \in Products, d \in Devices \ Silent}
  \cup {[name |-> <<p, q>>, serial |-> NoSerial] : p \in Products, q \in Ports}

Processes ==
  [pc : Working \cup {"off", "open", "lost", "ok", "error", "killed"},
   on : Devices \cup {NoSerial}, image : Images \cup {Bad}]

Known == wanted \notin {NoSerial} \cup Silent
Waited == {"wait", "found", "identify", "start", "upload", "reappear"}
Chosen == {"identify", "start", "upload", "reappear"}

\* From BOOTLOAD on, the port that was selected belongs to the cartridge that
\* obeyed, and the bootloader that was found belongs to it or tells no serial number.
OnItsTrack ==
  /\ pc = "enter" => wanted = NoSerial
  /\ pc \in Waited /\ Known => legacyOk /\ chosen.serial = wanted
  /\ pc \in Chosen => found # NoPort /\ (Known => found.serial \in {NoSerial, wanted})

\* What avrdude has done so far.
UploadState ==
  /\ pc \in {"enter", "wait", "found", "identify", "start"} => avrdude.pc = "off"
  /\ avrdude.pc \in Working \cup {"ok"} => avrdude.on \in Devices
  /\ avrdude.pc \in {"verify", "ok"} => app[avrdude.on] = avrdude.image
  /\ pc = "reappear" => avrdude.pc = "ok"
  /\ pc = "message" /\ result = "installed" => avrdude.pc = "ok"

StartedIsValid == \A d \in Devices : mode[d] = "app" => Valid(app[d])

InstallInv ==
  /\ TypeOK
  /\ chosen \in PortRecords /\ found \in PortRecords /\ avrdude \in Processes
  /\ OnItsTrack /\ UploadState /\ StartedIsValid /\ SelectedIsProgrammed

USE DEF Working, Sections

LEMMA PortOfType ==
  ASSUME NEW d \in Devices, place[d] \in Ports
  PROVE  PortOf(d) \in PortRecords
BY DEF PortOf, PortRecords, Name, Product, Serial, Products

LEMMA NoPortType == NoPort \in PortRecords
BY DEF PortRecords

\* A cartridge that tells its serial number is behind a port that carries it.
LEMMA NameTellsSerial ==
  ASSUME NEW r \in PortRecords, NEW d \in Devices \ Silent, Name(d) = r.name
  PROVE  r.serial = d
<1>1. r.name = <<Product(d), d>>
  BY DEF Name
<1>2. d \notin Ports
  BY InstallAssumption
<1> QED
  BY <1>1, <1>2 DEF PortRecords, NoPort

LEMMA PluggedPlace ==
  ASSUME InstallInv, NEW d \in Plugged
  PROVE  d \in Devices /\ place[d] \in Ports
BY DEF InstallInv, TypeOK, Plugged

LEMMA InstallInit == Init => InstallInv
<1> SUFFICES ASSUME Init PROVE InstallInv
  OBVIOUS
<1>1. TypeOK
  BY DEF Init, TypeOK, NoProcess
<1>2. chosen \in PortRecords /\ found \in PortRecords /\ avrdude \in Processes
  BY NoPortType DEF Init, NoProcess, Processes
<1>3. StartedIsValid
  BY InstallAssumption DEF Init, StartedIsValid, Valid
<1> QED
  BY <1>1, <1>2, <1>3 DEF Init, InstallInv, OnItsTrack, UploadState, SelectedIsProgrammed,
    NoProcess, Waited, Chosen

-----------------------------------------------------------------------------
\* Steps of cables, cartridges and the file.
LEMMA UnplugKeeps ==
  ASSUME InstallInv, NEW d \in Devices, Unplug(d) PROVE InstallInv'
<1>1. /\ place' \in [Devices -> Ports \cup {"out"}]
      /\ avrdude' \in Processes /\ avrdude'.on = avrdude.on /\ avrdude'.image = avrdude.image
      /\ avrdude'.pc = avrdude.pc \/ (avrdude.pc \in Working /\ avrdude'.pc = "lost")
  BY DEF InstallInv, TypeOK, Unplug, Processes
<1>2. TypeOK'
  BY <1>1 DEF InstallInv, TypeOK, Unplug, session, Processes
<1>3. UploadState' /\ SelectedIsProgrammed'
  BY <1>1 DEF InstallInv, Unplug, UploadState, SelectedIsProgrammed
<1> QED
  BY <1>1, <1>2, <1>3 DEF InstallInv, Unplug, session, OnItsTrack, Known, StartedIsValid

LEMMA PlugKeeps ==
  ASSUME InstallInv, NEW d \in Devices, Plug(d) PROVE InstallInv'
<1>1. TypeOK'
  BY DEF InstallInv, TypeOK, Plug, session, attempt
<1>2. StartedIsValid'
  BY DEF InstallInv, TypeOK, Plug, StartedIsValid
<1> QED
  BY <1>1, <1>2 DEF InstallInv, Plug, session, attempt, OnItsTrack, Known, UploadState,
    SelectedIsProgrammed

LEMMA StartedDevicesKeep ==
  ASSUME InstallInv, NEW d \in Devices, WindowEnds(d) \/ Enters(d) PROVE InstallInv'
<1>1. TypeOK'
  BY DEF InstallInv, TypeOK, WindowEnds, Enters, Started, session, attempt
<1>2. StartedIsValid'
  BY DEF InstallInv, TypeOK, WindowEnds, Enters, Started, StartedIsValid
<1> QED
  BY <1>1, <1>2 DEF InstallInv, WindowEnds, Enters, session, attempt, OnItsTrack, Known,
    UploadState, SelectedIsProgrammed

LEMMA RebuildKeeps == ASSUME InstallInv, Rebuild PROVE InstallInv'
<1>1. TypeOK'
  BY DEF InstallInv, TypeOK, Rebuild, usb, session, attempt
<1> QED
  BY <1>1 DEF InstallInv, Rebuild, usb, session, attempt, OnItsTrack, Known, UploadState,
    StartedIsValid, SelectedIsProgrammed
-----------------------------------------------------------------------------
\* Steps of the session and of the user.
LEMMA InvalidateType ==
  ASSUME Invalidate
  PROVE  board' \in BOOLEAN /\ bootSeen' \in BOOLEAN /\ chosen' \in PortRecords
BY NoPortType DEF Invalidate

LEMMA ConnectKeeps ==
  ASSUME InstallInv, NEW d \in Devices, Connect(d) PROVE InstallInv'
<1>1. chosen' \in PortRecords
  BY PluggedPlace, PortOfType DEF Connect, Running
<1>2. TypeOK'
  BY DEF InstallInv, TypeOK, Connect, usb, attempt
<1> QED
  BY <1>1, <1>2 DEF InstallInv, Connect, usb, attempt, OnItsTrack, Known, UploadState,
    StartedIsValid, SelectedIsProgrammed, Waited, Chosen

LEMMA ScanKeeps == ASSUME InstallInv, Scan PROVE InstallInv'
<1>1. board' \in BOOLEAN /\ bootSeen' \in BOOLEAN /\ chosen' \in PortRecords
  BY NoPortType DEF Scan
<1>2. TypeOK'
  BY <1>1 DEF InstallInv, TypeOK, Scan, usb, attempt
<1> QED
  BY <1>1, <1>2 DEF InstallInv, Scan, usb, attempt, OnItsTrack, Known, UploadState,
    StartedIsValid, SelectedIsProgrammed, Waited, Chosen

LEMMA PollKeeps == ASSUME InstallInv, Poll PROVE InstallInv'
<1>1. board' \in BOOLEAN /\ bootSeen' \in BOOLEAN /\ chosen' \in PortRecords
  BY InvalidateType DEF InstallInv, TypeOK, Poll, session
<1>2. TypeOK'
  BY <1>1 DEF InstallInv, TypeOK, Poll, usb, attempt
<1> QED
  BY <1>1, <1>2 DEF InstallInv, Poll, Busy, usb, attempt, OnItsTrack, Known, UploadState,
    StartedIsValid, SelectedIsProgrammed, Waited, Chosen

LEMMA UserKeeps ==
  ASSUME InstallInv, Choose \/ Decline \/ Cancel \/ Dismiss PROVE InstallInv'
<1>1. /\ UNCHANGED <<usb, file, session, found, legacyOk, avrdude, wanted, result>>
      /\ cancelled' \in BOOLEAN
      /\ \/ pc' = pc
         \/ pc \in {"ready", "confirm", "message"} /\ pc' \in {"ready", "confirm"}
  BY DEF InstallInv, TypeOK, Choose, Decline, Cancel, Dismiss, attempt
<1>2. TypeOK'
  BY <1>1 DEF InstallInv, TypeOK, usb, session
<1> QED
  BY <1>1, <1>2 DEF InstallInv, usb, session, OnItsTrack, Known, UploadState,
    StartedIsValid, SelectedIsProgrammed, Waited, Chosen

LEMMA ConfirmKeeps == ASSUME InstallInv, Confirm PROVE InstallInv'
<1>1. TypeOK'
  BY DEF InstallInv, TypeOK, Confirm, usb, session, NoProcess
<1>2. avrdude' \in Processes /\ found' \in PortRecords
  BY NoPortType DEF Confirm, NoProcess, Processes
<1> QED
  BY <1>1, <1>2 DEF InstallInv, Confirm, NoProcess, usb, session, OnItsTrack, Known,
    UploadState, StartedIsValid, SelectedIsProgrammed, Waited, Chosen

-----------------------------------------------------------------------------
\* Steps of install_firmware_file.  One that fails claims nothing.
LEMMA FailsKeeps ==
  ASSUME InstallInv, Fails, UNCHANGED <<place, app, file, cancelled>>,
         mode' \in [Devices -> {"app", "window", "boot", "entering", "leaving"}],
         \A d \in Devices : mode'[d] = "app" => mode[d] = "app",
         found' \in PortRecords, legacyOk' \in BOOLEAN, avrdude' \in Processes,
         avrdude'.pc \notin Working \cup {"open", "lost"},
         avrdude'.pc = "ok" => UNCHANGED <<avrdude, wanted>> \/ wanted' = NoSerial,
         avrdude'.pc = "ok" => UNCHANGED avrdude,
         wanted' \in Devices \cup {NoSerial}
  PROVE  InstallInv'
<1>1. TypeOK'
  BY InvalidateType DEF InstallInv, TypeOK, Fails, Processes
<1>2. OnItsTrack' /\ UploadState' /\ SelectedIsProgrammed'
  BY DEF InstallInv, Fails, OnItsTrack, Known, UploadState, SelectedIsProgrammed, Waited, Chosen
<1>3. StartedIsValid'
  BY DEF InstallInv, StartedIsValid, Valid
<1> QED
  BY <1>1, <1>2, <1>3, InvalidateType DEF InstallInv, Fails

LEMMA EnterBootloaderKeeps == ASSUME InstallInv, EnterBootloader PROVE InstallInv'
<1>1. pc = "enter" /\ board /\ avrdude.pc = "off"
  BY DEF EnterBootloader, InstallInv, UploadState
<1>2. CASE Fails /\ UNCHANGED <<mode, wanted, legacyOk>>
  BY <1>1, <1>2, FailsKeeps DEF EnterBootloader, InstallInv, TypeOK
<1>3. ASSUME NEW d \in Behind(chosen.name), mode' = [mode EXCEPT ![d] = "entering"],
             wanted' = d, UNCHANGED <<place, app, file, cancelled, found, avrdude>>
      PROVE  /\ d \in Devices
             /\ mode' \in [Devices -> {"app", "window", "boot", "entering", "leaving"}]
             /\ \A e \in Devices : mode'[e] = "app" => mode[e] = "app"
             /\ d \notin Silent => chosen.serial = d
  <2>1. d \in Devices /\ Name(d) = chosen.name
    BY <1>3 DEF Behind, Booting, Running, Plugged
  <2>2. d \notin Silent => chosen.serial = d
    BY <2>1, NameTellsSerial DEF InstallInv
  <2> QED
    BY <1>3, <2>1, <2>2 DEF InstallInv, TypeOK
<1>4. ASSUME NEW d \in Behind(chosen.name), mode' = [mode EXCEPT ![d] = "entering"],
             wanted' = d, UNCHANGED <<place, app, file, cancelled, found, avrdude>>,
             Fails, UNCHANGED legacyOk
      PROVE  InstallInv'
  BY <1>1, <1>3, <1>4, FailsKeeps DEF InstallInv, TypeOK
<1>5. ASSUME NEW d \in Behind(chosen.name), mode' = [mode EXCEPT ![d] = "entering"],
             wanted' = d, UNCHANGED <<place, app, file, cancelled, found, avrdude>>,
             pc' = "wait", legacyOk' = TRUE, UNCHANGED <<session, result>>
      PROVE  InstallInv'
  <2>1. TypeOK'
    BY <1>1, <1>3, <1>5 DEF InstallInv, TypeOK, session
  <2>2. StartedIsValid'
    BY <1>3, <1>5 DEF InstallInv, StartedIsValid, Valid
  <2> QED
    BY <1>1, <1>3, <1>5, <2>1, <2>2 DEF InstallInv, session, OnItsTrack, Known, UploadState,
      SelectedIsProgrammed, Waited, Chosen
<1> QED
  BY <1>2, <1>4, <1>5 DEF EnterBootloader

LEMMA BootPortType == \A d \in Booting : InstallInv => PortOf(d) \in PortRecords
BY PluggedPlace, PortOfType DEF Booting

LEMMA FindKeeps ==
  ASSUME InstallInv, TakeBootloader \/ WaitForBootloader \/ WaitEnds PROVE InstallInv'
<1>1. CASE Fails /\ UNCHANGED <<usb, file, cancelled, legacyOk, avrdude, wanted, found>>
  <2>1. avrdude.pc = "off"
    BY DEF TakeBootloader, WaitForBootloader, WaitEnds, InstallInv, UploadState
  <2> QED
    BY <1>1, <2>1, FailsKeeps DEF usb, InstallInv, TypeOK
<1>2. CASE /\ pc' = "found" /\ pc \in {"enter", "wait"} /\ found' \in PortRecords
           /\ UNCHANGED <<usb, file, session, cancelled, legacyOk, avrdude, wanted, result>>
  <2>1. TypeOK'
    BY <1>2 DEF InstallInv, TypeOK, usb, session
  <2> QED
    BY <1>2, <2>1 DEF InstallInv, usb, session, OnItsTrack, Known, UploadState, StartedIsValid,
      SelectedIsProgrammed, Waited, Chosen
<1> QED
  BY <1>1, <1>2, BootPortType, NoPortType DEF TakeBootloader, WaitForBootloader, WaitEnds

LEMMA CheckFoundKeeps == ASSUME InstallInv, CheckFound PROVE InstallInv'
<1>1. CASE Fails
  <2>1. avrdude.pc = "off"
    BY DEF CheckFound, InstallInv, UploadState
  <2> QED
    BY <1>1, <2>1, FailsKeeps DEF CheckFound, usb, attempt, InstallInv, TypeOK
<1>2. CASE pc' = "identify" /\ ~Mismatch /\ found # NoPort /\ UNCHANGED <<session, result>>
  <2>1. TypeOK'
    BY <1>2 DEF CheckFound, InstallInv, TypeOK, usb, session, attempt
  <2>2. Known => found.serial \in {NoSerial, wanted}
    BY <1>2 DEF CheckFound, InstallInv, TypeOK, OnItsTrack, Known, Mismatch, Waited
  <2> QED
    BY <1>2, <2>1, <2>2 DEF CheckFound, InstallInv, usb, session, attempt, OnItsTrack, Known,
      UploadState, StartedIsValid, SelectedIsProgrammed, Waited, Chosen
<1> QED
  BY <1>1, <1>2 DEF CheckFound
LEMMA IdentifyKeeps == ASSUME InstallInv, Identify PROVE InstallInv'
<1>1. pc = "identify" /\ avrdude.pc = "off"
  BY DEF Identify, InstallInv, UploadState
<1>2. /\ UNCHANGED <<place, app, file, cancelled, found, legacyOk, avrdude, wanted>>
      /\ mode' \in [Devices -> {"app", "window", "boot", "entering", "leaving"}]
      /\ \A d \in Devices : mode'[d] = "app" => mode[d] = "app"
      /\ Fails \/ (pc' = "start" /\ UNCHANGED <<session, result>>)
  BY DEF Identify, attempt, InstallInv, TypeOK
<1>3. CASE Fails
  BY <1>1, <1>2, <1>3, FailsKeeps DEF InstallInv, TypeOK
<1>4. CASE pc' = "start" /\ UNCHANGED <<session, result>>
  <2>1. TypeOK'
    BY <1>1, <1>2, <1>4 DEF InstallInv, TypeOK, session
  <2> QED
    BY <1>1, <1>2, <1>4, <2>1 DEF InstallInv, session, OnItsTrack, Known, UploadState,
      StartedIsValid, Valid, SelectedIsProgrammed, Waited, Chosen
<1> QED
  BY <1>2, <1>3, <1>4

LEMMA StartAvrdudeKeeps == ASSUME InstallInv, StartAvrdude PROVE InstallInv'
<1>1. pc = "start" /\ avrdude.pc = "off"
  BY DEF StartAvrdude, InstallInv, UploadState
<1>2. CASE Fails /\ UNCHANGED avrdude
  BY <1>1, <1>2, FailsKeeps DEF StartAvrdude, usb, InstallInv, TypeOK
<1>3. CASE avrdude' = [NoProcess EXCEPT !.pc = "open"] /\ pc' = "upload" /\ UNCHANGED <<session, result>>
  <2>1. avrdude' \in Processes /\ avrdude'.pc = "open"
    BY <1>3 DEF NoProcess, Processes
  <2>2. TypeOK'
    BY <1>1, <1>3, <2>1 DEF StartAvrdude, InstallInv, TypeOK, usb, session, Processes
  <2> QED
    BY <1>1, <1>3, <2>1, <2>2 DEF StartAvrdude, InstallInv, usb, session, OnItsTrack, Known,
      UploadState, StartedIsValid, SelectedIsProgrammed, Waited, Chosen
<1> QED
  BY <1>2, <1>3 DEF StartAvrdude

\* The upload loop and the end.
LEMMA LeftType ==
  ASSUME InstallInv, mode' \in Left
  PROVE  /\ mode' \in [Devices -> {"app", "window", "boot", "entering", "leaving"}]
         /\ \A d \in Devices : mode'[d] = "app" => mode[d] = "app"
BY DEF InstallInv, TypeOK, Left

LEMMA KilledKeeps ==
  ASSUME InstallInv, UploadCancelled \/ UploadTimesOut PROVE InstallInv'
<1>1. avrdude' \in Processes /\ avrdude'.pc = "killed"
  BY DEF UploadCancelled, UploadTimesOut, Killed, InstallInv, Processes
<1>2. Fails /\ mode' \in Left /\ UNCHANGED <<place, app, file, cancelled, found, legacyOk, wanted>>
  BY DEF UploadCancelled, UploadTimesOut, Killed
<1> QED
  BY <1>1, <1>2, LeftType, FailsKeeps DEF InstallInv, TypeOK

LEMMA UploadEndsKeeps == ASSUME InstallInv, UploadEnds PROVE InstallInv'
<1>1. CASE Fails
  BY <1>1, FailsKeeps DEF UploadEnds, usb, attempt, InstallInv, TypeOK
<1>2. CASE Succeeded /\ pc' = "reappear" /\ UNCHANGED <<session, result>>
  <2>1. TypeOK'
    BY <1>2 DEF UploadEnds, Succeeded, InstallInv, TypeOK, usb, session, attempt
  <2> QED
    BY <1>2, <2>1 DEF UploadEnds, Succeeded, InstallInv, usb, session, attempt, OnItsTrack,
      Known, UploadState, StartedIsValid, SelectedIsProgrammed, Waited, Chosen
<1> QED
  BY <1>1, <1>2 DEF UploadEnds

LEMMA ReappearKeeps == ASSUME InstallInv, Reappear PROVE InstallInv'
<1>1. pc = "reappear" /\ avrdude.pc = "ok" /\ UNCHANGED <<usb, file, attempt>>
  BY DEF Reappear, InstallInv, UploadState
<1>2. CASE Fails
  BY <1>1, <1>2, FailsKeeps DEF usb, attempt, InstallInv, TypeOK
<1>3. CASE Installed
  <2>1. TypeOK'
    BY <1>1, <1>3, InvalidateType DEF Installed, InstallInv, TypeOK, usb, attempt
  <2> QED
    BY <1>1, <1>3, <2>1, InvalidateType DEF Installed, InstallInv, usb, attempt, OnItsTrack,
      Known, UploadState, StartedIsValid, SelectedIsProgrammed, Waited, Chosen
<1> QED
  BY <1>2, <1>3 DEF Reappear

-----------------------------------------------------------------------------
\* Steps of avrdude.
LEMMA AvrdudeOpensKeeps == ASSUME InstallInv, AvrdudeOpens PROVE InstallInv'
<1>1. pc = "upload" /\ avrdude.pc = "open"
  BY DEF AvrdudeOpens, InstallInv, TypeOK
<1>2. PICK d \in Behind(found.name) \cap Booting :
        /\ avrdude' = [pc |-> "erase", on |-> d, image |-> file]
        /\ mode' = [mode EXCEPT ![d] = "boot"]
  BY DEF AvrdudeOpens
<1>3. d \in Devices /\ Name(d) = found.name
  BY DEF Behind, Booting, Plugged
<1>4. d \notin Silent => found.serial = d
  BY <1>3, NameTellsSerial DEF InstallInv
<1>5. Known => d \in {wanted} \cup Silent
  BY <1>1, <1>3, <1>4, InstallAssumption DEF InstallInv, OnItsTrack, Chosen
<1>6. avrdude' \in Processes
  BY <1>2, <1>3 DEF InstallInv, TypeOK, Processes
<1>7. /\ mode' \in [Devices -> {"app", "window", "boot", "entering", "leaving"}]
      /\ \A e \in Devices : mode'[e] = "app" => mode[e] = "app"
  BY <1>2, <1>3 DEF InstallInv, TypeOK
<1>8. TypeOK'
  BY <1>1, <1>2, <1>3, <1>7 DEF AvrdudeOpens, OnAvrdude, InstallInv, TypeOK, session
<1> QED
  BY <1>1, <1>2, <1>3, <1>5, <1>6, <1>7, <1>8 DEF AvrdudeOpens, OnAvrdude, InstallInv,
    session, OnItsTrack, Known, UploadState, StartedIsValid, Valid, SelectedIsProgrammed

\* Nothing but the application section of the device it has open changes.
LEMMA AvrdudeWorksKeeps ==
  ASSUME InstallInv, AvrdudeErases \/ AvrdudeWrites \/ AvrdudeEnds PROVE InstallInv'
<1> DEFINE d == avrdude.on
<1>1. /\ pc = "upload" /\ avrdude.pc \in Working /\ d \in Devices /\ mode[d] = "boot"
  BY DEF AvrdudeErases, AvrdudeWrites, AvrdudeEnds, Reaches, InstallInv, TypeOK, UploadState
<1>2. /\ avrdude' \in Processes /\ avrdude'.on = d /\ avrdude'.image = avrdude.image
      /\ avrdude'.pc \in Working \cup {"ok"}
  BY DEF AvrdudeErases, AvrdudeWrites, AvrdudeEnds, InstallInv, Processes
<1>3. /\ mode' \in [Devices -> {"app", "window", "boot", "entering", "leaving"}]
      /\ \A e \in Devices : mode'[e] = "app" => mode[e] = "app" /\ e # d
  BY <1>1 DEF AvrdudeErases, AvrdudeWrites, AvrdudeEnds, InstallInv, TypeOK
<1>4. /\ app' \in [Devices -> Images \cup {Bad, "old", "torn"}]
      /\ \A e \in Devices : e # d => app'[e] = app[e]
      /\ avrdude'.pc \in {"verify", "ok"} => app'[d] = avrdude.image
  BY <1>1 DEF AvrdudeErases, AvrdudeWrites, AvrdudeEnds, InstallInv, TypeOK, UploadState, Processes
<1>5. UNCHANGED <<place, file, session, pc, cancelled, found, legacyOk, wanted, result>>
  BY DEF AvrdudeErases, AvrdudeWrites, AvrdudeEnds, OnAvrdude
<1>6. TypeOK'
  BY <1>1, <1>2, <1>3, <1>4, <1>5 DEF InstallInv, TypeOK, session, Processes
<1>7. StartedIsValid'
  BY <1>3, <1>4 DEF InstallInv, StartedIsValid, Valid
<1>8. OnItsTrack' /\ UploadState' /\ SelectedIsProgrammed'
  BY <1>1, <1>2, <1>4, <1>5 DEF InstallInv, session, OnItsTrack, Known, UploadState,
    SelectedIsProgrammed
<1> QED
  BY <1>2, <1>5, <1>6, <1>7, <1>8 DEF InstallInv, session

LEMMA AvrdudeFailsKeeps == ASSUME InstallInv, AvrdudeFails PROVE InstallInv'
<1>1. pc = "upload" /\ avrdude' \in Processes /\ avrdude'.pc = "error"
  BY DEF AvrdudeFails, InstallInv, TypeOK, Processes
<1>2. /\ UNCHANGED <<place, app, file, session, pc, cancelled, found, legacyOk, wanted, result>>
      /\ mode' \in Left
  BY DEF AvrdudeFails, OnAvrdude
<1>3. TypeOK'
  BY <1>1, <1>2, LeftType DEF InstallInv, TypeOK, session, Processes
<1> QED
  BY <1>1, <1>2, <1>3, LeftType DEF InstallInv, session, OnItsTrack, Known, UploadState,
    StartedIsValid, Valid, SelectedIsProgrammed

-----------------------------------------------------------------------------
\* The invariant: which cartridge the session is after, what avrdude has done, and
\* that only valid applications run (mainwindow.cpp:663-801).
THEOREM InstallInvariant == Spec => []InstallInv
<1>1. ASSUME InstallInv, [Next]_vars PROVE InstallInv'
  <2>1. CASE UNCHANGED vars
    BY <1>1, <2>1 DEF vars, usb, session, attempt, InstallInv, TypeOK, OnItsTrack, Known,
      UploadState, StartedIsValid, Valid, SelectedIsProgrammed
  <2>2. CASE Cables
    BY <1>1, <2>2, UnplugKeeps, PlugKeeps, RebuildKeeps DEF Cables
  <2>3. CASE \E d \in Devices : WindowEnds(d) \/ Enters(d)
    BY <1>1, <2>3, StartedDevicesKeep
  <2>4. CASE Poll \/ User
    BY <1>1, <2>4, PollKeeps, ConnectKeeps, ScanKeeps, UserKeeps, ConfirmKeeps DEF User
  <2>5. CASE Install
    BY <1>1, <2>5, EnterBootloaderKeeps, FindKeeps, CheckFoundKeeps, IdentifyKeeps,
      StartAvrdudeKeeps, KilledKeeps, UploadEndsKeeps, ReappearKeeps, UserKeeps DEF Install
  <2>6. CASE AvrdudeStep
    BY <1>1, <2>6, AvrdudeOpensKeeps, AvrdudeWorksKeeps, AvrdudeFailsKeeps DEF AvrdudeStep
  <2> QED
    BY <1>1, <2>1, <2>2, <2>3, <2>4, <2>5, <2>6 DEF Next
<1> QED
  BY InstallInit, <1>1, PTL DEF Spec

\* avrdude has a device only while an upload runs or after it
\* (mainwindow.cpp:730-760).
THEOREM InstallTypeCorrect == Spec => []TypeOK
<1>1. InstallInv => TypeOK
  BY DEF InstallInv
<1> QED
  BY <1>1, InstallInvariant, PTL

\* Whatever is plugged in, pulled out or passes through its boot window: the
\* cartridge that was sent to its bootloader is the one that is programmed, as far as
\* serial numbers are reported (mainwindow.cpp:706-717).
THEOREM TheSelectedIsProgrammed == Spec => []SelectedIsProgrammed
<1>1. InstallInv => SelectedIsProgrammed
  BY DEF InstallInv
<1> QED
  BY <1>1, InstallInvariant, PTL

\* Success is only reported when a device holds what avrdude read, and what does not
\* start never runs (mainwindow.cpp:762-790).
THEOREM InstallReportIsTrue == Spec => []ReportIsTrue
<1>1. InstallInv => ReportIsTrue
  BY DEF InstallInv, UploadState, StartedIsValid, ReportIsTrue, Running, Plugged
<1> QED
  BY <1>1, InstallInvariant, PTL

-----------------------------------------------------------------------------
\* What a step makes of one cartridge, in the terms of CartridgeModes.
Behaves(d) == Cartridge(d)!AbsNext \/ UNCHANGED <<mode[d], app[d]>>

LEMMA SectionType ==
  ASSUME InstallInv, NEW d \in Devices
  PROVE  app[d] \in Sections /\ mode[d] \in {"app", "window", "boot", "entering", "leaving"}
BY DEF InstallInv, TypeOK

LEMMA BehavesBy ==
  ASSUME NEW d \in Devices,
         \/ mode[d] \in {"window", "leaving"} /\ Valid(app[d]) /\ app[d] \in Sections
            /\ mode'[d] = "app" /\ app'[d] = app[d]
         \/ (mode[d] \in {"window", "entering"} \/ (mode[d] = "leaving" /\ ~Valid(app[d])))
            /\ mode'[d] = "boot" /\ app'[d] = app[d]
         \/ mode[d] = "app" /\ mode'[d] = "entering" /\ app'[d] = app[d]
         \/ mode[d] \in {"window", "boot"} /\ mode'[d] = "leaving" /\ app'[d] = app[d]
         \/ mode[d] = "boot" /\ mode'[d] = mode[d] /\ app'[d] \in Sections
         \/ mode'[d] = "window" /\ app'[d] = app[d] /\ app[d] \in Sections
         \/ mode'[d] = mode[d] /\ app'[d] = app[d]
  PROVE  Behaves(d)
BY DEF Behaves, Cartridge!AbsNext, Cartridge!AbsStart, Cartridge!AbsStay, Cartridge!AbsEnter,
  Cartridge!AbsLeave, Cartridge!AbsProgram, Cartridge!AbsReset
\* Steps that leave every cartridge alone.
QuietStep == UNCHANGED <<mode, app>>
LEMMA QuietBehaves == ASSUME NEW d \in Devices, QuietStep PROVE Behaves(d)
BY DEF QuietStep, Behaves

LEMMA CableBehaves ==
  ASSUME InstallInv, NEW d \in Devices, Cables \/ Poll \/ User PROVE Behaves(d)
<1>1. CASE QuietStep
  BY <1>1, QuietBehaves
<1>2. CASE \E e \in Devices : Plug(e)
  <2>1. PICK e \in Devices : Plug(e)
    BY <1>2
  <2>2. app' = app /\ mode' = [mode EXCEPT ![e] = "window"] /\ mode \in [Devices -> {"app", "window", "boot", "entering", "leaving"}]
    BY <2>1 DEF Plug, InstallInv, TypeOK
  <2> QED
    BY <2>2, SectionType, BehavesBy
<1> QED
  BY <1>1, <1>2 DEF Cables, Poll, User, Unplug, Rebuild, Connect, Scan, Choose, Decline, Confirm, Cancel,
    usb, QuietStep

\* The cartridge starts by itself, or is there again.
LEMMA StartBehaves ==
  ASSUME InstallInv, NEW d \in Devices, NEW e \in Devices, WindowEnds(e) \/ Enters(e)
  PROVE  Behaves(d)
<1>1. app' = app /\ mode \in [Devices -> {"app", "window", "boot", "entering", "leaving"}]
  BY DEF WindowEnds, Enters, InstallInv, TypeOK
<1>2. CASE d = e /\ WindowEnds(e)
  <2>1. mode[d] \in {"window", "leaving"} /\ mode'[d] = IF Valid(app[d]) THEN "app" ELSE "boot"
    BY <1>1, <1>2 DEF WindowEnds, Started
  <2> QED
    BY <1>1, <2>1, SectionType, BehavesBy
<1>3. CASE d = e /\ Enters(e)
  <2>1. mode[d] = "entering" /\ mode'[d] = "boot"
    BY <1>1, <1>3 DEF Enters
  <2> QED
    BY <1>1, <2>1, BehavesBy
<1>4. CASE d # e
  <2>1. mode'[d] = mode[d]
    BY <1>1, <1>4 DEF WindowEnds, Enters
  <2> QED
    BY <1>1, <2>1 DEF Behaves
<1> QED
  BY <1>2, <1>3, <1>4

\* Studio: only its two requests concern a cartridge, BOOTLOAD and the question who it
\* is; and what it leaves when it kills avrdude.
LEMMA LeftBehaves ==
  ASSUME InstallInv, NEW d \in Devices, mode' \in Left, app' = app PROVE Behaves(d)
<1>1. mode'[d] = mode[d] \/ mode'[d] = "window"
  BY DEF Left, InstallInv, TypeOK
<1> QED
  BY <1>1, SectionType, BehavesBy

LEMMA InstallStepBehaves ==
  ASSUME InstallInv, NEW d \in Devices, Install PROVE Behaves(d)
<1>1. CASE QuietStep
  BY <1>1, QuietBehaves
<1>2. CASE \E e \in Devices : /\ mode[e] = "app" /\ app' = app
                             /\ mode' = [mode EXCEPT ![e] = "entering"]
  BY <1>2, BehavesBy DEF InstallInv, TypeOK
<1>3. CASE \E e \in Booting : app' = app /\ mode' = [mode EXCEPT ![e] = "boot"]
  <2>1. PICK e \in Booting : app' = app /\ mode' = [mode EXCEPT ![e] = "boot"]
    BY <1>3
  <2>2. e \in Devices /\ mode[e] \in {"window", "boot"}
    BY <2>1 DEF Booting, Plugged
  <2>3. mode'[d] = IF d = e THEN "boot" ELSE mode[d]
    BY <2>1, <2>2 DEF InstallInv, TypeOK
  <2> QED
    BY <2>1, <2>2, <2>3, BehavesBy
<1>4. CASE mode' \in Left /\ app' = app
  BY <1>4, LeftBehaves
<1>5. EnterBootloader => \/ QuietStep
                         \/ \E e \in Devices : /\ mode[e] = "app" /\ app' = app
                                               /\ mode' = [mode EXCEPT ![e] = "entering"]
  <2> SUFFICES ASSUME EnterBootloader, ~QuietStep
               PROVE  \E e \in Devices : /\ mode[e] = "app" /\ app' = app
                                         /\ mode' = [mode EXCEPT ![e] = "entering"]
    OBVIOUS
  <2>1. Booting = {} /\ app' = app
    BY DEF EnterBootloader, QuietStep
  <2>2. PICK e \in Behind(chosen.name) : mode' = [mode EXCEPT ![e] = "entering"]
    BY DEF EnterBootloader, QuietStep
  <2>3. e \in Devices /\ mode[e] = "app"
    BY <2>1, <2>2 DEF Behind, Running, Plugged
  <2> QED
    BY <2>1, <2>2, <2>3
<1>6. Identify => QuietStep \/ \E e \in Booting : app' = app /\ mode' = [mode EXCEPT ![e] = "boot"]
  BY DEF Identify, QuietStep
<1>7. UploadCancelled \/ UploadTimesOut => mode' \in Left /\ app' = app
  BY DEF UploadCancelled, UploadTimesOut, Killed
<1> QED
  BY <1>1, <1>2, <1>3, <1>4, <1>5, <1>6, <1>7 DEF Install, TakeBootloader, WaitForBootloader, WaitEnds,
    CheckFound, StartAvrdude, UploadEnds, Reappear, Dismiss, usb, QuietStep

\* avrdude: it has the bootloader's attention, or does nothing to the cartridge.
LEMMA AvrdudeBehaves ==
  ASSUME InstallInv, InstallInv', NEW d \in Devices, AvrdudeStep PROVE Behaves(d)
<1> DEFINE Modes == {"app", "window", "boot", "entering", "leaving"}
<1>1. /\ mode \in [Devices -> Modes] /\ app \in [Devices -> Sections]
      /\ app'[d] \in Sections
  BY SectionType DEF InstallInv, TypeOK
<1>2. CASE AvrdudeOpens
  <2>1. PICK e \in Booting : app' = app /\ mode' = [mode EXCEPT ![e] = "boot"]
    BY <1>2 DEF AvrdudeOpens
  <2>2. e \in Devices /\ mode[e] \in {"window", "boot"}
    BY <2>1 DEF Booting, Plugged
  <2>3. mode'[d] = IF d = e THEN "boot" ELSE mode[d]
    BY <1>1, <2>1, <2>2
  <2> QED
    BY <2>1, <2>2, <2>3, BehavesBy
<1>3. CASE AvrdudeErases \/ AvrdudeWrites
  <2>1. mode' = mode /\ mode[avrdude.on] = "boot" /\ (d # avrdude.on => app'[d] = app[d])
    BY <1>1, <1>3 DEF AvrdudeErases, AvrdudeWrites, Reaches
  <2> QED
    BY <1>1, <2>1, BehavesBy
<1>4. CASE AvrdudeEnds
  <2>1. /\ app' = app /\ mode[avrdude.on] = "boot"
        /\ mode' = [mode EXCEPT ![avrdude.on] = "leaving"]
    BY <1>4 DEF AvrdudeEnds, Reaches
  <2>2. mode'[d] = IF d = avrdude.on THEN "leaving" ELSE mode[d]
    BY <1>1, <2>1
  <2> QED
    BY <2>1, <2>2, BehavesBy
<1>5. CASE AvrdudeFails
  BY <1>5, LeftBehaves DEF AvrdudeFails
<1> QED
  BY <1>2, <1>3, <1>4, <1>5 DEF AvrdudeStep

\* The cartridges that installations are proved about behave as their bootloader does:
\* every step of Studio, avrdude, cables and cartridges is, for each cartridge, one that
\* CartridgeModes allows (mainwindow.cpp:663-760).
THEOREM InstallCartridgesBehave == Spec => CartridgesBehave
<1>1. Init => \A d \in Devices : Cartridge(d)!AbsInit
  <2> SUFFICES ASSUME Init, NEW d \in Devices PROVE Cartridge(d)!AbsInit
    OBVIOUS
  <2>1. mode[d] = "app" /\ app[d] = "old"
    BY DEF Init
  <2>2. Valid(app[d]) /\ app[d] \in Sections
    BY <2>1, InstallAssumption DEF Valid
  <2> QED
    BY <2>1, <2>2 DEF Cartridge!AbsInit
<1>2. ASSUME InstallInv, InstallInv', [Next]_vars
      PROVE  [\A d \in Devices : [Cartridge(d)!AbsNext]_<<mode[d], app[d]>>]_usb
  <2> SUFFICES ASSUME NEW d \in Devices PROVE Behaves(d)
    BY DEF Behaves
  <2>1. CASE UNCHANGED vars
    BY <2>1, QuietBehaves DEF vars, usb, QuietStep
  <2>2. CASE Cables \/ Poll \/ User
    BY <1>2, <2>2, CableBehaves
  <2>3. CASE \E e \in Devices : WindowEnds(e) \/ Enters(e)
    BY <1>2, <2>3, StartBehaves
  <2>4. CASE Install
    BY <1>2, <2>4, InstallStepBehaves
  <2>5. CASE AvrdudeStep
    BY <1>2, <2>5, AvrdudeBehaves
  <2> QED
    BY <1>2, <2>1, <2>2, <2>3, <2>4, <2>5 DEF Next
<1> QED
  BY <1>1, <1>2, InstallInvariant, PTL DEF Spec, CartridgesBehave
=============================================================================
