---------------------------- MODULE CartridgeLink ----------------------------
(***************************************************************************)
(* The Studio and the cartridge firmware talking to each other, with the   *)
(* host giving up, the bus being reset and the cartridge being replugged   *)
(* at any time.                                                            *)
(***************************************************************************)
EXTENDS SerialInterface, FirmwareProtocol

vars == <<linkVars, hostVars, fwVars>>

Promise == INSTANCE CartridgeCalls WITH waiting   <- hpc \in Waiting,
                                        connected <- board,
                                        known     <- belief

LinkInit ==
  /\ dtr = FALSE /\ toDev = <<>> /\ toHost = <<>> /\ plugged = TRUE
  /\ flash \in [Units -> Data \cup {Blank}]
  /\ asked = {}

Init == LinkInit /\ HostInit /\ FwInit

\* The loop empties the 64-byte endpoint within a few milliseconds once DTR is
\* low, unless a flash operation is running: the port is not opened again
\* before that.
Reopen == OpenPort /\ (toDev = <<>> \/ job # NoJob) /\ UNCHANGED fwVars

HostStep ==
  \/ Reopen
  \/ Host /\ UNCHANGED fwVars

FirmwareStep ==
  /\ NotReady \/ Tick \/ Receive \/ Execute
  /\ UNCHANGED hostVars

\* A device that leaves the bus takes the host's open port with it; an idle host
\* notices at the next poll, or never if the device is back by then.
PortLost ==
  /\ Detach \/ BusReset \/ Replug
  /\ hpc' = "closed"
  /\ board' \in IF hpc = "closed" THEN {board, FALSE} ELSE {FALSE}
  /\ UNCHANGED <<call, sessions, calls, belief>>

Next == HostStep \/ FirmwareStep \/ PortLost

Spec == Init /\ [][Next]_vars

\* The main loop runs for ever; its timer ticks even when nothing arrives.  The
\* host's waits are bounded by timers, so a call always ends.
FairSpec == Spec /\ WF_vars(FirmwareStep) /\ WF_vars(Host /\ UNCHANGED fwVars)

-----------------------------------------------------------------------------
\* No byte sequence makes the parser overrun its command or payload buffer
\* (protocol.h:18, 24) or hands the driver a unit that it does not have.
TypeOK ==
  /\ dtr \in BOOLEAN /\ plugged \in BOOLEAN
  /\ flash \in [Units -> Contents]
  /\ asked \subseteq Jobs
  /\ hpc \in {"closed", "open"} \cup Waiting
  /\ call \in Calls
  /\ board \in BOOLEAN
  /\ sessions \in 0 .. MaxSessions /\ calls \in 0 .. MaxCalls
  /\ belief \in [Units -> Contents \cup {Unknown}]
  /\ ParserOK
  /\ job \in Jobs \cup {NoJob}
  /\ boot \in BOOLEAN

\* What a call that returned normally told the host stays true until the host
\* itself asks for something else: no late or stale response is ever taken for
\* the answer to a later call, and no left-over command or payload changes the
\* flash behind the host's back (serial_interface.cpp:204-218, 256-281;
\* protocol.c:71-85).
BeliefIsTrue == \A u \in Units : belief[u] # Unknown => flash[u] = belief[u]

\* The firmware never starts an erase, a program or a reboot that the host did
\* not ask for, with the very unit and data it asked for: payload bytes are
\* never taken for commands and no frame is programmed that was not sent
\* (firmware/README.md:140-142, protocol.c:73-82).
OnlyAskedIsExecuted ==
  /\ job # NoJob => job \in asked
  /\ boot => \E j \in asked : j.op = "BOOT"

\* To its callers the whole conversation is a sequence of calls that return with
\* their work done or throw (serial_interface.cpp:66-325), as the workers take
\* for granted (flashthread.cpp:50-95, readthread.cpp:20-45).
KeepsPromise == Promise!AbsSpec

\* The parser always comes out of a payload, and out of the quarantine that
\* follows one that stopped arriving: the host that waits for the answer gives
\* up and drops DTR, and the main loop notices (protocol.c:12-24, main.c:90-91).
ParserRecovers ==
  parser.writing \/ parser.failed ~> ~(parser.writing \/ parser.failed)
=============================================================================
