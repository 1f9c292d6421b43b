--------------------------- MODULE SerialInterface ---------------------------
(***************************************************************************)
(* The Studio's end of the link: SerialInterface (serial_interface.cpp) as *)
(* its callers use it.  A session opens the port, makes its calls one      *)
(* after the other and closes the port:                                    *)
(*   - connecting: READINFO, which alone discards old input, then READVERS;*)
(*   - verify_chip: DEVID;                                                 *)
(*   - a worker: DEVID, then the erases, writes or reads of its operation; *)
(*   - firmware installation: BOOTLOAD.                                    *)
(* All but the first need a connected board, and a session that fails      *)
(* disconnects it.                                                         *)
(***************************************************************************)
EXTENDS UsbLink

CONSTANTS
  MaxSessions,  \* bound on the number of times the port is opened
  MaxCalls,     \* bound on the number of calls in a session
  Unknown       \* what the host believes of a unit it has no result for

ASSUME HostAssumption ==
  MaxSessions \in Nat /\ MaxCalls \in Nat /\ Unknown \notin Contents

VARIABLES
  hpc,       \* where the host is in the current call
  call,      \* the current call, or the last one
  board,     \* board_connected
  sessions,  \* sessions so far
  calls,     \* calls made in this session
  belief     \* history: contents of each unit after the last successful call

hostVars == <<hpc, call, board, sessions, calls, belief>>

\* The calls that may come next in the current session.  get_board_info also takes
\* READINFO's answer alone when it begins like a version text, which the firmware of
\* this repository never sends (protocol.c:88): READVERS always follows.
NextCalls ==
  IF calls = 0
  THEN {Simple("READINFO")} \cup (IF board THEN {Simple("DEVID"), Simple("BOOT")} ELSE {})
  ELSE CASE call.cmd[1] = "READINFO" -> {Simple("READVERS")}
         [] call.cmd[1] \in {"READVERS", "BOOT"} -> {}
         [] OTHER -> Work

HostInit ==
  /\ hpc = "closed"
  /\ call = Simple("READINFO")
  /\ board = FALSE
  /\ sessions = 0 /\ calls = 0
  /\ belief = [u \in Units |-> Unknown]

\* What the host knows once call c has returned normally.
Learn(c, what) ==
  [u \in Units |-> IF u \in Touches(JobOf(c)) \/ c.cmd = <<"RDBANK", u>>
                   THEN what ELSE belief[u]]

\* open_port.
OpenPort ==
  /\ hpc = "closed" /\ plugged /\ sessions < MaxSessions
  /\ hpc' = "open" /\ dtr' = TRUE
  /\ sessions' = sessions + 1 /\ calls' = 0
  /\ UNCHANGED <<call, board, belief, toDev, toHost, plugged, flash, asked>>

\* send_command: the command is written.  Connecting starts by forgetting the
\* board and discarding what has arrived.
StartCall(c) ==
  /\ hpc = "open" /\ calls < MaxCalls
  /\ c \in NextCalls
  /\ call' = c /\ calls' = calls + 1
  /\ hpc' = "echo"
  /\ toDev' = toDev \o c.cmd
  /\ IF c.cmd[1] = "READINFO"
     THEN toHost' = <<>> /\ board' = FALSE
     ELSE UNCHANGED <<toHost, board>>
  /\ asked' = asked \cup ({JobOf(c)} \cap Jobs)
  /\ belief' = [u \in Units |-> IF u \in Touches(JobOf(c)) THEN Unknown ELSE belief[u]]
  /\ UNCHANGED <<sessions, dtr, plugged, flash>>

\* What the host waits for in each place.
Waiting == {"echo", "answer", "frame", "final"}
Awaited == CASE hpc = "echo" -> CommandLength
             [] hpc = "frame" -> FrameLength
             [] OTHER -> 1
Arrived == Len(toHost) >= Awaited
Response == SubSeq(toHost, 1, Awaited)
Frames == {Frame[c] : c \in Contents}

\* The checks on it: the echo, the identity, the status, the CRC.
EchoOk == Response = call.cmd
StatusUnchecked == TRUE   \* mutant
StatusOk == Response = <<Ok>>
Right ==
  CASE hpc = "echo" -> EchoOk
    [] hpc = "answer" /\ call.cmd[1] \in Identities -> Response = <<call.cmd[1]>>
    [] hpc = "frame" -> Response \in Frames
    [] OTHER -> StatusOk

\* The call returns normally.
Return(what) == hpc' = "open" /\ belief' = Learn(call, what) /\ UNCHANGED toDev
GoOn(where)  == hpc' = where /\ UNCHANGED belief

\* wait_for_response takes what was awaited off the receive buffer, and the
\* caller goes on.
Accept ==
  /\ hpc \in Waiting /\ Arrived /\ Right
  /\ toHost' = SubSeq(toHost, Awaited + 1, Len(toHost))
  /\ \/ hpc = "echo" /\ GoOn("answer") /\ UNCHANGED toDev
     \/ hpc = "answer" /\ call.cmd[1] = "RDBANK" /\ GoOn("frame") /\ UNCHANGED toDev
     \/ hpc = "answer" /\ call.cmd[1] = "WRBK" /\ GoOn("final") /\ toDev' = toDev \o Frame[call.data]
     \/ hpc = "answer" /\ call.cmd[1] \notin {"RDBANK", "WRBK"} /\ Return(call.data)
     \/ hpc = "final" /\ Return(call.data)
     \/ hpc = "frame" /\ \E c \in Contents : Frame[c] = Response /\ Return(c)
  /\ board' = (board \/ (hpc = "answer" /\ call.cmd[1] = "READVERS"))
  /\ UNCHANGED <<call, sessions, calls, dtr, plugged, flash, asked>>

\* close_port: DTR drops and the host's buffers go; what the device's endpoints
\* have already taken or not yet handed over stays behind.
ClosePort ==
  /\ hpc' = "closed"
  /\ dtr' = FALSE
  /\ toDev' \in Prefixes(toDev)
  /\ toHost' \in Suffixes(toHost)
  /\ UNCHANGED <<call, sessions, calls, belief, plugged, flash, asked>>

\* The session is over, or is cancelled between two calls.
EndSession == hpc = "open" /\ calls > 0 /\ ClosePort /\ UNCHANGED board

\* An exception: the response is wrong or has not arrived in time.  Callers
\* close the port and invalidate the connection.
FailStaysConnected ==   \* mutant
  /\ hpc \in Waiting /\ ~(Arrived /\ Right)
  /\ ClosePort
  /\ UNCHANGED board
Fail ==
  /\ hpc \in Waiting /\ ~(Arrived /\ Right)
  /\ board' = FALSE
  /\ ClosePort

\* The Studio is killed; a new one starts with no board connected.
Die == board' = FALSE /\ ClosePort

Host == (\E c \in Calls : StartCall(c)) \/ Accept \/ EndSession \/ Fail \/ Die
=============================================================================
