-------------------------- MODULE FirmwareProtocol --------------------------
(***************************************************************************)
(* The firmware end of the link: the command parser (protocol.c) and the   *)
(* main loop that feeds it (main.c).  An iteration of the loop is one      *)
(* step, except that a flash operation started by the parser runs in its   *)
(* own step, "exec", during which DTR may change unnoticed and the host    *)
(* may give up.                                                            *)
(***************************************************************************)
EXTENDS UsbLink

VARIABLES
  parser,   \* protocol_t
  job,      \* the flash operation the parser has called, or NoJob
  boot      \* boot_requested

fwVars == <<parser, job, boot>>

Parsers == [used : Seq(Tokens), writing : BOOLEAN, failed : BOOLEAN,
            got : Seq(Tokens), unit : Units \cup {"-"}]
ParserOK ==
  /\ parser \in Parsers
  /\ Len(parser.used) < CommandLength
  /\ Len(parser.got) < FrameLength

\* protocol_reset.
Clean == [used |-> <<>>, writing |-> FALSE, failed |-> FALSE, got |-> <<>>, unit |-> "-"]

FwInit ==
  /\ parser = Clean
  /\ job = NoJob
  /\ boot = FALSE

-----------------------------------------------------------------------------
\* Sending a response: a stream that fails part way resets the parser.
Send(resp, p) ==
  \/ toHost' = toHost \o resp /\ parser' = p
  \/ /\ \E cut \in Prefixes(resp) \ {resp} : toHost' = toHost \o cut
     /\ parser' = Clean

\* The driver's result for a job, as CartridgeStore promises it: success means
\* stored, a failure leaves the units it addresses in any state.  Whether the
\* data fits the bits already programmed is not seen at this level.
Stored(j, f) ==
  [u \in Units |-> IF u \in Touches(j) THEN j.data ELSE f[u]]
Damaged(j, f) ==
  {g \in [Units -> Contents] :
     \A u \in Units : g[u] \in IF u \in Touches(j) THEN {f[u], j.data, Torn} ELSE {f[u]}}

-----------------------------------------------------------------------------
\* The loop finds DTR low or the device not configured: it takes one byte, if
\* there is one, throws it away and resets the parser.
NotReadyForgetsReset ==   \* mutant
  /\ plugged /\ ~dtr /\ job = NoJob /\ ~boot
  /\ toDev' = IF toDev = <<>> THEN toDev ELSE Tail(toDev)
  /\ UNCHANGED <<dtr, toHost, plugged, flash, asked, job, boot, parser>>
NotReady ==
  /\ plugged /\ ~dtr /\ job = NoJob /\ ~boot
  /\ toDev' = IF toDev = <<>> THEN toDev ELSE Tail(toDev)
  /\ parser' = Clean
  /\ UNCHANGED <<dtr, toHost, plugged, flash, asked, job, boot>>

\* protocol_tick: a gap of one second in a command forgets it; a gap of two
\* seconds in a payload answers 7 and ignores everything until a reset.  The
\* host's bytes may be delayed by any amount, so a gap may fall anywhere.
TickForgivesPayload ==   \* mutant
  /\ plugged /\ job = NoJob /\ ~boot
  /\ parser.used # <<>> \/ parser.writing
  /\ parser' = Clean
  /\ toHost' \in {toHost} \cup (IF parser.writing THEN {Append(toHost, TooLate)} ELSE {})
  /\ UNCHANGED <<dtr, toDev, plugged, flash, asked, job, boot>>
Tick ==
  /\ plugged /\ job = NoJob /\ ~boot
  /\ parser.used # <<>> \/ parser.writing
  /\ parser' = [Clean EXCEPT !.failed = parser.writing]
  /\ toHost' \in {toHost} \cup (IF parser.writing THEN {Append(toHost, TooLate)} ELSE {})
  /\ UNCHANGED <<dtr, toDev, plugged, flash, asked, job, boot>>

\* The command in cmd is complete; p is the parser with an empty command.
\* Commands without a flash operation are answered at once.
Answered(cmd, p) ==
  LET op == cmd[1]
      arg == cmd[2]
  IN \/ /\ op \in Identities /\ arg = "-"
        /\ Send(cmd \o <<op>>, p)
        /\ UNCHANGED boot
     \/ /\ cmd = <<"BOOT", "-">>
        /\ Send(cmd \o <<Ok>>, p)
        /\ boot' = TRUE
     \/ /\ op \in Reads /\ arg \in Units
        /\ Send(cmd \o <<Ok>> \o Frame[flash[arg]], p)
        /\ UNCHANGED boot
     \/ /\ op = "WRBK" /\ arg \in Units
        /\ Send(cmd \o <<Ok>>, [p EXCEPT !.writing = TRUE, !.got = <<>>, !.unit = arg])
        /\ UNCHANGED boot
     \/ /\ op \in Reads \cup {"WRBK", "ERBANK"} /\ arg \notin Units
        /\ Send(cmd \o <<BadArg>>, p)
        /\ UNCHANGED boot
     \/ /\ op \notin Reads \cup {"WRBK", "ERBANK"}
        /\ ~(op \in Identities /\ arg = "-")
        /\ cmd \notin {<<"BOOT", "-">>, Eraser}
        /\ Send(cmd \o <<"ERRORCMD">>, p)
        /\ UNCHANGED boot

\* protocol_feed outside a payload: collect a command, act when it is whole.
CommandByte(byte) ==
  /\ ~parser.failed /\ ~parser.writing
  /\ parser.used = <<>> => byte # LineEnd
  /\ IF Len(parser.used) + 1 < CommandLength
     THEN /\ parser' = [parser EXCEPT !.used = Append(@, byte)]
          /\ UNCHANGED <<toHost, job, boot>>
     ELSE LET cmd == Append(parser.used, byte)
              p == [parser EXCEPT !.used = <<>>]
          IN \/ Answered(cmd, p) /\ UNCHANGED job
             \/ /\ cmd = Eraser \/ (cmd[1] = "ERBANK" /\ cmd[2] \in Units)
                /\ job' = [op |-> cmd[1], unit |-> cmd[2], data |-> Blank]
                /\ parser' = p
                /\ UNCHANGED <<toHost, boot>>

\* The payload is whole.
PayloadDoneLate(got) == Len(got) > FrameLength   \* mutant
PayloadDone(got) == Len(got) = FrameLength

\* protocol_feed inside a payload: collect the frame, then check its CRC.
PayloadByte(byte) ==
  /\ ~parser.failed /\ parser.writing
  /\ LET got == Append(parser.got, byte)
         p == [parser EXCEPT !.writing = FALSE, !.got = <<>>]
     IN \/ /\ ~PayloadDone(got)
           /\ parser' = [parser EXCEPT !.got = got]
           /\ UNCHANGED <<toHost, job>>
        \/ /\ PayloadDone(got)
           /\ \A d \in Contents : Frame[d] # got
           /\ Send(<<BadCrc>>, p)
           /\ UNCHANGED job
        \/ /\ PayloadDone(got)
           /\ \E d \in Contents : /\ Frame[d] = got
                                  /\ job' = [op |-> "WRBK", unit |-> parser.unit, data |-> d]
           /\ parser' = p
           /\ UNCHANGED toHost
  /\ UNCHANGED boot

\* After a payload timeout every byte is ignored; so is a line end that comes
\* before a command.
IgnoredByte(byte) ==
  /\ parser.failed \/ (byte = LineEnd /\ ~parser.writing /\ parser.used = <<>>)
  /\ UNCHANGED <<parser, toHost, job, boot>>

\* The loop takes a byte and feeds it to the parser.
Receive ==
  /\ plugged /\ dtr /\ job = NoJob /\ ~boot /\ toDev # <<>>
  /\ toDev' = Tail(toDev)
  /\ CommandByte(Head(toDev)) \/ PayloadByte(Head(toDev)) \/ IgnoredByte(Head(toDev))
  /\ UNCHANGED <<dtr, plugged, flash, asked>>

\* A flash operation returns and its status is sent: alone after a payload,
\* behind the echo after an erase command.
Execute ==
  /\ plugged /\ job # NoJob
  /\ LET echo == IF job.op = "WRBK" THEN <<>> ELSE <<job.op, job.unit>>
     IN \/ /\ flash' = Stored(job, flash)
           /\ Send(Append(echo, Ok), parser)
        \/ /\ flash' \in Damaged(job, flash)
           /\ Send(Append(echo, Failed), parser)
  /\ job' = NoJob
  /\ UNCHANGED <<dtr, toDev, plugged, asked, boot>>

\* boot_requested: the response is flushed, then the firmware leaves the bus.
Detach ==
  /\ plugged /\ boot /\ job = NoJob
  /\ plugged' = FALSE /\ dtr' = FALSE
  /\ toDev' = <<>> /\ toHost' \in Prefixes(toHost)
  /\ UNCHANGED <<flash, asked, fwVars>>

\* The bus is reset while the firmware runs on.  The interrupt resets the
\* parser and drops DTR; if it hits the increment of p->used, the stale count
\* of collected command bytes survives.
BusReset ==
  /\ plugged
  /\ dtr' = FALSE /\ toDev' = <<>> /\ toHost' = <<>>
  /\ parser' \in {Clean, [Clean EXCEPT !.used = parser.used]}
  /\ UNCHANGED <<plugged, flash, asked, job, boot>>

\* The cable is pulled and plugged in again, or the watchdog fires: the firmware
\* restarts, a flash operation in progress is cut short.
Replug ==
  /\ plugged' = TRUE /\ dtr' = FALSE /\ toDev' = <<>> /\ toHost' = <<>>
  /\ parser' = Clean /\ job' = NoJob /\ boot' = FALSE
  /\ flash' \in Damaged(job, flash)
  /\ UNCHANGED asked

Firmware == NotReady \/ Tick \/ Receive \/ Execute \/ Detach
=============================================================================
