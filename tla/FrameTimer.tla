------------------------------ MODULE FrameTimer ------------------------------
(***************************************************************************)
(* How the firmware measures the gaps in a command or a payload (main.c,   *)
(* protocol_tick in protocol.c): by the number of the USB frame, one per   *)
(* millisecond, of which there are 2048, read once in every iteration of   *)
(* the main loop.  An iteration may outlast a full turn of the counter,    *)
(* but only when it runs a flash operation, which serves the watchdog; any *)
(* other is shorter than the watchdog's two seconds.  FirmwareProtocol     *)
(* lets its timeouts fall anywhere; this module checks when they fall.     *)
(***************************************************************************)
EXTENDS Integers

CONSTANTS
  FrameMod,       \* turns of the frame counter: 0x7ff + 1
  COMMAND_TIMEOUT_MS, PAYLOAD_TIMEOUT_MS,
  Watchdog,       \* the longest iteration without a flash operation
  LongestJob,     \* the longest with one
  CommandLength,  \* bytes of a command
  FrameLength     \* bytes of a payload and its CRC

TimerAssumption ==
  /\ {FrameMod, COMMAND_TIMEOUT_MS, PAYLOAD_TIMEOUT_MS, Watchdog, LongestJob,
      CommandLength, FrameLength} \subseteq Nat \ {0}
  /\ COMMAND_TIMEOUT_MS < PAYLOAD_TIMEOUT_MS /\ PAYLOAD_TIMEOUT_MS < FrameMod
  /\ Watchdog < FrameMod

VARIABLES
  frame,      \* USB_Device_GetFrameNumber
  last_frame, \* its value in the last iteration
  parser,     \* the fields of protocol_t that measure or are measured
  ready,      \* configured, with DTR set
  quiet       \* time since the iteration that took the last byte, while the
              \* parser is in a command or a payload; 0 otherwise

vars == <<frame, last_frame, parser, ready, quiet>>

Reset == [used |-> 0, received |-> 0, idle_ms |-> 0,
          writing |-> FALSE, failed |-> FALSE]

\* Not between the bytes of anything: protocol_tick has nothing to measure.
Idle(p) == p.used = 0 /\ ~p.writing

IdleLimit(p) == IF p.writing THEN PAYLOAD_TIMEOUT_MS ELSE COMMAND_TIMEOUT_MS

Init ==
  /\ frame \in 0 .. FrameMod - 1 /\ last_frame = 0
  /\ parser = Reset /\ ready = FALSE /\ quiet = 0
------------------------------------------------------------------------------
ElapsedShort == (frame - last_frame) % (FrameMod \div 2) \* mutant: a mask too short

\* (frame - last_frame) & 0x7ff.
Elapsed == (frame - last_frame) % FrameMod

Expired(p, ms) == ms >= IdleLimit(p) - p.idle_ms

protocol_tick(p, ms) ==
  CASE Idle(p) -> p
    [] ~Idle(p) /\ Expired(p, ms) -> [Reset EXCEPT !.failed = p.writing]
    [] OTHER -> [p EXCEPT !.idle_ms = @ + ms]

Restarted(p) == [p EXCEPT !.idle_ms = 0]

\* The states protocol_feed leaves the parser in on a byte, and whether it ran
\* a flash operation: the eighth byte of a command may run one, open a payload
\* or do neither; the last of a payload runs one unless its CRC is wrong.
protocol_feed(p) ==
  LET q == Restarted(p)
  IN CASE p.failed -> {[parser |-> p, long |-> FALSE]}
       [] ~p.failed /\ p.writing ->
            IF p.received + 1 < FrameLength
              THEN {[parser |-> [q EXCEPT !.received = @ + 1], long |-> FALSE]}
              ELSE {[parser |-> [q EXCEPT !.received = 0, !.writing = FALSE],
                     long |-> run] : run \in BOOLEAN}
       [] OTHER ->
            IF p.used + 1 < CommandLength
              THEN {[parser |-> [q EXCEPT !.used = @ + 1], long |-> FALSE]}
                   \cup (IF p.used = 0 THEN {[parser |-> q, long |-> FALSE]} ELSE {})
              ELSE {[parser |-> [q EXCEPT !.used = 0], long |-> run] :
                      run \in BOOLEAN}
                   \cup {[parser |-> [q EXCEPT !.used = 0, !.received = 0,
                                                 !.writing = TRUE], long |-> FALSE]}

\* d milliseconds pass until the next iteration.
Passes(d, before) ==
  /\ frame' = (frame + d) % FrameMod
  /\ quiet' = IF Idle(parser') THEN 0 ELSE before + d

\* An iteration of the main loop: the tick, then a byte if there is one.
Iterate ==
  LET ticked == protocol_tick(parser, Elapsed)
  IN /\ last_frame' = frame
     /\ UNCHANGED ready
     /\ \/ /\ ~ready /\ parser' = Reset
           /\ \E d \in 1 .. Watchdog : Passes(d, 0)
        \/ /\ ready /\ parser' = ticked
           /\ \E d \in 1 .. Watchdog : Passes(d, quiet)
        \/ /\ ready
           /\ \E fed \in protocol_feed(ticked) :
                /\ parser' = fed.parser
                /\ \E d \in 1 .. (IF fed.long THEN LongestJob ELSE Watchdog) :
                     Passes(d, IF ticked.failed THEN quiet ELSE 0)

\* DTR or the configuration changes between two iterations; when the bus is
\* reset the parser is reset as well and the frames are counted afresh.
Line ==
  /\ ready' = ~ready
  /\ \/ UNCHANGED <<frame, parser, quiet>>
     \/ frame' \in 0 .. FrameMod - 1 /\ parser' = Reset /\ quiet' = 0
  /\ UNCHANGED last_frame

Next == Iterate \/ Line

Spec == Init /\ [][Next]_vars
------------------------------------------------------------------------------
\* The counter of main.c:79,85-88 and the parser's fields (protocol.h:17-25).
TypeOK ==
  /\ frame \in 0 .. FrameMod - 1 /\ last_frame \in 0 .. FrameMod - 1
  /\ parser \in [used : 0 .. CommandLength - 1, received : 0 .. FrameLength - 1,
                 idle_ms : 0 .. PAYLOAD_TIMEOUT_MS - 1,
                 writing : BOOLEAN, failed : BOOLEAN]
  /\ ready \in BOOLEAN /\ quiet \in Nat

\* In a command or a payload what the parser has counted, with what the next
\* iteration will add, is the time that has passed, although the counter wraps
\* and an operation may have outlasted a turn of it (main.c:85-88,
\* protocol.c:12-24).
CountsTheTime == ~Idle(parser) /\ ready => parser.idle_ms + Elapsed = quiet

\* "Partial ASCII commands expire after one second" and a payload after two: the
\* next iteration forgets what was received when that time has passed, and only
\* then (firmware/README.md:140-144, tests/test_protocol.c:56-59).
ExpiresOnTime ==
  ~Idle(parser) /\ ready =>
    (Idle(protocol_tick(parser, Elapsed)) <=> quiet >= IdleLimit(parser))

\* Nothing is left half received for longer than its limit and one iteration,
\* whatever came before (main.c:83-93, protocol.c:16).
NeverLate == ~Idle(parser) /\ ready => quiet < IdleLimit(parser) + Watchdog
=============================================================================
