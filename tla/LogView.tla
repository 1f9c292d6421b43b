------------------------------- MODULE LogView -------------------------------
(***************************************************************************)
(* The bounded log buffer (logbuffer.cpp), which every thread appends to   *)
(* under a mutex, and the window that shows it (logwindow.cpp).  The       *)
(* window remembers positions in the buffer as indices (linesread,         *)
(* first_visible_line), and nothing tells it that the buffer dropped its   *)
(* oldest messages: it can only see that the buffer has become shorter.    *)
(* A handler of the window takes one snapshot to see whether it shrank,    *)
(* one for the lines it shows and another for the status line; other       *)
(* threads may append in between.                                          *)
(***************************************************************************)
EXTENDS Integers, FiniteSets, SequencesExt, SequenceFilter

CONSTANTS
  Severities,   \* the severities of messages (the [TAG] of message_output)
  Unknown,      \* the severity of a message without a tag: it has no filter
  MaxMessages,  \* LogBuffer::MAX_MESSAGES
  TrimMessages, \* LogBuffer::TRIM_MESSAGES
  MaxLines,     \* maximumBlockCount of the text box
  MaxArrivals   \* bound on the messages of a behaviour

LogAssumption ==
  /\ TrimMessages \in 1 .. MaxMessages /\ MaxMessages <= MaxLines
  /\ MaxMessages \in Nat /\ MaxLines \in Nat
  /\ MaxArrivals \in Nat /\ Unknown \in Severities

VARIABLES
  messages,  \* the buffer: records of a serial number and a severity
  arrived,   \* messages appended so far
  text,      \* the lines of the text box
  linesread, \* buffer positions read so far
  first_visible_line,
  shown,     \* severities whose filter is checked
  paused,    \* pause_button is checked
  status,    \* the counts of the status line
  gui,       \* "idle", or the rest of a handler: "rebuild", "status"
  since,     \* history: messages since the last update of the view; one that misses
             \* a whole trim leaves it as it is
  asked      \* history: the last message when the user last cleared, and last
             \* paused, the view, and what the buffer had dropped by then; and
             \* what it had dropped when positions were last read from it

buffer == <<messages, arrived>>
vars == <<messages, arrived, text, linesread, first_visible_line, shown,
          paused, status, gui, since, asked>>

Smaller(a, b) == IF a < b THEN a ELSE b
Dropped == arrived - Len(messages)
Now == [last |-> arrived, dropped |-> Dropped]
Messages == [n : 1 .. MaxArrivals, severity : Severities]

\* The messages that are not visible.
Hidden(filter) == [n : 1 .. MaxArrivals, severity : Severities \ filter]
\* The messages at the positions first .. end - 1 of the buffer that are shown.
Lines(first, end, filter) == Without(SubSeq(messages, first + 1, end), Hidden(filter))
\* The text box keeps its last maximumBlockCount lines.
Kept(lines) ==
  IF Len(lines) > MaxLines
    THEN SubSeq(lines, Len(lines) - MaxLines + 1, Len(lines)) ELSE lines

\* How far the window counts and rebuilds.
End(read, pause) ==
  IF pause THEN Smaller(read, Len(messages)) ELSE Len(messages)

Init ==
  /\ messages = <<>> /\ arrived = 0
  /\ text = <<>> /\ linesread = 0 /\ first_visible_line = 0
  /\ shown = Severities /\ paused = FALSE
  /\ status = [visible |-> 0, pending |-> 0]
  /\ gui = "idle" /\ since = 0 /\ asked = [clear |-> Now, pause |-> 0, read |-> 0]
------------------------------------------------------------------------------
(***************************************************************************)
(* LogBuffer::append, from any thread, at any moment.                      *)
(***************************************************************************)

TrimmedByOne(s) == \* mutant: drops one message, so the buffer never shrinks
  IF Len(s) > MaxMessages THEN Tail(s) ELSE s

Trimmed(s) ==
  IF Len(s) > MaxMessages THEN SubSeq(s, TrimMessages + 1, Len(s)) ELSE s

StoredUnbounded(s, m) == Append(s, m) \* mutant: never trimmed

Stored(s, m) == Trimmed(Append(s, m))

Log(severity) ==
  /\ arrived < MaxArrivals
  /\ arrived' = arrived + 1
  /\ since' = since + 1
  /\ messages' = Stored(messages, [n |-> arrived + 1, severity |-> severity])
  /\ UNCHANGED <<text, linesread, first_visible_line, shown, paused, status,
                 gui, asked>>
------------------------------------------------------------------------------
(***************************************************************************)
(* The window: each handler of the GUI thread changes the lines and then   *)
(* calls update_status.                                                    *)
(***************************************************************************)

Rebuild(first, filter, pause) ==
  LET end == End(linesread, pause)
  IN /\ first_visible_line' = first
     /\ text' = Kept(Lines(first, end, filter))
     /\ linesread' = end

\* update_log sees that the buffer was trimmed.
HasShrunk == Len(messages) < linesread \/ first_visible_line > Len(messages)

\* update_log appends what is new, or leaves it to rebuild_log to show the buffer
\* from its start, as it is by then.
Update ==
  \/ /\ paused'
     /\ gui' = "status"
     /\ UNCHANGED <<text, linesread, first_visible_line, since, asked>>
  \/ /\ ~paused' /\ HasShrunk
     /\ gui' = "rebuild"
     /\ first_visible_line' = 0
     /\ UNCHANGED <<text, linesread, since, asked>>
  \/ /\ ~paused' /\ ~HasShrunk
     /\ gui' = "status"
     /\ text' = Kept(text \o Lines(linesread, Len(messages), shown))
     /\ linesread' = Len(messages)
     /\ since' = IF since >= TrimMessages THEN since ELSE 0
     /\ asked' = [asked EXCEPT !.read = Dropped]
     /\ UNCHANGED first_visible_line

\* The 250 ms timer: update_log.
Timer ==
  /\ gui = "idle"
  /\ UNCHANGED <<buffer, shown, paused, status>>
  /\ Update

RebuildLog ==
  /\ gui = "rebuild"
  /\ Rebuild(first_visible_line, shown, paused)
  /\ since' = 0
  /\ asked' = [asked EXCEPT !.read = Dropped]
  /\ gui' = "status"
  /\ UNCHANGED <<buffer, shown, paused, status>>

\* toggle_pause: resuming updates the view at once.
TogglePause ==
  /\ gui = "idle"
  /\ paused' = ~paused
  /\ UNCHANGED <<buffer, shown, status>>
  /\ \/ ~paused /\ gui' = "status"
        /\ asked' = [asked EXCEPT !.pause = arrived]
        /\ UNCHANGED <<text, linesread, first_visible_line, since>>
     \/ paused /\ Update

\* A filter's check box is connected to rebuild_log.
Filters == Severities \ {Unknown}
ToggleFilter(severity) ==
  /\ gui = "idle"
  /\ shown' = SymDiff(shown, {severity})
  /\ Rebuild(first_visible_line, shown', paused)
  /\ since' = IF paused THEN since ELSE 0
  /\ asked' = [asked EXCEPT !.read = IF paused THEN @ ELSE Dropped]
  /\ gui' = "status"
  /\ UNCHANGED <<buffer, paused, status>>

\* clear_log.
Clear ==
  /\ gui = "idle"
  /\ first_visible_line' = Len(messages)
  /\ linesread' = Len(messages)
  /\ text' = <<>>
  /\ since' = 0
  /\ asked' = [asked EXCEPT !.clear = Now, !.read = Dropped]
  /\ gui' = "status"
  /\ UNCHANGED <<buffer, shown, paused, status>>

Counted ==
  LET end == End(linesread, paused)
  IN [visible |-> Len(Lines(Smaller(first_visible_line, end), end, shown)),
      pending |-> Len(messages) - end]

UpdateStatus ==
  /\ gui = "status"
  /\ status' = Counted
  /\ gui' = "idle"
  /\ UNCHANGED <<buffer, text, linesread, first_visible_line, shown, paused,
                 since, asked>>

Next ==
  \/ \E severity \in Severities : Log(severity)
  \/ Timer
  \/ RebuildLog
  \/ TogglePause
  \/ \E severity \in Filters : ToggleFilter(severity)
  \/ Clear
  \/ UpdateStatus

Spec == Init /\ [][Next]_vars
------------------------------------------------------------------------------
\* The positions of the window (logwindow.h:59-60) and the bounds of the
\* buffer (logbuffer.h:15-16) and the text box (logwindow.cpp:188).
TypeOK ==
  /\ messages \in Seq(Messages) /\ Len(messages) <= MaxMessages
  /\ arrived \in 0 .. MaxArrivals
  /\ text \in Seq(Messages) /\ Len(text) <= MaxLines
  /\ linesread \in 0 .. MaxMessages /\ first_visible_line \in 0 .. MaxMessages
  /\ shown \subseteq Severities /\ Unknown \in shown /\ paused \in BOOLEAN
  /\ status \in [visible : 0 .. MaxMessages, pending : 0 .. MaxMessages]
  /\ gui \in {"idle", "rebuild", "status"} /\ since \in 0 .. arrived
  /\ asked \in [clear : [last : 0 .. arrived, dropped : 0 .. Dropped],
                pause : 0 .. arrived, read : 0 .. Dropped]

\* No message is shown twice or out of order, however many messages arrive,
\* and however often the buffer is trimmed, between two updates
\* (logwindow.cpp:341-350, logbuffer.cpp:9-11).
ShownInOrder ==
  \A i, j \in DOMAIN text : i < j => text[i].n < text[j].n

\* Right after an update the view shows the buffer, filtered, with nothing
\* missing and nothing the buffer has dropped, provided that no update missed
\* as many messages as one trim drops and that no position set by Clear
\* is in force (logwindow.cpp:341-350).  With such a position it fails: a
\* filter toggled between a trim and the next update (logwindow.cpp:312-324)
\* hides what update_log would have noticed, and a stale first_visible_line
\* keeps later messages out of every rebuild and of the status line.
ViewIsCurrent ==
  gui # "rebuild" /\ ~paused /\ since = 0 /\ first_visible_line = 0
    => text = Lines(0, Len(messages), shown)

\* Cleared messages stay out of the view, whatever is filtered, paused and resumed
\* ("Clear the messages currently shown", logwindow.cpp:137), until the buffer drops
\* messages: update_log then forgets the position and shows what is left of them
\* again (logwindow.cpp:341-346).
ClearedStaysCleared ==
  asked.clear.dropped = Dropped => \A i \in DOMAIN text : text[i].n > asked.clear.last

\* A paused view shows nothing that arrived after it was paused, whatever is
\* filtered ("Temporarily stop updating the view", logwindow.cpp:171), until the
\* buffer drops messages that had been read: the positions a changed filter reads
\* then hold later ones (logwindow.cpp:312-324).
PausedViewIsStill ==
  paused /\ asked.read = Dropped => \A i \in DOMAIN text : text[i].n <= asked.pause
=============================================================================
