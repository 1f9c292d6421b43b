---------------------------- MODULE SeparateParts ----------------------------
(***************************************************************************)
(* The parts that share no state with any other: the preparation tool, the *)
(* log window, the release download, the data view and its files, and the  *)
(* firmware's frame counter.  A behaviour of all of them together is an    *)
(* interleaving of behaviours of each, and a property of one stutters in   *)
(* the steps of the others; so one of them runs in a behaviour, and the    *)
(* others stay where they start.                                           *)
(***************************************************************************)
EXTENDS PreparationTool, Sequences

CONSTANTS
  \* LogView
  Severities, Unknown, MaxMessages, TrimMessages, MaxLines, MaxArrivals,
  \* ReleaseDownload
  Release, Entry, Chunks, Limit, MaxChunks, MaxRedirects,
  \* StudioFiles
  Files, Aliases, Canonical, Banks, OtherData, Roms, MaxRecent, MaxChanges,
  \* FrameTimer
  FrameMod, COMMAND_TIMEOUT_MS, PAYLOAD_TIMEOUT_MS, Watchdog, LongestJob,
  CommandLength, FrameLength

Parts == {"tool", "log", "download", "files", "timer"}

VARIABLES
  part,
  \* LogView
  messages, arrived, text, linesread, first_visible_line, shown, paused,
  status, window, since, asked,
  \* ReleaseDownload
  caller, quit, timer, started, reply, timeout, unread, data, redirects,
  finished, success, error, contents, body, emitted, cancelled,
  \* StudioFiles
  disk, view, current_filename, recent, stored, menu, reading, gui, changes,
  \* FrameTimer
  frame, last_frame, parser, ready, quiet

Log      == INSTANCE LogView WITH gui <- window
Download == INSTANCE ReleaseDownload WITH pc <- caller
View     == INSTANCE StudioFiles
Timer    == INSTANCE FrameTimer

ASSUME PartsAssumption ==
  /\ Log!LogAssumption /\ Download!DownloadAssumption
  /\ View!FilesAssumption /\ Timer!TimerAssumption

logVars == <<messages, arrived, text, linesread, first_visible_line, shown,
             paused, status, window, since, asked>>
downloadVars == <<caller, quit, timer, started, reply, timeout, unread, data,
                  redirects, finished, success, error, contents, body, emitted,
                  cancelled>>
viewVars == <<disk, view, current_filename, recent, stored, menu, reading, gui,
              changes>>
timerVars == <<frame, last_frame, parser, ready, quiet>>
allVars == <<part, vars, logVars, downloadVars, viewVars, timerVars>>

\* Each part starts as it does; one that does not run, in one of its states.
PartsInit ==
  /\ part \in Parts
  /\ Init /\ (part # "tool" => flash = "blank" /\ chip = CHOOSE c \in Probes : TRUE)
  /\ Log!Init /\ Download!Init
  /\ View!Init /\ (part # "files" => disk = [f \in DOMAIN disk |-> "absent"])
  /\ Timer!Init /\ (part # "timer" => frame = 0)

ToolRuns     == part = "tool" /\ Next /\ UNCHANGED <<part, logVars, downloadVars, viewVars, timerVars>>
LogRuns      == part = "log" /\ Log!Next /\ UNCHANGED <<part, vars, downloadVars, viewVars, timerVars>>
OnlyDownload == UNCHANGED <<part, vars, logVars, viewVars, timerVars>>
DownloadRuns == part = "download" /\ Download!Next /\ OnlyDownload
ViewRuns     == part = "files" /\ View!Next /\ UNCHANGED <<part, vars, logVars, downloadVars, timerVars>>
TimerRuns    == part = "timer" /\ Timer!Next /\ UNCHANGED <<part, vars, logVars, downloadVars, viewVars>>

PartsNext == ToolRuns \/ LogRuns \/ DownloadRuns \/ ViewRuns \/ TimerRuns

\* The fairness of ReleaseDownload.
PartsFairness ==
  /\ WF_allVars(part = "download" /\ Download!StartRequest /\ OnlyDownload)
  /\ WF_allVars(part = "download" /\ Download!TimesOut /\ OnlyDownload)
  /\ WF_allVars(part = "download" /\ Download!Loop /\ OnlyDownload)

PartsSpec == PartsInit /\ [][PartsNext]_allVars /\ PartsFairness

\* Every part's own type invariant, and what it says of where things end.
PartsTypeOK ==
  TypeOK /\ Log!TypeOK /\ Download!TypeOK /\ View!TypeOK /\ Timer!TypeOK

\* The log window shows what the buffer holds, in order and once, and leaves a
\* cleared or paused view as it is until the buffer drops messages, however many
\* arrive between two updates (logwindow.cpp:312-367, logbuffer.cpp:5-12).
LogViewIsRight ==
  /\ Log!ViewIsCurrent /\ Log!ShownInOrder
  /\ Log!ClearedStaysCleared /\ Log!PausedViewIsStill

\* A download ends its event loop once and is one whole body, and what is installed
\* is the published file, within its limit and not cancelled
\* (filedownloader.cpp:42-169, mainwindow.cpp:597-660).
InstallsRelease ==
  /\ Download!QuitsOnce /\ Download!ResultIsOneBody
  /\ Download!KeptWithinLimit /\ Download!InstallsRelease

\* A download ends by its own clock, through any chain of redirects and against a
\* server that says nothing (filedownloader.cpp:41-47, 91).
DownloadEnds == Download!DownloadEnds

\* Reload reads what the data view shows, whatever event loop was running when it
\* changed; a recent file is listed once and a download shown is one bank
\* (mainwindow.cpp:907-920, 1193-1346).
ReloadsWhatIsShown ==
  View!ReloadsWhatIsShown /\ View!RecentOnce /\ View!DownloadIsABank

\* A recent file is not forgotten, not by a crash either (mainwindow.cpp:1245-1291).
NeverForgotten == View!NeverForgotten

\* A gap in a command or a payload is measured as long as it was, and both limits
\* fall at their millisecond, although the frame counter wraps (main.c:79-93,
\* protocol.c:12-24).
ExpiresOnTime ==
  Timer!CountsTheTime /\ Timer!ExpiresOnTime /\ Timer!NeverLate
=============================================================================
