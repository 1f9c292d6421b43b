--------------------------- MODULE ReleaseDownload ---------------------------
(***************************************************************************)
(* Fetching the latest firmware release (filedownloader.cpp, and           *)
(* install_latest_firmware in mainwindow.cpp): two downloads one after the *)
(* other, the HEX file and the checksums, in one event loop with one       *)
(* timer.  Everything runs on the GUI thread: a signal runs its slots at   *)
(* once, even inside the call that caused it, while timers, the network    *)
(* and the cancel button are served one event at a time by the loop.       *)
(***************************************************************************)
EXTENDS Naturals, Sequences

CONSTANTS
  Release,     \* the released file, a sequence of chunks
  Entry,       \* the chunk of the checksum file that names its checksum
  Chunks,      \* chunks a server may send
  Limit,       \* maximum_bytes of each download, in chunks
  MaxChunks,   \* bound on the chunks of one reply
  MaxRedirects \* redirects that are followed

DownloadAssumption ==
  /\ Entry \in Chunks /\ Release \in Seq(Chunks) /\ Len(Release) \in 1 .. Limit
  /\ Limit \in Nat /\ MaxChunks \in Nat /\ MaxRedirects \in Nat

Stages == {"firmware", "checksum"}
Errors == {"none", "limit", "too large", "network", "status", "redirects",
           "not https", "empty", "timed out", "cancelled"}

VARIABLES
  pc,       \* the caller: "idle", the stage whose loop runs, "install", "message"
  quit,     \* the loop has been told to quit
  timer,    \* the caller's timer is active
  started,  \* the queued call of startRequest has run
  reply,    \* m_Reply: "none" or "open"
  timeout,  \* m_Timeout is active
  unread,   \* chunks that have arrived and are not read
  data,     \* m_DownloadedData
  redirects,
  finished, success, error, \* m_Finished, m_Success, m_ErrorMessage
  contents, \* the firmware, once downloaded
  body,     \* history: all that the reply has brought
  emitted,  \* history: how often the current download has emitted downloaded
  cancelled \* history: cancel was pressed before the current download finished

caller == <<pc, quit, timer, contents>>
transfer == <<started, reply, timeout, unread, data, redirects, body>>
verdict == <<finished, success, error, emitted>>
vars == <<caller, transfer, verdict, cancelled>>

\* The constructor.
Fresh ==
  /\ started' = FALSE /\ reply' = "none" /\ timeout' = FALSE
  /\ unread' = <<>> /\ data' = <<>> /\ redirects' = 0 /\ body' = <<>>
  /\ finished' = FALSE /\ success' = FALSE /\ error' = "none" /\ emitted' = 0

Init ==
  /\ pc = "idle" /\ quit = FALSE /\ timer = FALSE /\ contents = <<>>
  /\ started = FALSE /\ reply = "none" /\ timeout = FALSE
  /\ unread = <<>> /\ data = <<>> /\ redirects = 0 /\ body = <<>>
  /\ finished = FALSE /\ success = FALSE /\ error = "none" /\ emitted = 0
  /\ cancelled = FALSE

Looping == pc \in Stages

-----------------------------------------------------------------------------
\* downloaded is emitted: the loop is told to quit.
Emits == emitted' = emitted + 1 /\ quit' = TRUE

\* finishFailure, with the reply gone.
FailsWith(message) ==
  /\ finished' = TRUE /\ success' = FALSE /\ error' = message
  /\ timeout' = FALSE /\ reply' = "none"
  /\ Emits

\* abort, on a reply that is open, runs fileDownloaded at once, which reads what is
\* left and fails with the message that is set.
Aborts(message) ==
  /\ data' = data \o unread /\ unread' = <<>>
  /\ FailsWith(message)

OnCaller == UNCHANGED <<pc, timer, contents>>

\* startRequest, for the first address or a redirect's.  It starts the timer when the
\* timer is not active: one clock of 30 seconds runs over the whole chain of redirects.
\* A URL that is not https is refused (Redirect).
RequestsUntimed ==   \* mutant: the clock does not outlast the redirects
  /\ reply' = "open" /\ timeout' = (redirects = 0)
  /\ unread' = <<>> /\ body' = <<>>
Requests ==
  /\ reply' = "open" /\ timeout' = TRUE
  /\ unread' = <<>> /\ body' = <<>>
StartRequest ==
  /\ Looping /\ ~started
  /\ started' = TRUE
  /\ IF finished THEN UNCHANGED <<reply, timeout, unread, body>> ELSE Requests
  /\ OnCaller /\ UNCHANGED <<quit, data, redirects, verdict, cancelled>>

\* A chunk arrives.  readAvailableData runs, unless the network holds readyRead back.
ReadAll == data' = data \o unread' /\ unread' = <<>>
Chunk ==
  /\ Looping /\ reply = "open" /\ Len(body) < MaxChunks
  /\ \E c \in Chunks :
       /\ body' = Append(body, c)
       /\ \/ /\ unread' = Append(unread, c)
             /\ UNCHANGED <<data, reply, timeout, quit, verdict>>
          \/ /\ unread' = <<>>
             /\ data' = data \o Append(unread, c)
             /\ IF Len(data') > Limit THEN FailsWith("limit")
                ELSE UNCHANGED <<reply, timeout, quit, verdict>>
  /\ OnCaller /\ UNCHANGED <<started, redirects, cancelled>>

\* The headers announce more than is allowed.
Headers ==
  /\ Looping /\ reply = "open" /\ body = <<>>
  /\ Aborts("too large")
  /\ OnCaller /\ UNCHANGED <<started, redirects, body, cancelled>>

\* The reply ends: fileDownloaded.  Reading what is left may exceed the limit, but
\* a reply that has finished cannot be aborted any more.
KeepsData(d) == d   \* mutant
Cleared(d) == <<>>
Failure ==
  /\ Looping /\ reply = "open"
  /\ \E message \in {"network", "status"} : Aborts(message)
  /\ OnCaller /\ UNCHANGED <<started, redirects, body, cancelled>>
Redirect ==
  /\ Looping /\ reply = "open"
  /\ redirects' = redirects + 1
  /\ \/ /\ redirects' > MaxRedirects
        /\ Aborts("redirects")
        /\ UNCHANGED body
     \/ /\ redirects' <= MaxRedirects
        /\ Aborts("not https")
        /\ UNCHANGED body
     \/ /\ redirects' <= MaxRedirects
        /\ data' = Cleared(data \o unread)
        /\ Requests
        /\ UNCHANGED <<quit, verdict>>
  /\ OnCaller /\ UNCHANGED <<started, cancelled>>
ReplyEnds ==
  /\ Looping /\ reply = "open"
  /\ IF data \o unread = <<>> THEN Aborts("empty")
     ELSE /\ data' = data \o unread /\ unread' = <<>>
          /\ reply' = "none" /\ timeout' = FALSE
          /\ finished' = TRUE /\ success' = TRUE
          /\ error' = IF Len(data') > Limit THEN "limit" ELSE error
          /\ Emits
  /\ OnCaller /\ UNCHANGED <<started, redirects, body, cancelled>>

\* The download's own timer, and cancel: both abort an open reply, or fail at once.
Pending == ~finished
Stops(message) ==
  IF Pending
  THEN IF reply = "open" THEN Aborts(message) ELSE FailsWith(message) /\ UNCHANGED <<data, unread>>
  ELSE UNCHANGED <<data, unread, reply, timeout, quit, verdict>>
TimesOut ==
  /\ Looping /\ timeout
  /\ IF reply = "open" THEN Aborts("timed out") ELSE FailsWith("timed out") /\ UNCHANGED <<data, unread>>
  /\ OnCaller /\ UNCHANGED <<started, redirects, body, cancelled>>
Cancel ==
  /\ Looping
  /\ cancelled' = (cancelled \/ ~finished)
  /\ Stops("cancelled")
  /\ OnCaller /\ UNCHANGED <<started, redirects, body>>

-----------------------------------------------------------------------------
\* install_latest_firmware.
Begin ==
  /\ pc = "idle"
  /\ pc' = "firmware" /\ timer' = TRUE /\ quit' = FALSE /\ contents' = <<>>
  /\ cancelled' = FALSE
  /\ Fresh

\* The caller's timer tells the loop to quit as well.
TimerFires ==
  /\ Looping /\ timer
  /\ timer' = FALSE /\ quit' = TRUE
  /\ UNCHANGED <<pc, contents, transfer, verdict, cancelled>>

\* The loop returns from the firmware's download.
SizeOk == data # <<>> /\ Len(data) <= Limit
FirmwareHere ==
  /\ pc = "firmware" /\ quit
  /\ IF timer /\ success /\ SizeOk
     THEN /\ contents' = data /\ pc' = "checksum"
          /\ timer' = TRUE /\ quit' = FALSE
          /\ Fresh
     ELSE /\ pc' = "message" /\ UNCHANGED <<contents, timer, quit, transfer, verdict>>
  /\ UNCHANGED cancelled

\* The loop returns from the checksums' download.
VerifyReleaseChecksum(sums) == (\E i \in DOMAIN sums : sums[i] = Entry) /\ contents = Release
ChecksumHere ==
  /\ pc = "checksum" /\ quit
  /\ pc' = IF timer /\ success /\ VerifyReleaseChecksum(data) THEN "install" ELSE "message"
  /\ UNCHANGED <<contents, timer, quit, transfer, verdict, cancelled>>

\* The installation, or the message, is over.
Done ==
  /\ pc \in {"install", "message"}
  /\ pc' = "idle"
  /\ UNCHANGED <<contents, timer, quit, transfer, verdict, cancelled>>

Network == Chunk \/ Headers \/ Failure \/ Redirect \/ ReplyEnds
Timers == TimesOut \/ TimerFires
Loop == FirmwareHere \/ ChecksumHere
Next == Begin \/ StartRequest \/ Network \/ Timers \/ Cancel \/ Loop \/ Done
Spec == Init /\ [][Next]_vars

\* The event loop serves its queue and the download's timer; the network may be
\* silent, and nothing is assumed of the caller's timer.
FairSpec == Spec /\ WF_vars(StartRequest) /\ WF_vars(TimesOut) /\ WF_vars(Loop)

-----------------------------------------------------------------------------
\* A download that is over has neither a reply nor a timer that could still change
\* it (filedownloader.cpp:156-165).
TypeOK ==
  /\ pc \in Stages \cup {"idle", "install", "message"}
  /\ quit \in BOOLEAN /\ timer \in BOOLEAN /\ started \in BOOLEAN
  /\ timeout \in BOOLEAN /\ finished \in BOOLEAN /\ success \in BOOLEAN
  /\ cancelled \in BOOLEAN
  /\ reply \in {"none", "open"} /\ error \in Errors
  /\ unread \in Seq(Chunks) /\ data \in Seq(Chunks)
  /\ body \in Seq(Chunks) /\ contents \in Seq(Chunks)
  /\ redirects \in 0 .. MaxRedirects + 1
  /\ finished => reply = "none" /\ ~timeout

\* The signal that ends the loop comes once for each download, however a
\* cancellation, a timer, an abort and the end of a reply meet: a second one, in the
\* loop of the checksums, would end it before its time (filedownloader.cpp:42-63,
\* 104-169, mainwindow.cpp:597-601, 631-635).
QuitsOnce ==
  /\ emitted <= 1
  /\ Looping /\ quit => finished \/ ~timer

\* A successful download is the whole of the last reply and of nothing before it
\* (filedownloader.cpp:104-154).
ResultIsOneBody == success => data = body

\* Nothing is installed that is not the published file, nor after a cancellation
\* that came before the download had finished (mainwindow.cpp:604-660).
InstallsRelease == pc = "install" => contents = Release /\ ~cancelled

\* A file above the limit is not kept, though abort does nothing to a reply that has
\* finished, so that the downloader may report such a file as a success
\* (filedownloader.cpp:97-101, 110, mainwindow.cpp:616-622).
KeptWithinLimit == pc \in {"checksum", "install"} => Len(contents) \in 1 .. Limit

\* A download ends by its own clock, through any chain of redirects and against a
\* server that says nothing (filedownloader.cpp:41-47, 91).
DownloadEnds == Looping ~> ~Looping
=============================================================================
