----------------------------- MODULE StudioFiles -----------------------------
(***************************************************************************)
(* The data view of the main window (mainwindow.cpp): where the bytes it   *)
(* shows come from (a file, a read of the selected bank, a bundled or      *)
(* downloaded ROM), the file that Reload reads again, Save, and the list   *)
(* of recent files in the settings.  All of it runs on the GUI thread, but *)
(* dialogs, message boxes and the download run event loops of their own:   *)
(* the result of a bank read may be delivered inside them.  Other programs *)
(* change the files at any moment.                                         *)
(***************************************************************************)
EXTENDS Integers, FiniteSets, SequencesExt, SequenceFilter

CONSTANTS
  Files,      \* files, by their clean absolute path
  Aliases,    \* other spellings of paths
  Canonical,  \* the file each alias names
  Banks,      \* contents of 16384 bytes
  OtherData,  \* contents of another size
  Roms,       \* curated ROMs: bundled ones and addresses
  MaxRecent,  \* 5
  MaxChanges  \* bound on the changes other programs make

FilesAssumption ==
  /\ Canonical \in [Aliases -> Files] /\ Aliases \cap Files = {}
  /\ Roms \cap (Files \cup Aliases) = {}
  /\ {"bank", ""} \cap (Files \cup Aliases \cup Roms) = {}
  /\ Banks \cap OtherData = {} /\ {"absent", ""} \cap (Banks \cup OtherData) = {}
  /\ MaxRecent \in Nat \ {0} /\ MaxChanges \in Nat

VARIABLES
  disk,             \* what the files hold, or "absent"
  view,             \* the hex view's bytes and the name of their source
  current_filename, \* "" or the path Reload reads
  recent,           \* the setting recent_files
  stored,           \* that setting as last written by sync()
  menu,             \* the entries of the recent-files menu
  reading,          \* a bank read is under way
  gui,              \* what the window's handler waits for
  changes           \* changes other programs made

vars == <<disk, view, current_filename, recent, stored, menu, reading, gui,
          changes>>
lists == <<recent, stored, menu>>
shows == <<view, current_filename>>

Paths == Files \cup Aliases
Contents == Banks \cup OtherData
NoData == [data |-> "", name |-> ""]
Idle == [in |-> "idle", path |-> "", how |-> "", data |-> ""]

\* QDir::cleanPath of the absolute path.
CleanPath(path) == IF path \in Aliases THEN Canonical[path] ELSE path

Init ==
  /\ disk \in [Files -> Contents \cup {"absent"}]
  /\ view = NoData /\ current_filename = ""
  /\ recent = <<>> /\ stored = <<>> /\ menu = <<>>
  /\ reading = FALSE /\ gui = Idle /\ changes = 0
------------------------------------------------------------------------------
(***************************************************************************)
(* Every source of bytes sets the view, its name and the file for Reload.  *)
(***************************************************************************)

Show(data, name, path) ==
  /\ view' = [data |-> data, name |-> name]
  /\ current_filename' = path

KeepsFile == current_filename \* mutant: bank data leaves the old file in place

\* What Reload reads once the view no longer shows a file.
NoFile == ""

\* An event loop runs: not between two steps of open_file and add_recent_file.
RunsEvents == gui.in \notin {"open", "sync"}

\* bank_read_result_ready, in whatever event loop is running.
BankRead ==
  /\ reading /\ RunsEvents
  /\ \E data \in Banks : Show(data, "bank", NoFile)
  /\ reading' = FALSE
  /\ UNCHANGED <<disk, lists, gui, changes>>

StartBankRead ==
  /\ gui = Idle /\ ~reading
  /\ reading' = TRUE
  /\ UNCHANGED <<disk, shows, lists, gui, changes>>

\* thread_cancelled, thread_abort: the read ends without a result.
BankReadEnds ==
  /\ reading /\ RunsEvents
  /\ reading' = FALSE
  /\ UNCHANGED <<disk, shows, lists, gui, changes>>

\* load_default_image: a bundled ROM; one that is damaged shows an error only.
LoadBundled(rom) ==
  /\ gui = Idle
  /\ \E data \in Banks : Show(data, rom, NoFile)
  /\ UNCHANGED <<disk, lists, reading, gui, changes>>

StartDownload(rom) ==
  /\ gui = Idle
  /\ gui' = [Idle EXCEPT !.in = "download", !.path = rom]
  /\ UNCHANGED <<disk, shows, lists, reading, changes>>

\* What load_default_image keeps of a download that succeeded in time.
Downloaded(data) == data \in Banks

\* The event loop of the download was left: by its end, Cancel or the timer.
DownloadEnds ==
  /\ gui.in = "download"
  /\ \/ UNCHANGED shows
     \/ \E data \in Contents : Downloaded(data) /\ Show(data, gui.path, NoFile)
  /\ gui' = Idle
  /\ UNCHANGED <<disk, lists, reading, changes>>
------------------------------------------------------------------------------
(***************************************************************************)
(* open_file, from the dialog, the recent-files menu, a drop or Reload.    *)
(***************************************************************************)

\* The file exists and has the size of a bank; it is opened and read next.
Open(path, how) ==
  /\ gui = Idle
  /\ CASE how = "menu" -> path \in Range(menu)
       [] how = "reload" -> path = current_filename
       [] how = "dialog" -> TRUE   \* and a drop on the hex view
  /\ gui' = [in   |-> IF disk[CleanPath(path)] \in Banks THEN "open" ELSE "warn",
             path |-> path, how |-> how, data |-> ""]
  /\ UNCHANGED <<disk, shows, lists, reading, changes>>

\* add_recent_file: to the front, once.
Added(path) ==
  <<CleanPath(path)>> \o Without(recent, {CleanPath(path)})

FirstOf(files) ==
  SubSeq(files, 1, IF Len(files) < MaxRecent THEN Len(files) ELSE MaxRecent)

\* while(files.size() > 5) files.removeLast().
Trimmed(files) == FirstOf(files)

NotSynced(files) == stored \* mutant: settings.sync() is missing

\* settings.sync().
Synced(files) == files

\* The file is read; it may have changed since its size was looked at.  Unless it
\* was reloaded, it goes into the list of the settings, not yet to their file.
ReadFile ==
  /\ gui.in = "open"
  /\ LET data == disk[CleanPath(gui.path)]
     IN \/ /\ data = "absent"
           /\ gui' = [gui EXCEPT !.in = "warn"]
           /\ UNCHANGED <<shows, lists>>
        \/ /\ data # "absent" /\ gui.how = "reload"
           /\ Show(data, gui.path, gui.path)
           /\ gui' = Idle
           /\ UNCHANGED lists
        \/ /\ data # "absent" /\ gui.how # "reload"
           /\ Show(data, gui.path, gui.path)
           /\ gui' = [gui EXCEPT !.in = "sync"]
           /\ recent' = Trimmed(Added(gui.path))
           /\ UNCHANGED <<stored, menu>>
  /\ UNCHANGED <<disk, reading, changes>>

\* The end of add_recent_file: sync() and update_recent_files_menu.
Sync ==
  /\ gui.in = "sync"
  /\ stored' = Synced(recent)
  /\ menu' = recent
  /\ gui' = Idle
  /\ UNCHANGED <<disk, shows, recent, reading, changes>>

ForgetsAll(path) == TRUE \* mutant: any failure drops the entry

\* Whether slot_open_recent_file drops the entry that could not be opened.
Gone(path) == disk[CleanPath(path)] = "absent"

\* The warning is dismissed, after an event loop of its own.
Dismiss ==
  /\ gui.in = "warn"
  /\ gui' = Idle
  /\ IF gui.how = "menu" /\ Gone(gui.path)
       THEN /\ recent' = Without(recent, {gui.path})
            /\ menu' = recent'
            /\ UNCHANGED stored
       ELSE UNCHANGED lists
  /\ UNCHANGED <<disk, shows, reading, changes>>
------------------------------------------------------------------------------
(***************************************************************************)
(* slot_save: the bytes are taken before the dialog opens.                 *)
(***************************************************************************)

Save ==
  /\ gui = Idle /\ view.data # ""
  /\ gui' = [Idle EXCEPT !.in = "save", !.data = view.data]
  /\ UNCHANGED <<disk, shows, lists, reading, changes>>

\* The file chosen is replaced as a whole (QSaveFile), or not at all.
SaveTo(path) ==
  /\ gui.in = "save"
  /\ disk' = [disk EXCEPT ![CleanPath(path)] = gui.data]
  /\ gui' = Idle
  /\ UNCHANGED <<shows, lists, reading, changes>>

SaveFails ==
  /\ gui.in = "save"
  /\ gui' = Idle
  /\ UNCHANGED <<disk, shows, lists, reading, changes>>
------------------------------------------------------------------------------
\* Another program writes or removes a file.
Change(file) ==
  /\ changes < MaxChanges
  /\ changes' = changes + 1
  /\ \E data \in (Contents \cup {"absent"}) \ {disk[file]} :
       disk' = [disk EXCEPT ![file] = data]
  /\ UNCHANGED <<shows, lists, reading, gui>>

\* Studio ends, in order or by a crash, and is started again: what sync() did
\* not write may have been written or not.
Restart ==
  /\ view' = NoData /\ current_filename' = "" /\ reading' = FALSE /\ gui' = Idle
  /\ recent' \in {recent, stored}
  /\ stored' = recent' /\ menu' = recent'
  /\ UNCHANGED <<disk, changes>>

Next ==
  \/ BankRead \/ BankReadEnds \/ StartBankRead
  \/ \E rom \in Roms : LoadBundled(rom) \/ StartDownload(rom)
  \/ DownloadEnds
  \/ \E path \in Paths, how \in {"dialog", "menu", "reload"} : Open(path, how)
  \/ ReadFile \/ Sync \/ Dismiss
  \/ Save \/ SaveFails \/ \E path \in Paths : SaveTo(path)
  \/ \E file \in Files : Change(file)
  \/ Restart

Spec == Init /\ [][Next]_vars
------------------------------------------------------------------------------
\* The members of MainWindow the view and the lists are kept in
\* (mainwindow.cpp:1197-1199, 1251-1254), the list within its bound.
TypeOK ==
  /\ disk \in [Files -> Contents \cup {"absent"}]
  /\ view \in [data : Contents \cup {""}, name : Paths \cup Roms \cup {"bank", ""}]
  /\ current_filename \in Paths \cup {""}
  /\ \A list \in {recent, stored, menu} : Len(list) <= MaxRecent
  /\ reading \in BOOLEAN /\ changes \in 0 .. MaxChanges
  /\ gui \in [in   : {"idle", "open", "sync", "warn", "save", "download"},
              path : Paths \cup Roms \cup {""},
              how  : {"dialog", "menu", "reload", ""}, data : Contents \cup {""}]

\* Reload reads the file the view shows: bytes that came from a bank, a bundled
\* ROM or a download, even while another dialog was open, are never under a
\* path that Reload would read instead (mainwindow.cpp:907-920, 1193-1199,
\* 1216-1219, 1302-1309, 1336-1346).
ReloadsWhatIsShown ==
  IF view.name \in Paths THEN current_filename = view.name
                         ELSE current_filename = ""

\* A file is in the list of recent files at most once, however it was spelled
\* when it was opened, and the menu shows the list once it is written
\* (mainwindow.cpp:1238-1275).
RecentOnce ==
  /\ IsInjective(recent) /\ Range(recent) \subseteq Files
  /\ gui.in # "sync" => menu = recent

\* A file leaves the list only when it was missing as the user asked for it, when it
\* is the oldest of a full list and another one was opened, or when Studio crashes
\* before the settings are written, and then only the one just opened.  None comes
\* back unless it is opened again, or Studio ends before it has written that it
\* was removed (mainwindow.cpp:1245-1254, 1277-1291).
NeverForgotten ==
  [][/\ \A f \in Range(recent) \ Range(recent') :
          \/ disk[f] = "absent"
          \/ gui'.in = "sync" /\ Len(recent') = MaxRecent /\ f = Last(recent)
          \/ gui.in = "sync" /\ f = CleanPath(gui.path)
     /\ \A f \in Range(recent') \ Range(recent) :
          \/ gui'.in = "sync" /\ f = CleanPath(gui.path)
          \/ f \in Range(stored)]_vars

\* A download is shown only when it is one bank (mainwindow.cpp:1325-1343).
DownloadIsABank == view.name \in Roms => view.data \in Banks
=============================================================================
