------------------------- MODULE StudioSessionProofs -------------------------
(***************************************************************************)
(* Proofs about the main window and its workers, for every geometry, every *)
(* set of contents and any bounds on operations and unplugging.            *)
(***************************************************************************)
EXTENDS StudioSession, TLAPS

Threads ==
  [pc : {"null", "open", "erase", "program", "read", "closing", "finished"}, op : Ops,
   iface : BOOLEAN, at : 0 .. NBanks * PerBank,
   got : {s \in Seq(Contents) : Len(s) <= NBanks * PerBank}, intr : BOOLEAN, lost : BOOLEAN]

CartridgeTypes ==
  present \in BOOLEAN /\ away \in BOOLEAN /\ plugs \in 0 .. MaxPlugs /\ flash \in [Blocks -> Contents]
WindowTypes ==
  /\ iface \in BOOLEAN /\ board \in BOOLEAN /\ chip \in BOOLEAN /\ other \in BOOLEAN
  /\ busy \in BOOLEAN /\ cancellable \in BOOLEAN
  /\ dialog \in {"none", "file", "confirm", "message"} /\ release \in BOOLEAN
  /\ alive \in {"running", "quit", "crashed"}
  /\ outcome \in {"none", "read", "unsaved", "verified", "mismatch", "erased", "cancelled", "aborted"}
  /\ stopped \in BOOLEAN
JobTypes == op \in Ops /\ data \in Seq(Values) /\ ops \in 0 .. MaxOps
WorkerTypes ==
  flasher \in Threads /\ reader \in Threads /\ posted \in {<<>>} \cup {<<s>> : s \in Signals}

\* How far workers may be, and what they work with.
Progress ==
  /\ flasher.pc = "open" => flasher.at = 0
  /\ reader.pc = "open" => reader.at = 0 /\ reader.got = <<>>
  /\ Live(flasher) => flasher.at <= Count(op) /\ (op.kind \in Writes => Len(data) = Count(op))
  /\ Live(reader) => reader.at <= BankCount(op) /\ Len(reader.got) = reader.at * PerBank
  /\ dialog \in {"file", "confirm"} => ops < MaxOps

\* The phases of an operation: nothing goes on; one worker works; it has posted
\* that it failed and closes its port; its signal waits; a message waits.
Working(t) == Live(t) /\ t.pc # "closing"
Phase ==
  /\ ~(Live(flasher) /\ Live(reader))
  /\ Live(flasher) \/ Live(reader) \/ posted # <<>> => busy /\ ~release
  /\ Working(flasher) \/ Working(reader) => posted = <<>>
  /\ flasher.pc = "closing" \/ reader.pc = "closing" => posted = <<"abort">>
  /\ release => busy /\ dialog = "message"
  /\ dialog \in {"file", "confirm"} => ~busy
  /\ flasher.pc # "read" /\ reader.pc \notin {"erase", "program"}

\* Workers are about the operation that the window is about.
Targets ==
  /\ Live(flasher) => flasher.op = op /\ op.kind \in Writes \cup Erases
  /\ flasher.pc = "program" => op.kind \in Writes
  /\ Live(reader) => reader.op = op

SessionInv ==
  /\ CartridgeTypes /\ WindowTypes /\ JobTypes /\ WorkerTypes
  /\ Progress /\ Phase /\ Targets

LEMMA OpFacts ==
  ASSUME NEW o \in Ops
  PROVE  /\ First(o) \in Nat /\ Count(o) \in Nat /\ FirstBank(o) \in Nat /\ BankCount(o) \in Nat
         /\ First(o) = FirstBank(o) * PerBank /\ Count(o) = BankCount(o) * PerBank
         /\ FirstBank(o) + BankCount(o) <= NBanks /\ NBanks \in Nat /\ PerBank \in Nat
         /\ PerBank > 0
<1>1. CASE o.kind \in Complete
  BY <1>1, SessionAssumption DEF First, Count, FirstBank, BankCount
<1>2. CASE o.kind \notin Complete
  <2>1. o.bank \in 0 .. NBanks - 1
    BY <1>2 DEF Ops, Banks
  <2> QED
    BY <1>2, <2>1, SessionAssumption DEF First, Count, FirstBank, BankCount
<1> QED
  BY <1>1, <1>2

\* A bank lies in the flash, and as many blocks as banks at least.
LEMMA Times ==
  ASSUME NEW m \in Nat, NEW n \in Nat, NEW p \in Nat, m <= n, p > 0
  PROVE  m * p <= n * p /\ m <= n * p /\ n * p \in Nat /\ m * p \in Nat /\ (m + 1) * p = m * p + p
OBVIOUS

LEMMA Bounds ==
  ASSUME NEW o \in Ops
  PROVE  /\ Count(o) <= NBanks * PerBank /\ BankCount(o) <= NBanks
         /\ \A n \in Nat : n <= BankCount(o) =>
              n <= NBanks * PerBank /\ n * PerBank <= NBanks * PerBank
         /\ \A n \in Nat : n < BankCount(o) => FirstBank(o) + n + 1 <= NBanks
<1>1. /\ BankCount(o) \in Nat /\ FirstBank(o) \in Nat /\ NBanks \in Nat
      /\ PerBank \in Nat /\ PerBank > 0
      /\ FirstBank(o) + BankCount(o) <= NBanks /\ Count(o) = BankCount(o) * PerBank
  BY OpFacts
<1>2. BankCount(o) <= NBanks
  BY <1>1
<1>3. ASSUME NEW n \in Nat, n <= BankCount(o)
      PROVE  n <= NBanks * PerBank /\ n * PerBank <= NBanks * PerBank
  <2>1. n <= NBanks
    BY <1>1, <1>2, <1>3
  <2> QED
    BY <1>1, <2>1, Times
<1>4. \A n \in Nat : n < BankCount(o) => FirstBank(o) + n + 1 <= NBanks
  BY <1>1
<1> QED
  BY <1>1, <1>2, <1>3, <1>4

LEMMA Nulls == [kind |-> "read_rom", bank |-> 0] \in Ops /\ NoThread \in Threads
<1>1. [kind |-> "read_rom", bank |-> 0] \in Ops
  BY DEF Ops, Complete
<1>2. 0 \in 0 .. NBanks * PerBank
  BY <1>1, OpFacts, Times
<1>3. <<>> \in {s \in Seq(Contents) : Len(s) <= NBanks * PerBank}
  BY <1>2
<1> QED
  BY <1>1, <1>2, <1>3 DEF NoThread, Threads

LEMMA NoThreadFacts ==
  NoThread \in Threads /\ NoThread.pc = "null" /\ ~Live(NoThread) /\ ~Working(NoThread)
<1>1. NoThread.pc = "null"
  BY DEF NoThread
<1> QED
  BY <1>1, Nulls DEF Live, Working

LEMMA NewThread ==
  ASSUME NEW o \in Ops, iface \in BOOLEAN
  PROVE  /\ Thread(o) \in Threads /\ Thread(o).pc = "open" /\ Thread(o).op = o
         /\ Thread(o).at = 0 /\ Thread(o).got = <<>>
         /\ Live(Thread(o)) /\ Working(Thread(o))
<1>1. NoThread \in Threads /\ NoThread.at = 0 /\ NoThread.got = <<>>
  BY Nulls DEF NoThread
<1>2. /\ Thread(o) \in Threads /\ Thread(o).pc = "open" /\ Thread(o).op = o
      /\ Thread(o).at = 0 /\ Thread(o).got = <<>>
  BY <1>1 DEF Thread, Threads
<1> QED
  BY <1>2 DEF Live, Working

LEMMA TypesAreRight == SessionInv => TypeOK
<1> SUFFICES ASSUME SessionInv PROVE TypeOK
  OBVIOUS
<1>1. ThreadOK(flasher) /\ ThreadOK(reader)
  BY DEF SessionInv, WorkerTypes, Threads, ThreadOK
<1>2. posted \in Seq(Signals) /\ Len(posted) <= 1
  <2>1. posted = <<>> \/ \E s \in Signals : posted = <<s>>
    BY DEF SessionInv, WorkerTypes
  <2>2. CASE posted = <<>>
    BY <2>2
  <2>3. CASE \E s \in Signals : posted = <<s>>
    BY <2>3
  <2> QED
    BY <2>1, <2>2, <2>3
<1> QED
  BY <1>1, <1>2 DEF SessionInv, CartridgeTypes, WindowTypes, JobTypes, TypeOK

LEMMA SessionInit == Init => SessionInv
<1> SUFFICES ASSUME Init PROVE SessionInv
  OBVIOUS
<1>1. CartridgeTypes
  <2>1. flash \in [Blocks -> Contents]
    BY DEF Init, Contents
  <2>2. present \in BOOLEAN /\ away \in BOOLEAN
    BY DEF Init
  <2>3. 0 \in 0 .. MaxPlugs /\ plugs = 0
    BY SessionAssumption DEF Init
  <2> QED
    BY <2>1, <2>2, <2>3 DEF CartridgeTypes
<1>2. WindowTypes
  BY DEF Init, WindowTypes
<1>3. JobTypes
  BY Nulls, SessionAssumption DEF Init, JobTypes
<1>4. flasher = NoThread /\ reader = NoThread /\ posted = <<>> /\ ~release /\ dialog = "none"
  BY DEF Init
<1>5. WorkerTypes
  BY <1>4, Nulls DEF WorkerTypes
<1>6. Progress /\ Phase /\ Targets
  BY <1>4, NoThreadFacts DEF Progress, Phase, Targets
<1> QED
  BY <1>1, <1>2, <1>3, <1>5, <1>6 DEF SessionInv

-----------------------------------------------------------------------------
\* Steps of the window while nothing goes on.
LEMMA NothingGoesOn ==
  ASSUME SessionInv, ~busy
  PROVE  ~Live(flasher) /\ ~Live(reader) /\ posted = <<>> /\ ~release
BY DEF SessionInv, Phase

LEMMA QuietKeeps ==
  ASSUME SessionInv, ~busy, busy' = FALSE, release' = FALSE, WindowTypes', op' \in Ops,
         dialog' \in {"file", "confirm"} => ops < MaxOps,
         UNCHANGED <<cartridge, data, threads, posted, ops>>
  PROVE  SessionInv'
<1>1. ~Live(flasher) /\ ~Live(reader) /\ posted = <<>>
  BY NothingGoesOn
<1>2. UNCHANGED <<present, away, plugs, flash, flasher, reader, posted>>
  BY DEF cartridge, threads
<1>3. CartridgeTypes' /\ JobTypes' /\ WorkerTypes'
  BY <1>2 DEF SessionInv, CartridgeTypes, JobTypes, WorkerTypes
<1>4. Progress' /\ Phase' /\ Targets'
  BY <1>1, <1>2 DEF SessionInv, Progress, Phase, Targets, Live, Working
<1> QED
  BY <1>3, <1>4 DEF SessionInv

\* An operation starts while nothing goes on.
LEMMA StartKeeps ==
  ASSUME SessionInv, ~busy, NEW o \in Ops, NEW image, Start(o, image), op' = o, ops < MaxOps,
         o.kind \in Writes => image \in Images(o),
         release' = release, dialog' = "none", UNCHANGED <<cartridge, connection, posted, alive>>
  PROVE  SessionInv'
<1>1. ~Live(flasher) /\ ~Live(reader) /\ posted = <<>> /\ ~release
  BY NothingGoesOn
<1>2. /\ UNCHANGED <<present, away, plugs, flash, iface, board, chip, other, posted, alive>>
      /\ busy' = TRUE /\ cancellable' = TRUE /\ outcome' = "none" /\ stopped' = FALSE
      /\ ops' = ops + 1
  BY DEF cartridge, connection, Start, SetBusy
<1>3. data' \in Seq(Values) /\ (o.kind \in Writes => Len(data') = Count(o))
  <2>1. CASE o.kind \in Writes
    <3>1. image \in [1 .. Count(o) -> Values] /\ Count(o) \in Nat /\ data' = image
      BY <2>1, OpFacts DEF Start, Images
    <3> QED
      BY <3>1
  <2>2. CASE o.kind \notin Writes
    BY <2>2 DEF Start, SessionInv, JobTypes
  <2> QED
    BY <2>1, <2>2
<1>4. CartridgeTypes' /\ WindowTypes'
  BY <1>2 DEF SessionInv, CartridgeTypes, WindowTypes
<1>5. JobTypes'
  BY <1>2, <1>3, SessionAssumption DEF SessionInv, JobTypes
<1>6. iface \in BOOLEAN
  BY DEF SessionInv, WindowTypes
<1>7. CASE o.kind \in Writes \cup Erases
  <2>1. flasher' = Thread(o) /\ reader' = reader
    BY <1>7 DEF Start
  <2>2. WorkerTypes'
    BY <1>2, <1>6, <2>1, NewThread DEF SessionInv, WorkerTypes
  <2>3. ~Live(reader') /\ ~Working(reader') /\ Live(flasher') /\ flasher'.pc = "open"
        /\ flasher'.op = o /\ flasher'.at = 0 /\ reader'.pc \in {"null", "finished"}
    BY <1>1, <1>6, <2>1, NewThread DEF Working, Live
  <2>4. 0 <= Count(o)
    BY OpFacts
  <2>5. Progress' /\ Phase' /\ Targets'
    BY <1>1, <1>2, <1>3, <1>7, <2>3, <2>4 DEF Progress, Phase, Targets
  <2> QED
    BY <1>4, <1>5, <2>2, <2>5 DEF SessionInv
<1>8. CASE o.kind \notin Writes \cup Erases
  <2>1. reader' = Thread(o) /\ flasher' = flasher
    BY <1>8 DEF Start
  <2>2. WorkerTypes'
    BY <1>2, <1>6, <2>1, NewThread DEF SessionInv, WorkerTypes
  <2>3. ~Live(flasher') /\ ~Working(flasher') /\ Live(reader') /\ reader'.pc = "open"
        /\ reader'.op = o /\ reader'.at = 0 /\ reader'.got = <<>> /\ flasher'.pc \in {"null", "finished"}
    BY <1>1, <1>6, <2>1, NewThread DEF Working, Live
  <2>4. 0 <= BankCount(o) /\ Len(<<>>) = 0 * PerBank
    BY OpFacts
  <2>5. Progress' /\ Phase' /\ Targets'
    BY <1>1, <1>2, <2>3, <2>4 DEF Progress, Phase, Targets
  <2> QED
    BY <1>4, <1>5, <2>2, <2>5 DEF SessionInv
<1> QED
  BY <1>7, <1>8

-----------------------------------------------------------------------------
\* Steps that leave every worker where it is.
LEMMA SamePlacesKeep ==
  ASSUME SessionInv, CartridgeTypes', WindowTypes', flasher' \in Threads, reader' \in Threads,
         flasher'.pc = flasher.pc, flasher'.op = flasher.op, flasher'.at = flasher.at,
         reader'.pc = reader.pc, reader'.op = reader.op, reader'.at = reader.at,
         reader'.got = reader.got,
         UNCHANGED <<busy, dialog, release, op, data, posted, ops>>
  PROVE  SessionInv'
<1>1. JobTypes' /\ WorkerTypes'
  BY DEF SessionInv, JobTypes, WorkerTypes
<1>2. Progress' /\ Phase' /\ Targets'
  BY DEF SessionInv, Progress, Phase, Targets, Live, Working
<1> QED
  BY <1>1, <1>2 DEF SessionInv

\* A thread's step to its end.
LEMMA Marked ==
  ASSUME NEW t \in Threads, NEW p \in {"closing", "finished"}
  PROVE  /\ [t EXCEPT !.pc = p] \in Threads /\ [t EXCEPT !.pc = p].pc = p
         /\ [t EXCEPT !.pc = p].op = t.op /\ [t EXCEPT !.pc = p].at = t.at
         /\ [t EXCEPT !.pc = p].got = t.got
BY DEF Threads

\* Marking a thread, as cancel_operation does, or as the loss of its device does.
LEMMA InterruptMarks ==
  ASSUME NEW t \in Threads
  PROVE  /\ Interrupt(t) \in Threads /\ Interrupt(t).pc = t.pc /\ Interrupt(t).op = t.op
         /\ Interrupt(t).at = t.at /\ Interrupt(t).got = t.got
<1> DEFINE b == Live(t)
<1>1. b \in BOOLEAN /\ Interrupt(t) = [t EXCEPT !.intr = b]
  BY DEF Interrupt, Live
<1> HIDE DEF b
<1> QED
  BY <1>1 DEF Threads

LEMMA LoseMarks ==
  ASSUME NEW t \in Threads
  PROVE  /\ Lose(t) \in Threads /\ Lose(t).pc = t.pc /\ Lose(t).op = t.op
         /\ Lose(t).at = t.at /\ Lose(t).got = t.got
<1> DEFINE b == t.pc \in {"erase", "program", "read"}
<1>1. b \in BOOLEAN /\ Lose(t) = [t EXCEPT !.lost = b]
  BY DEF Lose
<1> HIDE DEF b
<1> QED
  BY <1>1 DEF Threads

\* The blocks in scope lie in the flash, and a cut leaves contents in the blocks.
LEMMA ScopeInFlash ==
  ASSUME NEW o \in Ops
  PROVE  Scope(o) \subseteq Blocks /\ First(o) + Count(o) <= NBanks * PerBank
<1>1. /\ First(o) \in Nat /\ Count(o) \in Nat /\ FirstBank(o) \in Nat /\ BankCount(o) \in Nat
      /\ First(o) = FirstBank(o) * PerBank /\ Count(o) = BankCount(o) * PerBank
      /\ FirstBank(o) + BankCount(o) <= NBanks /\ NBanks \in Nat /\ PerBank \in Nat /\ PerBank > 0
  BY OpFacts
<1>2. (FirstBank(o) + BankCount(o)) * PerBank = First(o) + Count(o)
  BY <1>1
<1>3. (FirstBank(o) + BankCount(o)) * PerBank <= NBanks * PerBank /\ NBanks * PerBank \in Nat
  BY <1>1, Times
<1> QED
  BY <1>1, <1>2, <1>3 DEF Scope, Blocks

LEMMA CutTypes ==
  ASSUME SessionInv, flash' \in Cut
  PROVE  flash' \in [Blocks -> Contents]
<1>1. flash \in [Blocks -> Contents] /\ flasher \in Threads /\ data \in Seq(Values)
  BY DEF SessionInv, CartridgeTypes, WorkerTypes, JobTypes
<1>2. CASE flasher.pc = "erase"
  <2>1. PICK S \in SUBSET Scope(flasher.op), c \in {Blank, Torn} :
          flash' = [i \in Blocks |-> IF i \in S THEN c ELSE flash[i]]
    BY <1>2 DEF Cut
  <2> QED
    BY <1>1, <2>1 DEF Contents
<1>3. CASE flasher.pc = "program" /\ flasher.at < Count(flasher.op)
  <2>1. flash' = flash \/ \E c \in {data[flasher.at + 1], Torn} :
          flash' = [flash EXCEPT ![BlockOf(flasher)] = c]
    BY <1>3 DEF Cut
  <2>2. Live(flasher)
    BY <1>3 DEF Live
  <2>3. flasher.op = op /\ Len(data) = Count(op) /\ op \in Ops
    BY <1>3, <2>2 DEF SessionInv, Targets, Progress, JobTypes
  <2>4. flasher.at + 1 \in 1 .. Len(data)
    BY <1>1, <1>3, <2>3, OpFacts DEF Threads
  <2>5. data[flasher.at + 1] \in Contents /\ Torn \in Contents
    BY <1>1, <2>4 DEF Contents
  <2> QED
    BY <1>1, <2>1, <2>5
<1>4. CASE flasher.pc # "erase" /\ ~(flasher.pc = "program" /\ flasher.at < Count(flasher.op))
  BY <1>1, <1>4 DEF Cut
<1> QED
  BY <1>2, <1>3, <1>4

LEMMA CancelKeeps == SessionInv /\ Cancel => SessionInv'
<1> SUFFICES ASSUME SessionInv, Cancel PROVE SessionInv'
  OBVIOUS
<1>1. flasher \in Threads /\ reader \in Threads
  BY DEF SessionInv, WorkerTypes
<1>2. reader' = Interrupt(reader) /\ flasher' = Interrupt(flasher)
      /\ UNCHANGED <<cartridge, connection, busy, dialog, release, job, posted, alive, outcome, ops>>
      /\ cancellable' = FALSE /\ stopped' = (flasher.pc = "program")
  BY DEF Cancel
<1>3. UNCHANGED <<present, away, plugs, flash, iface, board, chip, other, busy, dialog, release, op, data,
                  posted, alive, outcome, ops>>
  BY <1>2 DEF cartridge, connection, job
<1>4. cancellable' \in BOOLEAN /\ stopped' \in BOOLEAN
  BY <1>2
<1>5. CartridgeTypes'
  BY <1>3 DEF SessionInv, CartridgeTypes
<1>6. WindowTypes'
  BY <1>3, <1>4 DEF SessionInv, WindowTypes
<1>7. /\ flasher' \in Threads /\ flasher'.pc = flasher.pc /\ flasher'.op = flasher.op
      /\ flasher'.at = flasher.at
  BY <1>1, <1>2, InterruptMarks
<1>8. /\ reader' \in Threads /\ reader'.pc = reader.pc /\ reader'.op = reader.op
      /\ reader'.at = reader.at /\ reader'.got = reader.got
  BY <1>1, <1>2, InterruptMarks
<1> QED
  BY <1>3, <1>5, <1>6, <1>7, <1>8, SamePlacesKeep

LEMMA QuitKeeps == SessionInv /\ Quit => SessionInv'
<1> SUFFICES ASSUME SessionInv, Quit PROVE SessionInv'
  OBVIOUS
<1>1. flasher \in Threads /\ reader \in Threads
  BY DEF SessionInv, WorkerTypes
<1>2. reader' = Interrupt(reader) /\ flasher' = Interrupt(flasher) /\ alive' = "quit"
      /\ UNCHANGED <<cartridge, connection, window, job, posted, history>>
  BY DEF Quit
<1>3. CartridgeTypes'
  BY <1>2 DEF SessionInv, CartridgeTypes, cartridge
<1>4. WindowTypes'
  BY <1>2 DEF SessionInv, WindowTypes, connection, window, history
<1> QED
  BY <1>1, <1>2, <1>3, <1>4, InterruptMarks, SamePlacesKeep DEF job, window, history

LEMMA UnplugKeeps == SessionInv /\ Unplug => SessionInv'
<1> SUFFICES ASSUME SessionInv, Unplug PROVE SessionInv'
  OBVIOUS
<1>1. flasher \in Threads /\ reader \in Threads
  BY DEF SessionInv, WorkerTypes
<1>2. /\ reader' = Lose(reader) /\ flasher' = Lose(flasher) /\ flash' \in Cut
      /\ plugs < MaxPlugs /\ plugs' = plugs + 1 /\ present' = FALSE /\ away' = TRUE
      /\ UNCHANGED <<connection, window, job, posted, alive, history>>
  BY DEF Unplug
<1>3. CartridgeTypes'
  <2>1. plugs' \in 0 .. MaxPlugs
    BY <1>2, SessionAssumption DEF SessionInv, CartridgeTypes
  <2> QED
    BY <1>2, <2>1, CutTypes DEF CartridgeTypes
<1>4. WindowTypes'
  BY <1>2 DEF SessionInv, WindowTypes, connection, window, history
<1> QED
  BY <1>1, <1>2, <1>3, <1>4, LoseMarks, SamePlacesKeep DEF job, window, history

LEMMA PlugKeeps == SessionInv /\ Plug => SessionInv'
<1> SUFFICES ASSUME SessionInv, Plug PROVE SessionInv'
  OBVIOUS
<1>1. flasher \in Threads /\ reader \in Threads
  BY DEF SessionInv, WorkerTypes
<1>2. /\ present' = TRUE /\ flash' \in {flash} \cup {[i \in Blocks |-> c] : c \in Values}
      /\ other' \in BOOLEAN
      /\ UNCHANGED <<away, plugs, iface, board, chip, window, job, threads, posted, alive, history>>
  BY DEF Plug
<1>3. CartridgeTypes'
  <2>1. flash' \in [Blocks -> Contents]
    BY <1>2 DEF SessionInv, CartridgeTypes, Contents
  <2> QED
    BY <1>2, <2>1 DEF SessionInv, CartridgeTypes
<1>4. WindowTypes'
  BY <1>2 DEF SessionInv, WindowTypes, window, history
<1> QED
  BY <1>1, <1>2, <1>3, <1>4, SamePlacesKeep DEF job, window, history, threads

LEMMA CrashKeeps ==
  ASSUME SessionInv, NEW t, CrashOnNull(t)
  PROVE  SessionInv'
<1>1. flasher \in Threads /\ reader \in Threads
  BY DEF SessionInv, WorkerTypes
<1>2. /\ alive' = "crashed"
      /\ UNCHANGED <<cartridge, connection, window, job, threads, posted, history>>
  BY DEF CrashOnNull
<1>3. CartridgeTypes'
  BY <1>2 DEF SessionInv, CartridgeTypes, cartridge
<1>4. WindowTypes'
  BY <1>2 DEF SessionInv, WindowTypes, connection, window, history
<1> QED
  BY <1>1, <1>2, <1>3, <1>4, SamePlacesKeep DEF job, window, history, threads

-----------------------------------------------------------------------------
\* A step of the flash thread: it goes on, fails, is done, or closes its port.
LEMMA FlasherKeeps ==
  ASSUME SessionInv, Live(flasher), flasher' \in Threads, flasher'.op = flasher.op,
         flash' \in [Blocks -> Contents], away' \in BOOLEAN,
         \/ /\ Working(flasher) /\ posted' = posted
            /\ \/ flasher'.pc = "erase"
               \/ flasher'.pc = "program" /\ op.kind \in Writes
            /\ flasher'.at <= Count(op)
         \/ Working(flasher) /\ posted' = <<"abort">> /\ flasher'.pc = "closing" /\ flasher'.at = flasher.at
         \/ Working(flasher) /\ (\E s \in Signals : posted' = <<s>>) /\ flasher'.pc = "finished"
         \/ ~Working(flasher) /\ posted' = posted /\ flasher'.pc = "finished",
         UNCHANGED <<present, plugs, connection, window, job, reader, alive, history>>
  PROVE  SessionInv'
<1>1. /\ UNCHANGED <<present, plugs, iface, board, chip, other, busy, cancellable, dialog, release, op, data>>
      /\ UNCHANGED <<reader, alive, outcome, stopped, ops>>
  BY DEF connection, window, job, history
<1>2. CartridgeTypes' /\ WindowTypes' /\ JobTypes'
  BY <1>1 DEF SessionInv, CartridgeTypes, WindowTypes, JobTypes
<1>3. "abort" \in Signals
  BY DEF Signals
<1>4. WorkerTypes'
  BY <1>1, <1>3 DEF SessionInv, WorkerTypes
<1>5. ~Live(reader) /\ busy /\ ~release /\ (Working(flasher) => posted = <<>>)
  BY DEF SessionInv, Phase
<1>6. Progress'
  BY <1>1, <1>5 DEF SessionInv, Progress, Live
<1>7. Phase'
  BY <1>1, <1>5 DEF SessionInv, Phase, Live, Working
<1>8. Targets'
  BY <1>1, <1>5 DEF SessionInv, Targets, Live, Working
<1> QED
  BY <1>2, <1>4, <1>6, <1>7, <1>8 DEF SessionInv

LEMMA PostAfterNothing ==
  ASSUME NEW s, posted = <<>>, Post(s)
  PROVE  posted' = <<s>>
BY DEF Post

LEMMA FlasherActionKeeps ==
  SessionInv /\ Flasher => SessionInv'
<1> SUFFICES ASSUME SessionInv, Flasher PROVE SessionInv'
  OBVIOUS
<1>1. CASE CrashOnNull(flasher)
  BY <1>1, CrashKeeps
<1>2. CASE /\ FlasherOpens \/ FlasherErases \/ FlasherPrograms \/ FlasherEnds
           /\ UNCHANGED <<present, plugs, connection, window, job, reader, alive, history>>
  <2> USE <1>2
  <2>1. flasher \in Threads /\ flash \in [Blocks -> Contents] /\ away \in BOOLEAN /\ op \in Ops
        /\ data \in Seq(Values)
    BY DEF SessionInv, WorkerTypes, CartridgeTypes, JobTypes
  <2>2. Live(flasher)
    BY DEF FlasherOpens, FlasherErases, FlasherPrograms, FlasherEnds, Opens, Live
  <2>3. flasher.op = op /\ flasher.at <= Count(op) /\ flasher.at \in Nat /\ Count(op) \in Nat
        /\ op.kind \in Writes \cup Erases
        /\ (op.kind \in Writes => Len(data) = Count(op)) /\ (flasher.pc = "program" => op.kind \in Writes)
    BY <2>1, <2>2, OpFacts DEF SessionInv, Targets, Progress, Threads
  <2>4. Working(flasher) => posted = <<>>
    BY DEF SessionInv, Phase
  <2>5. "abort" \in Signals /\ "cancelled" \in Signals /\ "erase_result" \in Signals
        /\ "flash_result" \in Signals
    BY DEF Signals
  <2>6. ASSUME FlasherFails, Working(flasher), flash' \in [Blocks -> Contents], away' \in BOOLEAN
        PROVE  SessionInv'
    <3>1. flasher' = [flasher EXCEPT !.pc = "closing"] /\ posted' = <<"abort">>
      BY <2>4, <2>6, PostAfterNothing DEF FlasherFails
    <3> QED
      BY <2>1, <2>2, <2>6, <3>1, Marked, FlasherKeeps
  <2>7. ASSUME FlasherCallFails, Working(flasher), away' \in BOOLEAN
        PROVE  SessionInv'
    <3>1. flash' \in [Blocks -> Contents]
      BY <2>1, <2>7, CutTypes DEF FlasherCallFails
    <3> QED
      BY <2>6, <2>7, <3>1 DEF FlasherCallFails
  <2>8. ASSUME flasher' = Finish(flasher), Working(flasher), NEW s \in Signals, Post(s),
               flash' \in [Blocks -> Contents], away' \in BOOLEAN
        PROVE  SessionInv'
    <3>1. flasher' = [flasher EXCEPT !.pc = "finished"] /\ posted' = <<s>>
      BY <2>4, <2>8, PostAfterNothing DEF Finish
    <3>2. flasher' \in Threads /\ flasher'.pc = "finished" /\ flasher'.op = flasher.op
      BY <2>1, <3>1, Marked
    <3>3. \E x \in Signals : posted' = <<x>>
      BY <3>1
    <3> QED
      BY <2>2, <2>8, <3>2, <3>3, FlasherKeeps
  <2>9. CASE FlasherOpens
    <3>1. Working(flasher)
      BY <2>9 DEF FlasherOpens, Opens, Working, Live
    <3>2. CASE Opens(flasher) /\ flasher' = [flasher EXCEPT !.pc = "erase"] /\ UNCHANGED flash
      <4>1. flasher' \in Threads /\ flasher'.pc = "erase" /\ flasher'.op = flasher.op
            /\ flasher'.at = flasher.at
        BY <2>1, <3>2 DEF Threads
      <4> QED
        BY <2>1, <2>2, <2>3, <3>1, <3>2, <4>1, FlasherKeeps DEF Opens
    <3>3. CASE FlasherFails /\ UNCHANGED <<away, flash>>
      BY <2>1, <2>6, <3>1, <3>3
    <3> QED
      BY <2>9, <3>2, <3>3 DEF FlasherOpens
  <2>10. CASE FlasherErases
    <3>1. Working(flasher) /\ away' \in BOOLEAN /\ flasher.pc = "erase"
      BY <2>1, <2>10 DEF FlasherErases, Working, Live
    <3>2. CASE /\ flash' = [i \in Blocks |-> IF i \in Scope(flasher.op) THEN Blank ELSE flash[i]]
               /\ IF flasher.op.kind \in Erases \/ flasher.intr
                  THEN /\ flasher' = Finish(flasher)
                       /\ Post(IF flasher.intr THEN "cancelled" ELSE "erase_result")
                  ELSE /\ flasher' = [flasher EXCEPT !.pc = "program"]
                       /\ UNCHANGED posted
      <4>1. flash' \in [Blocks -> Contents]
        BY <2>1, <3>2 DEF Contents
      <4>2. CASE flasher.op.kind \in Erases \/ flasher.intr
        BY <2>5, <2>8, <3>1, <3>2, <4>1, <4>2
      <4>3. CASE ~(flasher.op.kind \in Erases \/ flasher.intr)
        <5>1. flasher' \in Threads /\ flasher'.pc = "program" /\ flasher'.op = flasher.op
              /\ flasher'.at = flasher.at
          BY <2>1, <3>2, <4>3 DEF Threads
        <5> QED
          BY <2>1, <2>2, <2>3, <3>1, <3>2, <4>1, <4>3, <5>1, FlasherKeeps
      <4> QED
        BY <4>2, <4>3
    <3> QED
      BY <2>7, <2>10, <3>1, <3>2 DEF FlasherErases
  <2>11. CASE FlasherPrograms
    <3>1. Working(flasher) /\ away' \in BOOLEAN /\ flasher.pc = "program"
      BY <2>1, <2>11 DEF FlasherPrograms, Working, Live
    <3>2. CASE flasher' = Finish(flasher) /\ Post("flash_result") /\ UNCHANGED flash
      BY <2>1, <2>5, <2>8, <3>1, <3>2
    <3>3. CASE flasher' = Finish(flasher) /\ Post("cancelled") /\ UNCHANGED flash
      BY <2>1, <2>5, <2>8, <3>1, <3>3
    <3>4. CASE /\ flasher.at < Count(flasher.op)
               /\ flash' = [flash EXCEPT ![BlockOf(flasher)] = data[flasher.at + 1]]
               /\ flasher' = [flasher EXCEPT !.at = @ + 1]
               /\ UNCHANGED posted
      <4>1. data[flasher.at + 1] \in Contents
        BY <2>1, <2>3, <3>1, <3>4 DEF Contents
      <4>2. flash' \in [Blocks -> Contents]
        BY <2>1, <3>4, <4>1
      <4>3. Count(op) <= NBanks * PerBank /\ NBanks * PerBank \in Nat
        BY <2>1, Bounds, OpFacts
      <4>4. flasher.at + 1 \in 0 .. NBanks * PerBank
        BY <2>3, <3>4, <4>3
      <4>5. flasher' \in Threads /\ flasher'.pc = "program" /\ flasher'.op = flasher.op
            /\ flasher'.at = flasher.at + 1
        BY <2>1, <3>1, <3>4, <4>4 DEF Threads
      <4>6. flasher'.at <= Count(op)
        BY <2>3, <3>4, <4>5
      <4> QED
        BY <2>1, <2>2, <2>3, <3>1, <3>4, <4>2, <4>5, <4>6, FlasherKeeps
    <3> QED
      BY <2>7, <2>11, <3>1, <3>2, <3>3, <3>4 DEF FlasherPrograms
  <2>12. CASE FlasherEnds
    <3>1. flasher' = [flasher EXCEPT !.pc = "finished"] /\ ~Working(flasher)
          /\ UNCHANGED <<away, flash, posted>>
      BY <2>12 DEF FlasherEnds, Finish, Working
    <3> QED
      BY <2>1, <2>2, <3>1, Marked, FlasherKeeps
  <2> QED
    BY <2>9, <2>10, <2>11, <2>12
<1> QED
  BY <1>1, <1>2 DEF Flasher

-----------------------------------------------------------------------------
\* A step of the read thread.
LEMMA ReaderKeeps ==
  ASSUME SessionInv, Live(reader), reader' \in Threads, reader'.op = reader.op, away' \in BOOLEAN,
         \/ /\ Working(reader) /\ posted' = posted /\ reader'.pc = "read"
            /\ reader'.at <= BankCount(op) /\ Len(reader'.got) = reader'.at * PerBank
         \/ /\ Working(reader) /\ posted' = <<"abort">> /\ reader'.pc = "closing"
            /\ reader'.at = reader.at /\ reader'.got = reader.got
         \/ Working(reader) /\ (\E s \in Signals : posted' = <<s>>) /\ reader'.pc = "finished"
         \/ ~Working(reader) /\ posted' = posted /\ reader'.pc = "finished",
         UNCHANGED <<present, plugs, flash, connection, window, job, flasher, alive, history>>
  PROVE  SessionInv'
<1>1. /\ UNCHANGED <<present, plugs, iface, board, chip, other, busy, cancellable, dialog, release, op, data>>
      /\ UNCHANGED <<flash, flasher, alive, outcome, stopped, ops>>
  BY DEF connection, window, job, history
<1>2. CartridgeTypes' /\ WindowTypes' /\ JobTypes'
  BY <1>1 DEF SessionInv, CartridgeTypes, WindowTypes, JobTypes
<1>3. "abort" \in Signals
  BY DEF Signals
<1>4. WorkerTypes'
  BY <1>1, <1>3 DEF SessionInv, WorkerTypes
<1>5. ~Live(flasher) /\ busy /\ ~release /\ (Working(reader) => posted = <<>>)
  BY DEF SessionInv, Phase
<1>6. Progress'
  BY <1>1, <1>5 DEF SessionInv, Progress, Live
<1>7. Phase'
  BY <1>1, <1>5 DEF SessionInv, Phase, Live, Working
<1>8. Targets'
  BY <1>1, <1>5 DEF SessionInv, Targets, Live, Working
<1> QED
  BY <1>2, <1>4, <1>6, <1>7, <1>8 DEF SessionInv

\* Where a bank lies, in blocks.
LEMMA Rows ==
  ASSUME NEW f \in Nat, NEW n \in Nat, NEW m \in Nat, NEW p \in Nat, p > 0, f + n + 1 <= m
  PROVE  /\ f * p \in Nat /\ n * p \in Nat /\ m * p \in Nat
         /\ (f + n) * p = f * p + n * p /\ (n + 1) * p = n * p + p
         /\ f * p + n * p + p <= m * p /\ n + 1 <= m * p
<1>1. f * p \in Nat /\ n * p \in Nat /\ m * p \in Nat
  OBVIOUS
<1>2. (f + n) * p = f * p + n * p /\ (n + 1) * p = n * p + p
  OBVIOUS
<1>3. (f + n + 1) * p = f * p + n * p + p
  OBVIOUS
<1>4. (f + n + 1) * p <= m * p
  BY f + n + 1 \in Nat, Times
<1>5. n + 1 <= m
  OBVIOUS
<1>6. n + 1 <= m * p
  BY <1>5, n + 1 \in Nat, Times
<1> QED
  BY <1>1, <1>2, <1>3, <1>4, <1>6

\* One sequence after another.
LEMMA Joined ==
  ASSUME NEW C, NEW got \in Seq(C), NEW p \in Nat, NEW row \in [1 .. p -> C]
  PROVE  /\ got \o row \in Seq(C) /\ Len(got \o row) = Len(got) + p
         /\ \A i \in 1 .. Len(got) : (got \o row)[i] = got[i]
         /\ \A i \in 1 .. p : (got \o row)[Len(got) + i] = row[i]
<1>1. row \in Seq(C) /\ Len(row) = p
  OBVIOUS
<1> QED
  BY <1>1

\* What the reader has once it has read its next bank.
WithNextBank(s) == s = reader.got \o BankData(FirstBank(op) + reader.at)

\* A bank is read into a sequence of as many contents as it has blocks.
LEMMA BankIsRead ==
  ASSUME SessionInv, Live(reader), reader.at < BankCount(op),
         NEW s, WithNextBank(s)
  PROVE  /\ s \in Seq(Contents) /\ Len(s) = (reader.at + 1) * PerBank
         /\ Len(s) <= NBanks * PerBank /\ reader.at + 1 \in 0 .. NBanks * PerBank
         /\ \A i \in 1 .. Len(s) :
              s[i] = IF i <= reader.at * PerBank THEN reader.got[i] ELSE flash[First(op) + i - 1]
<1> DEFINE n == reader.at
           f == FirstBank(op)
           fp == f * PerBank
           np == n * PerBank
           mp == NBanks * PerBank
           row == BankData(f + n)
<1>1. flash \in [Blocks -> Contents] /\ reader.got \in Seq(Contents) /\ op \in Ops
  BY DEF SessionInv, CartridgeTypes, WorkerTypes, JobTypes, Threads
<1>2. n \in Nat /\ Len(reader.got) = np
  BY DEF SessionInv, WorkerTypes, Threads, Progress
<1>3. /\ f \in Nat /\ First(op) = fp /\ NBanks \in Nat /\ PerBank \in Nat /\ PerBank > 0
      /\ BankCount(op) \in Nat /\ f + BankCount(op) <= NBanks
  BY <1>1, OpFacts
<1>4. f + n + 1 <= NBanks
  BY <1>2, <1>3
<1>5. row = [i \in 1 .. PerBank |-> flash[(f + n) * PerBank + i - 1]]
  BY DEF BankData
<1>6. Blocks = 0 .. mp - 1 /\ s = reader.got \o row
  BY DEF Blocks, WithNextBank
<1> HIDE DEF row, f, n
<1>7. /\ fp \in Nat /\ np \in Nat /\ mp \in Nat /\ (f + n) * PerBank = fp + np
      /\ (n + 1) * PerBank = np + PerBank /\ fp + np + PerBank <= mp /\ n + 1 <= mp
  BY <1>2, <1>3, <1>4, Rows
<1> HIDE DEF fp, np, mp
<1>8. /\ fp \in Nat /\ np \in Nat /\ mp \in Nat /\ PerBank \in Nat /\ n \in Nat
      /\ fp + np + PerBank <= mp /\ n + 1 <= mp /\ \A i \in 1 .. PerBank : fp + np + i - 1 \in Blocks
  BY <1>2, <1>3, <1>6, <1>7
<1>9. row \in [1 .. PerBank -> Contents] /\ \A i \in 1 .. PerBank : row[i] = flash[fp + np + i - 1]
  BY <1>1, <1>5, <1>7, <1>8
<1>10. /\ s \in Seq(Contents) /\ Len(s) = np + PerBank /\ Len(s) <= mp
       /\ \A i \in 1 .. Len(s) : s[i] = IF i <= np THEN reader.got[i] ELSE flash[fp + i - 1]
  <2> DEFINE got == reader.got
  <2>1. got \in Seq(Contents) /\ PerBank \in Nat
    BY <1>1, <1>8
  <2>2. Len(got) = np /\ s = got \o row
    BY <1>2, <1>6
  <2> HIDE DEF got
  <2>3. /\ got \o row \in Seq(Contents) /\ Len(got \o row) = Len(got) + PerBank
        /\ \A i \in 1 .. Len(got) : (got \o row)[i] = got[i]
        /\ \A i \in 1 .. PerBank : (got \o row)[Len(got) + i] = row[i]
    BY <1>9, <2>1, Joined
  <2>4. /\ s \in Seq(Contents) /\ Len(s) = np + PerBank /\ \A i \in 1 .. np : s[i] = got[i]
        /\ \A i \in 1 .. PerBank : s[np + i] = row[i]
    BY <2>2, <2>3
  <2>5. Len(s) <= mp
    BY <1>8, <2>4
  <2>6. ASSUME NEW i \in 1 .. Len(s)
        PROVE  s[i] = IF i <= np THEN got[i] ELSE flash[fp + i - 1]
    <3>1. CASE i <= np
      BY <1>8, <2>4, <3>1
    <3>2. CASE ~(i <= np)
      <4>1. i - np \in 1 .. PerBank /\ np + (i - np) = i /\ fp + np + (i - np) - 1 = fp + i - 1
        BY <1>8, <2>4, <3>2
      <4>2. s[np + (i - np)] = row[i - np] /\ row[i - np] = flash[fp + np + (i - np) - 1]
        BY <1>9, <2>4, <4>1
      <4> QED
        BY <3>2, <4>1, <4>2
    <3> QED
      BY <3>1, <3>2
  <2> QED
    BY <2>4, <2>5, <2>6 DEF got
<1>11. n + 1 \in 0 .. mp
  BY <1>8
<1>12. Len(s) = (n + 1) * PerBank
  BY <1>7, <1>10
<1> QED
  BY <1>3, <1>10, <1>11, <1>12 DEF f, n, fp, np, mp

LEMMA ReaderActionKeeps ==
  SessionInv /\ Reader => SessionInv'
<1> SUFFICES ASSUME SessionInv, Reader PROVE SessionInv'
  OBVIOUS
<1>1. CASE CrashOnNull(reader)
  BY <1>1, CrashKeeps
<1>2. CASE /\ ReaderOpens \/ ReaderReads \/ ReaderEnds
           /\ UNCHANGED <<present, plugs, flash, connection, window, job, flasher, alive, history>>
  <2> USE <1>2
  <2>1. reader \in Threads /\ away \in BOOLEAN /\ op \in Ops
    BY DEF SessionInv, WorkerTypes, CartridgeTypes, JobTypes
  <2>2. Live(reader)
    BY DEF ReaderOpens, ReaderReads, ReaderEnds, Opens, Live
  <2>3. reader.op = op /\ reader.at <= BankCount(op) /\ Len(reader.got) = reader.at * PerBank
    BY <2>2 DEF SessionInv, Targets, Progress
  <2>4. Working(reader) => posted = <<>>
    BY DEF SessionInv, Phase
  <2>5. "abort" \in Signals /\ "cancelled" \in Signals /\ "read_result" \in Signals
        /\ "verify_result" \in Signals
    BY DEF Signals
  <2>6. ASSUME ReaderFails, Working(reader), away' \in BOOLEAN
        PROVE  SessionInv'
    <3>1. reader' = [reader EXCEPT !.pc = "closing"] /\ posted' = <<"abort">>
      BY <2>4, <2>6, PostAfterNothing DEF ReaderFails
    <3>2. /\ reader' \in Threads /\ reader'.pc = "closing" /\ reader'.op = reader.op
          /\ reader'.at = reader.at /\ reader'.got = reader.got
      BY <2>1, <3>1, Marked
    <3> QED
      BY <2>2, <2>6, <3>1, <3>2, ReaderKeeps
  <2>7. ASSUME reader' = Finish(reader), Working(reader), NEW s \in Signals, Post(s), away' \in BOOLEAN
        PROVE  SessionInv'
    <3>1. reader' = [reader EXCEPT !.pc = "finished"] /\ posted' = <<s>>
      BY <2>4, <2>7, PostAfterNothing DEF Finish
    <3>2. reader' \in Threads /\ reader'.pc = "finished" /\ reader'.op = reader.op
      BY <2>1, <3>1, Marked
    <3>3. \E x \in Signals : posted' = <<x>>
      BY <3>1
    <3> QED
      BY <2>2, <2>7, <3>2, <3>3, ReaderKeeps
  <2>8. CASE ReaderOpens
    <3>1. Working(reader) /\ reader.pc = "open"
      BY <2>8 DEF ReaderOpens, Opens, Working, Live
    <3>2. CASE Opens(reader) /\ reader' = [reader EXCEPT !.pc = "read"]
      <4>1. reader' \in Threads /\ reader'.pc = "read" /\ reader'.op = reader.op
            /\ reader'.at = reader.at /\ reader'.got = reader.got
        BY <2>1, <3>2 DEF Threads
      <4>2. posted' = posted /\ away' \in BOOLEAN
        BY <3>2 DEF Opens
      <4> QED
        BY <2>2, <2>3, <3>1, <4>1, <4>2, ReaderKeeps
    <3>3. CASE ReaderFails /\ UNCHANGED away
      BY <2>1, <2>6, <3>1, <3>3
    <3> QED
      BY <2>8, <3>2, <3>3 DEF ReaderOpens
  <2>9. CASE ReaderReads
    <3>1. Working(reader) /\ reader.pc = "read" /\ away' \in BOOLEAN
      BY <2>1, <2>9 DEF ReaderReads, Working, Live
    <3>2. CASE reader' = Finish(reader) /\ Post("cancelled")
      BY <2>5, <2>7, <3>1, <3>2
    <3>3. CASE reader' = Finish(reader) /\ Post(IF reader.op.kind \in Writes THEN "verify_result" ELSE "read_result")
      BY <2>5, <2>7, <3>1, <3>3
    <3>4. CASE /\ reader.at < BankCount(reader.op)
               /\ reader' = [reader EXCEPT
                    !.got = @ \o BankData(FirstBank(reader.op) + reader.at), !.at = @ + 1]
               /\ UNCHANGED posted
      <4> DEFINE s == reader.got \o BankData(FirstBank(op) + reader.at)
      <4>1. WithNextBank(s)
        BY DEF WithNextBank
      <4>2. reader' = [reader EXCEPT !.got = s, !.at = reader.at + 1]
        BY <2>3, <3>4
      <4> HIDE DEF s
      <4>3. /\ s \in Seq(Contents) /\ Len(s) = (reader.at + 1) * PerBank
            /\ Len(s) <= NBanks * PerBank /\ reader.at + 1 \in 0 .. NBanks * PerBank
        BY <2>2, <2>3, <3>4, <4>1, BankIsRead
      <4>4. BankCount(op) \in Nat /\ reader.at \in Nat
        BY <2>1, OpFacts DEF Threads
      <4>5. reader' \in Threads /\ reader'.pc = "read" /\ reader'.op = reader.op
            /\ reader'.at = reader.at + 1 /\ reader'.got = s
        BY <2>1, <3>1, <4>2, <4>3 DEF Threads
      <4>6. reader'.at <= BankCount(op)
        BY <2>3, <3>4, <4>4, <4>5
      <4>7. Len(reader'.got) = reader'.at * PerBank
        BY <4>3, <4>5
      <4> QED
        BY <2>2, <3>1, <3>4, <4>5, <4>6, <4>7, ReaderKeeps
    <3>5. CASE ReaderFails
      BY <2>6, <3>1, <3>5
    <3> QED
      BY <2>9, <3>2, <3>3, <3>4, <3>5 DEF ReaderReads
  <2>10. CASE ReaderEnds
    <3>1. reader' = [reader EXCEPT !.pc = "finished"] /\ ~Working(reader) /\ UNCHANGED <<away, posted>>
      BY <2>10 DEF ReaderEnds, Finish, Working
    <3>2. reader' \in Threads /\ reader'.pc = "finished" /\ reader'.op = reader.op
      BY <2>1, <3>1, Marked
    <3> QED
      BY <2>1, <2>2, <3>1, <3>2, ReaderKeeps
  <2> QED
    BY <2>8, <2>9, <2>10
<1> QED
  BY <1>1, <1>2 DEF Reader

-----------------------------------------------------------------------------
\* The user's actions and the watch on the cartridge.
LEMMA ConnectionStepKeeps == SessionInv /\ (Connect \/ Identify \/ Poll) => SessionInv'
<1> SUFFICES ASSUME SessionInv, Connect \/ Identify \/ Poll PROVE SessionInv'
  OBVIOUS
<1>1. WindowTypes /\ op \in Ops /\ ~busy /\ ~release
  <2>1. ~busy
    BY DEF Connect, Identify, Poll, Idle
  <2> QED
    BY <2>1, NothingGoesOn DEF SessionInv, JobTypes
<1>2. /\ UNCHANGED <<cartridge, job, threads, posted, alive, history>>
      /\ busy' = FALSE /\ cancellable' = FALSE
  BY DEF Connect, Identify, Poll, SetBusy
<1>3. dialog' \in {dialog, "message"} /\ release' = FALSE
  <2>1. CASE Connect
    BY <1>1, <2>1 DEF Connect, Message, WindowTypes
  <2>2. CASE Identify
    BY <1>1, <2>2 DEF Identify, Message, WindowTypes
  <2>3. CASE Poll
    BY <1>1, <2>3 DEF Poll, WindowTypes
  <2> QED
    BY <2>1, <2>2, <2>3
<1>4. iface' \in BOOLEAN /\ board' \in BOOLEAN /\ chip' \in BOOLEAN /\ other' \in BOOLEAN
  <2>1. CASE Connect
    BY <2>1 DEF Connect, Invalidate
  <2>2. CASE Identify
    BY <1>1, <2>2 DEF Identify, VerifyChip, Invalidate, WindowTypes
  <2>3. CASE Poll
    BY <2>3 DEF Poll, Invalidate
  <2> QED
    BY <2>1, <2>2, <2>3
<1>5. WindowTypes'
  BY <1>1, <1>2, <1>3, <1>4 DEF WindowTypes, history
<1>6. dialog' \in {"file", "confirm"} => ops < MaxOps
  BY <1>3 DEF SessionInv, Progress
<1> QED
  BY <1>1, <1>2, <1>3, <1>5, <1>6, QuietKeeps DEF job, history

\* What CheckBeforeWriting leaves behind.
LEMMA CheckedTypes ==
  ASSUME WindowTypes, ~busy, ~release, CheckBeforeWriting
  PROVE  /\ iface' \in BOOLEAN /\ board' \in BOOLEAN /\ chip' \in BOOLEAN /\ other' \in BOOLEAN
         /\ busy' = FALSE /\ cancellable' \in BOOLEAN /\ release' = FALSE
         /\ dialog' \in {"confirm", "message"}
<1>1. CASE VerifyChip(TRUE) /\ dialog' = "confirm" /\ UNCHANGED <<chip, busy, cancellable, release>>
  BY <1>1 DEF VerifyChip, WindowTypes
<1>2. CASE VerifyChip(FALSE) /\ Message(FALSE) /\ SetBusy(FALSE, FALSE)
  BY <1>2 DEF VerifyChip, Invalidate, Message, SetBusy
<1>3. CASE Message(FALSE) /\ UNCHANGED <<connection, busy, cancellable>>
  BY <1>3 DEF Message, connection, WindowTypes
<1> QED
  BY <1>1, <1>2, <1>3 DEF CheckBeforeWriting

LEMMA PressKeeps ==
  ASSUME SessionInv, NEW o \in Ops, Press(o)
  PROVE  SessionInv'
<1>1. /\ ~busy /\ dialog = "none" /\ ops < MaxOps /\ op' = o /\ UNCHANGED <<cartridge, posted, alive>>
  BY DEF Press, Idle, Free
<1>2. ~release /\ WindowTypes
  BY <1>1, NothingGoesOn DEF SessionInv
<1>3. CASE o.kind = "read_bank" /\ Start(o, <<>>) /\ UNCHANGED <<connection, dialog, release>>
  <2>1. o.kind \notin Writes
    BY <1>3 DEF Writes
  <2> QED
    BY <1>1, <1>3, <2>1, StartKeeps
<1>4. CASE /\ dialog' \in {"file", "confirm"}
           /\ UNCHANGED <<connection, busy, cancellable, release, data, threads, history>>
  <2>1. WindowTypes'
    BY <1>1, <1>2, <1>4 DEF WindowTypes, connection, history
  <2> QED
    BY <1>1, <1>2, <1>4, <2>1, QuietKeeps DEF WindowTypes, history
<1>5. CASE CheckBeforeWriting /\ UNCHANGED <<data, threads, history>>
  <2>1. WindowTypes'
    BY <1>1, <1>2, <1>5, CheckedTypes DEF WindowTypes, history
  <2> QED
    BY <1>1, <1>2, <1>5, <2>1, CheckedTypes, QuietKeeps DEF history
<1> QED
  BY <1>3, <1>4, <1>5 DEF Press

LEMMA DeclineKeeps == SessionInv /\ Decline => SessionInv'
<1> SUFFICES ASSUME SessionInv, Decline PROVE SessionInv'
  OBVIOUS
<1>1. /\ dialog \in {"file", "confirm"} /\ dialog' = "none"
      /\ UNCHANGED <<cartridge, connection, busy, cancellable, release, job, threads, posted, alive, history>>
  BY DEF Decline
<1>2. ~busy /\ op \in Ops /\ busy = FALSE
  BY <1>1 DEF SessionInv, Phase, JobTypes, WindowTypes
<1>3. release = FALSE
  BY <1>2, NothingGoesOn DEF SessionInv, WindowTypes
<1>4. WindowTypes'
  BY <1>1 DEF SessionInv, WindowTypes, connection, history
<1> QED
  BY <1>1, <1>2, <1>3, <1>4, QuietKeeps DEF job, history

LEMMA ChooseFileKeeps == SessionInv /\ ChooseFile => SessionInv'
<1> SUFFICES ASSUME SessionInv, ChooseFile PROVE SessionInv'
  OBVIOUS
<1>1. dialog = "file" /\ UNCHANGED <<cartridge, posted, alive>>
  BY DEF ChooseFile
<1>2. ~busy /\ op \in Ops /\ ops < MaxOps /\ WindowTypes
  BY <1>1 DEF SessionInv, Phase, JobTypes, Progress
<1>3. ~release
  BY <1>2, NothingGoesOn
<1>4. CASE /\ op.kind = "read_rom" /\ dialog' = "none" /\ Start(op, <<>>)
           /\ UNCHANGED <<connection, release, op>>
  <2>1. op.kind \notin Writes
    BY <1>4 DEF Writes
  <2> QED
    BY <1>1, <1>2, <1>4, <2>1, StartKeeps
<1>5. CASE CheckBeforeWriting /\ UNCHANGED <<job, threads, history>>
  <2>1. WindowTypes'
    BY <1>1, <1>2, <1>3, <1>5, CheckedTypes DEF WindowTypes, history
  <2> QED
    BY <1>1, <1>2, <1>3, <1>5, <2>1, CheckedTypes, QuietKeeps DEF job, history
<1> QED
  BY <1>4, <1>5 DEF ChooseFile

LEMMA ConfirmKeeps == SessionInv /\ Confirm => SessionInv'
<1> SUFFICES ASSUME SessionInv, Confirm PROVE SessionInv'
  OBVIOUS
<1>1. /\ dialog = "confirm" /\ dialog' = "none"
      /\ UNCHANGED <<cartridge, connection, release, op, posted, alive>>
  BY DEF Confirm
<1>2. ~busy /\ op \in Ops /\ ops < MaxOps
  BY <1>1 DEF SessionInv, Phase, JobTypes, Progress
<1>3. PICK image \in IF op.kind \in Writes THEN Images(op) ELSE {<<>>} : Start(op, image)
  BY DEF Confirm
<1> QED
  BY <1>1, <1>2, <1>3, StartKeeps

LEMMA DismissKeeps == SessionInv /\ Dismiss => SessionInv'
<1> SUFFICES ASSUME SessionInv, Dismiss PROVE SessionInv'
  OBVIOUS
<1>1. /\ dialog' = "none" /\ release' = FALSE
      /\ UNCHANGED <<cartridge, connection, job, threads, posted, alive, history>>
  BY DEF Dismiss
<1>2. CASE release
  <2>1. busy' = FALSE /\ cancellable' = FALSE
    BY <1>2 DEF Dismiss, SetBusy
  <2>2. ~Live(flasher) /\ ~Live(reader) /\ posted = <<>>
    BY <1>2 DEF SessionInv, Phase
  <2>3. UNCHANGED <<present, away, plugs, flash, flasher, reader, op, data, ops, posted>>
    BY <1>1 DEF cartridge, threads, job, history
  <2>4. CartridgeTypes' /\ JobTypes' /\ WorkerTypes'
    BY <2>3 DEF SessionInv, CartridgeTypes, JobTypes, WorkerTypes
  <2>5. WindowTypes'
    BY <1>1, <2>1 DEF SessionInv, WindowTypes, connection, history
  <2>6. Progress' /\ Phase' /\ Targets'
    BY <1>1, <2>1, <2>2, <2>3 DEF SessionInv, Progress, Phase, Targets, Live, Working
  <2> QED
    BY <2>4, <2>5, <2>6 DEF SessionInv
<1>3. CASE ~release
  <2>1. UNCHANGED <<busy, cancellable, release>>
    BY <1>1, <1>3 DEF Dismiss, SessionInv, WindowTypes
  <2>2. UNCHANGED <<present, away, plugs, flash, flasher, reader, op, data, ops, posted>>
    BY <1>1 DEF cartridge, threads, job, history
  <2>3. CartridgeTypes' /\ JobTypes' /\ WorkerTypes'
    BY <2>2 DEF SessionInv, CartridgeTypes, JobTypes, WorkerTypes
  <2>4. WindowTypes'
    BY <1>1, <2>1 DEF SessionInv, WindowTypes, connection, history
  <2>5. Progress' /\ Phase' /\ Targets'
    BY <1>1, <1>3, <2>1, <2>2 DEF SessionInv, Progress, Phase, Targets, Live, Working
  <2> QED
    BY <2>3, <2>4, <2>5 DEF SessionInv
<1> QED
  BY <1>2, <1>3

-----------------------------------------------------------------------------
\* The slots that take the workers' signals.
LEMMA Delivered ==
  ASSUME SessionInv, NEW signal, Deliver(signal)
  PROVE  /\ posted = <<signal>> /\ posted' = <<>> /\ busy /\ ~release
         /\ (signal # "abort" => ~Live(flasher) /\ ~Live(reader))
         /\ UNCHANGED <<present, away, plugs, flash, op, data, ops, alive, stopped>>
<1>1. posted \in {<<>>} \cup {<<s>> : s \in Signals} /\ posted # <<>> /\ Head(posted) = signal
      /\ posted' = Tail(posted) /\ UNCHANGED <<cartridge, alive, ops, stopped, job>>
  BY DEF SessionInv, WorkerTypes, Deliver
<1>2. PICK s \in Signals : posted = <<s>>
  BY <1>1
<1>3. posted = <<signal>> /\ posted' = <<>>
  BY <1>1, <1>2
<1>4. signal # "abort" => <<signal>> # <<"abort">>
  OBVIOUS
<1> QED
  BY <1>1, <1>3, <1>4 DEF SessionInv, Phase, Working, cartridge, job

LEMMA SlotKeeps ==
  ASSUME SessionInv, posted # <<>>, posted' = <<>>, ~Live(flasher), ~Live(reader),
         flasher' \in {flasher, NoThread}, reader' \in {reader, NoThread}, WindowTypes',
         release' => busy' /\ dialog' = "message", dialog' \in {dialog, "message"},
         UNCHANGED <<present, away, plugs, flash, op, data, ops>>
  PROVE  SessionInv'
<1>1. CartridgeTypes' /\ JobTypes'
  BY DEF SessionInv, CartridgeTypes, JobTypes
<1>2. WorkerTypes'
  BY NoThreadFacts DEF SessionInv, WorkerTypes
<1>3. flasher'.pc \in {"null", "finished"} /\ reader'.pc \in {"null", "finished"}
  BY NoThreadFacts DEF Live
<1>4. ~Live(flasher') /\ ~Live(reader')
  BY <1>3 DEF Live
<1>5. dialog' \notin {"file", "confirm"}
  BY DEF SessionInv, Phase
<1>6. Progress' /\ Phase' /\ Targets'
  BY <1>3, <1>4, <1>5 DEF Progress, Phase, Targets, Working
<1> QED
  BY <1>1, <1>2, <1>6 DEF SessionInv

LEMMA SlotsKeep == SessionInv /\ Slot => SessionInv'
<1> SUFFICES ASSUME SessionInv, Slot PROVE SessionInv'
  OBVIOUS
<1>1. WindowTypes
  BY DEF SessionInv
<1>2. CASE ReadResult
  <2>1. Deliver("read_result")
    BY <1>2 DEF ReadResult
  <2>2. posted = <<"read_result">> /\ posted' = <<>> /\ busy /\ ~release /\ ~Live(flasher) /\ ~Live(reader)
        /\ UNCHANGED <<present, away, plugs, flash, op, data, ops, alive, stopped>>
    BY <2>1, Delivered
  <2>3. reader' = NoThread /\ flasher' = flasher /\ UNCHANGED <<iface, board, chip, other>>
    BY <1>2 DEF ReadResult, connection
  <2>4. CASE /\ busy' = FALSE /\ cancellable' = FALSE /\ outcome' = "read" /\ UNCHANGED <<dialog, release>>
    <3>1. WindowTypes'
      BY <1>1, <2>2, <2>3, <2>4 DEF WindowTypes
    <3> QED
      BY <2>2, <2>3, <2>4, <3>1, SlotKeeps
  <2>5. CASE /\ outcome' = "unsaved" /\ dialog' = "message" /\ release' = TRUE
             /\ UNCHANGED <<busy, cancellable>>
    <3>1. WindowTypes'
      BY <1>1, <2>2, <2>3, <2>5 DEF WindowTypes
    <3> QED
      BY <2>2, <2>3, <2>5, <3>1, SlotKeeps
  <2> QED
    BY <1>2, <2>4, <2>5 DEF ReadResult, SetBusy, Message
<1>3. CASE FlashResult
  <2>1. Deliver("flash_result")
    BY <1>3 DEF FlashResult
  <2>2. posted' = <<>> /\ busy /\ ~release /\ ~Live(flasher) /\ ~Live(reader)
        /\ UNCHANGED <<present, away, plugs, flash, op, data, ops, alive, stopped>>
    BY <2>1, Delivered
  <2>3. reader' = Thread(op) /\ flasher' = flasher
        /\ UNCHANGED <<iface, board, chip, other, busy, cancellable, dialog, release, outcome>>
    BY <1>3 DEF FlashResult, connection, window
  <2>4. iface \in BOOLEAN /\ op \in Ops
    BY <1>1 DEF WindowTypes, SessionInv, JobTypes
  <2>5. CartridgeTypes' /\ JobTypes'
    BY <2>2 DEF SessionInv, CartridgeTypes, JobTypes
  <2>6. WindowTypes'
    BY <1>1, <2>2, <2>3 DEF WindowTypes
  <2>7. WorkerTypes'
    BY <2>2, <2>3, <2>4, NewThread DEF SessionInv, WorkerTypes
  <2>8. /\ reader'.pc = "open" /\ reader'.op = op /\ reader'.at = 0 /\ reader'.got = <<>> /\ Live(reader')
        /\ ~Live(flasher') /\ flasher'.pc \in {"null", "finished"}
    BY <2>2, <2>3, <2>4, NewThread DEF Live
  <2>9. 0 <= BankCount(op) /\ Len(<<>>) = 0 * PerBank
    BY <2>4, OpFacts
  <2>10. Progress' /\ Phase' /\ Targets'
    BY <2>2, <2>3, <2>8, <2>9 DEF SessionInv, Progress, Phase, Targets, Working
  <2> QED
    BY <2>5, <2>6, <2>7, <2>10 DEF SessionInv
<1>4. CASE VerifyResult
  <2>1. Deliver("verify_result")
    BY <1>4 DEF VerifyResult
  <2>2. posted = <<"verify_result">> /\ posted' = <<>> /\ busy /\ ~release /\ ~Live(flasher) /\ ~Live(reader)
        /\ UNCHANGED <<present, away, plugs, flash, op, data, ops, alive, stopped>>
    BY <2>1, Delivered
  <2>3. /\ reader' = NoThread /\ flasher' = NoThread /\ dialog' = "message" /\ release' = TRUE
        /\ outcome' \in {"verified", "mismatch"} /\ UNCHANGED <<iface, board, chip, other, busy, cancellable>>
    BY <1>4 DEF VerifyResult, Message, connection
  <2>4. WindowTypes'
    BY <1>1, <2>2, <2>3 DEF WindowTypes
  <2> QED
    BY <2>2, <2>3, <2>4, SlotKeeps
<1>5. CASE EraseResult
  <2>1. Deliver("erase_result")
    BY <1>5 DEF EraseResult
  <2>2. posted = <<"erase_result">> /\ posted' = <<>> /\ busy /\ ~release /\ ~Live(flasher) /\ ~Live(reader)
        /\ UNCHANGED <<present, away, plugs, flash, op, data, ops, alive, stopped>>
    BY <2>1, Delivered
  <2>3. /\ reader' = reader /\ flasher' = NoThread /\ dialog' = "message" /\ release' = TRUE
        /\ outcome' = "erased" /\ UNCHANGED <<iface, board, chip, other, busy, cancellable>>
    BY <1>5 DEF EraseResult, Message, connection
  <2>4. WindowTypes'
    BY <1>1, <2>2, <2>3 DEF WindowTypes
  <2> QED
    BY <2>2, <2>3, <2>4, SlotKeeps
<1>6. CASE ThreadCancelled
  <2>1. Deliver("cancelled") /\ ~Live(flasher) /\ ~Live(reader)
    BY <1>6 DEF ThreadCancelled, Settled
  <2>2. posted = <<"cancelled">> /\ posted' = <<>>
        /\ UNCHANGED <<present, away, plugs, flash, op, data, ops, alive, stopped>>
    BY <2>1, Delivered
  <2>3. /\ reader' = NoThread /\ flasher' = NoThread /\ dialog' = "message" /\ release' = FALSE
        /\ outcome' = "cancelled" /\ busy' = FALSE /\ cancellable' = FALSE /\ UNCHANGED <<iface, board, chip, other>>
    BY <1>6 DEF ThreadCancelled, Message, SetBusy, connection
  <2>4. WindowTypes'
    BY <1>1, <2>2, <2>3 DEF WindowTypes
  <2> QED
    BY <2>1, <2>2, <2>3, <2>4, SlotKeeps
<1>7. CASE ThreadAbort
  <2>1. Deliver("abort") /\ ~Live(flasher) /\ ~Live(reader)
    BY <1>7 DEF ThreadAbort, Settled
  <2>2. posted = <<"abort">> /\ posted' = <<>>
        /\ UNCHANGED <<present, away, plugs, flash, op, data, ops, alive, stopped>>
    BY <2>1, Delivered
  <2>3. /\ reader' = NoThread /\ flasher' = NoThread /\ dialog' = "message" /\ release' = FALSE
        /\ outcome' = "aborted" /\ busy' = FALSE /\ cancellable' = FALSE
        /\ iface' = FALSE /\ board' = FALSE /\ chip' = FALSE /\ other' = FALSE
    BY <1>7 DEF ThreadAbort, Message, SetBusy, Invalidate
  <2>4. WindowTypes'
    BY <1>1, <2>2, <2>3 DEF WindowTypes
  <2> QED
    BY <2>1, <2>2, <2>3, <2>4, SlotKeeps
<1> QED
  BY <1>2, <1>3, <1>4, <1>5, <1>6, <1>7 DEF Slot

-----------------------------------------------------------------------------
LEMMA SessionStep == SessionInv /\ [Next]_vars => SessionInv'
<1> SUFFICES ASSUME SessionInv, [Next]_vars PROVE SessionInv'
  OBVIOUS
<1>1. CASE Flasher \/ Reader
  BY <1>1, FlasherActionKeeps, ReaderActionKeeps
<1>2. CASE User
  <2>1. CASE Connect \/ Identify
    BY <2>1, ConnectionStepKeeps
  <2>2. CASE \E o \in Ops : Press(o)
    BY <2>2, PressKeeps
  <2>3. CASE Decline \/ ChooseFile \/ Confirm \/ Cancel \/ Quit
    BY <2>3, DeclineKeeps, ChooseFileKeeps, ConfirmKeeps, CancelKeeps, QuitKeeps
  <2> QED
    BY <1>2, <2>1, <2>2, <2>3 DEF User
<1>3. CASE Poll \/ Slot \/ Dismiss
  BY <1>3, ConnectionStepKeeps, SlotsKeep, DismissKeeps
<1>4. CASE Unplug \/ Plug
  BY <1>4, UnplugKeeps, PlugKeeps
<1>5. CASE UNCHANGED vars
  <2>1. /\ UNCHANGED <<present, away, plugs, flash, iface, board, chip, other, busy, cancellable, dialog, release>>
        /\ UNCHANGED <<op, data, flasher, reader, posted, alive, outcome, stopped, ops>>
    BY <1>5 DEF vars, cartridge, connection, window, job, threads, history
  <2>2. CartridgeTypes' /\ WindowTypes'
    BY <2>1 DEF SessionInv, CartridgeTypes, WindowTypes
  <2> QED
    BY <2>1, <2>2, SamePlacesKeep DEF SessionInv, WorkerTypes
<1> QED
  BY <1>1, <1>2, <1>3, <1>4, <1>5 DEF Next

-----------------------------------------------------------------------------
\* What was read, is blank, or was reported, is so as long as the cartridge has
\* not left since a worker last opened the port.
Copied == \A i \in 1 .. Len(reader.got) : reader.got[i] = flash[First(op) + i - 1]
TrueSoFar ==
  /\ ~present => away
  /\ reader.pc = "read" /\ ~away => Copied
  /\ posted = <<"verify_result">> /\ ~away => Copied /\ Len(reader.got) = Count(op)
  /\ posted = <<"erase_result">> /\ ~away => \A i \in Scope(op) : flash[i] = Blank
  /\ ReportIsTrue

LEMMA TruthInit == Init => TrueSoFar
BY NoThreadFacts DEF Init, TrueSoFar, ReportIsTrue, NoThread

\* Nothing is claimed.
LEMMA NothingClaimed ==
  ASSUME ~present' => away', reader'.pc # "read",
         posted' # <<"verify_result">>, posted' # <<"erase_result">>, ~release'
  PROVE  TrueSoFar'
BY DEF TrueSoFar, ReportIsTrue

\* Nothing that was claimed has changed, or the cartridge has left.
LEMMA SameClaims ==
  ASSUME TrueSoFar, ~present' => away', reader'.pc = reader.pc, reader'.got = reader.got,
         release' = release \/ ~release', UNCHANGED <<posted, op, data, outcome>>,
         \/ away'
         \/ UNCHANGED <<flash, away>> /\ (release' => dialog = "message")
  PROVE  TrueSoFar'
<1>1. CASE away'
  BY <1>1 DEF TrueSoFar, ReportIsTrue
<1>2. CASE UNCHANGED <<flash, away>> /\ (release' => dialog = "message")
  <2>1. Scope(op') = Scope(op) /\ First(op') = First(op) /\ Count(op') = Count(op)
    OBVIOUS
  <2>2. (Copied => Copied')
    BY <1>2, <2>1 DEF Copied
  <2>3. ReportIsTrue'
    BY <1>2, <2>1 DEF TrueSoFar, ReportIsTrue
  <2> QED
    BY <1>2, <2>1, <2>2, <2>3 DEF TrueSoFar
<1> QED
  BY <1>1, <1>2

LEMMA FlasherTruth == SessionInv /\ TrueSoFar /\ Flasher => TrueSoFar'
<1> SUFFICES ASSUME SessionInv, TrueSoFar, Flasher PROVE TrueSoFar'
  OBVIOUS
<1>1. CASE CrashOnNull(flasher)
  <2>1. UNCHANGED <<present, away, flash, op, data, reader, posted, dialog, release, outcome>>
    BY <1>1 DEF CrashOnNull, cartridge, window, job, threads, history
  <2> QED
    BY <2>1, SameClaims DEF TrueSoFar, SessionInv, Phase
<1>2. CASE /\ FlasherOpens \/ FlasherErases \/ FlasherPrograms \/ FlasherEnds
           /\ UNCHANGED <<present, plugs, connection, window, job, reader, alive, history>>
  <2>1. Live(flasher)
    BY <1>2 DEF FlasherOpens, FlasherErases, FlasherPrograms, FlasherEnds, Opens, Live
  <2>2. /\ ~Live(reader) /\ ~release /\ flasher.op = op
        /\ (flasher.pc # "closing" => posted = <<>>) /\ (flasher.pc = "closing" => posted = <<"abort">>)
    BY <2>1 DEF SessionInv, Phase, Targets, Working
  <2>3. UNCHANGED <<present, dialog, release, op, data, reader, outcome>>
    BY <1>2 DEF window, job, history
  <2>4. reader'.pc # "read" /\ ~release'
    BY <2>2, <2>3 DEF Live
  <2>5. ~present' => away'
    <3>1. away' = away \/ present
      BY <1>2 DEF FlasherOpens, FlasherErases, FlasherPrograms, FlasherEnds, Opens
    <3> QED
      BY <2>3, <3>1 DEF TrueSoFar
  <2>6. ASSUME FlasherFails, flasher.pc # "closing" PROVE TrueSoFar'
    <3>1. posted' = <<"abort">>
      BY <2>2, <2>6, PostAfterNothing DEF FlasherFails
    <3> QED
      BY <2>4, <2>5, <3>1, NothingClaimed
  <2>7. CASE FlasherOpens
    <3>1. flasher.pc = "open"
      BY <2>7 DEF FlasherOpens, Opens
    <3> QED
      BY <2>2, <2>4, <2>5, <2>6, <2>7, <3>1, NothingClaimed DEF FlasherOpens, Opens
  <2>8. CASE FlasherErases
    <3>1. flasher.pc = "erase" /\ posted = <<>>
      BY <2>2, <2>8 DEF FlasherErases
    <3>2. CASE FlasherCallFails
      BY <2>6, <3>1, <3>2 DEF FlasherCallFails
    <3>3. CASE /\ flash' = [i \in Blocks |-> IF i \in Scope(flasher.op) THEN Blank ELSE flash[i]]
               /\ posted' \in {<<>>, <<"cancelled">>, <<"erase_result">>}
      <4>1. op \in Ops /\ op' = op
        BY <2>3 DEF SessionInv, JobTypes
      <4>2. \A i \in Scope(op) : flash'[i] = Blank
        BY <2>2, <3>3, <4>1, ScopeInFlash
      <4> QED
        BY <2>4, <2>5, <3>3, <4>1, <4>2 DEF TrueSoFar, ReportIsTrue
    <3> QED
      BY <2>8, <3>1, <3>2, <3>3 DEF FlasherErases, Post
  <2>9. CASE FlasherPrograms
    <3>1. flasher.pc = "program" /\ posted = <<>>
      BY <2>2, <2>9 DEF FlasherPrograms
    <3>2. CASE FlasherCallFails
      BY <2>6, <3>1, <3>2 DEF FlasherCallFails
    <3>3. CASE posted' \in {<<>>, <<"cancelled">>, <<"flash_result">>}
      BY <2>4, <2>5, <3>3, NothingClaimed
    <3> QED
      BY <2>9, <3>1, <3>2, <3>3 DEF FlasherPrograms, Post
  <2>10. CASE FlasherEnds
    BY <2>2, <2>4, <2>5, <2>10, NothingClaimed DEF FlasherEnds
  <2> QED
    BY <1>2, <2>7, <2>8, <2>9, <2>10
<1> QED
  BY <1>1, <1>2 DEF Flasher

LEMMA ReaderTruth == SessionInv /\ TrueSoFar /\ Reader => TrueSoFar'
<1> SUFFICES ASSUME SessionInv, TrueSoFar, Reader PROVE TrueSoFar'
  OBVIOUS
<1>1. CASE CrashOnNull(reader)
  <2>1. UNCHANGED <<present, away, flash, op, data, reader, posted, dialog, release, outcome>>
    BY <1>1 DEF CrashOnNull, cartridge, window, job, threads, history
  <2> QED
    BY <2>1, SameClaims DEF TrueSoFar, SessionInv, Phase
<1>2. CASE /\ ReaderOpens \/ ReaderReads \/ ReaderEnds
           /\ UNCHANGED <<present, plugs, flash, connection, window, job, flasher, alive, history>>
  <2>1. Live(reader)
    BY <1>2 DEF ReaderOpens, ReaderReads, ReaderEnds, Opens, Live
  <2>2. /\ ~release /\ reader.op = op /\ op \in Ops /\ reader \in Threads
        /\ (reader.pc # "closing" => posted = <<>>) /\ (reader.pc = "closing" => posted = <<"abort">>)
    BY <2>1 DEF SessionInv, Phase, Targets, Working, JobTypes, WorkerTypes
  <2>3. UNCHANGED <<present, flash, dialog, release, op, data, outcome>>
    BY <1>2 DEF window, job, history
  <2>4. ~release' /\ (~present' => away')
    BY <1>2, <2>2, <2>3 DEF ReaderOpens, ReaderReads, ReaderEnds, Opens, TrueSoFar
  <2>5. ASSUME ReaderFails, reader.pc # "closing" PROVE TrueSoFar'
    <3>1. posted' = <<"abort">> /\ reader'.pc = "closing"
      BY <2>2, <2>5, Marked, PostAfterNothing DEF ReaderFails
    <3> QED
      BY <2>4, <3>1, NothingClaimed
  <2>6. CASE ReaderOpens
    <3>1. reader.pc = "open" /\ posted = <<>> /\ reader.got = <<>>
      BY <2>2, <2>6 DEF ReaderOpens, Opens, SessionInv, Progress
    <3>2. CASE Opens(reader) /\ reader' = [reader EXCEPT !.pc = "read"]
      <4>1. posted' = <<>> /\ reader'.got = <<>>
        BY <2>2, <3>1, <3>2 DEF Opens, Threads
      <4>2. Copied'
        BY <4>1 DEF Copied
      <4> QED
        BY <2>4, <4>1, <4>2 DEF TrueSoFar, ReportIsTrue
    <3> QED
      BY <2>5, <2>6, <3>1, <3>2 DEF ReaderOpens
  <2>7. CASE ReaderReads
    <3>1. reader.pc = "read" /\ posted = <<>> /\ away' = away
      BY <2>2, <2>7 DEF ReaderReads
    <3>2. CASE reader' = Finish(reader) /\ Post("cancelled")
      <4>1. posted' = <<"cancelled">> /\ reader'.pc = "finished"
        BY <2>2, <3>1, <3>2, Marked DEF Finish, Post
      <4> QED
        BY <2>4, <4>1, NothingClaimed
    <3>3. CASE /\ reader.at = BankCount(reader.op) /\ reader' = Finish(reader)
               /\ Post(IF reader.op.kind \in Writes THEN "verify_result" ELSE "read_result")
      <4>1. posted' \in {<<"verify_result">>, <<"read_result">>} /\ reader'.pc = "finished"
            /\ reader'.got = reader.got
        BY <2>2, <3>1, <3>3, Marked DEF Finish, Post
      <4>2. Len(reader.got) = Count(op)
        BY <2>1, <2>2, <3>3, OpFacts DEF SessionInv, Progress
      <4>3. ~away' => Copied' /\ Len(reader'.got) = Count(op')
        BY <2>3, <3>1, <4>1, <4>2 DEF TrueSoFar, Copied
      <4> QED
        BY <2>4, <4>1, <4>3 DEF TrueSoFar, ReportIsTrue
    <3>4. CASE /\ reader.at < BankCount(reader.op)
               /\ reader' = [reader EXCEPT
                    !.got = @ \o BankData(FirstBank(reader.op) + reader.at), !.at = @ + 1]
               /\ UNCHANGED posted
      <4> DEFINE s == reader.got \o BankData(FirstBank(op) + reader.at)
      <4>1. WithNextBank(s)
        BY DEF WithNextBank
      <4>2. reader' = [reader EXCEPT !.got = s, !.at = reader.at + 1]
        BY <2>2, <3>4
      <4> HIDE DEF s
      <4>3. \A i \in 1 .. Len(s) :
              s[i] = IF i <= reader.at * PerBank THEN reader.got[i] ELSE flash[First(op) + i - 1]
        BY <2>1, <2>2, <3>4, <4>1, BankIsRead
      <4>4. Len(reader.got) = reader.at * PerBank
        BY <2>1 DEF SessionInv, Progress
      <4>5. reader'.got = s /\ posted' = <<>>
        BY <2>2, <3>1, <3>4, <4>2 DEF Threads
      <4>6. Copied => \A i \in 1 .. Len(s) : s[i] = flash[First(op) + i - 1]
        <5> SUFFICES ASSUME Copied, NEW i \in 1 .. Len(s) PROVE s[i] = flash[First(op) + i - 1]
          OBVIOUS
        <5>1. CASE i <= reader.at * PerBank
          <6>1. i \in 1 .. Len(reader.got)
            <7>1. reader.got \in Seq(Contents)
              BY <2>2 DEF Threads
            <7> QED
              BY <4>4, <5>1, <7>1
          <6> QED
            BY <4>3, <5>1, <6>1 DEF Copied
        <5>2. CASE ~(i <= reader.at * PerBank)
          BY <4>3, <5>2
        <5> QED
          BY <5>1, <5>2
      <4>7. Copied => Copied'
        BY <2>3, <4>5, <4>6 DEF Copied
      <4> QED
        BY <2>4, <3>1, <4>5, <4>7 DEF TrueSoFar, ReportIsTrue
    <3> QED
      BY <2>5, <2>7, <3>1, <3>2, <3>3, <3>4 DEF ReaderReads
  <2>8. CASE ReaderEnds
    <3>1. posted' = <<"abort">> /\ reader'.pc = "finished"
      BY <2>2, <2>8, Marked DEF ReaderEnds, Finish
    <3> QED
      BY <2>4, <3>1, NothingClaimed
  <2> QED
    BY <1>2, <2>6, <2>7, <2>8
<1> QED
  BY <1>1, <1>2 DEF Reader

LEMMA UserTruth == SessionInv /\ TrueSoFar /\ (User \/ Poll) => TrueSoFar'
<1> SUFFICES ASSUME SessionInv, TrueSoFar, User \/ Poll PROVE TrueSoFar'
  OBVIOUS
<1>1. ASSUME ~busy, UNCHANGED <<cartridge, posted>>, release' \in {FALSE, release},
             \/ reader' = reader
             \/ \E o \in Ops : reader' = Thread(o)
      PROVE  TrueSoFar'
  <2>1. ~Live(reader) /\ posted = <<>> /\ ~release /\ iface \in BOOLEAN
    BY <1>1, NothingGoesOn DEF SessionInv, WindowTypes
  <2>2. reader'.pc # "read"
    <3>1. CASE reader' = reader
      BY <2>1, <3>1 DEF Live
    <3>2. CASE \E o \in Ops : reader' = Thread(o)
      BY <2>1, <3>2, NewThread
    <3> QED
      BY <1>1, <3>1, <3>2
  <2>3. ~present' => away'
    BY <1>1 DEF cartridge, TrueSoFar
  <2>4. ~release' /\ posted' = <<>>
    <3>1. posted' = <<>>
      BY <1>1, <2>1
    <3>2. release = FALSE
      BY <2>1 DEF SessionInv, WindowTypes
    <3> QED
      BY <1>1, <3>1, <3>2
  <2> QED
    BY <2>2, <2>3, <2>4, NothingClaimed
<1>2. op \in Ops /\ (dialog \in {"file", "confirm"} => ~busy)
  BY DEF SessionInv, JobTypes, Phase
<1>3. CASE Connect \/ Identify \/ Poll
  BY <1>1, <1>3 DEF Connect, Identify, Poll, Idle, Message, threads
<1>4. CASE \E o \in Ops : Press(o)
  <2>1. PICK o \in Ops : Press(o)
    BY <1>4
  <2>2. ~busy /\ UNCHANGED <<cartridge, posted>>
    BY <2>1 DEF Press, Idle
  <2>3. CASE o.kind = "read_bank" /\ Start(o, <<>>) /\ UNCHANGED <<connection, dialog, release>>
    BY <1>1, <2>2, <2>3 DEF Start
  <2>4. CASE UNCHANGED <<connection, busy, cancellable, release, data, threads, history>>
    BY <1>1, <2>2, <2>4 DEF threads
  <2>5. CASE CheckBeforeWriting /\ UNCHANGED <<data, threads, history>>
    BY <1>1, <2>2, <2>5 DEF CheckBeforeWriting, Message, threads
  <2> QED
    BY <2>1, <2>3, <2>4, <2>5 DEF Press
<1>5. CASE Decline
  BY <1>1, <1>2, <1>5 DEF Decline, threads
<1>6. CASE ChooseFile
  <2>1. ~busy /\ UNCHANGED <<cartridge, posted>>
    BY <1>2, <1>6 DEF ChooseFile
  <2>2. CASE Start(op, <<>>) /\ UNCHANGED <<connection, release, op>>
    BY <1>1, <1>2, <2>1, <2>2 DEF Start
  <2>3. CASE CheckBeforeWriting /\ UNCHANGED <<job, threads, history>>
    BY <1>1, <2>1, <2>3 DEF CheckBeforeWriting, Message, threads
  <2> QED
    BY <1>6, <2>2, <2>3 DEF ChooseFile
<1>7. CASE Confirm
  BY <1>1, <1>2, <1>7 DEF Confirm, Start
<1>8. CASE Cancel \/ Quit
  <2>1. reader \in Threads /\ (release => dialog = "message")
    BY DEF SessionInv, WorkerTypes, Phase
  <2>2. reader' = Interrupt(reader)
        /\ UNCHANGED <<present, away, flash, op, data, posted, release, outcome>>
    BY <1>8 DEF Cancel, Quit, cartridge, job, window, history
  <2> QED
    BY <2>1, <2>2, InterruptMarks, SameClaims DEF TrueSoFar
<1> QED
  BY <1>3, <1>4, <1>5, <1>6, <1>7, <1>8 DEF User

LEMMA SlotTruth == SessionInv /\ TrueSoFar /\ Slot => TrueSoFar'
<1> SUFFICES ASSUME SessionInv, TrueSoFar, Slot PROVE TrueSoFar'
  OBVIOUS
<1>1. PICK signal \in Signals : Deliver(signal)
  BY DEF Slot, ReadResult, FlashResult, VerifyResult, EraseResult, ThreadCancelled, ThreadAbort, Signals
<1>2. /\ posted = <<signal>> /\ posted' = <<>> /\ ~release
      /\ UNCHANGED <<present, away, flash, op, data>>
  BY <1>1, Delivered
<1>3. ~present' => away'
  BY <1>2 DEF TrueSoFar
<1>4. iface \in BOOLEAN /\ op \in Ops /\ reader \in Threads
  BY DEF SessionInv, WindowTypes, JobTypes, WorkerTypes
<1>5. reader'.pc # "read"
  <2>1. reader' = NoThread \/ reader' = Thread(op) \/ reader' = reader
    BY DEF Slot, ReadResult, FlashResult, VerifyResult, EraseResult, ThreadCancelled, ThreadAbort
  <2>2. posted # <<>> => reader.pc # "read"
    BY DEF SessionInv, Phase, Working, Live
  <2> QED
    BY <1>2, <1>4, <2>1, <2>2, NewThread, NoThreadFacts
<1>6. CASE ReadResult \/ FlashResult \/ ThreadCancelled \/ ThreadAbort
  <2>1. release' => outcome' = "unsaved"
    BY <1>2, <1>6 DEF ReadResult, FlashResult, ThreadCancelled, ThreadAbort, Message, window
  <2> QED
    BY <1>2, <1>3, <1>5, <2>1 DEF TrueSoFar, ReportIsTrue
<1>7. CASE VerifyResult
  <2>1. posted = <<"verify_result">> /\ (outcome' = "verified" => reader.got = data) /\ outcome' # "erased"
    BY <1>2, <1>7 DEF VerifyResult, Deliver, ReadBackMatches
  <2>2. ~away => Copied /\ Len(reader.got) = Count(op)
    BY <2>1 DEF TrueSoFar
  <2>3. First(op) \in Nat /\ Count(op) \in Nat
    BY <1>4, OpFacts
  <2>4. ASSUME ~away, reader.got = data, NEW i \in Scope(op)
        PROVE  flash[i] = data[i - First(op) + 1]
    <3>1. i - First(op) + 1 \in 1 .. Len(reader.got) /\ First(op) + (i - First(op) + 1) - 1 = i
      <4>1. i \in First(op) .. First(op) + Count(op) - 1 /\ Len(reader.got) = Count(op)
        BY <2>2, <2>4 DEF Scope
      <4> QED
        BY <2>3, <4>1
    <3> QED
      BY <2>2, <2>4, <3>1 DEF Copied
  <2> QED
    BY <1>2, <1>3, <1>5, <2>1, <2>4 DEF TrueSoFar, ReportIsTrue
<1>8. CASE EraseResult
  <2>1. posted = <<"erase_result">> /\ outcome' = "erased"
    BY <1>2, <1>8 DEF EraseResult, Deliver
  <2>2. ~away => \A i \in Scope(op) : flash[i] = Blank
    BY <2>1 DEF TrueSoFar
  <2> QED
    BY <1>2, <1>3, <1>5, <2>1, <2>2 DEF TrueSoFar, ReportIsTrue
<1> QED
  BY <1>6, <1>7, <1>8 DEF Slot

LEMMA TruthStep == SessionInv /\ TrueSoFar /\ [Next]_vars => TrueSoFar'
<1> SUFFICES ASSUME SessionInv, TrueSoFar, [Next]_vars PROVE TrueSoFar'
  OBVIOUS
<1>1. CASE Flasher \/ Reader
  BY <1>1, FlasherTruth, ReaderTruth
<1>2. CASE User \/ Poll \/ Slot
  BY <1>2, UserTruth, SlotTruth
<1>3. CASE Dismiss
  <2>1. ~release' /\ UNCHANGED <<present, away, flash, op, data, reader, posted, outcome>>
    BY <1>3 DEF Dismiss, cartridge, job, threads, history
  <2> QED
    BY <2>1, SameClaims DEF TrueSoFar
<1>4. CASE Unplug
  <2>1. /\ away' = TRUE /\ reader' = Lose(reader) /\ reader \in Threads
        /\ UNCHANGED <<op, data, posted, release, outcome>>
    BY <1>4 DEF Unplug, job, window, history, SessionInv, WorkerTypes
  <2> QED
    BY <2>1, LoseMarks, SameClaims
<1>5. CASE Plug
  <2>1. away /\ UNCHANGED <<away, op, data, reader, posted, release, outcome>>
    BY <1>5 DEF Plug, TrueSoFar, job, threads, window, history
  <2> QED
    BY <2>1, SameClaims
<1>6. CASE UNCHANGED vars
  <2>1. UNCHANGED <<present, away, flash, op, data, reader, posted, dialog, release, outcome>>
    BY <1>6 DEF vars, cartridge, window, job, threads, history
  <2> QED
    BY <2>1, SameClaims DEF TrueSoFar, SessionInv, Phase
<1> QED
  BY <1>1, <1>2, <1>3, <1>4, <1>5, <1>6 DEF Next

-----------------------------------------------------------------------------
\* Which blocks a cut changes.
LEMMA CutChanges ==
  ASSUME SessionInv, flash' \in Cut, NEW i \in Blocks, flash'[i] # flash[i]
  PROVE  Live(flasher) /\ flasher.op = op /\ op.kind \in Writes \cup Erases /\ i \in Scope(op)
<1>1. flash \in [Blocks -> Contents] /\ flasher \in Threads /\ op \in Ops
  BY DEF SessionInv, CartridgeTypes, WorkerTypes, JobTypes
<1>2. CASE flasher.pc = "erase"
  <2>1. PICK S \in SUBSET Scope(flasher.op), c \in {Blank, Torn} :
          flash' = [j \in Blocks |-> IF j \in S THEN c ELSE flash[j]]
    BY <1>2 DEF Cut
  <2>2. Live(flasher) /\ flasher.op = op /\ op.kind \in Writes \cup Erases
    BY <1>2 DEF SessionInv, Targets, Live
  <2> QED
    BY <2>1, <2>2
<1>3. CASE flasher.pc = "program" /\ flasher.at < Count(flasher.op)
  <2>1. flash' = flash \/ \E c \in {data[flasher.at + 1], Torn} :
          flash' = [flash EXCEPT ![BlockOf(flasher)] = c]
    BY <1>3 DEF Cut
  <2>2. Live(flasher) /\ flasher.op = op /\ op.kind \in Writes \cup Erases
    BY <1>3 DEF SessionInv, Targets, Live
  <2>3. i = BlockOf(flasher)
    BY <1>1, <2>1
  <2>4. First(op) \in Nat /\ Count(op) \in Nat /\ flasher.at \in Nat
    BY <1>1, OpFacts DEF Threads
  <2>5. BlockOf(flasher) \in Scope(op)
    BY <1>3, <2>2, <2>4 DEF BlockOf, Scope
  <2> QED
    BY <2>2, <2>3, <2>5
<1>4. CASE flasher.pc # "erase" /\ ~(flasher.pc = "program" /\ flasher.at < Count(flasher.op))
  BY <1>4 DEF Cut
<1> QED
  BY <1>2, <1>3, <1>4

\* What the next step may do to a block of the flash.
LEMMA ChangesAreConfirmed ==
  ASSUME SessionInv, [Next]_vars, present, NEW i \in Blocks, flash'[i] # flash[i]
  PROVE  Live(flasher) /\ flasher.op = op /\ op.kind \in Writes \cup Erases /\ i \in Scope(op)
<1>1. flash \in [Blocks -> Contents] /\ flasher \in Threads /\ op \in Ops
  BY DEF SessionInv, CartridgeTypes, WorkerTypes, JobTypes
<1>2. CASE flash' \in Cut
  BY <1>2, CutChanges
<1>3. CASE FlasherErases \/ FlasherPrograms
  <2>1. CASE FlasherCallFails
    BY <1>2, <2>1 DEF FlasherCallFails
  <2>2. Live(flasher) /\ flasher.op = op /\ op.kind \in Writes \cup Erases
    BY <1>3 DEF FlasherErases, FlasherPrograms, SessionInv, Targets, Live
  <2>3. CASE flash' = [j \in Blocks |-> IF j \in Scope(flasher.op) THEN Blank ELSE flash[j]]
    BY <2>2, <2>3
  <2>4. CASE /\ flasher.at < Count(flasher.op)
             /\ flash' = [flash EXCEPT ![BlockOf(flasher)] = data[flasher.at + 1]]
    <3>1. i = BlockOf(flasher)
      BY <1>1, <2>4
    <3>2. First(op) \in Nat /\ Count(op) \in Nat /\ flasher.at \in Nat
      BY <1>1, OpFacts DEF Threads
    <3>3. BlockOf(flasher) \in Scope(op)
      BY <2>2, <2>4, <3>2 DEF BlockOf, Scope
    <3> QED
      BY <2>2, <3>1, <3>3
  <2> QED
    BY <1>3, <2>1, <2>3, <2>4 DEF FlasherErases, FlasherPrograms
<1>4. CASE Flasher
  BY <1>3, <1>4 DEF Flasher, CrashOnNull, FlasherOpens, FlasherEnds, cartridge
<1>5. CASE Reader
  BY <1>5 DEF Reader, CrashOnNull, cartridge
<1>6. CASE Unplug
  BY <1>2, <1>6 DEF Unplug
<1>7. CASE Plug
  BY <1>7 DEF Plug
<1>8. CASE Connect \/ Identify \/ Poll \/ Decline \/ Confirm \/ Cancel \/ Quit
  BY <1>8 DEF Connect, Identify, Poll, Decline, Confirm, Cancel, Quit, cartridge
<1>9. CASE ChooseFile \/ Dismiss \/ \E o \in Ops : Press(o)
  BY <1>9 DEF ChooseFile, Dismiss, Press, cartridge
<1>10. CASE Slot
  BY <1>10 DEF Slot, ReadResult, FlashResult, VerifyResult, EraseResult, ThreadCancelled, ThreadAbort,
     Deliver, cartridge
<1>11. CASE UNCHANGED vars
  BY <1>11 DEF vars, cartridge
<1> QED
  BY <1>4, <1>5, <1>6, <1>7, <1>8, <1>9, <1>10, <1>11 DEF Next, User

\* No step destroys a thread that has not ended.
LEMMA EndedBeforeDestroyed ==
  ASSUME SessionInv, [Next]_vars
  PROVE  /\ Live(flasher) => flasher'.pc # "null"
         /\ Live(reader) => reader'.pc # "null"
<1>1. flasher \in Threads /\ reader \in Threads /\ iface \in BOOLEAN /\ op \in Ops
  BY DEF SessionInv, WorkerTypes, WindowTypes, JobTypes
<1>2. CASE UNCHANGED threads
  BY <1>2 DEF threads, Live
<1>3. CASE Flasher
  <2>1. CASE CrashOnNull(flasher)
    BY <1>2, <2>1 DEF CrashOnNull
  <2>2. CASE /\ FlasherOpens \/ FlasherErases \/ FlasherPrograms \/ FlasherEnds
             /\ UNCHANGED <<present, plugs, connection, window, job, reader, alive, history>>
    <3>1. \/ flasher' = [flasher EXCEPT !.pc = "erase"] \/ flasher' = [flasher EXCEPT !.pc = "program"]
          \/ flasher' = [flasher EXCEPT !.pc = "closing"] \/ flasher' = [flasher EXCEPT !.pc = "finished"]
          \/ flasher' = [flasher EXCEPT !.at = @ + 1]
      BY <2>2 DEF FlasherOpens, FlasherErases, FlasherPrograms, FlasherEnds, Finish, FlasherCallFails, FlasherFails
    <3>2. Live(flasher) => flasher'.pc # "null"
      BY <1>1, <3>1 DEF Threads, Live
    <3> QED
      BY <2>2, <3>2 DEF Live
  <2> QED
    BY <1>3, <2>1, <2>2 DEF Flasher
<1>4. CASE Reader
  <2>1. CASE CrashOnNull(reader)
    BY <1>2, <2>1 DEF CrashOnNull
  <2>2. CASE /\ ReaderOpens \/ ReaderReads \/ ReaderEnds
             /\ UNCHANGED <<present, plugs, flash, connection, window, job, flasher, alive, history>>
    <3>1. \/ reader' = [reader EXCEPT !.pc = "read"]
          \/ reader' = [reader EXCEPT !.pc = "closing"] \/ reader' = [reader EXCEPT !.pc = "finished"]
          \/ reader' = [reader EXCEPT
               !.got = @ \o BankData(FirstBank(reader.op) + reader.at), !.at = @ + 1]
      BY <2>2 DEF ReaderOpens, ReaderReads, ReaderEnds, Finish, ReaderFails
    <3>2. Live(reader) => reader'.pc # "null"
      BY <1>1, <3>1 DEF Threads, Live
    <3> QED
      BY <2>2, <3>2 DEF Live
  <2> QED
    BY <1>4, <2>1, <2>2 DEF Reader
<1>5. CASE Connect \/ Identify \/ Poll \/ Decline \/ Dismiss \/ Plug
  BY <1>2, <1>5 DEF Connect, Identify, Poll, Decline, Dismiss, Plug
<1>6. ASSUME NEW o \in Ops, NEW image, Start(o, image)
      PROVE  \/ flasher'.pc # "null" /\ reader' = reader
             \/ reader'.pc # "null" /\ flasher' = flasher
  BY <1>1, <1>6, NewThread DEF Start
<1>7. CASE \E o \in Ops : Press(o)
  BY <1>2, <1>6, <1>7 DEF Press, Live
<1>8. CASE ChooseFile
  BY <1>1, <1>2, <1>6, <1>8 DEF ChooseFile, Live
<1>9. CASE Confirm
  BY <1>1, <1>6, <1>9 DEF Confirm, Live
<1>10. CASE Cancel \/ Quit
  BY <1>1, <1>10, InterruptMarks DEF Cancel, Quit, Live
<1>11. CASE Unplug
  BY <1>1, <1>11, LoseMarks DEF Unplug, Live
<1>12. CASE FlashResult
  <2>1. flasher' = flasher /\ reader' = Thread(op)
    BY <1>12 DEF FlashResult
  <2> QED
    BY <1>1, <2>1, NewThread DEF Live
<1>13. CASE ReadResult \/ VerifyResult \/ EraseResult
  <2>1. \E signal \in Signals \ {"abort"} : Deliver(signal)
    BY <1>13 DEF ReadResult, VerifyResult, EraseResult, Signals
  <2> QED
    BY <2>1, Delivered
<1>14. CASE ThreadCancelled \/ ThreadAbort
  BY <1>14 DEF ThreadCancelled, ThreadAbort, Settled
<1>15. CASE UNCHANGED vars
  BY <1>2, <1>15 DEF vars
<1> QED
  BY <1>3, <1>4, <1>5, <1>7, <1>8, <1>9, <1>10, <1>11, <1>12, <1>13, <1>14, <1>15 DEF Next, User, Slot

-----------------------------------------------------------------------------
\* The phases, types and targets hold from the start on, and so do the claims
\* the window makes.
THEOREM SessionInvariant == Spec => [](SessionInv /\ TrueSoFar)
<1>1. Init => SessionInv /\ TrueSoFar
  BY SessionInit, TruthInit
<1>2. SessionInv /\ TrueSoFar /\ [Next]_vars => (SessionInv /\ TrueSoFar)'
  BY SessionStep, TruthStep
<1> QED
  BY <1>1, <1>2, PTL DEF Spec

\* Every variable of the session keeps its type, and never more than one signal
\* waits (flashthread.cpp:43-103, readthread.cpp:14-51).
THEOREM SessionTypeCorrect == Spec => []TypeOK
BY SessionInvariant, TypesAreRight, PTL

\* The serial port has one user at any time, whatever is pressed, pulled or
\* cancelled (mainwindow.cpp:1356-1374, flash_result_ready).
THEOREM PortHasOneUser == Spec => []OneUserOfThePort
<1>1. SessionInv => OneUserOfThePort
  BY DEF SessionInv, Phase, OneUserOfThePort
<1> QED
  BY <1>1, SessionInvariant, PTL

\* "Programmed and all bytes verified" and "verified as FF" are true of the
\* cartridge that was read back (verify_result_ready, erase_result_ready).
THEOREM SessionReportIsTrue == Spec => []ReportIsTrue
<1>1. TrueSoFar => ReportIsTrue
  BY DEF TrueSoFar
<1> QED
  BY <1>1, SessionInvariant, PTL

\* Only blocks the user confirmed change (mainwindow.cpp:965-999, 1089-1107).
THEOREM ConfirmedBlocksChange == Spec => OnlyConfirmedBlocksChange
<1>1. SessionInv /\ [Next]_vars =>
        [present => \A i \in Blocks : flash'[i] # flash[i] =>
           Live(flasher) /\ flasher.op = op /\ op.kind \in Writes \cup Erases /\ i \in Scope(op)]_vars
  BY ChangesAreConfirmed
<1> QED
  BY <1>1, SessionInvariant, PTL DEF Spec, OnlyConfirmedBlocksChange

\* A thread object is destroyed only after its thread has ended (the wait() in
\* every slot).
THEOREM ThreadsEndFirst == Spec => NoLiveThreadDestroyed
<1>1. SessionInv /\ [Next]_vars =>
        [/\ Live(flasher) => flasher'.pc # "null"
         /\ Live(reader) => reader'.pc # "null"]_vars
  BY EndedBeforeDestroyed
<1> QED
  BY <1>1, SessionInvariant, PTL DEF Spec, NoLiveThreadDestroyed
=============================================================================
