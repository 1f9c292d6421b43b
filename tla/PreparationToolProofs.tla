------------------------ MODULE PreparationToolProofs ------------------------
(***************************************************************************)
(* Proofs about the preparation tool for every set of readable values,     *)
(* every set of images and every number of probes it admits.               *)
(***************************************************************************)
EXTENDS PreparationTool, TLAPS

\* Between two probes of a series all readings were equal, of the expected
\* chip, and either the chip's own or all of them disturbed.
SeriesAgrees ==
  IF pc = "probe" /\ probe > 0
    THEN \E r \in Probes :
           /\ reference = {r} /\ r.signature = ExpectedSignature
           /\ disturbed = IF r = chip THEN 0 ELSE probe
    ELSE reference = NoProbe /\ probe = 0 /\ disturbed = 0

\* What is known of the chip while it is written to.
WriteOrder ==
  /\ pc \in {"install"} \cup Steps => Preinstall(chip) /\ ~post
  /\ pc \in Steps => options.image \in Complete
  /\ pc \in {"verify", "efuse", "hfuse"} => flash = options.image
  /\ pc = "hfuse" => chip.extended \in Installed
  /\ pc = "probe" /\ post => flash = options.image /\ options.image \in Complete

ToolInv ==
  /\ TypeOK
  /\ SeriesAgrees
  /\ WriteOrder
  /\ SaysTheTruth
  /\ pc # "menu" => said = "none"
  /\ pc = "menu" => ~post

USE DEF ExpectedSignature, ExpectedLowFuse, InstalledHighFuse, PostInstallProbes, Steps

\* A series has at least two probes (main.cpp:391, 453).
LEMMA ProbeBounds == \A n \in ProbeCounts : n \in Nat /\ n >= 2
<1>1. ProbeCounts \subseteq 2 .. 20
  BY ToolAssumption
<1> QED BY <1>1

LEMMA CountBounds ==
  ASSUME NEW o \in [action : {"check", "flash"}, image : Images, probes : ProbeCounts],
         NEW p \in BOOLEAN
  PROVE  /\ o.probes \in Nat /\ o.probes >= 2
         /\ (IF p THEN PostInstallProbes ELSE o.probes) \in Nat
         /\ (IF p THEN PostInstallProbes ELSE o.probes) >= 2
<1>1. o.probes \in ProbeCounts
  OBVIOUS
<1>2. o.probes \in Nat /\ o.probes >= 2
  BY <1>1, ProbeBounds
<1> QED BY <1>2

AllOptions == [action : {"check", "flash"}, image : Images, probes : ProbeCounts]

\* A series that has just begun is well typed.
LEMMA NewSeriesType ==
  ASSUME NEW p \in BOOLEAN, NewSeries(p), options' \in AllOptions
  PROVE  /\ reference' \in {NoProbe} \cup {{r} : r \in Probes}
         /\ probe' \in 0 .. (Count' - 1) /\ disturbed' \in 0 .. probe' /\ post' \in BOOLEAN
<1>1. post' \in BOOLEAN /\ probe' = 0 /\ disturbed' = 0 /\ reference' = NoProbe
  BY DEF NewSeries
<1>2. Count' \in Nat /\ Count' >= 2
  BY <1>1, CountBounds DEF AllOptions, Count
<1>3. \A n \in Nat : n >= 2 => 0 \in 0 .. (n - 1)
  OBVIOUS
<1>4. 0 \in 0 .. (Count' - 1)
  BY <1>2, <1>3
<1> QED BY <1>1, <1>4

LEMMA ToolInit == Init => ToolInv
<1> SUFFICES ASSUME Init PROVE ToolInv
  OBVIOUS
<1>1. options \in [action : {"check", "flash"}, image : Images, probes : ProbeCounts]
  <2>1. (CHOOSE i \in Images : TRUE) \in Images
    BY ToolAssumption
  <2>2. (CHOOSE n \in ProbeCounts : TRUE) \in ProbeCounts
    BY ToolAssumption
  <2> QED BY <2>1, <2>2 DEF Init
<1>2. Count \in Nat /\ Count >= 2
  BY <1>1, CountBounds DEF Init, Count
<1>3. 0 \in 0 .. (Count - 1)
  BY <1>2
<1>4. TypeOK
  <2>1. chip \in Probes /\ flash \in Contents
    BY DEF Init, Contents
  <2>2. /\ reference \in {NoProbe} \cup {{r} : r \in Probes}
        /\ disturbed \in 0 .. probe /\ probe \in 0 .. (Count - 1)
    BY <1>3 DEF Init
  <2> QED
    BY <1>1, <2>1, <2>2 DEF Init, TypeOK
<1> QED
  BY <1>4 DEF Init, ToolInv, SeriesAgrees, WriteOrder, SaysTheTruth

\* An operation that ends without a claim leaves the menu in order.
LEMMA EndsKeeps ==
  ASSUME ToolInv, NEW m \in {"none", "error", "checked", "prepared"}, Ends(m),
         chip' \in Probes, flash' \in Contents,
         m = "checked" => Preinstall(chip'),
         m = "prepared" => /\ flash' = options.image /\ options.image \in Complete
                           /\ Preinstall(chip') /\ Postinstall(chip')
  PROVE  ToolInv'
<1>1. TypeOK'
  BY NewSeriesType DEF ToolInv, TypeOK, Ends, AllOptions
<1>2. SeriesAgrees' /\ WriteOrder'
  BY DEF Ends, NewSeries, SeriesAgrees, WriteOrder
<1>3. SaysTheTruth'
  BY DEF Ends, SaysTheTruth, Preinstall, Postinstall
<1> QED
  BY <1>1, <1>2, <1>3 DEF ToolInv, Ends, NewSeries

LEMMA SwapKeeps == ToolInv /\ Swap => ToolInv'
<1> SUFFICES ASSUME ToolInv, Swap PROVE ToolInv'
  OBVIOUS
<1>1. TypeOK'
  BY CountBounds DEF ToolInv, TypeOK, Swap, series, Contents, Count
<1> QED
  BY <1>1 DEF ToolInv, Swap, series, SeriesAgrees, WriteOrder, SaysTheTruth

LEMMA StartKeeps == ToolInv /\ Start => ToolInv'
<1> SUFFICES ASSUME ToolInv, Start PROVE ToolInv'
  OBVIOUS
<1>1. TypeOK'
  <2>1. options' \in AllOptions
    BY DEF Start, AllOptions
  <2> QED
    BY <2>1, NewSeriesType DEF ToolInv, TypeOK, Start, board, AllOptions
<1> QED
  BY <1>1 DEF ToolInv, Start, NewSeries, board, SeriesAgrees, WriteOrder, SaysTheTruth

\* The reading that ends a series of probes is the chip's own: of the readings
\* one at least was undisturbed, and all were equal (main.cpp:231-239).
LEMMA LastReadingIsTrue ==
  ASSUME ToolInv, pc = "probe", NEW current \in Probes,
         current # chip => disturbed + 1 < Count,
         ~Differs(current), ~(probe + 1 < Count)
  PROVE  current = chip
<1>1. Count \in Nat /\ Count >= 2 /\ probe \in Nat
  BY CountBounds DEF ToolInv, TypeOK, Count
<1>2. probe > 0
  BY <1>1
<1>3. PICK r \in Probes : reference = {r} /\ disturbed = IF r = chip THEN 0 ELSE probe
  BY <1>2 DEF ToolInv, SeriesAgrees
<1>4. current = r
  BY <1>3 DEF Differs
<1> QED
  BY <1>1, <1>3, <1>4

LEMMA ProbeKeeps == ToolInv /\ Probe => ToolInv'
<1> SUFFICES ASSUME ToolInv, pc = "probe", UNCHANGED board,
                    NEW current \in Probes,
                    current # chip => disturbed + 1 < Count,
                    Read(current)
             PROVE  ToolInv'
  BY DEF Probe
<1> USE DEF board
<1>1. chip' \in Probes /\ flash' \in Contents /\ Count \in Nat
  BY CountBounds DEF ToolInv, TypeOK, Count
<1>2. CASE Fail
  BY <1>1, <1>2, EndsKeeps DEF Fail
<1>3. CASE /\ current.signature = ExpectedSignature /\ ~Differs(current)
           /\ probe + 1 < Count
  <2>1. /\ reference' = {current} /\ probe' = probe + 1
        /\ disturbed' = IF current = chip THEN disturbed ELSE disturbed + 1
        /\ UNCHANGED <<pc, options, post, said>>
    BY <1>3 DEF Read
  <2>2. probe \in Nat /\ disturbed \in 0 .. probe
    BY <1>1 DEF ToolInv, TypeOK
  <2>3. TypeOK'
    BY <1>1, <1>3, <2>1, <2>2 DEF ToolInv, TypeOK, Count
  <2>4. disturbed' = IF current = chip THEN 0 ELSE probe'
    <3>1. CASE probe = 0
      BY <2>1, <2>2, <3>1
    <3>2. CASE probe > 0
      <4>1. PICK r \in Probes : reference = {r} /\ disturbed = IF r = chip THEN 0 ELSE probe
        BY <3>2 DEF ToolInv, SeriesAgrees
      <4>2. current = r
        BY <1>3, <4>1 DEF Differs
      <4> QED BY <2>1, <4>1, <4>2
    <3> QED BY <2>2, <3>1, <3>2
  <2>5. SeriesAgrees'
    BY <1>3, <2>1, <2>2, <2>4 DEF SeriesAgrees
  <2> QED
    BY <2>1, <2>3, <2>5 DEF ToolInv, WriteOrder, SaysTheTruth
<1>4. CASE /\ current.signature = ExpectedSignature /\ ~Differs(current)
           /\ ~(probe + 1 < Count) /\ Accepted(current) /\ Stable
  <2>1. current = chip
    BY <1>4, LastReadingIsTrue
  <2>2. CASE post
    <3>1. Ends("prepared") /\ Postinstall(chip)
      BY <1>4, <2>1, <2>2 DEF Stable, Accepted
    <3>2. Preinstall(chip)
      BY <1>4, <2>1, <3>1 DEF Preinstall, Postinstall
    <3> QED
      BY <1>1, <2>2, <3>1, <3>2, EndsKeeps DEF ToolInv, WriteOrder, Preinstall, Postinstall
  <2>3. CASE ~post
    <3>1. Preinstall(chip)
      BY <1>4, <2>1, <2>3 DEF Accepted
    <3>2. CASE options.action = "check"
      BY <1>1, <1>4, <2>3, <3>1, <3>2, EndsKeeps DEF Stable, Preinstall
    <3>3. CASE options.action # "check"
      <4>1. pc' = "install" /\ NewSeries(FALSE) /\ UNCHANGED <<options, said>>
        BY <1>4, <2>3, <3>3 DEF Stable
      <4>2. TypeOK'
        BY <1>1, <4>1, NewSeriesType DEF ToolInv, TypeOK, AllOptions
      <4> QED
        BY <3>1, <4>1, <4>2 DEF ToolInv, SeriesAgrees, WriteOrder, SaysTheTruth, NewSeries, Preinstall
    <3> QED BY <3>2, <3>3
  <2> QED BY <2>2, <2>3
<1> QED
  BY <1>2, <1>3, <1>4 DEF Read

LEMMA FailKeeps ==
  ASSUME ToolInv, Fail, chip' \in Probes, flash' \in Contents
  PROVE  ToolInv'
BY EndsKeeps DEF Fail

LEMMA ValidateKeeps == ToolInv /\ Validate => ToolInv'
<1> SUFFICES ASSUME ToolInv, Validate PROVE ToolInv'
  OBVIOUS
<1>1. CASE options.image \in Complete
  <2>1. pc' = "erase" /\ UNCHANGED <<options, series, said, board>>
    BY <1>1 DEF Validate, FirstStep
  <2>2. TypeOK'
    BY <2>1 DEF ToolInv, TypeOK, Count, series, board
  <2> QED
    BY <1>1, <2>1, <2>2 DEF ToolInv, Validate, SeriesAgrees, WriteOrder, SaysTheTruth, series, board, Preinstall
<1>2. CASE options.image \notin Complete
  BY <1>2, FailKeeps DEF Validate, board, ToolInv, TypeOK
<1> QED BY <1>1, <1>2

\* A step of the AVRDUDE command that is not the last.
LEMMA StepKeeps ==
  ASSUME ToolInv, NEW step \in {"erase", "flash", "verify", "efuse"}, pc = step, Advance(step),
         chip' \in Probes, flash' \in Contents, Preinstall(chip'),
         step = "flash" => flash' = options.image,
         step \in {"verify", "efuse"} => flash' = flash,
         step = "efuse" => chip'.extended \in Installed
  PROVE  ToolInv'
<1>1. pc' = After(step) /\ After(step) # "probe" /\ UNCHANGED <<options, said, series>>
  BY DEF Advance, After
<1>2. pc' \in Steps /\ pc' # "erase"
  BY <1>1 DEF After
<1>3. TypeOK'
  BY <1>1, <1>2 DEF ToolInv, TypeOK, Count, series
<1>4. SeriesAgrees' /\ (pc' # "menu" => said' = "none") /\ SaysTheTruth' /\ (pc' = "menu" => ~post')
  BY <1>1, <1>2 DEF ToolInv, SeriesAgrees, SaysTheTruth, series
<1>5. WriteOrder'
  BY <1>1, <1>2 DEF ToolInv, WriteOrder, series, After, Preinstall
<1> QED BY <1>3, <1>4, <1>5 DEF ToolInv

\* The last step: the second series begins.
LEMMA LastStepKeeps == ToolInv /\ WriteHighFuse => ToolInv'
<1> SUFFICES ASSUME ToolInv, WriteHighFuse PROVE ToolInv'
  OBVIOUS
<1>1. /\ pc = "hfuse" /\ pc' = "probe" /\ NewSeries(TRUE)
      /\ UNCHANGED <<options, said, flash>>
      /\ chip' = [chip EXCEPT !.high = InstalledHighFuse]
  BY DEF WriteHighFuse, Advance, After
<1>2. chip' \in Probes
  BY <1>1, ToolAssumption DEF ToolInv, TypeOK, Probes
<1>3. TypeOK'
  BY <1>1, <1>2, NewSeriesType DEF ToolInv, TypeOK, AllOptions
<1> QED
  BY <1>1, <1>3 DEF ToolInv, NewSeries, SeriesAgrees, WriteOrder, SaysTheTruth

\* A write that changes one field of what can be read leaves the rest.
LEMMA FieldWritten ==
  ASSUME ToolInv
  PROVE  /\ \A l \in Locks : LET c == [chip EXCEPT !.lock = l] IN
              c \in Probes /\ (Preinstall(chip) => Preinstall(c))
         /\ \A e \in ExtendedFuses : LET c == [chip EXCEPT !.extended = e] IN
              /\ c \in Probes /\ c.extended = e
              /\ e \in Installed /\ Preinstall(chip) => Preinstall(c)
         /\ \A h \in HighFuses : LET c == [chip EXCEPT !.high = h] IN
              /\ c \in Probes
              /\ h = InstalledHighFuse /\ Preinstall(chip) => Preinstall(c)
BY DEF ToolInv, TypeOK, Probes, Preinstall

LEMMA WritesKeep ==
  ToolInv /\ (Erase \/ WriteFlash \/ VerifyFlash \/ WriteExtendedFuse) => ToolInv'
<1> SUFFICES ASSUME ToolInv, Erase \/ WriteFlash \/ VerifyFlash \/ WriteExtendedFuse
             PROVE  ToolInv'
  OBVIOUS
<1>1. /\ chip \in Probes /\ flash \in Contents /\ options.image \in Images
      /\ pc \in Steps => Preinstall(chip)
  BY DEF ToolInv, TypeOK, WriteOrder
<1>2. CASE Erase
  <2>1. /\ pc = "erase" /\ Advance("erase") /\ flash' \in Contents
        /\ \E l \in Unlocked : chip' = [chip EXCEPT !.lock = l]
    BY <1>2 DEF Erase, Contents
  <2>2. chip' \in Probes /\ Preinstall(chip')
    BY <1>1, <2>1, FieldWritten, ToolAssumption
  <2> QED BY <2>1, <2>2, StepKeeps
<1>3. CASE WriteFlash
  <2>1. /\ pc = "flash" /\ Advance("flash") /\ flash' = options.image /\ chip' = chip
    BY <1>3 DEF WriteFlash
  <2> QED BY <1>1, <2>1, StepKeeps DEF Contents, Preinstall
<1>4. CASE VerifyFlash
  <2>1. pc = "verify" /\ Advance("verify") /\ flash' = flash /\ chip' = chip
    BY <1>4 DEF VerifyFlash, board
  <2> QED BY <1>1, <2>1, StepKeeps DEF Preinstall
<1>5. CASE WriteExtendedFuse
  <2>1. /\ pc = "efuse" /\ Advance("efuse") /\ flash' = flash
        /\ \E e \in Installed : chip' = [chip EXCEPT !.extended = e]
    BY <1>5 DEF WriteExtendedFuse
  <2>2. Installed \subseteq ExtendedFuses
    BY ToolAssumption
  <2>3. chip' \in Probes /\ chip'.extended \in Installed /\ Preinstall(chip')
    BY <1>1, <2>1, <2>2, FieldWritten
  <2> QED BY <1>1, <2>1, <2>3, StepKeeps
<1> QED BY <1>2, <1>3, <1>4, <1>5

LEMMA StepFailsKeeps == ToolInv /\ StepFails => ToolInv'
<1> SUFFICES ASSUME ToolInv, StepFails PROVE ToolInv'
  OBVIOUS
<1>1. {chip.lock} \cup Unlocked \subseteq Locks
  BY ToolAssumption DEF ToolInv, TypeOK, Probes
<1>2. chip' \in Probes /\ flash' \in Contents
  BY <1>1, FieldWritten DEF StepFails, board, ToolInv, TypeOK, Contents
<1> QED BY <1>2, FailKeeps DEF StepFails

LEMMA ToolNext == ToolInv /\ [Next]_vars => ToolInv'
<1> SUFFICES ASSUME ToolInv, [Next]_vars PROVE ToolInv'
  OBVIOUS
<1>1. CASE Swap
  BY <1>1, SwapKeeps
<1>2. CASE Start
  BY <1>2, StartKeeps
<1>3. CASE NothingFound \/ ProbeFails
  BY <1>3, FailKeeps DEF NothingFound, ProbeFails, board, ToolInv, TypeOK
<1>4. CASE Probe
  BY <1>4, ProbeKeeps
<1>5. CASE Validate
  BY <1>5, ValidateKeeps
<1>6. CASE Erase \/ WriteFlash \/ VerifyFlash \/ WriteExtendedFuse
  BY <1>6, WritesKeep
<1>7. CASE WriteHighFuse
  BY <1>7, LastStepKeeps
<1>8. CASE StepFails
  BY <1>8, StepFailsKeeps
<1>9. CASE UNCHANGED vars
  BY <1>9 DEF vars, ToolInv, TypeOK, Count, SeriesAgrees, WriteOrder, SaysTheTruth,
              Preinstall, Postinstall
<1> QED
  BY <1>1, <1>2, <1>3, <1>4, <1>5, <1>6, <1>7, <1>8, <1>9 DEF Next

-----------------------------------------------------------------------------
\* What the tool knows at each place of an operation (main.cpp:227-251,
\* 310-322, 431-466).
THEOREM ToolInvariant == Spec => []ToolInv
<1>1. Init => ToolInv
  BY ToolInit
<1>2. ToolInv /\ [Next]_vars => ToolInv'
  BY ToolNext
<1> QED BY <1>1, <1>2, PTL DEF Spec

\* The tool's state is well typed, the probes of a series never more than were
\* asked for (main.cpp:231).
THEOREM ToolTypeCorrect == Spec => []TypeOK
<1>1. ToolInv => TypeOK
  BY DEF ToolInv
<1> QED BY <1>1, ToolInvariant, PTL

\* The tool's success messages are true, for every chip, image and number of
\* probes, as long as one reading of each series is undisturbed
\* (main.cpp:452-461).
THEOREM ToolSaysTheTruth == Spec => []SaysTheTruth
<1>1. ToolInv => SaysTheTruth
  BY DEF ToolInv
<1> QED BY <1>1, ToolInvariant, PTL

\* What a step of an operation does to the chip: at most one of the bytes that
\* can be read is written, and only the boot fuse's by its own step.
LEMMA ChipSteps ==
  ASSUME ToolInv, [Next]_vars, pc # "menu"
  PROVE  \/ chip' = chip
         \/ \E l \in Locks : chip' = [chip EXCEPT !.lock = l]
         \/ \E e \in ExtendedFuses : chip' = [chip EXCEPT !.extended = e]
         \/ pc = "hfuse" /\ \E h \in HighFuses : chip' = [chip EXCEPT !.high = h]
<1>1. chip \in Probes /\ chip.lock \in Locks
  BY DEF ToolInv, TypeOK, Probes
<1>2. CASE StepFails
  BY <1>1, <1>2, ToolAssumption DEF StepFails, board
<1>3. CASE Next /\ ~StepFails
  BY <1>3, ToolAssumption DEF Next, board, Swap, Start, NothingFound, Probe, ProbeFails, Validate,
     Erase, WriteFlash, VerifyFlash, WriteExtendedFuse, WriteHighFuse
<1> QED BY <1>2, <1>3 DEF vars

\* Only a chip that fits is written to, and it stays one that fits
\* (main.cpp:215-225, 310-322, 450-452).
THEOREM FitIsWritten == Spec => OnlyFitIsWritten
<1> DEFINE Fits == pc # "menu" /\ board' # board =>
                     Preinstall(chip) /\ (FusesAsAsked => Preinstall(chip'))
<1>1. ToolInv /\ [Next]_vars => [Fits]_vars
  <2> SUFFICES ASSUME ToolInv, [Next]_vars, pc # "menu", board' # board
               PROVE  Preinstall(chip) /\ (FusesAsAsked => Preinstall(chip'))
    OBVIOUS
  <2>1. pc \in Steps
    BY DEF Next, vars, board, Swap, Start, NothingFound, Probe, ProbeFails, Validate,
           Erase, WriteFlash, VerifyFlash, WriteExtendedFuse, WriteHighFuse, StepFails
  <2>2. Preinstall(chip) /\ chip \in Probes
    BY <2>1 DEF ToolInv, TypeOK, WriteOrder
  <2>3. ASSUME FusesAsAsked PROVE Preinstall(chip')
    <3>1. CASE chip' = chip
      BY <2>2, <3>1 DEF Preinstall
    <3>2. ASSUME NEW l \in Locks, chip' = [chip EXCEPT !.lock = l] PROVE Preinstall(chip')
      BY <2>2, <3>2 DEF Probes, Preinstall
    <3>3. ASSUME NEW e \in ExtendedFuses, chip' = [chip EXCEPT !.extended = e]
          PROVE  Preinstall(chip')
      <4>1. e \in {chip.extended} \cup Installed
        BY <2>2, <2>3, <3>3 DEF FusesAsAsked, Probes
      <4> QED BY <2>2, <3>3, <4>1 DEF Probes, Preinstall
    <3>4. ASSUME NEW h \in HighFuses, chip' = [chip EXCEPT !.high = h] PROVE Preinstall(chip')
      <4>1. h \in {chip.high, InstalledHighFuse}
        BY <2>2, <2>3, <3>4 DEF FusesAsAsked, Probes
      <4> QED BY <2>2, <3>4, <4>1 DEF Probes, Preinstall
    <3> QED BY <3>1, <3>2, <3>3, <3>4, ChipSteps
  <2> QED BY <2>2, <2>3
<1> QED BY <1>1, ToolInvariant, PTL DEF Spec, OnlyFitIsWritten

\* The boot fuse is written last, over a verified image and after the extended
\* fuse (main.cpp:313-318).
THEOREM BootFuseLast == Spec => BootResetLast
<1> DEFINE Last == pc # "menu" =>
              /\ chip'.low = chip.low /\ chip'.signature = chip.signature
              /\ chip'.high # chip.high =>
                   flash \in Complete /\ chip.extended \in Installed
<1>1. ToolInv /\ [Next]_vars => [Last]_vars
  <2> SUFFICES ASSUME ToolInv, [Next]_vars, pc # "menu" PROVE Last
    OBVIOUS
  <2>1. chip \in Probes
    BY DEF ToolInv, TypeOK
  <2>2. pc = "hfuse" => flash \in Complete /\ chip.extended \in Installed
    BY DEF ToolInv, WriteOrder
  <2> QED BY <2>1, <2>2, ChipSteps DEF Probes
<1> QED BY <1>1, ToolInvariant, PTL DEF Spec, BootResetLast
=============================================================================
