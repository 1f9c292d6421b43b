--------------------------- MODULE BootloaderProofs ---------------------------
(***************************************************************************)
(* Proofs about the bootloader, for every layout of the flash, every set   *)
(* of stamped applications and every length of the boot window.            *)
(***************************************************************************)
EXTENDS Bootloader, TLAPS

-----------------------------------------------------------------------------
\* Addresses of pages.
LEMMA Sizes ==
  /\ PageWords \in Nat /\ PageWords > 0 /\ AppPages \in Nat /\ BootPages \in Nat
  /\ PageSize = 2 * PageWords /\ PageSize \in Nat /\ PageSize > 0
  /\ AppPages * PageWords \in Nat
  /\ BootStart = 2 * (AppPages * PageWords) /\ BootStart = AppPages * PageSize
  /\ BootStart \in Nat /\ BootStart > 0 /\ BootStart <= MaxAddress /\ MaxAddress \in Nat
BY BootAssumption DEF PageSize, BootStart

LEMMA Product ==
  ASSUME NEW j \in Nat, NEW k \in Nat, NEW s \in Nat, j * s < k * s
  PROVE  (j + 1) * s <= k * s
<1>1. j < k
  OBVIOUS
<1> QED
  BY <1>1

LEMMA NextMultiple ==
  ASSUME NEW k \in Nat, NEW s \in Nat
  PROVE  (k + 1) * s = k * s + s /\ s * (k + 1) = k * s + s
OBVIOUS

LEMMA IsMultiple ==
  ASSUME NEW a \in Nat, NEW s \in Nat, s > 0, NEW k \in Nat, a = s * k
  PROVE  a % s = 0
OBVIOUS

LEMMA Multiple ==
  ASSUME NEW a \in Nat, NEW s \in Nat, s > 0, a % s = 0
  PROVE  \E k \in Nat : a = k * s
<1>1. a \div s \in Nat /\ a = s * (a \div s)
  OBVIOUS
<1> QED
  BY <1>1

\* A page that begins in the application section ends in it, on a word boundary.
LEMMA PageFits ==
  ASSUME NEW a \in Nat, PageValid(a)
  PROVE  /\ a + PageSize <= BootStart /\ (a + PageSize) % PageSize = 0
         /\ a \div 2 \in Nat /\ a \div 2 + PageWords <= AppPages * PageWords
<1>1. PICK k \in Nat : a = k * PageSize
  BY Sizes, Multiple DEF PageValid
<1>2. (k + 1) * PageSize <= AppPages * PageSize
  BY <1>1, Sizes, Product DEF PageValid
<1>3. (k + 1) * PageSize = a + PageSize /\ PageSize * (k + 1) = a + PageSize
  <2>1. PageSize \in Nat
    BY Sizes
  <2> QED
    BY <1>1, <2>1, NextMultiple
<1>4. a + PageSize <= BootStart
  BY <1>2, <1>3, Sizes
<1>5. (a + PageSize) % PageSize = 0
  <2>1. PageSize \in Nat /\ PageSize > 0 /\ k + 1 \in Nat /\ a + PageSize \in Nat
    BY Sizes
  <2> QED
    BY <1>3, <2>1, IsMultiple
<1>6. k * PageWords \in Nat /\ a = 2 * (k * PageWords)
  BY <1>1, Sizes
<1>7. a \div 2 = k * PageWords
  BY <1>6
<1> QED
  BY <1>4, <1>5, <1>6, <1>7, Sizes
-----------------------------------------------------------------------------
\* Where a block is and how much of it has come; where CDC_Task is when the main
\* loop does not run; what a request to stay depends on.
BlockInPlace ==
  /\ pc = "wipe" => PageValid(block.page)
  /\ pc \in {"erase", "fill"} => /\ block.size % 2 = 0 /\ 2 * Len(block.words) < block.size
                                 /\ block.page + block.size <= BootStart
                                 /\ addr = block.page + 2 * Len(block.words)
  /\ pc \in {"wipe", "erase"} => block.words = <<>>
Blocks == [page : 0 .. BootStart, size : 0 .. PageSize, words : Seq(Contents)]

LoopRuns == pc # "idle" => mode = "boot"

StayKept ==
  /\ asked /\ mode = "boot" => stay /\ run
  /\ asked /\ mode = "reset" => wdrf /\ key = "stay"

BootInv ==
  /\ TypeOK /\ block \in Blocks
  /\ BlockInPlace /\ LoopRuns /\ StayKept
  /\ RunsOnlyValid /\ BootIntact /\ StaysWhenAsked

LEMMA NoBlockType == NoBlock \in Blocks
BY Sizes DEF NoBlock, Blocks

LEMMA WordSets ==
  /\ AppWords = 0 .. AppPages * PageWords - 1
  /\ \A w \in BootWords : w >= AppPages * PageWords /\ w \in Nat
BY Sizes, BootAssumption DEF AppWords, BootWords

\* A page operation leaves the boot section alone and keeps the flash's type.
LEMMA PagedKeeps ==
  ASSUME NEW a \in Nat, NEW f, flash \in [AppWords \cup BootWords -> Contents], BootIntact,
         \A w \in DOMAIN flash : f[w] \in Contents
  PROVE  /\ Paged(a, f) \in [AppWords \cup BootWords -> Contents]
         /\ \A w \in BootWords : Paged(a, f)[w] = BootCode
<1>1. CASE ~PageValid(a)
  BY <1>1 DEF Paged, BootIntact
<1>2. CASE PageValid(a)
  <2>1. \A w \in BootWords : w \notin PageOf(a)
    <3> DEFINE q == a \div 2
    <3>1. q \in Nat /\ q + PageWords <= AppPages * PageWords
      BY <1>2, PageFits
    <3>2. \A w \in PageOf(a) : w <= q + PageWords - 1
      BY Sizes DEF PageOf
    <3> HIDE DEF q
    <3>3. \A w \in BootWords : w \in Nat /\ w >= q + PageWords
      <4> DEFINE n == AppPages * PageWords
      <4>1. /\ n \in Nat /\ q \in Nat /\ PageWords \in Nat /\ q + PageWords <= n
            /\ \A w \in BootWords : w \in Nat /\ w >= n
        BY <3>1, WordSets, Sizes
      <4> HIDE DEF n
      <4> QED
        BY <4>1
    <3>4. \A w \in BootWords : ~(w <= q + PageWords - 1)
      <4>1. q \in Nat /\ PageWords \in Nat
        BY <3>1, Sizes
      <4> QED
        BY <4>1, <3>3
    <3> QED
      BY <3>2, <3>4
  <2>2. Paged(a, f) = [w \in DOMAIN flash |-> IF w \in PageOf(a) THEN f[w] ELSE flash[w]]
    BY <1>2 DEF Paged
  <2> QED
    BY <2>1, <2>2 DEF BootIntact
<1> QED
  BY <1>1, <1>2

LEMMA AllType == ASSUME NEW c \in Contents PROVE \A w \in DOMAIN flash : All(c)[w] \in Contents
BY DEF All

LEMMA FilledType ==
  ASSUME block \in Blocks PROVE \A w \in DOMAIN flash : Filled[w] \in Contents
<1>1. \A i \in DOMAIN block.words : block.words[i] \in Contents
  BY DEF Blocks
<1> QED
  BY <1>1 DEF Filled, Contents

LEMMA BootInit == Init => BootInv
<1> SUFFICES ASSUME Init PROVE BootInv
  OBVIOUS
<1>1. PICK image \in Images \cup {[w \in AppWords |-> FF]} :
        flash = [w \in AppWords \cup BootWords |-> IF w \in AppWords THEN image[w] ELSE BootCode]
  BY DEF Init
<1>2. image \in [AppWords -> Values \cup {FF}]
  BY BootAssumption
<1>3. flash \in [AppWords \cup BootWords -> Contents]
  BY <1>1, <1>2 DEF Contents
<1>4. BootIntact
  <2>1. \A w \in BootWords : w \notin AppWords
    BY WordSets, Sizes
  <2> QED
    BY <1>1, <2>1 DEF BootIntact
<1>5. TypeOK
  <2>1. 0 \in 0 .. MaxAddress /\ 0 \in 0 .. Window
    BY BootAssumption
  <2>2. block.page \in 0 .. BootStart /\ block.size \in 0 .. PageSize
    BY NoBlockType DEF Init, Blocks
  <2>3. block.words \in Seq(Contents) /\ 2 * Len(block.words) <= block.size
    BY DEF Init, NoBlock
  <2> QED
    BY <1>3, <2>1, <2>2, <2>3 DEF Init, TypeOK
<1> QED
  BY <1>4, <1>5, NoBlockType DEF Init, BootInv, BlockInPlace, LoopRuns, StayKept, RunsOnlyValid,
    StaysWhenAsked
PCs == {"idle", "wipe", "erase", "fill", "write", "respond"}
Flashes == [AppWords \cup BootWords -> Contents]

\* A reset keeps the invariant if the request to stay, where there is one, is in
\* the key.
LEMMA ResetKeeps ==
  ASSUME BootInv, NEW w \in BOOLEAN, NEW k \in Keys, Reset(w, k),
         UNCHANGED <<stay, run, ticks, addr>>, flash' \in Flashes, BootIntact',
         asked' \in BOOLEAN, asked' => w /\ k = "stay"
  PROVE  BootInv'
<1>1. block' \in Blocks /\ 2 * Len(block'.words) <= block'.size
  BY NoBlockType DEF Reset, NoBlock
<1>2. TypeOK'
  BY <1>1 DEF BootInv, TypeOK, Reset, Blocks, Flashes
<1> QED
  BY <1>1, <1>2 DEF BootInv, Reset, BlockInPlace, LoopRuns, StayKept, RunsOnlyValid, StaysWhenAsked

\* What every step of the main loop of the bootloader has to keep.
LEMMA LoopKeeps ==
  ASSUME BootInv, mode = "boot", UNCHANGED <<mode, wdrf, key>>,
         stay' \in BOOLEAN, run' \in BOOLEAN, ticks' \in 0 .. Window,
         flash' \in Flashes, BootIntact', pc' \in PCs, addr' \in 0 .. MaxAddress,
         block' \in Blocks, 2 * Len(block'.words) <= block'.size, BlockInPlace',
         asked' \in BOOLEAN, asked' => stay' /\ run'
  PROVE  BootInv'
<1>1. TypeOK'
  BY DEF BootInv, TypeOK, Blocks, Flashes, PCs
<1> QED
  BY <1>1 DEF BootInv, LoopRuns, StayKept, RunsOnlyValid, StaysWhenAsked

LEMMA JumpCheckKeeps == ASSUME BootInv, ApplicationJumpCheck PROVE BootInv'
<1>1. /\ UNCHANGED <<flash, pc, block, asked>> /\ mode = "reset" /\ pc = "idle"
      /\ stay' \in BOOLEAN /\ key' \in Keys /\ wdrf' \in BOOLEAN /\ mode' \in {"app", "boot"}
      /\ run' = TRUE /\ ticks' = 0 /\ addr' = 0
      /\ stay' = Stays /\ mode' = IF Jumps THEN "app" ELSE "boot"
  BY DEF ApplicationJumpCheck, BootInv, LoopRuns, Stays, Keys
<1>2. 0 \in 0 .. Window /\ 0 \in 0 .. MaxAddress
  BY BootAssumption
<1>3. TypeOK'
  BY <1>1, <1>2 DEF BootInv, TypeOK
<1>4. asked => Stays /\ ~Jumps
  BY <1>1 DEF BootInv, TypeOK, StayKept, Stays, Jumps
<1>5. RunsOnlyValid' /\ BootIntact'
  BY <1>1 DEF BootInv, RunsOnlyValid, BootIntact, Jumps, Valid
<1>6. BlockInPlace' /\ LoopRuns' /\ StayKept' /\ StaysWhenAsked'
  BY <1>1, <1>4 DEF BootInv, BlockInPlace, LoopRuns, StayKept, StaysWhenAsked
<1> QED
  BY <1>1, <1>3, <1>5, <1>6 DEF BootInv

LEMMA TickKeeps == ASSUME BootInv, Tick PROVE BootInv'
<1>1. ticks' \in 0 .. Window
  BY BootAssumption DEF BootInv, TypeOK, Tick
<1>2. UNCHANGED <<flash, mode, wdrf, key, stay, run, addr, pc, block, asked>>
  BY DEF Tick
<1>3. TypeOK'
  BY <1>1, <1>2 DEF BootInv, TypeOK
<1> QED
  BY <1>2, <1>3 DEF BootInv, BlockInPlace, LoopRuns, StayKept, RunsOnlyValid, Valid, BootIntact,
    StaysWhenAsked

LEMMA LeaveLoopKeeps == ASSUME BootInv, LeaveLoop PROVE BootInv'
<1>1. /\ mode = "boot" /\ ~stay /\ run' = FALSE
      /\ UNCHANGED <<flash, mode, wdrf, key, stay, ticks, addr, pc, block, asked>>
  BY DEF LeaveLoop, WindowCloses
<1>2. ~asked
  BY <1>1 DEF BootInv, StayKept
<1>3. TypeOK'
  BY <1>1 DEF BootInv, TypeOK
<1> QED
  BY <1>1, <1>2, <1>3 DEF BootInv, BlockInPlace, LoopRuns, StayKept, RunsOnlyValid, BootIntact,
    StaysWhenAsked

LEMMA StartApplicationKeeps == ASSUME BootInv, StartApplication PROVE BootInv'
<1>1. ~asked /\ UNCHANGED <<flash, stay, run, ticks, addr, asked>>
  BY DEF StartApplication, BootInv, StayKept
<1>2. Reset(TRUE, "start") /\ "start" \in Keys
  BY DEF StartApplication, Keys
<1>3. flash' \in Flashes /\ BootIntact' /\ asked' \in BOOLEAN
  BY <1>1 DEF BootInv, TypeOK, BootIntact, Flashes
<1> QED
  BY <1>1, <1>2, <1>3, ResetKeeps

\* A command keeps the window open for ever; an exit takes the request back.
LEMMA CommandKeeps ==
  ASSUME BootInv, Command, UNCHANGED flash, pc' \in PCs, run' \in BOOLEAN,
         addr' \in 0 .. MaxAddress, block' \in Blocks, BlockInPlace',
         2 * Len(block'.words) <= block'.size, asked' \in BOOLEAN, asked' => run'
  PROVE  BootInv'
<1>1. mode = "boot" /\ stay' = TRUE /\ UNCHANGED <<mode, wdrf, key, ticks>>
  BY DEF Command
<1>2. flash' \in Flashes /\ BootIntact' /\ ticks' \in 0 .. Window
  BY <1>1 DEF BootInv, TypeOK, BootIntact, Flashes
<1> QED
  BY <1>1, <1>2, LoopKeeps

LEMMA SimpleCommandKeeps ==
  ASSUME BootInv, Exit \/ SetCurrentAddress \/ OtherCommand \/ BlockRead PROVE BootInv'
<1>1. /\ Command /\ pc' = "respond" /\ UNCHANGED <<flash, block>>
      /\ run' \in BOOLEAN /\ asked' \in BOOLEAN /\ (asked' => run')
  BY DEF Exit, SetCurrentAddress, OtherCommand, BlockRead, Command, BootInv, TypeOK
<1>2. addr' \in 0 .. MaxAddress
  <2>1. CASE Exit \/ OtherCommand
    BY <2>1 DEF Exit, OtherCommand, BootInv, TypeOK
  <2>2. CASE SetCurrentAddress
    <3>1. PICK w \in 0 .. MaxAddress \div 2 : addr' = 2 * w
      BY <2>2 DEF SetCurrentAddress
    <3> QED
      BY <3>1, BootAssumption
  <2>3. CASE BlockRead
    <3>1. PICK size \in 0 .. PageSize + 1 :
            addr + size <= MaxAddress /\ addr' = addr + 2 * (size \div 2)
      BY <2>3 DEF BlockRead
    <3>2. size \in Nat /\ addr \in Nat
      BY <3>1, Sizes, BootAssumption DEF BootInv, TypeOK
    <3> QED
      BY <3>1, <3>2, BootAssumption
  <2> QED
    BY <2>1, <2>2, <2>3
<1>3. BlockInPlace'
  BY <1>1 DEF BlockInPlace
<1> QED
  BY <1>1, <1>2, <1>3, CommandKeeps DEF BootInv, TypeOK, PCs

LEMMA EraseFlashKeeps == ASSUME BootInv, EraseFlash PROVE BootInv'
<1>1. /\ Command /\ pc' = "wipe" /\ block' = NoBlock /\ UNCHANGED <<flash, run, addr, asked>>
      /\ run
  BY DEF EraseFlash, Command
<1>2. block' \in Blocks /\ 2 * Len(block'.words) <= block'.size /\ block'.words = <<>>
  BY <1>1, NoBlockType DEF NoBlock
<1>3. BlockInPlace'
  <2>1. PageValid(block'.page)
    BY <1>1, Sizes DEF NoBlock, PageValid
  <2> QED
    BY <1>1, <1>2, <2>1 DEF BlockInPlace
<1> QED
  BY <1>1, <1>2, <1>3, CommandKeeps DEF BootInv, TypeOK, PCs

LEMMA BlockWriteKeeps == ASSUME BootInv, BlockWrite PROVE BootInv'
<1>1. Command /\ run /\ UNCHANGED <<flash, run, addr, asked>>
  BY DEF BlockWrite, Command
<1>2. PICK size \in 0 .. PageSize + 1 :
        IF Malformed(size) THEN pc' = "respond" /\ UNCHANGED block
        ELSE pc' = "erase" /\ block' = [page |-> addr, size |-> size, words |-> <<>>]
  BY DEF BlockWrite
<1>3. CASE Malformed(size)
  <2>1. pc' = "respond" /\ UNCHANGED block
    BY <1>2, <1>3
  <2>2. BlockInPlace'
    BY <2>1 DEF BlockInPlace
  <2> QED
    BY <1>1, <2>1, <2>2, CommandKeeps DEF BootInv, TypeOK, PCs
<1>4. CASE ~Malformed(size)
  <2>1. pc' = "erase" /\ block' = [page |-> addr, size |-> size, words |-> <<>>]
    BY <1>2, <1>4
  <2>2. size \in Nat /\ addr \in Nat /\ size \in 0 .. PageSize + 1
    BY <1>2, Sizes, BootAssumption DEF BootInv, TypeOK
  <2>3. /\ size > 0 /\ size <= PageSize /\ size % 2 = 0 /\ addr + size <= BootStart
    BY <1>4, <2>2, Sizes DEF Malformed
  <2>4. addr \in 0 .. BootStart /\ size \in 0 .. PageSize
    BY <2>2, <2>3, Sizes
  <2>5. block' \in Blocks /\ 2 * Len(block'.words) <= block'.size
    BY <2>1, <2>2, <2>4 DEF Blocks
  <2>6. BlockInPlace'
    BY <1>1, <2>1, <2>2, <2>3 DEF BlockInPlace
  <2> QED
    BY <1>1, <2>1, <2>5, <2>6, CommandKeeps DEF BootInv, TypeOK, PCs
<1> QED
  BY <1>3, <1>4
-----------------------------------------------------------------------------
\* Page operations and blocks.
LEMMA GoingFacts ==
  ASSUME BootInv, Going, pc # "idle"
  PROVE  /\ mode = "boot" /\ UNCHANGED <<mode, wdrf, key>>
         /\ stay' \in BOOLEAN /\ run' \in BOOLEAN /\ ticks' \in 0 .. Window
         /\ asked' \in BOOLEAN /\ (asked' => stay' /\ run')
BY DEF Going, BootInv, TypeOK, LoopRuns, StayKept

\* The flash after a page operation on the block's page.
LEMMA PageWritten ==
  ASSUME BootInv, NEW f, flash' = Paged(block.page, f), \A w \in DOMAIN flash : f[w] \in Contents
  PROVE  flash' \in Flashes /\ BootIntact'
<1>1. block.page \in Nat
  BY Sizes DEF BootInv, Blocks
<1> QED
  BY <1>1, PagedKeeps DEF BootInv, TypeOK, BootIntact, Flashes

LEMMA WipePageKeeps == ASSUME BootInv, WipePage PROVE BootInv'
<1>1. /\ pc = "wipe" /\ Going /\ UNCHANGED addr /\ flash' = Paged(block.page, All(FF))
      /\ block' = [block EXCEPT !.page = @ + PageSize]
      /\ pc' = IF block.page + PageSize < BootStart THEN "wipe" ELSE "respond"
  BY DEF WipePage
<1>2. flash' \in Flashes /\ BootIntact'
  BY <1>1, PageWritten, AllType DEF Contents
<1>3. /\ block.page \in Nat /\ block.page + PageSize <= BootStart
      /\ (block.page + PageSize) % PageSize = 0
  BY <1>1, Sizes, PageFits DEF BootInv, BlockInPlace, Blocks
<1>4. /\ block' \in Blocks /\ block'.page = block.page + PageSize
      /\ block'.size = block.size /\ block'.words = block.words
  <2>1. block.page + PageSize \in 0 .. BootStart
    BY <1>3, Sizes
  <2>2. block \in Blocks
    BY DEF BootInv
  <2> QED
    BY <1>1, <2>1, <2>2 DEF Blocks
<1>5. BlockInPlace'
  BY <1>1, <1>3, <1>4 DEF BootInv, BlockInPlace, PageValid
<1> QED
  BY <1>1, <1>2, <1>4, <1>5, GoingFacts, LoopKeeps DEF BootInv, TypeOK, PCs

LEMMA ErasePageKeeps == ASSUME BootInv, ErasePage PROVE BootInv'
<1>1. /\ pc = "erase" /\ pc' = "fill" /\ Going /\ UNCHANGED <<addr, block>>
      /\ flash' = Paged(block.page, All(FF))
  BY DEF ErasePage
<1>2. flash' \in Flashes /\ BootIntact'
  BY <1>1, PageWritten, AllType DEF Contents
<1>3. BlockInPlace'
  BY <1>1 DEF BootInv, BlockInPlace
<1> QED
  BY <1>1, <1>2, <1>3, GoingFacts, LoopKeeps DEF BootInv, TypeOK, PCs

LEMMA FillWordKeeps == ASSUME BootInv, FillWord PROVE BootInv'
<1>1. /\ pc = "fill" /\ Going /\ UNCHANGED flash /\ addr' = addr + 2
      /\ pc' = IF 2 * Len(block'.words) = block.size THEN "write" ELSE "fill"
  BY DEF FillWord
<1>2. PICK v \in Values \cup {FF} : block' = [block EXCEPT !.words = Append(@, v)]
  BY DEF FillWord
<1> DEFINE n == Len(block.words)
<1>3. /\ n \in Nat /\ block.size \in 0 .. PageSize /\ block.page \in 0 .. BootStart
      /\ block.size % 2 = 0 /\ 2 * n < block.size
      /\ block.page + block.size <= BootStart /\ addr = block.page + 2 * n
  BY <1>1 DEF BootInv, Blocks, BlockInPlace
<1>4. /\ block' \in Blocks /\ Len(block'.words) = n + 1
      /\ block'.page = block.page /\ block'.size = block.size
  <2>1. block \in Blocks /\ block.words \in Seq(Contents) /\ v \in Contents
    BY <1>2 DEF BootInv, Blocks, Contents
  <2>2. Append(block.words, v) \in Seq(Contents) /\ Len(Append(block.words, v)) = n + 1
    BY <2>1
  <2> QED
    BY <1>2, <2>1, <2>2 DEF Blocks
<1> HIDE DEF n
<1>5. 2 * (n + 1) <= block.size
  BY <1>3, Sizes
<1>6. addr' \in 0 .. MaxAddress /\ addr' = block'.page + 2 * (n + 1)
  <2>1. addr' = addr + 2 /\ addr = block.page + 2 * n /\ block'.page = block.page
    BY <1>1, <1>3, <1>4
  <2>2. block.page \in Nat /\ n \in Nat
    BY <1>3, Sizes
  <2>3. addr' = block.page + 2 * (n + 1)
    BY <2>1, <2>2
  <2>4. block.page + 2 * (n + 1) <= MaxAddress
    <3>1. block.size \in Nat /\ BootStart \in Nat /\ MaxAddress \in Nat /\ BootStart <= MaxAddress
      BY <1>3, Sizes
    <3> QED
      BY <1>3, <1>5, <2>2, <3>1
  <2>5. MaxAddress \in Nat
    BY Sizes
  <2> QED
    BY <2>1, <2>2, <2>3, <2>4, <2>5
<1>7. 2 * (n + 1) # block.size => 2 * (n + 1) < block.size
  BY <1>3, <1>5, Sizes
<1>8. BlockInPlace'
  BY <1>1, <1>3, <1>4, <1>6, <1>7 DEF BlockInPlace
<1>9. flash' \in Flashes /\ BootIntact'
  BY <1>1 DEF BootInv, TypeOK, BootIntact, Flashes
<1> QED
  BY <1>1, <1>4, <1>5, <1>6, <1>8, <1>9, GoingFacts, LoopKeeps DEF PCs

LEMMA WritePageKeeps == ASSUME BootInv, WritePage PROVE BootInv'
<1>1. /\ pc = "write" /\ pc' = "respond" /\ Going /\ UNCHANGED <<addr, block>>
      /\ flash' = Paged(block.page, Filled)
  BY DEF WritePage
<1>2. flash' \in Flashes /\ BootIntact'
  BY <1>1, PageWritten, FilledType DEF BootInv
<1>3. BlockInPlace'
  BY <1>1 DEF BlockInPlace
<1> QED
  BY <1>1, <1>2, <1>3, GoingFacts, LoopKeeps DEF BootInv, TypeOK, PCs

LEMMA RespondKeeps == ASSUME BootInv, Respond PROVE BootInv'
<1>1. pc = "respond" /\ pc' = "idle" /\ block' = NoBlock /\ Going /\ UNCHANGED <<flash, addr>>
  BY DEF Respond
<1>2. flash' \in Flashes /\ BootIntact'
  BY <1>1 DEF BootInv, TypeOK, BootIntact, Flashes
<1>3. BlockInPlace' /\ block' \in Blocks /\ 2 * Len(block'.words) <= block'.size
  BY <1>1, NoBlockType DEF BlockInPlace, NoBlock
<1> QED
  BY <1>1, <1>2, <1>3, GoingFacts, LoopKeeps DEF BootInv, TypeOK, PCs

\* Resets that are not the main loop's.
LEMMA OtherResetsKeep ==
  ASSUME BootInv, TransferFailure \/ Bootload \/ Hang PROVE BootInv'
<1>1. UNCHANGED <<flash, stay, run, ticks, addr>>
  BY DEF TransferFailure, Bootload, Hang
<1>2. flash' \in Flashes /\ BootIntact'
  BY <1>1 DEF BootInv, TypeOK, BootIntact, Flashes
<1>3. CASE TransferFailure
  BY <1>1, <1>2, <1>3, ResetKeeps DEF TransferFailure, Keys
<1>4. CASE Bootload
  BY <1>1, <1>2, <1>4, ResetKeeps DEF Bootload, Keys
<1>5. CASE Hang
  <2>1. ~asked /\ UNCHANGED asked /\ Reset(TRUE, "other")
    BY <1>5 DEF Hang, BootInv, StaysWhenAsked
  <2> QED
    BY <1>1, <1>2, <2>1, ResetKeeps DEF Keys, BootInv, TypeOK
<1> QED
  BY <1>3, <1>4, <1>5

LEMMA PowerLossKeeps == ASSUME BootInv, PowerLoss PROVE BootInv'
<1>1. PICK k \in Keys : Reset(FALSE, k)
  BY DEF PowerLoss
<1>2. asked' = FALSE /\ UNCHANGED <<stay, run, ticks, addr>>
  BY DEF PowerLoss
<1>3. flash' = flash \/ flash' = Paged(block.page, All(Torn))
  BY DEF PowerLoss
<1>4. flash' \in Flashes /\ BootIntact'
  <2>1. CASE flash' = flash
    BY <2>1 DEF BootInv, TypeOK, BootIntact, Flashes
  <2>2. CASE flash' = Paged(block.page, All(Torn))
    BY <2>2, PageWritten, AllType DEF Contents
  <2> QED
    BY <1>3, <2>1, <2>2
<1> QED
  BY <1>1, <1>2, <1>4, ResetKeeps

-----------------------------------------------------------------------------
\* The invariant of the bootloader and of its hand-overs with the application
\* (BootloaderCDC.c:60-150, 280-381).
THEOREM BootInvariant == Spec => []BootInv
<1>1. ASSUME BootInv, [Next]_vars PROVE BootInv'
  <2>1. CASE UNCHANGED vars
    BY <1>1, <2>1 DEF vars, BootInv, TypeOK, BlockInPlace, PageValid, LoopRuns, StayKept,
      RunsOnlyValid, Valid, BootIntact, StaysWhenAsked
  <2>2. CASE MainLoop \/ Tick
    BY <1>1, <2>2, JumpCheckKeeps, LeaveLoopKeeps, StartApplicationKeeps, TickKeeps DEF MainLoop
  <2>3. CASE HostCommand
    BY <1>1, <2>3, SimpleCommandKeeps, EraseFlashKeeps, BlockWriteKeeps DEF HostCommand
  <2>4. CASE Transfer
    BY <1>1, <2>4, WipePageKeeps, ErasePageKeeps, FillWordKeeps, WritePageKeeps, RespondKeeps,
      OtherResetsKeep DEF Transfer
  <2>5. CASE Bootload \/ Hang \/ PowerLoss
    BY <1>1, <2>5, OtherResetsKeep, PowerLossKeeps
  <2> QED
    BY <1>1, <2>1, <2>2, <2>3, <2>4, <2>5 DEF Next
<1> QED
  BY BootInit, <1>1, PTL DEF Spec

\* The word counter and the address never leave the page being written
\* (BootloaderCDC.c:298-301, 332-349).
THEOREM BootTypeCorrect == Spec => []TypeOK
<1>1. BootInv => TypeOK
  BY DEF BootInv
<1> QED
  BY <1>1, BootInvariant, PTL

\* Whatever the host sends and wherever power fails: what runs is complete
\* (firmware/README.md:76-90).
THEOREM OnlyValidRuns == Spec => []RunsOnlyValid
<1>1. BootInv => RunsOnlyValid
  BY DEF BootInv
<1> QED
  BY <1>1, BootInvariant, PTL

\* No sequence of commands changes the bootloader
\* (BootloaderAPI.c:38-70).
THEOREM BootloaderSurvives == Spec => []BootIntact
<1>1. BootInv => BootIntact
  BY DEF BootInv
<1> QED
  BY <1>1, BootInvariant, PTL

\* A BOOTLOAD request holds through every time-out (BootloaderCDC.c:117, 144).
THEOREM RequestHolds == Spec => []StaysWhenAsked
<1>1. BootInv => StaysWhenAsked
  BY DEF BootInv
<1> QED
  BY <1>1, BootInvariant, PTL

-----------------------------------------------------------------------------
\* The promise of CartridgeModes, step by step.  A page is only touched for a host
\* that has cancelled the window, and before the main loop ends.
PageStays == pc \in {"wipe", "erase", "fill", "write"} => stay /\ run

LEMMA PageStaysKept ==
  ASSUME BootInv, PageStays, [Next]_vars PROVE PageStays'
<1>1. CASE UNCHANGED vars
  BY <1>1 DEF vars, PageStays
<1>2. CASE MainLoop \/ Tick
  BY <1>2 DEF MainLoop, ApplicationJumpCheck, LeaveLoop, StartApplication, Reset, Tick, PageStays,
    BootInv, LoopRuns
<1>3. CASE HostCommand
  <2>1. Command /\ run /\ stay' = TRUE
    BY <1>3 DEF HostCommand, Exit, SetCurrentAddress, OtherCommand, EraseFlash, BlockRead, BlockWrite,
      Command
  <2>2. run' = run \/ pc' = "respond"
    BY <1>3 DEF HostCommand, Exit, SetCurrentAddress, OtherCommand, EraseFlash, BlockRead, BlockWrite
  <2> QED
    BY <2>1, <2>2 DEF PageStays
<1>4. CASE Transfer
  BY <1>4 DEF Transfer, WipePage, ErasePage, FillWord, WritePage, Respond, TransferFailure, Reset,
    Going, PageStays
<1>5. CASE Bootload \/ Hang \/ PowerLoss
  BY <1>5 DEF Bootload, Hang, PowerLoss, Reset, PageStays
<1> QED
  BY <1>1, <1>2, <1>3, <1>4, <1>5 DEF Next

App == [w \in AppWords |-> flash[w]]

LEMMA AppType == BootInv => App \in [AppWords -> Contents]
BY DEF App, BootInv, TypeOK

\* Where the bootloader is seen, case by case.
LEMMA SeenCases ==
  ASSUME TypeOK
  PROVE  /\ mode = "app" => Seen = "app"
         /\ mode = "reset" /\ wdrf /\ key = "stay" => Seen = "entering"
         /\ mode = "reset" /\ wdrf /\ key = "start" => Seen = "leaving"
         /\ mode = "reset" /\ ~(wdrf /\ key \in {"stay", "start"}) => Seen = "window"
         /\ mode = "boot" /\ ~run => Seen = "leaving"
         /\ mode = "boot" /\ run /\ stay => Seen = "boot"
         /\ mode = "boot" /\ run /\ ~stay => Seen = "window"
BY DEF TypeOK, Seen

LEMMA SeenCasesNext ==
  ASSUME TypeOK'
  PROVE  /\ mode' = "app" => Seen' = "app"
         /\ mode' = "reset" /\ wdrf' /\ key' = "stay" => Seen' = "entering"
         /\ mode' = "reset" /\ wdrf' /\ key' = "start" => Seen' = "leaving"
         /\ mode' = "reset" /\ ~(wdrf' /\ key' \in {"stay", "start"}) => Seen' = "window"
         /\ mode' = "boot" /\ ~run' => Seen' = "leaving"
         /\ mode' = "boot" /\ run' /\ stay' => Seen' = "boot"
         /\ mode' = "boot" /\ run' /\ ~stay' => Seen' = "window"
BY DEF TypeOK, Seen

Moves == Promise!AbsNext \/ UNCHANGED Promise!absVars
USE DEF Moves

LEMMA JumpCheckMoves ==
  ASSUME BootInv, TypeOK', ApplicationJumpCheck PROVE Moves
<1>1. /\ App' = App /\ mode = "reset" /\ stay' = Stays /\ run' = TRUE
      /\ mode' = IF Jumps THEN "app" ELSE "boot"
  BY DEF ApplicationJumpCheck, App
<1>2. CASE Stays
  <2>1. Seen = "entering" /\ Seen' = "boot"
    BY <1>1, <1>2, SeenCases, SeenCasesNext DEF Stays, Jumps, BootInv
  <2> QED
    BY <1>1, <2>1 DEF App, Promise!AbsNext, Promise!AbsStay
<1>3. CASE Jumps
  <2>1. Seen = "leaving" /\ Seen' = "app" /\ App \in Images
    BY <1>1, <1>3, SeenCases, SeenCasesNext DEF Jumps, Valid, App, BootInv
  <2> QED
    BY <1>1, <2>1 DEF App, Promise!AbsNext, Promise!AbsStart
<1>4. CASE ~Stays /\ ~Jumps
  <2>1. Seen \in {"leaving", "window"} /\ Seen' = "window"
    BY <1>1, <1>4, SeenCases, SeenCasesNext DEF Stays, Jumps, BootInv, TypeOK, Keys
  <2> QED
    BY <1>1, <2>1 DEF App, Promise!AbsNext, Promise!AbsReset
<1> QED
  BY <1>2, <1>3, <1>4

\* The window closes; the application is on its way.
LEMMA LoopMoves ==
  ASSUME BootInv, TypeOK', LeaveLoop \/ StartApplication \/ Tick PROVE Moves
<1>1. App' = App
  BY DEF LeaveLoop, StartApplication, Tick, App
<1>2. CASE LeaveLoop
  <2>1. Seen = "window" /\ Seen' = "leaving"
    BY <1>2, SeenCases, SeenCasesNext DEF LeaveLoop, WindowCloses, BootInv, TypeOK
  <2> QED
    BY <1>1, <2>1 DEF App, Promise!AbsNext, Promise!AbsLeave
<1>3. CASE StartApplication
  <2>1. Seen = "leaving" /\ Seen' = "leaving"
    BY <1>3, SeenCases, SeenCasesNext DEF StartApplication, Reset, BootInv, TypeOK
  <2> QED
    BY <1>1, <2>1 DEF App, Promise!absVars
<1>4. CASE Tick
  <2>1. Seen' = Seen
    BY <1>4 DEF Tick, Seen
  <2> QED
    BY <1>1, <2>1 DEF App, Promise!absVars
<1> QED
  BY <1>2, <1>3, <1>4

LEMMA CommandMoves ==
  ASSUME BootInv, TypeOK', HostCommand PROVE Moves
<1>1. /\ App' = App /\ mode = "boot" /\ run /\ mode' = mode /\ stay' = TRUE
      /\ run' = run \/ run' = FALSE
  BY DEF HostCommand, Exit, SetCurrentAddress, OtherCommand, EraseFlash, BlockRead, BlockWrite,
    Command, App
<1>2. Seen \in {"window", "boot"} /\ Seen' \in {"boot", "leaving"}
  BY <1>1, SeenCases, SeenCasesNext DEF BootInv, TypeOK
<1>3. CASE Seen' = "leaving"
  BY <1>1, <1>2, <1>3 DEF App, Promise!AbsNext, Promise!AbsLeave
<1>4. CASE Seen' = "boot"
  <2>1. CASE Seen = "window"
    BY <1>1, <1>4, <2>1 DEF App, Promise!AbsNext, Promise!AbsStay
  <2>2. CASE Seen = "boot"
    BY <1>1, <1>4, <2>2 DEF App, Promise!absVars
  <2> QED
    BY <1>2, <2>1, <2>2
<1> QED
  BY <1>2, <1>3, <1>4

LEMMA TransferMoves ==
  ASSUME BootInv, PageStays, BootInv', Transfer PROVE Moves
<1>1. App' \in [AppWords -> Contents]
  BY DEF App, BootInv, TypeOK
<1>2. CASE WipePage \/ ErasePage \/ WritePage
  <2>1. Going /\ pc \in {"wipe", "erase", "write"}
    BY <1>2 DEF WipePage, ErasePage, WritePage
  <2>2. Seen = "boot" /\ Seen' = Seen
    <3>1. mode = "boot" /\ run /\ stay
      BY <2>1 DEF BootInv, LoopRuns, PageStays
    <3>2. Seen' = Seen
      BY <2>1 DEF Going, Seen
    <3> QED
      BY <3>1, <3>2, SeenCases DEF BootInv
  <2> QED
    BY <1>1, <2>2 DEF App, Promise!AbsNext, Promise!AbsProgram
<1>3. CASE FillWord \/ Respond
  <2>1. Going /\ UNCHANGED flash
    BY <1>3 DEF FillWord, Respond
  <2>2. Seen' = Seen /\ App' = App
    BY <2>1 DEF Going, Seen, App
  <2> QED
    BY <2>2 DEF App, Promise!absVars
<1>4. CASE TransferFailure
  <2>1. App' = App /\ mode' = "reset" /\ key' = "other"
    BY <1>4 DEF TransferFailure, Reset, App
  <2>2. Seen' = "window"
    BY <2>1, SeenCasesNext DEF BootInv
  <2> QED
    BY <1>1, <2>1, <2>2 DEF App, Promise!AbsNext, Promise!AbsReset
<1> QED
  BY <1>2, <1>3, <1>4 DEF Transfer

\* Resets: the application asks for the bootloader, hangs, or loses its power.
LEMMA ResetMoves ==
  ASSUME BootInv, PageStays, BootInv', Bootload \/ Hang \/ PowerLoss PROVE Moves
<1>1. App' \in [AppWords -> Contents]
  BY DEF App, BootInv, TypeOK
<1>2. CASE Bootload
  <2>1. App' = App /\ mode = "app" /\ mode' = "reset" /\ wdrf' = TRUE /\ key' = "stay"
    BY <1>2 DEF Bootload, Reset, App
  <2>2. Seen = "app" /\ Seen' = "entering"
    BY <2>1, SeenCases, SeenCasesNext DEF BootInv
  <2> QED
    BY <2>1, <2>2 DEF App, Promise!AbsNext, Promise!AbsEnter
<1>3. CASE Hang
  <2>1. App' = App /\ mode' = "reset" /\ key' = "other"
    BY <1>3 DEF Hang, Reset, App
  <2>2. Seen' = "window"
    BY <2>1, SeenCasesNext DEF BootInv
  <2> QED
    BY <1>1, <2>1, <2>2 DEF App, Promise!AbsNext, Promise!AbsReset
<1>4. CASE PowerLoss
  <2>1. mode' = "reset" /\ wdrf' = FALSE
    BY <1>4 DEF PowerLoss, Reset
  <2>2. Seen' = "window"
    BY <2>1, SeenCasesNext DEF BootInv
  <2>3. App' = App \/ Seen = "boot"
    <3>1. flash' = flash \/ pc \in {"wipe", "erase", "write"}
      BY <1>4 DEF PowerLoss
    <3>2. CASE flash' = flash
      BY <3>2 DEF App
    <3>3. CASE pc \in {"wipe", "erase", "write"}
      BY <3>3, SeenCases DEF BootInv, LoopRuns, PageStays
    <3> QED
      BY <3>1, <3>2, <3>3
  <2> QED
    BY <1>1, <2>2, <2>3 DEF App, Promise!AbsNext, Promise!AbsReset
<1> QED
  BY <1>2, <1>3, <1>4

\* To whoever waits for USB devices the bootloader keeps what CartridgeModes says: an
\* application starts only when it is whole, the application section changes only while
\* the bootloader waits for its host, and a request to stay gets there
\* (BootloaderCDC.c:60-150, 280-381).
THEOREM BootKeepsPromise == Spec => KeepsPromise
<1>1. Init => Promise!AbsInit
  <2> SUFFICES ASSUME Init PROVE Promise!AbsInit
    OBVIOUS
  <2>1. BootInv
    BY BootInit
  <2>2. Seen = "window"
    BY <2>1, SeenCases DEF Init, BootInv
  <2>3. App \in [AppWords -> Contents]
    BY <2>1, AppType
  <2> QED
    BY <2>2, <2>3 DEF App, Promise!AbsInit
<1>2. ASSUME BootInv, PageStays, BootInv', [Next]_vars PROVE Moves
  <2>1. TypeOK'
    BY <1>2 DEF BootInv
  <2>2. CASE UNCHANGED vars
    BY <2>2 DEF vars, Seen, Promise!absVars
  <2>3. CASE MainLoop \/ Tick
    BY <1>2, <2>1, <2>3, JumpCheckMoves, LoopMoves DEF MainLoop
  <2>4. CASE HostCommand
    BY <1>2, <2>1, <2>4, CommandMoves
  <2>5. CASE Transfer
    BY <1>2, <2>5, TransferMoves
  <2>6. CASE Bootload \/ Hang \/ PowerLoss
    BY <1>2, <2>6, ResetMoves
  <2> QED
    BY <1>2, <2>2, <2>3, <2>4, <2>5, <2>6 DEF Next
<1>3. Init => PageStays
  BY DEF Init, PageStays
<1>4. Spec => []PageStays
  <2>1. BootInv /\ PageStays /\ [Next]_vars => PageStays'
    BY PageStaysKept
  <2> QED
    BY <1>3, <2>1, BootInvariant, PTL DEF Spec
<1> QED
  BY <1>1, <1>2, <1>4, BootInvariant, PTL DEF Spec, KeepsPromise, Promise!AbsSpec
=============================================================================
