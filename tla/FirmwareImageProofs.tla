------------------------- MODULE FirmwareImageProofs -------------------------
(***************************************************************************)
(* Proofs about the readers of a firmware image, for every layout of the   *)
(* flash, every CRC and every set of lines.                                *)
(***************************************************************************)
EXTENDS FirmwareImage, WellFoundedInduction, TLAPS

Memories == UNION {[D -> Nat] : D \in SUBSET Nat}
Readers == [ok : BOOLEAN, base : 0 .. Word - 1, eof : BOOLEAN, mem : Memories]
Tools == [ok : BOOLEAN, base : 0 .. Word - 1, eof : BOOLEAN, app : BOOLEAN, boot : BOOLEAN]

\* What has been read ends somewhere.
Bounded(mem) == \E n \in Nat : DOMAIN mem \subseteq 0 .. n

\* The readers have values of their types; and as long as Studio has refused no
\* line, all of them have read the same, and nothing of it is in the boot section.
ReadersAgree ==
  studio.ok =>
    /\ build = studio /\ image = studio
    /\ DOMAIN studio.mem \subseteq 0 .. BootStart - 1
    /\ ~tool.boot
    /\ tool.ok => tool.base = studio.base

ImageInv ==
  /\ studio \in Readers /\ build \in Readers /\ image \in Readers /\ tool \in Tools
  /\ studio.ok \/ studio = Refused
  /\ Bounded(build.mem)
  /\ ReadersAgree

LEMMA Layout ==
  /\ ManifestAt \in Nat /\ ManifestAt >= 2 /\ BootStart \in Nat /\ FlashEnd \in Nat
  /\ BootStart = ManifestAt + 4 /\ BootStart <= FlashEnd /\ FlashEnd < Word
  /\ Space \in Nat /\ Word \in Nat /\ FF \in Nat /\ 0 \in 0 .. Word - 1
BY ImageAssumption DEF BootStart, FlashEnd, ManifestSize

LEMMA LineType ==
  ASSUME NEW l \in Lines
  PROVE  /\ l.addr \in Nat /\ l.base \in 0 .. Word - 1
         /\ l.data \in Seq(Nat) /\ Len(l.data) \in Nat
<1>1. /\ l \in [kind : Kinds, addr : 0 .. Space - 1, base : 0 .. Word - 1, data : Seq(Nat)]
      /\ Space \in Nat
  BY ImageAssumption
<1>2. \A n \in 0 .. Space - 1 : n \in Nat
  BY <1>1
<1>3. l.addr \in 0 .. Space - 1 /\ l.base \in 0 .. Word - 1 /\ l.data \in Seq(Nat)
  BY <1>1
<1> QED
  BY <1>2, <1>3

\* A memory with a record put into it.
LEMMA PutType ==
  ASSUME NEW mem \in Memories, NEW start \in Nat, NEW data \in Seq(Nat)
  PROVE  /\ Put(mem, start, data) \in Memories
         /\ DOMAIN Put(mem, start, data) = DOMAIN mem \cup Span(start, data)
<1>1. PICK D \in SUBSET Nat : mem \in [D -> Nat]
  BY DEF Memories
<1> DEFINE E == D \cup Span(start, data)
<1>2. Len(data) \in Nat /\ \A i \in 1 .. Len(data) : data[i] \in Nat
  OBVIOUS
<1>3. Span(start, data) \subseteq Nat
  BY <1>2 DEF Span
<1>4. \A a \in Span(start, data) : a - start + 1 \in 1 .. Len(data)
  BY <1>2 DEF Span
<1>5. \A a \in E : (IF a \in Span(start, data) THEN data[a - start + 1] ELSE mem[a]) \in Nat
  BY <1>1, <1>2, <1>4
<1>6. Put(mem, start, data) \in [E -> Nat]
  BY <1>1, <1>5 DEF Put
<1>7. E \in SUBSET Nat
  BY <1>3
<1> QED
  BY <1>1, <1>6, <1>7 DEF Memories

LEMMA NothingType == Nothing \in Memories /\ DOMAIN Nothing = {}
<1>1. Nothing \in [{} -> Nat]
  BY DEF Nothing
<1> QED
  BY <1>1 DEF Memories

LEMMA UnreadType == Unread \in Readers /\ Refused \in Readers /\ Unnoticed \in Tools /\ ~Refused.ok
BY NothingType, Layout DEF Unread, Refused, Unnoticed, Readers, Tools

\* What a reader keeps when it takes a line.
LEMMA TakenType ==
  ASSUME NEW r \in Readers, NEW l \in Lines
  PROVE  /\ Taken(r, l) \in Readers /\ Taken(r, l).ok = r.ok
         /\ Taken(r, l).base = IF l.kind = "base" THEN l.base ELSE r.base
         /\ DOMAIN Taken(r, l).mem = IF l.kind = "data"
                                     THEN DOMAIN r.mem \cup Span(r.base + l.addr, l.data)
                                     ELSE DOMAIN r.mem
<1>1. r.base + l.addr \in Nat /\ r.mem \in Memories
  <2>1. r.base \in 0 .. Word - 1 /\ Word \in Nat /\ r.mem \in Memories
    BY Layout DEF Readers
  <2> QED
    BY <2>1, LineType
<1>2. /\ Put(r.mem, r.base + l.addr, l.data) \in Memories
      /\ DOMAIN Put(r.mem, r.base + l.addr, l.data)
           = DOMAIN r.mem \cup Span(r.base + l.addr, l.data)
  BY <1>1, LineType, PutType
<1>3. CASE l.kind = "data"
  BY <1>2, <1>3 DEF Taken, Readers
<1>4. CASE l.kind = "eof"
  BY <1>4 DEF Taken, Readers
<1>5. CASE l.kind = "base"
  BY <1>5, LineType DEF Taken, Readers
<1>6. CASE l.kind \notin {"data", "eof", "base"}
  BY <1>6 DEF Taken, Readers
<1> QED
  BY <1>3, <1>4, <1>5, <1>6

\* A record below the boot section has no part in it, and its sums do not wrap.
LEMMA BelowBoot ==
  ASSUME NEW base \in 0 .. Word - 1, NEW addr \in Nat, NEW len \in Nat,
         base + addr + len <= BootStart
  PROVE  /\ (base + addr) % Word = base + addr
         /\ (((base + addr) % Word) + len) % Word = base + addr + len
         /\ (base + addr + len) \in Nat
<1>1. \A w \in Nat : \A n \in 0 .. w - 1 : n % w = n
  OBVIOUS
<1>2. base + addr \in 0 .. Word - 1 /\ base + addr + len \in 0 .. Word - 1
  BY Layout
<1> QED
  BY <1>1, <1>2, Layout

LEMMA ToolType ==
  ASSUME NEW t \in Tools, NEW l \in Lines
  PROVE  ToolLine(t, l) \in Tools
BY LineType, Layout DEF ToolLine, Tools, Unnoticed

LEMMA NothingBounded == Bounded(Nothing)
BY NothingType DEF Bounded

LEMMA BuildBounded ==
  ASSUME NEW r \in Readers, NEW l \in Lines, Bounded(r.mem)
  PROVE  Bounded(BuildLine(r, l).mem)
<1>1. CASE BuildLine(r, l) = Refused
  BY <1>1, NothingBounded DEF Refused, Unread
<1>2. CASE BuildLine(r, l) = Taken(r, l)
  <2> DEFINE top == r.base + l.addr + Len(l.data)
  <2>1. PICK n \in Nat : DOMAIN r.mem \subseteq 0 .. n
    BY DEF Bounded
  <2>2. r.base + l.addr \in Nat /\ top \in Nat
    <3>1. r.base \in 0 .. Word - 1 /\ Word \in Nat
      BY Layout DEF Readers
    <3> QED
      BY <3>1, LineType
  <2>3. Span(r.base + l.addr, l.data) \subseteq 0 .. top
    BY <2>2, LineType DEF Span
  <2> HIDE DEF top
  <2>4. 0 .. n \subseteq 0 .. n + top /\ 0 .. top \subseteq 0 .. n + top /\ n + top \in Nat
    BY <2>2
  <2>5. DOMAIN Taken(r, l).mem \subseteq DOMAIN r.mem \cup Span(r.base + l.addr, l.data)
    BY TakenType
  <2>6. DOMAIN Taken(r, l).mem \subseteq 0 .. n + top
    BY <2>1, <2>3, <2>4, <2>5
  <2> QED
    BY <1>2, <2>4, <2>6 DEF Bounded
<1> QED
  BY <1>1, <1>2 DEF BuildLine

LEMMA ImageInit == Init => ImageInv
BY UnreadType, NothingType, NothingBounded DEF Init, ImageInv, ReadersAgree, Unread, Unnoticed

LEMMA ReadLineKeeps ==
  ASSUME ImageInv, NEW l \in Lines, ReadLine(l)
  PROVE  ImageInv'
<1>1. /\ studio' \in Readers /\ build' \in Readers /\ image' \in Readers /\ tool' \in Tools
      /\ studio'.ok \/ studio' = Refused
  BY TakenType, UnreadType, ToolType
  DEF ImageInv, ReadLine, StudioLine, BuildLine, AvrdudeLine
<1>2. ASSUME studio'.ok PROVE ReadersAgree'
  <2>1. studio.ok /\ ~StudioRefuses(studio, l) /\ studio' = Taken(studio, l)
    BY <1>2, UnreadType DEF ReadLine, StudioLine
  <2>2. /\ build = studio /\ image = studio /\ ~tool.boot
        /\ DOMAIN studio.mem \subseteq 0 .. BootStart - 1
        /\ tool.ok => tool.base = studio.base
    BY <2>1 DEF ImageInv, ReadersAgree
  <2>3. build' = studio' /\ image' = studio'
    BY <2>1, <2>2 DEF ReadLine, BuildLine, BuildRefuses, StudioRefuses, AvrdudeLine
  <2>4. ASSUME l.kind = "data"
        PROVE  /\ studio.base \in 0 .. Word - 1
               /\ studio.base + l.addr + Len(l.data) <= BootStart
    <3>1. studio.base \in 0 .. Word - 1 /\ Word \in Nat /\ BootStart \in Nat
      BY Layout DEF ImageInv, Readers
    <3>2. ~(studio.base + l.addr + Len(l.data) > BootStart)
      BY <2>1, <2>4 DEF StudioRefuses
    <3> QED
      BY <3>1, <3>2, LineType
  <2>5. DOMAIN studio'.mem \subseteq 0 .. BootStart - 1
    <3>1. ASSUME l.kind = "data"
          PROVE  Span(studio.base + l.addr, l.data) \subseteq 0 .. BootStart - 1
      <4>1. \A w \in Nat : \A base \in 0 .. w - 1 : \A addr, len, bound \in Nat :
              base + addr + len <= bound
                => (base + addr) .. (base + addr + len - 1) \subseteq 0 .. bound - 1
        OBVIOUS
      <4>2. /\ studio.base \in 0 .. Word - 1 /\ Word \in Nat /\ BootStart \in Nat
            /\ l.addr \in Nat /\ Len(l.data) \in Nat
            /\ studio.base + l.addr + Len(l.data) <= BootStart
        BY <3>1, <2>4, LineType, Layout
      <4> QED
        BY <4>1, <4>2 DEF Span
    <3>2. DOMAIN studio'.mem = IF l.kind = "data"
                               THEN DOMAIN studio.mem \cup Span(studio.base + l.addr, l.data)
                               ELSE DOMAIN studio.mem
      BY <2>1, TakenType DEF ImageInv
    <3> QED
      BY <3>1, <3>2, <2>2
  <2>6. ASSUME tool.ok, l.kind = "data"
        PROVE  tool' = [tool EXCEPT !.app = tool'.app, !.boot = FALSE]
    <3>1. /\ Start(tool, l) = studio.base + l.addr
          /\ End(tool, l) = studio.base + l.addr + Len(l.data)
          /\ End(tool, l) \in Nat
      <4> DEFINE base == studio.base
      <4>1. /\ base \in 0 .. Word - 1 /\ l.addr \in Nat /\ Len(l.data) \in Nat
            /\ base + l.addr + Len(l.data) <= BootStart /\ tool.base = base
        BY <2>2, <2>4, <2>6, LineType
      <4>2. /\ (base + l.addr) % Word = base + l.addr
            /\ (((base + l.addr) % Word) + Len(l.data)) % Word = base + l.addr + Len(l.data)
            /\ base + l.addr + Len(l.data) \in Nat
        BY <4>1, BelowBoot
      <4> QED
        BY <4>1, <4>2 DEF Start, End
    <3>2. ~(End(tool, l) > FlashEnd) /\ ~InBoot(tool, l)
      BY <3>1, <2>4, <2>6, LineType, Layout DEF InBoot
    <3>3. l.kind # "bad" /\ tool \in Tools
      BY <2>6 DEF ImageInv
    <3> QED
      BY <3>2, <3>3, <2>2, <2>6 DEF ReadLine, ToolLine, Tools
  <2>7. ~tool'.boot /\ (tool'.ok => tool'.base = studio'.base)
    <3>1. studio'.base = IF l.kind = "base" THEN l.base ELSE studio.base
      BY <2>1, TakenType DEF ImageInv
    <3>2. tool \in Tools /\ tool' = ToolLine(tool, l) /\ l.kind # "bad"
      BY <2>1 DEF ImageInv, ReadLine, StudioRefuses, BadRecord
    <3>3. CASE ~tool.ok
      <4>1. tool' = [Unnoticed EXCEPT !.ok = FALSE]
        BY <3>2, <3>3 DEF ToolLine
      <4> QED
        BY <4>1 DEF Unnoticed
    <3>4. CASE tool.ok /\ l.kind = "data"
      BY <3>1, <3>2, <3>4, <2>2, <2>6 DEF Tools
    <3>5. CASE tool.ok /\ l.kind # "data"
      <4>1. /\ l.kind = "base" => tool' = [tool EXCEPT !.base = l.base]
            /\ l.kind = "eof" => tool' = [tool EXCEPT !.eof = TRUE]
            /\ l.kind \notin {"base", "eof"} => tool' = tool
        <5>1. CASE l.kind = "base"
          BY <5>1, <3>2, <3>5 DEF ToolLine
        <5>2. CASE l.kind = "eof"
          BY <5>2, <3>2, <3>5 DEF ToolLine
        <5>3. CASE l.kind \notin {"base", "eof"}
          BY <5>3, <3>2, <3>5 DEF ToolLine
        <5> QED
          BY <5>1, <5>2, <5>3
      <4>2. tool'.boot = tool.boot /\ tool'.base = studio'.base
        <5>1. CASE l.kind = "base"
          BY <5>1, <3>1, <3>2, <4>1 DEF Tools
        <5>2. CASE l.kind = "eof"
          BY <5>2, <3>1, <3>2, <3>5, <4>1, <2>2 DEF Tools
        <5>3. CASE l.kind \notin {"base", "eof"}
          BY <5>3, <3>1, <3>5, <4>1, <2>2
        <5> QED
          BY <5>1, <5>2, <5>3
      <4> QED
        BY <4>2, <2>2
    <3> QED
      BY <3>3, <3>4, <3>5
  <2> QED
    BY <2>3, <2>5, <2>7 DEF ReadersAgree
<1>3. Bounded(build'.mem)
  BY BuildBounded DEF ImageInv, ReadLine
<1> QED
  BY <1>1, <1>2, <1>3 DEF ImageInv, ReadersAgree

\* The readers' types, and that they agree while Studio refuses nothing
\* (firmwareupdater.cpp:79-155, hex_image.py:11-36, main.cpp:267-308 of the tool).
THEOREM ImageInvariant == Spec => []ImageInv
<1>1. ImageInv /\ [Next]_vars => ImageInv'
  <2>1. ASSUME ImageInv, UNCHANGED vars PROVE ImageInv'
    BY <2>1 DEF vars, ImageInv, ReadersAgree, Bounded
  <2> QED
    BY <2>1, ReadLineKeeps DEF Next
<1> QED
  BY ImageInit, <1>1, PTL DEF Spec

\* The types of what the readers keep; Studio's memory ends where the bootloader
\* begins.
THEOREM ImageTypeCorrect == Spec => []TypeOK
<1>1. ASSUME NEW m \in Memories PROVE \A a \in DOMAIN m : a \in Nat /\ m[a] \in Nat
  BY DEF Memories
<1>2. ImageInv => TypeOK
  <2> SUFFICES ASSUME ImageInv PROVE TypeOK
    OBVIOUS
  <2>1. DOMAIN studio.mem \subseteq 0 .. BootStart - 1
    BY UnreadType, NothingType DEF ImageInv, ReadersAgree, Refused, Unread
  <2>2. \A r \in {studio, build, image} :
          /\ r.ok \in BOOLEAN /\ r.base \in 0 .. Word - 1 /\ r.eof \in BOOLEAN
          /\ r.mem \in Memories
    BY DEF ImageInv, Readers
  <2> QED
    BY <1>1, <2>1, <2>2 DEF ImageInv, Tools, TypeOK
<1> QED
  BY <1>2, ImageInvariant, PTL

\* The bootloader's check of a memory that passed Studio's, once it is in flash.
LEMMA ChecksAgree ==
  ASSUME NEW mem, StudioChecks(mem)
  PROVE  ApplicationIsValid(Flashed(mem))
<1> DEFINE flash == Flashed(mem)
           n == Length(mem)
<1>1. \A a \in 0 .. BootStart - 1 : flash[a] = At(mem, a)
  BY DEF Flashed
<1>2. \A i \in {0, 1, 2, 3} : ManifestAt + i \in 0 .. BootStart - 1 /\ ManifestAt + i \in DOMAIN mem
  BY Layout DEF StudioChecks
<1>3. /\ flash[ManifestAt] = Magic /\ flash[ManifestAt + 1] = Protocol
      /\ flash[ManifestAt + 2] = n /\ flash[ManifestAt + 3] = Sum(mem)
  BY <1>1, <1>2, Layout DEF StudioChecks, At, Length, Sum
<1>4. n \in 2 .. ManifestAt
  BY DEF StudioChecks
<1>5. \A a \in 0 .. ManifestAt : a < ManifestAt => a \in 0 .. BootStart - 1
  BY Layout
<1>6. [a \in 0 .. n - 1 |-> flash[a]] = Bytes(mem, n)
  <2>1. \A a \in 0 .. n - 1 : flash[a] = At(mem, a)
    BY <1>1, <1>4, <1>5, Layout
  <2> QED
    BY <2>1 DEF Bytes
<1>7. \A a \in n .. ManifestAt - 1 : flash[a] = FF
  <2>1. \A a \in n .. ManifestAt - 1 : flash[a] = At(mem, a)
    BY <1>1, <1>4, <1>5, Layout
  <2> QED
    BY <2>1 DEF StudioChecks
<1>8. Crc([a \in 0 .. n - 1 |-> flash[a]]) = Sum(mem)
  BY <1>6 DEF StudioChecks
<1> HIDE DEF flash, n
<1>9. /\ flash[ManifestAt] = Magic /\ flash[ManifestAt + 1] = Protocol
      /\ flash[ManifestAt + 2] >= 2 /\ flash[ManifestAt + 2] <= ManifestAt
  BY <1>3, <1>4, Layout
<1> QED
  BY <1>3, <1>7, <1>8, <1>9 DEF ApplicationIsValid, flash

\* Whatever lines a file has: what Studio accepts, avrdude writes into the
\* application section only, and the bootloader starts.
THEOREM AcceptedImageStarts == Spec => []AcceptedStarts
<1>1. ImageInv => AcceptedStarts
  BY ChecksAgree DEF ImageInv, ReadersAgree, AcceptedStarts, StudioAccepts
<1> QED
  BY <1>1, ImageInvariant, PTL

\* Whatever lines a file has: what Studio accepts, the build could combine, and
\* the preparation tool would not take for a factory image.
THEOREM StudioAcceptsLess == Spec => []StudioIsStricter
<1>1. ASSUME ImageInv, StudioAccepts(studio)
      PROVE  /\ ReadHex(build) /\ Validate(build.mem)
             /\ 0 \in DOMAIN build.mem /\ Highest(build.mem) < BootStart
             /\ ~ToolAccepts(tool)
  <2> DEFINE mem == studio.mem
  <2>1. /\ build = studio /\ DOMAIN mem \subseteq 0 .. BootStart - 1 /\ ~tool.boot
        /\ studio.eof /\ studio.ok /\ StudioChecks(mem)
    BY <1>1 DEF ImageInv, ReadersAgree, StudioAccepts
  <2>2. 0 \in DOMAIN mem
    BY <2>1 DEF StudioChecks, ResetVector
  <2>3. \A i \in 0 .. ManifestSize - 1 : ManifestAt + i \in DOMAIN mem
    <3>1. \A i \in 0 .. ManifestSize - 1 : ManifestAt + i \in ManifestAt .. BootStart - 1
      BY Layout DEF ManifestSize
    <3> QED
      BY <3>1, <2>1 DEF StudioChecks
  <2>4. Validate(mem)
    <3>1. /\ At(mem, ManifestAt) = Magic /\ At(mem, ManifestAt + 1) = Protocol
      <4>1. ManifestAt \in DOMAIN mem /\ ManifestAt + 1 \in DOMAIN mem
        BY <2>1, Layout DEF StudioChecks
      <4> QED
        BY <4>1, <2>1 DEF StudioChecks, At
    <3>2. Length(mem) >= 2 /\ Length(mem) <= ManifestAt
      BY <2>1, Layout DEF StudioChecks
    <3> QED
      BY <2>1, <2>3, <3>1, <3>2 DEF StudioChecks, Validate
  <2>5. Highest(mem) < BootStart
    <3>1. BootStart - 1 \in DOMAIN mem
      BY <2>1, Layout DEF StudioChecks
    <3>2. \A b \in DOMAIN mem : b <= BootStart - 1
      BY <2>1, Layout
    <3>3. \E a \in DOMAIN mem : \A b \in DOMAIN mem : b <= a
      BY <3>1, <3>2
    <3>4. Highest(mem) \in DOMAIN mem
      BY <3>3 DEF Highest
    <3> QED
      BY <3>4, <2>1, Layout
  <2> QED
    BY <2>1, <2>2, <2>4, <2>5 DEF ReadHex, ToolAccepts
<1>2. ImageInv => StudioIsStricter
  BY <1>1 DEF StudioIsStricter
<1> QED
  BY <1>2, ImageInvariant, PTL
-----------------------------------------------------------------------------
(***************************************************************************)
(* Numbers and rows.                                                       *)
(***************************************************************************)

\* Every set of numbers has a least one, and induction over a set of numbers.
LEMMA LeastNumber ==
  ASSUME NEW T, T \subseteq Nat, T # {}
  PROVE  \E x \in T : \A y \in T : x <= y
<1> DEFINE R == OpToRel(<, Nat)
<1>1. IsWellFoundedOn(R, Nat)
  BY NatLessThanWellFounded
<1>2. \A x, y \in Nat : <<x, y>> \in R <=> x < y
  BY DEF OpToRel
<1> HIDE DEF R
<1>3. PICK x \in T : \A y \in T : ~ (<<y, x>> \in R)
  BY <1>1, WFMin
<1>4. \A y \in T : ~ (y < x)
  BY <1>2, <1>3
<1>5. \A y \in T : y \in Nat /\ x \in Nat
  BY <1>3
<1>6. \A y \in Nat : x \in Nat /\ ~ (y < x) => x <= y
  OBVIOUS
<1> QED
  BY <1>3, <1>4, <1>5, <1>6

LEMMA SetInduction ==
  ASSUME NEW Z, 0 \in Z, \A n \in Nat : n \in Z => n + 1 \in Z
  PROVE  Nat \subseteq Z
<1> DEFINE T == Nat \ Z
<1>1. SUFFICES ASSUME T # {} PROVE FALSE
  OBVIOUS
<1>2. PICK x \in T : \A y \in T : x <= y
  <2> HIDE DEF T
  <2>1. T \subseteq Nat
    BY DEF T
  <2> QED
    BY <1>1, <2>1, LeastNumber
<1>3. x # 0 /\ x - 1 \in Nat /\ ~(x <= x - 1) /\ (x - 1) + 1 = x
  OBVIOUS
<1>4. x - 1 \in Z
  BY <1>2, <1>3
<1> QED
  BY <1>3, <1>4

\* Where a row begins and ends.
LEMMA RowFacts ==
  /\ Row \in Nat /\ Row >= 2 /\ BootStart % Row = 0 /\ FlashEnd % Row = 0
BY ImageAssumption

LEMMA RowOf ==
  ASSUME NEW a \in Nat
  PROVE  /\ a \div Row \in Nat
         /\ (a \div Row) * Row <= a /\ a < (a \div Row) * Row + Row
BY RowFacts

LEMMA RowsApart ==
  ASSUME NEW j \in Nat, NEW k \in Nat, j < k
  PROVE  j * Row + Row <= k * Row /\ j * Row \in Nat /\ k * Row \in Nat
<1>1. \A r \in Nat : j * r + r <= k * r /\ j * r \in Nat /\ k * r \in Nat
  OBVIOUS
<1> QED
  BY <1>1, RowFacts

LEMMA WholeRows ==
  ASSUME NEW limit \in Nat, limit % Row = 0, NEW a \in Nat, a < limit
  PROVE  (a \div Row + 1) * Row <= limit
<1> DEFINE m == limit \div Row
          k == a \div Row
<1>1. m \in Nat /\ limit = m * Row
  BY RowFacts
<1>2. k \in Nat /\ k * Row <= a
  BY RowOf
<1>3. k < m
  <2>1. SUFFICES ASSUME m <= k PROVE FALSE
    BY <1>1, <1>2
  <2>2. CASE m = k
    BY <1>1, <1>2, <2>2
  <2>3. CASE m < k
    <3> HIDE DEF m, k
    <3>1. m * Row + Row <= k * Row /\ k * Row \in Nat
      BY <1>1, <1>2, <2>3, RowsApart
    <3> QED
      BY <1>1, <1>2, <3>1, RowFacts
  <2> QED
    BY <1>1, <1>2, <2>1, <2>2, <2>3
<1>4. (k + 1) * Row = k * Row + Row
  <2> HIDE DEF k
  <2> QED
    BY <1>2, RowFacts
<1> HIDE DEF m, k
<1>5. k * Row + Row <= m * Row
  BY <1>1, <1>2, <1>3, RowsApart
<1> QED
  BY <1>1, <1>4, <1>5 DEF k

\* A bounded set of numbers has a highest.
LEMMA HighestIs ==
  ASSUME NEW mem, DOMAIN mem \subseteq Nat, DOMAIN mem # {},
         NEW bound \in Nat, \A a \in DOMAIN mem : a <= bound
  PROVE  /\ Highest(mem) \in DOMAIN mem
         /\ \A a \in DOMAIN mem : a <= Highest(mem)
<1> DEFINE U == {n \in Nat : \A a \in DOMAIN mem : a <= n}
<1>1. PICK n \in U : \A y \in U : n <= y
  <2>1. U \subseteq Nat /\ bound \in U
    OBVIOUS
  <2> HIDE DEF U
  <2> QED
    BY <2>1, LeastNumber
<1>2. n \in DOMAIN mem
  <2>1. SUFFICES ASSUME n \notin DOMAIN mem PROVE FALSE
    OBVIOUS
  <2>2. \A a \in DOMAIN mem : a <= n /\ a # n /\ a \in Nat
    BY <2>1
  <2>3. n # 0 /\ n - 1 \in Nat
    BY <2>2
  <2>4. \A a \in DOMAIN mem : a <= n - 1
    BY <2>2
  <2>5. n - 1 \in U
    BY <2>3, <2>4
  <2> QED
    BY <1>1, <2>5
<1> QED
  BY <1>2 DEF Highest

-----------------------------------------------------------------------------
(***************************************************************************)
(* A file that is read to its end.                                         *)
(***************************************************************************)

\* g holds what the readers have after each of the first m lines of a file.
ReadSoFar(g, m, file) ==
  g = [n \in 0 .. m |-> IF n = 0 THEN AllUnread ELSE AllLine(g[n - 1], file[n])]

\* The recursive function of Reading exists.
LEMMA ReadingExists ==
  ASSUME NEW file, NEW k \in Nat
  PROVE  \E g : ReadSoFar(g, k, file)
<1> DEFINE Z == {m \in Nat : \E g : ReadSoFar(g, m, file)}
<1>1. 0 \in Z
  <2> DEFINE g == [n \in 0 .. 0 |-> AllUnread]
  <2>1. ReadSoFar(g, 0, file)
    BY DEF ReadSoFar
  <2> QED
    BY <2>1
<1>2. ASSUME NEW m \in Nat, m \in Z PROVE m + 1 \in Z
  <2>1. PICK g : ReadSoFar(g, m, file)
    BY <1>2
  <2> DEFINE h == [n \in 0 .. m + 1 |-> IF n <= m THEN g[n] ELSE AllLine(g[n - 1], file[n])]
  <2>2. \A n \in 0 .. m : g[n] = IF n = 0 THEN AllUnread ELSE AllLine(g[n - 1], file[n])
    BY <2>1 DEF ReadSoFar
  <2>3. \A n \in 0 .. m : h[n] = g[n]
    OBVIOUS
  <2>4. h[m + 1] = AllLine(g[m], file[m + 1])
    OBVIOUS
  <2>5. h = [n \in 0 .. m + 1 |-> h[n]]
    OBVIOUS
  <2> HIDE DEF h
  <2>6. ASSUME NEW n \in 0 .. m + 1
        PROVE  h[n] = IF n = 0 THEN AllUnread ELSE AllLine(h[n - 1], file[n])
    <3>1. CASE n = m + 1
      BY <2>3, <2>4, <3>1
    <3>2. CASE n \in 0 .. m /\ n # 0
      <4>1. n - 1 \in 0 .. m
        BY <3>2
      <4> QED
        BY <2>2, <2>3, <3>2, <4>1
    <3>3. CASE n = 0
      BY <2>2, <2>3, <3>3
    <3> QED
      BY <3>1, <3>2, <3>3
  <2>7. ReadSoFar(h, m + 1, file)
    BY ONLY <2>5, <2>6, m \in Nat DEF ReadSoFar
  <2> QED
    BY <2>7
<1> HIDE DEF Z
<1>3. k \in Z
  BY <1>1, <1>2, SetInduction
<1> QED
  BY <1>3 DEF Z

LEMMA ReadingSteps ==
  ASSUME NEW S, NEW file \in Seq(S)
  PROVE  \E g : /\ Reading(file) = g[Len(file)] /\ g[0] = AllUnread
                /\ \A n \in 1 .. Len(file) : g[n] = AllLine(g[n - 1], file[n])
<1> DEFINE m == Len(file)
           g == CHOOSE g : ReadSoFar(g, m, file)
<1>1. m \in Nat
  OBVIOUS
<1>2. Reading(file) = g[m]
  BY DEF Reading, ReadSoFar
<1> HIDE DEF m
<1>3. ReadSoFar(g, m, file)
  BY <1>1, ReadingExists
<1> HIDE DEF g
<1>4. \A n \in 0 .. m : g[n] = IF n = 0 THEN AllUnread ELSE AllLine(g[n - 1], file[n])
  BY <1>3 DEF ReadSoFar
<1>5. 0 \in 0 .. m /\ \A n \in 1 .. m : n \in 0 .. m /\ n # 0
  BY <1>1
<1>6. g[0] = AllUnread /\ \A n \in 1 .. m : g[n] = AllLine(g[n - 1], file[n])
  BY <1>4, <1>5
<1> QED
  BY <1>2, <1>6 DEF m

\* A file with no line, and with one line more.
LEMMA ReadingEmpty == Reading(<<>>) = AllUnread
<1>1. <<>> \in Seq({}) /\ Len(<<>>) = 0
  OBVIOUS
<1> QED
  BY <1>1, ReadingSteps

LEMMA ReadingAppend ==
  ASSUME NEW S, NEW file \in Seq(S), NEW line \in S
  PROVE  Reading(Append(file, line)) = AllLine(Reading(file), line)
<1> DEFINE m == Len(file)
           long == Append(file, line)
<1>1. /\ m \in Nat /\ long \in Seq(S) /\ Len(long) = m + 1 /\ long[m + 1] = line
      /\ \A n \in 1 .. m : long[n] = file[n]
  OBVIOUS
<1>2. PICK g : /\ Reading(file) = g[m] /\ g[0] = AllUnread
               /\ \A n \in 1 .. m : g[n] = AllLine(g[n - 1], file[n])
  BY ReadingSteps
<1> HIDE DEF m, long
<1>3. PICK h : /\ Reading(long) = h[m + 1] /\ h[0] = AllUnread
               /\ \A n \in 1 .. m + 1 : h[n] = AllLine(h[n - 1], long[n])
  <2>1. \E h : /\ Reading(long) = h[Len(long)] /\ h[0] = AllUnread
               /\ \A n \in 1 .. Len(long) : h[n] = AllLine(h[n - 1], long[n])
    BY <1>1, ReadingSteps
  <2>2. Len(long) = m + 1
    BY <1>1
  <2> QED
    BY ONLY <2>1, <2>2
<1> DEFINE Z == {n \in Nat : n <= m => h[n] = g[n]}
<1>4. 0 \in Z
  BY <1>2, <1>3
<1>5. ASSUME NEW n \in Nat, n \in Z PROVE n + 1 \in Z
  <2>1. SUFFICES ASSUME n + 1 <= m PROVE h[n + 1] = g[n + 1]
    OBVIOUS
  <2>2. n + 1 \in 1 .. m /\ n + 1 \in 1 .. m + 1 /\ n <= m /\ (n + 1) - 1 = n
    BY <1>1, <2>1
  <2>3. h[n] = g[n]
    BY <1>5, <2>2
  <2> QED
    BY <1>1, <1>2, <1>3, <2>2, <2>3
<1> HIDE DEF Z
<1>6. m \in Z
  BY <1>1, <1>4, <1>5, SetInduction
<1>7. h[m] = g[m] /\ m + 1 \in 1 .. m + 1 /\ (m + 1) - 1 = m
  BY <1>1, <1>6 DEF Z
<1> QED
  BY <1>1, <1>2, <1>3, <1>7 DEF long

-----------------------------------------------------------------------------
(***************************************************************************)
(* A memory that is written to a file, row by row.                         *)
(***************************************************************************)

RowCount(mem) == Highest(mem) \div Row + 1

\* g holds the file after each of the first m rows of a memory.
WrittenSoFar(g, m, mem) ==
  g = [n \in 0 .. m |->
         IF n = 0 THEN <<>>
         ELSE IF HoldsData(mem, n - 1) THEN Append(g[n - 1], RowLine(mem, n - 1))
              ELSE g[n - 1]]

LEMMA WritingExists ==
  ASSUME NEW mem, NEW k \in Nat
  PROVE  \E g : WrittenSoFar(g, k, mem)
<1> DEFINE Z == {m \in Nat : \E g : WrittenSoFar(g, m, mem)}
           Row1(file, n) == IF HoldsData(mem, n - 1) THEN Append(file, RowLine(mem, n - 1)) ELSE file
<1>1. 0 \in Z
  <2> DEFINE g == [n \in 0 .. 0 |-> <<>>]
  <2>1. WrittenSoFar(g, 0, mem)
    BY DEF WrittenSoFar
  <2> QED
    BY <2>1
<1>2. ASSUME NEW m \in Nat, m \in Z PROVE m + 1 \in Z
  <2>1. PICK g : WrittenSoFar(g, m, mem)
    BY <1>2
  <2> DEFINE h == [n \in 0 .. m + 1 |-> IF n <= m THEN g[n] ELSE Row1(g[n - 1], n)]
  <2>2. \A n \in 0 .. m : g[n] = IF n = 0 THEN <<>> ELSE Row1(g[n - 1], n)
    BY <2>1 DEF WrittenSoFar
  <2> HIDE DEF Row1
  <2>3. \A n \in 0 .. m : h[n] = g[n]
    OBVIOUS
  <2>4. h[m + 1] = Row1(g[m], m + 1)
    OBVIOUS
  <2>5. h = [n \in 0 .. m + 1 |-> h[n]]
    OBVIOUS
  <2> HIDE DEF h
  <2>6. ASSUME NEW n \in 0 .. m + 1
        PROVE  h[n] = IF n = 0 THEN <<>> ELSE Row1(h[n - 1], n)
    <3>1. CASE n = m + 1
      BY <2>3, <2>4, <3>1
    <3>2. CASE n \in 0 .. m /\ n # 0
      <4>1. n - 1 \in 0 .. m
        BY <3>2
      <4> QED
        BY <2>2, <2>3, <3>2, <4>1
    <3>3. CASE n = 0
      BY <2>2, <2>3, <3>3
    <3> QED
      BY <3>1, <3>2, <3>3
  <2>7. WrittenSoFar(h, m + 1, mem)
    BY ONLY <2>5, <2>6, m \in Nat DEF WrittenSoFar, Row1
  <2> QED
    BY <2>7
<1> HIDE DEF Z
<1>3. k \in Z
  BY <1>1, <1>2, SetInduction
<1> QED
  BY <1>3 DEF Z

\* The file, row by row.
LEMMA WritingSteps ==
  ASSUME NEW mem, Highest(mem) \in Nat
  PROVE  \E g : /\ WriteHex(mem) = Append(g[RowCount(mem)], EofLine) /\ g[0] = <<>>
                /\ \A n \in 0 .. RowCount(mem) - 1 :
                     g[n + 1] = IF HoldsData(mem, n) THEN Append(g[n], RowLine(mem, n)) ELSE g[n]
<1> DEFINE m == RowCount(mem)
           g == CHOOSE g : WrittenSoFar(g, m, mem)
<1>1. m \in Nat
  BY RowOf DEF RowCount
<1>2. WriteHex(mem) = Append(g[m], EofLine)
  BY DEF WriteHex, WrittenSoFar, RowCount
<1> HIDE DEF m
<1>3. WrittenSoFar(g, m, mem)
  BY <1>1, WritingExists
<1> HIDE DEF g
<1>4. \A n \in 0 .. m :
        g[n] = IF n = 0 THEN <<>>
               ELSE IF HoldsData(mem, n - 1) THEN Append(g[n - 1], RowLine(mem, n - 1)) ELSE g[n - 1]
  BY <1>3 DEF WrittenSoFar
<1>5. 0 \in 0 .. m /\ \A n \in 0 .. m - 1 : n + 1 \in 0 .. m /\ n + 1 # 0 /\ (n + 1) - 1 = n
  BY <1>1
<1>6. /\ g[0] = <<>>
      /\ \A n \in 0 .. m - 1 :
           g[n + 1] = IF HoldsData(mem, n) THEN Append(g[n], RowLine(mem, n)) ELSE g[n]
  BY <1>4, <1>5
<1> QED
  BY <1>2, <1>6 DEF m

\* The cells of the first n rows, as far as they are written.
Covered(mem, n) == {a \in Nat : \E k \in 0 .. n - 1 : HoldsData(mem, k) /\ a \in Cells(k)}
Copy(mem, n) == [a \in Covered(mem, n) |-> At(mem, a)]

\* A row is written only if it holds data.
LEMMA CoveredStep ==
  ASSUME NEW mem, NEW n \in Nat
  PROVE  /\ Covered(mem, n + 1) = IF HoldsData(mem, n) THEN Covered(mem, n) \cup Cells(n)
                                  ELSE Covered(mem, n)
         /\ Cells(n) \cap Covered(mem, n) = {}
         /\ Cells(n) = n * Row .. n * Row + Row - 1 /\ n * Row \in Nat
<1>1. n * Row \in Nat
  BY RowFacts
<1>2. Cells(n) = n * Row .. n * Row + Row - 1
  BY DEF Cells
<1>3. \A k \in 0 .. (n + 1) - 1 : k \in 0 .. n - 1 \/ k = n
  OBVIOUS
<1>4. \A k \in 0 .. n - 1 : k \in 0 .. (n + 1) - 1
  OBVIOUS
<1>5. n \in 0 .. (n + 1) - 1
  OBVIOUS
<1>6. Cells(n) \subseteq Nat
  BY <1>1, <1>2, RowFacts
<1>7. ASSUME NEW a \in Cells(n), a \in Covered(mem, n) PROVE FALSE
  <2>1. PICK k \in 0 .. n - 1 : a \in Cells(k)
    BY <1>7 DEF Covered
  <2>2. k \in Nat /\ k < n
    OBVIOUS
  <2>3. k * Row + Row <= n * Row /\ k * Row \in Nat
    BY <2>2, RowsApart
  <2>4. a \in k * Row .. k * Row + Row - 1
    BY <2>1 DEF Cells
  <2>5. a \in n * Row .. n * Row + Row - 1
    BY <1>2, <1>7
  <2> QED
    BY <1>1, <2>3, <2>4, <2>5, RowFacts
<1>8. Covered(mem, n + 1) = IF HoldsData(mem, n) THEN Covered(mem, n) \cup Cells(n)
                            ELSE Covered(mem, n)
  BY <1>3, <1>4, <1>5, <1>6 DEF Covered
<1> QED
  BY <1>1, <1>2, <1>7, <1>8

\* A row's line, and its data taken by a reader that has read the rows before.
LEMMA RowLineIs ==
  ASSUME NEW mem, NEW n \in Nat
  PROVE  LET l == RowLine(mem, n)
         IN /\ l.kind = "data" /\ l.addr = n * Row /\ l.base = 0
            /\ l.data \in Seq({At(mem, a) : a \in Nat}) /\ Len(l.data) = Row /\ l.data # <<>>
            /\ Span(0 + l.addr, l.data) = Cells(n)
            /\ \A a \in Cells(n) : l.data[a - (0 + l.addr) + 1] = At(mem, a)
<1> DEFINE l == RowLine(mem, n)
           d == [i \in 1 .. Row |-> At(mem, n * Row + i - 1)]
           S == {At(mem, a) : a \in Nat}
<1>1. l.kind = "data" /\ l.addr = n * Row /\ l.base = 0 /\ l.data = d
  BY DEF RowLine, DataLine
<1>2. n * Row \in Nat /\ Row \in Nat /\ Row >= 2
  BY RowFacts
<1>3. \A i \in 1 .. Row : d[i] \in S
  <2>1. \A i \in 1 .. Row : n * Row + i - 1 \in Nat
    BY <1>2
  <2> QED
    BY <2>1
<1>4. d \in Seq(S) /\ Len(d) = Row
  <2>1. d \in [1 .. Row -> S]
    BY <1>3
  <2> HIDE DEF d, S
  <2> QED
    BY <1>2, <2>1
<1>5. d # <<>>
  BY <1>2, <1>4
<1>6. Span(0 + l.addr, l.data) = Cells(n)
  BY <1>1, <1>2, <1>4 DEF Span, Cells
<1>7. \A a \in Cells(n) : l.data[a - (0 + l.addr) + 1] = At(mem, a)
  <2>1. TAKE a \in Cells(n)
  <2> DEFINE i == a - n * Row + 1
  <2>2. i \in 1 .. Row /\ n * Row + i - 1 = a
    BY <1>2 DEF Cells
  <2>3. l.data[i] = At(mem, a)
    BY <1>1, <2>2
  <2>4. a - (0 + l.addr) + 1 = i
    BY <1>1, <1>2
  <2> QED
    BY <2>3, <2>4
<1> QED
  BY <1>1, <1>4, <1>5, <1>6, <1>7

LEMMA CopyStep ==
  ASSUME NEW mem, NEW n \in Nat
  PROVE  LET l == RowLine(mem, n)
         IN Copy(mem, n + 1) = IF HoldsData(mem, n) THEN Put(Copy(mem, n), 0 + l.addr, l.data)
                               ELSE Copy(mem, n)
<1> DEFINE l == RowLine(mem, n)
<1>1. CASE ~HoldsData(mem, n)
  BY <1>1, CoveredStep DEF Copy
<1>2. CASE HoldsData(mem, n)
  <2>1. Covered(mem, n + 1) = Covered(mem, n) \cup Cells(n)
    BY <1>2, CoveredStep
  <2>2. /\ Span(0 + l.addr, l.data) = Cells(n)
        /\ \A a \in Cells(n) : l.data[a - (0 + l.addr) + 1] = At(mem, a)
    BY RowLineIs
  <2> HIDE DEF l
  <2>3. DOMAIN Copy(mem, n) = Covered(mem, n)
    BY DEF Copy
  <2>4. Put(Copy(mem, n), 0 + l.addr, l.data)
          = [a \in Covered(mem, n) \cup Cells(n) |->
               IF a \in Cells(n) THEN l.data[a - (0 + l.addr) + 1] ELSE Copy(mem, n)[a]]
    BY <2>2, <2>3 DEF Put
  <2>5. \A a \in Covered(mem, n) \cup Cells(n) :
          (IF a \in Cells(n) THEN l.data[a - (0 + l.addr) + 1] ELSE Copy(mem, n)[a]) = At(mem, a)
    BY <2>2 DEF Copy
  <2>6. Copy(mem, n + 1) = [a \in Covered(mem, n) \cup Cells(n) |-> At(mem, a)]
    BY <2>1 DEF Copy
  <2>7. Put(Copy(mem, n), 0 + l.addr, l.data) = Copy(mem, n + 1)
    BY <2>4, <2>5, <2>6
  <2> QED
    BY <1>2, <2>7 DEF l
<1> QED
  BY <1>1, <1>2

\* All rows together hold what the memory holds, and FF besides.
LEMMA CopyIsWhole ==
  ASSUME NEW mem, DOMAIN mem \subseteq Nat, Highest(mem) \in Nat,
         \A a \in DOMAIN mem : a <= Highest(mem)
  PROVE  /\ DOMAIN mem \subseteq Covered(mem, RowCount(mem))
         /\ DOMAIN Copy(mem, RowCount(mem)) = Covered(mem, RowCount(mem))
         /\ \A a : At(Copy(mem, RowCount(mem)), a) = At(mem, a)
<1> DEFINE h == Highest(mem)
           m == RowCount(mem)
<1>1. ASSUME NEW a \in DOMAIN mem PROVE a \in Covered(mem, m)
  <2> DEFINE k == a \div Row
  <2>1. a \in Nat /\ k \in Nat /\ a \in Cells(k)
    BY RowOf, RowFacts DEF Cells
  <2>2. HoldsData(mem, k)
    BY <1>1, <2>1 DEF HoldsData
  <2>3. k <= h \div Row /\ h \div Row \in Nat
    <3>1. a <= h /\ h \in Nat
      OBVIOUS
    <3> DEFINE j == h \div Row
    <3>2. j \in Nat /\ h < j * Row + Row /\ j * Row \in Nat
      BY <3>1, RowOf, RowFacts
    <3>3. k * Row <= a /\ k \in Nat
      BY <2>1, RowOf
    <3> HIDE DEF j, k
    <3>4. SUFFICES ASSUME j < k PROVE FALSE
      BY <3>2, <3>3 DEF j
    <3>5. j * Row + Row <= k * Row /\ k * Row \in Nat
      BY <3>2, <3>3, <3>4, RowsApart
    <3> QED
      BY <2>1, <3>1, <3>2, <3>3, <3>5, RowFacts
  <2>4. k \in 0 .. m - 1
    <3> HIDE DEF k
    <3> QED
      BY <2>1, <2>3 DEF RowCount
  <2> QED
    BY <2>1, <2>2, <2>4 DEF Covered
<1>2. DOMAIN Copy(mem, m) = Covered(mem, m)
  BY DEF Copy
<1>3. \A a : At(Copy(mem, m), a) = At(mem, a)
  BY <1>1, <1>2 DEF At, Copy
<1> QED
  BY <1>1, <1>2, <1>3

\* What the readers have after the first n rows of a memory.
HasRead(mem) == [ok |-> TRUE, base |-> 0, eof |-> FALSE, mem |-> mem]
RowsRead(r, mem, n) ==
  /\ r.build = HasRead(Copy(mem, n))
  /\ n * Row <= BootStart => r.studio = r.build
  /\ r.tool \in Tools /\ r.tool.ok /\ r.tool.base = 0
  /\ n > 0 /\ HoldsData(mem, 0) => r.tool.app
  /\ (\E k \in 0 .. n - 1 : HoldsData(mem, k) /\ k * Row + Row > BootStart) => r.tool.boot

LEMMA RowsReadFirst ==
  ASSUME NEW mem
  PROVE  RowsRead(AllUnread, mem, 0)
<1>1. Covered(mem, 0) = {}
  BY DEF Covered
<1>2. Copy(mem, 0) = Nothing
  BY <1>1 DEF Copy, Nothing
<1>3. Unread = HasRead(Nothing)
  BY DEF Unread, HasRead
<1>4. Unnoticed \in Tools /\ Unnoticed.ok /\ Unnoticed.base = 0
  BY UnreadType DEF Unnoticed
<1> QED
  BY <1>2, <1>3, <1>4 DEF RowsRead, AllUnread

\* The line of a row in the three readers.
LEMMA RowTakenByBuild ==
  ASSUME NEW mem, NEW n \in Nat, NEW r,
         r = HasRead(Copy(mem, n)), HoldsData(mem, n)
  PROVE  LET l == RowLine(mem, n)
         IN /\ BuildLine(r, l) = HasRead(Copy(mem, n + 1))
            /\ n * Row + Row <= BootStart => StudioLine(r, l) = BuildLine(r, l)
<1> DEFINE l == RowLine(mem, n)
<1>1. r.ok /\ r.base = 0 /\ ~r.eof /\ r.mem = Copy(mem, n)
  BY DEF HasRead
<1>2. /\ l.kind = "data" /\ l.addr = n * Row /\ Len(l.data) = Row
      /\ Span(0 + l.addr, l.data) = Cells(n)
  BY RowLineIs
<1>3. Put(Copy(mem, n), 0 + l.addr, l.data) = Copy(mem, n + 1)
  BY CopyStep
<1> HIDE DEF l
<1>4. ~BadRecord(l) /\ ~Overlaps(r, l)
  <2>1. DOMAIN r.mem = Covered(mem, n)
    BY <1>1 DEF Copy
  <2>2. Cells(n) \cap Covered(mem, n) = {}
    BY CoveredStep
  <2>3. ~Overlaps(r, l)
    BY <1>1, <1>2, <2>1, <2>2 DEF Overlaps
  <2> QED
    BY <1>2, <2>3 DEF BadRecord
<1>5. Taken(r, l) = HasRead(Copy(mem, n + 1))
  <2>1. Taken(r, l) = [r EXCEPT !.mem = Put(@, r.base + l.addr, l.data)]
    BY <1>2 DEF Taken
  <2>2. Put(r.mem, r.base + l.addr, l.data) = Copy(mem, n + 1)
    BY <1>1, <1>3
  <2> QED
    BY <2>1, <2>2 DEF HasRead
<1>6. BuildLine(r, l) = Taken(r, l)
  BY <1>1, <1>2, <1>4 DEF BuildLine, BuildRefuses
<1>7. ASSUME n * Row + Row <= BootStart PROVE StudioLine(r, l) = Taken(r, l)
  <2>1. r.base + l.addr + Len(l.data) = n * Row + Row /\ n * Row + Row \in Nat
    BY <1>1, <1>2, RowFacts
  <2>2. ~(r.base + l.addr + Len(l.data) > BootStart)
    BY <1>7, <2>1, Layout
  <2> QED
    BY <1>1, <1>2, <1>4, <2>2 DEF StudioLine, StudioRefuses
<1> QED
  BY <1>5, <1>6, <1>7 DEF l

LEMMA RowTakenByTool ==
  ASSUME NEW mem, NEW n \in Nat, NEW t \in Tools, t.ok, t.base = 0,
         n * Row + Row <= FlashEnd
  PROVE  LET u == ToolLine(t, RowLine(mem, n))
         IN /\ u \in Tools /\ u.ok /\ u.base = 0
            /\ u.app = (t.app \/ n = 0)
            /\ u.boot = (t.boot \/ n * Row + Row > BootStart)
<1> DEFINE l == RowLine(mem, n)
           u == ToolLine(t, l)
           start == n * Row
<1>1. l.kind = "data" /\ l.addr = start /\ Len(l.data) = Row /\ l.data # <<>>
  BY RowLineIs
<1>2. start \in Nat /\ Row \in Nat /\ Row >= 2
  BY RowFacts
<1>3. start = 0 <=> n = 0
  <2>1. n # 0 => 0 * Row + Row <= n * Row
    BY RowsApart
  <2> QED
    BY <1>2, <2>1, RowFacts
<1> HIDE DEF l, start
<1>4. Start(t, l) = start /\ End(t, l) = start + Row
  <2>1. \A w \in Nat : \A x \in 0 .. w - 1 : x % w = x
    OBVIOUS
  <2>2. start \in 0 .. Word - 1 /\ start + Row \in 0 .. Word - 1
    BY <1>2, Layout DEF start
  <2>3. start % Word = start /\ (start + Row) % Word = start + Row
    BY <2>1, <2>2, Layout
  <2> QED
    BY <1>1, <1>2, <2>3 DEF Start, End
<1>5. ~(End(t, l) > FlashEnd) /\ start < FlashEnd
  BY <1>2, <1>4, Layout DEF start
<1>6. InBoot(t, l) <=> start + Row > BootStart
  BY <1>4, <1>5 DEF InBoot
<1>7. u = [t EXCEPT !.app = @ \/ (Start(t, l) = 0 /\ l.data # <<>>), !.boot = @ \/ InBoot(t, l)]
  BY <1>1, <1>5 DEF ToolLine
<1>8. u \in Tools /\ u.ok = t.ok /\ u.base = t.base
  <2>1. (t.app \/ (Start(t, l) = 0 /\ l.data # <<>>)) \in BOOLEAN /\ (t.boot \/ InBoot(t, l)) \in BOOLEAN
    OBVIOUS
  <2> QED
    BY <1>7, <2>1 DEF Tools
<1>9. u.app = (t.app \/ (Start(t, l) = 0 /\ l.data # <<>>)) /\ u.boot = (t.boot \/ InBoot(t, l))
  BY <1>7 DEF Tools
<1>10. u.app = (t.app \/ n = 0)
  <2>1. (Start(t, l) = 0 /\ l.data # <<>>) <=> n = 0
    BY <1>1, <1>3, <1>4
  <2> QED
    BY <1>9, <2>1
<1>11. u.boot = (t.boot \/ n * Row + Row > BootStart)
  BY <1>6, <1>9 DEF start
<1> QED
  BY <1>8, <1>10, <1>11 DEF l

LEMMA RowsReadStep ==
  ASSUME NEW mem, NEW n \in Nat, NEW r, RowsRead(r, mem, n), (n + 1) * Row <= FlashEnd
  PROVE  RowsRead(IF HoldsData(mem, n) THEN AllLine(r, RowLine(mem, n)) ELSE r, mem, n + 1)
<1> DEFINE l == RowLine(mem, n)
           InSection(k) == HoldsData(mem, k) /\ k * Row + Row > BootStart
<1>1. /\ n * Row \in Nat /\ (n + 1) * Row = n * Row + Row /\ Row \in Nat
      /\ 0 .. (n + 1) - 1 = (0 .. n - 1) \cup {n}
  BY RowFacts
<1>2. (n + 1) * Row <= BootStart => n * Row <= BootStart
  BY <1>1, Layout
<1>3. CASE ~HoldsData(mem, n)
  <2>1. Copy(mem, n + 1) = Copy(mem, n)
    BY <1>3, CopyStep
  <2>2. n + 1 > 0 /\ HoldsData(mem, 0) => n > 0
    BY <1>3
  <2>3. (\E k \in 0 .. (n + 1) - 1 : InSection(k)) => (\E k \in 0 .. n - 1 : InSection(k))
    BY <1>1, <1>3
  <2> QED
    BY <1>2, <1>3, <2>1, <2>2, <2>3 DEF RowsRead
<1>4. CASE HoldsData(mem, n)
  <2> DEFINE next == AllLine(r, l)
             u == ToolLine(r.tool, l)
  <2>1. next.build = BuildLine(r.build, l) /\ next.studio = StudioLine(r.studio, l) /\ next.tool = u
    BY DEF AllLine
  <2>2. next.build = HasRead(Copy(mem, n + 1))
    BY <1>4, <2>1, RowTakenByBuild DEF RowsRead
  <2>3. (n + 1) * Row <= BootStart => next.studio = next.build
    <3>1. (n + 1) * Row <= BootStart =>
            r.studio = r.build /\ StudioLine(r.build, l) = BuildLine(r.build, l)
      BY <1>1, <1>2, <1>4, RowTakenByBuild DEF RowsRead
    <3> QED
      BY <2>1, <3>1
  <2>4. /\ u \in Tools /\ u.ok /\ u.base = 0
        /\ u.app = (r.tool.app \/ n = 0)
        /\ u.boot = (r.tool.boot \/ n * Row + Row > BootStart)
    <3>1. r.tool \in Tools /\ r.tool.ok /\ r.tool.base = 0
      BY DEF RowsRead
    <3>2. n * Row + Row <= FlashEnd
      BY <1>1
    <3> QED
      BY <3>1, <3>2, RowTakenByTool
  <2>5. n + 1 > 0 /\ HoldsData(mem, 0) => u.app
    <3>1. n > 0 \/ n = 0
      OBVIOUS
    <3> QED
      BY <2>4, <3>1 DEF RowsRead
  <2>6. (\E k \in 0 .. (n + 1) - 1 : InSection(k)) => u.boot
    <3>1. ASSUME NEW k \in 0 .. (n + 1) - 1, InSection(k) PROVE u.boot
      <4>1. CASE k = n
        BY <2>4, <3>1, <4>1
      <4>2. CASE k \in 0 .. n - 1
        BY <2>4, <3>1, <4>2 DEF RowsRead
      <4> QED
        BY <1>1, <4>1, <4>2
    <3> QED
      BY <3>1
  <2> HIDE DEF u, next
  <2>7. RowsRead(next, mem, n + 1)
    BY <2>1, <2>2, <2>3, <2>4, <2>5, <2>6 DEF RowsRead
  <2> QED
    BY <1>4, <2>7 DEF next
<1> QED
  BY <1>3, <1>4

\* A memory below the end of the flash, written and read again.
LEMMA WrittenAndRead ==
  ASSUME NEW mem, DOMAIN mem \subseteq 0 .. FlashEnd - 1, DOMAIN mem # {}
  PROVE  LET r == Reading(WriteHex(mem))
         IN /\ r.build.ok /\ r.build.eof /\ DOMAIN mem \subseteq DOMAIN r.build.mem
            /\ \A row \in Nat : HoldsData(mem, row) => Cells(row) \subseteq DOMAIN r.build.mem
            /\ \A a : At(r.build.mem, a) = At(mem, a)
            /\ (\A a \in DOMAIN mem : a < BootStart) => r.studio = r.build
            /\ r.tool.ok /\ r.tool.eof
            /\ 0 \in DOMAIN mem => r.tool.app
            /\ (\E a \in DOMAIN mem : a >= BootStart) => r.tool.boot
<1> DEFINE m == RowCount(mem)
           S == {EofLine} \cup {RowLine(mem, n) : n \in Nat}
<1>1. /\ Highest(mem) \in DOMAIN mem /\ Highest(mem) \in 0 .. FlashEnd - 1
      /\ \A a \in DOMAIN mem : a <= Highest(mem) /\ a \in Nat
  <2>1. DOMAIN mem \subseteq Nat /\ FlashEnd \in Nat /\ \A a \in DOMAIN mem : a <= FlashEnd
    BY Layout
  <2> QED
    BY <2>1, HighestIs
<1>2. /\ m \in Nat /\ m > 0 /\ m * Row <= FlashEnd
      /\ Highest(mem) < BootStart => m * Row <= BootStart
  <2>1. Highest(mem) \in Nat /\ Highest(mem) < FlashEnd /\ FlashEnd \in Nat /\ BootStart \in Nat
    BY <1>1, Layout
  <2> QED
    BY <2>1, RowOf, RowFacts, WholeRows DEF RowCount
<1>3. PICK g : /\ WriteHex(mem) = Append(g[m], EofLine) /\ g[0] = <<>>
               /\ \A n \in 0 .. m - 1 :
                    g[n + 1] = IF HoldsData(mem, n) THEN Append(g[n], RowLine(mem, n)) ELSE g[n]
  BY <1>1, WritingSteps
<1> HIDE DEF m
<1> DEFINE Z == {n \in Nat : n <= m => g[n] \in Seq(S) /\ RowsRead(Reading(g[n]), mem, n)}
<1>4. 0 \in Z
  <2>1. g[0] \in Seq(S)
    BY <1>3
  <2>2. RowsRead(Reading(g[0]), mem, 0)
    BY <1>3, ReadingEmpty, RowsReadFirst
  <2> QED
    BY <2>1, <2>2
<1>5. ASSUME NEW n \in Nat, n \in Z PROVE n + 1 \in Z
  <2>1. SUFFICES ASSUME n + 1 <= m
                 PROVE  g[n + 1] \in Seq(S) /\ RowsRead(Reading(g[n + 1]), mem, n + 1)
    OBVIOUS
  <2>2. n \in 0 .. m - 1 /\ n <= m
    BY <1>2, <2>1
  <2>3. g[n] \in Seq(S) /\ RowsRead(Reading(g[n]), mem, n)
    BY <1>5, <2>2
  <2>4. (n + 1) * Row <= FlashEnd
    <3>1. n + 1 < m => (n + 1) * Row + Row <= m * Row
      BY <1>2, RowsApart
    <3>2. (n + 1) * Row \in Nat /\ m * Row \in Nat /\ Row \in Nat /\ FlashEnd \in Nat
      BY <1>2, RowFacts, Layout
    <3>3. n + 1 = m \/ n + 1 < m
      BY <1>2, <2>1
    <3> QED
      BY <1>2, <3>1, <3>2, <3>3
  <2>5. g[n + 1] = IF HoldsData(mem, n) THEN Append(g[n], RowLine(mem, n)) ELSE g[n]
    BY <1>3, <2>2
  <2>6. RowLine(mem, n) \in S
    OBVIOUS
  <2> HIDE DEF S
  <2>7. g[n + 1] \in Seq(S)
    BY <2>3, <2>5, <2>6
  <2>8. Reading(g[n + 1]) = IF HoldsData(mem, n) THEN AllLine(Reading(g[n]), RowLine(mem, n))
                            ELSE Reading(g[n])
    BY <2>3, <2>5, <2>6, ReadingAppend
  <2> QED
    BY <2>3, <2>4, <2>7, <2>8, RowsReadStep
<1> HIDE DEF Z
<1>6. m \in Z
  BY <1>2, <1>4, <1>5, SetInduction
<1> DEFINE rows == Reading(g[m])
           r == Reading(WriteHex(mem))
<1>7. g[m] \in Seq(S) /\ RowsRead(rows, mem, m)
  BY <1>2, <1>6 DEF Z
<1>8. r = AllLine(rows, EofLine)
  <2>1. EofLine \in S
    OBVIOUS
  <2> HIDE DEF S
  <2> QED
    BY <1>3, <1>7, <2>1, ReadingAppend
<1> HIDE DEF rows, r
<1>9. /\ EofLine.kind = "eof" /\ ~BadRecord(EofLine)
  BY DEF EofLine, BadRecord
<1>10. r.build = [rows.build EXCEPT !.eof = TRUE]
  <2>1. rows.build.ok /\ ~rows.build.eof
    BY <1>7 DEF RowsRead, HasRead
  <2> QED
    BY <1>8, <1>9, <2>1 DEF AllLine, BuildLine, BuildRefuses, Taken
<1>11. r.build.ok /\ r.build.eof /\ r.build.mem = Copy(mem, m)
  BY <1>7, <1>10 DEF RowsRead, HasRead
<1>12. (\A a \in DOMAIN mem : a < BootStart) => r.studio = r.build
  <2>1. SUFFICES ASSUME \A a \in DOMAIN mem : a < BootStart PROVE r.studio = r.build
    OBVIOUS
  <2>2. rows.studio = rows.build
    BY <1>1, <1>2, <1>7, <2>1 DEF RowsRead
  <2>3. rows.build.ok /\ ~rows.build.eof
    BY <1>7 DEF RowsRead, HasRead
  <2> QED
    BY <1>8, <1>9, <1>10, <2>2, <2>3 DEF AllLine, StudioLine, StudioRefuses, Taken
<1>13. r.tool = [rows.tool EXCEPT !.eof = TRUE] /\ rows.tool \in Tools
  BY <1>7, <1>8, <1>9 DEF RowsRead, AllLine, ToolLine
<1>14. /\ r.tool.ok /\ r.tool.eof /\ r.tool.app = rows.tool.app /\ r.tool.boot = rows.tool.boot
  BY <1>7, <1>13 DEF RowsRead, Tools
<1>15. 0 \in DOMAIN mem => r.tool.app
  <2>1. SUFFICES ASSUME 0 \in DOMAIN mem PROVE rows.tool.app
    BY <1>14
  <2>2. 0 \in Cells(0)
    BY RowFacts DEF Cells
  <2>3. HoldsData(mem, 0)
    BY <2>1, <2>2 DEF HoldsData
  <2> QED
    BY <1>2, <1>7, <2>3 DEF RowsRead
<1>16. DOMAIN mem \subseteq Covered(mem, m)
  BY <1>1, CopyIsWhole DEF m
<1>17. (\E a \in DOMAIN mem : a >= BootStart) => r.tool.boot
  <2>1. SUFFICES ASSUME NEW a \in DOMAIN mem, a >= BootStart PROVE rows.tool.boot
    BY <1>14
  <2>2. PICK k \in 0 .. m - 1 : HoldsData(mem, k) /\ a \in Cells(k)
    BY <1>16 DEF Covered
  <2>3. k * Row \in Nat
    BY RowFacts
  <2>4. k * Row + Row > BootStart
    BY <2>1, <2>2, <2>3, RowFacts, Layout DEF Cells
  <2> QED
    BY <1>7, <2>2, <2>4 DEF RowsRead
<1>18. \A a : At(r.build.mem, a) = At(mem, a)
  BY <1>1, <1>11, CopyIsWhole DEF m
<1>19. DOMAIN r.build.mem = Covered(mem, m)
  BY <1>11 DEF Copy
<1>20. ASSUME NEW row \in Nat, HoldsData(mem, row) PROVE Cells(row) \subseteq Covered(mem, m)
  <2>1. PICK a \in DOMAIN mem : a \in Cells(row)
    BY <1>20 DEF HoldsData
  <2>2. PICK k \in 0 .. m - 1 : HoldsData(mem, k) /\ a \in Cells(k)
    BY <1>16 DEF Covered
  <2>3. row = k
    <3>1. row * Row \in Nat /\ k * Row \in Nat /\ k \in Nat /\ a \in Nat
      BY <1>1, RowFacts
    <3>2. row < k => row * Row + Row <= k * Row
      BY <3>1, RowsApart
    <3>3. k < row => k * Row + Row <= row * Row
      BY <3>1, RowsApart
    <3>4. a \in row * Row .. row * Row + Row - 1 /\ a \in k * Row .. k * Row + Row - 1
      BY <2>1, <2>2 DEF Cells
    <3>5. ~(row < k) /\ ~(k < row)
      BY <3>1, <3>2, <3>3, <3>4, RowFacts
    <3> QED
      BY <3>1, <3>5
  <2>4. Cells(row) \subseteq Nat
    <3>1. row * Row \in Nat
      BY RowFacts
    <3> QED
      BY <3>1, RowFacts DEF Cells
  <2> QED
    BY <2>2, <2>3, <2>4 DEF Covered
<1> QED
  BY <1>11, <1>12, <1>14, <1>15, <1>16, <1>17, <1>18, <1>19, <1>20 DEF r

-----------------------------------------------------------------------------
(***************************************************************************)
(* What the build writes.                                                  *)
(***************************************************************************)

LEMMA MemoryType ==
  ASSUME NEW mem \in Memories
  PROVE  DOMAIN mem \subseteq Nat /\ \A a \in DOMAIN mem : mem[a] \in Nat
BY DEF Memories

LEMMA HighestOf ==
  ASSUME NEW mem \in Memories, Bounded(mem), DOMAIN mem # {}
  PROVE  /\ Highest(mem) \in DOMAIN mem /\ Highest(mem) \in Nat
         /\ \A a \in DOMAIN mem : a \in Nat /\ a <= Highest(mem)
<1>1. DOMAIN mem \subseteq Nat
  BY MemoryType
<1>2. PICK n \in Nat : DOMAIN mem \subseteq 0 .. n
  BY DEF Bounded
<1>3. \A a \in DOMAIN mem : a <= n
  BY <1>2
<1> QED
  BY <1>1, <1>3, HighestIs

\* A memory and its manifest.
LEMMA StampedIs ==
  ASSUME NEW mem \in Memories, Bounded(mem), CanStamp(mem)
  PROVE  LET full == Stamped(mem)
             length == Highest(mem) + 1
         IN /\ DOMAIN full = DOMAIN mem \cup ManifestAt .. BootStart - 1
            /\ DOMAIN mem \subseteq 0 .. ManifestAt - 1
            /\ full[ManifestAt] = Magic /\ full[ManifestAt + 1] = Protocol
            /\ full[ManifestAt + 2] = length
            /\ full[ManifestAt + 3] = Crc(Bytes(mem, length))
            /\ \A a \in 0 .. ManifestAt - 1 : At(full, a) = At(mem, a)
            /\ length \in 2 .. ManifestAt
            /\ \A a \in length .. ManifestAt - 1 : At(mem, a) = FF
<1> DEFINE full == Stamped(mem)
           length == Highest(mem) + 1
           data == <<Magic, Protocol, length, Crc(Bytes(mem, length))>>
<1>1. /\ Highest(mem) \in DOMAIN mem /\ Highest(mem) \in Nat
      /\ \A a \in DOMAIN mem : a \in Nat /\ a <= Highest(mem)
  BY HighestOf DEF CanStamp
<1>2. Highest(mem) < ManifestAt /\ length >= 2
  BY DEF CanStamp
<1>3. length \in 2 .. ManifestAt /\ DOMAIN mem \subseteq 0 .. ManifestAt - 1
  BY <1>1, <1>2, Layout
<1>4. Span(ManifestAt, data) = ManifestAt .. BootStart - 1
  <2>1. Len(data) = 4
    OBVIOUS
  <2> HIDE DEF data
  <2> QED
    BY <2>1, Layout DEF Span
<1>5. full = [a \in DOMAIN mem \cup ManifestAt .. BootStart - 1 |->
                IF a \in ManifestAt .. BootStart - 1 THEN data[a - ManifestAt + 1] ELSE mem[a]]
  BY <1>4 DEF Stamped, Put
<1>6. /\ data[1] = Magic /\ data[2] = Protocol /\ data[3] = length
      /\ data[4] = Crc(Bytes(mem, length))
  OBVIOUS
<1> HIDE DEF full, data, length
<1>7. \A i \in 0 .. 3 : ManifestAt + i \in ManifestAt .. BootStart - 1
                        /\ (ManifestAt + i) - ManifestAt + 1 = i + 1
  BY Layout
<1>8. \A i \in 0 .. 3 : full[ManifestAt + i] = data[i + 1]
  BY <1>5, <1>7
<1>9. full[ManifestAt] = data[1]
  <2>1. ManifestAt + 0 = ManifestAt
    BY Layout
  <2> QED
    BY <1>8, <2>1
<1>10. \A a \in 0 .. ManifestAt - 1 : At(full, a) = At(mem, a)
  <2>1. \A a \in 0 .. ManifestAt - 1 : a \notin ManifestAt .. BootStart - 1
    BY Layout
  <2> QED
    BY <1>5, <2>1 DEF At
<1>11. \A a \in length .. ManifestAt - 1 : a \notin DOMAIN mem
  BY <1>1, <1>3 DEF length
<1>12. \A a \in length .. ManifestAt - 1 : At(mem, a) = FF
  BY <1>11 DEF At
<1>13. DOMAIN full = DOMAIN mem \cup ManifestAt .. BootStart - 1
  BY <1>5
<1>14. full[ManifestAt + 1] = data[2] /\ full[ManifestAt + 2] = data[3] /\ full[ManifestAt + 3] = data[4]
  BY <1>8
<1> QED
  BY <1>3, <1>6, <1>9, <1>10, <1>12, <1>13, <1>14 DEF full, length

\* Whatever application the linker has left, once it is stamped and written:
\* Studio accepts the file, the bootloader starts what it holds, and every byte
\* is where it was (application_image.py:21-41, hex_image.py:38-50).
THEOREM AnyStampedIsAccepted ==
  ASSUME NEW mem \in Memories, Bounded(mem), CanStamp(mem)
  PROVE  LET r == Reading(WriteHex(Stamped(mem))).studio
         IN /\ StudioAccepts(r) /\ ApplicationIsValid(Flashed(r.mem))
            /\ \A a \in 0 .. ManifestAt - 1 : At(r.mem, a) = At(mem, a)
<1> DEFINE full == Stamped(mem)
           length == Highest(mem) + 1
           read == Reading(WriteHex(full))
           r == read.studio
<1>1. /\ DOMAIN full = DOMAIN mem \cup ManifestAt .. BootStart - 1
      /\ DOMAIN mem \subseteq 0 .. ManifestAt - 1
      /\ full[ManifestAt] = Magic /\ full[ManifestAt + 1] = Protocol
      /\ full[ManifestAt + 2] = length
      /\ full[ManifestAt + 3] = Crc(Bytes(mem, length))
      /\ \A a \in 0 .. ManifestAt - 1 : At(full, a) = At(mem, a)
      /\ length \in 2 .. ManifestAt
      /\ \A a \in length .. ManifestAt - 1 : At(mem, a) = FF
  BY StampedIs
<1>2. 0 \in DOMAIN mem /\ ~(At(mem, 0) = FF /\ At(mem, 1) = FF)
  BY DEF CanStamp
<1> HIDE DEF full, length
<1>3. DOMAIN full \subseteq 0 .. FlashEnd - 1 /\ DOMAIN full # {} /\ \A a \in DOMAIN full : a < BootStart
  BY <1>1, <1>2, Layout
<1>4. /\ read.build.ok /\ read.build.eof /\ DOMAIN full \subseteq DOMAIN read.build.mem
      /\ \A row \in Nat : HoldsData(full, row) => Cells(row) \subseteq DOMAIN read.build.mem
      /\ \A a : At(read.build.mem, a) = At(full, a)
      /\ r = read.build
  BY <1>3, WrittenAndRead
<1> HIDE DEF read
<1>5. {0, 1} \subseteq DOMAIN r.mem
  <2>1. Cells(0) = 0 .. Row - 1 /\ {0, 1} \subseteq 0 .. Row - 1
    BY RowFacts DEF Cells
  <2>2. HoldsData(full, 0)
    BY <1>1, <1>2, <2>1 DEF HoldsData
  <2> QED
    BY <1>4, <2>1, <2>2
<1>6. \A a \in 0 .. ManifestAt - 1 : At(r.mem, a) = At(mem, a)
  BY <1>1, <1>4
<1>7. ResetVector(r.mem)
  <2>1. 0 \in 0 .. ManifestAt - 1 /\ 1 \in 0 .. ManifestAt - 1
    BY Layout
  <2> QED
    BY <1>2, <1>5, <1>6, <2>1 DEF ResetVector, At
<1>8. ManifestAt .. BootStart - 1 \subseteq DOMAIN r.mem
  BY <1>1, <1>4
<1>9. \A i \in 0 .. 3 : r.mem[ManifestAt + i] = full[ManifestAt + i]
  <2>1. \A i \in 0 .. 3 : ManifestAt + i \in ManifestAt .. BootStart - 1
    BY Layout
  <2>2. \A i \in 0 .. 3 : ManifestAt + i \in DOMAIN r.mem /\ ManifestAt + i \in DOMAIN full
    BY <1>1, <1>8, <2>1
  <2> QED
    BY <1>4, <2>2 DEF At
<1>10. /\ r.mem[ManifestAt] = Magic /\ r.mem[ManifestAt + 1] = Protocol
       /\ At(r.mem, ManifestAt + 2) = length
       /\ At(r.mem, ManifestAt + 3) = Crc(Bytes(mem, length))
  <2>1. ManifestAt + 0 = ManifestAt
    BY Layout
  <2>2. ManifestAt + 2 \in DOMAIN r.mem /\ ManifestAt + 3 \in DOMAIN r.mem
    BY <1>8, Layout
  <2> QED
    BY <1>1, <1>9, <2>1, <2>2 DEF At
<1>11. Length(r.mem) = length /\ Sum(r.mem) = Crc(Bytes(mem, length))
  BY <1>10 DEF Length, Sum
<1>12. Bytes(r.mem, length) = Bytes(mem, length)
  <2>1. \A a \in 0 .. length - 1 : a \in 0 .. ManifestAt - 1
    BY <1>1, Layout
  <2> QED
    BY <1>6, <2>1 DEF Bytes
<1>13. \A a \in length .. ManifestAt - 1 : At(r.mem, a) = FF
  <2>1. \A a \in length .. ManifestAt - 1 : a \in 0 .. ManifestAt - 1
    BY <1>1, Layout
  <2> QED
    BY <1>1, <1>6, <2>1
<1>14. StudioChecks(r.mem)
  BY <1>1, <1>7, <1>8, <1>10, <1>11, <1>12, <1>13 DEF StudioChecks
<1>15. StudioAccepts(r)
  BY <1>4, <1>14 DEF StudioAccepts
<1> QED
  BY <1>6, <1>14, <1>15, ChecksAgree DEF read, full

\* The bootloader's check of a flash that holds a validated application.
LEMMA ValidateAgrees ==
  ASSUME NEW app, NEW mem, Validate(app), Length(app) \in Nat,
         \A a \in 0 .. BootStart - 1 : At(mem, a) = At(app, a)
  PROVE  ApplicationIsValid(Flashed(mem))
<1> DEFINE flash == Flashed(mem)
           n == Length(app)
<1>1. \A a \in 0 .. BootStart - 1 : flash[a] = At(app, a)
  BY DEF Flashed
<1>2. \A i \in {0, 1, 2, 3} : ManifestAt + i \in 0 .. BootStart - 1
  BY Layout
<1>3. /\ flash[ManifestAt] = Magic /\ flash[ManifestAt + 1] = Protocol
      /\ flash[ManifestAt + 2] = n /\ flash[ManifestAt + 3] = Sum(app)
  <2>1. ManifestAt + 0 = ManifestAt
    BY Layout
  <2>2. /\ flash[ManifestAt] = At(app, ManifestAt) /\ flash[ManifestAt + 1] = At(app, ManifestAt + 1)
        /\ flash[ManifestAt + 2] = At(app, ManifestAt + 2)
        /\ flash[ManifestAt + 3] = At(app, ManifestAt + 3)
    BY <1>1, <1>2, <2>1
  <2> QED
    BY <2>2 DEF Validate, Length, Sum
<1>4. n >= 2 /\ n <= ManifestAt /\ n \in Nat
  BY DEF Validate
<1>5. [a \in 0 .. n - 1 |-> flash[a]] = Bytes(app, n)
  <2>1. \A a \in 0 .. n - 1 : a \in 0 .. BootStart - 1
    BY <1>4, Layout
  <2> HIDE DEF flash, n
  <2> QED
    BY <1>1, <2>1 DEF Bytes
<1>6. \A a \in n .. ManifestAt - 1 : flash[a] = FF
  <2>1. \A a \in n .. ManifestAt - 1 : a \in 0 .. BootStart - 1
    BY <1>4, Layout
  <2>2. \A a \in n .. ManifestAt - 1 : At(app, a) = FF
    BY DEF Validate
  <2> HIDE DEF flash, n
  <2> QED
    BY <1>1, <2>1, <2>2
<1>7. Crc([a \in 0 .. n - 1 |-> flash[a]]) = Sum(app)
  BY <1>5 DEF Validate
<1> HIDE DEF flash, n
<1> QED
  BY <1>3, <1>4, <1>6, <1>7 DEF ApplicationIsValid, flash

\* Whatever application and bootloader the build combines: the preparation tool
\* accepts the file, and the chip then has an application that starts and the
\* bootloader as it is (hex_image.py:53-62, main.cpp:267-308 of the tool).
THEOREM AnyFactoryImageIsAccepted ==
  ASSUME NEW mem \in Memories, Bounded(mem), NEW boot, CanCombine(mem, boot)
  PROVE  LET read == Reading(WriteHex(Combined(mem, boot)))
         IN /\ ToolAccepts(read.tool) /\ ReadHex(read.build)
            /\ ApplicationIsValid(Flashed(read.build.mem))
            /\ \A a \in BootStart .. FlashEnd - 1 : At(read.build.mem, a) = At(boot, a)
<1> DEFINE full == Combined(mem, boot)
           read == Reading(WriteHex(full))
<1>1. /\ Validate(mem) /\ 0 \in DOMAIN mem /\ Highest(mem) < BootStart
      /\ BootStart \in DOMAIN boot /\ DOMAIN boot \subseteq BootStart .. FlashEnd - 1
  BY DEF CanCombine
<1>2. DOMAIN mem \subseteq 0 .. BootStart - 1
  BY <1>1, HighestOf, Layout
<1>3. full = [a \in DOMAIN mem \cup DOMAIN boot |-> IF a \in DOMAIN boot THEN boot[a] ELSE mem[a]]
  BY DEF Combined
<1> HIDE DEF full
<1>4. /\ DOMAIN full = DOMAIN mem \cup DOMAIN boot
      /\ DOMAIN full \subseteq 0 .. FlashEnd - 1 /\ DOMAIN full # {}
  BY <1>1, <1>2, <1>3, Layout
<1>5. /\ read.build.ok /\ read.build.eof /\ DOMAIN full \subseteq DOMAIN read.build.mem
      /\ \A a : At(read.build.mem, a) = At(full, a)
      /\ read.tool.ok /\ read.tool.eof
      /\ 0 \in DOMAIN full => read.tool.app
      /\ (\E a \in DOMAIN full : a >= BootStart) => read.tool.boot
  BY <1>4, WrittenAndRead
<1> HIDE DEF read
<1>6. ToolAccepts(read.tool) /\ ReadHex(read.build)
  <2>1. BootStart \in DOMAIN full /\ BootStart >= BootStart /\ 0 \in DOMAIN full
    BY <1>1, <1>4, Layout
  <2> QED
    BY <1>5, <2>1 DEF ToolAccepts, ReadHex
<1>7. \A a \in 0 .. BootStart - 1 : At(read.build.mem, a) = At(mem, a)
  <2>1. \A a \in 0 .. BootStart - 1 : a \notin DOMAIN boot
    BY <1>1, Layout
  <2>2. \A a \in 0 .. BootStart - 1 : At(full, a) = At(mem, a)
    BY <1>3, <2>1 DEF At
  <2> QED
    BY <1>5, <2>2
<1>8. \A a \in BootStart .. FlashEnd - 1 : At(read.build.mem, a) = At(boot, a)
  <2>1. \A a \in BootStart .. FlashEnd - 1 : a \notin DOMAIN mem
    BY <1>2, Layout
  <2>2. \A a \in BootStart .. FlashEnd - 1 : At(full, a) = At(boot, a)
    BY <1>3, <2>1 DEF At
  <2> QED
    BY <1>5, <2>2
<1>9. Length(mem) \in Nat
  BY MemoryType, Layout DEF Length, At
<1>10. ApplicationIsValid(Flashed(read.build.mem))
  BY <1>1, <1>7, <1>9, ValidateAgrees
<1> QED
  BY <1>6, <1>8, <1>10 DEF read, full

\* What the build stamps and writes, Studio accepts and the bootloader starts,
\* for every file the build can read.
THEOREM StampedIsAccepted == Spec => []StampedAccepted
<1>1. ImageInv => StampedAccepted
  BY AnyStampedIsAccepted DEF ImageInv, Readers, StampedAccepted
<1> QED
  BY <1>1, ImageInvariant, PTL

\* What the build combines, the preparation tool accepts, and the chip then starts,
\* for every file the build can read.
THEOREM FactoryIsAccepted == Spec => []FactoryAccepted
<1>1. ImageInv => FactoryAccepted
  BY AnyFactoryImageIsAccepted DEF ImageInv, Readers, FactoryAccepted
<1> QED
  BY <1>1, ImageInvariant, PTL
=============================================================================
