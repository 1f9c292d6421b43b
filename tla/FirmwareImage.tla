---------------------------- MODULE FirmwareImage ----------------------------
(***************************************************************************)
(* A firmware image in Intel HEX and everybody who judges it: the build    *)
(* that stamps a manifest on it (firmware/tools), Studio that checks it    *)
(* before an upload (firmwareupdater.cpp), the preparation tool that       *)
(* checks a factory image, and the bootloader that checks the flash before *)
(* it starts the application.  A file is read line by line by all of them  *)
(* at once, each with its own rules; nobody sees the others' verdicts.     *)
(*                                                                         *)
(* A byte is a natural number, and so are the manifest's fields, each one  *)
(* cell long: magic and format, protocol, length, CRC.                     *)
(***************************************************************************)
EXTENDS Integers, FiniteSets, Sequences

CONSTANTS
  ManifestAt,      \* MANIFEST_ADDRESS
  BootSize,        \* bytes of the boot section
  Row,             \* bytes of a row that write_hex writes; it holds the reset vector
  Space, Word,     \* 2^16 and 2^32: the ranges of an address and of its sums
  FF,              \* an erased byte
  Magic, Protocol, \* what a manifest must begin with
  Crc(_),          \* the CRC of the bytes 0 .. n - 1
  Lines            \* the lines a file may have

ManifestSize == 4
BootStart == ManifestAt + ManifestSize
FlashEnd  == BootStart + BootSize
Kinds == {"data", "eof", "base", "start", "other", "bad"}

ASSUME ImageAssumption ==
  /\ ManifestAt \in Nat /\ ManifestAt >= 2 /\ BootSize \in Nat \ {0}
  /\ Row \in Nat /\ Row >= 2 /\ BootStart % Row = 0 /\ FlashEnd % Row = 0
  /\ Space \in Nat /\ Word \in Nat /\ FlashEnd <= Space /\ Space < Word
  /\ FF \in Nat /\ Magic \in Nat /\ Protocol \in Nat
  /\ Lines \subseteq [kind : Kinds, addr : 0 .. Space - 1, base : 0 .. Word - 1, data : Seq(Nat)]

VARIABLES
  studio, build,   \* what validate_application_hex and read_hex have read
  tool,            \* what validate_combined_image has noticed
  image            \* what avrdude takes from the file

vars == <<studio, build, tool, image>>

\* A memory is a function from the addresses that hold data.
Nothing == [a \in {} |-> FF]
At(mem, a) == IF a \in DOMAIN mem THEN mem[a] ELSE FF
Bytes(mem, n) == [a \in 0 .. n - 1 |-> At(mem, a)]
Span(start, data) == start .. start + Len(data) - 1
Put(mem, start, data) ==
  [a \in DOMAIN mem \cup Span(start, data) |->
     IF a \in Span(start, data) THEN data[a - start + 1] ELSE mem[a]]

Unread == [ok |-> TRUE, base |-> 0, eof |-> FALSE, mem |-> Nothing]
Refused == [Unread EXCEPT !.ok = FALSE]
Unnoticed == [ok |-> TRUE, base |-> 0, eof |-> FALSE, app |-> FALSE, boot |-> FALSE]

\* How a reader takes the contents of a line that it does not refuse.
Taken(r, l) ==
  CASE l.kind = "data" -> [r EXCEPT !.mem = Put(@, r.base + l.addr, l.data)]
    [] l.kind = "eof"  -> [r EXCEPT !.eof = TRUE]
    [] l.kind = "base" -> [r EXCEPT !.base = l.base]
    [] OTHER           -> r

-----------------------------------------------------------------------------
\* Framing, checksum and lengths of a record.  "other" is a record of a type
\* that Studio and the build do not know.
BadRecord(l) ==
  \/ l.kind \in {"bad", "other"}
  \/ l.kind # "data" /\ l.addr # 0
  \/ l.kind = "eof" /\ l.data # <<>>

Overlaps(r, l) == Span(r.base + l.addr, l.data) \cap DOMAIN r.mem # {}

\* One line in validate_application_hex.
StudioRefuses(r, l) ==
  \/ r.eof
  \/ BadRecord(l)
  \/ l.kind = "data" /\ (r.base + l.addr + Len(l.data) > BootStart \/ Overlaps(r, l))
StudioLine(r, l) ==
  IF ~r.ok \/ StudioRefuses(r, l) THEN Refused ELSE Taken(r, l)

\* One line in read_hex.
BuildRefuses(r, l) ==
  \/ r.eof
  \/ BadRecord(l)
  \/ l.kind = "data" /\ Overlaps(r, l)
BuildLine(r, l) ==
  IF ~r.ok \/ BuildRefuses(r, l) THEN Refused ELSE Taken(r, l)

\* One line in validate_combined_image: sums wrap at 2^32, a record of another
\* type or with another length is passed over, reading goes on after the end.
Start(t, l) == (t.base + l.addr) % Word
End(t, l) == (Start(t, l) + Len(l.data)) % Word
AtBoot(t, l) ==   \* mutant: ends where the bootloader begins
  Start(t, l) < FlashEnd /\ End(t, l) >= BootStart
InBoot(t, l) == Start(t, l) < FlashEnd /\ End(t, l) > BootStart
ToolLine(t, l) ==
  IF ~t.ok \/ l.kind = "bad" \/ (l.kind = "data" /\ End(t, l) > FlashEnd)
  THEN [Unnoticed EXCEPT !.ok = FALSE]
  ELSE CASE l.kind = "data" -> [t EXCEPT !.app  = @ \/ (Start(t, l) = 0 /\ l.data # <<>>),
                                         !.boot = @ \/ InBoot(t, l)]
         [] l.kind = "eof"  -> [t EXCEPT !.eof = TRUE]
         [] l.kind = "base" -> [t EXCEPT !.base = l.base]
         [] OTHER           -> t

\* avrdude: later records win, nothing is read after the end.
AvrdudeLine(r, l) == IF r.eof THEN r ELSE Taken(r, l)

Init ==
  /\ studio = Unread /\ build = Unread /\ image = Unread
  /\ tool = Unnoticed

ReadLine(l) ==
  /\ studio' = StudioLine(studio, l)
  /\ build' = BuildLine(build, l)
  /\ tool' = ToolLine(tool, l)
  /\ image' = AvrdudeLine(image, l)

Next == \E l \in Lines : ReadLine(l)
Spec == Init /\ [][Next]_vars

-----------------------------------------------------------------------------
\* The manifest's length and CRC of a memory.
Length(mem) == At(mem, ManifestAt + 2)
Sum(mem) == At(mem, ManifestAt + 3)

\* The end of validate_application_hex.
ResetVector(mem) == {0, 1} \subseteq DOMAIN mem /\ ~(mem[0] = FF /\ mem[1] = FF)
StudioChecksNoPadding(mem) ==   \* mutant
  /\ ResetVector(mem)
  /\ ManifestAt .. BootStart - 1 \subseteq DOMAIN mem
  /\ mem[ManifestAt] = Magic /\ mem[ManifestAt + 1] = Protocol
  /\ Length(mem) \in 2 .. ManifestAt
  /\ Crc(Bytes(mem, Length(mem))) = Sum(mem)
StudioChecks(mem) ==
  /\ ResetVector(mem)
  /\ ManifestAt .. BootStart - 1 \subseteq DOMAIN mem
  /\ mem[ManifestAt] = Magic /\ mem[ManifestAt + 1] = Protocol
  /\ Length(mem) \in 2 .. ManifestAt
  /\ \A a \in Length(mem) .. ManifestAt - 1 : At(mem, a) = FF
  /\ Crc(Bytes(mem, Length(mem))) = Sum(mem)
StudioAccepts(r) == r.ok /\ r.eof /\ StudioChecks(r.mem)

\* The end of read_hex, and validate.
ReadHex(r) == r.ok /\ r.eof /\ DOMAIN r.mem # {}
Validate(mem) ==
  /\ \A i \in 0 .. ManifestSize - 1 : ManifestAt + i \in DOMAIN mem
  /\ At(mem, ManifestAt) = Magic /\ At(mem, ManifestAt + 1) = Protocol
  /\ Length(mem) >= 2 /\ Length(mem) <= ManifestAt
  /\ \A a \in Length(mem) .. ManifestAt - 1 : At(mem, a) = FF
  /\ Crc(Bytes(mem, Length(mem))) = Sum(mem)

\* The end of validate_combined_image.
ToolAccepts(t) == t.ok /\ t.eof /\ t.app /\ t.boot

\* ApplicationIsValid, which knows the flash and nothing of the file.
ApplicationIsValid(flash) ==
  /\ flash[ManifestAt] = Magic /\ flash[ManifestAt + 1] = Protocol
  /\ LET length == flash[ManifestAt + 2]
     IN /\ length >= 2 /\ length <= ManifestAt
        /\ Crc([a \in 0 .. length - 1 |-> flash[a]]) = flash[ManifestAt + 3]
        /\ \A a \in length .. ManifestAt - 1 : flash[a] = FF

\* The application section after avrdude has erased it and written a memory.
Flashed(mem) == [a \in 0 .. BootStart - 1 |-> At(mem, a)]

-----------------------------------------------------------------------------
\* manifest_for: what it refuses, and the memory with its manifest (stamp).
Highest(mem) == CHOOSE a \in DOMAIN mem : \A b \in DOMAIN mem : b <= a
CanStampShort(mem) ==   \* mutant
  /\ 0 \in DOMAIN mem
  /\ Highest(mem) <= ManifestAt
  /\ Highest(mem) + 1 >= 2
  /\ ~(At(mem, 0) = FF /\ At(mem, 1) = FF)
CanStamp(mem) ==
  /\ 0 \in DOMAIN mem
  /\ Highest(mem) < ManifestAt
  /\ Highest(mem) + 1 >= 2
  /\ ~(At(mem, 0) = FF /\ At(mem, 1) = FF)
Stamped(mem) ==
  LET length == Highest(mem) + 1
  IN Put(mem, ManifestAt, <<Magic, Protocol, length, Crc(Bytes(mem, length))>>)

\* write_hex: the rows that hold data, filled up with FF.
DataLine(start, data) == [kind |-> "data", addr |-> start, base |-> 0, data |-> data]
EofLine == [kind |-> "eof", addr |-> 0, base |-> 0, data |-> <<>>]
RowLineBlank(mem, row) ==   \* mutant
  DataLine(row * Row, [i \in 1 .. Row |-> IF row * Row + i \in DOMAIN mem
                                          THEN mem[row * Row + i] ELSE FF])
RowLine(mem, row) == DataLine(row * Row, [i \in 1 .. Row |-> At(mem, row * Row + i - 1)])
Cells(row) == row * Row .. row * Row + Row - 1
\* write_hex, of a memory below 0x10000: read_hex yields no other one, so that the
\* refusal of higher addresses never happens.
HoldsData(mem, row) == Cells(row) \cap DOMAIN mem # {}
WriteHex(mem) ==
  LET rows == Highest(mem) \div Row + 1
      written[n \in 0 .. rows] ==
        IF n = 0 THEN <<>>
        ELSE IF HoldsData(mem, n - 1) THEN Append(written[n - 1], RowLine(mem, n - 1))
             ELSE written[n - 1]
  IN Append(written[rows], EofLine)

\* combine: the factory image of an application and a bootloader.
CombineNoCheck(app, boot) ==   \* mutant
  /\ 0 \in DOMAIN app
  /\ BootStart \in DOMAIN boot
CanCombine(app, boot) ==
  /\ Validate(app)
  /\ 0 \in DOMAIN app /\ Highest(app) < BootStart
  /\ BootStart \in DOMAIN boot /\ DOMAIN boot \subseteq BootStart .. FlashEnd - 1
Combined(app, boot) ==
  [a \in DOMAIN app \cup DOMAIN boot |-> IF a \in DOMAIN boot THEN boot[a] ELSE app[a]]

\* A whole file, as every reader takes it.
AllUnread == [studio |-> Unread, build |-> Unread, tool |-> Unnoticed]
AllLine(r, l) == [studio |-> StudioLine(r.studio, l), build |-> BuildLine(r.build, l),
                  tool |-> ToolLine(r.tool, l)]
Reading(file) ==
  LET read[n \in 0 .. Len(file)] ==
        IF n = 0 THEN AllUnread ELSE AllLine(read[n - 1], file[n])
  IN read[Len(file)]

-----------------------------------------------------------------------------
\* A refused file leaves nothing behind, and Studio's memory ends where the
\* bootloader begins (firmwareupdater.cpp:120-135): its array has no more room.
TypeOK ==
  /\ \A r \in {studio, build, image} :
       /\ r.ok \in BOOLEAN /\ r.base \in 0 .. Word - 1 /\ r.eof \in BOOLEAN
       /\ \A a \in DOMAIN r.mem : a \in Nat /\ r.mem[a] \in Nat
  /\ DOMAIN studio.mem \subseteq 0 .. BootStart - 1
  /\ tool \in [ok : BOOLEAN, base : 0 .. Word - 1, eof : BOOLEAN,
               app : BOOLEAN, boot : BOOLEAN]

\* What Studio agrees to upload, the bootloader starts once it is uploaded: the
\* two judge files and flash by rules written twice, in two languages
\* (firmwareupdater.cpp:79-197, BootloaderCDC.c:72-96), and a file that one
\* accepts and the other does not would leave a cartridge that never starts.
\* It asks avrdude for nothing outside the application section.
AcceptedStarts ==
  StudioAccepts(studio) =>
    /\ DOMAIN image.mem \subseteq 0 .. BootStart - 1
    /\ ApplicationIsValid(Flashed(image.mem))

\* Studio accepts no application that the build would not put into a factory
\* image (application_image.py:44-63, hex_image.py:53-60), and none that the
\* preparation tool would take for a factory image and write to a chip it has
\* erased, bootloader and all (tools/bootloader-installer/src/main.cpp:287-308).
StudioIsStricter ==
  StudioAccepts(studio) =>
    /\ ReadHex(build) /\ Validate(build.mem)
    /\ 0 \in DOMAIN build.mem /\ Highest(build.mem) < BootStart
    /\ ~ToolAccepts(tool)

\* What the build stamps and writes, Studio accepts and the bootloader starts,
\* with every byte of the application where it was, whatever gaps the linker left
\* between its sections (application_image.py:21-41, hex_image.py:38-50).
StampedAccepted ==
  ReadHex(build) /\ CanStamp(build.mem) =>
    LET r == Reading(WriteHex(Stamped(build.mem))).studio
    IN /\ StudioAccepts(r) /\ ApplicationIsValid(Flashed(r.mem))
       /\ \A a \in 0 .. ManifestAt - 1 : At(r.mem, a) = At(build.mem, a)

\* The bootloader images that factory images are made of.
Bootloaders == [BootStart .. FlashEnd - 1 -> {FF, Magic}] \cup [{BootStart} -> {Magic}]

\* What the build combines, the preparation tool accepts, and the chip then has the
\* bootloader as it is and an application that it starts (hex_image.py:53-62,
\* tools/bootloader-installer/src/main.cpp:267-308).
FactoryAccepted ==
  \A boot \in Bootloaders :
    ReadHex(build) /\ CanCombine(build.mem, boot) =>
      LET file == WriteHex(Combined(build.mem, boot))
          read == Reading(file)
          mem == read.build.mem
      IN /\ ToolAccepts(read.tool) /\ ReadHex(read.build)
         /\ ApplicationIsValid(Flashed(mem))
         /\ \A a \in BootStart .. FlashEnd - 1 : At(mem, a) = At(boot, a)
=============================================================================
