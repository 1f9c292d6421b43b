------------------------------- MODULE UsbLink -------------------------------
(***************************************************************************)
(* The serial link between the Studio and the cartridge firmware: what     *)
(* travels on it and the state both ends see.                              *)
(*                                                                         *)
(* Framing is kept, sizes are not: a command is two tokens instead of      *)
(* eight bytes, a block frame (256 data bytes and a CRC) is three data     *)
(* tokens and one CRC token.  Data tokens may be command tokens, as binary *)
(* data may spell a command; a frame cut or shifted never has a valid CRC. *)
(* A bank is one block long, so "unit" is whatever one request addresses.  *)
(***************************************************************************)
EXTENDS CartridgeRequests, Naturals, Sequences, FiniteSets

CONSTANTS
  Bytes,    \* the tokens block frames are made of
  Frame     \* [Contents -> frames]: data tokens and CRC token of contents

CommandLength == 2
FrameLength   == 4

\* The tokens commands are made of.
CommandTokens == {"READINFO", "READVERS", "DEVID", "BOOT", "ERASE", "ALL", "ERBANK",
                  "RDBANK", "RDBK", "WRBK", "-"}

ASSUME LinkAssumption ==
  /\ Blank # Torn /\ Blank \notin Data /\ Torn \notin Data
  /\ Frame \in [Contents -> Seq(Bytes)]
  /\ \A c \in Contents : Len(Frame[c]) = FrameLength
  /\ \A c, d \in Contents : Frame[c][FrameLength] = Frame[d][FrameLength] => c = d

\* A number is not the name of a command, and no command token is the CRC of a
\* block: a payload cut short and continued by a command fails its CRC.
ASSUME TokenAssumption ==
  /\ Units \cap CommandTokens = {}
  /\ \A c \in Contents : Frame[c][FrameLength] \notin CommandTokens

\* Status tokens: 0, 1 (CRC), 2 (bad number), 3-6 (driver), 7 (timeout).
Ok      == "0"
BadCrc  == "1"
BadArg  == "2"
Failed  == "4"
TooLate == "7"

Eraser  == <<"ERASE", "ALL">>
LineEnd == "nl"
Identities == {"READINFO", "READVERS", "DEVID"}
Reads   == {"RDBK", "RDBANK"}
Tokens  == CommandTokens \cup Units \cup Bytes
           \cup {Ok, BadCrc, BadArg, Failed, TooLate, LineEnd, "ERRORCMD"}

VARIABLES
  dtr,      \* the DTR line; the firmware's interrupt keeps it up to date
  toDev,    \* tokens written by the host, not yet taken by the main loop
  toHost,   \* tokens sent by the firmware, not yet taken by the host
  plugged,  \* the application firmware is on the bus
  flash,    \* contents of each unit
  asked     \* history: the jobs the host has ever requested

linkVars == <<dtr, toDev, toHost, plugged, flash, asked>>

NoJob == [op |-> "none", unit |-> "-", data |-> Blank]

Prefixes(s) == {SubSeq(s, 1, n) : n \in 0 .. Len(s)}
Suffixes(s) == {SubSeq(s, n, Len(s)) : n \in 1 .. Len(s) + 1}
=============================================================================
