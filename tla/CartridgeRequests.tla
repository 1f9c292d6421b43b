-------------------------- MODULE CartridgeRequests --------------------------
(***************************************************************************)
(* The calls that the Studio makes on a cartridge (SerialInterface's       *)
(* methods) and the flash operations that they ask the firmware for.       *)
(***************************************************************************)
CONSTANTS
  Units,    \* the block and bank numbers the firmware accepts, as tokens
  Data,     \* contents the host may write
  Blank,    \* contents of an erased unit
  Torn      \* contents of a unit after a failed or interrupted operation

Contents == Data \cup {Blank, Torn}

\* A call: its command and argument, and the data that it sends.
Call(op, arg, d) == [cmd |-> <<op, arg>>, data |-> d]
Simple(op) == Call(op, "-", Blank)
Work == {Call("ERASE", "ALL", Blank)}
        \cup {Call(op, u, Blank) : op \in {"ERBANK", "RDBANK"}, u \in Units}
        \cup {Call("WRBK", u, d) : u \in Units, d \in Data}
Calls == {Simple(op) : op \in {"READINFO", "READVERS", "DEVID", "BOOT"}} \cup Work

\* A flash operation or the reboot, and the call that asks for it.
Jobs == [op : {"WRBK"}, unit : Units, data : Data]
        \cup [op : {"ERBANK"}, unit : Units, data : {Blank}]
        \cup [op : {"ERASE"}, unit : {"ALL"}, data : {Blank}]
        \cup [op : {"BOOT"}, unit : {"-"}, data : {Blank}]
JobOf(c) == [op |-> c.cmd[1], unit |-> c.cmd[2], data |-> c.data]

\* The units a job may modify.
Touches(j) == CASE j.op \in {"WRBK", "ERBANK"} -> {j.unit}
                [] j.op = "ERASE" -> Units
                [] OTHER -> {}
=============================================================================
