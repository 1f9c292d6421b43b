---------------------------- MODULE CartridgeModes ----------------------------
(***************************************************************************)
(* What the bootloader promises those who install applications: an         *)
(* application starts only when it is whole; the application section       *)
(* changes only while the bootloader waits for its host, who alone can     *)
(* make it leave then; a cartridge that is told to enter its bootloader    *)
(* gets there.  A reset of any kind takes all of that back except the      *)
(* first, and leads to a boot window; a block may be left torn by it.      *)
(***************************************************************************)
CONSTANTS
  Contents,  \* what the application section may hold
  Whole      \* the contents that start

VARIABLES
  state,     \* "app": the application runs; "window": the bootloader runs and will
             \* start an application that is whole; "boot": it waits for its host;
             \* "entering", "leaving": on the way to the bootloader, to a start
  contents   \* the application section

absVars == <<state, contents>>

AbsInit ==
  /\ contents \in Contents
  /\ state = "window" \/ (state = "app" /\ contents \in Whole)

AbsStart ==
  /\ state \in {"window", "leaving"} /\ contents \in Whole
  /\ state' = "app"
  /\ UNCHANGED contents

\* A command cancels the window; what does not start keeps the bootloader.
AbsStay ==
  /\ state \in {"window", "entering"} \/ (state = "leaving" /\ contents \notin Whole)
  /\ state' = "boot"
  /\ UNCHANGED contents

AbsEnter ==
  /\ state = "app" /\ state' = "entering"
  /\ UNCHANGED contents

\* The window closes on an application that is whole, or the host lets it start.
AbsLeave ==
  /\ state \in {"window", "boot"} /\ state' = "leaving"
  /\ UNCHANGED contents

AbsProgram ==
  /\ state = "boot" /\ UNCHANGED state
  /\ contents' \in Contents

AbsReset ==
  /\ state' = "window"
  /\ contents' \in IF state = "boot" THEN Contents ELSE {contents}

AbsNext == AbsStart \/ AbsStay \/ AbsEnter \/ AbsLeave \/ AbsProgram \/ AbsReset
AbsSpec == AbsInit /\ [][AbsNext]_absVars
=============================================================================
