--------------------------- MODULE CartridgeStore ---------------------------
(***************************************************************************)
(* What the flash driver promises the rest of the firmware: one request at *)
(* a time; while it runs only the region it names may change; a refusal    *)
(* leaves the flash as it was; success means the region holds exactly what *)
(* was asked for.  A failure or a loss of power promises nothing about the *)
(* region, and still nothing outside it changes.                           *)
(***************************************************************************)
EXTENDS CartridgeGeometry

VARIABLES
  store,    \* contents of every block
  op,       \* the request being served, or the last one served
  active,   \* a request is being served
  touched,  \* it may already have modified its region
  outcome,  \* "none", "answered" or "lost" (power went away)
  status    \* the status byte of an answer

absVars == <<store, op, active, touched, outcome, status>>

AbsInit ==
  /\ store \in Stores
  /\ op \in Requests
  /\ ~active /\ ~touched
  /\ outcome = "none"
  /\ status = Success

AbsRequest ==
  /\ ~active
  /\ op' \in Requests
  /\ active'
  /\ ~touched'
  /\ outcome' = "none"
  /\ status' = Success
  /\ UNCHANGED store

AbsModify ==
  /\ active
  /\ touched'
  /\ store' \in Stores
  /\ OnlyInRegion(op, store, store')
  /\ UNCHANGED <<op, active, outcome, status>>

AbsAnswer ==
  /\ active /\ ~active' /\ ~touched'
  /\ outcome' = "answered"
  /\ status' \in Statuses
  /\ store' \in Stores
  /\ OnlyInRegion(op, store, store')
  /\ status' \in Refusals => store' = store /\ ~touched
  /\ status' = Success => Achieved(op, store')
  /\ UNCHANGED op

AbsLose ==
  /\ active /\ ~active' /\ ~touched'
  /\ outcome' = "lost"
  /\ store' \in Stores
  /\ OnlyInRegion(op, store, store')
  /\ UNCHANGED <<op, status>>

AbsNext == AbsRequest \/ AbsModify \/ AbsAnswer \/ AbsLose

AbsSpec == AbsInit /\ [][AbsNext]_absVars
=============================================================================
