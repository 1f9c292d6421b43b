--------------------------- MODULE CartridgeCalls ---------------------------
(***************************************************************************)
(* What SerialInterface promises the main window and its workers: one call *)
(* at a time; a call that returns has done its work, whole and on the unit *)
(* it names, and what it has read is what the cartridge holds; one that    *)
(* throws may have done part of it, or may do so later, but only to units  *)
(* that the caller has asked to be changed and has had no result for since;*)
(* nothing but the greeting is ever asked of a board that has not greeted. *)
(***************************************************************************)
EXTENDS CartridgeRequests

CONSTANT Unknown  \* what the caller knows of a unit it has no result for

VARIABLES
  flash,      \* contents of each unit
  asked,      \* the jobs ever asked for
  call,       \* the current call, or the last one
  waiting,    \* a call is under way
  connected,  \* a board has greeted and no call has failed since
  known       \* what the results of the calls say of each unit

absVars == <<flash, asked, call, waiting, connected, known>>

Greeting == {Simple("READINFO"), Simple("READVERS")}

AbsInit ==
  /\ flash \in [Units -> Data \cup {Blank}]
  /\ asked = {}
  /\ call \in Calls /\ ~waiting /\ ~connected
  /\ known = [u \in Units |-> Unknown]

\* A method is called.
AbsCall ==
  /\ ~waiting /\ waiting'
  /\ call' \in Calls
  /\ connected' = (call' \notin Greeting)
  /\ connected' => connected
  /\ asked' = asked \cup ({JobOf(call')} \cap Jobs)
  /\ known' = [u \in Units |-> IF u \in Touches(JobOf(call')) THEN Unknown ELSE known[u]]
  /\ UNCHANGED flash

\* A job that was asked for changes what it names and nobody relies on.
Progress ==
  /\ \E j \in asked : \A u \in Units : flash'[u] # flash[u] =>
       u \in Touches(j) /\ flash'[u] \in {j.data, Torn} /\ known[u] = Unknown
  /\ flash' \in [Units -> Contents]
AbsWork == UNCHANGED <<asked, call, waiting, connected, known>> /\ Progress

\* The method returns.
AbsReturn ==
  /\ waiting /\ ~waiting'
  /\ \A u \in Touches(JobOf(call)) : flash[u] = call.data
  /\ known' = [u \in Units |-> IF u \in Touches(JobOf(call)) \/ call.cmd = <<"RDBANK", u>>
                                THEN flash[u] ELSE known[u]]
  /\ connected' = (connected \/ call = Simple("READVERS"))
  /\ UNCHANGED <<flash, asked, call>>

\* The method throws, or the connection is given up between two calls.
AbsLose ==
  /\ ~waiting' /\ ~connected'
  /\ UNCHANGED <<asked, call, known>>
  /\ UNCHANGED flash \/ Progress

AbsNext == AbsCall \/ AbsWork \/ AbsReturn \/ AbsLose

AbsSpec == AbsInit /\ [][AbsNext]_absVars
=============================================================================
