--------------------------- MODULE MCSeparateParts ---------------------------
(***************************************************************************)
(* Values of the separate parts' constants that a .cfg cannot hold.        *)
(***************************************************************************)
EXTENDS SeparateParts

\* The released file, and the file that the alias "./a" names.
MCRelease == <<"a", "b">>
MCCanonical == [alias \in {"./a"} |-> "a"]
=============================================================================
