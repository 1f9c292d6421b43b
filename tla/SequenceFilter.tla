---------------------------- MODULE SequenceFilter ----------------------------
(***************************************************************************)
(* Dropping members of a sequence, as the filters of the log window        *)
(* (logwindow.cpp) and QStringList::removeAll (mainwindow.cpp) do.  It     *)
(* equals SelectSeq with a test of membership; it is written as a          *)
(* recursive function so that the proofs can reason about it.              *)
(***************************************************************************)
EXTENDS Naturals, Sequences

\* The members of s that are not in drop, in their order.
Without(s, drop) ==
  LET kept[n \in 0 .. Len(s)] ==
        IF n = 0 THEN <<>>
        ELSE IF s[n] \in drop THEN kept[n - 1] ELSE Append(kept[n - 1], s[n])
  IN  kept[Len(s)]
=============================================================================
