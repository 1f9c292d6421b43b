---------------------------- MODULE MCBootloader ----------------------------
EXTENDS Bootloader

\* Two stamped applications of three words, one of them shared, whose last word
\* is the manifest.
MCImages == {[w \in AppWords |-> <<"a", "c", FF, "mA">>[w + 1]],
             [w \in AppWords |-> <<"c", "c", FF, "mB">>[w + 1]]}
=============================================================================
