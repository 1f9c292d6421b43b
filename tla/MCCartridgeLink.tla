--------------------------- MODULE MCCartridgeLink ---------------------------
EXTENDS CartridgeLink

MCBytes == {"nl", "ERBANK", "u0", "ca", "f", "cf", "t", "ct"}

\* A content whose data tokens spell the command that erases, behind a line end.
MCFrame == [c \in Contents |->
              CASE c = "a"     -> <<"nl", "ERBANK", "u0", "ca">>
                [] c = "blank" -> <<"f", "f", "f", "cf">>
                [] c = "torn"  -> <<"t", "t", "t", "ct">>]
=============================================================================
