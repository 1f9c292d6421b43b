--------------------------- MODULE MCFirmwareImage ---------------------------
EXTENDS FirmwareImage

\* The bytes below n, read as digits: an ideal CRC.
MCCrc(bytes) ==
  LET n == Cardinality(DOMAIN bytes)
      sum[i \in 0 .. n] == IF i = 0 THEN 1 ELSE 4 * sum[i - 1] + bytes[i - 1]
  IN sum[n]

Data(addr, data) == [kind |-> "data", addr |-> addr, base |-> 0, data |-> data]
Other(kind, addr) == [kind |-> kind, addr |-> addr, base |-> 0, data |-> <<>>]
Base(base, addr) == [kind |-> "base", addr |-> addr, base |-> base, data |-> <<>>]

\* Code of two bytes, of one more, of a second row; gaps, overlaps and a blank vector.
MCCode == {Data(0, <<1, 3>>), Data(0, <<3, 3>>), Data(0, <<1>>), Data(1, <<1>>),
           Data(1, <<1, 1>>), Data(2, <<1>>), Data(2, <<3, 1>>), Data(2, <<1, 3, 2>>)}
\* Manifests: whole, cut, foreign, of every length and of several CRCs.
MCManifests ==
  {Data(4, <<2, 2, n, c>>) : n \in 1 .. 5,
      c \in {MCCrc([a \in 0 .. 1 |-> <<1, 3>>[a + 1]]), MCCrc([a \in 0 .. 1 |-> 3]),
             MCCrc([a \in 0 .. 2 |-> <<1, 3, 1>>[a + 1]]),
             MCCrc([a \in 0 .. 3 |-> <<1, 3, 3, 1>>[a + 1]])}}
  \cup {Data(4, <<2, 2, 2>>), Data(4, <<2, 1, 2, 31>>), Data(4, <<1, 2, 2, 31>>)}
MCBoot == {Data(8, <<2, 2>>), Data(10, <<2>>), Data(8, <<>>), Data(15, <<2, 2>>)}
MCLines ==
  MCCode \cup MCManifests \cup MCBoot
  \cup {Base(0, 0), Base(2, 0), Base(16, 0), Base(32, 0), Base(2, 1)}
  \cup {Other("eof", 0), Other("eof", 1), Other("start", 0), Other("other", 0), Other("bad", 0)}

\* A file that Studio and the build both refuse, or that reaches the bootloader,
\* can be neither uploaded, stamped nor combined any more.
StillRead ==
  /\ studio.ok \/ build.ok
  /\ DOMAIN build.mem \subseteq 0 .. BootStart - 1
=============================================================================
