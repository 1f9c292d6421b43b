------------------------- MODULE CartridgeLinkProofs -------------------------
(***************************************************************************)
(* Proofs about the Studio and the firmware talking to each other, for any *)
(* numbers of units, contents, sessions and calls.                         *)
(*                                                                         *)
(* The invariant says what is under way between the two at each point of a *)
(* call.  With a board connected the line is in step: nothing is left over *)
(* between two calls (Quiet), and during a call what the parser holds, the *)
(* job it runs and the tokens in both directions are a stage of just that  *)
(* call (InFlight).  Until READVERS has been answered the line may be out  *)
(* of step, with the remains of earlier sessions on it; all that can reach *)
(* the parser then are the tokens of a greeting, and a greeting that is    *)
(* answered proves that the remains are gone (Greeted, VersionInv).        *)
(***************************************************************************)
EXTENDS CartridgeLink, SequenceTheorems, TLAPS

\* The current call, or the last one.
Op  == call.cmd[1]
Arg == call.cmd[2]
InCall == hpc \in Waiting

\* The parser is between two commands; nothing is under way at all.
Idle  == parser.used = <<>> /\ ~parser.writing /\ ~parser.failed
Quiet == toDev = <<>> /\ toHost = <<>> /\ Idle /\ job = NoJob

\* What READINFO, the first command of a connection, may leave behind.
HelloTokens == {"READINFO", "-"}
OnlyHello(s) == \A i \in 1 .. Len(s) : s[i] \in HelloTokens

\* The port is open and the board has not answered READINFO yet, or not READVERS.
Greeting == ~board /\ hpc # "closed" /\ (calls = 0 \/ Op = "READINFO")

TypeInv ==
  /\ TypeOK
  /\ toDev \in Seq(Tokens) /\ toHost \in Seq(Tokens)

\* DTR is up while the port is open, and only the application has an open port.
LineInv ==
  /\ dtr <=> hpc # "closed"
  /\ hpc # "closed" => plugged

\* A session that does not connect has a connected board.
BoardInv ==
  /\ hpc \in Waiting => calls > 0
  /\ hpc # "closed" /\ calls > 0 =>
       (board <=> Op # "READINFO" /\ ~(InCall /\ Op = "READVERS"))

\* A job that runs was asked for, and of its units nothing is believed.
BootAsked == \E j \in asked : j.op = "BOOT"
JobInv ==
  /\ job # NoJob => /\ job \in asked /\ job.op # "BOOT"
                    /\ Idle
                    /\ \A u \in Touches(job) \cap Units : belief[u] = Unknown
  /\ boot \/ parser.used = <<"BOOT">> => BootAsked

\* So it is with the job that the current call may lead to.
CallInv ==
  InCall => /\ JobOf(call) \in Jobs => JobOf(call) \in asked
            /\ \A u \in Touches(JobOf(call)) \cap Units : belief[u] = Unknown

\* While a flash operation that lost its host runs on, and while the host connects,
\* no frame and no command but READINFO can be on its way to the parser.
LeftOver ==
  /\ ~board /\ hpc = "closed" /\ job # NoJob => OnlyHello(toDev)
  /\ Greeting => OnlyHello(toDev)

\* READINFO discards what has arrived, but a late answer may arrive after that: then
\* the echo is wrong and the call is lost (Dead).  Otherwise the parser is in step.
Dead == toHost # <<>> /\ toHost[1] # "READINFO"
HelloParser == ~parser.writing /\ parser.used \in {<<>>, <<"READINFO">>, <<"-">>}
NoVersion == \A i \in 1 .. Len(toHost) : toHost[i] # "READVERS"
Greeted == job = NoJob /\ HelloParser /\ NoVersion
ReadInfoInv ==
  Greeting => /\ hpc = "echo" => Dead \/ toHost = <<>> \/ Greeted
              /\ hpc # "echo" /\ calls > 0 => Greeted

\* READVERS: its tokens come behind those of READINFO, its first token has been
\* taken, it has been answered, or a gap or a cut has lost it.
NotVersion == toHost = <<>> \/ toHost[1] # "READVERS"
VersionComing ==
  /\ NotVersion /\ HelloParser
  /\ Len(toDev) >= 2
  /\ toDev[Len(toDev) - 1] = "READVERS" /\ toDev[Len(toDev)] = "-"
  /\ \A i \in 1 .. Len(toDev) - 2 : toDev[i] \in HelloTokens
VersionStarted ==
  /\ NotVersion /\ ~parser.failed
  /\ parser.used = <<"READVERS">> /\ toDev = <<"-">>
VersionSaid ==
  /\ Idle /\ toDev = <<>>
  /\ toHost \in {<<"READVERS">>, <<"READVERS", "-">>, <<"READVERS", "-", "READVERS">>}
VersionLost ==
  /\ NotVersion /\ OnlyHello(toDev)
  /\ parser.used # <<"READVERS">>
VersionInv ==
  (InCall /\ Op = "READVERS") =>
     /\ job = NoJob /\ ~parser.writing
     /\ hpc = "echo" => VersionComing \/ VersionStarted \/ VersionSaid \/ VersionLost
     /\ hpc # "echo" => /\ hpc = "answer" /\ Idle /\ toDev = <<>>
                        /\ toHost \in {<<>>, <<"READVERS">>}

\* The tokens of a response that the host has taken off by now.
Taken == CASE hpc = "echo" -> 0 [] hpc = "answer" -> 2 [] OTHER -> 3

\* s is what may be left of the response r after its first n tokens.
RemainsAt(s, r, n) ==
  /\ Len(s) <= Len(r) - n
  /\ \A i \in 1 .. Len(s) : s[i] = r[n + i]
Remains(r) == RemainsAt(toHost, r, Taken)
Whole(r) == Remains(r) /\ Len(toHost) = Len(r) - Taken

\* The flash holds what the call says.
Done == \A u \in Touches(JobOf(call)) \cap Units : flash[u] = call.data

\* The stages of a call with a connected board.  The command is on its way, the
\* parser holds half of it, or a gap has lost the half.
Sending ==
  /\ hpc = "echo" /\ toHost = <<>> /\ job = NoJob
  /\ ~parser.writing /\ ~parser.failed
  /\ \/ toDev = call.cmd /\ parser.used = <<>>
     \/ toDev = <<Arg>> /\ parser.used \in {<<>>, <<Op>>}
     \/ toDev = <<>> /\ parser.used \in {<<>>, <<Arg>>}

\* The driver works on the job of the call.
Working ==
  /\ hpc = (IF Op = "WRBK" THEN "final" ELSE "echo")
  /\ toHost = <<>> /\ toDev = <<>> /\ job = JobOf(call) /\ Idle

\* WRBK is accepted: the parser collects the frame, which follows the status.
Uploading ==
  /\ Op = "WRBK" /\ job = NoJob
  /\ parser.writing /\ ~parser.failed /\ parser.used = <<>> /\ parser.unit = Arg
  /\ \/ /\ hpc \in {"echo", "answer"}
        /\ toDev = <<>> /\ parser.got = <<>>
        /\ Whole(<<Op, Arg, Ok>>)
     \/ /\ hpc = "final" /\ toHost = <<>>
        /\ Len(parser.got) + Len(toDev) = FrameLength
        /\ \A i \in 1 .. Len(parser.got) : parser.got[i] = Frame[call.data][i]
        /\ \A i \in 1 .. Len(toDev) : toDev[i] = Frame[call.data][Len(parser.got) + i]

\* The payload has timed out, before or while the frame arrived.
Refused ==
  /\ Op = "WRBK" /\ job = NoJob
  /\ ~parser.writing /\ parser.failed /\ parser.used = <<>>
  /\ Remains(<<Op, Arg, Ok, TooLate>>)

\* The firmware is done with the call and its answer, perhaps cut, is on its way.
Replied ==
  /\ job = NoJob /\ toDev = <<>> /\ Idle
  /\ \/ Op = "DEVID" /\ hpc \in {"echo", "answer"} /\ Remains(<<Op, Arg, Op>>)
     \/ Op = "BOOT" /\ hpc \in {"echo", "answer"} /\ Remains(<<Op, Arg, Ok>>)
     \/ /\ Op = "RDBANK" /\ hpc \in {"echo", "answer", "frame"}
        /\ Remains(<<Op, Arg, Ok>> \o Frame[flash[Arg]])
     \/ Op = "WRBK" /\ hpc \in {"echo", "answer"} /\ Remains(<<Op, Arg>>)
     \/ /\ Op = "WRBK" /\ hpc = "final"
        /\ \/ Done /\ Remains(<<Op, Arg, Ok, Ok>>)
           \/ Remains(<<Op, Arg, Ok, Failed>>)
     \/ /\ Op \in {"ERASE", "ERBANK"} /\ hpc \in {"echo", "answer"}
        /\ \/ Done /\ Remains(<<Op, Arg, Ok>>)
           \/ Remains(<<Op, Arg, Failed>>)

InFlight == Sending \/ Working \/ Uploading \/ Refused \/ Replied

BoardModeInv ==
  board => /\ ~InCall => Quiet
           /\ InCall => InFlight

IInv ==
  /\ TypeInv /\ LineInv /\ BoardInv /\ JobInv /\ CallInv /\ BeliefIsTrue
  /\ LeftOver /\ ReadInfoInv /\ VersionInv /\ BoardModeInv

-----------------------------------------------------------------------------
(* Sequences *)

LEMMA ConcatFacts ==
  ASSUME NEW S, NEW s \in Seq(S), NEW t \in Seq(S)
  PROVE  /\ s \o t \in Seq(S) /\ Len(s \o t) = Len(s) + Len(t)
         /\ \A i \in 1 .. Len(s) : (s \o t)[i] = s[i]
         /\ \A i \in 1 .. Len(t) : (s \o t)[Len(s) + i] = t[i]
BY ConcatProperties

LEMMA TailFacts ==
  ASSUME NEW S, NEW s \in Seq(S), s # <<>>
  PROVE  /\ Tail(s) \in Seq(S) /\ Len(Tail(s)) = Len(s) - 1 /\ Len(s) > 0
         /\ Head(s) = s[1] /\ Head(s) \in S
         /\ \A i \in 1 .. Len(Tail(s)) : Tail(s)[i] = s[i + 1]
OBVIOUS

LEMMA PrefixFacts ==
  ASSUME NEW S, NEW s \in Seq(S), NEW p \in Prefixes(s)
  PROVE  /\ p \in Seq(S) /\ Len(p) <= Len(s)
         /\ \A i \in 1 .. Len(p) : p[i] = s[i]
         /\ Len(p) = Len(s) => p = s
BY SubSeqProperties, SubSeqFull DEF Prefixes

LEMMA SuffixFacts ==
  ASSUME NEW S, NEW s \in Seq(S), NEW p \in Suffixes(s)
  PROVE  /\ p \in Seq(S)
         /\ s = <<>> => p = <<>>
<1>1. PICK n \in 1 .. Len(s) + 1 : p = SubSeq(s, n, Len(s))
  BY DEF Suffixes
<1>2. \A i \in n .. Len(s) : s[i] \in S
  OBVIOUS
<1>. QED BY <1>1, <1>2, SubSeqProperties

LEMMA DropFacts ==
  ASSUME NEW S, NEW s \in Seq(S), NEW n \in Nat, n <= Len(s)
  PROVE  /\ SubSeq(s, n + 1, Len(s)) \in Seq(S)
         /\ Len(SubSeq(s, n + 1, Len(s))) = Len(s) - n
         /\ \A i \in 1 .. Len(s) - n : SubSeq(s, n + 1, Len(s))[i] = s[n + i]
BY SubSeqProperties

LEMMA TakeFacts ==
  ASSUME NEW S, NEW s \in Seq(S), NEW n \in Nat, n <= Len(s)
  PROVE  /\ SubSeq(s, 1, n) \in Seq(S)
         /\ Len(SubSeq(s, 1, n)) = n
         /\ \A i \in 1 .. n : SubSeq(s, 1, n)[i] = s[i]
BY SubSeqProperties

LEMMA AppendFacts ==
  ASSUME NEW S, NEW s \in Seq(S), NEW x \in S
  PROVE  /\ Append(s, x) \in Seq(S) /\ Len(Append(s, x)) = Len(s) + 1
         /\ Append(s, x)[Len(s) + 1] = x
         /\ \A i \in 1 .. Len(s) : Append(s, x)[i] = s[i]
BY AppendProperties

LEMMA OneOrTwo ==
  ASSUME NEW S, NEW s \in Seq(S)
  PROVE  /\ Len(s) = 0 => s = <<>>
         /\ Len(s) = 1 => s = <<s[1]>> /\ s[1] \in S
         /\ Len(s) = 2 => s = <<s[1], s[2]>>
<1>1. CASE Len(s) = 1
  <2>1. s[1] \in S
    BY <1>1, ElementOfSeq
  <2>2. <<s[1]>> \in Seq(S) /\ Len(<<s[1]>>) = 1
    BY <2>1
  <2>. QED BY <1>1, <2>1, <2>2, SeqEqual
<1>2. CASE Len(s) = 2
  <2>1. s[1] \in S /\ s[2] \in S
    BY <1>2, ElementOfSeq
  <2>2. <<s[1], s[2]>> \in Seq(S) /\ Len(<<s[1], s[2]>>) = 2
    BY <2>1
  <2>. QED BY <1>2, <2>1, <2>2, SeqEqual
<1>. QED BY <1>1, <1>2

LEMMA PairAppended ==
  ASSUME NEW S, NEW s \in Seq(S), NEW x \in S
  PROVE  Len(s) = 1 => Append(s, x) = <<s[1], x>>
<1> DEFINE t == Append(s, x)
<1>1. /\ t \in Seq(S) /\ Len(t) = Len(s) + 1 /\ t[Len(s) + 1] = x
      /\ \A i \in 1 .. Len(s) : t[i] = s[i]
  BY AppendFacts
<1> HIDE DEF t
<1>2. Len(s) = 1 => Len(t) = 2 /\ t[2] = x /\ t[1] = s[1]
  BY <1>1
<1>3. Len(s) = 1 => t = <<s[1], x>>
  BY <1>1, <1>2, OneOrTwo
<1>. QED BY <1>3 DEF t

LEMMA PairAndOne ==
  ASSUME NEW S, NEW a \in S, NEW b \in S, NEW c \in S
  PROVE  <<a, b>> \o <<c>> = <<a, b, c>>
<1>1. <<a, b>> \in Seq(S) /\ <<c>> \in Seq(S)
  OBVIOUS
<1>2. <<a, b, c>> \in Seq(S) /\ Len(<<a, b, c>>) = 3
  OBVIOUS
<1>3. <<a, b>> \o <<c>> \in Seq(S) /\ Len(<<a, b>> \o <<c>>) = 3
  BY <1>1, ConcatProperties
<1>4. \A i \in 1 .. 3 : (<<a, b>> \o <<c>>)[i] = <<a, b, c>>[i]
  BY <1>1, ConcatProperties
<1>. QED BY <1>1, <1>2, <1>3, <1>4, SeqEqual

LEMMA TokenFacts ==
  /\ CommandTokens \subseteq Tokens /\ Units \subseteq Tokens /\ Bytes \subseteq Tokens
  /\ {Ok, BadCrc, BadArg, Failed, TooLate, LineEnd, "ERRORCMD"} \subseteq Tokens
  /\ Identities \subseteq CommandTokens /\ HelloTokens \subseteq CommandTokens
BY DEF Tokens, CommandTokens, Identities, HelloTokens

LEMMA FrameFacts ==
  ASSUME NEW c \in Contents
  PROVE  /\ Frame[c] \in Seq(Tokens) /\ Len(Frame[c]) = FrameLength
         /\ Frame[c][FrameLength] \notin CommandTokens
<1>1. Frame[c] \in Seq(Bytes)
  BY LinkAssumption
<1>2. Seq(Bytes) \subseteq Seq(Tokens)
  BY TokenFacts, SeqMonotonic
<1>. QED BY <1>1, <1>2, LinkAssumption, TokenAssumption

\* The first n tokens of a response have been added to the receive buffer.
Added(resp, n) ==
  /\ toHost' \in Seq(Tokens)
  /\ Len(toHost') = Len(toHost) + n
  /\ \A i \in 1 .. Len(toHost) : toHost'[i] = toHost[i]
  /\ \A i \in 1 .. n : toHost'[Len(toHost) + i] = resp[i]

LEMMA AddedFacts ==
  ASSUME toHost \in Seq(Tokens), NEW r, NEW n \in Nat, Added(r, n)
  PROVE  /\ toHost # <<>> => toHost' # <<>> /\ toHost'[1] = toHost[1]
         /\ toHost = <<>> /\ n = 0 => toHost' = <<>>
         /\ toHost = <<>> /\ n > 0 => toHost' # <<>> /\ toHost'[1] = r[1]
         /\ \A i \in 1 .. Len(toHost') : \/ \E j \in 1 .. Len(toHost) : toHost'[i] = toHost[j]
                                        \/ \E j \in 1 .. n : toHost'[i] = r[j]
<1>1. Len(toHost) \in Nat /\ (toHost = <<>> <=> Len(toHost) = 0)
  OBVIOUS
<1>2. toHost' \in Seq(Tokens) /\ Len(toHost') \in Nat /\ (toHost' = <<>> <=> Len(toHost') = 0)
  BY DEF Added
<1>3. ASSUME NEW i \in 1 .. Len(toHost'), ~(i <= Len(toHost))
      PROVE  \E j \in 1 .. n : toHost'[i] = r[j]
  <2>1. i - Len(toHost) \in 1 .. n /\ i = Len(toHost) + (i - Len(toHost))
    BY <1>1, <1>3 DEF Added
  <2>2. PICK j \in 1 .. n : i = Len(toHost) + j
    BY <2>1
  <2>3. toHost'[Len(toHost) + j] = r[j]
    BY DEF Added
  <2>. QED BY <2>2, <2>3
<1>. QED BY <1>1, <1>2, <1>3 DEF Added

LEMMA SendFacts ==
  ASSUME toHost \in Seq(Tokens), NEW resp \in Seq(Tokens), NEW p, Send(resp, p)
  PROVE  \E n \in 0 .. Len(resp) :
           /\ Added(resp, n)
           /\ parser' = IF n = Len(resp) THEN p ELSE Clean
<1>1. CASE toHost' = toHost \o resp /\ parser' = p
  BY <1>1, ConcatFacts DEF Added
<1>2. CASE /\ \E cut \in Prefixes(resp) \ {resp} : toHost' = toHost \o cut
           /\ parser' = Clean
  <2>1. PICK cut \in Prefixes(resp) \ {resp} : toHost' = toHost \o cut
    BY <1>2
  <2>2. /\ cut \in Seq(Tokens) /\ Len(cut) < Len(resp)
        /\ \A i \in 1 .. Len(cut) : cut[i] = resp[i]
    BY <2>1, PrefixFacts
  <2>3. Added(resp, Len(cut))
    BY <2>1, <2>2, ConcatFacts DEF Added
  <2>. QED BY <1>2, <2>2, <2>3
<1>. QED BY <1>1, <1>2 DEF Send

-----------------------------------------------------------------------------
(* Calls and answers *)

Bankings == {"ERBANK", "RDBANK", "WRBK"}
LEMMA AnyCall ==
  ASSUME NEW c \in Calls
  PROVE  /\ c.cmd = <<c.cmd[1], c.cmd[2]>>
         /\ c.cmd[1] \in CommandTokens /\ c.cmd[2] \in Tokens
         /\ c.data \in Contents
         /\ \/ /\ c.cmd[1] \in {"READINFO", "READVERS", "DEVID", "BOOT"} /\ c.cmd[2] = "-"
               /\ c.data = Blank
            \/ c.cmd[1] = "ERASE" /\ c.cmd[2] = "ALL" /\ c.data = Blank
            \/ c.cmd[1] \in {"ERBANK", "RDBANK"} /\ c.cmd[2] \in Units /\ c.data = Blank
            \/ c.cmd[1] = "WRBK" /\ c.cmd[2] \in Units /\ c.data \in Data
<1>1. PICK op, arg, d : c = Call(op, arg, d)
  BY DEF Calls, Simple, Work
<1>2. c.cmd = <<op, arg>> /\ c.data = d
  BY <1>1 DEF Call
<1>3. c.cmd[1] = op /\ c.cmd[2] = arg
  BY <1>2
<1>. QED BY <1>2, <1>3 DEF Calls, Simple, Work, Call, Contents, Tokens, CommandTokens

LEMMA CallFacts ==
  ASSUME call \in Calls
  PROVE  /\ call.cmd = <<Op, Arg>>
         /\ Op \in CommandTokens /\ Arg \in Tokens
         /\ call.data \in Contents
         /\ \/ Op \in {"READINFO", "READVERS", "DEVID", "BOOT"} /\ Arg = "-" /\ call.data = Blank
            \/ Op = "ERASE" /\ Arg = "ALL" /\ call.data = Blank
            \/ Op \in {"ERBANK", "RDBANK"} /\ Arg \in Units /\ call.data = Blank
            \/ Op = "WRBK" /\ Arg \in Units /\ call.data \in Data
BY AnyCall DEF Op, Arg

\* What the answer to a command without a flash operation is.
LEMMA ShortAnswer ==
  ASSUME NEW a \in Tokens, NEW b \in CommandTokens, NEW p, Answered(<<a, b>>, p)
  PROVE  /\ \E x \in Tokens : /\ Send(<<a, b, x>>, p)
                              /\ x \in CommandTokens => x = a
                              /\ a \in Identities /\ b = "-" => x = a
         /\ \/ UNCHANGED boot
            \/ boot' = TRUE /\ a = "BOOT" /\ b = "-"
<1>1. b \notin Units /\ b \in Tokens
  BY TokenAssumption, TokenFacts
<1>2. <<a, b>>[1] = a /\ <<a, b>>[2] = b
  OBVIOUS
<1>3. \A x \in Tokens : <<a, b>> \o <<x>> = <<a, b, x>>
  BY <1>1, PairAndOne
<1>4. {Ok, BadArg, "ERRORCMD"} \cap CommandTokens = {} /\ {Ok, BadArg, "ERRORCMD"} \subseteq Tokens
  BY TokenFacts DEF CommandTokens, Ok, BadArg
<1>5. CASE a \in Identities /\ b = "-" /\ Send(<<a, b>> \o <<a>>, p) /\ UNCHANGED boot
  BY <1>3, <1>5
<1>6. CASE <<a, b>> = <<"BOOT", "-">> /\ Send(<<a, b>> \o <<Ok>>, p) /\ boot' = TRUE
  <2>1. a = "BOOT" /\ b = "-" /\ a \notin Identities
    BY <1>2, <1>6 DEF Identities
  <2>. QED BY <1>3, <1>4, <1>6, <2>1
<1>7. CASE /\ a \in Reads \cup {"WRBK", "ERBANK"} /\ Send(<<a, b>> \o <<BadArg>>, p)
           /\ UNCHANGED boot
  <2>1. a \notin Identities
    BY <1>7 DEF Identities, Reads
  <2>. QED BY <1>3, <1>4, <1>7, <2>1
<1>8. CASE /\ ~(a \in Identities /\ b = "-") /\ Send(<<a, b>> \o <<"ERRORCMD">>, p)
           /\ UNCHANGED boot
  BY <1>3, <1>4, <1>8
<1>9. \/ a \in Identities /\ b = "-" /\ Send(<<a, b>> \o <<a>>, p) /\ UNCHANGED boot
      \/ <<a, b>> = <<"BOOT", "-">> /\ Send(<<a, b>> \o <<Ok>>, p) /\ boot' = TRUE
      \/ /\ a \in Reads \cup {"WRBK", "ERBANK"} /\ Send(<<a, b>> \o <<BadArg>>, p)
         /\ UNCHANGED boot
      \/ /\ ~(a \in Identities /\ b = "-") /\ Send(<<a, b>> \o <<"ERRORCMD">>, p)
         /\ UNCHANGED boot
  BY <1>1, <1>2 DEF Answered
<1>. QED BY <1>5, <1>6, <1>7, <1>8, <1>9

LEMMA ParserUpdates ==
  ASSUME NEW p \in Parsers, NEW s \in Seq(Tokens)
  PROVE  /\ [p EXCEPT !.used = s] \in Parsers
         /\ [p EXCEPT !.used = s].used = s
         /\ [p EXCEPT !.used = s].writing = p.writing
         /\ [p EXCEPT !.used = s].failed = p.failed
         /\ [p EXCEPT !.used = s].got = p.got
         /\ [p EXCEPT !.used = s].unit = p.unit
         /\ [p EXCEPT !.got = s] \in Parsers
         /\ [p EXCEPT !.got = s].used = p.used
         /\ [p EXCEPT !.got = s].writing = p.writing
         /\ [p EXCEPT !.got = s].failed = p.failed
         /\ [p EXCEPT !.got = s].got = s
         /\ [p EXCEPT !.got = s].unit = p.unit
         /\ [p EXCEPT !.writing = FALSE, !.got = <<>>] \in Parsers
         /\ [p EXCEPT !.writing = FALSE, !.got = <<>>].used = p.used
         /\ ~[p EXCEPT !.writing = FALSE, !.got = <<>>].writing
         /\ [p EXCEPT !.writing = FALSE, !.got = <<>>].failed = p.failed
         /\ [p EXCEPT !.writing = FALSE, !.got = <<>>].got = <<>>
<1>1. <<>> \in Seq(Tokens)
  OBVIOUS
<1>. QED BY <1>1 DEF Parsers

\* The same for a named result.
LEMMA ParserUsed ==
  ASSUME NEW p \in Parsers, NEW s \in Seq(Tokens), NEW q, q = [p EXCEPT !.used = s]
  PROVE  /\ q \in Parsers /\ q.used = s /\ q.writing = p.writing
         /\ q.failed = p.failed /\ q.got = p.got
BY DEF Parsers

LEMMA ParserGot ==
  ASSUME NEW p \in Parsers, NEW s \in Seq(Tokens), NEW q, q = [p EXCEPT !.got = s]
  PROVE  /\ q \in Parsers /\ q.used = p.used /\ q.writing = p.writing
         /\ q.failed = p.failed /\ q.got = s /\ q.unit = p.unit
BY DEF Parsers

LEMMA ParserDone ==
  ASSUME NEW p \in Parsers, NEW q, q = [p EXCEPT !.writing = FALSE, !.got = <<>>]
  PROVE  /\ q \in Parsers /\ q.used = p.used /\ ~q.writing
         /\ q.failed = p.failed /\ q.got = <<>>
<1>1. <<>> \in Seq(Tokens)
  OBVIOUS
<1>. QED BY <1>1 DEF Parsers

LEMMA ParserAccepts ==
  ASSUME NEW p \in Parsers, NEW u \in Units
  PROVE  /\ [p EXCEPT !.writing = TRUE, !.got = <<>>, !.unit = u] \in Parsers
         /\ [p EXCEPT !.writing = TRUE, !.got = <<>>, !.unit = u].used = p.used
         /\ [p EXCEPT !.writing = TRUE, !.got = <<>>, !.unit = u].writing
         /\ [p EXCEPT !.writing = TRUE, !.got = <<>>, !.unit = u].failed = p.failed
         /\ [p EXCEPT !.writing = TRUE, !.got = <<>>, !.unit = u].got = <<>>
         /\ [p EXCEPT !.writing = TRUE, !.got = <<>>, !.unit = u].unit = u
<1>1. <<>> \in Seq(Tokens)
  OBVIOUS
<1>. QED BY <1>1 DEF Parsers

\* What the parser does with a byte of a greeting, whatever state it is in.
GreetTokens == HelloTokens \cup {"READVERS"}

LEMMA GreetByte ==
  ASSUME TypeInv, NEW byte \in GreetTokens,
         CommandByte(byte) \/ PayloadByte(byte) \/ IgnoredByte(byte)
  PROVE  /\ UNCHANGED job
         /\ boot' \in BOOLEAN /\ (boot' => boot \/ parser.used = <<"BOOT">>)
         /\ ParserOK' /\ toHost' \in Seq(Tokens)
         /\ \/ /\ ~parser.failed /\ ~parser.writing /\ parser.used = <<>>
               /\ UNCHANGED toHost
               /\ parser' = [parser EXCEPT !.used = <<byte>>]
            \/ /\ ~parser.failed /\ ~parser.writing
               /\ \E a, x \in Tokens, n \in 0 .. 3 :
                    /\ parser.used = <<a>>
                    /\ Added(<<a, byte, x>>, n)
                    /\ x \in CommandTokens => x = a
                    /\ a \in Identities /\ byte = "-" => x = a
                    /\ parser' \in {[parser EXCEPT !.used = <<>>], Clean}
            \/ /\ ~parser.failed /\ parser.writing
               /\ \E n \in 0 .. 1 : Added(<<BadCrc>>, n)
               /\ parser'.writing => UNCHANGED toHost
               /\ parser'.used \in {parser.used, <<>>}
            \/ parser.failed /\ UNCHANGED <<parser, toHost>>
<1>1. byte \in CommandTokens /\ byte \in Tokens /\ byte # LineEnd /\ byte \notin Units
  BY TokenFacts, TokenAssumption DEF GreetTokens, HelloTokens, CommandTokens, LineEnd
<1>2. /\ parser \in Parsers
      /\ Len(parser.used) < 2 /\ Len(parser.got) < 4
      /\ toHost \in Seq(Tokens) /\ boot \in BOOLEAN
  BY DEF TypeInv, TypeOK, ParserOK, CommandLength, FrameLength
<1>3. Clean \in Parsers
      /\ Clean.used = <<>> /\ Clean.got = <<>> /\ ~Clean.writing /\ ~Clean.failed
  BY DEF Clean, Parsers
<1>4. CASE CommandByte(byte) /\ Len(parser.used) + 1 < CommandLength
  <2>1. parser.used = <<>>
    BY <1>2, <1>4, OneOrTwo DEF CommandLength
  <2>2. Append(parser.used, byte) = <<byte>> /\ <<byte>> \in Seq(Tokens) /\ Len(<<byte>>) = 1
    BY <1>1, <2>1
  <2>3. parser' = [parser EXCEPT !.used = <<byte>>]
    BY <1>4, <2>2 DEF CommandByte
  <2>4. ParserOK'
    <3>1. parser' \in Parsers /\ parser'.used = <<byte>> /\ parser'.got = parser.got
      BY <1>2, <2>2, <2>3 DEF Parsers
    <3>2. Len(parser'.used) = 1
      BY <2>2, <3>1
    <3>. QED BY <1>2, <3>1, <3>2 DEF ParserOK, CommandLength, FrameLength
  <2>. QED BY <1>2, <1>4, <2>1, <2>3, <2>4 DEF CommandByte
<1>5. CASE CommandByte(byte) /\ ~(Len(parser.used) + 1 < CommandLength)
  <2> DEFINE a == parser.used[1]
             p == [parser EXCEPT !.used = <<>>]
  <2>0. parser.used \in Seq(Tokens)
    BY <1>2 DEF Parsers
  <2>1. Len(parser.used) = 1
    <3>1. Len(parser.used) \in Nat /\ Len(parser.used) < 2
      BY <1>2, <2>0, LenProperties
    <3>2. ~(Len(parser.used) + 1 < 2)
      BY <1>5 DEF CommandLength
    <3> DEFINE k == Len(parser.used)
    <3> HIDE DEF k
    <3>3. k \in Nat /\ k < 2 /\ ~(k + 1 < 2)
      BY <3>1, <3>2 DEF k
    <3>4. k = 1
      BY <3>3
    <3>. QED BY <3>4 DEF k
  <2>2. parser.used = <<a>> /\ a \in Tokens
    BY <2>0, <2>1, OneOrTwo
  <2>3. Append(parser.used, byte) = <<a, byte>>
    BY <1>1, <2>0, <2>1, PairAppended
  <2>4. <<a, byte>>[1] = a /\ <<a, byte>>[2] = byte /\ <<a, byte>> # Eraser
    BY DEF Eraser, GreetTokens, HelloTokens
  <2>5. ~parser.failed /\ ~parser.writing /\ Answered(<<a, byte>>, p) /\ UNCHANGED job
    BY <1>1, <1>5, <2>3, <2>4 DEF CommandByte
  <2> HIDE DEF a
  <2>6. p \in Parsers
        /\ p.used = <<>> /\ p.got = parser.got
    BY <1>2, <<>> \in Seq(Tokens), ParserUpdates
  <2> HIDE DEF p
  <2>7. /\ \E x \in Tokens : /\ Send(<<a, byte, x>>, p)
                             /\ x \in CommandTokens => x = a
                             /\ a \in Identities /\ byte = "-" => x = a
        /\ boot' \in BOOLEAN /\ (boot' => boot \/ a = "BOOT")
    BY <1>1, <1>2, <2>2, <2>5, ShortAnswer
  <2>8. PICK x \in Tokens : /\ Send(<<a, byte, x>>, p)
                            /\ x \in CommandTokens => x = a
                            /\ a \in Identities /\ byte = "-" => x = a
    BY <2>7
  <2>9. <<a, byte, x>> \in Seq(Tokens) /\ Len(<<a, byte, x>>) = 3
    BY <1>1, <2>2
  <2>10. PICK n \in 0 .. 3 : Added(<<a, byte, x>>, n) /\ parser' \in {p, Clean}
    BY <1>2, <2>8, <2>9, SendFacts
  <2>11. ParserOK'
    BY <1>2, <1>3, <2>6, <2>10 DEF ParserOK, CommandLength, FrameLength
  <2>12. toHost' \in Seq(Tokens)
    BY <2>10 DEF Added
  <2>. QED BY <2>2, <2>5, <2>7, <2>8, <2>10, <2>11, <2>12 DEF p
<1>6. CASE PayloadByte(byte)
  <2> DEFINE got == Append(parser.got, byte)
             p == [parser EXCEPT !.writing = FALSE, !.got = <<>>]
  <2>0. parser.got \in Seq(Tokens)
    BY <1>2 DEF Parsers
  <2>1. /\ got \in Seq(Tokens) /\ Len(got) = Len(parser.got) + 1
        /\ got[Len(parser.got) + 1] = byte
    BY <1>1, <2>0, AppendFacts
  <2>2. ~parser.failed /\ parser.writing /\ UNCHANGED boot
    BY <1>6 DEF PayloadByte
  <2>3. CASE ~PayloadDone(got) /\ parser' = [parser EXCEPT !.got = got] /\ UNCHANGED <<toHost, job>>
    <3>1. Len(got) < 4
      BY <1>2, <2>0, <2>1, <2>3 DEF PayloadDone, FrameLength
    <3> HIDE DEF got
    <3>2. ParserOK'
      BY <1>2, <2>1, <2>3, <3>1 DEF ParserOK, Parsers, CommandLength, FrameLength
    <3>3. Added(<<BadCrc>>, 0)
      BY <1>2, <2>3 DEF Added
    <3>. QED BY <1>2, <2>2, <2>3, <3>2, <3>3
  <2>4. CASE /\ PayloadDone(got) /\ Send(<<BadCrc>>, p) /\ UNCHANGED job
    <3>1. <<BadCrc>> \in Seq(Tokens) /\ Len(<<BadCrc>>) = 1
      BY TokenFacts
    <3>2. PICK n \in 0 .. 1 : Added(<<BadCrc>>, n) /\ parser' \in {p, Clean}
      BY <1>2, <2>4, <3>1, SendFacts
    <3>3. p \in Parsers
          /\ p.used = parser.used /\ ~p.writing /\ p.got = <<>>
      BY <1>2, <<>> \in Seq(Tokens), ParserUpdates
    <3> HIDE DEF p
    <3>4. ParserOK' /\ ~parser'.writing /\ parser'.used \in {parser.used, <<>>}
      BY <1>2, <1>3, <3>2, <3>3 DEF ParserOK, CommandLength, FrameLength
    <3>5. toHost' \in Seq(Tokens)
      BY <3>2 DEF Added
    <3>. QED BY <1>2, <2>2, <2>4, <3>2, <3>4, <3>5
  <2>5. ASSUME PayloadDone(got), NEW d \in Contents, Frame[d] = got
        PROVE  FALSE
    <3>1. Frame[d][FrameLength] = byte
        BY <2>0, <2>1, <2>5 DEF PayloadDone
    <3>. QED BY <1>1, <3>1, FrameFacts
  <2>. QED BY <1>6, <2>3, <2>4, <2>5 DEF PayloadByte
<1>7. CASE IgnoredByte(byte)
  BY <1>1, <1>2, <1>7 DEF IgnoredByte, ParserOK, CommandLength, FrameLength
<1>. QED BY <1>4, <1>5, <1>6, <1>7

-----------------------------------------------------------------------------
(* Receive *)

LEMMA ReceiveFacts ==
  ASSUME TypeInv, Receive
  PROVE  /\ dtr /\ job = NoJob /\ ~boot
         /\ Head(toDev) = toDev[1] /\ toDev[1] \in Tokens
         /\ Len(toDev) \in Nat /\ Len(toDev) > 0
         /\ toDev' \in Seq(Tokens) /\ Len(toDev') = Len(toDev) - 1
         /\ \A i \in 1 .. Len(toDev') : toDev'[i] = toDev[i + 1]
         /\ CommandByte(toDev[1]) \/ PayloadByte(toDev[1]) \/ IgnoredByte(toDev[1])
         /\ UNCHANGED <<dtr, plugged, flash, asked>>
<1>1. toDev \in Seq(Tokens) /\ toDev # <<>> /\ toDev' = Tail(toDev)
  BY DEF TypeInv, Receive
<1>2. /\ toDev' \in Seq(Tokens) /\ Len(toDev') = Len(toDev) - 1
      /\ Head(toDev) = toDev[1] /\ toDev[1] \in Tokens
      /\ \A i \in 1 .. Len(toDev') : toDev'[i] = toDev[i + 1]
      /\ Len(toDev) \in Nat /\ Len(toDev) > 0
  BY <1>1, TailFacts, LenProperties
<1>. QED BY <1>2 DEF Receive

GreetStep(byte) ==
  \/ /\ ~parser.failed /\ ~parser.writing /\ parser.used = <<>>
     /\ UNCHANGED toHost
     /\ ~parser'.failed /\ ~parser'.writing /\ parser'.used = <<byte>>
  \/ /\ ~parser.failed /\ ~parser.writing
     /\ \E a, x \in Tokens, n \in 0 .. 3 :
          /\ parser.used = <<a>>
          /\ Added(<<a, byte, x>>, n)
          /\ x \in CommandTokens => x = a
          /\ a \in Identities /\ byte = "-" => x = a
     /\ ~parser'.failed /\ ~parser'.writing /\ parser'.used = <<>>
  \/ /\ parser.writing
     /\ \E n \in 0 .. 1 : Added(<<BadCrc>>, n)
     /\ parser'.used \in {parser.used, <<>>}
  \/ parser.failed /\ UNCHANGED <<parser, toHost>>

\* A byte of a greeting disturbs only the parser and what the host receives.
LEMMA ReceiveGreet ==
  ASSUME IInv, Receive, UNCHANGED hostVars, ~board, toDev[1] \in GreetTokens
  PROVE  /\ UNCHANGED <<hpc, call, board, sessions, calls, belief, dtr, plugged, flash, asked>>
         /\ ~board /\ hpc # "closed" /\ job = NoJob /\ job' = NoJob
         /\ TypeInv' /\ LineInv' /\ BoardInv' /\ CallInv' /\ BeliefIsTrue' /\ JobInv'
         /\ BoardModeInv'
         /\ GreetStep(toDev[1])
<1> DEFINE byte == toDev[1]
<1>0. /\ TypeInv /\ LineInv /\ BoardInv /\ JobInv /\ CallInv /\ BeliefIsTrue
      /\ BoardModeInv
  BY DEF IInv
<1>1. /\ UNCHANGED <<hpc, call, board, sessions, calls, belief, dtr, plugged, flash, asked>>
      /\ ~board /\ hpc # "closed" /\ ~boot /\ job = NoJob
  BY <1>0, ReceiveFacts DEF hostVars, LineInv
<1>3. byte \in GreetTokens /\ (CommandByte(byte) \/ PayloadByte(byte) \/ IgnoredByte(byte))
  BY <1>0, ReceiveFacts
<1> HIDE DEF byte
<1>4. UNCHANGED job /\ ParserOK' /\ toHost' \in Seq(Tokens)
      /\ boot' \in BOOLEAN /\ (boot' => boot \/ parser.used = <<"BOOT">>)
  BY <1>0, <1>3, GreetByte
<1>5. TypeInv'
  BY <1>0, <1>1, <1>4, ReceiveFacts DEF TypeInv, TypeOK
<1>6. LineInv' /\ BoardInv' /\ CallInv' /\ BeliefIsTrue' /\ BoardModeInv'
  BY <1>0, <1>1 DEF LineInv, BoardInv, CallInv, BeliefIsTrue, InCall, Op, BoardModeInv
<1>7. parser \in Parsers /\ byte # "BOOT" /\ byte \in Tokens
  <2>1. parser \in Parsers
    BY <1>0 DEF TypeInv, TypeOK, ParserOK
  <2>2. byte # "BOOT" /\ byte \in CommandTokens
    BY <1>3 DEF GreetTokens, HelloTokens, CommandTokens
  <2>. QED BY <2>1, <2>2, TokenFacts
<1>8. GreetStep(byte)
  <2>1. <<>> \in Seq(Tokens) /\ <<byte>> \in Seq(Tokens)
    BY <1>7
  <2>2. /\ [parser EXCEPT !.used = <<byte>>].used = <<byte>>
        /\ [parser EXCEPT !.used = <<byte>>].writing = parser.writing
        /\ [parser EXCEPT !.used = <<byte>>].failed = parser.failed
        /\ [parser EXCEPT !.used = <<>>].used = <<>>
        /\ [parser EXCEPT !.used = <<>>].writing = parser.writing
        /\ [parser EXCEPT !.used = <<>>].failed = parser.failed
        /\ Clean.used = <<>> /\ ~Clean.writing /\ ~Clean.failed
    BY <1>7, <2>1, ParserUpdates DEF Clean
  <2>. QED BY <1>0, <1>3, <2>2, GreetByte DEF GreetStep
<1>9. JobInv'
  <2>1. parser'.used = <<"BOOT">> => parser.used = <<"BOOT">>
    BY <1>7, <1>8 DEF GreetStep
  <2>. QED BY <1>0, <1>1, <1>4, <2>1 DEF JobInv, BootAsked, NoJob
<1>. QED BY <1>1, <1>4, <1>5, <1>6, <1>8, <1>9 DEF byte

LEMMA ReceiveGreeting ==
  ASSUME IInv, Receive, UNCHANGED hostVars, Greeting
  PROVE  IInv'
<1> DEFINE byte == toDev[1]
<1>0. ~board /\ TypeInv /\ LeftOver /\ ReadInfoInv
  BY DEF IInv, Greeting
<1>2. byte \in HelloTokens /\ OnlyHello(toDev')
  BY <1>0, ReceiveFacts DEF LeftOver, OnlyHello
<1>1. /\ UNCHANGED <<hpc, call, board, sessions, calls, belief, dtr, plugged, flash, asked>>
      /\ ~board /\ hpc # "closed" /\ job = NoJob /\ job' = NoJob
      /\ TypeInv' /\ LineInv' /\ BoardInv' /\ CallInv' /\ BeliefIsTrue' /\ JobInv'
      /\ BoardModeInv'
      /\ GreetStep(byte)
  BY <1>0, <1>2, ReceiveGreet DEF GreetTokens
<1> HIDE DEF byte
<1>3. toHost \in Seq(Tokens) /\ byte # "READVERS"
  BY <1>0, <1>2 DEF TypeInv, HelloTokens
<1>4. LeftOver'
  BY <1>1, <1>2 DEF LeftOver
<1>5. ASSUME Greeted
       PROVE  Greeted'
  <2>1. HelloParser'
    BY <1>2, <1>1, <1>5 DEF Greeted, HelloParser, HelloTokens, GreetStep
  <2>2. NoVersion'
    <3>1. ASSUME NEW a \in Tokens, NEW x \in Tokens, NEW n \in 0 .. 3,
                 parser.used = <<a>>, Added(<<a, byte, x>>, n), x \in CommandTokens => x = a
          PROVE  NoVersion'
      <4>1. a # "READVERS" /\ x # "READVERS"
        BY <1>5, <3>1 DEF Greeted, HelloParser, CommandTokens
      <4>2. \A j \in 1 .. n : <<a, byte, x>>[j] # "READVERS"
        BY <1>3, <4>1
      <4>3. \A i \in 1 .. Len(toHost') : \/ \E j \in 1 .. Len(toHost) : toHost'[i] = toHost[j]
                                         \/ \E j \in 1 .. n : toHost'[i] = <<a, byte, x>>[j]
        <5>1. toHost \in Seq(Tokens) /\ n \in Nat /\ Added(<<a, byte, x>>, n)
          BY <1>3, <3>1
        <5>. QED BY ONLY <5>1, AddedFacts
      <4>. QED BY <1>5, <4>2, <4>3 DEF Greeted, NoVersion
    <3>. QED BY <1>1, <1>5, <3>1 DEF Greeted, NoVersion, HelloParser, GreetStep
  <2>. QED BY <1>1, <2>1, <2>2 DEF Greeted
<1>6. ASSUME Dead
       PROVE  Dead'
  <2>1. ASSUME NEW r, NEW n \in Nat, Added(r, n)
        PROVE  Dead'
    BY <1>3, <1>6, <2>1, AddedFacts DEF Dead
  <2>2. 0 .. 3 \subseteq Nat /\ 0 .. 1 \subseteq Nat
    OBVIOUS
  <2>. QED BY <1>1, <1>6, <2>1, <2>2 DEF Dead, GreetStep
<1>7. ASSUME toHost = <<>>
       PROVE  (Dead \/ toHost = <<>> \/ Greeted)'
  <2>1. ASSUME NEW a \in Tokens, NEW x \in Tokens, NEW n \in 0 .. 3,
               parser.used = <<a>>, Added(<<a, byte, x>>, n), x \in CommandTokens => x = a,
               a = "READINFO", ~parser'.writing, parser'.used = <<>>
        PROVE  Greeted'
    <3>1. x # "READVERS"
      BY <2>1 DEF CommandTokens
    <3>2. \A j \in 1 .. n : <<a, byte, x>>[j] # "READVERS"
      BY <1>3, <2>1, <3>1
    <3>3. NoVersion'
      BY <1>3, <1>7, <2>1, <3>2, AddedFacts DEF NoVersion
    <3>. QED BY <1>1, <2>1, <3>3 DEF Greeted, HelloParser
  <2>2. ASSUME NEW a \in Tokens, NEW x \in Tokens, NEW n \in 0 .. 3,
               Added(<<a, byte, x>>, n), a # "READINFO"
        PROVE  (Dead \/ toHost = <<>>)'
    BY <1>3, <1>7, <2>2, AddedFacts DEF Dead
  <2>3. ASSUME NEW n \in 0 .. 1, Added(<<BadCrc>>, n)
        PROVE  (Dead \/ toHost = <<>>)'
    BY <1>3, <1>7, <2>3, AddedFacts DEF Dead, BadCrc
  <2>. QED BY <1>1, <1>7, <2>1, <2>2, <2>3 DEF GreetStep
<1>8. ReadInfoInv'
  BY <1>0, <1>1, <1>5, <1>6, <1>7 DEF ReadInfoInv, Greeting, Op
<1>9. VersionInv'
  BY <1>1 DEF VersionInv, Greeting, BoardInv, InCall, Op, Waiting
<1>. QED BY <1>1, <1>4, <1>8, <1>9 DEF IInv

LEMMA HelloIsNoVersion ==
  <<>> # <<"READVERS">> /\ <<"READINFO">> # <<"READVERS">> /\ <<"-">> # <<"READVERS">>
OBVIOUS

LEMMA ReceiveVersion ==
  ASSUME IInv, Receive, UNCHANGED hostVars, InCall, Op = "READVERS"
  PROVE  IInv'
<1> DEFINE byte == toDev[1]
<1>0. ~board /\ TypeInv /\ BoardInv /\ VersionInv
  BY DEF IInv, BoardInv, InCall, Waiting
<1>1. /\ toDev' \in Seq(Tokens) /\ toDev \in Seq(Tokens)
      /\ Len(toDev) \in Nat /\ Len(toDev) > 0 /\ Len(toDev') = Len(toDev) - 1
      /\ \A i \in 1 .. Len(toDev') : toDev'[i] = toDev[i + 1]
  BY <1>0, ReceiveFacts DEF TypeInv
<1>2. hpc = "echo" /\ ~parser.writing /\ (VersionComing \/ VersionStarted \/ VersionLost)
  BY <1>0, <1>1 DEF VersionInv, VersionSaid
<1>3. byte \in GreetTokens
  <2>1. CASE VersionComing
    BY <1>1, <2>1 DEF VersionComing, GreetTokens
  <2>2. CASE VersionStarted
    BY <2>2 DEF VersionStarted, GreetTokens, HelloTokens
  <2>3. CASE VersionLost
    BY <1>1, <2>3 DEF VersionLost, OnlyHello, GreetTokens
  <2>. QED BY <1>2, <2>1, <2>2, <2>3
<1>4. /\ UNCHANGED <<hpc, call, board, sessions, calls, belief, dtr, plugged, flash, asked>>
      /\ ~board /\ hpc # "closed" /\ job = NoJob /\ job' = NoJob
      /\ TypeInv' /\ LineInv' /\ BoardInv' /\ CallInv' /\ BeliefIsTrue' /\ JobInv'
      /\ BoardModeInv'
      /\ GreetStep(byte)
  BY <1>0, <1>3, ReceiveGreet
<1> HIDE DEF byte
<1>5. toHost \in Seq(Tokens) /\ ~parser'.writing
  BY <1>0, <1>2, <1>4 DEF TypeInv, GreetStep
<1> DEFINE Versions == VersionComing \/ VersionStarted \/ VersionSaid \/ VersionLost
<1>6. ASSUME NotVersion, parser.used # <<"READVERS">>
      PROVE  NotVersion'
  <2>1. ASSUME NEW a, NEW x, NEW n \in 0 .. 3, Added(<<a, byte, x>>, n), a # "READVERS"
        PROVE  NotVersion'
    BY <1>5, <1>6, <2>1, AddedFacts DEF NotVersion
  <2>. QED BY <1>2, <1>4, <1>6, <2>1 DEF NotVersion, GreetStep
<1>7. ASSUME VersionComing, Len(toDev) > 2
      PROVE  Versions'
  <2>1. byte \in HelloTokens
    BY <1>7, <1>1 DEF VersionComing, byte
  <2>2. HelloParser'
    BY <1>2, <1>4, <1>7, <2>1 DEF VersionComing, HelloParser, HelloTokens, GreetStep
  <2>3. /\ Len(toDev') >= 2
        /\ toDev'[Len(toDev') - 1] = "READVERS" /\ toDev'[Len(toDev')] = "-"
        /\ \A i \in 1 .. Len(toDev') - 2 : toDev'[i] \in HelloTokens
    <3> DEFINE n == Len(toDev)  m == Len(toDev')
    <3>1. /\ n \in Nat /\ n > 2 /\ m = n - 1 /\ \A i \in 1 .. m : toDev'[i] = toDev[i + 1]
          /\ toDev[n - 1] = "READVERS" /\ toDev[n] = "-"
          /\ \A i \in 1 .. n - 2 : toDev[i] \in HelloTokens
      BY <1>1, <1>7 DEF VersionComing
    <3> HIDE DEF n, m
    <3>2. m \in Nat /\ m >= 2 /\ m - 1 \in 1 .. m /\ m \in 1 .. m
          /\ (m - 1) + 1 = n - 1 /\ m + 1 = n
      BY <3>1
    <3>3. toDev'[m - 1] = "READVERS" /\ toDev'[m] = "-"
      BY <3>1, <3>2
    <3>4. \A i \in 1 .. m - 2 : i \in 1 .. m /\ i + 1 \in 1 .. n - 2
      BY <3>1
    <3>5. \A i \in 1 .. m - 2 : toDev'[i] \in HelloTokens
      BY <3>1, <3>4
    <3>. QED BY <3>2, <3>3, <3>5 DEF m
  <2>4. NotVersion'
    <3>1. parser.used # <<"READVERS">>
      BY <1>7, HelloIsNoVersion DEF VersionComing, HelloParser
    <3>. QED BY <1>6, <1>7, <3>1 DEF VersionComing
  <2>. QED BY <2>2, <2>3, <2>4 DEF VersionComing
<1>8. ASSUME VersionComing, ~(Len(toDev) > 2)
      PROVE  Versions'
  <2>1. Len(toDev) = 2 /\ byte = "READVERS" /\ toDev[2] = "-"
    BY <1>8, <1>1 DEF VersionComing, byte
  <2>2. toDev' = <<"-">>
    BY <1>1, <2>1, OneOrTwo
  <2>3. NotVersion'
    <3>1. parser.used # <<"READVERS">>
      BY <1>8, HelloIsNoVersion DEF VersionComing, HelloParser
    <3>. QED BY <1>6, <1>8, <3>1 DEF VersionComing
  <2>4. (parser.used = <<>> /\ ~parser'.failed /\ parser'.used = <<"READVERS">>)
        \/ parser'.used # <<"READVERS">>
    BY <1>2, <1>4, <1>8, <2>1 DEF VersionComing, HelloParser, GreetStep
  <2>. QED BY <2>2, <2>3, <2>4 DEF VersionStarted, VersionLost, OnlyHello, HelloTokens
<1>9. ASSUME VersionStarted
      PROVE  Versions'
  <2>1. byte = "-" /\ toDev' = <<>> /\ ~parser.failed /\ parser.used = <<"READVERS">>
    BY <1>1, <1>9 DEF VersionStarted, byte
  <2>2. PICK n \in 0 .. 3 : Added(<<"READVERS", "-", "READVERS">>, n)
    <3>1. parser.used # <<>>
      BY <2>1
    <3>2. PICK a \in Tokens, x \in Tokens, n \in 0 .. 3 :
            /\ parser.used = <<a>> /\ Added(<<a, byte, x>>, n)
            /\ a \in Identities /\ byte = "-" => x = a
      BY <1>2, <1>4, <2>1, <3>1 DEF GreetStep
    <3>3. a = "READVERS"
      BY <2>1, <3>2
    <3>4. x = "READVERS"
      BY <2>1, <3>2, <3>3 DEF Identities
    <3>. QED BY <2>1, <3>2, <3>3, <3>4
  <2>3. Idle'
    BY <1>2, <1>4, <2>1 DEF GreetStep, Idle
  <2>4. CASE toHost = <<>> /\ n > 0
    <3>1. /\ toHost' \in Seq(Tokens) /\ Len(toHost') = n
          /\ \A i \in 1 .. n : toHost'[i] = <<"READVERS", "-", "READVERS">>[i]
      BY <2>2, <2>4 DEF Added
    <3>2. toHost' \in {<<"READVERS">>, <<"READVERS", "-">>, <<"READVERS", "-", "READVERS">>}
      <4>1. CASE n = 1
        BY <3>1, <4>1, OneOrTwo
      <4>2. CASE n = 2
        BY <3>1, <4>2, OneOrTwo
      <4>3. CASE n = 3
        <5>1. <<"READVERS", "-", "READVERS">> \in Seq(CommandTokens)
          BY DEF CommandTokens
        <5>. QED BY <3>1, <4>3, <5>1, SeqEqual
      <4>. QED BY <2>4, <4>1, <4>2, <4>3
    <3>. QED BY <2>1, <2>3, <3>2 DEF VersionSaid
  <2>5. CASE ~(toHost = <<>> /\ n > 0)
    <3>1. NotVersion'
      BY <1>5, <1>9, <2>2, <2>5, AddedFacts DEF NotVersion, VersionStarted
    <3>. QED BY <2>1, <2>3, <3>1 DEF VersionLost, Idle, OnlyHello
  <2>. QED BY <2>4, <2>5
<1>10. ASSUME VersionLost
       PROVE  Versions'
  <2>1. byte \in HelloTokens /\ OnlyHello(toDev')
    BY <1>1, <1>10 DEF VersionLost, OnlyHello, byte
  <2>2. parser'.used # <<"READVERS">>
    BY <1>2, <1>4, <1>10, <2>1 DEF GreetStep, HelloTokens, VersionLost
  <2>. QED BY <1>6, <1>10, <2>1, <2>2 DEF VersionLost
<1>11. VersionInv'
  BY <1>2, <1>4, <1>5, <1>7, <1>8, <1>9, <1>10 DEF VersionInv
<1>12. LeftOver' /\ ReadInfoInv'
  BY <1>0, <1>2, <1>4 DEF LeftOver, ReadInfoInv, Greeting, Op, BoardInv, Waiting
<1>. QED BY <1>4, <1>11, <1>12 DEF IInv

\* The command of a call is complete and has no flash operation: the reply.
LEMMA WorkAnswer ==
  ASSUME TypeInv, hpc = "echo", toHost = <<>>, job = NoJob,
         Op \notin {"READINFO", "READVERS"},
         NEW p \in Parsers, p.used = <<>>, ~p.writing, ~p.failed, Len(p.got) < FrameLength,
         Answered(call.cmd, p), UNCHANGED <<hpc, call, flash, job>>, toDev' = <<>>
  PROVE  /\ Replied' \/ Uploading'
         /\ ParserOK' /\ toHost' \in Seq(Tokens)
         /\ parser'.used = <<>>
         /\ boot' \in BOOLEAN /\ (boot' => boot \/ Op = "BOOT")
<1>1. /\ call.cmd = <<Op, Arg>> /\ Op \in Tokens /\ Arg \in Tokens
      /\ \/ Op \in {"DEVID", "BOOT"} /\ Arg = "-"
         \/ Op = "ERASE" /\ Arg = "ALL"
         \/ Op \in {"ERBANK", "RDBANK", "WRBK"} /\ Arg \in Units
  BY CallFacts, TokenFacts DEF TypeInv, TypeOK
<1>2. Op' = Op /\ Arg' = Arg /\ Taken' = 0
  BY DEF Op, Arg, Taken
<1>3. call.cmd[1] = Op /\ call.cmd[2] = Arg
  BY DEF Op, Arg
<1>4. /\ toHost \in Seq(Tokens) /\ boot \in BOOLEAN /\ flash \in [Units -> Contents]
      /\ "-" \notin Units /\ "ALL" \notin Units
  BY TokenAssumption DEF TypeInv, TypeOK, CommandTokens
<1>5. \A x \in Tokens : call.cmd \o <<x>> = <<Op, Arg, x>>
  BY <1>1, PairAndOne
<1>6. ASSUME NEW r \in Seq(Tokens), NEW q \in Parsers, Send(r, q)
      PROVE  \E n \in 0 .. Len(r) :
               /\ toHost' \in Seq(Tokens) /\ Len(toHost') = n
               /\ \A i \in 1 .. n : toHost'[i] = r[i]
               /\ RemainsAt(toHost', r, 0)
               /\ parser' = IF n = Len(r) THEN q ELSE Clean
  <2>1. PICK n \in 0 .. Len(r) : /\ Added(r, n)
                                 /\ parser' = IF n = Len(r) THEN q ELSE Clean
    BY <1>4, <1>6, SendFacts
  <2>2. /\ toHost' \in Seq(Tokens) /\ Len(toHost') = n
        /\ \A i \in 1 .. n : toHost'[i] = r[i]
    BY <2>1 DEF Added
  <2>. QED BY <2>1, <2>2 DEF RemainsAt
<1>7. Clean \in Parsers /\ Clean.used = <<>> /\ ~Clean.writing /\ ~Clean.failed /\ Clean.got = <<>>
  BY DEF Clean, Parsers
<1>8. ASSUME NEW x \in Tokens, Send(<<Op, Arg, x>>, p)
      PROVE  /\ Idle' /\ ParserOK' /\ toHost' \in Seq(Tokens)
             /\ Remains(<<Op, Arg, x>>)'
  <2>1. <<Op, Arg, x>> \in Seq(Tokens)
    BY <1>1
  <2>2. PICK n \in 0 .. Len(<<Op, Arg, x>>) :
               /\ toHost' \in Seq(Tokens)
               /\ RemainsAt(toHost', <<Op, Arg, x>>, 0)
               /\ parser' = IF n = Len(<<Op, Arg, x>>) THEN p ELSE Clean
    BY <1>6, <1>8, <2>1
  <2>3. parser' \in {p, Clean}
    BY <2>2
  <2>4. Idle' /\ ParserOK'
    BY <1>7, <2>3 DEF Idle, ParserOK, CommandLength, FrameLength
  <2>. QED BY <1>2, <2>2, <2>4 DEF Remains
<1>9. CASE Op = "DEVID"
  <2>1. Send(call.cmd \o <<Op>>, p) /\ UNCHANGED boot
    BY <1>1, <1>3, <1>4, <1>9 DEF Answered, Identities, Reads, Eraser
  <2>2. Replied' /\ ParserOK' /\ toHost' \in Seq(Tokens) /\ Idle'
    BY <1>1, <1>2, <1>5, <1>8, <1>9, <2>1 DEF Replied
  <2>. QED BY <1>4, <2>1, <2>2 DEF Idle
<1>10. CASE Op = "BOOT"
  <2>1. Send(call.cmd \o <<Ok>>, p) /\ boot' = TRUE
    BY <1>1, <1>3, <1>4, <1>10 DEF Answered, Identities, Reads, Eraser
  <2>2. Replied' /\ ParserOK' /\ toHost' \in Seq(Tokens) /\ Idle'
    BY <1>1, <1>2, <1>5, <1>8, <1>10, <2>1, TokenFacts DEF Replied
  <2>. QED BY <1>4, <1>10, <2>1, <2>2 DEF Idle
<1>11. CASE Op = "RDBANK"
  <2>1. Send(call.cmd \o <<Ok>> \o Frame[flash[Arg]], p) /\ UNCHANGED boot
    BY <1>1, <1>3, <1>4, <1>11 DEF Answered, Identities, Reads, Eraser
  <2> DEFINE r == <<Op, Arg, Ok>> \o Frame[flash[Arg]]
  <2>2. Send(r, p)
    BY <1>5, <2>1, TokenFacts
  <2>3. r \in Seq(Tokens)
    <3>1. <<Op, Arg, Ok>> \in Seq(Tokens)
      BY <1>1, TokenFacts
    <3>2. Frame[flash[Arg]] \in Seq(Tokens)
      BY <1>1, <1>4, <1>11, FrameFacts
    <3>. QED BY <3>1, <3>2, ConcatFacts
  <2>4. r' = r
    BY <1>2
  <2> HIDE DEF r
  <2>5. PICK n \in 0 .. Len(r) :
               /\ toHost' \in Seq(Tokens)
               /\ RemainsAt(toHost', r, 0)
               /\ parser' = IF n = Len(r) THEN p ELSE Clean
    BY <1>6, <2>2, <2>3
  <2>6. parser' \in {p, Clean}
    BY <2>5
  <2>7. Idle' /\ ParserOK'
    BY <1>7, <2>6 DEF Idle, ParserOK, CommandLength, FrameLength
  <2>8. Remains(r)'
    BY <1>2, <2>4, <2>5 DEF Remains
  <2>. QED BY <1>2, <1>4, <1>11, <2>1, <2>5, <2>7, <2>8 DEF Replied, r, Idle
<1>12. CASE Op = "WRBK"
  <2> DEFINE q == [p EXCEPT !.writing = TRUE, !.got = <<>>, !.unit = Arg]
  <2>1. Send(call.cmd \o <<Ok>>, q) /\ UNCHANGED boot
    BY <1>1, <1>3, <1>4, <1>12 DEF Answered, Identities, Reads, Eraser
  <2>2. /\ q \in Parsers /\ q.used = <<>> /\ q.writing /\ ~q.failed
        /\ q.got = <<>> /\ q.unit = Arg
    BY <1>1, <1>12, ParserAccepts
  <2> HIDE DEF q
  <2>3. <<Op, Arg, Ok>> \in Seq(Tokens) /\ Len(<<Op, Arg, Ok>>) = 3
    BY <1>1, TokenFacts
  <2>4. PICK n \in 0 .. 3 :
               /\ toHost' \in Seq(Tokens) /\ Len(toHost') = n
               /\ \A i \in 1 .. n : toHost'[i] = <<Op, Arg, Ok>>[i]
               /\ RemainsAt(toHost', <<Op, Arg, Ok>>, 0)
               /\ parser' = IF n = 3 THEN q ELSE Clean
    <3> DEFINE r == <<Op, Arg, Ok>>
    <3>1. r \in Seq(Tokens) /\ Len(r) = 3 /\ q \in Parsers /\ Send(r, q)
      BY <1>5, <2>1, <2>2, <2>3, TokenFacts
    <3> HIDE DEF r
    <3>2. PICK n \in 0 .. Len(r) :
               /\ toHost' \in Seq(Tokens) /\ Len(toHost') = n
               /\ \A i \in 1 .. n : toHost'[i] = r[i]
               /\ RemainsAt(toHost', r, 0)
               /\ parser' = IF n = Len(r) THEN q ELSE Clean
      BY <1>6, <3>1
    <3>. QED BY <3>1, <3>2 DEF r
  <2>5. CASE n = 3
    <3>1. parser' = q
      BY <2>4, <2>5
    <3>2. ParserOK'
      BY <2>2, <3>1 DEF ParserOK, CommandLength, FrameLength
    <3>3. Whole(<<Op, Arg, Ok>>)'
      BY <1>2, <2>3, <2>4, <2>5 DEF Whole, Remains
    <3>4. Uploading'
      BY <1>2, <1>12, <2>2, <3>1, <3>3 DEF Uploading
    <3>. QED BY <1>4, <2>1, <2>2, <2>4, <3>1, <3>2, <3>4
  <2>6. CASE n # 3
    <3>1. parser' = Clean
      BY <2>4, <2>6
    <3>2. ParserOK' /\ Idle'
      BY <1>7, <3>1 DEF ParserOK, CommandLength, FrameLength, Idle
    <3>3. RemainsAt(toHost', <<Op, Arg>>, 0)
      BY <2>4, <2>6 DEF RemainsAt
    <3>4. Replied'
      BY <1>2, <1>12, <3>2, <3>3 DEF Replied, Remains
    <3>. QED BY <1>4, <2>1, <2>4, <3>2, <3>4 DEF Idle
  <2>. QED BY <2>5, <2>6
<1>13. CASE Op \in {"ERASE", "ERBANK"}
  BY <1>1, <1>3, <1>4, <1>13 DEF Answered, Identities, Reads, Eraser
<1>. QED BY <1>1, <1>9, <1>10, <1>11, <1>12, <1>13

\* The kinds of calls a connected board takes, and the jobs they ask for.
LEMMA WorkFacts ==
  ASSUME call \in Calls, Op \notin {"READINFO", "READVERS"}
  PROVE  /\ call.cmd = <<Op, Arg>> /\ Op \in CommandTokens /\ Arg \in Tokens
         /\ Arg \notin {"BOOT", "READVERS", "READINFO"} /\ Op # LineEnd
         /\ JobOf(call) = [op |-> Op, unit |-> Arg, data |-> call.data]
         /\ JobOf(call) # NoJob
         /\ Op \in {"ERASE", "ERBANK", "WRBK", "BOOT"} => JobOf(call) \in Jobs
         /\ \/ Op \in {"DEVID", "BOOT"} /\ Arg = "-" /\ call.data = Blank
            \/ Op = "ERASE" /\ Arg = "ALL" /\ call.data = Blank
            \/ Op \in {"ERBANK", "RDBANK"} /\ Arg \in Units /\ call.data = Blank
            \/ Op = "WRBK" /\ Arg \in Units /\ call.data \in Data
<1>1. /\ call.cmd = <<Op, Arg>> /\ Op \in CommandTokens /\ Arg \in Tokens
      /\ \/ Op \in {"DEVID", "BOOT"} /\ Arg = "-" /\ call.data = Blank
         \/ Op = "ERASE" /\ Arg = "ALL" /\ call.data = Blank
         \/ Op \in {"ERBANK", "RDBANK"} /\ Arg \in Units /\ call.data = Blank
         \/ Op = "WRBK" /\ Arg \in Units /\ call.data \in Data
  BY CallFacts
<1>2. JobOf(call) = [op |-> Op, unit |-> Arg, data |-> call.data]
  BY DEF JobOf, Op, Arg
<1>3. Arg \notin {"BOOT", "READVERS", "READINFO"}
  BY <1>1, TokenAssumption DEF CommandTokens
<1>4. Op # LineEnd /\ Op # "none"
  BY <1>1 DEF CommandTokens, LineEnd
<1>5. JobOf(call) # NoJob
  BY <1>2, <1>4 DEF NoJob
<1>6. Op \in {"ERASE", "ERBANK", "WRBK", "BOOT"} => JobOf(call) \in Jobs
  BY <1>1, <1>2 DEF Jobs
<1>. QED BY <1>1, <1>2, <1>3, <1>4, <1>5, <1>6

\* While the command is on its way.
LEMMA ReceiveCommand ==
  ASSUME TypeInv, JobInv, CallInv, InCall, Op \notin {"READINFO", "READVERS"}, Sending,
         Receive, UNCHANGED hostVars
  PROVE  /\ InFlight' /\ ParserOK' /\ toHost' \in Seq(Tokens) /\ boot' \in BOOLEAN
         /\ job' \in {NoJob, JobOf(call)} /\ (job' # NoJob => Op \in {"ERASE", "ERBANK"} /\ Idle')
         /\ boot' \/ parser'.used = <<"BOOT">> => BootAsked
<1> DEFINE byte == toDev[1]
<1>1. /\ call \in Calls /\ parser \in Parsers /\ ParserOK
      /\ toHost \in Seq(Tokens) /\ toDev \in Seq(Tokens) /\ boot \in BOOLEAN
  BY DEF TypeInv, TypeOK, ParserOK
<1>2. /\ call.cmd = <<Op, Arg>> /\ Op \in CommandTokens /\ Arg \in Tokens
      /\ Arg \notin {"BOOT", "READVERS", "READINFO"} /\ Op # LineEnd
  BY <1>1, WorkFacts
<1>3. /\ toDev' \in Seq(Tokens) /\ Len(toDev') = Len(toDev) - 1
      /\ \A i \in 1 .. Len(toDev') : toDev'[i] = toDev[i + 1]
      /\ Len(toDev) \in Nat /\ Len(toDev) > 0
      /\ CommandByte(byte) \/ PayloadByte(byte) \/ IgnoredByte(byte)
      /\ ~boot /\ UNCHANGED <<hpc, call, flash, asked>>
  BY ReceiveFacts DEF hostVars
<1>4. Op' = Op /\ Arg' = Arg /\ Taken' = Taken
  BY <1>3 DEF Op, Arg, Taken
<1>5. /\ hpc = "echo" /\ toHost = <<>> /\ job = NoJob /\ ~parser.writing /\ ~parser.failed
      /\ ~PayloadByte(byte) /\ Len(parser.got) < FrameLength
  BY <1>1 DEF Sending, PayloadByte, ParserOK
<1>6. Op = "BOOT" => BootAsked
  BY <1>1, WorkFacts DEF CallInv, BootAsked
<1>7. ASSUME CommandByte(byte), parser.used = <<>>
      PROVE  /\ parser'.used = <<byte>> /\ parser'.writing = parser.writing
             /\ parser'.failed = parser.failed
             /\ ParserOK' /\ UNCHANGED <<toHost, job, boot>>
  <2>1. byte \in Tokens /\ <<byte>> \in Seq(Tokens) /\ Len(<<byte>>) = 1
    BY ReceiveFacts
  <2> HIDE DEF byte
  <2>2. Append(parser.used, byte) = <<byte>> /\ Len(parser.used) + 1 < CommandLength
    BY <1>7, <2>1 DEF CommandLength
  <2>3. parser' = [parser EXCEPT !.used = <<byte>>] /\ UNCHANGED <<toHost, job, boot>>
    BY <1>7, <2>2 DEF CommandByte
  <2>4. /\ parser' \in Parsers /\ parser'.used = <<byte>> /\ parser'.writing = parser.writing
        /\ parser'.failed = parser.failed /\ parser'.got = parser.got
    <3> DEFINE s == <<byte>>
    <3>1. parser \in Parsers /\ s \in Seq(Tokens) /\ parser' = [parser EXCEPT !.used = s]
      BY <1>1, <2>1, <2>3
    <3> HIDE DEF s
    <3>2. /\ parser' \in Parsers /\ parser'.used = s /\ parser'.writing = parser.writing
          /\ parser'.failed = parser.failed /\ parser'.got = parser.got
      BY ONLY <3>1, ParserUsed
    <3>. QED BY <3>2 DEF s
  <2>5. ParserOK'
    BY <1>1, <2>1, <2>4 DEF ParserOK, CommandLength, FrameLength
  <2>. QED BY <2>3, <2>4, <2>5
<1>8. ASSUME toDev = call.cmd, parser.used = <<>>
      PROVE  /\ Sending' /\ ParserOK' /\ UNCHANGED <<toHost, job, boot>>
             /\ parser'.used = <<"BOOT">> => BootAsked
  <2>1. byte = Op /\ toDev[2] = Arg /\ Len(toDev') = 1 /\ toDev'[1] = Arg
    BY <1>2, <1>3, <1>8
  <2>2. toDev' = <<Arg>>
    BY <1>3, <2>1, OneOrTwo
  <2>3. CommandByte(byte)
    BY <1>2, <1>3, <1>5, <2>1 DEF IgnoredByte
  <2>4. /\ parser'.used = <<Op>> /\ ~parser'.writing /\ ~parser'.failed
        /\ ParserOK' /\ UNCHANGED <<toHost, job, boot>>
    BY <1>5, <1>7, <1>8, <2>1, <2>3
  <2>. QED BY <1>3, <1>4, <1>5, <1>6, <2>2, <2>4 DEF Sending
<1>9. ASSUME toDev = <<Arg>>, parser.used = <<>>
      PROVE  /\ Sending' /\ ParserOK' /\ UNCHANGED <<toHost, job, boot>>
             /\ parser'.used # <<"BOOT">>
  <2>1. byte = Arg /\ toDev' = <<>>
    BY <1>3, <1>9
  <2>2. CASE CommandByte(byte)
    <3>1. /\ parser'.used = <<Arg>> /\ ~parser'.writing /\ ~parser'.failed
          /\ ParserOK' /\ UNCHANGED <<toHost, job, boot>>
      BY <1>5, <1>7, <1>9, <2>1, <2>2
    <3>. QED BY <1>2, <1>3, <1>4, <1>5, <2>1, <3>1 DEF Sending
  <2>3. CASE IgnoredByte(byte)
    <3>1. UNCHANGED <<parser, toHost, job, boot>>
      BY <2>3 DEF IgnoredByte
    <3>2. ParserOK'
      BY <1>1, <3>1 DEF ParserOK
    <3>. QED BY <1>3, <1>4, <1>5, <1>9, <2>1, <3>1, <3>2 DEF Sending
  <2>. QED BY <1>3, <1>5, <2>2, <2>3
<1>10. ASSUME toDev = <<Arg>>, parser.used = <<Op>>
       PROVE  /\ InFlight' /\ ParserOK' /\ toHost' \in Seq(Tokens) /\ boot' \in BOOLEAN
              /\ job' \in {NoJob, JobOf(call)}
              /\ job' # NoJob => Op \in {"ERASE", "ERBANK"} /\ Idle'
              /\ boot' => Op = "BOOT"
              /\ parser'.used = <<>>
  <2> DEFINE p == [parser EXCEPT !.used = <<>>]
  <2>1. byte = Arg /\ toDev' = <<>>
    BY <1>3, <1>10
  <2>2. CommandByte(byte)
    BY <1>3, <1>5, <1>10 DEF IgnoredByte
  <2>3. parser.used \in Seq(Tokens) /\ Len(parser.used) = 1 /\ parser.used[1] = Op
    BY <1>1, <1>10 DEF Parsers
  <2>4. Append(parser.used, byte) = call.cmd
    BY <1>2, <2>1, <2>3, PairAppended
  <2>5. /\ p \in Parsers /\ p.used = <<>> /\ ~p.writing /\ ~p.failed /\ Len(p.got) < FrameLength
    <3>1. /\ p \in Parsers /\ p.used = <<>> /\ p.writing = parser.writing
          /\ p.failed = parser.failed /\ p.got = parser.got
      <4> DEFINE s == <<>>
      <4>1. parser \in Parsers /\ s \in Seq(Tokens) /\ p = [parser EXCEPT !.used = s]
        BY <1>1
      <4> HIDE DEF p, s
      <4>2. /\ p \in Parsers /\ p.used = s /\ p.writing = parser.writing
            /\ p.failed = parser.failed /\ p.got = parser.got
        BY ONLY <4>1, ParserUsed
      <4>. QED BY <4>2 DEF s
    <3> HIDE DEF p
    <3>. QED BY <1>5, <3>1
  <2>6. \/ Answered(call.cmd, p) /\ UNCHANGED job
        \/ /\ call.cmd = Eraser \/ (call.cmd[1] = "ERBANK" /\ call.cmd[2] \in Units)
           /\ job' = [op |-> call.cmd[1], unit |-> call.cmd[2], data |-> Blank]
           /\ parser' = p
           /\ UNCHANGED <<toHost, boot>>
    BY <2>2, <2>3, <2>4 DEF CommandByte, CommandLength
  <2> HIDE DEF p
  <2>7. CASE Answered(call.cmd, p) /\ UNCHANGED job
    <3>1. /\ Replied' \/ Uploading'
          /\ ParserOK' /\ toHost' \in Seq(Tokens)
          /\ parser'.used = <<>>
          /\ boot' \in BOOLEAN /\ (boot' => boot \/ Op = "BOOT")
      BY <1>3, <1>5, <2>1, <2>5, <2>7, WorkAnswer
    <3>. QED BY <1>3, <1>5, <2>7, <3>1 DEF InFlight
  <2>8. CASE /\ call.cmd = Eraser \/ (call.cmd[1] = "ERBANK" /\ call.cmd[2] \in Units)
             /\ job' = [op |-> call.cmd[1], unit |-> call.cmd[2], data |-> Blank]
             /\ parser' = p
             /\ UNCHANGED <<toHost, boot>>
    <3>1. Op \in {"ERASE", "ERBANK"}
      BY <1>2, <2>8 DEF Eraser
    <3>2. call.data = Blank
      BY <1>1, <3>1, WorkFacts
    <3>3. job' = JobOf(call)
      BY <2>8, <3>2 DEF JobOf
    <3>4. Idle' /\ ParserOK' /\ parser'.used = <<>>
      BY <2>5, <2>8 DEF Idle, ParserOK, CommandLength
    <3>5. JobOf(call)' = JobOf(call)
      BY <1>3 DEF JobOf
    <3>6. Working'
      BY <1>3, <1>4, <1>5, <2>1, <2>8, <3>1, <3>3, <3>4, <3>5 DEF Working
    <3>. QED BY <1>1, <1>3, <2>8, <3>1, <3>3, <3>4, <3>6 DEF InFlight
  <2>. QED BY <2>6, <2>7, <2>8
<1>11. CASE toDev = call.cmd /\ parser.used = <<>>
  BY <1>1, <1>3, <1>5, <1>8, <1>11 DEF InFlight
<1>12. CASE toDev = <<Arg>> /\ parser.used = <<>>
  BY <1>1, <1>3, <1>5, <1>9, <1>12 DEF InFlight
<1>13. CASE toDev = <<Arg>> /\ parser.used = <<Op>>
  <2>0. <<>> # <<"BOOT">>
    OBVIOUS
  <2>1. parser'.used # <<"BOOT">>
    BY <1>10, <1>13, <2>0
  <2>. QED BY <1>6, <1>10, <1>13, <2>1
<1>14. toDev # <<>>
  BY <1>3
<1>. QED BY <1>11, <1>12, <1>13, <1>14 DEF Sending

\* While the frame of a write is on its way.
LEMMA ReceiveFrame ==
  ASSUME TypeInv, Op \notin {"READINFO", "READVERS"}, Uploading, Receive, UNCHANGED hostVars
  PROVE  /\ InFlight' /\ ParserOK' /\ UNCHANGED <<toHost, boot>> /\ parser'.used = <<>>
         /\ job' \in {NoJob, JobOf(call)} /\ (job' # NoJob => Op = "WRBK" /\ Idle')
<1> DEFINE byte == toDev[1]
           got == Append(parser.got, byte)
           p == [parser EXCEPT !.writing = FALSE, !.got = <<>>]
           f == Frame[call.data]
<1>1. /\ call \in Calls /\ parser \in Parsers /\ ParserOK
      /\ toHost \in Seq(Tokens) /\ toDev \in Seq(Tokens)
  BY DEF TypeInv, TypeOK, ParserOK
<1>2. Op = "WRBK" /\ Arg \in Units /\ call.data \in Data /\ call.data \in Contents
      /\ JobOf(call) = [op |-> Op, unit |-> Arg, data |-> call.data]
  BY <1>1, WorkFacts DEF Uploading, Contents
<1>3. /\ toDev' \in Seq(Tokens) /\ Len(toDev') = Len(toDev) - 1
      /\ \A i \in 1 .. Len(toDev') : toDev'[i] = toDev[i + 1]
      /\ Len(toDev) \in Nat /\ Len(toDev) > 0 /\ byte \in Tokens
      /\ CommandByte(byte) \/ PayloadByte(byte) \/ IgnoredByte(byte)
      /\ UNCHANGED <<hpc, call, flash, asked>>
  BY ReceiveFacts DEF hostVars
<1>4. Op' = Op /\ Arg' = Arg /\ Taken' = Taken /\ JobOf(call)' = JobOf(call)
  BY <1>3 DEF Op, Arg, Taken, JobOf
<1>5. /\ hpc = "final" /\ toHost = <<>> /\ job = NoJob
      /\ parser.writing /\ ~parser.failed /\ parser.used = <<>> /\ parser.unit = Arg
      /\ Len(parser.got) + Len(toDev) = FrameLength
      /\ \A i \in 1 .. Len(parser.got) : parser.got[i] = f[i]
      /\ \A i \in 1 .. Len(toDev) : toDev[i] = f[Len(parser.got) + i]
  <2>1. toDev # <<>>
    BY <1>3
  <2>. QED BY <2>1 DEF Uploading
<1>6. f \in Seq(Tokens) /\ Len(f) = FrameLength
  BY <1>2, FrameFacts
<1>7. PayloadByte(byte)
  BY <1>3, <1>5 DEF CommandByte, IgnoredByte
<1>8. parser.got \in Seq(Tokens) /\ Len(parser.got) \in Nat /\ Len(parser.got) < FrameLength
  BY <1>1, LenProperties DEF Parsers, ParserOK
<1>9. /\ got \in Seq(Tokens) /\ Len(got) = Len(parser.got) + 1
      /\ \A i \in 1 .. Len(got) : got[i] = f[i]
  <2>1. /\ got \in Seq(Tokens) /\ Len(got) = Len(parser.got) + 1
        /\ got[Len(parser.got) + 1] = byte
        /\ \A i \in 1 .. Len(parser.got) : got[i] = parser.got[i]
    BY <1>3, <1>8, AppendFacts
  <2>2. byte = f[Len(parser.got) + 1]
    BY <1>3, <1>5
  <2> HIDE DEF got, byte, f
  <2>. QED BY <1>5, <1>8, <2>1, <2>2
<1>10. /\ p \in Parsers /\ p.used = <<>> /\ ~p.writing /\ ~p.failed /\ p.got = <<>>
  <2>1. parser \in Parsers /\ p = [parser EXCEPT !.writing = FALSE, !.got = <<>>]
    BY <1>1
  <2> HIDE DEF p
  <2>2. /\ p \in Parsers /\ p.used = parser.used /\ ~p.writing
        /\ p.failed = parser.failed /\ p.got = <<>>
    BY ONLY <2>1, ParserDone
  <2>. QED BY <1>5, <2>2
<1>11. \/ /\ ~PayloadDone(got)
          /\ parser' = [parser EXCEPT !.got = got]
          /\ UNCHANGED <<toHost, job>>
       \/ /\ PayloadDone(got)
          /\ \A d \in Contents : Frame[d] # got
       \/ /\ PayloadDone(got)
          /\ \E d \in Contents : /\ Frame[d] = got
                                 /\ job' = [op |-> "WRBK", unit |-> parser.unit, data |-> d]
          /\ parser' = p
          /\ UNCHANGED toHost
  BY <1>7 DEF PayloadByte
<1>12. UNCHANGED boot
  BY <1>7 DEF PayloadByte
<1> HIDE DEF got, p
<1>13. CASE /\ ~PayloadDone(got)
            /\ parser' = [parser EXCEPT !.got = got]
            /\ UNCHANGED <<toHost, job>>
  <2>1. /\ parser' \in Parsers /\ parser'.used = <<>> /\ parser'.writing /\ ~parser'.failed
        /\ parser'.got = got /\ parser'.unit = Arg
    <3>1. /\ parser \in Parsers /\ got \in Seq(Tokens)
          /\ parser' = [parser EXCEPT !.got = got]
      BY <1>1, <1>9, <1>13
    <3>2. /\ parser' \in Parsers /\ parser'.used = parser.used
          /\ parser'.writing = parser.writing /\ parser'.failed = parser.failed
          /\ parser'.got = got /\ parser'.unit = parser.unit
      BY ONLY <3>1, ParserGot
    <3>. QED BY <1>5, <3>2
  <2>2. Len(got) < FrameLength
    BY <1>8, <1>9, <1>13 DEF PayloadDone, FrameLength
  <2>3. ParserOK'
    BY <2>1, <2>2 DEF ParserOK, CommandLength
  <2>4. /\ Len(got) + Len(toDev') = FrameLength
        /\ \A i \in 1 .. Len(toDev') : toDev'[i] = f[Len(got) + i]
    <3> HIDE DEF f, byte
    <3>1. Len(got) + Len(toDev') = FrameLength
      BY <1>3, <1>5, <1>8, <1>9 DEF FrameLength
    <3>2. ASSUME NEW i \in 1 .. Len(toDev')
          PROVE  toDev'[i] = f[Len(got) + i]
      <4>1. i + 1 \in 1 .. Len(toDev) /\ toDev'[i] = toDev[i + 1]
        BY <1>3
      <4>2. toDev[i + 1] = f[Len(parser.got) + (i + 1)]
        BY <1>5, <4>1
      <4>3. Len(parser.got) + (i + 1) = Len(got) + i
        <5>1. \A k, l, m \in Nat : m = k + 1 => k + (l + 1) = m + l
          OBVIOUS
        <5>2. i \in Nat /\ Len(got) \in Nat
          BY <1>8, <1>9
        <5>. QED BY <1>8, <1>9, <5>1, <5>2
      <4>. QED BY <4>1, <4>2, <4>3
    <3>. QED BY <3>1, <3>2
  <2>5. Uploading'
    BY <1>2, <1>3, <1>4, <1>5, <1>9, <1>13, <2>1, <2>4 DEF Uploading
  <2>. QED BY <1>5, <1>12, <1>13, <2>1, <2>3, <2>5 DEF InFlight
<1>14. ASSUME PayloadDone(got)
       PROVE  got = f /\ toDev' = <<>>
  <2>1. Len(got) = FrameLength
    BY <1>14 DEF PayloadDone
  <2>2. Len(toDev') = 0
    <3> DEFINE k == Len(parser.got)
               l == Len(toDev)
               n == Len(toDev')
    <3>1. k \in Nat /\ l \in Nat /\ n \in Nat /\ k + 1 = 4 /\ k + l = 4 /\ n = l - 1
      BY <1>3, <1>5, <1>8, <1>9, <2>1, LenProperties DEF FrameLength
    <3> HIDE DEF k, l, n
    <3>2. n = 0
      BY <3>1
    <3>. QED BY <3>2 DEF n
  <2>3. toDev' = <<>>
    BY <1>3, <2>2, OneOrTwo
  <2>4. got = f
    <3> HIDE DEF f
    <3>. QED BY <1>6, <1>9, <2>1, SeqEqual
  <2>. QED BY <2>3, <2>4
<1>15. CASE /\ PayloadDone(got)
            /\ \E d \in Contents : /\ Frame[d] = got
                                   /\ job' = [op |-> "WRBK", unit |-> parser.unit, data |-> d]
            /\ parser' = p
            /\ UNCHANGED toHost
  <2>1. PICK d \in Contents : /\ Frame[d] = got
                              /\ job' = [op |-> "WRBK", unit |-> parser.unit, data |-> d]
    BY <1>15
  <2>2. d = call.data
    BY <1>2, <1>14, <1>15, <2>1, LinkAssumption
  <2>3. job' = JobOf(call)
    BY <1>2, <1>5, <2>1, <2>2
  <2>4. ParserOK' /\ Idle' /\ parser'.used = <<>>
    BY <1>10, <1>15 DEF ParserOK, Idle, CommandLength, FrameLength
  <2>5. Working'
    BY <1>2, <1>3, <1>4, <1>5, <1>14, <1>15, <2>3, <2>4 DEF Working
  <2>. QED BY <1>2, <1>12, <1>15, <2>3, <2>4, <2>5 DEF InFlight
<1>. QED BY <1>2, <1>11, <1>13, <1>14, <1>15

LEMMA ReceiveWork ==
  ASSUME IInv, Receive, UNCHANGED hostVars, board
  PROVE  IInv'
<1>0. /\ TypeInv /\ LineInv /\ BoardInv /\ JobInv /\ CallInv /\ BeliefIsTrue /\ BoardModeInv
  BY DEF IInv
<1>1. /\ UNCHANGED <<hpc, call, board, sessions, calls, belief, dtr, plugged, flash, asked>>
      /\ toDev # <<>> /\ job = NoJob /\ ~boot /\ hpc # "closed"
      /\ toDev' \in Seq(Tokens)
      /\ CommandByte(toDev[1]) \/ PayloadByte(toDev[1]) \/ IgnoredByte(toDev[1])
  BY <1>0, ReceiveFacts DEF hostVars, LineInv
<1>2. InCall /\ InFlight
  BY <1>0, <1>1 DEF BoardModeInv, Quiet
<1>3. Op \notin {"READINFO", "READVERS"} /\ call \in Calls /\ ParserOK
      /\ parser \in Parsers /\ toHost \in Seq(Tokens) /\ boot \in BOOLEAN
  BY <1>0, <1>2 DEF BoardInv, InCall, Waiting, TypeInv, TypeOK, ParserOK
<1>4. JobOf(call) # NoJob
  BY <1>3, WorkFacts
<1>5. /\ InFlight' /\ ParserOK' /\ toHost' \in Seq(Tokens) /\ boot' \in BOOLEAN
      /\ job' \in {NoJob, JobOf(call)}
      /\ job' # NoJob => Op \in {"ERASE", "ERBANK", "WRBK"} /\ Idle'
      /\ boot' \/ parser'.used = <<"BOOT">> => BootAsked
  <2>1. CASE Sending
    BY <1>0, <1>2, <1>3, <2>1, ReceiveCommand
  <2>2. CASE Uploading
    <3>1. <<>> # <<"BOOT">>
      OBVIOUS
    <3>2. /\ InFlight' /\ ParserOK' /\ UNCHANGED <<toHost, boot>> /\ parser'.used = <<>>
          /\ job' \in {NoJob, JobOf(call)} /\ (job' # NoJob => Op = "WRBK" /\ Idle')
      BY <1>0, <1>3, <2>2, ReceiveFrame
    <3>. QED BY <1>1, <1>3, <3>1, <3>2
  <2>3. CASE Refused
    <3>1. parser.failed /\ parser.used = <<>>
      BY <2>3 DEF Refused
    <3>2. UNCHANGED <<parser, toHost, job, boot>>
      BY <1>1, <3>1 DEF CommandByte, PayloadByte, IgnoredByte
    <3>3. Refused'
      BY <1>1, <2>3, <3>2 DEF Refused, Remains, Taken, Op, Arg
    <3>4. <<>> # <<"BOOT">>
      OBVIOUS
    <3>. QED BY <1>1, <1>3, <3>1, <3>2, <3>3, <3>4 DEF InFlight, ParserOK
  <2>4. ~Working /\ ~Replied
    BY <1>1, <1>4 DEF Working, Replied
  <2>. QED BY <1>2, <2>1, <2>2, <2>3, <2>4 DEF InFlight
<1>6. job' # NoJob => /\ job' \in Jobs /\ job' \in asked /\ job'.op # "BOOT"
                      /\ \A u \in Touches(job') \cap Units : belief[u] = Unknown
  <2>1. ASSUME job' # NoJob
        PROVE  JobOf(call) \in Jobs /\ JobOf(call).op # "BOOT"
    BY <1>3, <1>5, <2>1, WorkFacts
  <2>. QED BY <1>0, <1>2, <1>5, <2>1 DEF CallInv
<1>7. TypeInv'
  BY <1>0, <1>1, <1>5, <1>6 DEF TypeInv, TypeOK
<1>8. LineInv' /\ BoardInv' /\ CallInv' /\ BeliefIsTrue'
  BY <1>0, <1>1 DEF LineInv, BoardInv, CallInv, BeliefIsTrue, InCall, Op
<1>9. JobInv'
  BY <1>1, <1>5, <1>6 DEF JobInv, BootAsked
<1>10. LeftOver' /\ ReadInfoInv' /\ VersionInv' /\ BoardModeInv'
  BY <1>0, <1>1, <1>2, <1>3, <1>5
     DEF LeftOver, ReadInfoInv, VersionInv, BoardModeInv, Greeting, Op, InCall
<1>. QED BY <1>7, <1>8, <1>9, <1>10 DEF IInv

LEMMA ReceiveStep ==
  ASSUME IInv, Receive, UNCHANGED hostVars
  PROVE  IInv'
<1>1. hpc # "closed" /\ BoardInv
  BY ReceiveFacts DEF IInv, LineInv
<1>2. board \/ Greeting \/ (InCall /\ Op = "READVERS")
  BY <1>1 DEF BoardInv, Greeting, IInv, TypeInv, TypeOK
<1>. QED BY <1>2, ReceiveWork, ReceiveGreeting, ReceiveVersion

-----------------------------------------------------------------------------
(* The other steps of the firmware *)

\* With the port closed there is little to show.
LEMMA ClosedPort ==
  ASSUME TypeInv', hpc' = "closed", ~dtr', JobInv', BeliefIsTrue',
         board' => Quiet', job' # NoJob => OnlyHello(toDev)'
  PROVE  IInv'
BY DEF IInv, LineInv, BoardInv, CallInv, LeftOver, ReadInfoInv, VersionInv, BoardModeInv,
       Greeting, InCall, Waiting

LEMMA CleanFacts ==
  /\ Clean \in Parsers /\ Clean.used = <<>> /\ ~Clean.writing /\ ~Clean.failed /\ Clean.got = <<>>
  /\ \A b \in BOOLEAN :
       /\ [Clean EXCEPT !.failed = b] \in Parsers
       /\ [Clean EXCEPT !.failed = b].used = <<>>
       /\ ~[Clean EXCEPT !.failed = b].writing
       /\ [Clean EXCEPT !.failed = b].failed = b
       /\ [Clean EXCEPT !.failed = b].got = <<>>
<1>1. /\ Clean \in Parsers /\ Clean.used = <<>> /\ ~Clean.writing /\ ~Clean.failed
      /\ Clean.got = <<>>
  BY DEF Clean, Parsers
<1>2. ASSUME NEW b \in BOOLEAN
      PROVE  /\ [Clean EXCEPT !.failed = b] \in Parsers
             /\ [Clean EXCEPT !.failed = b].used = Clean.used
             /\ [Clean EXCEPT !.failed = b].writing = Clean.writing
             /\ [Clean EXCEPT !.failed = b].failed = b
             /\ [Clean EXCEPT !.failed = b].got = Clean.got
  BY <1>1 DEF Parsers
<1>. QED BY <1>1, <1>2

LEMMA NotReadyStep ==
  ASSUME IInv, NotReady, UNCHANGED hostVars
  PROVE  IInv'
<1>1. /\ UNCHANGED <<hpc, call, board, sessions, calls, belief, dtr, toHost, plugged, flash, asked, job, boot>>
      /\ ~dtr /\ job = NoJob /\ parser' = Clean
      /\ toDev' = IF toDev = <<>> THEN toDev ELSE Tail(toDev)
  BY DEF NotReady, hostVars
<1>2. /\ TypeInv /\ LineInv /\ JobInv /\ BeliefIsTrue /\ BoardModeInv /\ toDev \in Seq(Tokens)
  BY DEF IInv, TypeInv
<1>3. hpc = "closed" /\ ~InCall
  BY <1>1, <1>2 DEF LineInv, InCall, Waiting
<1>4. toDev' \in Seq(Tokens)
  BY <1>1, <1>2, TailFacts
<1>5. ParserOK' /\ Idle' /\ parser'.used = <<>>
  BY <1>1, CleanFacts DEF ParserOK, CommandLength, FrameLength, Idle
<1>6. TypeInv'
  BY <1>1, <1>2, <1>4, <1>5 DEF TypeInv, TypeOK
<1>7. <<>> # <<"BOOT">>
  OBVIOUS
<1>8. JobInv'
  BY <1>1, <1>2, <1>5, <1>7 DEF JobInv, BootAsked
<1>9. BeliefIsTrue'
  BY <1>1, <1>2 DEF BeliefIsTrue
<1>10. board' => Quiet'
  BY <1>1, <1>2, <1>3, <1>5 DEF BoardModeInv, Quiet
<1>. QED BY <1>1, <1>3, <1>6, <1>8, <1>9, <1>10, ClosedPort

LEMMA TickStep ==
  ASSUME IInv, Tick, UNCHANGED hostVars
  PROVE  IInv'
<1>1. /\ UNCHANGED <<hpc, call, board, sessions, calls, belief, dtr, toDev, plugged, flash, asked, job, boot>>
      /\ job = NoJob /\ (parser.used # <<>> \/ parser.writing)
      /\ parser' = [Clean EXCEPT !.failed = parser.writing]
      /\ toHost' = toHost \/ (parser.writing /\ toHost' = Append(toHost, TooLate))
  BY DEF Tick, hostVars
<1>2. /\ TypeInv /\ LineInv /\ BoardInv /\ JobInv /\ CallInv /\ BeliefIsTrue
      /\ LeftOver /\ ReadInfoInv /\ VersionInv /\ BoardModeInv
  BY DEF IInv
<1>3. toHost \in Seq(Tokens) /\ TooLate \in Tokens /\ Len(toHost) \in Nat /\ parser.writing \in BOOLEAN
  BY <1>2, TokenFacts, LenProperties DEF TypeInv, TypeOK, ParserOK, Parsers
<1>4. parser'.used = <<>> /\ ~parser'.writing /\ parser'.failed = parser.writing /\ ParserOK'
  BY <1>1, <1>3, CleanFacts DEF ParserOK, CommandLength, FrameLength
<1>5. toHost' \in Seq(Tokens)
  BY <1>1, <1>3, AppendFacts
<1>6. TypeInv'
  BY <1>1, <1>2, <1>4, <1>5 DEF TypeInv, TypeOK
<1>7. LineInv' /\ BoardInv' /\ CallInv' /\ BeliefIsTrue' /\ LeftOver'
  BY <1>1, <1>2 DEF LineInv, BoardInv, CallInv, BeliefIsTrue, LeftOver, OnlyHello, Greeting, InCall, Op
<1>8. JobInv'
  <2>1. <<>> # <<"BOOT">>
    OBVIOUS
  <2>. QED BY <1>1, <1>2, <1>4, <2>1 DEF JobInv, BootAsked
<1>9. ReadInfoInv'
  <2>1. Dead => Dead'
    BY <1>1, <1>3, AppendFacts DEF Dead
  <2>2. toHost = <<>> => (toHost = <<>> \/ Dead)'
    BY <1>1, <1>3, AppendFacts DEF Dead, TooLate
  <2>3. Greeted => Greeted'
    BY <1>1, <1>4 DEF Greeted, HelloParser, NoVersion
  <2>. QED BY <1>1, <1>2, <2>1, <2>2, <2>3 DEF ReadInfoInv, Greeting, Op
<1>10. VersionInv'
  <2>1. SUFFICES ASSUME InCall, Op = "READVERS"
                 PROVE  VersionInv'
    BY <1>1 DEF VersionInv, InCall, Op
  <2>2. ~parser.writing /\ parser.used # <<>> /\ toHost' = toHost /\ hpc = "echo"
    BY <1>1, <1>2, <2>1 DEF VersionInv, Idle
  <2>3. VersionComing \/ VersionStarted \/ VersionLost
    BY <1>2, <2>1, <2>2 DEF VersionInv, VersionSaid, Idle
  <2>4. VersionComing => VersionComing'
    BY <1>1, <1>4, <2>2 DEF VersionComing, NotVersion, HelloParser
  <2>5. VersionStarted => VersionLost'
    BY <1>1, <1>4, <2>2, HelloIsNoVersion
       DEF VersionStarted, VersionLost, NotVersion, OnlyHello, HelloTokens
  <2>6. VersionLost => VersionLost'
    BY <1>1, <1>4, <2>2, HelloIsNoVersion DEF VersionLost, NotVersion, OnlyHello
  <2>. QED BY <1>1, <1>4, <2>2, <2>3, <2>4, <2>5, <2>6 DEF VersionInv
<1>11. BoardModeInv'
  <2>1. SUFFICES ASSUME board
                 PROVE  BoardModeInv'
    BY <1>1 DEF BoardModeInv
  <2>2. InCall /\ (Sending \/ Uploading)
    BY <1>1, <1>2, <2>1 DEF BoardModeInv, Quiet, Idle, InFlight, Working, Refused, Replied
  <2>3. Op' = Op /\ Arg' = Arg /\ Taken' = Taken /\ Taken \in 0 .. 3
    BY <1>1 DEF Op, Arg, Taken
  <2>4. ASSUME Sending
        PROVE  Sending'
    BY <1>1, <1>4, <2>3, <2>4 DEF Sending
  <2>5. ASSUME Uploading
        PROVE  Refused'
    <3> DEFINE r == <<Op, Arg, Ok, TooLate>>
    <3>1. /\ Len(toHost) = 3 - Taken
          /\ \A i \in 1 .. Len(toHost) : toHost[i] = r[Taken + i]
      <4>1. CASE hpc = "final"
        BY <1>3, <2>5, <4>1 DEF Uploading, Taken
      <4>2. CASE Whole(<<Op, Arg, Ok>>)
        <5>1. \A i \in 1 .. 3 : <<Op, Arg, Ok>>[i] = r[i]
          OBVIOUS
        <5>2. Len(<<Op, Arg, Ok>>) = 3
          OBVIOUS
        <5> HIDE DEF r
        <5>3. ASSUME NEW i \in 1 .. Len(toHost)
              PROVE  toHost[i] = r[Taken + i]
          <6>1. Taken + i \in 1 .. 3
            BY <1>3, <2>3, <4>2, <5>2 DEF Whole
          <6>. QED BY <4>2, <5>1, <6>1 DEF Whole, Remains, RemainsAt
        <5>. QED BY <4>2, <5>2, <5>3 DEF Whole
      <4>. QED BY <2>5, <4>1, <4>2 DEF Uploading
    <3>2. Len(r) = 4 /\ r[4] = TooLate /\ r' = r
      BY <2>3
    <3> HIDE DEF r
    <3>3. CASE toHost' = toHost
      <4>1. RemainsAt(toHost', r, Taken)
        BY <1>3, <2>3, <3>1, <3>2, <3>3 DEF RemainsAt
      <4>. QED BY <1>1, <1>4, <2>3, <2>5, <3>2, <4>1 DEF Refused, Uploading, Remains, r
    <3>4. CASE toHost' = Append(toHost, TooLate)
      <4>1. /\ Len(toHost') = Len(toHost) + 1 /\ toHost'[Len(toHost) + 1] = TooLate
            /\ \A i \in 1 .. Len(toHost) : toHost'[i] = toHost[i]
        BY <1>3, <3>4, AppendFacts
      <4>2. RemainsAt(toHost', r, Taken)
        <5>1. Len(toHost') <= Len(r) - Taken
          BY <1>3, <2>3, <3>1, <3>2, <4>1
        <5>2. ASSUME NEW i \in 1 .. Len(toHost')
              PROVE  toHost'[i] = r[Taken + i]
          <6>1. i \in 1 .. Len(toHost) \/ i = Len(toHost) + 1
            BY <1>3, <4>1
          <6>2. i = Len(toHost) + 1 => Taken + i = 4
            BY <1>3, <2>3, <3>1
          <6>. QED BY <3>1, <3>2, <4>1, <6>1, <6>2
        <5>. QED BY <5>1, <5>2 DEF RemainsAt
      <4>. QED BY <1>1, <1>4, <2>3, <2>5, <3>2, <4>2 DEF Refused, Uploading, Remains, r
    <3>. QED BY <1>1, <3>3, <3>4
  <2>. QED BY <1>1, <2>2, <2>4, <2>5 DEF BoardModeInv, InFlight, InCall
<1>. QED BY <1>6, <1>7, <1>8, <1>9, <1>10, <1>11 DEF IInv

\* The units a job may modify; a failure leaves the others alone.
LEMMA DamageFacts ==
  ASSUME flash \in [Units -> Contents], NEW j \in Jobs \cup {NoJob}, NEW g \in Damaged(j, flash)
  PROVE  /\ g \in [Units -> Contents]
         /\ \A u \in Units : u \notin Touches(j) => g[u] = flash[u]
BY DEF Damaged

LEMMA StoreFacts ==
  ASSUME flash \in [Units -> Contents], NEW j \in Jobs
  PROVE  /\ Stored(j, flash) \in [Units -> Contents]
         /\ \A u \in Units : Stored(j, flash)[u] = IF u \in Touches(j) THEN j.data ELSE flash[u]
<1>1. j.data \in Contents
  BY DEF Jobs, Contents
<1>. QED BY <1>1 DEF Stored

LEMMA ExecuteStep ==
  ASSUME IInv, Execute, UNCHANGED hostVars
  PROVE  IInv'
<1>1. /\ UNCHANGED <<hpc, call, board, sessions, calls, belief, dtr, toDev, plugged, asked, boot>>
      /\ job # NoJob /\ job' = NoJob
  BY DEF Execute, hostVars
<1>2. /\ TypeInv /\ LineInv /\ BoardInv /\ JobInv /\ CallInv /\ BeliefIsTrue
      /\ LeftOver /\ ReadInfoInv /\ VersionInv /\ BoardModeInv
  BY DEF IInv
<1>3. /\ job \in Jobs /\ Idle /\ parser \in Parsers /\ ParserOK /\ toHost \in Seq(Tokens)
      /\ flash \in [Units -> Contents] /\ call \in Calls
      /\ \A u \in Touches(job) \cap Units : belief[u] = Unknown
      /\ job.op # "BOOT"
  BY <1>1, <1>2 DEF JobInv, TypeInv, TypeOK, ParserOK
<1> DEFINE echo == IF job.op = "WRBK" THEN <<>> ELSE <<job.op, job.unit>>
           resp(s) == Append(echo, s)
<1>4. PICK s \in {Ok, Failed} : /\ Send(resp(s), parser)
                                /\ flash' \in [Units -> Contents]
                                /\ \A u \in Units : u \notin Touches(job) => flash'[u] = flash[u]
                                /\ s = Ok => \A u \in Units \cap Touches(job) : flash'[u] = job.data
  <2>1. CASE flash' = Stored(job, flash) /\ Send(resp(Ok), parser)
    BY <1>3, <2>1, StoreFacts
  <2>2. CASE flash' \in Damaged(job, flash) /\ Send(resp(Failed), parser)
    <3>1. Failed # Ok
      BY DEF Failed, Ok
    <3>. QED BY <1>3, <2>2, <3>1, DamageFacts
  <2>. QED BY <2>1, <2>2 DEF Execute
<1>5. /\ job.op \in {"WRBK", "ERBANK", "ERASE"}
      /\ job.op \in Tokens /\ job.unit \in Tokens /\ s \in Tokens
  <2>1. job.op \in {"WRBK", "ERBANK", "ERASE"} /\ job.unit \in Units \cup {"ALL"}
    BY <1>3 DEF Jobs
  <2>. QED BY <2>1, TokenFacts DEF CommandTokens
<1>6. /\ resp(s) \in Seq(Tokens)
      /\ resp(s) = IF job.op = "WRBK" THEN <<s>> ELSE <<job.op, job.unit, s>>
  <2>1. Append(<<>>, s) = <<s>> /\ <<s>> \in Seq(Tokens)
    BY <1>5
  <2>2. <<job.op, job.unit>> \in Seq(Tokens)
    BY <1>5
  <2>3. Append(<<job.op, job.unit>>, s) = <<job.op, job.unit>> \o <<s>>
    BY <1>5, <2>2, AppendIsConcat
  <2>4. Append(<<job.op, job.unit>>, s) = <<job.op, job.unit, s>>
    BY <1>5, <2>3, PairAndOne
  <2>5. <<job.op, job.unit, s>> \in Seq(Tokens)
    BY <1>5
  <2>. QED BY <2>1, <2>4, <2>5
<1> DEFINE r == resp(s)
<1> HIDE DEF resp, r
<1>7. PICK n \in 0 .. Len(r) : /\ Added(r, n)
                               /\ parser' = IF n = Len(r) THEN parser ELSE Clean
  BY <1>3, <1>4, <1>6, SendFacts DEF r
<1>8. Idle' /\ ParserOK' /\ parser'.used = <<>>
  <2>1. parser' \in {parser, Clean}
    BY <1>7
  <2>. QED BY <1>3, <2>1, CleanFacts DEF Idle, ParserOK, CommandLength, FrameLength
<1>9. n \in Nat /\ toHost' \in Seq(Tokens)
  BY <1>6, <1>7 DEF Added, r
<1>10. TypeInv'
  BY <1>1, <1>2, <1>4, <1>8, <1>9 DEF TypeInv, TypeOK
<1>11. LineInv' /\ BoardInv' /\ CallInv' /\ LeftOver'
  BY <1>1, <1>2 DEF LineInv, BoardInv, CallInv, LeftOver, OnlyHello, Greeting, InCall, Op
<1>12. BeliefIsTrue'
  BY <1>1, <1>2, <1>3, <1>4 DEF BeliefIsTrue
<1>13. JobInv'
  <2>1. <<>> # <<"BOOT">>
    OBVIOUS
  <2>. QED BY <1>1, <1>2, <1>8, <2>1 DEF JobInv, BootAsked
<1>14. r[1] # "READINFO"
  <2>1. s # "READINFO"
    BY DEF Ok, Failed
  <2>. QED BY <1>5, <1>6, <2>1 DEF r
<1>15. ReadInfoInv'
  <2>1. Dead => Dead'
    BY <1>3, <1>7, <1>9, AddedFacts DEF Dead
  <2>2. toHost = <<>> => (toHost = <<>> \/ Dead)'
    BY <1>3, <1>7, <1>9, <1>14, AddedFacts DEF Dead
  <2>3. ~Greeted
    BY <1>1 DEF Greeted
  <2>. QED BY <1>1, <1>2, <2>1, <2>2, <2>3 DEF ReadInfoInv, Greeting, Op
<1>16. VersionInv'
  BY <1>1, <1>2 DEF VersionInv, InCall, Op
<1>17. BoardModeInv'
  <2>1. SUFFICES ASSUME board
                 PROVE  BoardModeInv'
    BY <1>1 DEF BoardModeInv
  <2>2. InCall /\ Working
    BY <1>1, <1>2, <2>1 DEF BoardModeInv, Quiet, InFlight, Sending, Uploading, Refused, Replied
  <2>3. Op' = Op /\ Arg' = Arg /\ Taken' = Taken /\ JobOf(call)' = JobOf(call)
    BY <1>1 DEF Op, Arg, Taken, JobOf
  <2>4. job = JobOf(call) /\ job.op = Op /\ job.unit = Arg /\ job.data = call.data
    BY <2>2 DEF Working, JobOf, Op, Arg
  <2>5. s = Ok => Done'
    BY <1>1, <1>4, <2>3, <2>4 DEF Done
  <2>6. /\ toHost' \in Seq(Tokens) /\ Len(toHost') = n
        /\ \A i \in 1 .. n : toHost'[i] = r[i]
    BY <1>7, <2>2 DEF Added, Working
  <2>7. CASE Op = "WRBK"
    <3>1. hpc = "final" /\ Taken = 3 /\ toDev = <<>>
      BY <2>2, <2>7 DEF Working, Taken
    <3>2. r = <<s>> /\ Len(r) = 1
      BY <1>6, <2>4, <2>7 DEF r
    <3>3. RemainsAt(toHost', <<Op, Arg, Ok, s>>, 3)
      BY <1>9, <2>6, <3>2 DEF RemainsAt
    <3>4. Remains(<<Op, Arg, Ok, s>>)'
      BY <2>3, <3>1, <3>3 DEF Remains
    <3>5. Replied'
      BY <1>1, <1>4, <1>8, <2>3, <2>5, <2>7, <3>1, <3>4 DEF Replied
    <3>. QED BY <1>1, <2>2, <3>5 DEF BoardModeInv, InFlight, InCall
  <2>8. CASE Op # "WRBK"
    <3>1. hpc = "echo" /\ Taken = 0 /\ toDev = <<>>
      BY <2>2, <2>8 DEF Working, Taken
    <3>2. r = <<Op, Arg, s>>
      BY <1>6, <2>4, <2>8 DEF r
    <3>3. RemainsAt(toHost', <<Op, Arg, s>>, 0)
      BY <1>9, <2>6, <3>2 DEF RemainsAt
    <3>4. Remains(<<Op, Arg, s>>)'
      BY <2>3, <3>1, <3>3 DEF Remains
    <3>5. Replied'
      BY <1>1, <1>4, <1>5, <1>8, <2>3, <2>4, <2>5, <2>8, <3>1, <3>4 DEF Replied
    <3>. QED BY <1>1, <2>2, <3>5 DEF BoardModeInv, InFlight, InCall
  <2>. QED BY <2>7, <2>8
<1>. QED BY <1>10, <1>11, <1>12, <1>13, <1>15, <1>16, <1>17 DEF IInv

LEMMA PortLostStep ==
  ASSUME IInv, PortLost
  PROVE  IInv'
<1>1. /\ TypeInv /\ LineInv /\ JobInv /\ BeliefIsTrue /\ BoardModeInv
      /\ toHost \in Seq(Tokens) /\ ParserOK /\ flash \in [Units -> Contents]
      /\ job \in Jobs \cup {NoJob} /\ board \in BOOLEAN
  BY DEF IInv, TypeInv, TypeOK
<1>2. /\ hpc' = "closed" /\ UNCHANGED <<call, sessions, calls, belief>>
      /\ board' \in BOOLEAN
      /\ board' => board /\ hpc = "closed"
      /\ Detach \/ BusReset \/ Replug
  BY <1>1 DEF PortLost
<1>3. /\ ~dtr' /\ plugged' \in BOOLEAN /\ toDev' = <<>> /\ toHost' \in Seq(Tokens)
      /\ toHost = <<>> => toHost' = <<>>
      /\ asked' = asked
  <2>1. CASE Detach
    <3>1. toHost' \in Prefixes(toHost)
      BY <2>1 DEF Detach
    <3>2. toHost' \in Seq(Tokens) /\ Len(toHost') <= Len(toHost)
      BY <1>1, <3>1, PrefixFacts
    <3>3. toHost = <<>> => toHost' = <<>>
      BY <3>2
    <3>4. ~dtr' /\ plugged' = FALSE /\ toDev' = <<>> /\ asked' = asked
      BY <2>1 DEF Detach
    <3>. QED BY <3>2, <3>3, <3>4
  <2>2. CASE BusReset
    BY <1>1, <2>2 DEF BusReset, TypeInv, TypeOK
  <2>3. CASE Replug
    BY <2>3 DEF Replug
  <2>. QED BY <1>2, <2>1, <2>2, <2>3
<1>4. /\ ParserOK' /\ boot' \in BOOLEAN /\ job' \in {job, NoJob}
      /\ Idle => Idle'
      /\ boot' => boot
      /\ parser'.used \in {parser.used, <<>>}
      /\ flash' \in [Units -> Contents]
      /\ \A u \in Units : u \notin Touches(job) => flash'[u] = flash[u]
  <2>1. CASE Detach
    BY <1>1, <2>1 DEF Detach, fwVars, TypeInv, TypeOK, ParserOK, Idle
  <2>2. CASE BusReset
    <3>1. parser.used \in Seq(Tokens)
      BY <1>1 DEF ParserOK, Parsers
    <3> DEFINE c == [Clean EXCEPT !.used = parser.used]
    <3>2. /\ c \in Parsers /\ c.used = parser.used /\ c.writing = Clean.writing
          /\ c.failed = Clean.failed /\ c.got = Clean.got
      <4>1. Clean \in Parsers
        BY CleanFacts
      <4>. QED BY <3>1, <4>1, ParserUpdates
    <3>3. parser' \in {Clean, c} /\ UNCHANGED <<flash, asked, job, boot>>
      BY <2>2 DEF BusReset
    <3> HIDE DEF c
    <3>4. ParserOK' /\ (Idle => Idle') /\ parser'.used \in {parser.used, <<>>}
      BY <1>1, <3>2, <3>3, CleanFacts DEF ParserOK, Idle, CommandLength, FrameLength
    <3>. QED BY <1>1, <3>3, <3>4 DEF TypeInv, TypeOK
  <2>3. CASE Replug
    <3>1. parser' = Clean /\ job' = NoJob /\ boot' = FALSE /\ flash' \in Damaged(job, flash)
      BY <2>3 DEF Replug
    <3>2. ParserOK' /\ Idle' /\ parser'.used = <<>>
      BY <3>1, CleanFacts DEF ParserOK, Idle, CommandLength, FrameLength
    <3>3. flash' \in [Units -> Contents] /\ \A u \in Units : u \notin Touches(job) => flash'[u] = flash[u]
      BY <1>1, <3>1, DamageFacts
    <3>. QED BY <3>1, <3>2, <3>3
  <2>. QED BY <1>2, <2>1, <2>2, <2>3
<1>5. TypeInv'
  <2>1. hpc' \in {"closed", "open"} \cup Waiting /\ dtr' \in BOOLEAN
    BY <1>2, <1>3 DEF Replug, Detach, BusReset
  <2>2. job' \in Jobs \cup {NoJob}
    BY <1>1, <1>4
  <2>. QED BY <1>1, <1>2, <1>3, <1>4, <2>1, <2>2 DEF TypeInv, TypeOK
<1>6. JobInv'
  <2>1. <<>> # <<"BOOT">>
    OBVIOUS
  <2>. QED BY <1>1, <1>2, <1>3, <1>4, <2>1 DEF JobInv, BootAsked
<1>7. BeliefIsTrue'
  <2>1. ASSUME NEW u \in Units, belief[u] # Unknown
        PROVE  flash'[u] = flash[u]
    <3>1. job # NoJob => u \notin Touches(job)
      BY <1>1, <2>1 DEF JobInv
    <3>2. Touches(NoJob) = {}
      BY DEF Touches, NoJob
    <3>. QED BY <1>4, <3>1, <3>2
  <2>. QED BY <1>1, <1>2, <2>1 DEF BeliefIsTrue
<1>8. board' => Quiet'
  BY <1>1, <1>2, <1>3, <1>4 DEF BoardModeInv, Quiet, InCall, Waiting
<1>9. OnlyHello(toDev)'
  BY <1>3 DEF OnlyHello
<1>. QED BY <1>2, <1>3, <1>5, <1>6, <1>7, <1>8, <1>9, ClosedPort

-----------------------------------------------------------------------------
(* The host's steps *)

\* What stays behind when the port is closed.
LEMMA CloseStep ==
  ASSUME IInv, ClosePort, UNCHANGED fwVars, board' \in BOOLEAN,
         board' => board /\ ~InCall
  PROVE  IInv'
<1>1. /\ TypeInv /\ LineInv /\ JobInv /\ BeliefIsTrue /\ LeftOver /\ BoardInv
      /\ ReadInfoInv /\ VersionInv /\ BoardModeInv
      /\ toDev \in Seq(Tokens) /\ toHost \in Seq(Tokens)
  BY DEF IInv, TypeInv
<1>2. /\ hpc' = "closed" /\ ~dtr' /\ toDev' \in Prefixes(toDev) /\ toHost' \in Suffixes(toHost)
      /\ UNCHANGED <<call, sessions, calls, belief, plugged, flash, asked, parser, job, boot>>
  BY DEF ClosePort, fwVars
<1>3. /\ toDev' \in Seq(Tokens) /\ Len(toDev') <= Len(toDev)
      /\ \A i \in 1 .. Len(toDev') : toDev'[i] = toDev[i]
  BY <1>1, <1>2, PrefixFacts
<1>4. toHost' \in Seq(Tokens)
  BY <1>1, <1>2, SuffixFacts
<1>5. TypeInv'
  BY <1>1, <1>2, <1>3, <1>4 DEF TypeInv, TypeOK, ParserOK, ClosePort
<1>6. JobInv' /\ BeliefIsTrue'
  BY <1>1, <1>2 DEF JobInv, BeliefIsTrue, BootAsked, Idle
<1>7. toDev = <<>> => toDev' = <<>>
  BY <1>1, <1>3
<1>8. board' => Quiet'
  <2>1. SUFFICES ASSUME Quiet
                 PROVE  Quiet'
    BY <1>1 DEF BoardModeInv
  <2>2. toHost = <<>> => toHost' = <<>>
    BY <1>1, <1>2, SuffixFacts
  <2>. QED BY <1>2, <1>7, <2>1, <2>2 DEF Quiet, Idle
<1>9. ASSUME job # NoJob
      PROVE  OnlyHello(toDev')
  <2>1. OnlyHello(toDev)
    <3>1. CASE board
      BY <1>1, <1>9, <3>1
         DEF BoardModeInv, Quiet, InFlight, Sending, Uploading, Refused, Replied, Working, OnlyHello
    <3>2. CASE ~board
      <4>1. hpc = "closed" \/ Greeting
        BY <1>1, <1>9, <3>2 DEF Greeting, BoardInv, VersionInv, TypeInv, TypeOK
      <4>. QED BY <1>1, <1>9, <3>2, <4>1 DEF LeftOver
    <3>. QED BY <1>1, <3>1, <3>2 DEF TypeInv, TypeOK
  <2>. QED BY <1>1, <1>3, <2>1 DEF OnlyHello
<1>. QED BY <1>2, <1>5, <1>6, <1>8, <1>9, ClosedPort

LEMMA ReopenStep ==
  ASSUME IInv, Reopen
  PROVE  IInv'
<1>1. /\ hpc = "closed" /\ plugged /\ hpc' = "open" /\ dtr' = TRUE
      /\ sessions < MaxSessions /\ sessions' = sessions + 1 /\ calls' = 0
      /\ toDev = <<>> \/ job # NoJob
      /\ UNCHANGED <<call, board, belief, toDev, toHost, plugged, flash, asked, parser, job, boot>>
  BY DEF Reopen, OpenPort, fwVars
<1>2. /\ TypeInv /\ LineInv /\ JobInv /\ BeliefIsTrue /\ LeftOver /\ BoardModeInv
      /\ job # NoJob => Idle
  BY DEF IInv, JobInv
<1>3. ~InCall /\ ~InCall'
  BY <1>1 DEF InCall, Waiting
<1>4. TypeInv'
  BY <1>1, <1>2, HostAssumption DEF TypeInv, TypeOK, ParserOK
<1>5. LineInv' /\ JobInv' /\ BeliefIsTrue'
  BY <1>1, <1>2 DEF LineInv, JobInv, BeliefIsTrue, BootAsked, Idle
<1>6. BoardInv' /\ CallInv' /\ VersionInv' /\ ReadInfoInv'
  BY <1>1, <1>3 DEF BoardInv, CallInv, VersionInv, ReadInfoInv, InCall
<1>7. LeftOver'
  BY <1>1, <1>2 DEF LeftOver, OnlyHello, Greeting
<1>8. BoardModeInv'
  BY <1>1, <1>2, <1>3 DEF BoardModeInv, Quiet, Idle
<1>. QED BY <1>4, <1>5, <1>6, <1>7, <1>8 DEF IInv

\* Which call may follow: READVERS only after READINFO, the calls of a worker
\* and BOOT only with a connected board.
LEMMA NextCallFacts ==
  ASSUME calls \in Nat, NEW c \in NextCalls
  PROVE  \/ c.cmd = <<"READINFO", "-">> /\ calls = 0
         \/ c.cmd = <<"READVERS", "-">> /\ calls > 0 /\ Op = "READINFO"
         \/ /\ c.cmd[1] \notin {"READINFO", "READVERS"}
            /\ calls = 0 => board
            /\ calls > 0 => Op \notin {"READINFO", "READVERS"}
<1>1. \A op : Simple(op).cmd = <<op, "-">> /\ Simple(op).cmd[1] = op
  BY DEF Simple, Call
<1>2. \A w \in Work : w.cmd[1] \notin {"READINFO", "READVERS"}
  BY DEF Work, Call
<1>3. CASE calls = 0
  BY <1>1, <1>3 DEF NextCalls
<1>4. CASE calls > 0 /\ Op = "READINFO"
  BY <1>1, <1>4 DEF NextCalls, Op
<1>5. CASE calls > 0 /\ Op # "READINFO"
  BY <1>2, <1>5 DEF NextCalls, Op
<1>. QED BY <1>3, <1>4, <1>5

LEMMA StartCallStep ==
  ASSUME IInv, NEW c \in Calls, StartCall(c), UNCHANGED fwVars
  PROVE  IInv'
<1>1. /\ hpc = "open" /\ calls < MaxCalls /\ c \in NextCalls
      /\ call' = c /\ calls' = calls + 1 /\ hpc' = "echo"
      /\ toDev' = toDev \o c.cmd
      /\ IF c.cmd[1] = "READINFO"
         THEN toHost' = <<>> /\ board' = FALSE
         ELSE UNCHANGED <<toHost, board>>
      /\ asked' = asked \cup ({JobOf(c)} \cap Jobs)
      /\ belief' = [u \in Units |-> IF u \in Touches(JobOf(c)) THEN Unknown ELSE belief[u]]
      /\ UNCHANGED <<sessions, dtr, plugged, flash, parser, job, boot>>
  BY DEF StartCall, fwVars
<1>2. /\ TypeInv /\ LineInv /\ BoardInv /\ JobInv /\ BeliefIsTrue
      /\ LeftOver /\ ReadInfoInv /\ BoardModeInv
      /\ toDev \in Seq(Tokens) /\ toHost \in Seq(Tokens) /\ Len(toDev) \in Nat
      /\ calls \in Nat /\ board \in BOOLEAN
      /\ belief \in [Units -> Contents \cup {Unknown}]
  BY HostAssumption DEF IInv, TypeInv, TypeOK
<1>3. /\ c.cmd = <<c.cmd[1], c.cmd[2]>> /\ c.cmd[1] \in Tokens /\ c.cmd[2] \in Tokens
  BY AnyCall, TokenFacts
<1>4. /\ c.cmd \in Seq(Tokens) /\ Len(c.cmd) = 2
  <2> DEFINE a == c.cmd[1]  b == c.cmd[2]
  <2>1. a \in Tokens /\ b \in Tokens /\ c.cmd = <<a, b>>
    BY <1>3
  <2> HIDE DEF a, b
  <2>2. <<a, b>> \in Seq(Tokens) /\ Len(<<a, b>>) = 2
    BY <2>1
  <2>. QED BY <2>1, <2>2
<1>5. /\ toDev' \in Seq(Tokens) /\ Len(toDev') = Len(toDev) + 2
      /\ \A i \in 1 .. Len(toDev) : toDev'[i] = toDev[i]
      /\ toDev'[Len(toDev) + 1] = c.cmd[1] /\ toDev'[Len(toDev) + 2] = c.cmd[2]
  <2> DEFINE s == c.cmd
  <2>1. s \in Seq(Tokens) /\ Len(s) = 2 /\ toDev' = toDev \o s
    BY <1>1, <1>4
  <2>2. s[1] = c.cmd[1] /\ s[2] = c.cmd[2]
    OBVIOUS
  <2> HIDE DEF s
  <2>3. /\ toDev \o s \in Seq(Tokens) /\ Len(toDev \o s) = Len(toDev) + Len(s)
        /\ \A i \in 1 .. Len(toDev) : (toDev \o s)[i] = toDev[i]
        /\ \A i \in 1 .. Len(s) : (toDev \o s)[Len(toDev) + i] = s[i]
    <3>1. toDev \in Seq(Tokens) /\ s \in Seq(Tokens)
      BY <1>2, <2>1
    <3>. QED BY ONLY <3>1, ConcatFacts
  <2>4. 1 \in 1 .. Len(s) /\ 2 \in 1 .. Len(s)
    BY <2>1
  <2>. QED BY <2>1, <2>2, <2>3, <2>4
<1>6. toHost' \in Seq(Tokens) /\ board' \in BOOLEAN /\ (board' => board)
  <2>1. <<>> \in Seq(Tokens)
    OBVIOUS
  <2>2. toHost' \in Seq(Tokens)
    BY <1>1, <1>2, <2>1
  <2>3. board' = FALSE \/ board' = board
    BY <1>1
  <2>4. board \in BOOLEAN
    BY <1>2
  <2>5. CASE board' = FALSE
    BY <2>2, <2>5
  <2>6. CASE board' = board
    BY <2>2, <2>4, <2>6
  <2>. QED BY <2>3, <2>5, <2>6
<1>7. /\ belief' \in [Units -> Contents \cup {Unknown}]
      /\ \A u \in Units : belief'[u] = IF u \in Touches(JobOf(c)) THEN Unknown ELSE belief[u]
  BY <1>1, <1>2
<1>8. TypeInv'
  <2>1. calls' \in 0 .. MaxCalls
    BY <1>1, <1>2, HostAssumption
  <2>2. asked' \subseteq Jobs
    BY <1>1, <1>2 DEF TypeInv, TypeOK
  <2>. QED BY <1>1, <1>2, <1>5, <1>6, <1>7, <2>1, <2>2 DEF TypeInv, TypeOK, ParserOK, Waiting
<1>9. InCall' /\ ~InCall /\ Op' = c.cmd[1] /\ Arg' = c.cmd[2] /\ calls' > 0
  BY <1>1, <1>2 DEF InCall, Waiting, Op, Arg
<1>10. LineInv' /\ JobInv' /\ BeliefIsTrue'
  <2>1. BeliefIsTrue'
    BY <1>1, <1>2, <1>7 DEF BeliefIsTrue
  <2>2. BootAsked => BootAsked'
    BY <1>1 DEF BootAsked
  <2>3. JobInv'
    BY <1>1, <1>2, <1>7, <2>2 DEF JobInv, Idle
  <2>. QED BY <1>1, <1>2, <2>1, <2>3 DEF LineInv
<1>11. CallInv'
  <2>1. JobOf(call)' = JobOf(c)
    BY <1>1 DEF JobOf
  <2>. QED BY <1>1, <1>7, <2>1 DEF CallInv
<1>12. CASE c.cmd = <<"READINFO", "-">> /\ calls = 0
  <2>1. c.cmd[1] = "READINFO" /\ c.cmd[2] = "-"
    BY <1>12
  <2>2. toHost' = <<>> /\ ~board'
    BY <1>1, <2>1
  <2>3. OnlyHello(toDev)
    <3>1. board => toDev = <<>>
      BY <1>2, <1>9 DEF BoardModeInv, Quiet
    <3>2. ~board => OnlyHello(toDev)
      BY <1>1, <1>2, <1>12 DEF LeftOver, Greeting
    <3>. QED BY <3>1, <3>2 DEF OnlyHello
  <2>4. OnlyHello(toDev)'
    <3>1. ASSUME NEW i \in 1 .. Len(toDev')
          PROVE  toDev'[i] \in HelloTokens
      <4>1. i \in 1 .. Len(toDev) \/ i = Len(toDev) + 1 \/ i = Len(toDev) + 2
        BY <1>2, <1>5
      <4>. QED BY <1>5, <2>1, <2>3, <4>1 DEF OnlyHello, HelloTokens
    <3>. QED BY <3>1 DEF OnlyHello
  <2>5. BoardInv' /\ LeftOver' /\ ReadInfoInv' /\ VersionInv' /\ BoardModeInv'
    BY <1>1, <1>9, <2>1, <2>2, <2>4
       DEF BoardInv, LeftOver, ReadInfoInv, VersionInv, BoardModeInv, InCall
  <2>. QED BY <1>8, <1>10, <1>11, <2>5 DEF IInv
<1>13. CASE c.cmd = <<"READVERS", "-">> /\ calls > 0 /\ Op = "READINFO"
  <2>1. c.cmd[1] = "READVERS" /\ c.cmd[2] = "-"
    BY <1>13
  <2>2. ~board /\ ~board' /\ toHost' = toHost
    BY <1>1, <1>2, <1>9, <1>13, <2>1 DEF BoardInv
  <2>3. Greeting /\ Greeted /\ OnlyHello(toDev)
    BY <1>1, <1>2, <1>13, <2>2 DEF Greeting, ReadInfoInv, LeftOver
  <2>4. VersionComing'
    <3>1. NotVersion'
      <4>1. toHost # <<>> => 1 \in 1 .. Len(toHost)
        BY <1>2
      <4>. QED BY <2>2, <2>3, <4>1 DEF NotVersion, Greeted, NoVersion
    <3>2. HelloParser'
      BY <1>1, <2>3 DEF Greeted, HelloParser
    <3>3. Len(toDev') >= 2 /\ Len(toDev') - 1 = Len(toDev) + 1 /\ Len(toDev') - 2 = Len(toDev)
      BY <1>2, <1>5
    <3>. QED BY <1>5, <2>1, <2>3, <3>1, <3>2, <3>3 DEF VersionComing, OnlyHello
  <2>5. VersionInv'
    BY <1>1, <2>3, <2>4 DEF VersionInv, Greeted, HelloParser
  <2>6. BoardInv' /\ LeftOver' /\ ReadInfoInv' /\ BoardModeInv'
    BY <1>1, <1>9, <2>1, <2>2 DEF BoardInv, LeftOver, ReadInfoInv, BoardModeInv, Greeting
  <2>. QED BY <1>8, <1>10, <1>11, <2>5, <2>6 DEF IInv
<1>14. CASE /\ c.cmd[1] \notin {"READINFO", "READVERS"}
            /\ calls = 0 => board
            /\ calls > 0 => Op \notin {"READINFO", "READVERS"}
  <2>1. board /\ board' /\ toHost' = toHost
    BY <1>1, <1>2, <1>9, <1>14 DEF BoardInv
  <2>2. Quiet
    BY <1>2, <1>9, <2>1 DEF BoardModeInv
  <2>3. toDev' = c.cmd
    <3>1. toDev = <<>>
      BY <2>2 DEF Quiet
    <3>. QED BY <1>1, <1>4, <3>1
  <2>4. Sending'
    BY <1>1, <2>1, <2>2, <2>3 DEF Sending, Quiet, Idle
  <2>5. BoardModeInv'
    BY <1>9, <2>4 DEF BoardModeInv, InFlight
  <2>6. BoardInv' /\ LeftOver' /\ ReadInfoInv' /\ VersionInv'
    BY <1>1, <1>9, <1>14, <2>1 DEF BoardInv, LeftOver, ReadInfoInv, VersionInv, Greeting
  <2>. QED BY <1>8, <1>10, <1>11, <2>5, <2>6 DEF IInv
<1>. QED BY <1>1, <1>2, <1>12, <1>13, <1>14, NextCallFacts

\* What the host does with an answer that it accepts.
Taking ==
  \/ /\ hpc = "echo" /\ hpc' = "answer" /\ toHost[1] = Op /\ toHost[2] = Arg
     /\ UNCHANGED <<belief, toDev, board>>
  \/ /\ hpc = "answer" /\ Op = "RDBANK" /\ hpc' = "frame" /\ toHost[1] = Ok
     /\ UNCHANGED <<belief, toDev, board>>
  \/ /\ hpc = "answer" /\ Op = "WRBK" /\ hpc' = "final" /\ toHost[1] = Ok
     /\ toDev' = toDev \o Frame[call.data]
     /\ UNCHANGED <<belief, board>>
  \/ /\ hpc = "answer" /\ Op \notin {"RDBANK", "WRBK"} /\ hpc' = "open"
     /\ toHost[1] = (IF Op \in Identities THEN Op ELSE Ok)
     /\ belief' = Learn(call, call.data)
     /\ board' = (board \/ Op = "READVERS")
     /\ UNCHANGED toDev
  \/ /\ hpc = "final" /\ hpc' = "open" /\ toHost[1] = Ok
     /\ belief' = Learn(call, call.data)
     /\ UNCHANGED <<toDev, board>>
  \/ /\ hpc = "frame" /\ hpc' = "open"
     /\ \E c \in Contents : Frame[c] = Response /\ belief' = Learn(call, c)
     /\ UNCHANGED <<toDev, board>>

LEMMA AcceptFacts ==
  ASSUME TypeInv, Accept, UNCHANGED fwVars
  PROVE  /\ InCall /\ Len(toHost) \in Nat
         /\ Awaited = (CASE hpc = "echo" -> 2 [] hpc = "frame" -> 4 [] OTHER -> 1)
         /\ Len(toHost) >= Awaited
         /\ toHost' \in Seq(Tokens) /\ Len(toHost') = Len(toHost) - Awaited
         /\ \A i \in 1 .. Len(toHost') : toHost'[i] = toHost[Awaited + i]
         /\ \A i \in 1 .. Awaited : Response[i] = toHost[i]
         /\ UNCHANGED <<call, sessions, calls, dtr, plugged, flash, asked, parser, job, boot>>
         /\ Taking
<1>1. /\ hpc \in Waiting /\ Arrived /\ Right
      /\ toHost' = SubSeq(toHost, Awaited + 1, Len(toHost))
      /\ UNCHANGED <<call, sessions, calls, dtr, plugged, flash, asked, parser, job, boot>>
  BY DEF Accept, fwVars
<1>2. toHost \in Seq(Tokens) /\ Len(toHost) \in Nat /\ call \in Calls /\ board \in BOOLEAN
  BY DEF TypeInv, TypeOK
<1>3. /\ Awaited = (CASE hpc = "echo" -> 2 [] hpc = "frame" -> 4 [] OTHER -> 1)
      /\ Awaited \in Nat /\ Awaited > 0
  BY DEF Awaited, CommandLength, FrameLength
<1>4. Len(toHost) >= Awaited
  BY <1>1 DEF Arrived
<1>5. /\ toHost' \in Seq(Tokens) /\ Len(toHost') = Len(toHost) - Awaited
      /\ \A i \in 1 .. Len(toHost') : toHost'[i] = toHost[Awaited + i]
  BY <1>1, <1>2, <1>3, <1>4, DropFacts
<1>6. /\ Len(Response) = Awaited
      /\ \A i \in 1 .. Awaited : Response[i] = toHost[i]
  BY <1>2, <1>3, <1>4, TakeFacts DEF Response
<1>7. Response[1] = toHost[1]
  BY <1>3, <1>6
<1>8. ~(hpc = "answer" /\ Op = "READVERS") => board' = board
  <2> DEFINE known == hpc = "answer" /\ Op = "READVERS"
  <2>1. board' = (board \/ known)
    BY DEF Accept, Op
  <2>2. ASSUME ~known
        PROVE  (board \/ known) = board
    BY <1>2, <2>2
  <2>. QED BY <2>1, <2>2
<1>9. Taking
  <2>1. CASE hpc = "echo"
    <3>1. Response = <<Op, Arg>>
      BY <1>1, <1>2, <2>1, CallFacts DEF Right, EchoOk
    <3>2. Response[1] = Op /\ Response[2] = Arg
      BY <3>1
    <3>3. Response[2] = toHost[2]
      BY <1>3, <1>6, <2>1
    <3>4. hpc' = "answer" /\ UNCHANGED <<belief, toDev>>
      BY <2>1 DEF Accept, GoOn
    <3>5. board' = board
      BY <1>8, <2>1
    <3>. QED BY <1>7, <2>1, <3>2, <3>3, <3>4, <3>5 DEF Taking
  <2>2. CASE hpc = "answer"
    <3>1. Response = <<IF Op \in Identities THEN Op ELSE Ok>>
      BY <1>1, <2>2 DEF Right, StatusOk, Op
    <3>2. toHost[1] = IF Op \in Identities THEN Op ELSE Ok
      BY <1>7, <3>1
    <3>3. board' = (board \/ Op = "READVERS")
      BY <2>2 DEF Accept, Op
    <3>4. CASE Op \in {"RDBANK", "WRBK"}
      <4>1. board' = board
        BY <1>8, <3>4
      <4>2. Op \notin Identities
        BY <3>4 DEF Identities
      <4>3. CASE Op = "RDBANK"
        <5>1. hpc' = "frame" /\ UNCHANGED <<belief, toDev>>
          BY <2>2, <4>3 DEF Accept, GoOn, Op
        <5>. QED BY <2>2, <3>2, <4>1, <4>2, <4>3, <5>1 DEF Taking
      <4>4. CASE Op = "WRBK"
        <5>1. hpc' = "final" /\ UNCHANGED belief /\ toDev' = toDev \o Frame[call.data]
          BY <2>2, <4>4 DEF Accept, GoOn, Op
        <5>. QED BY <2>2, <3>2, <4>1, <4>2, <4>4, <5>1 DEF Taking
      <4>. QED BY <3>4, <4>3, <4>4
    <3>5. CASE Op \notin {"RDBANK", "WRBK"}
      <4>1. hpc' = "open" /\ belief' = Learn(call, call.data) /\ UNCHANGED toDev
        BY <2>2, <3>5 DEF Accept, Return, Op
      <4>. QED BY <2>2, <3>2, <3>3, <3>5, <4>1 DEF Taking
    <3>. QED BY <3>4, <3>5
  <2>3. CASE hpc = "final"
    <3>1. Response = <<Ok>>
      BY <1>1, <2>3 DEF Right, StatusOk
    <3>2. hpc' = "open" /\ belief' = Learn(call, call.data) /\ UNCHANGED toDev
      BY <2>3 DEF Accept, Return
    <3>3. board' = board
      BY <1>8, <2>3
    <3>. QED BY <1>7, <2>3, <3>1, <3>2, <3>3 DEF Taking
  <2>4. CASE hpc = "frame"
    <3>1. /\ hpc' = "open" /\ UNCHANGED toDev
          /\ \E c \in Contents : Frame[c] = Response /\ belief' = Learn(call, c)
      BY <2>4 DEF Accept, Return
    <3>2. board' = board
      BY <1>8, <2>4
    <3>. QED BY <2>4, <3>1, <3>2 DEF Taking
  <2>. QED BY <1>1, <2>1, <2>2, <2>3, <2>4 DEF Waiting
<1>. QED BY <1>1, <1>2, <1>3, <1>4, <1>5, <1>6, <1>9 DEF InCall

\* What a call teaches the host is true if it is true of the units of the call.
LEMMA LearnFacts ==
  ASSUME TypeInv, BeliefIsTrue, NEW d \in Contents, belief' = Learn(call, d), UNCHANGED flash,
         \A u \in Units : u \in Touches(JobOf(call)) \/ (Op = "RDBANK" /\ Arg = u) => flash[u] = d
  PROVE  /\ belief' \in [Units -> Contents \cup {Unknown}]
         /\ BeliefIsTrue'
<1>1. \A u \in Units : call.cmd = <<"RDBANK", u>> => Op = "RDBANK" /\ Arg = u
  BY DEF Op, Arg
<1>2. /\ belief' \in [Units -> Contents \cup {Unknown}]
      /\ \A u \in Units : belief'[u] \in {d, belief[u]}
      /\ \A u \in Units : ~(u \in Touches(JobOf(call)) \/ (Op = "RDBANK" /\ Arg = u))
                           => belief'[u] = belief[u]
  BY <1>1 DEF Learn, TypeInv, TypeOK
<1>. QED BY <1>2 DEF BeliefIsTrue

\* What does not depend on the kind of call.
LEMMA AcceptCommon ==
  ASSUME IInv, Accept, UNCHANGED fwVars, job = NoJob,
         belief' \in [Units -> Contents \cup {Unknown}], BeliefIsTrue',
         hpc' # "open" => UNCHANGED belief
  PROVE  TypeInv' /\ LineInv' /\ JobInv' /\ CallInv'
<1>1. /\ TypeInv /\ LineInv /\ JobInv /\ CallInv /\ toDev \in Seq(Tokens) /\ board \in BOOLEAN
      /\ call \in Calls
  BY DEF IInv, TypeInv, TypeOK
<1>2. /\ InCall /\ toHost' \in Seq(Tokens) /\ Taking
      /\ UNCHANGED <<call, sessions, calls, dtr, plugged, flash, asked, parser, job, boot>>
  BY <1>1, AcceptFacts
<1>3. hpc \in Waiting /\ hpc' \in Waiting \cup {"open"}
  BY <1>2 DEF Taking, InCall, Waiting
<1>4. toDev' \in Seq(Tokens)
  <2>1. Frame[call.data] \in Seq(Tokens)
    BY <1>1, CallFacts, FrameFacts
  <2>2. toDev \o Frame[call.data] \in Seq(Tokens)
    BY <1>1, <2>1, ConcatFacts
  <2>3. toDev' = toDev \/ toDev' = toDev \o Frame[call.data]
    BY <1>2 DEF Taking
  <2>. QED BY <1>1, <2>2, <2>3
<1>5. board' \in BOOLEAN
  <2>1. board' = board \/ board' = (board \/ Op = "READVERS")
    BY <1>2 DEF Taking
  <2>. QED BY <1>1, <2>1
<1>6. TypeInv'
  BY <1>1, <1>2, <1>3, <1>4, <1>5 DEF TypeInv, TypeOK, ParserOK, Waiting
<1>7. LineInv'
  BY <1>1, <1>2, <1>3 DEF LineInv, Waiting
<1>8. JobInv'
  BY <1>1, <1>2 DEF JobInv, BootAsked
<1>9. CallInv'
  BY <1>1, <1>2, <1>3 DEF CallInv, InCall, JobOf, Waiting
<1>. QED BY <1>6, <1>7, <1>8, <1>9

\* The answer to a call that is about no unit.
LEMMA NothingLearnt ==
  ASSUME TypeInv, BeliefIsTrue, Taking, UNCHANGED <<call, flash>>,
         Op \in {"READINFO", "READVERS", "DEVID", "BOOT"}
  PROVE  /\ belief' \in [Units -> Contents \cup {Unknown}]
         /\ BeliefIsTrue'
<1>1. call \in Calls /\ call.data \in Contents /\ belief \in [Units -> Contents \cup {Unknown}]
  BY CallFacts DEF TypeInv, TypeOK
<1>2. JobOf(call).op = Op
  BY DEF JobOf, Op
<1>3. Touches(JobOf(call)) = {}
  BY <1>2 DEF Touches
<1>4. belief' = belief \/ \E d \in Contents : belief' = Learn(call, d)
  BY <1>1 DEF Taking
<1>5. CASE belief' = belief
  BY <1>1, <1>5 DEF BeliefIsTrue
<1>6. ASSUME NEW d \in Contents, belief' = Learn(call, d)
      PROVE  /\ belief' \in [Units -> Contents \cup {Unknown}]
             /\ BeliefIsTrue'
  BY <1>3, <1>6, LearnFacts
<1>. QED BY <1>4, <1>5, <1>6

LEMMA AcceptGreeting ==
  ASSUME IInv, Accept, UNCHANGED fwVars, Op = "READINFO"
  PROVE  IInv'
<1>1. /\ TypeInv /\ BoardInv /\ BeliefIsTrue /\ LeftOver /\ ReadInfoInv /\ board \in BOOLEAN
      /\ calls \in Nat
  BY HostAssumption DEF IInv, TypeInv, TypeOK
<1>2. /\ InCall /\ Len(toHost) \in Nat
      /\ Awaited = (CASE hpc = "echo" -> 2 [] hpc = "frame" -> 4 [] OTHER -> 1)
      /\ Len(toHost) >= Awaited
      /\ Len(toHost') = Len(toHost) - Awaited
      /\ \A i \in 1 .. Len(toHost') : toHost'[i] = toHost[Awaited + i]
      /\ UNCHANGED <<call, sessions, calls, dtr, plugged, flash, asked, parser, job, boot>>
      /\ Taking
  BY <1>1, AcceptFacts
<1>3. hpc # "closed" /\ calls > 0 /\ ~board /\ Greeting
  BY <1>1, <1>2 DEF BoardInv, InCall, Waiting, Greeting
<1>4. Greeted
  <2>1. hpc = "echo" => toHost[1] = "READINFO"
    BY <1>2 DEF Taking
  <2>2. hpc = "echo" => toHost # <<>>
    BY <1>2
  <2>. QED BY <1>1, <1>3, <2>1, <2>2 DEF ReadInfoInv, Dead
<1>5. /\ ~board' /\ Op' = Op /\ toDev' = toDev
      /\ hpc' \in Waiting \cup {"open"} /\ hpc' # "closed" /\ hpc' # "echo"
      /\ hpc' # "open" => UNCHANGED belief
  <2>1. Op' = Op /\ toDev' = toDev /\ (hpc' # "open" => UNCHANGED belief)
    BY <1>2 DEF Taking, Op
  <2>2. hpc' \in Waiting \cup {"open"} /\ hpc' # "closed" /\ hpc' # "echo"
    BY <1>2 DEF Taking, Waiting
  <2>3. board' = board \/ board' = (board \/ Op = "READVERS")
    BY <1>2 DEF Taking
  <2>4. CASE board' = board
    BY <1>3, <2>1, <2>2, <2>4
  <2>5. CASE board' = (board \/ Op = "READVERS")
    <3>1. ~(board \/ Op = "READVERS")
      BY <1>3
    <3>. QED BY <2>1, <2>2, <2>5, <3>1
  <2>. QED BY <2>3, <2>4, <2>5
<1>6. Awaited \in Nat
  BY <1>2
<1>7. Greeted'
  <2>1. NoVersion'
    <3>1. ASSUME NEW i \in 1 .. Len(toHost')
          PROVE  toHost'[i] # "READVERS"
      <4>1. Awaited + i \in 1 .. Len(toHost)
        BY <1>2, <1>6
      <4>. QED BY <1>2, <1>4, <4>1 DEF Greeted, NoVersion
    <3>. QED BY <3>1 DEF NoVersion
  <2>. QED BY <1>2, <1>4, <2>1 DEF Greeted, HelloParser
<1>8. belief' \in [Units -> Contents \cup {Unknown}] /\ BeliefIsTrue'
  BY <1>1, <1>2, NothingLearnt
<1>9. TypeInv' /\ LineInv' /\ JobInv' /\ CallInv'
  BY <1>4, <1>5, <1>8, AcceptCommon DEF Greeted
<1>10. BoardInv' /\ LeftOver' /\ ReadInfoInv' /\ VersionInv' /\ BoardModeInv'
  BY <1>1, <1>2, <1>3, <1>5, <1>7
     DEF BoardInv, LeftOver, OnlyHello, ReadInfoInv, VersionInv, BoardModeInv
<1>. QED BY <1>8, <1>9, <1>10 DEF IInv

LEMMA AcceptVersion ==
  ASSUME IInv, Accept, UNCHANGED fwVars, Op = "READVERS"
  PROVE  IInv'
<1>1. /\ TypeInv /\ BoardInv /\ BeliefIsTrue /\ VersionInv /\ board \in BOOLEAN
      /\ calls \in Nat
  BY HostAssumption DEF IInv, TypeInv, TypeOK
<1>2. /\ InCall /\ Len(toHost) \in Nat
      /\ Awaited = (CASE hpc = "echo" -> 2 [] hpc = "frame" -> 4 [] OTHER -> 1)
      /\ Len(toHost) >= Awaited
      /\ toHost' \in Seq(Tokens)
      /\ Len(toHost') = Len(toHost) - Awaited
      /\ \A i \in 1 .. Len(toHost') : toHost'[i] = toHost[Awaited + i]
      /\ UNCHANGED <<call, sessions, calls, dtr, plugged, flash, asked, parser, job, boot>>
      /\ Taking
  BY <1>1, AcceptFacts
<1>3. calls > 0 /\ ~board /\ Op' = Op /\ job = NoJob
  BY <1>1, <1>2 DEF BoardInv, VersionInv, InCall, Waiting, Op
<1>4. belief' \in [Units -> Contents \cup {Unknown}] /\ BeliefIsTrue'
  BY <1>1, <1>2, NothingLearnt
<1>5. CASE hpc = "echo"
  <2>1. hpc' = "answer" /\ toHost[1] = "READVERS" /\ UNCHANGED <<belief, toDev, board>>
    BY <1>2, <1>5 DEF Taking
  <2>2. VersionSaid
    <3>1. ~NotVersion
      BY <1>2, <1>5, <2>1 DEF NotVersion
    <3>. QED BY <1>1, <1>2, <1>5, <3>1
             DEF VersionInv, VersionComing, VersionStarted, VersionLost
  <2>3. toHost' \in {<<>>, <<"READVERS">>}
    <3>1. CASE toHost = <<"READVERS", "-">> \/ toHost = <<"READVERS">>
      <4>1. Len(toHost') = 0
        BY <1>2, <1>5, <3>1
      <4>. QED BY <1>2, <4>1, OneOrTwo
    <3>2. CASE toHost = <<"READVERS", "-", "READVERS">>
      <4>1. Len(toHost) = 3 /\ toHost[3] = "READVERS"
        BY <3>2
      <4>2. Len(toHost') = 1 /\ toHost'[1] = "READVERS"
        BY <1>2, <1>5, <4>1
      <4>. QED BY <1>2, <4>2, OneOrTwo
    <3>. QED BY <2>2, <3>1, <3>2 DEF VersionSaid
  <2>4. TypeInv' /\ LineInv' /\ JobInv' /\ CallInv'
    BY <1>3, <1>4, <2>1, AcceptCommon
  <2>5. BoardInv' /\ LeftOver' /\ ReadInfoInv' /\ VersionInv' /\ BoardModeInv'
    BY <1>2, <1>3, <2>1, <2>2, <2>3
       DEF BoardInv, LeftOver, ReadInfoInv, VersionInv, BoardModeInv, VersionSaid, Idle, Greeting,
           InCall, Waiting
  <2>. QED BY <1>4, <2>4, <2>5 DEF IInv
<1>6. CASE hpc # "echo"
  <2>1. hpc = "answer" /\ Idle /\ toDev = <<>> /\ toHost \in {<<>>, <<"READVERS">>}
    BY <1>1, <1>2, <1>6 DEF VersionInv
  <2>2. hpc' = "open" /\ board' /\ toDev' = toDev
    BY <1>2, <2>1 DEF Taking
  <2>3. Len(toHost) \in {0, 1}
    <3>1. Len(<<>>) = 0 /\ Len(<<"READVERS">>) = 1
      OBVIOUS
    <3>. QED BY ONLY <2>1, <3>1, Zenon
  <2>4. toHost' = <<>>
    <3> DEFINE k == Len(toHost)  m == Len(toHost')
    <3>1. m = 0
      <4>1. k \in {0, 1} /\ k >= 1 /\ m = k - 1
        BY <1>2, <2>1, <2>3
      <4> HIDE DEF k, m
      <4>. QED BY <4>1
    <3>. QED BY <1>2, <3>1, OneOrTwo
  <2>5. TypeInv' /\ LineInv' /\ JobInv' /\ CallInv'
    BY <1>3, <1>4, <2>2, AcceptCommon
  <2>6. Quiet' /\ ~InCall'
    BY <1>2, <1>3, <2>1, <2>2, <2>4 DEF Quiet, Idle, InCall, Waiting
  <2>7. BoardInv' /\ LeftOver' /\ ReadInfoInv' /\ VersionInv' /\ BoardModeInv'
    BY <1>2, <1>3, <2>2, <2>6
       DEF BoardInv, LeftOver, ReadInfoInv, VersionInv, BoardModeInv, Greeting, InCall
  <2>. QED BY <1>4, <2>5, <2>7 DEF IInv
<1>. QED BY <1>5, <1>6

LEMMA TupleFacts ==
  ASSUME NEW a, NEW b, NEW c, NEW d
  PROVE  /\ Len(<<a, b>>) = 2
         /\ Len(<<a, b, c>>) = 3 /\ <<a, b, c>>[3] = c
         /\ Len(<<a, b, c, d>>) = 4 /\ <<a, b, c, d>>[4] = d
OBVIOUS

\* Taking k tokens off what is left of a response.
LEMMA RemainsOn ==
  ASSUME NEW r, Len(r) \in Nat, NEW n \in Nat, NEW k \in Nat,
         Len(toHost) \in Nat, Len(toHost) >= k, Len(toHost') = Len(toHost) - k,
         \A i \in 1 .. Len(toHost') : toHost'[i] = toHost[k + i],
         RemainsAt(toHost, r, n)
  PROVE  /\ RemainsAt(toHost', r, n + k)
         /\ Len(toHost) <= Len(r) - n
         /\ \A i \in 1 .. k : toHost[i] = r[n + i]
<1>1. Len(toHost) <= Len(r) - n /\ \A i \in 1 .. Len(toHost) : toHost[i] = r[n + i]
  BY DEF RemainsAt
<1>2. \A i \in 1 .. k : i \in 1 .. Len(toHost)
  OBVIOUS
<1>3. ASSUME NEW i \in 1 .. Len(toHost')
      PROVE  toHost'[i] = r[n + k + i]
  <2>1. k + i \in 1 .. Len(toHost) /\ n + (k + i) = n + k + i
    OBVIOUS
  <2>. QED BY <1>1, <2>1
<1>4. Len(toHost') <= Len(r) - (n + k)
  BY <1>1
<1>. QED BY <1>1, <1>2, <1>3, <1>4 DEF RemainsAt

LEMMA AcceptWork ==
  ASSUME IInv, Accept, UNCHANGED fwVars, board
  PROVE  IInv'
<1>1. /\ TypeInv /\ BoardInv /\ BeliefIsTrue /\ BoardModeInv /\ call \in Calls /\ calls \in Nat
      /\ flash \in [Units -> Contents] /\ belief \in [Units -> Contents \cup {Unknown}]
      /\ toHost \in Seq(Tokens)
  BY HostAssumption DEF IInv, TypeInv, TypeOK
<1>2. /\ InCall /\ Len(toHost) \in Nat
      /\ Awaited = (CASE hpc = "echo" -> 2 [] hpc = "frame" -> 4 [] OTHER -> 1)
      /\ Len(toHost) >= Awaited
      /\ toHost' \in Seq(Tokens)
      /\ Len(toHost') = Len(toHost) - Awaited
      /\ \A i \in 1 .. Len(toHost') : toHost'[i] = toHost[Awaited + i]
      /\ \A i \in 1 .. Awaited : Response[i] = toHost[i]
      /\ UNCHANGED <<call, sessions, calls, dtr, plugged, flash, asked, parser, job, boot>>
      /\ Taking
  BY <1>1, AcceptFacts
<1>3. Op \notin {"READINFO", "READVERS"} /\ calls > 0 /\ hpc # "closed"
  BY <1>1, <1>2 DEF BoardInv, InCall, Waiting
<1>4. /\ call.data \in Contents /\ Frame[call.data] \in Seq(Tokens)
      /\ Len(Frame[call.data]) = FrameLength /\ (Op \in {"RDBANK", "WRBK"} => Arg \in Units)
      /\ Op \in {"DEVID", "BOOT", "ERASE", "ERBANK", "RDBANK", "WRBK"}
  BY <1>1, <1>3, CallFacts, FrameFacts
<1>5. Op' = Op /\ Arg' = Arg /\ JobOf(call)' = JobOf(call)
  BY <1>2 DEF Op, Arg, JobOf
<1>6. Awaited \in Nat /\ Awaited > 0 /\ toHost # <<>>
  BY <1>2
<1>7. job = NoJob /\ (Uploading \/ Refused \/ Replied)
  BY <1>1, <1>2, <1>6 DEF BoardModeInv, InFlight, Sending, Working, Uploading, Refused, Replied
<1>8. Taken \in Nat /\ (hpc' # "open" => Taken' = Taken + Awaited)
  <2>1. Taken \in Nat
    BY DEF Taken
  <2>2. hpc = "echo" /\ hpc' = "answer" => Taken = 0 /\ Taken' = 2 /\ Awaited = 2
    BY <1>2 DEF Taken
  <2>3. hpc = "answer" /\ hpc' \in {"frame", "final"} => Taken = 2 /\ Taken' = 3 /\ Awaited = 1
    BY <1>2 DEF Taken
  <2>4. \/ hpc = "echo" /\ hpc' = "answer"
        \/ hpc = "answer" /\ hpc' \in {"frame", "final"}
        \/ hpc' = "open"
    BY <1>2 DEF Taking
  <2>. QED BY <2>1, <2>2, <2>3, <2>4
<1>9. ASSUME NEW r, Len(r) \in Nat, Remains(r)
      PROVE  /\ hpc' # "open" => RemainsAt(toHost', r, Taken')
             /\ Len(toHost) <= Len(r) - Taken
             /\ \A i \in 1 .. Awaited : toHost[i] = r[Taken + i]
  <2>1. /\ RemainsAt(toHost', r, Taken + Awaited)
        /\ Len(toHost) <= Len(r) - Taken
        /\ \A i \in 1 .. Awaited : toHost[i] = r[Taken + i]
    <3>1. RemainsAt(toHost, r, Taken) /\ Len(toHost') \in Nat
      BY <1>2, <1>6, <1>9 DEF Remains
    <3>2. /\ Len(toHost) \in Nat /\ Len(toHost) >= Awaited /\ Len(toHost') = Len(toHost) - Awaited
          /\ \A i \in 1 .. Len(toHost') : toHost'[i] = toHost[Awaited + i]
      BY <1>2
    <3>3. Taken \in Nat /\ Awaited \in Nat
      BY <1>6, <1>8
    <3>. QED BY ONLY <1>9, <3>1, <3>2, <3>3, RemainsOn
  <2>. QED BY <1>8, <2>1
<1>10. ASSUME hpc' = "open", NEW d \in Contents, belief' = Learn(call, d), board',
              UNCHANGED toDev, toDev = <<>>, Len(toHost) <= Awaited, Idle,
              \A u \in Units : u \in Touches(JobOf(call)) \/ (Op = "RDBANK" /\ Arg = u)
                              => flash[u] = d
       PROVE  IInv'
  <2>1. belief' \in [Units -> Contents \cup {Unknown}] /\ BeliefIsTrue'
    BY <1>1, <1>2, <1>10, LearnFacts
  <2>2. TypeInv' /\ LineInv' /\ JobInv' /\ CallInv'
    BY <1>7, <1>10, <2>1, AcceptCommon
  <2>3. toHost' = <<>>
    <3> DEFINE k == Len(toHost)  m == Len(toHost')
    <3>1. m = 0
      <4>1. k \in Nat /\ k >= Awaited /\ k <= Awaited /\ m = k - Awaited
        BY <1>2, <1>10
      <4> HIDE DEF k, m
      <4>. QED BY <1>6, <4>1
    <3>. QED BY <1>2, <3>1, OneOrTwo
  <2>4. Quiet' /\ ~InCall'
    BY <1>2, <1>7, <1>10, <2>3 DEF Quiet, Idle, InCall, Waiting
  <2>5. BoardInv' /\ LeftOver' /\ ReadInfoInv' /\ VersionInv' /\ BoardModeInv'
    BY <1>2, <1>3, <1>5, <1>10, <2>4
       DEF BoardInv, LeftOver, ReadInfoInv, VersionInv, BoardModeInv, Greeting, InCall
  <2>. QED BY <2>1, <2>2, <2>5 DEF IInv
<1>11. ASSUME hpc' \in Waiting, UNCHANGED <<belief, board>>, InFlight'
       PROVE  IInv'
  <2>1. belief' \in [Units -> Contents \cup {Unknown}] /\ BeliefIsTrue'
    BY <1>1, <1>2, <1>11 DEF BeliefIsTrue
  <2>2. TypeInv' /\ LineInv' /\ JobInv' /\ CallInv'
    BY <1>7, <1>11, <2>1, AcceptCommon
  <2>3. BoardInv' /\ LeftOver' /\ ReadInfoInv' /\ VersionInv' /\ BoardModeInv'
    BY <1>1, <1>2, <1>3, <1>5, <1>11
       DEF BoardInv, LeftOver, ReadInfoInv, VersionInv, BoardModeInv, Greeting, InCall, Waiting
  <2>. QED BY <2>1, <2>2, <2>3 DEF IInv
<1> DEFINE two == <<Op, Arg>>
           three(x) == <<Op, Arg, x>>
           four(x) == <<Op, Arg, Ok, x>>
           all == <<Op, Arg, Ok>> \o Frame[flash[Arg]]
<1>12. /\ Len(two) = 2
       /\ \A x : Len(three(x)) = 3 /\ three(x)[3] = x
       /\ \A x : Len(four(x)) = 4 /\ four(x)[4] = x
  BY TupleFacts
<1>13. ASSUME Op = "RDBANK"
       PROVE  /\ Len(all) = 7
              /\ \A i \in 1 .. 4 : all[3 + i] = Frame[flash[Arg]][i]
  <2>1. flash[Arg] \in Contents
    BY <1>1, <1>4, <1>13
  <2>2. Frame[flash[Arg]] \in Seq(Tokens) /\ Len(Frame[flash[Arg]]) = 4
    BY <2>1, FrameFacts DEF FrameLength
  <2>3. three(Ok) \in Seq(Tokens)
    <3>1. Op \in Tokens /\ Arg \in Tokens /\ Ok \in Tokens
      BY <1>1, CallFacts, TokenFacts
    <3>. QED BY <3>1
  <2> HIDE DEF three
  <2>4. all = three(Ok) \o Frame[flash[Arg]]
    BY DEF three
  <2> DEFINE f == Frame[flash[Arg]]  h == three(Ok)
  <2>5. h \in Seq(Tokens) /\ Len(h) = 3 /\ f \in Seq(Tokens) /\ Len(f) = 4 /\ all = h \o f
    BY <1>12, <2>2, <2>3, <2>4
  <2> HIDE DEF all, f, h
  <2>6. /\ Len(h \o f) = Len(h) + Len(f)
        /\ \A i \in 1 .. Len(f) : (h \o f)[Len(h) + i] = f[i]
    <3>1. h \in Seq(Tokens) /\ f \in Seq(Tokens)
      BY <2>5
    <3>. QED BY ONLY <3>1, ConcatFacts
  <2>7. Len(all) = 7 /\ \A i \in 1 .. 4 : all[3 + i] = f[i]
    <3>1. Len(h) = 3 /\ Len(f) = 4 /\ all = h \o f
      BY <2>5
    <3>2. Len(all) = 7
      BY ONLY <2>6, <3>1
    <3>3. \A i \in 1 .. 4 : all[3 + i] = f[i]
      BY ONLY <2>6, <3>1
    <3>. QED BY ONLY <3>2, <3>3
  <2>. QED BY <2>7 DEF f
<1>14. /\ two' = two /\ \A x : three(x)' = three(x) /\ four(x)' = four(x)
       /\ all' = all
  BY <1>2, <1>5
<1> HIDE DEF two, three, four, all
<1>15. CASE hpc = "echo"
  <2>1. hpc' = "answer" /\ UNCHANGED <<belief, toDev, board>>
    BY <1>2, <1>15 DEF Taking
  <2>2. Taken = 0 /\ Taken' = 2 /\ Awaited = 2
    BY <1>2, <1>15, <2>1 DEF Taken
  <2>3. CASE Uploading
    <3>1. Whole(three(Ok)) /\ toDev = <<>> /\ parser.got = <<>>
      BY <1>15, <2>3 DEF Uploading, three
    <3>2. RemainsAt(toHost', three(Ok), Taken')
      BY <1>9, <1>12, <2>1, <3>1 DEF Whole
    <3>3. Len(toHost') = 3 - Taken'
      <4>1. Len(toHost) = Len(three(Ok)) - Taken /\ Len(three(Ok)) = 3
        BY <1>12, <3>1 DEF Whole
      <4> DEFINE k == Len(toHost)  m == Len(toHost')  l == Len(three(Ok))
      <4>2. m = k - Awaited /\ k = l - Taken /\ l = 3
        BY <1>2, <4>1
      <4> HIDE DEF k, l, m
      <4>3. m = 3 - Taken'
        BY <2>2, <4>2
      <4>. QED BY <4>3 DEF m
    <3>4. Whole(three(Ok))'
      BY <1>12, <1>14, <3>2, <3>3 DEF Whole, Remains
    <3>. QED BY <1>2, <1>5, <1>11, <2>1, <2>3, <3>1, <3>4
             DEF Uploading, InFlight, Waiting, three
  <2>4. CASE Refused
    <3>1. RemainsAt(toHost', four(TooLate), Taken')
      BY <1>9, <1>12, <2>1, <2>4 DEF Refused, four
    <3>2. Remains(four(TooLate))'
      BY <1>14, <3>1 DEF Remains
    <3>. QED BY <1>2, <1>5, <1>11, <2>1, <2>4, <3>2 DEF Refused, InFlight, Waiting, four
  <2>5. CASE Replied
    <3>1. ASSUME NEW r, Len(r) \in Nat, Remains(r)
          PROVE  RemainsAt(toHost', r, Taken')
      BY <1>9, <2>1, <3>1
    <3>2. Remains(two) => Remains(two)'
      BY <1>12, <1>14, <3>1 DEF Remains
    <3>3. \A x : Remains(three(x)) => Remains(three(x))'
      BY <1>12, <1>14, <3>1 DEF Remains
    <3>4. Op = "RDBANK" /\ Remains(all) => Remains(all)'
      BY <1>13, <1>14, <3>1 DEF Remains
    <3>5. Done' = Done
      BY <1>2, <1>5 DEF Done
    <3>6. Replied'
      BY <1>2, <1>5, <1>15, <2>1, <2>5, <3>2, <3>3, <3>4, <3>5
         DEF Replied, Idle, two, three, all
    <3>. QED BY <1>11, <2>1, <3>6 DEF InFlight, Waiting
  <2>. QED BY <1>7, <2>3, <2>4, <2>5
<1>16. CASE hpc = "answer" /\ Op = "RDBANK"
  <2>1. hpc' = "frame" /\ UNCHANGED <<belief, toDev, board>>
    BY <1>2, <1>16 DEF Taking
  <2>2. Replied
    BY <1>7, <1>16 DEF Uploading, Refused
  <2>3. toDev = <<>> /\ Idle /\ Remains(all)
    BY <1>16, <2>2 DEF Replied, all
  <2>4. Remains(all)'
    BY <1>9, <1>13, <1>14, <1>16, <2>1, <2>3 DEF Remains
  <2>5. Replied'
    BY <1>2, <1>5, <1>7, <1>16, <2>1, <2>3, <2>4 DEF Replied, Idle, all
  <2>. QED BY <1>11, <2>1, <2>5 DEF InFlight, Waiting
<1>17. CASE hpc = "answer" /\ Op = "WRBK"
  <2>1. /\ hpc' = "final" /\ UNCHANGED <<belief, board>>
        /\ toDev' = toDev \o Frame[call.data]
    BY <1>2, <1>17 DEF Taking
  <2>2. Taken = 2 /\ Taken' = 3 /\ Awaited = 1
    BY <1>2, <1>17, <2>1 DEF Taken
  <2>3. CASE Uploading
    <3>1. /\ Whole(three(Ok)) /\ toDev = <<>> /\ parser.got = <<>>
          /\ parser.writing /\ ~parser.failed /\ parser.used = <<>> /\ parser.unit = Arg
      BY <1>17, <2>3 DEF Uploading, three
    <3>2. toHost' = <<>>
      <4>1. Len(toHost) = Len(three(Ok)) - Taken /\ Len(three(Ok)) = 3
        BY <1>12, <3>1 DEF Whole
      <4> DEFINE k == Len(toHost)  m == Len(toHost')  l == Len(three(Ok))
      <4>2. m = k - Awaited /\ k = l - Taken /\ l = 3
        BY <1>2, <4>1
      <4> HIDE DEF k, l, m
      <4>3. m = 0
        BY <2>2, <4>2
      <4>. QED BY <1>2, <4>3, OneOrTwo DEF m
    <3>3. toDev' = Frame[call.data]
      BY <1>4, <2>1, <3>1
    <3>4. /\ Len(parser'.got) + Len(toDev') = FrameLength
          /\ \A i \in 1 .. Len(parser'.got) : parser'.got[i] = Frame[call'.data][i]
          /\ \A i \in 1 .. Len(toDev') : toDev'[i] = Frame[call'.data][Len(parser'.got) + i]
      <4>1. parser'.got = <<>> /\ Len(<<>>) = 0 /\ call' = call
        BY <1>2, <3>1
      <4>2. Len(parser'.got) = 0
        BY <4>1
      <4>3. Len(toDev') = FrameLength /\ FrameLength \in Nat
        BY <1>4, <3>3 DEF FrameLength
      <4>4. \A i \in 1 .. Len(toDev') : 0 + i = i
        BY <4>3
      <4>. QED BY <3>3, <4>1, <4>2, <4>3, <4>4
    <3>5. Uploading'
      BY <1>2, <1>5, <1>7, <1>17, <2>1, <3>1, <3>2, <3>4 DEF Uploading
    <3>. QED BY <1>11, <2>1, <3>5 DEF InFlight, Waiting
  <2>4. CASE Refused
    <3>1. RemainsAt(toHost', four(TooLate), Taken')
      BY <1>9, <1>12, <2>1, <2>4 DEF Refused, four
    <3>2. Remains(four(TooLate))'
      BY <1>14, <3>1 DEF Remains
    <3>. QED BY <1>2, <1>5, <1>11, <2>1, <2>4, <3>2 DEF Refused, InFlight, Waiting, four
  <2>5. ~Replied
    <3>1. SUFFICES ASSUME Remains(two)
                   PROVE  FALSE
      BY <1>17 DEF Replied, two
    <3>2. Len(toHost) <= 2 - 2
      BY <1>9, <1>12, <2>2, <3>1
    <3>. QED BY <1>2, <2>2, <3>2
  <2>. QED BY <1>7, <2>3, <2>4, <2>5
<1>18. CASE hpc = "answer" /\ Op \notin {"RDBANK", "WRBK"}
  <2>1. /\ hpc' = "open" /\ belief' = Learn(call, call.data) /\ UNCHANGED toDev
        /\ toHost[1] = (IF Op \in Identities THEN Op ELSE Ok)
        /\ board' = (board \/ Op = "READVERS")
    BY <1>2, <1>18 DEF Taking
  <2>2. Taken = 2 /\ Awaited = 1
    BY <1>2, <1>18 DEF Taken
  <2>3. Replied
    BY <1>7, <1>18 DEF Uploading, Refused
  <2>4. PICK x : /\ Remains(three(x))
                 /\ Op \in {"ERASE", "ERBANK"} => Done \/ x = Failed
    <3>1. Op \in {"DEVID", "BOOT", "ERASE", "ERBANK"}
      BY <1>4, <1>18
    <3>. QED BY <1>18, <2>3, <3>1 DEF Replied, three
  <2>5. Len(toHost) <= 3 - 2 /\ toHost[1] = x
    <3>1. /\ Len(toHost) <= Len(three(x)) - Taken
          /\ \A i \in 1 .. Awaited : toHost[i] = three(x)[Taken + i]
      BY <1>9, <1>12, <2>4
    <3>2. 1 \in 1 .. Awaited /\ Taken + 1 = 3
      BY <2>2
    <3>. QED BY <1>12, <2>2, <3>1, <3>2
  <2>6. Op \in {"ERASE", "ERBANK"} => Done
    <3>1. Ok # Failed /\ Identities \cap {"ERASE", "ERBANK"} = {}
      BY DEF Ok, Failed, Identities
    <3>. QED BY <2>1, <2>4, <2>5, <3>1
  <2>7. \A u \in Units : u \in Touches(JobOf(call)) \/ (Op = "RDBANK" /\ Arg = u)
                         => flash[u] = call.data
    <3>1. JobOf(call).op = Op
      BY DEF JobOf, Op
    <3>2. Op \notin {"ERASE", "ERBANK"} => Touches(JobOf(call)) = {}
      BY <1>18, <3>1 DEF Touches
    <3>. QED BY <1>18, <2>6, <3>2 DEF Done
  <2>8. Len(toHost) <= Awaited
    BY <1>2, <2>2, <2>5
  <2>9. toDev = <<>> /\ Idle
    BY <2>3 DEF Replied
  <2>10. board'
    BY <2>1
  <2>. QED BY <1>4, <1>10, <2>1, <2>7, <2>8, <2>9, <2>10
<1>19. CASE hpc = "final"
  <2>1. /\ hpc' = "open" /\ belief' = Learn(call, call.data) /\ UNCHANGED <<toDev, board>>
        /\ toHost[1] = Ok
    BY <1>2, <1>19 DEF Taking
  <2>2. Taken = 3 /\ Awaited = 1
    BY <1>2, <1>19 DEF Taken
  <2>3. ASSUME NEW x, Remains(four(x))
        PROVE  Len(toHost) <= Awaited /\ x = Ok
    <3>1. /\ Len(toHost) <= Len(four(x)) - Taken
          /\ \A i \in 1 .. Awaited : toHost[i] = four(x)[Taken + i]
      BY <1>9, <1>12, <2>3
    <3>2. 1 \in 1 .. Awaited /\ Taken + 1 = 4 /\ 4 - Taken = Awaited
      BY <2>2
    <3>. QED BY <1>12, <2>1, <3>1, <3>2
  <2>4. Ok # Failed /\ Ok # TooLate
    BY DEF Ok, Failed, TooLate
  <2>5. Replied
    <3>1. ~Refused
      BY <2>3, <2>4 DEF Refused, four
    <3>2. ~Uploading
      BY <1>6, <1>19 DEF Uploading
    <3>. QED BY <1>7, <3>1, <3>2
  <2>6. /\ Op = "WRBK" /\ toDev = <<>> /\ Idle
        /\ \/ Done /\ Remains(four(Ok))
           \/ Remains(four(Failed))
    BY <1>19, <2>5 DEF Replied, four
  <2>7. Done /\ Len(toHost) <= Awaited
    BY <2>3, <2>4, <2>6
  <2>8. \A u \in Units : u \in Touches(JobOf(call)) \/ (Op = "RDBANK" /\ Arg = u)
                         => flash[u] = call.data
    BY <2>6, <2>7 DEF Done
  <2>. QED BY <1>4, <1>10, <2>1, <2>6, <2>7, <2>8
<1>20. CASE hpc = "frame"
  <2>1. PICK c \in Contents : Frame[c] = Response /\ belief' = Learn(call, c)
    BY <1>2, <1>20 DEF Taking
  <2>2. hpc' = "open" /\ UNCHANGED <<toDev, board>>
    BY <1>2, <1>20 DEF Taking
  <2>3. Taken = 3 /\ Awaited = 4
    BY <1>2, <1>20 DEF Taken
  <2>4. ~Refused
    <3>1. SUFFICES ASSUME Remains(four(TooLate))
                   PROVE  FALSE
      BY DEF Refused, four
    <3>2. Len(toHost) <= 4 - 3
      BY <1>9, <1>12, <2>3, <3>1
    <3>. QED BY <1>2, <2>3, <3>2
  <2>5. Replied
    BY <1>7, <1>20, <2>4 DEF Uploading
  <2>6. Op = "RDBANK" /\ toDev = <<>> /\ Idle /\ Remains(all)
    BY <1>20, <2>5 DEF Replied, all
  <2>7. Len(toHost) <= Awaited /\ toHost[4] = Frame[flash[Arg]][4]
    <3>1. /\ Len(toHost) <= Len(all) - Taken
          /\ \A i \in 1 .. Awaited : toHost[i] = all[Taken + i]
      BY <1>9, <1>13, <2>6
    <3>2. 4 \in 1 .. Awaited /\ 4 \in 1 .. 4 /\ Taken + 4 = 3 + 4 /\ 7 - Taken = Awaited
      BY <2>3
    <3>3. toHost[4] = all[3 + 4] /\ all[3 + 4] = Frame[flash[Arg]][4]
      BY <1>13, <2>6, <3>1, <3>2
    <3>. QED BY <1>13, <2>6, <3>1, <3>2, <3>3
  <2>8. flash[Arg] = c
    <3>1. 4 \in 1 .. Awaited
      BY <2>3
    <3>2. Frame[c][FrameLength] = Frame[flash[Arg]][FrameLength]
      BY <1>2, <2>1, <2>7, <3>1 DEF FrameLength
    <3>3. flash[Arg] \in Contents
      BY <1>1, <1>4, <2>6
    <3>. QED BY <3>2, <3>3, LinkAssumption
  <2>9. \A u \in Units : u \in Touches(JobOf(call)) \/ (Op = "RDBANK" /\ Arg = u)
                         => flash[u] = c
    <3>1. JobOf(call).op = Op
      BY DEF JobOf, Op
    <3>2. Touches(JobOf(call)) = {}
      BY <2>6, <3>1 DEF Touches
    <3>. QED BY <2>8, <3>2
  <2>. QED BY <1>10, <2>1, <2>2, <2>6, <2>7, <2>9
<1>. QED BY <1>2, <1>15, <1>16, <1>17, <1>18, <1>19, <1>20 DEF InCall, Waiting

LEMMA AcceptStep ==
  ASSUME IInv, Accept, UNCHANGED fwVars
  PROVE  IInv'
<1>1. InCall /\ hpc # "closed" /\ BoardInv
  BY DEF Accept, InCall, Waiting, IInv
<1>2. board \/ Op \in {"READINFO", "READVERS"}
  BY <1>1 DEF BoardInv, InCall
<1>. QED BY <1>2, AcceptWork, AcceptGreeting, AcceptVersion

LEMMA HostMoves ==
  ASSUME IInv, Host, UNCHANGED fwVars
  PROVE  IInv'
<1>1. board \in BOOLEAN
  BY DEF IInv, TypeInv, TypeOK
<1>2. CASE \E c \in Calls : StartCall(c)
  BY <1>2, StartCallStep
<1>3. CASE Accept
  BY <1>3, AcceptStep
<1>4. CASE EndSession
  <2>1. ClosePort /\ board' = board /\ ~InCall
    BY <1>4 DEF EndSession, InCall, Waiting
  <2>. QED BY <1>1, <2>1, CloseStep
<1>5. CASE Fail \/ Die
  <2>1. ClosePort /\ board' = FALSE
    BY <1>5 DEF Fail, Die
  <2>. QED BY <2>1, CloseStep
<1>. QED BY <1>2, <1>3, <1>4, <1>5 DEF Host

-----------------------------------------------------------------------------
(* The invariant and what follows from it *)

LEMMA Initial == Init => IInv
<1> SUFFICES ASSUME Init PROVE IInv
  OBVIOUS
<1>1. /\ dtr = FALSE /\ toDev = <<>> /\ toHost = <<>> /\ plugged = TRUE
      /\ flash \in [Units -> Data \cup {Blank}] /\ asked = {}
      /\ hpc = "closed" /\ call = Simple("READINFO") /\ board = FALSE
      /\ sessions = 0 /\ calls = 0 /\ belief = [u \in Units |-> Unknown]
      /\ parser = Clean /\ job = NoJob /\ boot = FALSE
  BY DEF Init, LinkInit, HostInit, FwInit
<1>2. flash \in [Units -> Contents] /\ call \in Calls
  BY <1>1 DEF Contents, Calls
<1>3. /\ belief \in [Units -> Contents \cup {Unknown}]
      /\ \A u \in Units : belief[u] = Unknown
  BY <1>1
<1>4. ParserOK /\ parser.used = <<>>
  BY <1>1, CleanFacts DEF ParserOK, CommandLength, FrameLength
<1>5. TypeInv
  <2>1. toDev \in Seq(Tokens) /\ toHost \in Seq(Tokens)
    BY <1>1
  <2>2. sessions \in 0 .. MaxSessions /\ calls \in 0 .. MaxCalls
    BY <1>1, HostAssumption
  <2>3. asked \subseteq Jobs /\ job \in Jobs \cup {NoJob}
    BY <1>1
  <2>4. /\ dtr \in BOOLEAN /\ plugged \in BOOLEAN /\ board \in BOOLEAN /\ boot \in BOOLEAN
        /\ hpc \in {"closed", "open"} \cup Waiting
    BY <1>1
  <2>. QED BY <1>2, <1>3, <1>4, <2>1, <2>2, <2>3, <2>4 DEF TypeInv, TypeOK
<1>6. ~InCall /\ LineInv /\ BoardInv /\ BeliefIsTrue
  BY <1>1, <1>3 DEF LineInv, BoardInv, BeliefIsTrue, InCall, Waiting
<1>7. JobInv
  <2>1. <<>> # <<"BOOT">>
    OBVIOUS
  <2>. QED BY <1>1, <1>4, <2>1 DEF JobInv
<1>8. CallInv /\ LeftOver /\ ReadInfoInv /\ VersionInv /\ BoardModeInv
  BY <1>1, <1>6 DEF CallInv, LeftOver, ReadInfoInv, VersionInv, BoardModeInv, Greeting
<1>. QED BY <1>5, <1>6, <1>7, <1>8 DEF IInv

LEMMA Stutter ==
  ASSUME IInv, UNCHANGED vars
  PROVE  IInv'
<1>1. UNCHANGED <<dtr, toDev, toHost, plugged, flash, asked, hpc, call, board, sessions, calls,
                  belief, parser, job, boot>>
  BY DEF vars, linkVars, hostVars, fwVars
<1>2. TypeInv' /\ LineInv' /\ BoardInv' /\ JobInv' /\ CallInv' /\ BeliefIsTrue'
  BY <1>1 DEF IInv, TypeInv, TypeOK, ParserOK, LineInv, BoardInv, JobInv, CallInv, BeliefIsTrue,
              InCall, Op, Idle, BootAsked
<1>3. LeftOver' /\ ReadInfoInv' /\ VersionInv'
  BY <1>1 DEF IInv, LeftOver, OnlyHello, ReadInfoInv, VersionInv, Greeting, Greeted, Dead,
              HelloParser, NoVersion, NotVersion, VersionComing, VersionStarted, VersionSaid,
              VersionLost, InCall, Op, Idle
<1>4. BoardModeInv'
  <2>1. Op' = Op /\ Arg' = Arg /\ Taken' = Taken /\ Done' = Done /\ InCall' = InCall
    BY <1>1 DEF Op, Arg, Taken, Done, InCall, JobOf
  <2>2. Quiet' = Quiet /\ Idle' = Idle
    BY <1>1 DEF Quiet, Idle
  <2>3. Sending' = Sending /\ Working' = Working
    BY <1>1, <2>1, <2>2 DEF Sending, Working, JobOf
  <2>4. Uploading' = Uploading
    BY <1>1, <2>1 DEF Uploading, Whole, Remains
  <2>5. Refused' = Refused
    BY <1>1, <2>1 DEF Refused, Remains
  <2>6. Replied' = Replied
    BY <1>1, <2>1, <2>2 DEF Replied, Remains
  <2>. QED BY <1>1, <2>1, <2>2, <2>3, <2>4, <2>5, <2>6 DEF IInv, BoardModeInv, InFlight
<1>. QED BY <1>2, <1>3, <1>4 DEF IInv

LEMMA Step == IInv /\ [Next]_vars => IInv'
<1> SUFFICES ASSUME IInv, [Next]_vars PROVE IInv'
  OBVIOUS
<1>1. CASE Reopen
  BY <1>1, ReopenStep
<1>2. CASE Host /\ UNCHANGED fwVars
  BY <1>2, HostMoves
<1>3. CASE NotReady /\ UNCHANGED hostVars
  BY <1>3, NotReadyStep
<1>4. CASE Tick /\ UNCHANGED hostVars
  BY <1>4, TickStep
<1>5. CASE Receive /\ UNCHANGED hostVars
  BY <1>5, ReceiveStep
<1>6. CASE Execute /\ UNCHANGED hostVars
  BY <1>6, ExecuteStep
<1>7. CASE PortLost
  BY <1>7, PortLostStep
<1>8. CASE UNCHANGED vars
  BY <1>8, Stutter
<1>. QED BY <1>1, <1>2, <1>3, <1>4, <1>5, <1>6, <1>7, <1>8 DEF Next, HostStep, FirmwareStep

\* The invariant holds, whatever is cut, delayed, reset or unplugged.
THEOREM LinkInvariant == Spec => []IInv
BY Initial, Step, PTL DEF Spec

\* No sequence of bytes, gaps and resets makes the parser overrun its command or
\* payload buffer, or hands the driver a unit that it does not have (protocol.c:71-96,
\* protocol.h:18-24).
THEOREM LinkTypeCorrect == Spec => []TypeOK
<1>1. IInv => TypeOK
  BY DEF IInv, TypeInv
<1>. QED BY <1>1, LinkInvariant, PTL

\* What a call that returned normally told the host stays true until the host asks for
\* something else (serial_interface.cpp:204-218, 256-281; protocol.c:71-85).
THEOREM BeliefStaysTrue == Spec => []BeliefIsTrue
<1>1. IInv => BeliefIsTrue
  BY DEF IInv
<1>. QED BY <1>1, LinkInvariant, PTL

\* No erase, program or reboot starts that the host did not ask for, with that unit
\* and that data (protocol.c:73-82).
THEOREM NothingUnasked == Spec => []OnlyAskedIsExecuted
<1>1. IInv => OnlyAskedIsExecuted
  BY DEF IInv, JobInv, BootAsked, OnlyAskedIsExecuted
<1>. QED BY <1>1, LinkInvariant, PTL

-----------------------------------------------------------------------------
(* The promise to the callers *)

\* The promise and the link speak of the same calls.
LEMMA SameCalls ==
  /\ Promise!Contents = Contents /\ Promise!Calls = Calls /\ Promise!Jobs = Jobs
  /\ \A c : Promise!JobOf(c) = JobOf(c)
  /\ \A j : Promise!Touches(j) = Touches(j)
  /\ \A op : Promise!Simple(op) = Simple(op)
<1>1. \A op : Promise!Simple(op) = Simple(op)
  BY DEF Promise!Simple, Simple, Promise!Call, Call
<1>2. Promise!Work = Work
  BY DEF Promise!Work, Work, Promise!Call, Call
<1>3. Promise!Calls = Calls
  BY <1>1, <1>2 DEF Promise!Calls, Calls
<1>. QED BY <1>1, <1>3 DEF Promise!Contents, Contents, Promise!Jobs, Jobs, Promise!JobOf, JobOf,
                          Promise!Touches, Touches

\* The greeting calls are known by their names; a call touches units only.
LEMMA GreetingCalls ==
  ASSUME NEW c \in Calls
  PROVE  /\ c = Simple("READINFO") <=> c.cmd[1] = "READINFO"
         /\ c = Simple("READVERS") <=> c.cmd[1] = "READVERS"
         /\ c \in Promise!Greeting <=> c.cmd[1] \in {"READINFO", "READVERS"}
         /\ Touches(JobOf(c)) \subseteq Units
         /\ c.cmd[1] \notin {"WRBK", "ERBANK", "ERASE"} => Touches(JobOf(c)) = {}
<1>1. \A op : Simple(op).cmd[1] = op
  BY DEF Simple, Call
<1>2. \A w \in Work : w.cmd[1] \notin {"READINFO", "READVERS"}
  BY DEF Work, Call
<1>3. /\ c = Simple("READINFO") <=> c.cmd[1] = "READINFO"
      /\ c = Simple("READVERS") <=> c.cmd[1] = "READVERS"
  BY <1>1, <1>2 DEF Calls
<1>4. JobOf(c).op = c.cmd[1] /\ JobOf(c).unit = c.cmd[2]
  BY DEF JobOf
<1>5. /\ Touches(JobOf(c)) \subseteq Units
      /\ c.cmd[1] \notin {"WRBK", "ERBANK", "ERASE"} => Touches(JobOf(c)) = {}
  BY <1>4, AnyCall DEF Touches
<1>. QED BY <1>3, <1>5, SameCalls DEF Promise!Greeting

\* A call that starts.  The greeting is the only one that does without a board.
LEMMA StartsCall ==
  ASSUME IInv, NEW c \in Calls, StartCall(c)
  PROVE  Promise!AbsCall
<1>1. /\ hpc = "open" /\ c \in NextCalls /\ call' = c /\ hpc' = "echo" /\ UNCHANGED flash
      /\ asked' = asked \cup ({JobOf(c)} \cap Jobs)
      /\ belief' = [u \in Units |-> IF u \in Touches(JobOf(c)) THEN Unknown ELSE belief[u]]
      /\ c.cmd[1] = "READINFO" => board' = FALSE
      /\ c.cmd[1] # "READINFO" => board' = board
  BY DEF StartCall
<1>2. BoardInv /\ board \in BOOLEAN /\ calls \in Nat
  BY DEF IInv, TypeInv, TypeOK
<1>3. hpc \notin Waiting /\ hpc' \in Waiting
  BY <1>1 DEF Waiting
<1>4. calls > 0 => (board <=> Op # "READINFO")
  BY <1>1, <1>2, <1>3 DEF BoardInv, InCall
<1>5. /\ board' = (c \notin Promise!Greeting)
      /\ board' => board
  <2>1. CASE c.cmd = <<"READINFO", "-">>
    <3>1. c.cmd[1] = "READINFO"
      BY <2>1
    <3>2. board' = FALSE /\ c \in Promise!Greeting
      BY <1>1, <3>1, GreetingCalls
    <3>. QED BY <3>2
  <2>2. CASE c.cmd = <<"READVERS", "-">> /\ calls > 0 /\ Op = "READINFO"
    <3>1. board = FALSE /\ c.cmd[1] = "READVERS"
      BY <1>2, <1>4, <2>2
    <3>. QED BY <1>1, <3>1, GreetingCalls
  <2>3. CASE /\ c.cmd[1] \notin {"READINFO", "READVERS"}
             /\ calls = 0 => board
             /\ calls > 0 => Op \notin {"READINFO", "READVERS"}
    <3>1. board = TRUE
      BY <1>2, <1>4, <2>3
    <3>. QED BY <1>1, <2>3, <3>1, GreetingCalls
  <2>. QED BY <1>1, <1>2, <2>1, <2>2, <2>3, NextCallFacts
<1>. QED BY <1>1, <1>3, <1>5, SameCalls DEF Promise!AbsCall

\* The host takes an answer, and goes on with the call or returns.
LEMMA TakesAnswer ==
  ASSUME IInv, IInv', Accept, UNCHANGED fwVars
  PROVE  Promise!AbsReturn \/ UNCHANGED Promise!absVars
<1>1. /\ TypeInv /\ BoardInv /\ VersionInv /\ BoardModeInv /\ BeliefIsTrue'
      /\ call \in Calls /\ board \in BOOLEAN
  BY DEF IInv, TypeInv, TypeOK
<1>2. /\ InCall /\ Taking /\ Len(toHost) \in Nat /\ Len(toHost) >= Awaited
      /\ hpc = "frame" => Awaited = 4
      /\ UNCHANGED <<call, flash, asked>>
  BY <1>1, AcceptFacts
<1>3. call.data \in Contents /\ Unknown \notin Contents
  BY <1>1, CallFacts, HostAssumption
<1>4. Op = "READVERS" => hpc \in {"echo", "answer"}
  BY <1>1, <1>2 DEF VersionInv
<1>5. hpc = "frame" => Op \in {"RDBANK", "READINFO"}
  <2>1. SUFFICES ASSUME hpc = "frame", board
                 PROVE  Op = "RDBANK"
    BY <1>1, <1>2, <1>4 DEF BoardInv, InCall
  <2>2. ~(Sending \/ Working \/ Uploading)
    BY <2>1 DEF Sending, Working, Uploading
  <2>3. ~Refused
    <3>1. Len(<<Op, Arg, Ok, TooLate>>) = 4
      OBVIOUS
    <3>2. Taken = 3
      BY <2>1 DEF Taken
    <3>. QED BY <1>2, <2>1, <3>1, <3>2 DEF Refused, Remains, RemainsAt
  <2>4. Replied
    BY <1>1, <1>2, <2>1, <2>2, <2>3 DEF BoardModeInv, InFlight
  <2>. QED BY <2>1, <2>4 DEF Replied
<1>6. ASSUME NEW what \in Contents, hpc' = "open", belief' = Learn(call, what),
             what = call.data \/ Op \notin {"WRBK", "ERBANK", "ERASE"},
             board' = (board \/ Op = "READVERS")
      PROVE  Promise!AbsReturn
  <2> DEFINE About(u) == u \in Touches(JobOf(call)) \/ call.cmd = <<"RDBANK", u>>
  <2>1. belief' = [u \in Units |-> IF About(u) THEN what ELSE belief[u]]
    BY <1>6 DEF Learn
  <2>2. \A u \in Units : About(u) => flash[u] = what
    BY <1>1, <1>2, <1>3, <2>1 DEF BeliefIsTrue
  <2>3. belief' = [u \in Units |-> IF About(u) THEN flash[u] ELSE belief[u]]
    BY <2>1, <2>2
  <2>4. \A u \in Touches(JobOf(call)) : flash[u] = call.data
    <3>1. /\ Touches(JobOf(call)) \subseteq Units
          /\ Op \notin {"WRBK", "ERBANK", "ERASE"} => Touches(JobOf(call)) = {}
      BY <1>1, GreetingCalls DEF Op
    <3>. QED BY <1>6, <2>2, <3>1
  <2>5. hpc \in Waiting /\ hpc' \notin Waiting
    BY <1>2, <1>6 DEF InCall, Waiting
  <2>6. Op = "READVERS" <=> call = Simple("READVERS")
    BY <1>1, GreetingCalls DEF Op
  <2>7. board' = (board \/ call = Simple("READVERS"))
    BY <1>6, <2>6
  <2>. QED BY <1>2, <2>3, <2>4, <2>5, <2>7, SameCalls DEF Promise!AbsReturn
<1>7. ASSUME hpc' \in Waiting, belief' = belief, board' = board
      PROVE  UNCHANGED Promise!absVars
  BY <1>2, <1>7 DEF Promise!absVars, InCall
<1>8. CASE hpc = "echo" \/ (hpc = "answer" /\ Op \in {"RDBANK", "WRBK"})
  BY <1>2, <1>7, <1>8 DEF Taking, Waiting
<1>9. CASE hpc = "answer" /\ Op \notin {"RDBANK", "WRBK"}
  BY <1>2, <1>3, <1>6, <1>9 DEF Taking
<1>10. CASE hpc = "final"
  <2>1. hpc' = "open" /\ belief' = Learn(call, call.data) /\ board' = board
    BY <1>2, <1>10 DEF Taking
  <2>2. board' = (board \/ Op = "READVERS")
    BY <1>1, <1>4, <1>10, <2>1
  <2>. QED BY <1>3, <1>6, <2>1, <2>2
<1>11. CASE hpc = "frame"
  <2>1. PICK c \in Contents : belief' = Learn(call, c)
    BY <1>2, <1>11 DEF Taking
  <2>2. hpc' = "open" /\ board' = board
    BY <1>2, <1>11 DEF Taking
  <2>3. board' = (board \/ Op = "READVERS")
    BY <1>1, <1>5, <1>11, <2>2
  <2>4. Op \notin {"WRBK", "ERBANK", "ERASE"}
    BY <1>5, <1>11
  <2>. QED BY <1>6, <2>1, <2>2, <2>3, <2>4
<1>. QED BY <1>2, <1>8, <1>9, <1>10, <1>11 DEF InCall, Waiting

\* The flash changes only where a job that was asked for touches it.
LEMMA JobProgress ==
  ASSUME IInv, NEW f, f \in Damaged(job, flash), flash' = f
  PROVE  UNCHANGED flash \/ Promise!Progress
<1>1. JobInv /\ flash \in [Units -> Contents] /\ job \in Jobs \cup {NoJob}
  BY DEF IInv, TypeInv, TypeOK
<1>2. /\ flash' \in [Units -> Contents]
      /\ \A u \in Units : IF u \in Touches(job) THEN flash'[u] \in {flash[u], job.data, Torn}
                                               ELSE flash'[u] = flash[u]
  BY DEF Damaged
<1>3. CASE job = NoJob
  <2>1. Touches(job) = {}
    BY <1>3 DEF Touches, NoJob
  <2>. QED BY <1>1, <1>2, <2>1
<1>4. CASE job # NoJob
  <2>1. job \in asked /\ \A u \in Touches(job) \cap Units : belief[u] = Unknown
    BY <1>1, <1>4 DEF JobInv
  <2>. QED BY <1>2, <2>1, SameCalls DEF Promise!Progress
<1>. QED BY <1>3, <1>4

\* A flash operation that ends has done no more than it was asked to.
LEMMA StoredIsDamaged ==
  ASSUME flash \in [Units -> Contents], NEW j \in Jobs
  PROVE  Stored(j, flash) \in Damaged(j, flash)
BY StoreFacts DEF Damaged

\* Every step of the link is a step of the promise, or none at all.
LEMMA PromiseStep ==
  ASSUME IInv, IInv', [Next]_vars
  PROVE  Promise!AbsNext \/ UNCHANGED Promise!absVars
<1> USE DEF Promise!AbsNext
<1>1. CASE Reopen
  BY <1>1 DEF Reopen, OpenPort, Promise!absVars, Waiting
<1>2. CASE Host /\ UNCHANGED fwVars
  <2>1. ASSUME NEW c \in Calls, StartCall(c)
        PROVE  Promise!AbsCall
    BY <2>1, StartsCall
  <2>2. CASE Accept
    BY <1>2, <2>2, TakesAnswer
  <2>3. CASE EndSession
    BY <2>3 DEF EndSession, ClosePort, Promise!absVars, Waiting
  <2>4. CASE Fail \/ Die
    BY <2>4 DEF Fail, Die, ClosePort, Promise!AbsLose, Waiting
  <2>. QED BY <1>2, <2>1, <2>2, <2>3, <2>4 DEF Host
<1>3. CASE (NotReady \/ Tick) /\ UNCHANGED hostVars
  BY <1>3 DEF NotReady, Tick, hostVars, Promise!absVars
<1>4. CASE Receive /\ UNCHANGED hostVars
  BY <1>4 DEF Receive, hostVars, Promise!absVars
<1>5. CASE Execute /\ UNCHANGED hostVars
  <2>1. job \in Jobs /\ flash \in [Units -> Contents]
    BY <1>5 DEF Execute, IInv, TypeInv, TypeOK
  <2>2. flash' \in Damaged(job, flash)
    BY <1>5, <2>1, StoredIsDamaged DEF Execute
  <2>3. UNCHANGED flash \/ Promise!Progress
    BY <2>2, JobProgress
  <2>. QED BY <1>5, <2>3 DEF Execute, hostVars, Promise!AbsWork, Promise!absVars
<1>6. CASE PortLost
  <2>1. /\ hpc' = "closed" /\ UNCHANGED <<call, belief, asked>>
        /\ board' = FALSE \/ (hpc = "closed" /\ board' = board)
    BY <1>6 DEF PortLost, Detach, BusReset, Replug
  <2>2. UNCHANGED flash \/ Promise!Progress
    BY <1>6, JobProgress DEF PortLost, Detach, BusReset, Replug
  <2>3. hpc' \notin Waiting /\ "closed" \notin Waiting
    BY <2>1 DEF Waiting
  <2>4. CASE board' = FALSE
    BY <2>1, <2>2, <2>3, <2>4 DEF Promise!AbsLose
  <2>5. CASE hpc = "closed" /\ board' = board
    <3>1. UNCHANGED <<asked, call, (hpc \in Waiting), board, belief>>
      BY <2>1, <2>3, <2>5
    <3>. QED BY <2>2, <3>1 DEF Promise!AbsWork, Promise!absVars
  <2>. QED BY <2>1, <2>4, <2>5
<1>7. CASE UNCHANGED vars
  BY <1>7 DEF vars, linkVars, hostVars, Promise!absVars
<1>. QED BY <1>1, <1>2, <1>3, <1>4, <1>5, <1>6, <1>7 DEF Next, HostStep, FirmwareStep

\* The link keeps the promise stated by CartridgeCalls: to its callers every call
\* returns with its work done and what it read true, or fails and disconnects the
\* board; nothing but what was asked for ever changes the flash, and never a unit
\* that a result still speaks of (serial_interface.cpp:66-325).
THEOREM LinkKeepsPromise == Spec => KeepsPromise
<1>1. Init => Promise!AbsInit
  <2>1. Init => /\ flash \in [Units -> Data \cup {Blank}] /\ asked = {}
                /\ hpc = "closed" /\ board = FALSE
                /\ call = Simple("READINFO")
                /\ belief = [u \in Units |-> Unknown]
    BY DEF Init, LinkInit, HostInit
  <2>2. Simple("READINFO") \in Calls
    BY DEF Calls
  <2>. QED BY <2>1, <2>2, SameCalls DEF Promise!AbsInit, Waiting
<1>2. IInv /\ IInv' /\ [Next]_vars => [Promise!AbsNext]_(Promise!absVars)
  BY PromiseStep
<1>. QED BY <1>1, <1>2, LinkInvariant, PTL DEF Spec, KeepsPromise, Promise!AbsSpec
=============================================================================
