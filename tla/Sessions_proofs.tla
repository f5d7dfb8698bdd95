--------------------------- MODULE Sessions_proofs ---------------------------
(***************************************************************************)
(* Proofs about what runs as long as a session: the interactive shell, the *)
(* persistent reads, and all four modules side by side.                    *)
(***************************************************************************)
EXTENDS MCSessions, JsonlSession_proofs, Transport_proofs, FiniteSetTheorems, TLAPS

(***************************************************************************)
(* The interactive shell (ShellSpec).                                      *)
(***************************************************************************)

CommandKinds == {"safe", "private"}
Events(kinds) == [kind : kinds, at : Nat, from : {"busy"}]

\* Only interrupts are queued, and only while nobody waits.
Queued ==
  /\ events \in Seq(Events({"interrupt"}))
  /\ waiter # Nothing => events = <<>>

\* The prompt waits at the prompt, a question in a command, and what they get
\* is looked at before anything else happens.
Waits ==
  /\ number \in Nat
  /\ waiter # Nothing => /\ handed = Nothing
                         /\ waiter = IF loop = "reading" THEN "prompt" ELSE "question"
  /\ waiter # Nothing \/ handed # Nothing => loop \in {"reading", "asking"}

\* What is queued once a command's line is there was typed after it.
Timed ==
  LET all(n) == \A i \in DOMAIN events : events[i].at = n IN
  /\ loop \in {"running", "asking"} => all(number)
  /\ loop = "reading" /\ handed # Nothing /\ handed.kind \in CommandKinds => all(number + 1)

ShellInv == Queued /\ Waits /\ Timed /\ LinesReachTheirPrompt /\ AnswersAreForgotten

LEMMA ShellStarts == ShellInit => ShellInv
BY DEF ShellInit, ShellInv, Queued, Waits, Timed, LinesReachTheirPrompt, AnswersAreForgotten

\* What a reader gets that finds something queued, or the end of the input.
LEMMA ReaderGets ==
  ASSUME ShellInv, NEW reader \in {"prompt", "question"}, ReadLine(reader), handed = Nothing,
         waiter = Nothing,
         \/ reader = "prompt" /\ loop = "top" /\ loop' = "reading"
         \/ reader = "question" /\ loop = "running" /\ loop' = "asking"
  PROVE  ShellInv'
<1>0. UNCHANGED <<active, stopped, closed, number, history, told, lines, interrupts>>
  BY DEF ReadLine
<1>1. AnswersAreForgotten'
  BY <1>0 DEF ShellInv, AnswersAreForgotten
<1> USE DEF ShellInv, Queued, Waits, Timed
<1>2. CASE handed' = [kind |-> "eof", from |-> reader] /\ UNCHANGED <<events, waiter>>
  BY <1>0, <1>1, <1>2 DEF LinesReachTheirPrompt, Lines, CommandKinds
<1>3. CASE waiter' = reader /\ events = <<>> /\ UNCHANGED <<events, handed>>
  BY <1>0, <1>1, <1>3 DEF LinesReachTheirPrompt
<1>4. CASE /\ events # <<>> /\ UNCHANGED waiter
           /\ handed' = [kind |-> Head(events).kind, from |-> Head(events).from]
           /\ events' = Tail(events)
  <2>1. Head(events) \in Events({"interrupt"})
    BY <1>4
  <2>2. handed'.kind = "interrupt"
    BY <1>4, <2>1 DEF Events
  <2>3. /\ events' \in Seq(Events({"interrupt"}))
        /\ \A i \in DOMAIN events' : events'[i] = events[i + 1] /\ i + 1 \in DOMAIN events
    BY <1>4
  <2>4. Timed'
    BY <1>0, <2>2, <2>3 DEF CommandKinds
  <2>5. LinesReachTheirPrompt'
    BY <2>2 DEF LinesReachTheirPrompt, Lines
  <2> QED BY <1>0, <1>1, <1>4, <2>3, <2>4, <2>5
<1> QED BY <1>2, <1>3, <1>4 DEF ReadLine

LEMMA ShellSteps == ShellInv /\ [ShellNext]_shellVars => ShellInv'
<1> SUFFICES ASSUME ShellInv, [ShellNext]_shellVars PROVE ShellInv'
  OBVIOUS
<1> USE DEF ShellInv, Queued, Waits, Timed, LinesReachTheirPrompt, AnswersAreForgotten
<1>1. CASE UNCHANGED shellVars
  BY <1>1 DEF shellVars
<1>2. CASE TypeLine
  <2>1. PICK line \in Lines :
          /\ history' = IF Kept(line) THEN history \cup {[line |-> line, at |-> Place]}
                                      ELSE history
          /\ Emit(line)
    BY <1>2 DEF TypeLine
  <2>2. UNCHANGED <<loop, active, stopped, closed, number, told, events>>
    BY <1>2, <2>1 DEF TypeLine, Emit
  <2>3. AnswersAreForgotten'
    BY <2>1 DEF Kept, Place
  <2>4. CASE waiter = Nothing
    BY <2>1, <2>2, <2>3, <2>4 DEF Emit
  <2>5. CASE waiter # Nothing /\ handed' = [kind |-> line, from |-> waiter] /\ waiter' = Nothing
    BY <2>2, <2>3, <2>5
  <2> QED BY <2>1, <2>4, <2>5 DEF Emit
<1>3. CASE Interrupt
  <2>0. UNCHANGED <<loop, closed, number, history, told, lines>>
    BY <1>3 DEF Interrupt
  <2>1. CASE /\ waiter # Nothing /\ UNCHANGED events
             /\ handed' = [kind |-> "interrupt", from |-> waiter] /\ waiter' = Nothing
    BY <2>0, <2>1 DEF CommandKinds, Lines
  <2>2. CASE UNCHANGED <<events, waiter, handed>>
    BY <2>0, <2>2
  <2>3. CASE /\ waiter = Nothing /\ UNCHANGED <<waiter, handed>>
             /\ events' = Append(events, [kind |-> "interrupt", at |-> Typing, from |-> "busy"])
    <3> DEFINE e == [kind |-> "interrupt", at |-> Typing, from |-> "busy"]
    <3>1. e \in Events({"interrupt"}) /\ e.at = Typing
      BY DEF Events, Typing
    <3>2. Typing = IF loop = "reading" /\ handed # Nothing /\ handed.kind \in CommandKinds
                     THEN number + 1 ELSE number
      BY DEF Typing, CommandKinds
    <3> HIDE DEF e
    <3>3. /\ events' \in Seq(Events({"interrupt"}))
          /\ \A i \in DOMAIN events' : events'[i] = e \/ (i \in DOMAIN events /\ events'[i] = events[i])
      BY <2>3, <3>1 DEF e
    <3>4. Timed'
      BY <2>0, <2>3, <3>1, <3>2, <3>3
    <3> QED BY <2>0, <2>3, <3>3, <3>4
  <2> QED BY <1>3, <2>1, <2>2, <2>3 DEF Interrupt
<1>4. CASE CloseSession
  <2>1. UNCHANGED <<loop, events, number, history, told>> /\ waiter' = Nothing
        /\ handed' = IF waiter = Nothing THEN handed ELSE [kind |-> "eof", from |-> waiter]
    BY <1>4 DEF CloseSession
  <2> QED BY <2>1 DEF CommandKinds, Lines
<1>5. CASE Greet
  BY <1>5 DEF Greet
<1>6. CASE ReadCommand
  <2>1. CASE Leave
    BY <1>6, <2>1 DEF ReadCommand, Leave
  <2>2. CASE ~Leave
    BY <1>6, <2>2, ReaderGets DEF ReadCommand
  <2> QED BY <2>1, <2>2
<1>7. CASE Obey
  <2>1. loop = "reading" /\ handed # Nothing /\ waiter = Nothing
    BY <1>7 DEF Obey
  <2>2. CASE Leave
    BY <2>1, <2>2 DEF Leave
  <2>3. CASE /\ loop' = "top" /\ handed' = Nothing
             /\ UNCHANGED <<events, waiter, number, history, told>>
    BY <2>1, <2>3
  <2>4. CASE /\ handed.kind \in CommandKinds
             /\ loop' = "running" /\ handed' = Nothing /\ number' = number + 1 /\ told' = Nothing
             /\ UNCHANGED <<events, waiter, history>>
    BY <2>1, <2>4
  <2> QED BY <1>7, <2>2, <2>3, <2>4 DEF Obey, CommandKinds
<1>8. CASE AskUser
  BY <1>8, ReaderGets DEF AskUser
<1>9. CASE GetAnswer
  BY <1>9 DEF GetAnswer
<1>10. CASE EndCommand
  BY <1>10 DEF EndCommand
<1> QED BY <1>1, <1>2, <1>3, <1>4, <1>5, <1>6, <1>7, <1>8, <1>9, <1>10 DEF ShellNext

LEMMA AlwaysShell == ShellSpec => []ShellInv
BY ShellStarts, ShellSteps, PTL DEF ShellSpec

\* However lines, interrupts and the end of the input fall between the steps of
\* the shell, an answer is never run as a command, an interrupt never answers
\* the question of a later command, and no answer gets into the history.
THEOREM InputAlwaysReachesItsReader == ShellSpec => []InputReachesItsReader
<1>1. ShellInv => InputReachesItsReader
  BY DEF ShellInv, Timed, InputReachesItsReader, InterruptsAreForTheirCommand
<1> QED BY <1>1, AlwaysShell, PTL

\* A command has had its line typed before it is counted.
CommandsWereTyped == lines \in 0 .. MaxLines /\ Typing \in 0 .. lines /\ number <= Typing

ShellTyped == ShellTypeOK /\ CommandsWereTyped

LEMMA ShellStartsTyped == ShellInit => ShellTyped
<1> SUFFICES ASSUME ShellInit PROVE ShellTyped
  OBVIOUS
<1>1. ShellTypeOK
  <2>1. <<>> \in Seq([kind : Lines \cup {"interrupt"}, at : 0 .. MaxLines, from : {"busy"}])
    OBVIOUS
  <2>2. loop = "starting" /\ {active, stopped, closed} \subseteq BOOLEAN /\ ~active
    BY DEF ShellInit
  <2> QED BY <2>1, <2>2 DEF ShellInit, ShellTypeOK
<1>2. CommandsWereTyped
  BY ShellAssumption DEF ShellInit, CommandsWereTyped, Typing
<1> QED BY <1>1, <1>2 DEF ShellTyped

LEMMA ReaderGetsTyped ==
  ASSUME ShellInv, ShellTyped, NEW reader \in {"prompt", "question"}, ReadLine(reader),
         handed = Nothing, waiter = Nothing,
         \/ reader = "prompt" /\ loop' = "reading" /\ ~active
         \/ reader = "question" /\ loop' = "asking"
  PROVE  ShellTyped'
<1>0. UNCHANGED <<active, stopped, closed, number, history, told, lines, interrupts>>
  BY DEF ReadLine
<1> USE DEF ShellTyped
<1>1. number \in 0 .. lines /\ lines \in 0 .. MaxLines /\ Typing = number
  BY ShellAssumption DEF CommandsWereTyped, Typing, ShellInv, Waits
<1>2. CASE handed' = [kind |-> "eof", from |-> reader] /\ UNCHANGED <<events, waiter>>
  BY <1>0, <1>1, <1>2, ShellAssumption DEF ShellTypeOK, CommandsWereTyped, Typing
<1>3. CASE waiter' = reader /\ events = <<>> /\ UNCHANGED <<events, handed>>
  BY <1>0, <1>1, <1>3, ShellAssumption DEF ShellTypeOK, CommandsWereTyped, Typing
<1>4. CASE /\ events # <<>> /\ UNCHANGED waiter
           /\ handed' = [kind |-> Head(events).kind, from |-> Head(events).from]
           /\ events' = Tail(events)
  <2>1. Head(events) \in Events({"interrupt"})
    BY <1>4 DEF ShellInv, Queued
  <2>2. handed'.kind = "interrupt" /\ handed' \in [kind : {"interrupt"}, from : {"busy"}]
    BY <1>4, <2>1 DEF Events
  <2>3. events' \in Seq([kind : Lines \cup {"interrupt"}, at : 0 .. MaxLines, from : {"busy"}])
    BY <1>4 DEF ShellTypeOK
  <2>4. ShellTypeOK'
    <3>1. handed' \in [kind : Lines \cup {"interrupt", "eof"}, from : {"prompt", "question", "busy"}]
      BY <2>2
    <3> QED BY <1>0, <1>4, <2>3, <3>1 DEF ShellTypeOK
  <2> QED BY <1>0, <1>1, <2>2, <2>4, ShellAssumption DEF CommandsWereTyped, Typing
<1> QED BY <1>2, <1>3, <1>4 DEF ReadLine

LEMMA ShellStepsTyped == ShellInv /\ ShellTyped /\ [ShellNext]_shellVars => ShellTyped'
<1> SUFFICES ASSUME ShellInv, ShellTyped, [ShellNext]_shellVars PROVE ShellTyped'
  OBVIOUS
<1> USE ShellAssumption DEF ShellTyped
<1>0. /\ number \in 0 .. lines /\ lines \in 0 .. MaxLines /\ Typing \in 0 .. MaxLines
      /\ Typing \in {number, number + 1}
  BY DEF CommandsWereTyped, Typing, ShellInv, Waits
<1>1. CASE UNCHANGED shellVars
  BY <1>1 DEF shellVars, ShellTypeOK, CommandsWereTyped, Typing
<1>2. CASE TypeLine
  <2>1. PICK line \in Lines : Emit(line)
    BY <1>2 DEF TypeLine
  <2>2. /\ UNCHANGED <<loop, active, stopped, closed, number, told, events>>
        /\ lines' = lines + 1 /\ lines' \in 0 .. MaxLines
    BY <1>0, <1>2, <2>1 DEF TypeLine, Emit
  <2>3. CASE UNCHANGED <<waiter, handed>>
    BY <1>0, <2>2, <2>3 DEF ShellTypeOK, CommandsWereTyped, Typing
  <2>4. CASE waiter # Nothing /\ handed' = [kind |-> line, from |-> waiter] /\ waiter' = Nothing
    BY <1>0, <2>2, <2>4 DEF ShellTypeOK, CommandsWereTyped, Typing
  <2> QED BY <2>1, <2>3, <2>4 DEF Emit
<1>3. CASE Interrupt
  <2>0. UNCHANGED <<loop, closed, number, history, told, lines>>
    BY <1>3 DEF Interrupt
  <2>1. CASE /\ waiter # Nothing /\ UNCHANGED <<events, active, stopped>>
             /\ handed' = [kind |-> "interrupt", from |-> waiter] /\ waiter' = Nothing
    BY <1>0, <2>0, <2>1 DEF ShellTypeOK, CommandsWereTyped, Typing
  <2>2. CASE /\ active' = FALSE /\ stopped' = TRUE
             /\ UNCHANGED <<events, waiter, handed>>
    BY <2>0, <2>2 DEF ShellTypeOK, CommandsWereTyped, Typing
  <2>3. CASE /\ UNCHANGED <<waiter, handed, active, stopped>>
             /\ events' = Append(events, [kind |-> "interrupt", at |-> Typing, from |-> "busy"])
    <3>1. events' \in Seq([kind : Lines \cup {"interrupt"}, at : 0 .. MaxLines, from : {"busy"}])
      <4>1. [kind |-> "interrupt", at |-> Typing, from |-> "busy"]
              \in [kind : Lines \cup {"interrupt"}, at : 0 .. MaxLines, from : {"busy"}]
        BY <1>0
      <4> QED BY <2>3, <4>1 DEF ShellTypeOK
    <3> QED BY <2>0, <2>3, <3>1 DEF ShellTypeOK, CommandsWereTyped, Typing
  <2> QED BY <1>3, <2>1, <2>2, <2>3 DEF Interrupt
<1>4. CASE CloseSession
  <2>1. /\ UNCHANGED <<loop, events, number, history, told, lines>> /\ waiter' = Nothing
        /\ handed' = IF waiter = Nothing THEN handed ELSE [kind |-> "eof", from |-> waiter]
        /\ closed' = TRUE /\ active' = FALSE /\ stopped' = (stopped \/ active)
    BY <1>4 DEF CloseSession
  <2>2. ShellTypeOK'
    BY <2>1 DEF ShellTypeOK
  <2>3. CommandsWereTyped'
    BY <1>0, <2>1 DEF ShellTypeOK, CommandsWereTyped, Typing
  <2> QED BY <2>2, <2>3
<1>5. CASE Greet
  BY <1>0, <1>5 DEF Greet, ShellTypeOK, CommandsWereTyped, Typing
<1>6. ASSUME Leave, loop \in {"top", "reading"}, waiter = Nothing PROVE ShellTyped'
  BY <1>0, <1>6 DEF Leave, ShellTypeOK, CommandsWereTyped, Typing
<1>7. CASE ReadCommand
  <2>1. loop = "top" /\ ~active /\ handed = Nothing /\ waiter = Nothing
    BY <1>7 DEF ReadCommand, ShellTypeOK, ShellInv, Waits
  <2> QED BY <1>6, <1>7, <2>1, ReaderGetsTyped DEF ReadCommand
<1>8. CASE Obey
  <2>1. /\ loop = "reading" /\ handed # Nothing /\ waiter = Nothing /\ ~active
        /\ handed.kind \in CommandKinds => Typing = number + 1
    BY <1>8 DEF Obey, ShellTypeOK, Typing, CommandKinds
  <2>2. CASE /\ loop' = "top" /\ handed' = Nothing
             /\ UNCHANGED <<events, waiter, active, stopped, closed, number, lines>>
    BY <1>0, <2>1, <2>2 DEF ShellTypeOK, CommandsWereTyped, Typing
  <2>3. CASE /\ handed.kind \in CommandKinds
             /\ loop' = "running" /\ handed' = Nothing
             /\ active' = TRUE /\ stopped' = FALSE /\ number' = number + 1
             /\ UNCHANGED <<events, waiter, closed, lines>>
    <3>1. ShellTypeOK'
      BY <2>1, <2>3 DEF ShellTypeOK
    <3>2. number' = Typing /\ Typing' = number' /\ Typing \in 0 .. lines
      BY <2>1, <2>3 DEF CommandsWereTyped, Typing
    <3> QED BY <1>0, <2>3, <3>1, <3>2 DEF CommandsWereTyped
  <2> QED BY <1>6, <1>8, <2>1, <2>2, <2>3 DEF Obey, CommandKinds
<1>9. CASE AskUser
  BY <1>9, ReaderGetsTyped DEF AskUser, ShellInv, Waits
<1>10. CASE GetAnswer
  BY <1>0, <1>10 DEF GetAnswer, ShellTypeOK, CommandsWereTyped, Typing
<1>11. CASE EndCommand
  BY <1>0, <1>11 DEF EndCommand, ShellTypeOK, CommandsWereTyped, Typing
<1> QED BY <1>1, <1>2, <1>3, <1>4, <1>5, <1>7, <1>8, <1>9, <1>10, <1>11 DEF ShellNext

\* The shell's variables keep their types; no more commands run than lines
\* are typed, and the command that is running has not been aborted.
THEOREM ShellTypeCorrect == ShellSpec => []ShellTypeOK
<1>1. ShellInit => ShellInv /\ ShellTyped
  BY ShellStarts, ShellStartsTyped
<1>2. ShellInv /\ ShellTyped /\ [ShellNext]_shellVars => (ShellInv /\ ShellTyped)'
  BY ShellSteps, ShellStepsTyped
<1>3. ShellInv /\ ShellTyped => ShellTypeOK
  BY DEF ShellTyped
<1> QED BY <1>1, <1>2, <1>3, PTL DEF ShellSpec

(***************************************************************************)
(* Persistent reads (ReadSpec).                                            *)
(***************************************************************************)

\* Where a read's promise is open.
Open == {"building", "queued", "connecting", "sent", "unsent", "lost"}

\* Where no frame with the read has gone out yet, and where one has.
Fresh == {"new", "building", "queued", "connecting", "unsent", "refused"}
Out == {"sent", "lost"}

Building == {r \in Reads : status[r] = "building"}

\* Only reads of the frame are open: nothing is left over from an earlier one.
InFrame == \A r \in Reads : status[r] \in Open => r \in frame

\* A token is presented once by a frame, and the fallback after that frame, or
\* after one that only counts as sent, presents the next one.
Tokens ==
  \A r \in Reads :
    /\ status[r] \in Fresh => token[r] = 1 /\ shown[r] = <<>>
    /\ status[r] = "sent" => token[r] = 1 /\ shown[r] = <<1>>
    /\ status[r] = "lost" => token[r] = 1 /\ shown[r] \in {<<>>, <<1>>}

\* A socket is connected for somebody, and becomes the current one only then.
Connecting ==
  /\ current # None => conn[current] # "connecting"
  /\ \A c \in Conns : conn[c] = "connecting" => load[c] # {}

\* A batch waits for no more reads than there are to come.
BatchFits == expected # 0 => Cardinality(queue \cup Building) <= expected

\* Where builds are not interleaved with anything: no socket is busy while a
\* read is built, so that what is open is the current socket and idle.
OneAtATime ==
  prompt =>
    /\ \A c, d \in Conns : conn[c] # "closed" /\ conn[d] # "closed" => c = d
    /\ \A c \in Conns : conn[c] = "open" => c = current
    /\ Building # {} => \A c \in Conns : load[c] = {}
    /\ expected = 0 => \A r, s \in Building : r = s
    /\ cancelled => Building = {} /\ \A c \in Conns : load[c] = {}
    /\ over => Building = {} /\ \A c \in Conns : conn[c] = "closed"

Counted ==
  /\ ReadTypeOK /\ InFrame /\ Accounted /\ Tokens /\ TokensAreFresh
  /\ Connecting /\ BatchFits

ReadInv == Counted /\ OneAtATime

LEMMA ReadsStart == ReadInit => ReadInv
<1> SUFFICES ASSUME ReadInit PROVE ReadInv
  OBVIOUS
<1> USE DEF ReadInit
<1>1. Building = {}
  BY DEF Building
<1>2. ReadTypeOK
  <2>1. expected \in 0 .. Cardinality(Reads)
    BY ReadsAssumption, FS_CardinalityType
  <2>2. shown \in [Reads -> Seq({1, 2})] /\ token \in [Reads -> {1, 2}] /\ attempt \in [Reads -> {0, 1}]
    OBVIOUS
  <2>3. status \in [Reads -> Final \cup {"new", "building", "queued", "connecting",
                                        "sent", "unsent", "lost"}]
    BY DEF Final
  <2> QED BY <2>1, <2>2, <2>3 DEF ReadTypeOK
<1>3. InFrame /\ Accounted /\ Tokens /\ Connecting
  BY DEF InFrame, Open, Accounted, Tokens, Out, Connecting
<1>4. TokensAreFresh
  BY DEF TokensAreFresh, IsInjective
<1>5. BatchFits /\ OneAtATime
  BY <1>1 DEF BatchFits, OneAtATime
<1> QED BY <1>2, <1>3, <1>4, <1>5 DEF ReadInv, Counted

(***************************************************************************)
(* Tokens                                                                  *)
(***************************************************************************)

\* While nothing is staged or presented, a read may only move on within the
\* two kinds of places, or to its end.
LEMMA TokensKept ==
  ASSUME Tokens, TokensAreFresh, UNCHANGED <<token, shown>>,
         \A r \in Reads : /\ status'[r] \in Fresh => status[r] \in Fresh
                          /\ status'[r] = "sent" => status[r] = "sent"
                          /\ status'[r] = "lost" => status[r] \in Fresh \cup Out
  PROVE  Tokens' /\ TokensAreFresh'
<1>1. Tokens'
  BY DEF Tokens, Out
<1> QED BY <1>1 DEF TokensAreFresh

\* A frame goes out with tokens that were not shown.
LEMMA TokensTransmitted ==
  ASSUME ReadTypeOK, Tokens, TokensAreFresh, NEW S \in SUBSET Reads, NEW c \in Conns,
         \A r \in S : status[r] \in Fresh, Transmit(S, c), UNCHANGED token
  PROVE  Tokens' /\ TokensAreFresh' /\ shown' \in [Reads -> Seq({1, 2})]
<1>1. /\ status' = [r \in Reads |-> IF r \in S THEN "sent" ELSE status[r]]
      /\ shown' = [r \in Reads |-> IF r \in S THEN Append(shown[r], token[r]) ELSE shown[r]]
  BY DEF Transmit, Becomes
<1>2. \A r \in S : token[r] = 1 /\ shown[r] = <<>>
  BY DEF Tokens
<1>3. \A r \in S : status'[r] = "sent" /\ shown'[r] = <<1>>
  <2>1. Append(<<>>, 1) = <<1>>
    OBVIOUS
  <2>2. \A r \in S : status'[r] = "sent" /\ shown'[r] = Append(<<>>, 1)
    BY <1>1, <1>2
  <2> QED BY <2>1, <2>2
<1>4. \A r \in Reads \ S : status'[r] = status[r] /\ shown'[r] = shown[r]
  BY <1>1
<1>5. IsInjective(<<1>>)
  BY DEF IsInjective
<1>6. Tokens'
  BY <1>2, <1>3, <1>4 DEF Tokens, Fresh
<1>7. TokensAreFresh'
  BY <1>3, <1>4, <1>5 DEF TokensAreFresh
<1>8. shown' \in [Reads -> Seq({1, 2})]
  BY <1>1 DEF ReadTypeOK
<1> QED BY <1>6, <1>7, <1>8

(***************************************************************************)
(* close                                                                   *)
(***************************************************************************)

\* A socket carries reads only while it is connected or connecting.
LEMMA RidersWereSent ==
  ASSUME ReadTypeOK, Accounted, Connecting
  PROVE  Riding \subseteq Reads /\ \A r \in Riding : status[r] = "sent"
BY DEF ReadTypeOK, Accounted, Connecting, Riding

\* What the code closes the transport for: the reads S of the frame, which
\* include all that the ended sockets E carry, or wait to be connected by c.
Causes(S, s, E, c) ==
  /\ S \subseteq frame
  /\ IF c = None THEN s # "connecting" ELSE s = "connecting" /\ S # {} /\ load[c] \subseteq S
  /\ \A d \in E : load[d] \subseteq S
  /\ \A d \in Conns \ (E \cup {c}) : conn[d] = "connecting" => load[d] \cap S = {}

\* close, with all that may cause it: every read is accounted for afterwards.
LEMMA ClosingAccounts ==
  ASSUME Counted, NEW S \in SUBSET Reads, NEW s \in {"connecting", "unsent", "lost", "aborted", "new"},
         NEW E \in SUBSET Conns, NEW c \in Conns \cup {None}, Closing(S, s, E, c),
         Causes(S, s, E, c), UNCHANGED frame
  PROVE  /\ status' \in [Reads -> Final \cup {"new", "building", "queued", "connecting",
                                              "sent", "unsent", "lost"}]
         /\ conn' \in [Conns -> {"closed", "connecting", "open"}]
         /\ load' \in [Conns -> SUBSET Reads]
         /\ current' = None /\ expected' = 0 /\ queue' = {}
         /\ InFrame' /\ Accounted' /\ Connecting' /\ BatchFits'
<1> USE DEF Counted, Causes
<1>1. Riding \subseteq Reads /\ \A r \in Riding : status[r] = "sent"
  BY RidersWereSent
<1>2. /\ status' = [r \in Reads |-> IF r \in S THEN s ELSE Unserved(r)]
      /\ conn' = [d \in Conns |-> IF d = c THEN "connecting"
                                  ELSE IF d = current \/ d \in E THEN "closed"
                                  ELSE conn[d]]
      /\ load' = [d \in Conns |-> IF d = c THEN S
                                  ELSE IF d = current \/ d \in E THEN {}
                                  ELSE load[d] \ S]
      /\ current' = None /\ expected' = 0 /\ queue' = {}
  BY DEF Closing, ClearBatch
<1>3. \A r \in Reads :
        status'[r] = IF r \in S THEN s ELSE IF r \in queue THEN "unsent"
                     ELSE IF r \in Riding THEN "lost" ELSE status[r]
  BY <1>2 DEF Unserved
<1>4. status' \in [Reads -> Final \cup {"new", "building", "queued", "connecting",
                                        "sent", "unsent", "lost"}]
  BY <1>2, <1>3 DEF ReadTypeOK, Final, Unserved
<1>5. /\ conn' \in [Conns -> {"closed", "connecting", "open"}]
      /\ load' \in [Conns -> SUBSET Reads]
  BY <1>2 DEF ReadTypeOK
<1>6. InFrame'
  BY <1>1, <1>3 DEF InFrame, Open, Accounted, ReadTypeOK
<1>7. Connecting' /\ BatchFits'
  <2>1. \A d \in Conns : conn'[d] = "connecting" => load'[d] # {}
    BY <1>2, NoneAssumption DEF Connecting
  <2> QED BY <1>2, <2>1 DEF Connecting, BatchFits
<1>8. \A r \in Reads : status'[r] = "queued" <=> r \in queue'
  BY <1>2, <1>3 DEF Accounted
<1>9. ASSUME NEW r \in Reads, status'[r] \in {"connecting", "sent"}
      PROVE  \E d \in Conns : r \in load'[d]
  <2>1. CASE r \in S
    BY <1>2, <1>3, <1>9, <2>1
  <2>2. CASE r \notin S
    <3>1. status'[r] = status[r] /\ r \notin Riding
      BY <1>3, <1>9, <2>2
    <3>2. PICK d \in Conns : r \in load[d]
      BY <1>9, <3>1 DEF Accounted
    <3>3. d # c /\ d # current /\ d \notin E
      BY <2>2, <3>1, <3>2, NoneAssumption DEF Riding
    <3> QED BY <1>2, <2>2, <3>2, <3>3
  <2> QED BY <2>1, <2>2
<1>10. ASSUME NEW d \in Conns, NEW r \in load'[d]
       PROVE  /\ status'[r] = IF conn'[d] = "open" THEN "sent" ELSE "connecting"
              /\ conn'[d] # "closed"
              /\ \A e \in Conns \ {d} : r \notin load'[e]
  <2>1. CASE d = c
    <3>1. r \in S
      BY <1>2, <1>10, <2>1
    <3> QED BY <1>2, <1>3, <2>1, <3>1, NoneAssumption
  <2>2. CASE d # c
    <3>1. d # current /\ d \notin E /\ r \in load[d] /\ r \notin S
      BY <1>2, <1>10, <2>2
    <3>2. r \in Reads /\ r \notin queue /\ r \notin Riding
      BY <3>1 DEF Accounted, Riding, ReadTypeOK
    <3>3. status'[r] = status[r] /\ conn'[d] = conn[d]
      BY <1>2, <1>3, <2>2, <3>1, <3>2
    <3>4. \A e \in Conns \ {d} : r \notin load'[e]
      BY <1>2, <3>1 DEF Accounted
    <3> QED BY <3>1, <3>3, <3>4 DEF Accounted
  <2> QED BY <2>1, <2>2
<1>11. Accounted'
  BY <1>2, <1>8, <1>9, <1>10 DEF Accounted
<1> QED BY <1>2, <1>4, <1>5, <1>6, <1>7, <1>11

(***************************************************************************)
(* The steps                                                               *)
(***************************************************************************)

\* A batch that has less to wait for still fits.
LEMMA FitsStill ==
  ASSUME BatchFits, queue \subseteq Reads, expected \in Nat, expected' = expected,
         queue' \cup Building' \subseteq queue \cup Building
  PROVE  BatchFits'
<1>1. IsFiniteSet(queue \cup Building)
  BY ReadsAssumption, FS_Subset DEF Building
<1>2. /\ Cardinality(queue' \cup Building') <= Cardinality(queue \cup Building)
      /\ Cardinality(queue' \cup Building') \in Nat /\ Cardinality(queue \cup Building) \in Nat
  BY <1>1, FS_Subset, FS_CardinalityType
<1> HIDE DEF Building
<1> QED BY <1>2 DEF BatchFits

\* The frame of the reads S goes out on socket c.
LEMMA TransmitCounts ==
  ASSUME Counted, prompt' \in BOOLEAN, NEW S \in SUBSET Reads, NEW c \in Conns, Transmit(S, c),
         S \subseteq frame, conn' = [conn EXCEPT ![c] = "open"], current' = c,
         \/ S = load[c] /\ conn[c] = "connecting" /\ UNCHANGED <<expected, queue>>
         \/ /\ load[c] = {} /\ queue \subseteq S /\ ClearBatch
            /\ \A r \in S : status[r] \in {"building", "queued"},
         UNCHANGED <<frame, attempt, token, cancelled, over>>
  PROVE  Counted'
<1> USE DEF Counted
<1>1. \A r \in S : status[r] \in Fresh
  BY DEF Accounted, Fresh
<1>2. Tokens' /\ TokensAreFresh' /\ shown' \in [Reads -> Seq({1, 2})]
  BY <1>1, TokensTransmitted
<1>3. /\ status' = [r \in Reads |-> IF r \in S THEN "sent" ELSE status[r]]
      /\ load' = [load EXCEPT ![c] = S]
  BY DEF Transmit, Becomes
<1>4. status' \in [Reads -> Final \cup {"new", "building", "queued", "connecting",
                                        "sent", "unsent", "lost"}]
  BY <1>3 DEF ReadTypeOK
<1>5. /\ load' \in [Conns -> SUBSET Reads] /\ conn' \in [Conns -> {"closed", "connecting", "open"}]
      /\ expected' \in 0..Cardinality(Reads) /\ queue' \subseteq Reads
  BY <1>3, ReadsAssumption, FS_CardinalityType DEF ReadTypeOK, ClearBatch
<1>6. ReadTypeOK'
  BY <1>2, <1>4, <1>5 DEF ReadTypeOK
<1>7. InFrame'
  BY <1>3 DEF InFrame, Open
<1>8. Connecting'
  BY <1>3 DEF Connecting, ReadTypeOK
<1>9. BatchFits'
  <2>1. CASE UNCHANGED <<expected, queue>>
    <3>1. Building' \subseteq Building /\ expected \in Nat
      BY <1>3, ReadsAssumption, FS_CardinalityType DEF Building, ReadTypeOK
    <3> QED BY <2>1, <3>1, FitsStill DEF ReadTypeOK
  <2>2. CASE ClearBatch
    BY <2>2 DEF ClearBatch, BatchFits
  <2> QED BY <2>1, <2>2
<1>10. \A d \in Conns \ {c} : load'[d] = load[d] /\ conn'[d] = conn[d] /\ load[d] \cap S = {}
  BY <1>3 DEF Accounted, ReadTypeOK
<1>11. load'[c] = S /\ conn'[c] = "open" /\ load[c] \subseteq S
  BY <1>3 DEF ReadTypeOK
<1>12. Accounted'
  <2>1. \A r \in Reads : status'[r] = "queued" <=> r \in queue'
    BY <1>3 DEF Accounted, ClearBatch
  <2>2. \A r \in Reads : status'[r] \in {"connecting", "sent"} => \E d \in Conns : r \in load'[d]
    BY <1>3, <1>10, <1>11 DEF Accounted
  <2>3. \A d \in Conns : \A r \in load'[d] :
          /\ status'[r] = IF conn'[d] = "open" THEN "sent" ELSE "connecting"
          /\ conn'[d] # "closed"
          /\ \A e \in Conns \ {d} : r \notin load'[e]
    BY <1>3, <1>10, <1>11 DEF Accounted, ReadTypeOK
  <2>4. queue' # {} => Cardinality(queue') < expected'
    BY DEF Accounted, ClearBatch
  <2> QED BY <2>1, <2>2, <2>3, <2>4 DEF Accounted
<1> QED BY <1>2, <1>6, <1>7, <1>8, <1>9, <1>12

\* What close leaves is counted, where nothing was staged or presented and the
\* reads that cause it are fresh and stay so, are lost, or are over.
LEMMA ClosingCounts ==
  ASSUME Counted, prompt' \in BOOLEAN, NEW S \in SUBSET Reads,
         NEW s \in {"connecting", "unsent", "lost", "aborted", "new"},
         NEW E \in SUBSET Conns, NEW c \in Conns \cup {None}, Closing(S, s, E, c),
         UNCHANGED <<frame, token, shown>>,
         attempt' \in [Reads -> {0, 1}], cancelled' \in BOOLEAN, over' \in BOOLEAN,
         Causes(S, s, E, c),
         \A r \in S : /\ s \in Fresh => status[r] \in Fresh
                      /\ s = "lost" => status[r] \in Fresh \cup Out
  PROVE  Counted'
<1>0. UNCHANGED frame
  OBVIOUS
<1>1. /\ status' \in [Reads -> Final \cup {"new", "building", "queued", "connecting",
                                           "sent", "unsent", "lost"}]
      /\ conn' \in [Conns -> {"closed", "connecting", "open"}]
      /\ load' \in [Conns -> SUBSET Reads]
      /\ current' = None /\ expected' = 0 /\ queue' = {}
      /\ InFrame' /\ Accounted' /\ Connecting' /\ BatchFits'
  BY <1>0, ClosingAccounts
<1> USE DEF Counted
<1>2. \A r \in Reads :
        status'[r] = IF r \in S THEN s ELSE IF r \in queue THEN "unsent"
                     ELSE IF r \in Riding THEN "lost" ELSE status[r]
  BY DEF Closing, Unserved
<1>3. \A r \in Riding : status[r] = "sent"
  BY RidersWereSent
<1>4. \A r \in Reads : /\ status'[r] \in Fresh => status[r] \in Fresh
                       /\ status'[r] = "sent" => status[r] = "sent"
                       /\ status'[r] = "lost" => status[r] \in Fresh \cup Out
  BY <1>2, <1>3 DEF Accounted, Fresh, Out
<1>5. Tokens' /\ TokensAreFresh'
  BY <1>4, TokensKept
<1>6. expected' \in 0..Cardinality(Reads)
  BY <1>1, ReadsAssumption, FS_CardinalityType
<1>7. ReadTypeOK'
  BY <1>1, <1>6 DEF ReadTypeOK
<1> QED BY <1>1, <1>5, <1>7

\* Reads that are dispatched, with all that is queued.
LEMMA DispatchCounts ==
  ASSUME Counted, prompt' \in BOOLEAN, NEW S \in SUBSET Reads, S # {}, Dispatch(S),
         \A r \in S : status[r] \in {"building", "queued"}, queue \subseteq S,
         UNCHANGED <<frame, token, cancelled, over>>
  PROVE  Counted'
<1>1. S \subseteq frame
  BY DEF Counted, InFrame, Open
<1>2. \A d \in Conns : load[d] \cap S = {}
  BY DEF Counted, Accounted
<1>3. \A r \in S : status[r] \in Fresh
  BY DEF Fresh
<1>4. attempt \in [Reads -> {0, 1}] /\ cancelled' \in BOOLEAN /\ over' \in BOOLEAN
      /\ current \in Conns \cup {None}
  BY DEF Counted, ReadTypeOK
<1>5. CASE /\ Usable /\ load[current] = {}
           /\ Transmit(S, current)
           /\ ClearBatch
           /\ UNCHANGED <<attempt, conn, current>>
  <2>1. current \in Conns /\ conn' = [conn EXCEPT ![current] = "open"]
    BY <1>4, <1>5 DEF Usable, Counted, ReadTypeOK
  <2> QED BY <1>1, <1>5, <2>1, TransmitCounts
<1>6. CASE Closing(S, "unsent", {}, None) /\ UNCHANGED <<attempt, shown>>
  <2>1. Causes(S, "unsent", {}, None)
    BY <1>1, <1>2 DEF Causes
  <2> QED BY <1>3, <1>4, <1>6, <2>1, ClosingCounts DEF Out
<1>7. CASE Reconnect(S) /\ attempt' \in [Reads -> {0, 1}] /\ UNCHANGED shown
  <2>1. PICK c \in Conns : load[c] = {} /\ Closing(S, "connecting", {}, c)
    BY <1>7 DEF Reconnect
  <2>2. Causes(S, "connecting", {}, c)
    BY <1>1, <1>2, <2>1, NoneAssumption DEF Causes
  <2> QED BY <1>3, <1>4, <1>7, <2>1, <2>2, ClosingCounts DEF Out
<1>8. attempt' = [r \in Reads |-> IF r \in S THEN 1 ELSE attempt[r]] => attempt' \in [Reads -> {0, 1}]
  BY <1>4
<1>9. CASE Closing(S, "lost", {}, None) /\ UNCHANGED <<attempt, shown>>
  <2>1. Causes(S, "lost", {}, None)
    BY <1>1, <1>2 DEF Causes
  <2> QED BY <1>3, <1>4, <1>9, <2>1, ClosingCounts DEF Fresh
<1> QED BY <1>4, <1>5, <1>6, <1>7, <1>8, <1>9 DEF Dispatch, FenceLost

\* The steps of the session: a frame begins, and everything may end.
LEMMA SessionCounts ==
  ASSUME Counted, prompt' \in BOOLEAN,
         \/ \E S \in SUBSET Unread : StartFrame(S)
         \/ TimerFires \/ EndFrame \/ AbortReads \/ EndSession
  PROVE  Counted'
<1>1. expected \in Nat /\ Cardinality(Reads) \in Nat /\ queue \subseteq Reads
  BY ReadsAssumption, FS_CardinalityType DEF Counted, ReadTypeOK
<1>2. ASSUME NEW S \in SUBSET Unread, StartFrame(S)
      PROVE  Counted'
  <2> USE DEF Counted
  <2>1. S \subseteq Reads /\ \A r \in S : status[r] = "new"
    BY DEF Unread
  <2>2. queue = {} /\ Building = {}
    BY <1>1, <1>2 DEF StartFrame, InFrame, Open, Accounted, Building
  <2>3. /\ IsFiniteSet(S) /\ Cardinality(S) \in Nat /\ Cardinality(S) <= Cardinality(Reads)
        /\ Cardinality({}) = 0
    BY <2>1, ReadsAssumption, FS_Subset, FS_CardinalityType, FS_EmptySet
  <2>4. UNCHANGED <<attempt, token, shown, conn, load, current, cancelled, over>>
    BY <1>2 DEF StartFrame
  <2>5. CASE Becomes(S, "refused") /\ UNCHANGED <<frame, expected, queue>>
    <3>1. status' = [r \in Reads |-> IF r \in S THEN "refused" ELSE status[r]]
      BY <2>5 DEF Becomes
    <3>2. Tokens' /\ TokensAreFresh'
      BY <2>1, <2>4, <3>1, TokensKept DEF Fresh, Out
    <3>3. BatchFits'
      BY <1>1, <2>5, <3>1, FitsStill DEF Building
    <3>4. ReadTypeOK' /\ InFrame' /\ Accounted' /\ Connecting'
      BY <2>1, <2>4, <2>5, <3>1 DEF ReadTypeOK, Final, InFrame, Open, Accounted, Connecting
    <3> QED BY <3>2, <3>3, <3>4
  <2>6. CASE /\ frame' = S
             /\ Becomes(S, "building")
             /\ expected' = IF Cardinality(S) > 1 THEN Cardinality(S) ELSE expected
             /\ UNCHANGED queue
    <3>1. status' = [r \in Reads |-> IF r \in S THEN "building" ELSE status[r]]
      BY <2>6 DEF Becomes
    <3>2. Tokens' /\ TokensAreFresh'
      BY <2>1, <2>4, <3>1, TokensKept DEF Fresh, Out
    <3>3. Building' = S
      BY <2>1, <2>2, <3>1 DEF Building
    <3>4. BatchFits'
      BY <1>1, <2>2, <2>3, <2>6, <3>3 DEF BatchFits
    <3>5. expected' \in 0..Cardinality(Reads)
      BY <1>1, <2>3, <2>6 DEF ReadTypeOK
    <3>6. ReadTypeOK'
      BY <2>1, <2>4, <2>6, <3>1, <3>5 DEF ReadTypeOK
    <3>7. InFrame'
      BY <1>2, <2>6, <3>1 DEF StartFrame, InFrame, Open
    <3>8. Accounted' /\ Connecting'
      BY <2>1, <2>2, <2>4, <2>6, <3>1 DEF Accounted, Connecting, ReadTypeOK
    <3> QED BY <3>2, <3>4, <3>6, <3>7, <3>8
  <2> QED BY <1>2, <2>5, <2>6 DEF StartFrame
<1>3. CASE TimerFires
  <2> USE DEF Counted
  <2>1. /\ status' = [r \in Reads |-> IF r \in queue THEN "unsent" ELSE status[r]]
        /\ expected' = 0 /\ queue' = {}
        /\ UNCHANGED <<frame, attempt, token, shown, conn, load, current, cancelled, over>>
    BY <1>3 DEF TimerFires, Becomes, ClearBatch
  <2>2. Tokens' /\ TokensAreFresh'
    BY <2>1, TokensKept DEF Fresh, Out, Accounted
  <2>3. ReadTypeOK'
    BY <1>1, <2>1 DEF ReadTypeOK
  <2>4. InFrame' /\ Connecting' /\ BatchFits'
    BY <2>1 DEF InFrame, Open, Accounted, Connecting, BatchFits
  <2>5. Accounted'
    BY <2>1 DEF Accounted, ReadTypeOK
  <2> QED BY <2>2, <2>3, <2>4, <2>5
<1>4. CASE EndFrame
  <2> USE DEF Counted
  <2>1. frame' = {} /\ UNCHANGED <<readVars, linkVars, cancelled, over>>
        /\ \A r \in frame : status[r] \in Final
    BY <1>4 DEF EndFrame
  <2>2. InFrame'
    BY <2>1 DEF InFrame, Open, Final, readVars
  <2> QED
    BY <2>1, <2>2 DEF ReadTypeOK, Accounted, Tokens, TokensAreFresh, Connecting, BatchFits, Building,
      readVars, linkVars
<1>5. CASE AbortReads
  <2> DEFINE busy == {c \in Conns : load[c] # {}}
             S == UNION {load[c] : c \in busy}
  <2>0. /\ cancelled' = TRUE /\ UNCHANGED <<frame, attempt, token, shown, over>>
        /\ IF busy = {} THEN UNCHANGED <<status, linkVars>> ELSE Closing(S, "aborted", busy, None)
    BY <1>5 DEF AbortReads
  <2>1. CASE UNCHANGED <<status, linkVars>>
    BY <2>0, <2>1 DEF Counted, ReadTypeOK, InFrame, Accounted, Tokens, TokensAreFresh, Connecting,
      BatchFits, Building, linkVars
  <2>2. CASE Closing(S, "aborted", busy, None)
    <3>1. S \in SUBSET Reads /\ \A r \in S : status[r] \in {"sent", "connecting"}
      BY DEF Counted, ReadTypeOK, Accounted
    <3>2. S \subseteq frame
      BY <3>1 DEF Counted, InFrame, Open
    <3>3. \A d \in Conns : IF d \in busy THEN load[d] \subseteq S ELSE load[d] = {}
      OBVIOUS
    <3>4. busy \in SUBSET Conns
      OBVIOUS
    <3>5. /\ attempt' \in [Reads -> {0, 1}] /\ cancelled' \in BOOLEAN /\ over' \in BOOLEAN
          /\ UNCHANGED <<frame, token, shown>>
      BY <2>0 DEF Counted, ReadTypeOK
    <3> HIDE DEF S, busy
    <3>6. Causes(S, "aborted", busy, None)
      BY <3>2, <3>3, <3>4 DEF Causes
    <3> QED BY <2>2, <3>1, <3>4, <3>5, <3>6, ClosingCounts DEF Fresh, Out
  <2> QED BY <2>0, <2>1, <2>2
<1>6. CASE EndSession
  <2>1. /\ attempt' \in [Reads -> {0, 1}] /\ cancelled' \in BOOLEAN /\ over' \in BOOLEAN
        /\ UNCHANGED <<frame, token, shown>> /\ Closing({}, "new", {}, None)
    BY <1>6 DEF EndSession, Counted, ReadTypeOK
  <2>2. Causes({}, "new", {}, None)
    BY DEF Causes
  <2> QED BY <2>1, <2>2, ClosingCounts
<1> QED BY <1>2, <1>3, <1>4, <1>5, <1>6

\* The steps of one read.
LEMMA ProceedCounts ==
  ASSUME Counted, prompt' \in BOOLEAN, NEW r \in Reads, Proceed(r)
  PROVE  Counted'
<1>1. expected \in Nat /\ queue \subseteq Reads
  BY ReadsAssumption, FS_CardinalityType DEF Counted, ReadTypeOK
<1>2. CASE FailLocally(r)
  <2> USE DEF Counted
  <2>1. /\ status[r] = "building"
        /\ status' = [q \in Reads |-> IF q \in {r} THEN "failed" ELSE status[q]]
        /\ UNCHANGED <<frame, attempt, token, shown, linkVars, cancelled, over>>
    BY <1>2 DEF FailLocally, Becomes
  <2>2. Tokens' /\ TokensAreFresh'
    BY <2>1, TokensKept DEF Fresh, Out
  <2>3. BatchFits'
    BY <1>1, <2>1, FitsStill DEF Building, linkVars
  <2>4. ReadTypeOK' /\ InFrame' /\ Connecting'
    BY <2>1 DEF ReadTypeOK, Final, InFrame, Open, Connecting, linkVars
  <2>5. Accounted'
    BY <2>1 DEF Accounted, ReadTypeOK, linkVars
  <2> QED BY <2>2, <2>3, <2>4, <2>5
<1>3. CASE Invoke(r)
  <2>1. status[r] = "building" /\ UNCHANGED <<frame, token, cancelled, over>>
    BY <1>3 DEF Invoke
  <2>2. CASE /\ expected > Cardinality(queue) + 1
             /\ queue' = queue \cup {r}
             /\ Becomes({r}, "queued")
             /\ UNCHANGED <<attempt, shown, expected, conn, load, current>>
    <3> USE DEF Counted
    <3>1. status' = [q \in Reads |-> IF q \in {r} THEN "queued" ELSE status[q]]
      BY <2>2 DEF Becomes
    <3>2. Tokens' /\ TokensAreFresh'
      BY <2>1, <2>2, <3>1, TokensKept DEF Fresh, Out
    <3>3. BatchFits'
      BY <1>1, <2>1, <2>2, <3>1, FitsStill DEF Building
    <3>4. ReadTypeOK' /\ InFrame' /\ Connecting'
      BY <2>1, <2>2, <3>1 DEF ReadTypeOK, InFrame, Open, Connecting
    <3>5. Cardinality(queue') < expected'
      <4>1. IsFiniteSet(queue) /\ Cardinality(queue) \in Nat
        BY <1>1, ReadsAssumption, FS_Subset, FS_CardinalityType
      <4>2. Cardinality(queue') \in Nat /\ Cardinality(queue') <= Cardinality(queue) + 1
        <5>1. /\ IsFiniteSet(queue \cup {r})
              /\ Cardinality(queue \cup {r}) = IF r \in queue THEN Cardinality(queue)
                                               ELSE Cardinality(queue) + 1
          BY <4>1, FS_AddElement
        <5> QED BY <2>2, <4>1, <5>1
      <4> QED BY <1>1, <2>2, <4>1, <4>2
    <3>6. Accounted'
      BY <2>1, <2>2, <3>1, <3>5 DEF Accounted, ReadTypeOK
    <3> QED BY <3>2, <3>3, <3>4, <3>6
  <2>3. CASE Dispatch(queue \cup {r})
    <3>1. \A q \in queue \cup {r} : status[q] \in {"building", "queued"}
      BY <1>1, <2>1 DEF Counted, Accounted
    <3> QED BY <1>1, <2>1, <2>3, <3>1, DispatchCounts
  <2>4. CASE expected = 0 /\ Dispatch({r})
    <3>1. queue = {}
      <4>1. IsFiniteSet(queue) /\ Cardinality(queue) \in Nat
        BY <1>1, ReadsAssumption, FS_Subset, FS_CardinalityType
      <4> QED BY <2>4, <4>1 DEF Counted, Accounted
    <3> QED BY <2>1, <2>4, <3>1, DispatchCounts
  <2>5. CASE Becomes({r}, "unsent") /\ UNCHANGED <<attempt, shown, linkVars>>
    <3> USE DEF Counted
    <3>1. /\ status' = [q \in Reads |-> IF q \in {r} THEN "unsent" ELSE status[q]]
          /\ UNCHANGED <<expected, queue, conn, load, current>>
      BY <2>5 DEF Becomes, linkVars
    <3>2. Tokens' /\ TokensAreFresh'
      BY <2>1, <2>5, <3>1, TokensKept DEF Fresh, Out
    <3>3. BatchFits'
      BY <1>1, <2>1, <3>1, FitsStill DEF Building
    <3>4. ReadTypeOK' /\ InFrame' /\ Connecting'
      BY <2>1, <2>5, <3>1 DEF ReadTypeOK, InFrame, Open, Connecting
    <3>5. Accounted'
      BY <2>1, <3>1 DEF Accounted, ReadTypeOK
    <3> QED BY <3>2, <3>3, <3>4, <3>5
  <2> QED BY <1>3, <2>2, <2>3, <2>4, <2>5 DEF Invoke
<1>4. CASE Fallback(r)
  <2> USE DEF Counted
  <2>1. status[r] \in {"unsent", "lost"} /\ UNCHANGED <<frame, attempt, linkVars, cancelled, over>>
    BY <1>4 DEF Fallback
  <2>2. CASE cancelled /\ Becomes({r}, "aborted") /\ UNCHANGED <<token, shown>>
    <3>1. status' = [q \in Reads |-> IF q \in {r} THEN "aborted" ELSE status[q]]
      BY <2>2 DEF Becomes
    <3>2. Tokens' /\ TokensAreFresh'
      BY <2>2, <3>1, TokensKept DEF Fresh, Out
    <3>3. BatchFits'
      BY <1>1, <2>1, <3>1, FitsStill DEF Building, linkVars
    <3>4. ReadTypeOK' /\ InFrame' /\ Connecting'
      BY <2>1, <2>2, <3>1 DEF ReadTypeOK, Final, InFrame, Open, Connecting, linkVars
    <3>5. Accounted'
      BY <2>1, <3>1 DEF Accounted, ReadTypeOK, linkVars
    <3> QED BY <3>2, <3>3, <3>4, <3>5
  <2>3. CASE ~cancelled
    <3> DEFINE t == IF status[r] = "lost" THEN token[r] + 1 ELSE token[r]
    <3>1. /\ token' = [token EXCEPT ![r] = t]
          /\ shown' = [shown EXCEPT ![r] = Append(@, t)]
          /\ status' = [q \in Reads |-> IF q \in {r} THEN "done" ELSE status[q]]
      BY <1>4, <2>3 DEF Fallback, SpawnRead, Becomes
    <3>2. \/ t \in {1, 2} /\ shown[r] = <<>>
          \/ t = 2 /\ shown[r] = <<1>>
      BY <2>1 DEF Tokens, Fresh
    <3>3. t \in {1, 2} /\ Append(shown[r], t) \in Seq({1, 2})
      <4>1. t \in {1, 2}
        BY <3>2
      <4>2. shown[r] \in Seq({1, 2})
        BY DEF ReadTypeOK
      <4> HIDE DEF t
      <4> QED BY <4>1, <4>2
    <3>4. IsInjective(Append(<<>>, 1)) /\ IsInjective(Append(<<>>, 2))
      BY DEF IsInjective
    <3>5. IsInjective(Append(<<1>>, 2))
      <4> DEFINE two == Append(<<1>>, 2)
      <4>1. DOMAIN two = {1, 2} /\ two[1] = 1 /\ two[2] = 2
        OBVIOUS
      <4> HIDE DEF two
      <4>2. IsInjective(two)
        BY <4>1 DEF IsInjective
      <4> QED BY <4>2 DEF two
    <3>6. IsInjective(Append(shown[r], t))
      BY <3>2, <3>4, <3>5
    <3> HIDE DEF t
    <3>7. Tokens' /\ TokensAreFresh'
      BY <3>1, <3>3, <3>6 DEF Tokens, TokensAreFresh, Fresh, Out, ReadTypeOK
    <3>8. BatchFits'
      BY <1>1, <2>1, <3>1, FitsStill DEF Building, linkVars
    <3>9. ReadTypeOK' /\ InFrame' /\ Connecting'
      BY <2>1, <3>1, <3>3 DEF ReadTypeOK, Final, InFrame, Open, Connecting, linkVars
    <3>10. Accounted'
      BY <2>1, <3>1 DEF Accounted, ReadTypeOK, linkVars
    <3> QED BY <3>7, <3>8, <3>9, <3>10
  <2> QED BY <1>4, <2>2, <2>3 DEF Fallback
<1> QED BY <1>2, <1>3, <1>4 DEF Proceed, Build

\* What becomes of one socket.
LEMMA OutcomeCounts ==
  ASSUME Counted, prompt' \in BOOLEAN, NEW c \in Conns, Outcome(c)
  PROVE  Counted'
<1>1. expected \in Nat /\ queue \subseteq Reads
  BY ReadsAssumption, FS_CardinalityType DEF Counted, ReadTypeOK
<1>2. /\ load[c] \in SUBSET Reads /\ load[c] \subseteq frame
      /\ \A r \in load[c] : status[r] = IF conn[c] = "open" THEN "sent" ELSE "connecting"
      /\ \A d \in Conns \ {c} : load[d] \cap load[c] = {}
  BY DEF Counted, ReadTypeOK, Accounted, InFrame, Open
<1>3. attempt \in [Reads -> {0, 1}] /\ cancelled \in BOOLEAN /\ over \in BOOLEAN
  BY DEF Counted, ReadTypeOK
<1>4. CASE Connected(c)
  BY <1>2, <1>4, TransmitCounts DEF Connected
<1>5. CASE ConnectFails(c)
  <2>1. conn[c] = "connecting" /\ load[c] # {} /\ UNCHANGED <<frame, token, shown, cancelled, over>>
    BY <1>5 DEF ConnectFails, Counted, Connecting
  <2>2. CASE /\ Closing(load[c], "connecting", {}, c)
             /\ attempt' = [r \in Reads |-> IF r \in load[c] THEN 1 ELSE attempt[r]]
    <3>1. Causes(load[c], "connecting", {}, c)
      BY <1>2, <2>1, NoneAssumption DEF Causes
    <3>2. attempt' \in [Reads -> {0, 1}]
      BY <1>3, <2>2
    <3> QED BY <1>2, <1>3, <2>1, <2>2, <3>1, <3>2, ClosingCounts DEF Fresh, Out
  <2>3. CASE Closing(load[c], "unsent", {c}, None) /\ UNCHANGED attempt
    <3>1. Causes(load[c], "unsent", {c}, None)
      BY <1>2 DEF Causes
    <3> QED BY <1>2, <1>3, <2>1, <2>3, <3>1, ClosingCounts DEF Fresh, Out
  <2> QED BY <1>5, <2>2, <2>3 DEF ConnectFails
<1>6. CASE Break(c)
  <2>1. PICK E \in {{}, {c}} : Closing(load[c], "lost", E, None)
    BY <1>6 DEF Break
  <2>2. conn[c] = "open" /\ UNCHANGED <<frame, attempt, token, shown, cancelled, over>>
    BY <1>6 DEF Break
  <2>3. Causes(load[c], "lost", E, None)
    BY <1>2, <2>1, <2>2 DEF Causes
  <2> QED BY <1>2, <1>3, <2>1, <2>2, <2>3, ClosingCounts DEF Fresh, Out
<1>7. CASE Idle(c)
  <2>1. /\ conn[c] = "open" /\ load[c] = {} /\ conn' = [conn EXCEPT ![c] = "closed"]
        /\ UNCHANGED <<frame, readVars, expected, queue, load, current, cancelled, over>>
    BY <1>7 DEF Idle
  <2> USE DEF Counted
  <2>2. ReadTypeOK' /\ Accounted' /\ Connecting'
    BY <2>1 DEF ReadTypeOK, Accounted, Connecting, readVars
  <2> QED BY <2>1, <2>2 DEF InFrame, Tokens, TokensAreFresh, BatchFits, Building, readVars
<1>8. ASSUME NEW r \in Reads, AnswerRead(r, c)
      PROVE  Counted'
  <2> USE DEF Counted
  <2>1. /\ conn[c] = "open" /\ r \in load[c] /\ status[r] = "sent"
        /\ status' = [q \in Reads |-> IF q \in {r} THEN "done" ELSE status[q]]
        /\ load' = [load EXCEPT ![c] = @ \ {r}]
        /\ UNCHANGED <<frame, attempt, token, shown, expected, queue, conn, current, cancelled, over>>
    BY <1>2, <1>8 DEF AnswerRead, Becomes
  <2>2. Tokens' /\ TokensAreFresh'
    BY <2>1, TokensKept DEF Fresh, Out
  <2>3. BatchFits'
    BY <1>1, <2>1, FitsStill DEF Building
  <2>4. ReadTypeOK' /\ InFrame' /\ Connecting'
    BY <2>1 DEF ReadTypeOK, Final, InFrame, Open, Connecting
  <2>5. \A d \in Conns : load'[d] = load[d] \ {r}
    BY <1>2, <2>1 DEF ReadTypeOK
  <2>6. Accounted'
    BY <2>1, <2>5 DEF Accounted, ReadTypeOK
  <2> QED BY <2>2, <2>3, <2>4, <2>6
<1>9. CASE ConnectErrs(c)
  <2>1. /\ conn[c] = "connecting" /\ Closing(load[c], "lost", {c}, None)
        /\ UNCHANGED <<frame, attempt, token, shown, cancelled, over>>
    BY <1>9 DEF ConnectErrs
  <2>2. Causes(load[c], "lost", {c}, None)
    BY <1>2 DEF Causes
  <2> QED BY <1>2, <1>3, <2>1, <2>2, ClosingCounts DEF Fresh
<1>10. CASE ConnectedLate(c)
  <2> USE DEF Counted
  <2>1. /\ conn[c] = "connecting" /\ expected' = 0 /\ queue' = {}
        /\ status' = [r \in Reads |-> IF r \in load[c] THEN "lost"
                                      ELSE IF r \in queue THEN "unsent" ELSE status[r]]
        /\ conn' = [conn EXCEPT ![c] = "closed"] /\ load' = [load EXCEPT ![c] = {}]
        /\ current' = None
        /\ UNCHANGED <<frame, attempt, token, shown, cancelled, over>>
    BY <1>10 DEF ConnectedLate, ClearBatch
  <2>2. \A r \in Reads : /\ status'[r] \in Fresh => status[r] \in Fresh
                         /\ status'[r] = "sent" => status[r] = "sent"
                         /\ status'[r] = "lost" => status[r] \in Fresh \cup Out
    BY <1>2, <2>1 DEF Accounted, Fresh, Out
  <2>3. Tokens' /\ TokensAreFresh'
    BY <2>1, <2>2, TokensKept
  <2>4. expected' \in 0..Cardinality(Reads)
    BY <2>1, ReadsAssumption, FS_CardinalityType
  <2>5. ReadTypeOK'
    BY <2>1, <2>4 DEF ReadTypeOK
  <2>6. InFrame' /\ Connecting' /\ BatchFits'
    BY <1>2, <2>1 DEF InFrame, Open, Accounted, Connecting, BatchFits, ReadTypeOK
  <2>7. /\ \A d \in Conns \ {c} : load'[d] = load[d] /\ conn'[d] = conn[d]
        /\ load'[c] = {}
    BY <2>1 DEF ReadTypeOK
  <2>8. \A d \in Conns \ {c} : \A r \in load[d] : status'[r] = status[r] /\ r \notin load[c]
    BY <1>2, <2>1 DEF Accounted, ReadTypeOK
  <2>9. \A r \in Reads : status'[r] \in {"connecting", "sent"} => status'[r] = status[r] /\ r \notin load[c]
    BY <2>1
  <2>10. \A r \in Reads : status'[r] = "queued" <=> r \in queue'
    BY <2>1 DEF Accounted
  <2>11. Accounted'
    BY <2>1, <2>7, <2>8, <2>9, <2>10 DEF Accounted
  <2> QED BY <2>3, <2>5, <2>6, <2>11
<1> QED BY <1>4, <1>5, <1>6, <1>7, <1>8, <1>9, <1>10 DEF Outcome

LEMMA StepsCount ==
  ASSUME Counted, prompt' \in BOOLEAN, Act
  PROVE  Counted'
BY SessionCounts, ProceedCounts, OutcomeCounts DEF Act

(***************************************************************************)
(* One socket                                                              *)
(***************************************************************************)

\* No socket carries anything that is not in the frame.
LEMMA EmptyFrame ==
  ASSUME Counted, frame = {}
  PROVE  Building = {} /\ \A c \in Conns : load[c] = {}
BY DEF Counted, InFrame, Open, Accounted, ReadTypeOK, Building

\* What closing leaves of the sockets.
LEMMA Closed ==
  ASSUME NEW S, NEW s, NEW E, NEW c, Closing(S, s, E, c)
  PROVE  /\ \A d \in Conns :
              conn'[d] = IF d = c THEN "connecting"
                         ELSE IF d = current \/ d \in E THEN "closed" ELSE conn[d]
         /\ \A d \in Conns :
              load'[d] = IF d = c THEN S
                         ELSE IF d = current \/ d \in E THEN {} ELSE load[d] \ S
         /\ current' = None
         /\ \A r \in Reads : s # "building" /\ status'[r] = "building" => r \in Building
BY DEF Closing, Unserved, Building

\* A read that is built finds at most an idle socket.
LEMMA BuildKeepsOne ==
  ASSUME Counted, OneAtATime, prompt, NEW r \in Reads, Build(r)
  PROVE  OneAtATime'
<1>1. /\ status[r] = "building" /\ r \in Building /\ UNCHANGED <<cancelled, over>> /\ ~cancelled /\ ~over
      /\ \A c \in Conns : load[c] = {}
      /\ \A c \in Conns : conn[c] # "connecting" /\ (conn[c] = "open" => c = current)
      /\ expected = 0 => Building = {r}
      /\ expected \in Nat /\ queue \subseteq Reads /\ current \in Conns \cup {None}
      /\ conn \in [Conns -> {"closed", "connecting", "open"}]
  <2>1. status[r] = "building" /\ r \in Building /\ UNCHANGED <<cancelled, over>>
    BY DEF Build, FailLocally, Invoke, Building
  <2>2. expected \in Nat
    BY ReadsAssumption, FS_CardinalityType DEF Counted, ReadTypeOK
  <2> QED BY <2>1, <2>2 DEF OneAtATime, Counted, Connecting, ReadTypeOK
<1>2. CASE /\ UNCHANGED <<conn, load, current, expected>>
           /\ \E s \in {"failed", "queued", "unsent"} : Becomes({r}, s)
  <2>1. Building' \subseteq Building
    BY <1>2 DEF Becomes, Building
  <2> QED BY <1>1, <1>2, <2>1 DEF OneAtATime
<1>3. ASSUME NEW S \in SUBSET Reads, S # {}, Building \subseteq S, Dispatch(S)
      PROVE  OneAtATime'
  <2>1. CASE Usable /\ Transmit(S, current) /\ UNCHANGED <<conn, current>>
    <3>1. Building' = {}
      BY <1>3, <2>1 DEF Transmit, Becomes, Building
    <3> QED BY <1>1, <2>1, <3>1 DEF OneAtATime
  <2>2. CASE ~Usable /\ Reconnect(S)
    <3>1. PICK c \in Conns : Closing(S, "connecting", {}, c)
      BY <2>2 DEF Reconnect
    <3>2. \A d \in Conns : conn[d] = "closed"
      BY <1>1, <2>2, NoneAssumption DEF Usable
    <3>3. /\ \A d \in Conns : conn'[d] = IF d = c THEN "connecting" ELSE "closed"
      BY <3>1, <3>2, Closed
    <3>4. Building' = {}
      BY <1>3, <3>1 DEF Closing, Building, Unserved
    <3> QED BY <1>1, <3>3, <3>4 DEF OneAtATime
  <2>3. Usable => load[current] = {}
    BY <1>1 DEF Usable
  <2>4. CASE Closing(S, "lost", {}, None)
    <3>1. \A d \in Conns : conn'[d] = IF d = current THEN "closed" ELSE conn[d]
      BY <2>4, Closed, NoneAssumption
    <3>2. \A d \in Conns : conn'[d] = "closed"
      BY <1>1, <3>1
    <3>3. Building' = {}
      BY <1>3, <2>4 DEF Closing, Building, Unserved
    <3> QED BY <1>1, <3>2, <3>3 DEF OneAtATime
  <2> QED BY <1>3, <2>1, <2>2, <2>3, <2>4 DEF Dispatch, FenceLost
<1>4. CASE expected = Cardinality(queue) + 1 /\ Dispatch(queue \cup {r})
  <2>1. Building \subseteq queue \cup {r}
    <3>1. /\ IsFiniteSet(queue) /\ Cardinality(queue) \in Nat
          /\ IsFiniteSet(queue \cup {r}) /\ IsFiniteSet(queue \cup Building)
      BY <1>1, ReadsAssumption, FS_Subset, FS_CardinalityType DEF Building
    <3>2. r \notin queue
      BY <1>1 DEF Counted, Accounted
    <3>3. Cardinality(queue \cup {r}) = Cardinality(queue) + 1
      BY <3>1, <3>2, FS_AddElement
    <3>4. Cardinality(queue \cup Building) <= Cardinality(queue \cup {r})
      BY <1>1, <1>4, <3>1, <3>3 DEF Counted, BatchFits
    <3>5. queue \cup {r} \subseteq queue \cup Building
      BY <1>1
    <3>6. Cardinality(queue \cup {r}) <= Cardinality(queue \cup Building)
      BY <3>1, <3>5, FS_Subset
    <3>7. Cardinality(queue \cup {r}) \in Nat /\ Cardinality(queue \cup Building) \in Nat
      BY <3>1, FS_CardinalityType
    <3>8. Cardinality(queue \cup {r}) = Cardinality(queue \cup Building)
      BY <3>4, <3>6, <3>7
    <3>9. queue \cup {r} = queue \cup Building
      BY <3>1, <3>5, <3>8, FS_Subset
    <3> QED BY <3>9
  <2> QED BY <1>1, <1>3, <1>4, <2>1
<1>5. CASE expected = 0 /\ Dispatch({r})
  BY <1>1, <1>3, <1>5
<1> QED BY <1>2, <1>4, <1>5 DEF Build, FailLocally, Invoke, linkVars

\* Nothing else happens while reads are built, so that no socket is busy then.
LEMMA OthersKeepOne ==
  ASSUME Counted, OneAtATime, prompt, Building = {}, Act
  PROVE  OneAtATime'
<1>1. /\ \A c, d \in Conns : conn[c] # "closed" /\ conn[d] # "closed" => c = d
      /\ \A c \in Conns : conn[c] = "open" => c = current
      /\ cancelled => \A c \in Conns : load[c] = {}
      /\ over => \A c \in Conns : conn[c] = "closed"
      /\ \A c \in Conns : conn[c] = "connecting" => load[c] # {}
      /\ conn \in [Conns -> {"closed", "connecting", "open"}]
      /\ load \in [Conns -> SUBSET Reads]
  BY DEF OneAtATime, Counted, Connecting, ReadTypeOK
<1>2. ASSUME NEW S \in SUBSET Unread, StartFrame(S)
      PROVE  OneAtATime'
  <2>1. \A c \in Conns : load[c] = {}
    BY <1>2, EmptyFrame DEF StartFrame
  <2>2. UNCHANGED <<conn, load, current, cancelled, over>> /\ ~cancelled /\ ~over
    BY <1>2 DEF StartFrame
  <2>3. CASE Becomes(S, "refused")
    <3>1. Building' = {}
      BY <2>3 DEF Becomes, Building
    <3> QED BY <1>1, <2>1, <2>2, <3>1 DEF OneAtATime
  <2>4. CASE Becomes(S, "building") /\ (expected' = IF Cardinality(S) > 1 THEN Cardinality(S) ELSE expected)
    <3>1. Building' \subseteq S
      BY <2>4 DEF Becomes, Building
    <3>2. IsFiniteSet(S) /\ Cardinality(S) \in Nat
      BY ReadsAssumption, FS_Subset, FS_CardinalityType DEF Unread
    <3>3. S # {} /\ (Cardinality(S) = 1 => \E r : S = {r}) /\ Cardinality(S) # 0
      BY <1>2, <3>2, FS_Singleton, FS_EmptySet DEF StartFrame
    <3>4. expected' = 0 => \A r, s \in Building' : r = s
      BY <2>4, <3>1, <3>2, <3>3
    <3> QED BY <1>1, <2>1, <2>2, <3>4 DEF OneAtATime
  <2> QED BY <1>2, <2>3, <2>4 DEF StartFrame
<1>3. ASSUME Building' = {}, UNCHANGED <<cancelled, over>>,
             \A c, d \in Conns : conn'[c] # "closed" /\ conn'[d] # "closed" => c = d,
             \A c \in Conns : conn'[c] = "open" => c = current',
             cancelled => \A c \in Conns : load'[c] = {},
             over => \A c \in Conns : conn'[c] = "closed"
      PROVE  OneAtATime'
  BY <1>3 DEF OneAtATime
<1>4. CASE TimerFires \/ EndFrame \/ \E r \in Reads : Fallback(r)
  <2>1. UNCHANGED <<conn, load, current, cancelled, over>>
    BY <1>4 DEF TimerFires, EndFrame, Fallback, SpawnRead, linkVars
  <2>2. Building' = {}
    BY <1>4 DEF TimerFires, EndFrame, Fallback, SpawnRead, Becomes, readVars, Building
  <2> QED BY <1>1, <1>3, <2>1, <2>2
<1>5. CASE AbortReads
  <2> DEFINE busy == {c \in Conns : load[c] # {}}
             S == UNION {load[c] : c \in busy}
  <2>1. CASE busy = {} /\ cancelled' = TRUE /\ UNCHANGED <<status, linkVars, over>>
    BY <1>1, <2>1 DEF OneAtATime, Building, linkVars
  <2>2. CASE Closing(S, "aborted", busy, None) /\ UNCHANGED over
    <3> HIDE DEF S
    <3>1. \A d \in Conns : load'[d] = {} /\ conn'[d] \in {"closed", conn[d]} /\ conn'[d] # "open"
      <4>1. \A d \in Conns : d \notin busy => load[d] = {} /\ conn[d] # "connecting"
        BY <1>1
      <4> HIDE DEF busy
      <4>2. \A d \in Conns :
              /\ conn'[d] = IF d = current \/ d \in busy THEN "closed" ELSE conn[d]
              /\ load'[d] = IF d = current \/ d \in busy THEN {} ELSE load[d] \ S
        BY <2>2, Closed, NoneAssumption
      <4> QED BY <1>1, <4>1, <4>2
    <3>2. Building' = {}
      BY <2>2, Closed DEF Building
    <3> QED BY <1>1, <2>2, <3>1, <3>2 DEF OneAtATime
  <2> QED BY <1>5, <2>1, <2>2 DEF AbortReads
<1>6. CASE EndSession
  <2>1. Closing({}, "new", {}, None) /\ UNCHANGED cancelled
    BY <1>6 DEF EndSession
  <2>2. \A c \in Conns : load[c] = {}
    BY <1>1, <1>6, EmptyFrame DEF EndSession
  <2>3. \A d \in Conns : load'[d] = {} /\ conn'[d] = "closed"
    BY <1>1, <2>1, <2>2, Closed, NoneAssumption
  <2>4. Building' = {}
    BY <2>1, Closed DEF Building
  <2> QED BY <2>3, <2>4 DEF OneAtATime
<1>7. ASSUME NEW c \in Conns, Outcome(c)
      PROVE  OneAtATime'
  <2>1. conn[c] # "closed" /\ ~over /\ \A d \in Conns \ {c} : conn[d] = "closed"
    BY <1>1, <1>7 DEF Outcome, Connected, ConnectFails, ConnectErrs, ConnectedLate, Break, Idle,
      AnswerRead
  <2>2. UNCHANGED <<cancelled, over>>
    BY <1>7 DEF Outcome, Connected, ConnectFails, ConnectErrs, ConnectedLate, Break, Idle, AnswerRead
  <2>3. CASE Connected(c)
    <3>1. Building' = {}
      BY <2>3 DEF Connected, Transmit, Becomes, Building
    <3> QED BY <1>1, <1>3, <2>1, <2>2, <2>3, <3>1 DEF Connected
  <2>4. CASE ConnectFails(c)
    <3>1. ~cancelled
      BY <1>1, <2>4 DEF ConnectFails
    <3>2. CASE Closing(load[c], "connecting", {}, c)
      <4>1. \A d \in Conns : conn'[d] = IF d = c THEN "connecting" ELSE "closed"
        BY <2>1, <3>2, Closed
      <4>2. Building' = {}
        BY <3>2, Closed DEF Building
      <4> QED BY <1>3, <2>1, <2>2, <3>1, <4>1, <4>2
    <3>3. CASE Closing(load[c], "unsent", {c}, None)
      <4>1. \A d \in Conns : conn'[d] = "closed"
        BY <2>1, <3>3, Closed, NoneAssumption
      <4>2. Building' = {}
        BY <3>3, Closed DEF Building
      <4> QED BY <1>3, <2>1, <2>2, <3>1, <4>1, <4>2
    <3> QED BY <2>4, <3>2, <3>3 DEF ConnectFails
  <2>5. CASE Break(c)
    <3>1. PICK E \in {{}, {c}} : Closing(load[c], "lost", E, None)
      BY <2>5 DEF Break
    <3>2. c = current /\ ~cancelled
      BY <1>1, <2>5 DEF Break
    <3>3. \A d \in Conns : conn'[d] = "closed"
      BY <2>1, <3>1, <3>2, Closed, NoneAssumption
    <3>4. Building' = {}
      BY <3>1, Closed DEF Building
    <3> QED BY <1>3, <2>1, <2>2, <3>2, <3>3, <3>4
  <2>6. CASE Idle(c)
    <3>1. Building' = {}
      BY <2>6 DEF Idle, readVars, Building
    <3> QED BY <1>1, <1>3, <2>1, <2>2, <2>6, <3>1 DEF Idle
  <2>7. ASSUME NEW r \in Reads, AnswerRead(r, c)
        PROVE  OneAtATime'
    <3>1. Building' = {}
      BY <2>7 DEF AnswerRead, Becomes, Building
    <3>2. ~cancelled
      BY <1>1, <2>7 DEF AnswerRead
    <3> QED BY <1>1, <1>3, <2>2, <2>7, <3>1, <3>2 DEF AnswerRead
  <2>8. CASE ConnectErrs(c)
    <3>1. ~cancelled /\ Closing(load[c], "lost", {c}, None)
      BY <1>1, <2>8 DEF ConnectErrs
    <3>2. \A d \in Conns : conn'[d] = "closed"
      BY <2>1, <3>1, Closed, NoneAssumption
    <3>3. Building' = {}
      BY <3>1, Closed DEF Building
    <3> QED BY <1>3, <2>1, <2>2, <3>1, <3>2, <3>3
  <2>9. CASE ConnectedLate(c)
    <3>1. ~cancelled
      BY <1>1, <2>9 DEF ConnectedLate
    <3>2. \A d \in Conns : conn'[d] = "closed"
      BY <1>1, <2>1, <2>9 DEF ConnectedLate
    <3>3. Building' = {}
      BY <2>9 DEF ConnectedLate, Building
    <3> QED BY <1>3, <2>1, <2>2, <3>1, <3>2, <3>3
  <2> QED BY <1>7, <2>3, <2>4, <2>5, <2>6, <2>7, <2>8, <2>9 DEF Outcome
<1>8. ASSUME NEW r \in Reads, Build(r)
      PROVE  FALSE
  BY <1>8 DEF Build, FailLocally, Invoke, Building
<1> QED BY <1>2, <1>4, <1>5, <1>6, <1>7, <1>8 DEF Act, Proceed

LEMMA ReadSteps == ReadInv /\ [ReadNext]_transportVars => ReadInv'
<1>1. ASSUME ReadInv, ReadNext
      PROVE  ReadInv'
  <2>1. prompt' = (prompt /\ Prompt) /\ Act
    BY <1>1 DEF ReadNext
  <2>2. prompt' \in BOOLEAN
    BY <2>1
  <2>3. Counted'
    BY <1>1, <2>1, <2>2, StepsCount DEF ReadInv
  <2>4. CASE ~prompt'
    BY <2>3, <2>4 DEF ReadInv, OneAtATime
  <2>5. CASE prompt'
    <3>1. prompt /\ Prompt
      BY <2>1, <2>5
    <3>2. CASE Building = {}
      BY <1>1, <2>1, <2>3, <3>1, <3>2, OthersKeepOne DEF ReadInv
    <3>3. CASE Building # {}
      <4>1. PICK r \in Reads : Build(r)
        BY <3>1, <3>3 DEF Prompt, Building
      <4> QED BY <1>1, <2>3, <3>1, <4>1, BuildKeepsOne DEF ReadInv
    <3> QED BY <3>2, <3>3
  <2> QED BY <2>4, <2>5
<1>2. ASSUME ReadInv, UNCHANGED transportVars
      PROVE  ReadInv'
  BY <1>2 DEF ReadInv, Counted, ReadTypeOK, InFrame, Accounted, Tokens, TokensAreFresh, Connecting,
    BatchFits, OneAtATime, Building, transportVars, codeVars, readVars, linkVars
<1> QED BY <1>1, <1>2

LEMMA AlwaysRead == ReadSpec => []ReadInv
BY ReadsStart, ReadSteps, PTL DEF ReadSpec

\* The transport's variables keep their types; in particular the request token
\* of a read is staged anew at most once.
THEOREM ReadTypeCorrect == ReadSpec => []ReadTypeOK
<1>1. ReadInv => ReadTypeOK
  BY DEF ReadInv, Counted
<1> QED BY <1>1, AlwaysRead, PTL

\* However frames, batches, sockets, timers and the signal interleave, every
\* open read is held by one place that settles it, no token is presented twice,
\* and there is one socket where the builds of a frame are not interrupted.
THEOREM ReadsAreAlwaysAccounted == ReadSpec => []ReadsAreAccounted
<1>1. ASSUME ReadInv
      PROVE  OneSocket
  <2> DEFINE busy == {c \in Conns : conn[c] # "closed"}
  <2>1. ASSUME prompt
        PROVE  Cardinality(busy) <= 1
    <3>1. CASE busy = {}
      BY <3>1, FS_EmptySet
    <3>2. CASE busy # {}
      <4>1. PICK c : busy = {c}
        BY <1>1, <2>1, <3>2 DEF ReadInv, OneAtATime
      <4> QED BY <4>1, FS_Singleton
    <3> QED BY <3>1, <3>2
  <2> QED BY <1>1, <2>1 DEF ReadInv, OneAtATime, OneSocket
<1>2. ReadInv => ReadsAreAccounted
  BY <1>1 DEF ReadInv, Counted, ReadsAreAccounted
<1> QED BY <1>2, AlwaysRead, PTL

(***************************************************************************)
(* The contract of the reads.  A step moves each read by a step of the     *)
(* contract: Moves says what an action of a read makes of its place, token *)
(* by token, and every action of the transport only moves reads so.        *)
(***************************************************************************)

stage == [r \in Reads |-> IF status[r] \in Final \cup {"new"} THEN status[r] ELSE "open"]
seen == [r \in Reads |-> Range(shown[r])]

\* What may become of a read in one step.
Moves(r) ==
  \/ status'[r] = status[r] /\ shown'[r] = shown[r]
  \/ status[r] \in Open /\ status'[r] \in Open /\ shown'[r] = shown[r]
  \/ status[r] \in Open \cap Fresh /\ status'[r] = "sent" /\ shown'[r] = <<1>>
  \/ status[r] = "sent" /\ status'[r] = "done" /\ shown'[r] = shown[r]
  \/ status[r] = "building" /\ status'[r] = "failed" /\ shown'[r] = shown[r]
  \/ /\ status[r] = "new" /\ status'[r] \in {"building", "refused"} /\ shown'[r] = shown[r]
     /\ ~cancelled
  \/ /\ status[r] = "unsent" /\ status'[r] = "done" /\ shown'[r] = <<1>>
     /\ ~cancelled
  \/ /\ status[r] = "lost" /\ status'[r] = "done" /\ ~cancelled
     /\ \/ shown[r] = <<>> /\ shown'[r] = <<2>>
        \/ shown[r] = <<1>> /\ shown'[r] = Append(<<1>>, 2)
  \/ status[r] \in Open /\ status'[r] = "aborted" /\ shown'[r] = shown[r] /\ cancelled'

\* The ranges of what a read presents.
LEMMA Ranges ==
  /\ Range(<<>>) = {} /\ Range(<<1>>) = {1} /\ Range(<<2>>) = {2}
  /\ Range(Append(<<1>>, 2)) = {1, 2}
<1> DEFINE two == Append(<<1>>, 2)
<1>1. DOMAIN two = {1, 2} /\ two[1] = 1 /\ two[2] = 2
  OBVIOUS
<1> HIDE DEF two
<1>2. Range(two) = {1, 2}
  BY <1>1 DEF Range
<1>3. Range(<<>>) = {} /\ Range(<<1>>) = {1} /\ Range(<<2>>) = {2}
  BY DEF Range
<1> QED BY <1>2, <1>3 DEF two

\* A move is a step of the contract.
LEMMA MovesKeepContract ==
  ASSUME Counted, Counted', cancelled => cancelled', \A r \in Reads : Moves(r)
  PROVE  Contract!ContractNext
<1>1. /\ stage' \in [Reads -> Contract!Ends \cup {"new", "open"}]
      /\ \A r \in Reads : stage'[r] = IF status'[r] \in Final \cup {"new"} THEN status'[r]
                                      ELSE "open"
      /\ \A r \in Reads : stage[r] = IF status[r] \in Final \cup {"new"} THEN status[r]
                                     ELSE "open"
  BY DEF stage, Contract!Ends, Final
<1>2. seen' \in [Reads -> SUBSET {1, 2}]
  <2>1. \A r \in Reads : Range(shown'[r]) \subseteq {1, 2}
    BY DEF Counted, ReadTypeOK, Range
  <2> QED BY <2>1 DEF seen
<1>3. cancelled' \in {cancelled, TRUE}
  BY DEF Counted, ReadTypeOK
<1>4. \A r \in Reads : seen[r] = Range(shown[r]) /\ seen'[r] = Range(shown'[r])
  BY DEF seen
<1>5. ASSUME NEW r \in Reads
      PROVE  \/ Contract!Rest(r) \/ Contract!Admit(r) \/ Contract!Refuse(r) \/ Contract!Fail(r)
             \/ Contract!Present(r) \/ Contract!Answer(r) \/ Contract!FallBack(r)
             \/ Contract!Abort(r)
  <2> USE <1>1, <1>4 DEF Final, Open, Contract!Become, stage, seen
  <2>0. /\ status[r] \in Fresh => seen[r] = {}
        /\ status[r] = "sent" => seen[r] = {1}
    BY Ranges DEF Counted, Tokens
  <2>1. CASE \/ status'[r] = status[r] /\ shown'[r] = shown[r]
             \/ status[r] \in Open /\ status'[r] \in Open /\ shown'[r] = shown[r]
    <3>1. Contract!Rest(r)
      BY <2>1 DEF Contract!Rest, Contract!AskNothing
    <3> QED BY <3>1
  <2>2. CASE status[r] \in Open \cap Fresh /\ status'[r] = "sent" /\ shown'[r] = <<1>>
    <3>1. Contract!Ask(r, 1)
      BY <2>0, <2>2, Ranges DEF Contract!Ask
    <3>2. Contract!Present(r)
      BY <2>0, <2>2, <3>1 DEF Contract!Present
    <3> QED BY <3>2
  <2>3. CASE status[r] = "sent" /\ status'[r] = "done" /\ shown'[r] = shown[r]
    <3>1. Contract!Answer(r)
      BY <2>0, <2>3 DEF Contract!Answer, Contract!AskNothing
    <3> QED BY <3>1
  <2>4. CASE status[r] = "building" /\ status'[r] = "failed" /\ shown'[r] = shown[r]
    <3>1. Contract!Fail(r)
      BY <2>0, <2>4 DEF Contract!Fail, Contract!AskNothing, Fresh
    <3> QED BY <3>1
  <2>5. CASE /\ status[r] = "new" /\ status'[r] \in {"building", "refused"}
             /\ shown'[r] = shown[r] /\ ~cancelled
    <3>1. Contract!Admit(r) \/ Contract!Refuse(r)
      BY <2>5 DEF Contract!Admit, Contract!Refuse, Contract!AskNothing
    <3> QED BY <3>1
  <2>6. CASE /\ status'[r] = "done" /\ ~cancelled
             /\ \/ status[r] = "unsent" /\ shown'[r] = <<1>>
                \/ status[r] = "lost" /\ shown[r] = <<>> /\ shown'[r] = <<2>>
                \/ status[r] = "lost" /\ shown[r] = <<1>> /\ shown'[r] = Append(<<1>>, 2)
    <3>1. Contract!Ask(r, 1) \/ Contract!Ask(r, 2)
      <4>1. CASE status[r] = "unsent" /\ shown'[r] = <<1>>
        <5>1. seen[r] = {} /\ seen'[r] = {1}
          BY <2>0, <4>1, Ranges DEF Fresh
        <5> QED BY <5>1 DEF Contract!Ask
      <4>2. CASE shown[r] = <<>> /\ shown'[r] = <<2>>
        <5>1. seen[r] = {} /\ seen'[r] = {2}
          BY <4>2, Ranges
        <5> QED BY <5>1 DEF Contract!Ask
      <4>3. CASE shown[r] = <<1>> /\ shown'[r] = Append(<<1>>, 2)
        <5>1. seen[r] = {1} /\ seen'[r] = {1, 2}
          BY <4>3, Ranges
        <5> QED BY <5>1 DEF Contract!Ask
      <4> QED BY <2>6, <4>1, <4>2, <4>3
    <3>2. Contract!FallBack(r)
      BY <2>6, <3>1 DEF Contract!FallBack
    <3> QED BY <3>2
  <2>7. CASE /\ status[r] \in Open /\ status'[r] = "aborted"
             /\ shown'[r] = shown[r] /\ cancelled'
    <3>1. Contract!Abort(r)
      BY <2>7 DEF Contract!Abort, Contract!AskNothing
    <3> QED BY <3>1
  <2> QED BY <2>1, <2>2, <2>3, <2>4, <2>5, <2>6, <2>7 DEF Moves
<1> QED BY <1>1, <1>2, <1>3, <1>5 DEF Contract!ContractNext, stage, seen

\* Reads that become s, all others staying what they are.
LEMMA BecomingMoves ==
  ASSUME NEW S \in SUBSET Reads, NEW s, Becomes(S, s), UNCHANGED shown,
         \A r \in S : status[r] \in Open /\ (s \in Open \/ (s = "aborted" /\ cancelled'))
  PROVE  \A r \in Reads : Moves(r)
<1>1. \A r \in Reads : status'[r] = IF r \in S THEN s ELSE status[r]
  BY DEF Becomes
<1> QED BY <1>1 DEF Moves

\* close moves the reads it is the end of, the queued ones and those that ride.
LEMMA ClosingMoves ==
  ASSUME Counted, NEW S \in SUBSET Reads, NEW s, NEW E, NEW c, Closing(S, s, E, c),
         UNCHANGED shown,
         \A r \in S : status[r] \in Open /\ (s \in Open \/ (s = "aborted" /\ cancelled'))
  PROVE  \A r \in Reads : Moves(r)
<1>1. \A r \in Reads : status'[r] = IF r \in S THEN s ELSE Unserved(r)
  BY DEF Closing
<1>2. \A r \in queue \cup Riding : status[r] \in Open
  BY RidersWereSent DEF Counted, Accounted, Open, ReadTypeOK
<1>3. \A r \in Reads : \/ Unserved(r) = status[r]
                       \/ status[r] \in Open /\ Unserved(r) \in Open
  BY <1>2 DEF Unserved, Open
<1> QED BY <1>1, <1>3 DEF Moves

\* A frame that goes out.
LEMMA TransmitMoves ==
  ASSUME Counted, NEW S \in SUBSET Reads, NEW c, Transmit(S, c),
         \A r \in S : status[r] \in Open \cap Fresh
  PROVE  \A r \in Reads : Moves(r)
<1>1. \A r \in Reads : /\ status'[r] = IF r \in S THEN "sent" ELSE status[r]
                       /\ shown'[r] = IF r \in S THEN Append(shown[r], token[r]) ELSE shown[r]
  BY DEF Transmit, Becomes
<1>2. \A r \in S : token[r] = 1 /\ shown[r] = <<>>
  BY DEF Counted, Tokens
<1>3. Append(<<>>, 1) = <<1>>
  OBVIOUS
<1>4. \A r \in S : shown'[r] = <<1>>
  BY <1>1, <1>2, <1>3
<1> QED BY <1>1, <1>4 DEF Moves

\* A frame with the reads S, sent, rejected or waiting for a new socket.
LEMMA DispatchMoves ==
  ASSUME Counted, NEW S \in SUBSET Reads, \A r \in S : status[r] \in {"building", "queued"},
         Dispatch(S)
  PROVE  \A r \in Reads : Moves(r)
<1>1. \A r \in S : status[r] \in Open \cap Fresh
  BY DEF Open, Fresh
<1>2. CASE Transmit(S, current)
  BY <1>1, <1>2, TransmitMoves
<1>3. CASE Closing(S, "unsent", {}, None) /\ UNCHANGED shown
  BY <1>1, <1>3, ClosingMoves DEF Open
<1>4. CASE Reconnect(S) /\ UNCHANGED shown
  <2>1. PICK c \in Conns : Closing(S, "connecting", {}, c)
    BY <1>4 DEF Reconnect
  <2> QED BY <1>1, <1>4, <2>1, ClosingMoves DEF Open
<1>5. CASE FenceLost(S)
  BY <1>1, <1>5, ClosingMoves DEF FenceLost, Open
<1> QED BY <1>2, <1>3, <1>4, <1>5 DEF Dispatch

LEMMA SessionMoves ==
  ASSUME Counted,
         \/ \E S \in SUBSET Unread : StartFrame(S)
         \/ TimerFires \/ EndFrame \/ AbortReads \/ EndSession
  PROVE  (cancelled => cancelled') /\ \A r \in Reads : Moves(r)
<1>1. ASSUME NEW S \in SUBSET Unread, StartFrame(S)
      PROVE  cancelled' = cancelled /\ \A r \in Reads : Moves(r)
  <2>1. /\ ~cancelled /\ cancelled' = cancelled /\ shown' = shown
        /\ Becomes(S, "refused") \/ Becomes(S, "building")
        /\ S \in SUBSET Reads /\ \A r \in S : status[r] = "new"
    BY <1>1 DEF StartFrame, Unread
  <2>2. ASSUME NEW s \in {"refused", "building"}, Becomes(S, s)
        PROVE  \A r \in Reads : Moves(r)
    <3>1. \A r \in Reads : status'[r] = IF r \in S THEN s ELSE status[r]
      BY <2>2 DEF Becomes
    <3> QED BY <2>1, <3>1 DEF Moves
  <2> QED BY <2>1, <2>2
<1>2. CASE TimerFires
  <2>1. Becomes(queue, "unsent") /\ UNCHANGED <<shown, cancelled>>
    BY <1>2 DEF TimerFires
  <2>2. queue \in SUBSET Reads /\ \A r \in queue : status[r] = "queued"
    BY DEF Counted, ReadTypeOK, Accounted
  <2> QED BY <2>1, <2>2, BecomingMoves DEF Open
<1>3. CASE EndFrame
  BY <1>3 DEF EndFrame, readVars, Moves
<1>4. CASE AbortReads
  <2> DEFINE busy == {c \in Conns : load[c] # {}}
             S == UNION {load[c] : c \in busy}
  <2>1. /\ cancelled' = TRUE /\ UNCHANGED shown
        /\ UNCHANGED status \/ Closing(S, "aborted", busy, None)
    BY <1>4 DEF AbortReads
  <2>2. S \in SUBSET Reads /\ \A r \in S : status[r] \in {"sent", "connecting"}
    BY DEF Counted, ReadTypeOK, Accounted
  <2>3. CASE UNCHANGED status
    BY <2>1, <2>3 DEF Moves
  <2> HIDE DEF S, busy
  <2>4. CASE Closing(S, "aborted", busy, None)
    BY <2>1, <2>2, <2>4, ClosingMoves DEF Open
  <2> QED BY <2>1, <2>3, <2>4
<1>5. CASE EndSession
  BY <1>5, ClosingMoves DEF EndSession
<1> QED BY <1>1, <1>2, <1>3, <1>4, <1>5

LEMMA ProceedMoves ==
  ASSUME Counted, NEW r \in Reads, Proceed(r)
  PROVE  cancelled' = cancelled /\ \A q \in Reads : Moves(q)
<1>1. CASE FailLocally(r)
  <2>1. \A q \in Reads : status'[q] = IF q \in {r} THEN "failed" ELSE status[q]
    BY <1>1 DEF FailLocally, Becomes
  <2> QED BY <1>1, <2>1 DEF FailLocally, Moves
<1>2. CASE Invoke(r)
  <2>1. status[r] = "building" /\ cancelled' = cancelled
    BY <1>2 DEF Invoke
  <2>2. CASE (Becomes({r}, "queued") \/ Becomes({r}, "unsent")) /\ UNCHANGED shown
    BY <2>1, <2>2, BecomingMoves DEF Open
  <2>3. queue \cup {r} \in SUBSET Reads /\ \A q \in queue \cup {r} : status[q] \in {"building", "queued"}
    BY <2>1 DEF Counted, ReadTypeOK, Accounted
  <2>4. CASE Dispatch(queue \cup {r}) \/ Dispatch({r})
    BY <2>1, <2>3, <2>4, DispatchMoves
  <2> QED BY <1>2, <2>1, <2>2, <2>4 DEF Invoke
<1>3. CASE Fallback(r)
  <2>1. status[r] \in {"unsent", "lost"} /\ cancelled' = cancelled
    BY <1>3 DEF Fallback
  <2>2. CASE cancelled /\ Becomes({r}, "aborted") /\ UNCHANGED shown
    BY <2>1, <2>2, BecomingMoves DEF Open
  <2>3. CASE ~cancelled /\ SpawnRead(r)
    <3> DEFINE t == IF status[r] = "lost" THEN token[r] + 1 ELSE token[r]
    <3>1. \A q \in Reads :
            /\ status'[q] = IF q \in {r} THEN "done" ELSE status[q]
            /\ shown'[q] = IF q = r THEN Append(shown[r], t) ELSE shown[q]
      BY <2>3 DEF SpawnRead, Becomes, Counted, ReadTypeOK
    <3>2. \/ status[r] = "unsent" /\ t = 1 /\ shown[r] = <<>>
          \/ status[r] = "lost" /\ t = 2 /\ shown[r] \in {<<>>, <<1>>}
      BY <2>1 DEF Counted, Tokens, Fresh
    <3>3. Append(<<>>, 1) = <<1>> /\ Append(<<>>, 2) = <<2>>
      OBVIOUS
    <3> HIDE DEF t
    <3>4. \/ status[r] = "unsent" /\ shown'[r] = <<1>>
          \/ status[r] = "lost" /\ shown[r] = <<>> /\ shown'[r] = <<2>>
          \/ status[r] = "lost" /\ shown[r] = <<1>> /\ shown'[r] = Append(<<1>>, 2)
      BY <3>1, <3>2, <3>3
    <3> QED BY <2>1, <2>3, <3>1, <3>4 DEF Moves
  <2> QED BY <1>3, <2>1, <2>2, <2>3 DEF Fallback
<1> QED BY <1>1, <1>2, <1>3 DEF Proceed, Build

LEMMA OutcomeMoves ==
  ASSUME Counted, NEW c \in Conns, Outcome(c)
  PROVE  cancelled' = cancelled /\ \A r \in Reads : Moves(r)
<1>1. load[c] \in SUBSET Reads
      /\ \A r \in load[c] : status[r] = IF conn[c] = "open" THEN "sent" ELSE "connecting"
  BY DEF Counted, ReadTypeOK, Accounted
<1>2. CASE Connected(c)
  <2>1. \A r \in load[c] : status[r] \in Open \cap Fresh
    BY <1>1, <1>2 DEF Connected, Open, Fresh
  <2> QED BY <1>1, <1>2, <2>1, TransmitMoves DEF Connected
<1>3. CASE ConnectFails(c)
  BY <1>1, <1>3, ClosingMoves DEF ConnectFails, Open
<1>4. CASE Break(c)
  <2>1. PICK E \in {{}, {c}} : Closing(load[c], "lost", E, None)
    BY <1>4 DEF Break
  <2> QED BY <1>1, <1>4, <2>1, ClosingMoves DEF Break, Open
<1>5. CASE Idle(c)
  BY <1>5 DEF Idle, readVars, Moves
<1>6. ASSUME NEW r \in Reads, AnswerRead(r, c)
      PROVE  cancelled' = cancelled /\ \A q \in Reads : Moves(q)
  <2>1. \A q \in Reads : status'[q] = IF q \in {r} THEN "done" ELSE status[q]
    BY <1>6 DEF AnswerRead, Becomes
  <2>2. status[r] = "sent" /\ UNCHANGED <<shown, cancelled>>
    BY <1>1, <1>6 DEF AnswerRead
  <2> QED BY <2>1, <2>2 DEF Moves
<1>7. CASE ConnectErrs(c)
  BY <1>1, <1>7, ClosingMoves DEF ConnectErrs, Open
<1>8. CASE ConnectedLate(c)
  <2>1. UNCHANGED <<shown, cancelled>>
    BY <1>8 DEF ConnectedLate
  <2>2. \A r \in Reads : \/ status'[r] = status[r]
                         \/ status[r] \in Open /\ status'[r] \in Open
    BY <1>1, <1>8 DEF ConnectedLate, Counted, Accounted, Open
  <2> QED BY <2>1, <2>2 DEF Moves
<1> QED BY <1>2, <1>3, <1>4, <1>5, <1>6, <1>7, <1>8 DEF Outcome

\* However sockets, batches, retries, fallbacks and the signal interleave, the
\* reads keep their contract (client.ts:348-424, persistent-read-client.ts).
THEOREM ReadsKeepContract == ReadSpec => ContractKept
<1>1. ReadInit => Contract!ContractInit
  <2> SUFFICES ASSUME ReadInit PROVE Contract!ContractInit
    OBVIOUS
  <2>1. stage = [r \in Reads |-> "new"]
    BY DEF ReadInit, stage
  <2>2. seen = [r \in Reads |-> {}]
    BY Ranges DEF ReadInit, seen
  <2> QED BY <2>1, <2>2 DEF ReadInit, Contract!ContractInit, stage, seen
<1>2. Counted /\ Counted' /\ [ReadNext]_transportVars
        => [Contract!ContractNext]_(Contract!contractVars)
  <2>1. ASSUME Counted, Counted', Act PROVE Contract!ContractNext
    <3>1. (cancelled => cancelled') /\ \A r \in Reads : Moves(r)
      BY <2>1, SessionMoves, ProceedMoves, OutcomeMoves DEF Act
    <3> QED BY <2>1, <3>1, MovesKeepContract
  <2>2. UNCHANGED transportVars => UNCHANGED Contract!contractVars
    BY DEF transportVars, codeVars, readVars, Contract!contractVars
  <2> QED BY <2>1, <2>2 DEF ReadNext
<1>3. ReadInv => Counted
  BY DEF ReadInv
<1> QED BY <1>1, <1>2, <1>3, AlwaysRead, PTL DEF ReadSpec, ContractKept, Contract!ContractSpec

\* A read that has an answer was presented to the Runtime, one that was refused
\* or failed locally was not.
AskedForItsResult ==
  \A r \in Reads : /\ status[r] = "done" => shown[r] # <<>>
                   /\ status[r] \in {"failed", "refused"} => shown[r] = <<>>

\* A promise settles once: neither a late answer nor a socket that ends after it
\* changes the result of a read.
ResultsAreFinal ==
  [][\A r \in Reads : status[r] \in Final => status'[r] = status[r]]_transportVars

\* Both follow from the contract.
THEOREM ReadsEndOnce == ReadSpec => []AskedForItsResult /\ ResultsAreFinal
<1> DEFINE Inv == /\ stage \in [Reads -> Contract!Ends \cup {"new", "open"}]
                  /\ seen \in [Reads -> SUBSET {1, 2}]
                  /\ \A r \in Reads : /\ stage[r] = "done" => seen[r] # {}
                                      /\ stage[r] \in {"new", "failed", "refused"} => seen[r] = {}
<1>1. Contract!ContractInit => Inv
  BY DEF Contract!ContractInit, stage, seen
<1>2. Inv /\ [Contract!ContractNext]_(Contract!contractVars) => Inv'
  <2> SUFFICES ASSUME Inv, [Contract!ContractNext]_(Contract!contractVars) PROVE Inv'
    OBVIOUS
  <2>1. CASE UNCHANGED Contract!contractVars
    BY <2>1 DEF Contract!contractVars, stage, seen
  <2>2. CASE Contract!ContractNext
    <3>1. /\ stage' \in [Reads -> Contract!Ends \cup {"new", "open"}]
          /\ seen' \in [Reads -> SUBSET {1, 2}]
      BY <2>2 DEF Contract!ContractNext, stage, seen
    <3>2. ASSUME NEW r \in Reads
          PROVE  /\ stage'[r] = "done" => seen'[r] # {}
                 /\ stage'[r] \in {"new", "failed", "refused"} => seen'[r] = {}
      <4>1. \/ Contract!Rest(r) \/ Contract!Admit(r) \/ Contract!Refuse(r) \/ Contract!Fail(r)
            \/ Contract!Present(r) \/ Contract!Answer(r) \/ Contract!FallBack(r)
            \/ Contract!Abort(r)
        BY <2>2 DEF Contract!ContractNext
      <4> HIDE DEF Inv
      <4>2. /\ stage[r] = "done" => seen[r] # {}
            /\ stage[r] \in {"new", "failed", "refused"} => seen[r] = {}
        BY DEF Inv
      <4> QED
        BY <4>1, <4>2 DEF Contract!Rest, Contract!Admit, Contract!Refuse, Contract!Fail,
          Contract!Present, Contract!Answer, Contract!FallBack, Contract!Abort, Contract!Become,
          Contract!Ask, Contract!AskNothing, stage, seen
    <3> QED BY <3>1, <3>2
  <2> QED BY <2>1, <2>2
<1>3. [Contract!ContractNext]_(Contract!contractVars)
        => \A r \in Reads : stage[r] \in Final => stage'[r] = stage[r]
  BY DEF Contract!ContractNext, Contract!contractVars, Contract!Rest, Contract!Admit,
    Contract!Refuse, Contract!Fail, Contract!Present, Contract!Answer, Contract!FallBack,
    Contract!Abort, Contract!Become, stage, seen, Final
<1>4. (\A r \in Reads : stage[r] \in Final => stage'[r] = stage[r])
        => [\A r \in Reads : status[r] \in Final => status'[r] = status[r]]_transportVars
  BY DEF stage, Final
<1>5. Inv /\ ReadTypeOK => AskedForItsResult
  <2> SUFFICES ASSUME Inv, ReadTypeOK, NEW r \in Reads
               PROVE  /\ status[r] = "done" => shown[r] # <<>>
                      /\ status[r] \in {"failed", "refused"} => shown[r] = <<>>
    BY DEF AskedForItsResult
  <2>1. CASE status[r] = "done"
    BY <2>1, Ranges DEF stage, seen, Final
  <2>2. CASE status[r] \in {"failed", "refused"}
    <3>1. Range(shown[r]) = {}
      BY <2>2 DEF stage, seen, Final
    <3>2. shown[r] \in Seq({1, 2})
      BY DEF ReadTypeOK
    <3>3. 1 \notin DOMAIN shown[r]
      BY <3>1 DEF Range
    <3> QED BY <2>2, <3>2, <3>3
  <2> QED BY <2>1, <2>2
<1> QED BY <1>1, <1>2, <1>3, <1>4, <1>5, ReadsKeepContract, ReadTypeCorrect, PTL
  DEF ContractKept, Contract!ContractSpec, ResultsAreFinal

(***************************************************************************)
(* Side by side (SessionsSpec).                                            *)
(***************************************************************************)

\* What MCSessions explores are behaviours of the four specifications, so that
\* every theorem about one of them holds there too.
THEOREM SessionsImplementParts ==
  SessionsSpec => Spec /\ ReadSpec /\ TransportSpec /\ ShellSpec
<1> DEFINE SomePart == \/ OnlySession /\ Next
                       \/ OnlyReads /\ ReadNext
                       \/ OnlyTransport /\ TransportNext
                       \/ OnlyShell /\ ShellNext
<1>1. SessionsInit => Init /\ ReadInit /\ TransportInit /\ ShellInit
  BY DEF SessionsInit
<1>2. [SomePart]_sessionsVars
        => [Next]_vars /\ [ReadNext]_transportVars /\ [TransportNext]_transportState
           /\ [ShellNext]_shellVars
  BY DEF sessionsVars, OnlySession, OnlyReads, OnlyTransport, OnlyShell
<1>3. SessionsSpec <=> SessionsInit /\ [][SomePart]_sessionsVars
  BY DEF SessionsSpec
<1> HIDE DEF SomePart
<1> QED BY <1>1, <1>2, <1>3, PTL DEF Spec, ReadSpec, TransportSpec, ShellSpec

\* The variables of all four keep their types.
THEOREM SessionsTypeCorrect == SessionsSpec => []SessionsTypeOK
<1>1. TypeOK /\ ReadTypeOK /\ TransportTypeOK /\ ShellTypeOK => SessionsTypeOK
  BY DEF SessionsTypeOK
<1> QED BY <1>1, SessionsImplementParts, SessionTypeCorrect, ReadTypeCorrect,
           TransportTypeCorrect, ShellTypeCorrect, PTL

=============================================================================
