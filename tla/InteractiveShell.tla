-------------------------- MODULE InteractiveShell --------------------------
(***************************************************************************)
(* The interactive shell of src/src/interactive-shell.ts: one readline     *)
(* interface serves the prompt and the questions of the command that runs, *)
(* one waiter at a time, next to Ctrl+C, the end of the input and signals. *)
(*                                                                         *)
(* readline reports the lines and keys of one chunk of input one after the *)
(* other, before the code that awaits the first of them goes on.           *)
(***************************************************************************)
EXTENDS Naturals, Sequences

CONSTANTS
  MaxLines,       \* bound on the lines typed
  MaxInterrupts,  \* bound on the times Ctrl+C is pressed
  Nothing

ASSUME ShellAssumption == MaxLines \in Nat

VARIABLES
  loop,     \* where runInteractiveShellV1 is
  events,   \* queued interrupts, each with the command it was typed at, and where
  waiter,   \* what waits for a line: the prompt or a question
  handed,   \* what the waiter was resolved with, not yet looked at
  active,   \* activeCommand is set and not aborted
  stopped,  \* the signal of the command is aborted
  closed,   \* didClose
  number,   \* history: commands run so far
  history,  \* the lines readline keeps, each with where it was typed
  told,     \* history: how the last command ended, and what was said of it
  lines, interrupts

shellVars == <<loop, events, waiter, handed, active, stopped, closed, number, history,
               told, lines, interrupts>>

\* What a line holds: nothing, no tokens or unsafe ones, exit, operon alone,
\* a command with --input -, or a command, which history may keep or not.
Lines == {"blank", "unsafe", "exit", "empty", "stdin", "safe", "private"}

ShellInit ==
  /\ loop = "starting"
  /\ events = <<>> /\ waiter = Nothing /\ handed = Nothing
  /\ active = FALSE /\ stopped = FALSE /\ closed = FALSE
  /\ number = 0 /\ history = {} /\ told = Nothing
  /\ lines = 0 /\ interrupts = 0

(***************************************************************************)
(* ProcessInteractiveShellSessionV1                                        *)
(***************************************************************************)

\* Where a line that is typed now comes to.
Place == IF waiter # Nothing THEN waiter ELSE "busy"

\* shouldRetainShellHistoryV1
Retained(line) == line = "safe"

\* filterHistory; readline adds a line to its history before it reports it.
Kept(line) == Retained(line) /\ waiter # "question"

\* A line goes to the waiter, one that nobody waits for is dropped.
Emit(line) ==
  /\ IF waiter = Nothing THEN UNCHANGED <<waiter, handed>>
     ELSE handed' = [kind |-> line, from |-> waiter] /\ waiter' = Nothing
  /\ UNCHANGED events

TypeLine ==
  /\ ~closed /\ lines < MaxLines /\ lines' = lines + 1
  /\ \E line \in Lines :
       /\ history' = IF Kept(line) THEN history \cup {[line |-> line, at |-> Place]}
                                   ELSE history
       /\ Emit(line)
  /\ UNCHANGED <<loop, active, stopped, closed, number, told, interrupts>>

\* The command that is running, or whose line has been typed.
Typing == IF handed # Nothing /\ handed.kind \in {"safe", "private"} /\ loop = "reading"
            THEN number + 1 ELSE number

\* handleSigint
Interrupt ==
  /\ ~closed /\ interrupts < MaxInterrupts /\ interrupts' = interrupts + 1
  /\ \/ /\ waiter # Nothing
        /\ handed' = [kind |-> "interrupt", from |-> waiter] /\ waiter' = Nothing
        /\ UNCHANGED <<events, active, stopped>>
     \/ /\ waiter = Nothing /\ active
        /\ active' = FALSE /\ stopped' = TRUE
        /\ UNCHANGED <<events, waiter, handed>>
     \/ /\ waiter = Nothing /\ ~active
        /\ events' = Append(events, [kind |-> "interrupt", at |-> Typing, from |-> "busy"])
        /\ UNCHANGED <<waiter, handed, active, stopped>>
  /\ UNCHANGED <<loop, closed, number, history, told, lines>>

\* Ctrl+D or the end of the input (handleClose), or SIGTERM (close): the
\* command is aborted, the waiter gets the end of the input.
CloseSession ==
  /\ ~closed /\ closed' = TRUE
  /\ stopped' = (stopped \/ active) /\ active' = FALSE
  /\ handed' = IF waiter = Nothing THEN handed ELSE [kind |-> "eof", from |-> waiter]
  /\ waiter' = Nothing
  /\ UNCHANGED <<loop, events, number, history, told, lines, interrupts>>

\* Mutant of ReadLine: only questions look at what is queued.
ReadPromptAtOnce(reader) ==
  /\ IF closed
       THEN handed' = [kind |-> "eof", from |-> reader] /\ UNCHANGED <<events, waiter>>
     ELSE IF events # <<>> /\ reader = "question"
       THEN /\ handed' = [kind |-> Head(events).kind, from |-> Head(events).from]
            /\ events' = Tail(events) /\ UNCHANGED waiter
     ELSE waiter' = reader /\ UNCHANGED <<events, handed>>
  /\ UNCHANGED <<active, stopped, closed, number, history, told, lines, interrupts>>

\* read: readCommand for the prompt, guidedPort.ask for a question.
ReadLine(reader) ==
  /\ IF closed
       THEN handed' = [kind |-> "eof", from |-> reader] /\ UNCHANGED <<events, waiter>>
     ELSE IF events # <<>>
       THEN /\ handed' = [kind |-> Head(events).kind, from |-> Head(events).from]
            /\ events' = Tail(events) /\ UNCHANGED waiter
     ELSE waiter' = reader /\ UNCHANGED <<events, handed>>
  /\ UNCHANGED <<active, stopped, closed, number, history, told, lines, interrupts>>

(***************************************************************************)
(* runInteractiveShellV1                                                   *)
(***************************************************************************)

\* The update check is over (module UpdateCheck), the greeting is written.
Greet ==
  /\ loop = "starting" /\ loop' = "top"
  /\ UNCHANGED <<events, waiter, handed, active, stopped, closed, number, history, told,
                 lines, interrupts>>

\* The loop is left; its finally block closes the session.
Leave ==
  /\ loop' = "ended" /\ closed' = TRUE /\ handed' = Nothing
  /\ UNCHANGED <<events, waiter, active, stopped, number, history, told, lines, interrupts>>

ReadCommand ==
  /\ loop = "top"
  /\ IF closed THEN Leave ELSE ReadLine("prompt") /\ loop' = "reading"

\* What the prompt got: the loop ends, goes round, or runs a command.
Obey ==
  /\ loop = "reading" /\ handed # Nothing
  /\ \/ handed.kind \in {"eof", "exit"} /\ Leave
     \/ /\ handed.kind \in {"interrupt", "blank", "unsafe", "empty", "stdin"}
        /\ loop' = "top" /\ handed' = Nothing
        /\ UNCHANGED <<events, waiter, active, stopped, closed, number, history, told,
                       lines, interrupts>>
     \/ /\ handed.kind \in {"safe", "private"}
        /\ loop' = "running" /\ handed' = Nothing
        /\ active' = TRUE /\ stopped' = FALSE /\ number' = number + 1 /\ told' = Nothing
        /\ UNCHANGED <<events, waiter, closed, history, lines, interrupts>>

\* The command asks its user something.
AskUser ==
  /\ loop = "running" /\ ReadLine("question") /\ loop' = "asking"

\* It gets a line, or null for anything else.
GetAnswer ==
  /\ loop = "asking" /\ handed # Nothing
  /\ loop' = "running" /\ handed' = Nothing
  /\ UNCHANGED <<events, waiter, active, stopped, closed, number, history, told, lines,
                 interrupts>>

\* A command's outcome: an envelope of the Runtime with the planRef of a
\* stored plan, one of the CLI itself that asks for the recovery of a plan, any
\* other one, or none when the command throws; unsure if its apply may have
\* reached the Runtime.
CommandOutcomes == {[kind |-> "plan", unsure |-> FALSE], [kind |-> "plan", unsure |-> TRUE],
             [kind |-> "recovery", unsure |-> TRUE], [kind |-> "other", unsure |-> FALSE],
             [kind |-> "thrown", unsure |-> FALSE]}

\* hasRecoveryPlan
Shown(outcome) == ~stopped \/ outcome.kind = "plan"

\* The command ends; its outcome is written, that it was cancelled, or that it
\* failed unexpectedly.
EndCommand ==
  /\ loop = "running"
  /\ \E outcome \in CommandOutcomes :
       told' = [outcome |-> outcome, aborted |-> stopped,
                text |-> IF outcome.kind = "thrown" THEN "failure"
                         ELSE IF Shown(outcome) THEN "outcome" ELSE "cancelled"]
  /\ loop' = "top" /\ active' = FALSE
  /\ UNCHANGED <<events, waiter, handed, stopped, closed, number, history, lines,
                 interrupts>>

ShellNext ==
  \/ TypeLine \/ Interrupt \/ CloseSession
  \/ Greet \/ ReadCommand \/ Obey \/ AskUser \/ GetAnswer \/ EndCommand

ShellGoesOn == Greet \/ ReadCommand \/ Obey \/ GetAnswer

ShellSpec == ShellInit /\ [][ShellNext]_shellVars

\* The loop goes on, and a command that gets no more answers ends (CommandSettles
\* of Transport); the user owes nothing.
FairShellSpec == ShellSpec /\ WF_shellVars(ShellGoesOn) /\ SF_shellVars(EndCommand)

(***************************************************************************)
(* Properties                                                              *)
(***************************************************************************)

\* The variables keep their types.
ShellTypeOK ==
  /\ loop \in {"starting", "top", "reading", "running", "asking", "ended"}
  /\ events \in Seq([kind : Lines \cup {"interrupt"}, at : 0 .. MaxLines, from : {"busy"}])
  /\ waiter \in {Nothing, "prompt", "question"}
  /\ handed = Nothing
     \/ handed \in [kind : Lines \cup {"interrupt", "eof"},
                    from : {"prompt", "question", "busy"}]
  /\ {active, stopped, closed} \subseteq BOOLEAN
  /\ waiter # Nothing => handed = Nothing /\ loop \in {"reading", "asking"}
  /\ active => loop \in {"running", "asking"} /\ ~stopped

\* Only the interrupts of a command that are typed after its line can be taken
\* for the answer to one of its questions: one that was pressed again while an
\* earlier command was winding down never refuses a later one's confirmation.
InterruptsAreForTheirCommand ==
  loop \in {"running", "asking"} => \A i \in DOMAIN events : events[i].at = number

\* A line that was typed while nobody asked for it, or as an answer, is never
\* run as a command, and one typed before a question is not its answer.
LinesReachTheirPrompt ==
  handed # Nothing /\ handed.kind \in Lines =>
    handed.from = IF loop = "reading" THEN "prompt" ELSE "question"

\* What a user answers to a question is not kept in the history, although
\* readline files it before the question is told.
AnswersAreForgotten == \A h \in history : h.at # "question"

\* What is typed reaches the one it was typed for, and nobody after that.
InputReachesItsReader ==
  InterruptsAreForTheirCommand /\ LinesReachTheirPrompt /\ AnswersAreForgotten

\* "If apply may have reached Runtime, the CLI [...] reports outcome-unknown,
\* and returns the same planRef" (README.md:110-111), in the shell too.
RecoveryIsSaid == told # Nothing /\ told.outcome.unsure => told.text = "outcome"

\* A shell that is closed ends, whatever it was waiting for.
CloseEnds == closed ~> loop = "ended"
=============================================================================
