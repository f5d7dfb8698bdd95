----------------------------- MODULE MCSessions -----------------------------
(***************************************************************************)
(* What runs for as long as a session does, side by side: `part' says      *)
(* which of the four modules a behaviour is about, the others stay in one  *)
(* of their initial states.  As the part never changes, one fairness       *)
(* condition speaks of a step of each.                                     *)
(***************************************************************************)
EXTENDS JsonlSession, PersistentRead, Transport, InteractiveShell

VARIABLE part

sessionsVars == <<part, vars, transportVars, transportState, shellVars>>

\* The steps of one read say nothing of the history variable `prompt'.
stepVars == <<part, vars, codeVars, transportState, shellVars>>

Of(name) == part = name /\ UNCHANGED part

OnlySession == Of("session") /\ UNCHANGED <<transportVars, transportState, shellVars>>
OnlyReads == Of("reads") /\ UNCHANGED <<vars, transportState, shellVars>>
OnlyTransport == Of("transport") /\ UNCHANGED <<vars, transportVars, shellVars>>
OnlyShell == Of("shell") /\ UNCHANGED <<vars, transportVars, transportState>>

\* One fixed initial state of Transport for when it is not the part.
TransportRests ==
  /\ platform = "posix" /\ route = "direct"
  /\ options = [command |-> "health", input |-> FALSE, id |-> FALSE, live |-> TRUE]

GoesOn ==
  \/ OnlySession /\ Work
  \/ OnlyReads /\ ReadsGoOn
  \/ OnlyTransport /\ Client
  \/ OnlyShell /\ ShellGoesOn

SessionsInit ==
  /\ part \in {"session", "reads", "transport", "shell"}
  /\ Init /\ ReadInit /\ ShellInit
  /\ TransportInit /\ (part # "transport" => TransportRests)

SessionsSpec ==
  /\ SessionsInit
  /\ [][\/ OnlySession /\ Next
        \/ OnlyReads /\ ReadNext
        \/ OnlyTransport /\ TransportNext
        \/ OnlyShell /\ ShellNext]_sessionsVars

FairSessionsSpec ==
  /\ SessionsSpec
  /\ WF_stepVars(GoesOn)
  /\ WF_stepVars(OnlySession /\ InputEnds /\ aborted)
  /\ SF_stepVars(OnlyShell /\ EndCommand)

\* The variables of the four modules keep their types.
SessionsTypeOK == TypeOK /\ ReadTypeOK /\ TransportTypeOK /\ ShellTypeOK

\* Nothing waits for ever: an aborted session ends although its output is not
\* read, every read gets a result whichever sockets and companions fail, every
\* Runtime command settles whatever Obsidian does, a closed shell ends.
SessionsEnd == AbortEnds /\ ReadsEnd /\ CommandSettles /\ CloseEnds
=============================================================================
