-------------------------- MODULE WindowsBootstrap --------------------------
(***************************************************************************)
(* How commands on Windows find the Runtime's named pipe: connect and      *)
(* bootstrapWindowsPersistentDescriptorV1 of                               *)
(* src/src/persistent-read-client.ts, with the port of src/src/client.ts   *)
(* that asks the Runtime through Obsidian's CLI.                           *)
(*                                                                         *)
(* All commands of a vault share one descriptor file, which names the      *)
(* running server's pipe and secret.  A command that cannot use it asks    *)
(* for a new one, once, and replaces the file, whatever others do          *)
(* meanwhile.  The Runtime is outside this repository; it may restart.     *)
(***************************************************************************)
EXTENDS Naturals

CONSTANTS
  Connectors,   \* commands that connect
  Old,          \* the writer of the file there is at first
  Nowhere,      \* no file, nothing seen, nothing answered
  MaxRestarts, MaxClock,
  MaxAge        \* how far ahead a descriptor may expire (86.7 million ms)

ASSUME BootstrapAssumption ==
  /\ Old \notin Connectors /\ Nowhere \notin Connectors \cup {Old}
  /\ MaxRestarts \in Nat /\ MaxClock \in Nat /\ MaxAge \in Nat \ {0}

VARIABLES
  server,      \* the instance that runs, a number; each has its own pipe and secret
  clock,
  descriptor,  \* the file persistent-read-<vault>.json
  place,        \* where each command is
  asked,       \* it has asked, and when; Nowhere before
  seen,        \* the file lstat has found, by its writer
  answer,      \* the descriptor a command has been given, or has read
  calm         \* history: nothing has disturbed it since it was given one

bootstrapVars == <<server, clock, descriptor, place, asked, seen, answer, calm>>

Ended == {"connected", "refused", "failed"}
Times == 0 .. MaxClock + MaxAge

\* A file is known by its writer, as each writes once; "instance" is Nowhere
\* in one that does not decode.
Descriptors == [instance : 0 .. MaxRestarts, expires : Times]
Files == [writer : Connectors \cup {Old}, instance : (0 .. MaxRestarts) \cup {Nowhere},
          expires : Times, secure : BOOLEAN]
Inside(f) == [instance |-> f.instance, expires |-> f.expires]
ASSUME NowhereAssumption == Nowhere \notin Nat \cup Files \cup Descriptors

BootstrapInit ==
  /\ server = 0 /\ clock = 0
  /\ descriptor \in {Nowhere} \cup
       {f \in Files : f.writer = Old /\ f.instance \in {0, Nowhere} /\ f.expires <= MaxAge}
  /\ place = [p \in Connectors |-> "look"]
  /\ asked = [p \in Connectors |-> Nowhere]
  /\ seen = [p \in Connectors |-> Nowhere]
  /\ answer = [p \in Connectors |-> Nowhere]
  /\ calm = [p \in Connectors |-> FALSE]

Goes(p, s) == place' = [place EXCEPT ![p] = s]

\* connectWindowsPersistentWithBootstrapV1, canBootstrapAfterPersistentFailureV1:
\* a failure that a new descriptor may mend is mended once.
Mend(p) ==
  IF asked[p] = Nowhere
    THEN Goes(p, "ask") /\ asked' = [asked EXCEPT ![p] = clock]
    ELSE Goes(p, "failed") /\ UNCHANGED asked

\* A command reads the file to connect, or again after it has written it; then
\* every failure is PERSISTENT_BOOTSTRAP_SECURITY_FAILED.
Back(p) == place[p] \in {"look-back", "open-back"}
Give(p, mendable) ==
  IF mendable /\ ~Back(p) THEN Mend(p) ELSE Goes(p, "failed") /\ UNCHANGED asked

\* readSecureDescriptor, up to the check of its access list, which runs a
\* process of its own.
Look(p) ==
  /\ place[p] \in {"look", "look-back"}
  /\ IF descriptor = Nowhere THEN Give(p, TRUE) /\ UNCHANGED seen
     ELSE IF ~descriptor.secure THEN Give(p, FALSE) /\ UNCHANGED seen
     ELSE /\ seen' = [seen EXCEPT ![p] = descriptor.writer]
          /\ Goes(p, IF Back(p) THEN "open-back" ELSE "open")
          /\ UNCHANGED asked
  /\ UNCHANGED <<server, clock, descriptor, answer, calm>>

\* isDescriptor
Usable(f, now) == f.instance # Nowhere /\ f.expires > now

\* Mutant of Same: the expiry is compared too.
SameToTheDay(f, d) == f.instance = d.instance /\ f.expires = d.expires

\* What bootstrapWindowsPersistentDescriptorV1 compares.
Same(f, d) == f.instance = d.instance

\* The rest of readSecureDescriptor: the file must be the one lstat has found.
OpenFile(p) ==
  /\ place[p] \in {"open", "open-back"}
  /\ IF descriptor.writer # seen[p] THEN Give(p, FALSE) /\ UNCHANGED answer
     ELSE IF ~Usable(descriptor, clock) THEN Give(p, TRUE) /\ UNCHANGED answer
     ELSE IF Back(p)
       THEN /\ Goes(p, IF Same(descriptor, answer[p]) THEN "look" ELSE "failed")
            /\ UNCHANGED <<asked, answer>>
     ELSE /\ answer' = [answer EXCEPT ![p] = Inside(descriptor)]
          /\ Goes(p, "shake") /\ UNCHANGED asked
  /\ seen' = [seen EXCEPT ![p] = Nowhere]
  /\ UNCHANGED <<server, clock, descriptor, calm>>

\* The pipe is opened and the server acknowledges the hello with its secret,
\* if it is the one that runs.
Shake(p) ==
  /\ place[p] = "shake"
  /\ IF answer[p].instance = server THEN Goes(p, "connected") /\ UNCHANGED asked ELSE Mend(p)
  /\ UNCHANGED <<server, clock, descriptor, seen, answer, calm>>

\* decodeWindowsPersistentBootstrapV1; now is captured before the question.
Admitted(d, now) == d.expires > now /\ d.expires <= now + MaxAge

\* The port runs Obsidian's CLI, which may not start, not end in time, or not
\* know the question.
AskFails(p) ==
  /\ place[p] = "ask"
  /\ Goes(p, "failed")
  /\ UNCHANGED <<server, clock, descriptor, asked, seen, answer, calm>>

\* The Runtime refuses, with one of seven codes, "starting" and "backoff" among
\* them: the command does not wait, it tells its user what to do.
Refuse(p) ==
  /\ place[p] = "ask"
  /\ Goes(p, "refused")
  /\ UNCHANGED <<server, clock, descriptor, asked, seen, answer, calm>>

\* An instance answers with its own descriptor.
Ask(p) ==
  /\ place[p] = "ask"
  /\ \E expires \in Times :
       LET d == [instance |-> server, expires |-> expires] IN
       IF Admitted(d, asked[p])
         THEN /\ answer' = [answer EXCEPT ![p] = d]
              /\ calm' = [calm EXCEPT ![p] = expires > clock]
              /\ Goes(p, "write")
         ELSE Goes(p, "failed") /\ UNCHANGED <<answer, calm>>
  /\ UNCHANGED <<server, clock, descriptor, asked, seen>>

\* writeSecureJsonAtomicV1 replaces the file, or fails.  It disturbs whoever is
\* about to open the file it replaces, and, with a descriptor that is out of
\* date or about to be, everyone who has been given another.
Write(p) ==
  /\ place[p] = "write"
  /\ \/ /\ descriptor' = [writer |-> p, secure |-> TRUE, instance |-> answer[p].instance,
                          expires |-> answer[p].expires]
        /\ calm' = [q \in Connectors |->
             calm[q] /\ seen[q] = Nowhere /\ answer[p].instance = server
               /\ answer[p].expires > clock]
        /\ Goes(p, "look-back")
     \/ /\ calm' = [calm EXCEPT ![p] = FALSE]
        /\ Goes(p, "failed") /\ UNCHANGED descriptor
  /\ UNCHANGED <<server, clock, asked, seen, answer>>

\* Ctrl+C, at any time.
Cancel(p) ==
  /\ place[p] \notin Ended
  /\ Goes(p, "failed") /\ calm' = [calm EXCEPT ![p] = FALSE]
  /\ UNCHANGED <<server, clock, descriptor, asked, seen, answer>>

\* Obsidian, or the plugin, is started again.
Restart ==
  /\ server < MaxRestarts
  /\ server' = server + 1 /\ calm' = [p \in Connectors |-> FALSE]
  /\ UNCHANGED <<clock, descriptor, place, asked, seen, answer>>

Tick ==
  /\ clock < MaxClock
  /\ clock' = clock + 1
  /\ calm' = [p \in Connectors |->
       calm[p] /\ answer[p].expires > clock'
         /\ (descriptor # Nowhere => descriptor.expires > clock')]
  /\ UNCHANGED <<server, descriptor, place, asked, seen, answer>>

BootstrapNext ==
  \/ Restart \/ Tick
  \/ \E p \in Connectors :
       \/ Look(p) \/ OpenFile(p) \/ Shake(p)
       \/ Ask(p) \/ AskFails(p) \/ Refuse(p) \/ Write(p)
       \/ Cancel(p)

BootstrapSpec == BootstrapInit /\ [][BootstrapNext]_bootstrapVars

(***************************************************************************)
(* Properties                                                              *)
(***************************************************************************)

\* The variables keep their types; in particular no descriptor is trusted for
\* longer than MaxAge, and no command is past "ask" without having asked.
BootstrapTypeOK ==
  /\ server \in 0 .. MaxRestarts /\ clock \in 0 .. MaxClock
  /\ descriptor \in Files \cup {Nowhere}
  /\ descriptor # Nowhere => descriptor.expires <= clock + MaxAge
  /\ place \in [Connectors -> Ended \cup {"look", "open", "shake", "ask", "write", "look-back",
                                       "open-back"}]
  /\ asked \in [Connectors -> (0 .. MaxClock) \cup {Nowhere}]
  /\ seen \in [Connectors -> Connectors \cup {Old, Nowhere}]
  /\ answer \in [Connectors -> Descriptors \cup {Nowhere}]
  /\ calm \in [Connectors -> BOOLEAN]
  /\ \A p \in Connectors : place[p] \in {"write", "look-back", "open-back"} => asked[p] # Nowhere

\* Commands that start at the same time each ask, and each replace the file
\* with a descriptor that expires at another time; still, one that has been
\* given a descriptor connects, unless the server restarts, the descriptor
\* expires, another command writes an answer of an earlier server, or one
\* replaces the file between this one's lstat and open
\* (test/unit/windows-persistent-bootstrap.test.ts:209-255).
ColdStartsConnect == \A p \in Connectors : place[p] = "failed" => ~calm[p]
=============================================================================
