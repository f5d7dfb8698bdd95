----------------------------- MODULE Transport ------------------------------
(***************************************************************************)
(* One Runtime command over the request transport: executeCliV1 and        *)
(* runObsidianProcessV1 of src/src/client.ts with the request file of      *)
(* src/src/protocol.ts, or the broker that takes its place on Windows.     *)
(*                                                                         *)
(* The command publishes its request, spawns the Obsidian CLI with the     *)
(* request's token, waits for the process under a deadline, an output      *)
(* limit and the abort signal, finds out whether an apply may have         *)
(* started, and reports an envelope and an exit code.                      *)
(***************************************************************************)
EXTENDS Naturals, FiniteSets

CONSTANTS
  Platforms,  \* a subset of {"posix", "win32", "other"}
  NoValue

ASSUME PlatformAssumption == Platforms \subseteq {"posix", "win32", "other"}

\* What a command reports: a stage of the client's or the Runtime's failures,
\* or an answer, and one of the documented exit codes.
Outcomes == [stage : {"client-input", "transport", "readiness", "vault", "compatibility",
                      "capability", "runtime", "internal", "answer"},
             retryable : BOOLEAN, by : {"client", "runtime"}, exit : {0, 2, 3, 4, 5, 70, 130}]

ASSUME NoValueAssumption ==
  /\ NoValue \notin Outcomes /\ NoValue # 3
  /\ NoValue \notin {"ok", "failed", "misfit", "garbage", "exit"}

VARIABLES
  platform,  \* where the command runs
  options,   \* the parsed options
  request,   \* what the invocation asks the Runtime
  progress,  \* where executeCliV1 is
  route,     \* "direct": spawn; "reads": the persistent transport first; "fallback"
  names,     \* names of the request's inode: "temp", "target"
  ctime,     \* its change time
  identity,  \* fileIdentity, by its change time, once it is captured
  broker,    \* the request's state in the Windows broker
  hasToken,     \* the command has a request token to present
  presented,     \* history: the token was given to the Obsidian CLI
  taken,     \* history: the Runtime has consumed the request
  child,     \* the Obsidian CLI process
  held,      \* descendants of the child keep its output pipes open
  flags,     \* what the process runner has noted: timedOut, overflow, spawnErrorCode
  grace,     \* forcedSettlementTimer is running
  signalled, \* ports.signal is aborted
  output,    \* what the child has printed and how it exited
  failure,   \* the error executeCliV1 has caught
  started,   \* applyDispatched
  undeleted, \* history: removing the request file has failed
  outcome    \* the envelope's stage, retryable, and the exit code

fileState == <<names, ctime, identity, undeleted>>
childState == <<child, held, flags, grace, output>>
transportState == <<platform, options, request, progress, route, fileState, broker, hasToken,
                    presented, taken, childState, signalled, failure, started, outcome>>

Posix == platform = "posix"

(***************************************************************************)
(* Options and requests                                                    *)
(***************************************************************************)

Commands == {"health", "catalog", "timers.read", "task.get", "tasks.query", "mutation.apply"}
Options == [command : Commands, input : BOOLEAN, id : BOOLEAN, live : BOOLEAN]

\* validateInputOptions; live is false for the consistency "best-effort".
Accepted(o) ==
  /\ o.command \in {"health", "catalog", "timers.read"} => ~o.input /\ ~o.id
  /\ o.command = "task.get" => o.input # o.id
  /\ o.command \in {"tasks.query", "mutation.apply"} => o.input
  /\ o.command \notin {"catalog", "timers.read"} /\ ~o.id => o.live

\* The request an invocation carries; one given as input owns its kind.
RequestOf(o) ==
  IF o.input THEN "input"
  ELSE CASE o.command = "catalog" -> "catalog"
         [] o.command = "timers.read" -> "timer-read"
         [] o.command = "task.get" /\ o.id -> "task-get"
         [] OTHER -> NoValue

Apply == options.command = "mutation.apply"

TransportInit ==
  /\ platform \in Platforms
  /\ options \in Options /\ Accepted(options)
  /\ request = NoValue
  /\ progress = "start"
  /\ route \in IF Apply THEN {"direct"} ELSE {"direct", "reads"}
  /\ names = {} /\ ctime = 0 /\ identity = NoValue /\ undeleted = FALSE
  /\ broker = "none" /\ hasToken = FALSE
  /\ presented = FALSE /\ taken = FALSE
  /\ child = "none" /\ held = FALSE /\ flags = {} /\ grace = FALSE /\ output = NoValue
  /\ signalled = FALSE
  /\ failure = NoValue
  /\ started = FALSE
  /\ outcome = NoValue

At(p) == progress = p
Goto(p) == progress' = p
Throw(e) == progress' = "catch" /\ failure' = e

(***************************************************************************)
(* Building the invocation                                                 *)
(***************************************************************************)

\* What stops a command before it has anything to send: the signal, the
\* platform, its input, or (internal) the plan of another client.
BuildErrors == {"input", "internal"}

BuildInvocation ==
  /\ At("start")
  /\ IF signalled THEN Throw("aborted") /\ UNCHANGED request
     ELSE IF platform = "other" THEN Throw("platform") /\ UNCHANGED request
     ELSE \/ \E e \in BuildErrors : Throw(e) /\ UNCHANGED request
          \/ /\ request' = RequestOf(options)
             /\ Goto(IF Posix THEN "root" ELSE "stage")
             /\ UNCHANGED failure
  /\ UNCHANGED <<platform, options, route, fileState, broker, hasToken, presented, taken,
                 childState, signalled, started, outcome>>

(***************************************************************************)
(* The request file: writeSecureInvocationV1, cleanupSecureInvocationV1    *)
(***************************************************************************)

FileStep == UNCHANGED <<platform, options, request, route, broker, childState,
                        signalled, started, outcome>>

\* The root must be a directory of the user with mode 0700, the body within
\* its limit; then the temporary file is created, written and flushed.
Create ==
  /\ At("root")
  /\ \/ /\ names' = {"temp"} /\ ctime' = 1 /\ identity' = NoValue
        /\ hasToken' = FALSE /\ presented' = FALSE /\ taken' = FALSE
        /\ Goto("link") /\ UNCHANGED <<failure, undeleted>>
     \/ /\ \E e \in {"security", "internal"} : Throw(e)
        /\ UNCHANGED <<fileState, hasToken, presented, taken>>
  /\ FileStep

Link ==
  /\ At("link")
  /\ names' = {"temp", "target"} /\ ctime' = ctime + 1
  /\ Goto("unlink")
  /\ UNCHANGED <<identity, undeleted, hasToken, failure, presented, taken>>
  /\ FileStep

UnlinkTemp ==
  /\ At("unlink")
  /\ names' = {"target"} /\ ctime' = ctime + 1
  /\ Goto("verify")
  /\ UNCHANGED <<identity, undeleted, hasToken, failure, presented, taken>>
  /\ FileStep

\* Mutant of Verify: the identity is captured before the temporary name goes.
VerifyEarly ==
  /\ At("verify")
  /\ identity' = ctime - 1
  /\ Goto("close")
  /\ UNCHANGED <<names, ctime, undeleted, hasToken, failure, presented, taken>>
  /\ FileStep

\* The target's owner, mode and inode are the ones written.
Verify ==
  /\ At("verify")
  /\ identity' = ctime
  /\ Goto("close")
  /\ UNCHANGED <<names, ctime, undeleted, hasToken, failure, presented, taken>>
  /\ FileStep

Close ==
  /\ At("close")
  /\ hasToken' = TRUE
  /\ Goto("send")
  /\ UNCHANGED <<fileState, failure, presented, taken>>
  /\ FileStep

\* Removes the target if it is exactly the file that was published, and says
\* whether it was.
Cleaned == "target" \in names /\ identity = ctime
Cleanup == names' = IF Cleaned THEN names \ {"target"} ELSE names

\* A step of the publication fails: the temporary name is to be removed, and the
\* target where its identity is known.  A removal that fails is not reported.
PublishFails ==
  /\ progress \in {"link", "unlink", "verify", "close"}
  /\ LET unwanted == (names \cap {"temp"}) \cup (IF Cleaned THEN {"target"} ELSE {}) IN
     \E left \in SUBSET unwanted :
       /\ names' = (names \ unwanted) \cup left
       /\ undeleted' = (undeleted \/ left # {})
  /\ \E e \in {"security", "internal"} : Throw(e)
  /\ UNCHANGED <<ctime, identity, hasToken, presented, taken>>
  /\ FileStep

(***************************************************************************)
(* The Windows broker                                                      *)
(***************************************************************************)

BrokerErrors == {"broker", "starting"}

\* The broker client is created, if need be after a bootstrap, and stages the
\* invocation.  A lost answer leaves the request staged under a token that
\* nobody knows.
Stage ==
  /\ At("stage")
  /\ \/ /\ broker' = "staged" /\ hasToken' = TRUE /\ presented' = FALSE /\ taken' = FALSE
        /\ Goto("send") /\ UNCHANGED failure
     \/ /\ broker' \in {broker, "staged"}
        /\ \E e \in BrokerErrors : Throw(e)
        /\ UNCHANGED <<hasToken, presented, taken>>
  /\ UNCHANGED <<platform, options, request, route, fileState, childState, signalled,
                 started, outcome>>

(***************************************************************************)
(* The persistent transport of reads comes first where a session has one   *)
(***************************************************************************)

ReadStep == UNCHANGED <<platform, options, request, broker, hasToken, child, held, flags,
                        grace, ctime, identity, signalled, started, outcome>>

\* The server answers; it has consumed the request.
ReadAnswered ==
  /\ At("send") /\ route = "reads" /\ ~signalled
  /\ presented' = TRUE /\ taken' = TRUE
  /\ names' = names \ {"target"}
  /\ output' \in {"ok", "failed", "misfit", "garbage"}
  /\ Goto("settled")
  /\ UNCHANGED <<route, undeleted, failure>>
  /\ ReadStep

\* The transport fails: an aborted command ends, a frame that was not sent
\* leaves its request to the spawned process, one that was sent gets another
\* request published or staged.
ReadFails ==
  /\ At("send") /\ route = "reads"
  /\ \E sent \in BOOLEAN :
       /\ presented' = sent
       /\ IF signalled THEN Throw("aborted") /\ UNCHANGED <<names, undeleted>>
          ELSE /\ IF sent /\ Posix
                    THEN \/ /\ Cleanup /\ UNCHANGED undeleted
                         \/ /\ undeleted' = TRUE /\ UNCHANGED names
                    ELSE UNCHANGED <<names, undeleted>>
               /\ Goto(IF ~sent THEN "send" ELSE IF Posix THEN "root" ELSE "stage")
               /\ UNCHANGED failure
  /\ route' = "fallback"
  /\ UNCHANGED <<taken, output>>
  /\ ReadStep

(***************************************************************************)
(* The Obsidian CLI process: runObsidianProcessV1                          *)
(***************************************************************************)

ChildStep == UNCHANGED <<platform, options, request, route, fileState, broker, hasToken,
                         started, failure, outcome>>

\* The executable cannot be resolved, or is no name at all (a throw), the signal
\* is aborted already, the process cannot be started ("error", then "close"),
\* or it runs.
Spawn ==
  /\ At("send") /\ route # "reads"
  /\ \/ /\ Throw("internal")
        /\ UNCHANGED <<presented, childState>>
     \/ /\ signalled
        /\ flags' = {"spawnError"} /\ Goto("settled")
        /\ UNCHANGED <<presented, child, held, grace, output, failure>>
     \/ /\ ~signalled
        /\ flags' = {"spawnError"} /\ child' = "ended" /\ output' = "exit" /\ Goto("running")
        /\ UNCHANGED <<presented, held, grace, failure>>
     \/ /\ ~signalled
        /\ child' = "runs" /\ presented' = TRUE /\ Goto("running")
        /\ held' \in BOOLEAN
        /\ UNCHANGED <<flags, grace, output, failure>>
  /\ UNCHANGED <<platform, options, request, route, fileState, broker, hasToken, taken,
                 signalled, started, outcome>>

\* What the child can print: a valid answer needs the Runtime.  "misfit" is
\* JSON that is not the answer to this request: no envelope, too long,
\* refused by the decoder, with another request id, or of another plan.
Outputs == IF taken THEN {"ok", "failed", "misfit", "garbage", "exit"}
                    ELSE {"misfit", "garbage", "exit"}

ChildExits ==
  /\ child = "runs"
  /\ child' = "ended"
  /\ output' \in Outputs
  /\ UNCHANGED <<progress, held, flags, grace, presented, taken, signalled>>
  /\ ChildStep

\* The last descendant with the child's output ends.
LetGo ==
  /\ child = "ended" /\ held
  /\ held' = FALSE
  /\ UNCHANGED <<progress, child, flags, grace, output, presented, taken, signalled>>
  /\ UNCHANGED <<platform, options, request, route, fileState, broker, hasToken, started,
                 failure, outcome>>

\* How the code ends a child: SIGKILL or SIGTERM, or taskkill on the tree with
\* a forced settlement after two seconds.
Terminate(sure) ==
  /\ grace' = (grace \/ ~Posix)
  /\ IF sure /\ child = "runs"
       THEN child' = "ended" /\ output' = "exit" ELSE UNCHANGED <<child, output>>

\* The deadline, readinessTimeoutMs plus five seconds.  SIGKILL ends the
\* child; taskkill and its fallback may fail.
Deadline ==
  /\ At("running") /\ "timedOut" \notin flags
  /\ flags' = flags \cup {"timedOut"}
  /\ \E works \in BOOLEAN : (Posix => works) /\ Terminate(works)
  /\ UNCHANGED <<progress, held, presented, taken, signalled>>
  /\ ChildStep

Overflow ==
  /\ At("running") /\ presented /\ "overflow" \notin flags
  /\ flags' = flags \cup {"overflow"}
  /\ \E works \in BOOLEAN : (Posix => works) /\ Terminate(works)
  /\ UNCHANGED <<progress, held, presented, taken, signalled>>
  /\ ChildStep

\* The signal: on POSIX a SIGTERM the child need not obey.
Signal ==
  /\ ~signalled /\ ~At("done")
  /\ signalled' = TRUE
  /\ IF At("running") THEN \E works \in BOOLEAN : Terminate(works)
     ELSE UNCHANGED <<child, grace, output>>
  /\ UNCHANGED <<progress, held, flags, presented, taken>>
  /\ ChildStep

\* "close": the process has ended and its pipes are closed.
ChildCloses ==
  /\ At("running") /\ child = "ended" /\ ~held
  /\ Goto("settled")
  /\ UNCHANGED <<child, held, flags, grace, output, presented, taken, signalled>>
  /\ ChildStep

ForceSettlement ==
  /\ At("running") /\ grace
  /\ flags' = flags \cup {"spawnError"}
  /\ output' = IF output = NoValue THEN "exit" ELSE output
  /\ Goto("settled")
  /\ UNCHANGED <<child, held, grace, presented, taken, signalled>>
  /\ ChildStep

\* The Runtime consumes a request it was shown, as long as it is there; the
\* child may be gone by then.
Consume ==
  /\ presented /\ ~taken
  /\ \/ /\ Posix /\ "target" \in names
        /\ names' = names \ {"target"} /\ UNCHANGED broker
     \/ /\ ~Posix /\ broker = "staged"
        /\ broker' = "consumed" /\ UNCHANGED names
  /\ taken' = TRUE
  /\ UNCHANGED <<platform, options, request, progress, route, ctime, identity, undeleted,
                 hasToken, presented, childState, signalled, failure, started, outcome>>

(***************************************************************************)
(* Did the dispatch start?  mutationDispatchMayHaveStartedV1               *)
(***************************************************************************)

\* Where the question was asked: after the process, or in the catch block.
Asking(from) ==
  \/ At("settled") /\ from = "settled"
  \/ At("catch") /\ from = "catch"
Then(from) == IF from = "settled" THEN "judge" ELSE "report"
Concluded(from, yes) == started' = yes /\ Goto(Then(from))

EvidenceStep == UNCHANGED <<platform, options, request, route, ctime, identity, hasToken,
                            presented, taken, childState, signalled, failure, outcome>>

\* Mutant of AskFile: a file that cannot be removed counts as not consumed.
AskFileHopefully(from) ==
  /\ Asking(from) /\ Apply /\ Posix
  /\ IF ~hasToken THEN Concluded(from, FALSE) /\ UNCHANGED <<names, undeleted>>
     ELSE \/ /\ Cleanup /\ Concluded(from, ~Cleaned)
             /\ UNCHANGED undeleted
          \/ /\ Concluded(from, FALSE) /\ undeleted' = TRUE
             /\ UNCHANGED names
  /\ UNCHANGED broker
  /\ EvidenceStep

\* The published inode still in place was never consumed; it is removed before
\* that is said.  A removal that fails proves nothing.
AskFile(from) ==
  /\ Asking(from) /\ Apply /\ Posix
  /\ IF ~hasToken THEN Concluded(from, FALSE) /\ UNCHANGED <<names, undeleted>>
     ELSE \/ /\ Cleanup /\ Concluded(from, ~Cleaned)
             /\ UNCHANGED undeleted
          \/ /\ Concluded(from, TRUE) /\ undeleted' = TRUE
             /\ UNCHANGED names
  /\ UNCHANGED broker
  /\ EvidenceStep

AskBroker(from) ==
  /\ Asking(from) /\ Apply /\ ~Posix
  /\ \/ /\ ~hasToken /\ Concluded(from, FALSE)
     \/ /\ hasToken /\ Concluded(from, TRUE)  \* no answer, or not staged any more
     \/ /\ hasToken /\ broker = "staged"
        /\ Goto(IF from = "settled" THEN "cancel" ELSE "cancel-caught")
        /\ UNCHANGED started
  /\ UNCHANGED <<names, undeleted, broker>>
  /\ EvidenceStep

\* The broker cancels only what is still staged; its answer may be lost.
Cancel ==
  /\ progress \in {"cancel", "cancel-caught"}
  /\ LET from == IF At("cancel") THEN "settled" ELSE "catch" IN
     \/ /\ broker = "staged" /\ broker' = "cancelled"
        /\ Concluded(from, FALSE)
     \/ /\ broker' \in {broker, IF broker = "staged" THEN "cancelled" ELSE broker}
        /\ Concluded(from, TRUE)
  /\ UNCHANGED <<names, undeleted>>
  /\ EvidenceStep

\* Other commands do not ask.
NotAsked(from) ==
  /\ Asking(from) /\ ~Apply
  /\ Goto(Then(from))
  /\ UNCHANGED <<started, names, undeleted, broker>>
  /\ EvidenceStep

(***************************************************************************)
(* The outcome                                                             *)
(***************************************************************************)

\* exitCodeForEnvelopeV1
ExitOf(stage) ==
  CASE stage = "client-input" -> 2
    [] stage \in {"transport", "readiness"} -> 3
    [] stage \in {"vault", "compatibility", "capability"} -> 4
    [] stage = "runtime" -> 5
    [] stage = "internal" -> 70

RuntimeStages == {"client-input", "transport", "readiness", "vault", "compatibility",
                  "capability", "runtime", "internal"}

\* clientFailure
Failure(stage, retryable, interrupted) ==
  LET uncertain == Apply /\ started IN
  [stage |-> stage, retryable |-> retryable /\ ~uncertain, by |-> "client",
   exit |-> IF interrupted /\ ~uncertain THEN 130
            ELSE IF uncertain THEN 5 ELSE ExitOf(stage)]

\* An envelope of the Runtime, its exit code by exitCodeForEnvelopeV1: a result
\* that is not applied, and an unknown outcome, are runtime failures.
Envelope(stage, exits) ==
  {[stage |-> stage, retryable |-> FALSE, by |-> "runtime", exit |-> x] : x \in exits}

\* The answers of executeCliV1 to a settled process, in the order of its tests.
Judgements ==
  LET retryable == ~Apply \/ ~started IN
  CASE "timedOut" \in flags -> {Failure("readiness", retryable, signalled)}
    [] "timedOut" \notin flags /\ "overflow" \in flags -> {Failure("internal", FALSE, FALSE)}
    [] flags = {"spawnError"} \/ (flags = {} /\ output = "exit")
         -> {Failure("transport", retryable, signalled)}
    [] flags = {} /\ output = "garbage" -> {Failure("transport", retryable, FALSE)}
    [] flags = {} /\ output = "misfit" -> {Failure("internal", FALSE, FALSE)}
    [] flags = {} /\ output = "failed" ->
         UNION {Envelope(stage, {5, ExitOf(stage)}) : stage \in RuntimeStages}
    [] flags = {} /\ output = "ok" -> Envelope("answer", {0, 5})

\* classifyClientExecutionError
Caught(e) ==
  CASE e = "input" -> Failure("client-input", FALSE, signalled)
    [] e = "platform" -> Failure("capability", FALSE, signalled)
    [] e = "aborted" -> Failure("transport", FALSE, TRUE)
    [] e = "starting" -> Failure("readiness", TRUE, signalled)
    [] e \in {"broker", "security"} -> Failure("transport", FALSE, signalled)
    [] e = "internal" -> Failure("internal", FALSE, signalled)

\* The outcome is made, and the finally block removes what is left.
Finish ==
  /\ \/ /\ At("judge") /\ outcome' \in Judgements
     \/ /\ At("report") /\ outcome' = Caught(failure)
  /\ \/ /\ (IF hasToken THEN Cleanup ELSE UNCHANGED names) /\ UNCHANGED undeleted
     \/ /\ hasToken /\ Posix /\ undeleted' = TRUE /\ UNCHANGED names
  /\ Goto("done")
  /\ UNCHANGED <<platform, options, request, route, ctime, identity, broker, hasToken,
                 presented, taken, childState, signalled, failure, started>>

Client ==
  \/ BuildInvocation \/ Create \/ Link \/ UnlinkTemp \/ Verify \/ Close \/ PublishFails \/ Stage
  \/ ReadAnswered \/ ReadFails \/ Spawn \/ ChildCloses \/ Deadline \/ ForceSettlement
  \/ \E from \in {"settled", "catch"} :
       AskFile(from) \/ AskBroker(from) \/ NotAsked(from)
  \/ Cancel \/ Finish

TransportNext == Client \/ ChildExits \/ LetGo \/ Overflow \/ Signal \/ Consume

TransportSpec == TransportInit /\ [][TransportNext]_transportState

\* The event loop runs on, its timers fire, and every step it waits for ends.
FairTransportSpec == TransportSpec /\ WF_transportState(Client)

(***************************************************************************)
(* Properties                                                              *)
(***************************************************************************)

Steps == {"start", "root", "link", "unlink", "verify", "close", "stage", "send", "running",
          "settled", "catch", "cancel", "cancel-caught", "judge", "report", "done"}

\* The variables keep their types; in particular an outcome is one of the
\* documented exit codes and no error falls through the classification.
TransportTypeOK ==
  /\ platform \in Platforms /\ options \in Options
  /\ request \in {NoValue, "input", "catalog", "timer-read", "task-get"}
  /\ progress \in Steps /\ route \in {"direct", "reads", "fallback"}
  /\ names \subseteq {"temp", "target"} /\ ctime \in 0 .. 3 /\ identity \in {NoValue, 3}
  /\ broker \in {"none", "staged", "consumed", "cancelled"}
  /\ {hasToken, presented, taken, held, grace, signalled, started, undeleted} \subseteq BOOLEAN
  /\ child \in {"none", "runs", "ended"} /\ flags \subseteq {"timedOut", "overflow", "spawnError"}
  /\ output \in {NoValue, "ok", "failed", "misfit", "garbage", "exit"}
  /\ failure \in {NoValue, "input", "internal", "aborted", "platform", "security"} \cup BrokerErrors
  /\ outcome \in Outcomes \cup {NoValue} /\ (outcome = NoValue <=> ~At("done"))

\* What is still in the Runtime's reach.
Reachable == presented /\ IF Posix THEN "target" \in names ELSE broker = "staged"

\* An apply that is reported as not started (applyDispatched is false, the
\* stored plan's binding is taken back) was not consumed and never will be,
\* wherever the failure, the deadline or the signal came, and whatever the
\* process it was spawned with still does.
NotStartedIsTrue == At("done") /\ Apply /\ ~started => ~taken /\ ~Reachable

\* An apply that was consumed and of which the client itself makes up the
\* answer is never reported as retryable or interrupted: the user is told to
\* recover the plan (exit code 5).
UncertainIsSaid ==
  At("done") /\ Apply /\ taken /\ outcome.by = "client" =>
    ~outcome.retryable /\ outcome.exit = 5

\* Unless a removal fails, a command leaves no temporary file behind, and its
\* request only where the publication itself failed half-way, under a token
\* that nobody was given.
NothingLeft ==
  At("done") /\ Posix /\ ~undeleted => names \subseteq {"target"} /\ ~Reachable

\* What a command reports of its request is true, and it leaves none behind.
ReportIsTrue == NotStartedIsTrue /\ UncertainIsSaid /\ NothingLeft

\* Every command that has begun settles, whatever Obsidian does with the
\* signals, unless on POSIX a descendant of the killed Obsidian CLI keeps its
\* output open: there only Windows has a forced settlement.
CommandSettles ==
  ~At("start") ~> (At("done") \/ (At("running") /\ held /\ Posix))
=============================================================================
