----------------------------- MODULE PlanApply -----------------------------
(***************************************************************************)
(* plan apply and plan recover: runPlanApply of src/src/command-line.ts    *)
(* with executeCliV1 of src/src/client.ts, over the stored plans of        *)
(* PlanStore.                                                              *)
(*                                                                         *)
(* A command binds an apply request to the plan, publishes the request as  *)
(* a one-shot request file and starts the Obsidian CLI, which makes the    *)
(* Runtime (outside this repository) consume the file and execute it.  A   *)
(* command that gets no valid answer removes its request file: when the    *)
(* file was still there the Runtime has not seen it and never will.        *)
(***************************************************************************)
EXTENDS PlanStore

VARIABLES
  cmd,       \* "apply" or "recover", while such a command runs
  stage,     \* where runPlanApply is, or how it has ended
  file,      \* the plan and request in each process's request file
  reply,     \* the mutation result a command has received
  running,   \* executions in the Runtime, with the process that awaits each
  consumed,  \* history: the requests the Runtime has consumed, by plan
  applied,   \* the plans whose mutation has taken effect in the vault
  settled,   \* history: plans with a final answer recorded by a command
  waived     \* history: plans whose evidence was abandoned or outlived

applyVars == <<cmd, stage, file, reply, running, consumed, applied, settled, waived>>
allVars == <<vars, applyVars>>

\* How a command ends: exit 0; 5 with a final "failed"; 5 with the planRef to
\* recover; 130 or a transport code after a restore; any other failure.
Ends == {"success", "failed", "recovery", "retry", "error"}
Results == {"applied", "uncertain", "failed"}

ApplyInit ==
  /\ Init
  /\ cmd = [p \in Procs |-> "none"]
  /\ stage = [p \in Procs |-> "none"]
  /\ file = [p \in Procs |-> None]
  /\ reply = [p \in Procs |-> None]
  /\ running = {}
  /\ consumed = [q \in Plans |-> {}]
  /\ applied = {}
  /\ settled = {}
  /\ waived = {}

In(p, s) == Ready(p) /\ stage[p] = s
Enter(p, s) == stage' = [stage EXCEPT ![p] = s]

(***************************************************************************)
(* runPlanApply up to the dispatch                                         *)
(***************************************************************************)

Start(p, q, name) ==
  /\ CallLoad(p, q, IF name = "recover" THEN "readAll" ELSE "read")
  /\ cmd' = [cmd EXCEPT ![p] = name]
  /\ Enter(p, "reading")
  /\ UNCHANGED <<file, reply, running, consumed, applied, settled, waived>>

\* The plan cannot be read, is evidence already (apply), or has no request to
\* recover (recover).
Refuse(p) ==
  /\ In(p, "reading")
  /\ \/ ret[p] # "ok" /\ Enter(p, IF ret[p] = "recovery" THEN "recovery" ELSE "error")
     \/ /\ ret[p] = "ok" /\ cmd[p] = "apply" /\ Protected(rec[p])
        /\ Enter(p, "recovery")
     \/ /\ ret[p] = "ok" /\ cmd[p] = "recover" /\ req[p] = None
        /\ Enter(p, "error")
  /\ UNCHANGED <<vars, cmd, file, reply, running, consumed, applied, settled, waived>>

\* A capability is missing or the user does not confirm.
Decline(p) ==
  /\ In(p, "reading") /\ ret[p] = "ok"
  /\ cmd[p] = "apply" => ~Protected(rec[p])
  /\ Enter(p, "error")
  /\ UNCHANGED <<vars, cmd, file, reply, running, consumed, applied, settled, waived>>

Mark(p) ==
  /\ In(p, "reading") /\ ret[p] = "ok" /\ cmd[p] = "apply"
  /\ ~Protected(rec[p])
  /\ CallMark(p)
  /\ Enter(p, "marking")
  /\ UNCHANGED <<cmd, file, reply, running, consumed, applied, settled, waived>>

\* Mutant of Bound: recover does not require a stored request.
BoundUnchecked(p) ==
  \/ In(p, "marking") /\ ret[p] = "ok"
  \/ In(p, "reading") /\ ret[p] = "ok" /\ cmd[p] = "recover"

Bound(p) ==
  \/ In(p, "marking") /\ ret[p] = "ok"
  \/ In(p, "reading") /\ ret[p] = "ok" /\ cmd[p] = "recover" /\ req[p] # None

\* Mutant of MarkFails: every failure to bind is reported as recoverable.
MarkFailsRecoverable(p) ==
  /\ In(p, "marking") /\ ret[p] # "ok"
  /\ Enter(p, "recovery")
  /\ UNCHANGED <<vars, cmd, file, reply, running, consumed, applied, settled, waived>>

MarkFails(p) ==
  /\ In(p, "marking") /\ ret[p] # "ok"
  /\ Enter(p, "error")
  /\ UNCHANGED <<vars, cmd, file, reply, running, consumed, applied, settled, waived>>

(***************************************************************************)
(* Dispatch                                                                *)
(***************************************************************************)

\* writeSecureInvocationV1 publishes the file, then the Obsidian CLI is
\* spawned with its token.
Send(p) ==
  /\ Bound(p)
  /\ file' = [file EXCEPT ![p] = <<plan[p], req[p]>>]
  /\ Enter(p, "sent")
  /\ UNCHANGED <<vars, cmd, reply, running, consumed, applied, settled, waived>>

\* Mutants of Unanswered: every failed apply takes its binding back; a failed
\* recover takes it back too.
UnansweredRestoring(p, notStarted) ==
  IF cmd[p] = "apply"
    THEN CallRestore(p) /\ Enter(p, "restoring")
    ELSE Enter(p, "recovery") /\ UNCHANGED vars
UnansweredRecover(p, notStarted) ==
  IF notStarted
    THEN CallRestore(p) /\ Enter(p, "restoring")
    ELSE Enter(p, "recovery") /\ UNCHANGED vars

\* Where a command without a valid answer goes: only an apply whose request
\* certainly was not consumed takes its binding back.
Unanswered(p, notStarted) ==
  IF notStarted /\ cmd[p] = "apply"
    THEN CallRestore(p) /\ Enter(p, "restoring")
    ELSE Enter(p, "recovery") /\ UNCHANGED vars

\* Before the file is published: executeCliV1 fails with the evidence
\* "not-started", or runRuntimeCommand fails around it with no evidence.
FailBeforeSend(p) ==
  /\ Bound(p)
  /\ \E notStarted \in BOOLEAN : Unanswered(p, notStarted)
  /\ UNCHANGED <<cmd, file, reply, running, consumed, applied, settled, waived>>

\* Mutant of NotStarted: no answer counts as no start, whatever became of the
\* request file.
NotStartedAssumed(p) == TRUE

\* mutationDispatchMayHaveStartedV1: a request file still in place was never
\* consumed.
NotStarted(p) == file[p] # None

\* The executions whose answer p no longer waits for.
Unawaited(p) ==
  running' = {<<IF j[1] = p THEN None ELSE j[1], j[2]>> : j \in running}

\* Deadline, abort, overflow, transport failure or an inadmissible response:
\* the file is unlinked.
NoAnswer(p) ==
  /\ In(p, "sent")
  /\ Unanswered(p, NotStarted(p))
  /\ file' = [file EXCEPT ![p] = None]
  /\ Unawaited(p)
  /\ UNCHANGED <<cmd, reply, consumed, applied, settled, waived>>

(***************************************************************************)
(* The Runtime                                                             *)
(***************************************************************************)

\* A request file is consumed once, also when its publisher has died.
Consume(p) ==
  /\ file[p] # None
  /\ LET q == file[p][1] IN
       /\ consumed' = [consumed EXCEPT ![q] = @ \cup {file[p][2]}]
       /\ running' = running \cup {<<IF plan[p] = q THEN p ELSE None, q>>}
  /\ file' = [file EXCEPT ![p] = None]
  /\ UNCHANGED <<vars, cmd, stage, reply, applied, settled, waived>>

\* The idempotency key of the plan makes its mutation take effect at most
\* once; "failed" promises that it has not and that nothing else is about to.
Execute(j, result) ==
  /\ j \in running
  /\ running' = running \ {j}
  /\ LET q == j[2] IN
     CASE result = "applied" -> applied' = applied \cup {q}
       [] result = "uncertain" -> applied' \in {applied, applied \cup {q}}
       [] result = "failed" -> /\ q \notin applied
                               /\ \A k \in running \ {j} : k[2] # q
                               /\ UNCHANGED applied
  /\ IF j[1] = None THEN UNCHANGED <<stage, reply>>
     ELSE Enter(j[1], "answered") /\ reply' = [reply EXCEPT ![j[1]] = result]
  /\ UNCHANGED <<vars, cmd, file, consumed, settled, waived>>

(***************************************************************************)
(* runPlanApply after the dispatch                                         *)
(***************************************************************************)

\* The outcome is recorded; when that fails the command ends as recovery.
RecordReply(p) ==
  /\ In(p, "answered")
  /\ RecordOutcome(p, reply[p])
  /\ Enter(p, CASE ret'[p] # "ok" \/ reply[p] = "uncertain" -> "recovery"
                [] ret'[p] = "ok" /\ reply[p] = "applied" -> "success"
                [] ret'[p] = "ok" /\ reply[p] = "failed" -> "failed")
  /\ settled' = IF reply[p] = "uncertain" THEN settled ELSE settled \cup {plan[p]}
  /\ UNCHANGED <<cmd, file, reply, running, consumed, applied, waived>>

\* A failed restore is swallowed: the plan remains recovery-only.
Restored(p) ==
  /\ In(p, "restoring")
  /\ Enter(p, IF ret[p] = "ok" THEN "retry" ELSE "recovery")
  /\ UNCHANGED <<vars, cmd, file, reply, running, consumed, applied, settled, waived>>

End(p) ==
  /\ stage[p] \in Ends \cup {"none"}
  /\ EndCommand(p)
  /\ cmd' = [cmd EXCEPT ![p] = "none"]
  /\ Enter(p, "none")
  /\ reply' = [reply EXCEPT ![p] = None]
  /\ UNCHANGED <<file, running, consumed, applied, settled, waived>>

(***************************************************************************)
(* Everything else                                                         *)
(***************************************************************************)

\* The other commands on the store: a mutation preview, a recovery list, plan
\* show, plan discard, and the abandon choice of interactive recovery.
Other(p) ==
  /\ \/ CallStore(p) \/ CallList(p)
     \/ \E q \in used, name \in {"readAll", "discard", "abandon"} : CallLoad(p, q, name)
  /\ UNCHANGED applyVars

\* A step inside a store operation; the history notes evidence that is given
\* up by the user or has lived its 24 hours.
StoreStep(p) ==
  /\ Inside(p)
  /\ waived' = waived \cup
       {q \in Stored : /\ store'[q] = Absent
                       /\ Protected(store[q])
                       /\ op[p] = "abandon" \/ clock >= RecoveryExpiry(store[q])}
  /\ UNCHANGED <<cmd, stage, file, reply, running, consumed, applied, settled>>

\* The request file of a process that dies stays where it is.
Crash(p) ==
  /\ Die(p)
  /\ cmd' = [cmd EXCEPT ![p] = "none"]
  /\ Enter(p, "none")
  /\ reply' = [reply EXCEPT ![p] = None]
  /\ Unawaited(p)
  /\ UNCHANGED <<file, consumed, applied, settled, waived>>

Pass ==
  /\ Tick \/ \E p \in Procs : RecoverLock(p)
  /\ UNCHANGED applyVars

\* The steps of a command that has started, up to its end.
Progress(p) ==
  \/ StoreStep(p) \/ Refuse(p) \/ Decline(p) \/ Mark(p) \/ MarkFails(p)
  \/ Send(p) \/ FailBeforeSend(p) \/ NoAnswer(p) \/ RecordReply(p) \/ Restored(p)

Runtime ==
  \/ \E p \in Procs : Consume(p)
  \/ \E j \in running, result \in Results : Execute(j, result)

ApplyNext ==
  \/ \E p \in Procs :
       \/ \E q \in used, name \in {"apply", "recover"} : Start(p, q, name)
       \/ Progress(p) \/ End(p) \/ Other(p) \/ Crash(p)
  \/ Runtime
  \/ Pass

ApplySpec == ApplyInit /\ [][ApplyNext]_allVars
DisciplinedApplySpec == ApplyInit /\ [][ApplyNext /\ Disciplined]_allVars

\* The Node event loop runs a command on, and its deadline ends the wait for
\* an answer; nothing obliges the Runtime to answer or a user to call.
FairApplySpec ==
  DisciplinedApplySpec /\ \A p \in Procs : WF_allVars(Progress(p))

(***************************************************************************)
(* Properties                                                              *)
(***************************************************************************)

ApplyTypeOK ==
  /\ TypeOK
  /\ cmd \in [Procs -> {"none", "apply", "recover"}]
  /\ stage \in [Procs -> Ends \cup {"none", "reading", "marking", "sent",
                                   "answered", "restoring"}]
  /\ file \in [Procs -> (Plans \X Requests) \cup {None}]
  /\ reply \in [Procs -> Results \cup {None}]
  /\ running \in SUBSET ((Procs \cup {None}) \X Plans)
  /\ consumed \in [Plans -> SUBSET Requests]
  /\ applied \in SUBSET Plans
  /\ settled \in SUBSET Plans
  /\ waived \in SUBSET Plans

\* As long as a request has reached the Runtime and no final answer has been
\* recorded, the store holds that very request as recovery evidence: through
\* crashes, lost answers, restores and sweeps, until the user abandons it or
\* 24 hours are over (README.md:108-119).
EvidenceRetained ==
  \A q \in Plans : consumed[q] # {} /\ q \notin settled \cup waived =>
    store[q] # Absent /\ store[q].request \in consumed[q]

\* At most one apply request of a plan ever reaches the Runtime, however often
\* the plan is applied again after a safe failure and recovered after an
\* uncertain one.
OneRequestPerPlan == \A q \in Plans : Cardinality(consumed[q]) <= 1

\* "Retry the same stored plan" (exit 130, or a transport failure) is said
\* only of a plan the Runtime has never seen and never will see a request of.
RetryIsSafe ==
  \A p \in Procs : stage[p] = "retry" =>
    /\ consumed[plan[p]] = {}
    /\ \A p2 \in Procs : file[p2] # None => file[p2][1] # plan[p]
    /\ store[plan[p]] # Absent => ~Protected(store[plan[p]])

\* "Recover only this stored plan" (exit 5 with its planRef) is said only of
\* a plan that plan recover then finds in the store with a request to replay.
RecoveryIsPossible ==
  \A p \in Procs : stage[p] = "recovery" =>
    plan[p] \in Evidence /\ store[plan[p]].request # None

\* Whatever a command advises its user to do about an uncertain plan is
\* harmless and possible.
AdviceIsTrue == RetryIsSafe /\ RecoveryIsPossible

\* Every command that starts comes to an end, also when the lock's holder has
\* died, when the Runtime never answers and when files vanish under a sweep.
CommandsEnd ==
  \A p \in Procs : stage[p] # "none" ~> stage[p] \in Ends \cup {"none"}

(***************************************************************************)
(* Refinement                                                              *)
(***************************************************************************)

\* A preview has chosen the planRef and not yet written its record.
Reserved(q) == \E p \in Alive : op[p] = "store" /\ plan[p] = q /\ at[p] # "idle"

Phase(q) ==
  IF store[q] = Absent THEN IF q \in used /\ ~Reserved(q) THEN "gone" ELSE "none"
  ELSE IF ~store[q].readable THEN "foreign"
  ELSE IF store[q].outcome = "terminal" THEN "settled"
  ELSE IF Protected(store[q]) THEN "bound" ELSE "prepared"

Ledger == INSTANCE RecoveryLedger WITH
  phase <- [q \in Plans |-> Phase(q)],
  sent <- {q \in Plans : consumed[q] # {}}

\* The store, the commands and the Runtime together keep the ledger's promise:
\* a plan that has reached the Runtime is never again one that may be applied
\* afresh (README.md:108-119).
KeepsLedger == Ledger!LedgerSpec
=============================================================================
