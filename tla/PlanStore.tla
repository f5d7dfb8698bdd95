----------------------------- MODULE PlanStore -----------------------------
(***************************************************************************)
(* The stored-plan directory of src/src/plan-store.ts: one JSON file per   *)
(* sealed mutation plan, shared by every CLI process of one user.          *)
(*                                                                         *)
(* A record is prepared by a preview, bound to one apply request before    *)
(* that request is dispatched, and given an outcome when the Runtime       *)
(* answers.  A bound record is recovery evidence, kept for Retention.      *)
(*                                                                         *)
(* Files are replaced atomically (temporary file and rename) and removed   *)
(* with unlink, so each file operation is one step; everything between two *)
(* file operations of a process can interleave with the other processes.   *)
(* The dispatch-capacity lock (module DispatchLock) is a set of holders.   *)
(***************************************************************************)
EXTENDS Naturals, FiniteSets

CONSTANTS
  Procs,          \* CLI processes
  Plans,          \* planRefs; each names at most one plan ever
  Absent,         \* no such file; no record in memory
  NoPlan,         \* a process that works on no plan
  None,           \* an optional field that is missing
  Lifetime,       \* how long a prepared plan may be applied (plan.expiresAt)
  Retention,      \* MUTATION_RECOVERY_RETENTION_MS_V1
  Limit,          \* MUTATION_RECOVERY_RECORD_LIMIT_V1
  MaxTime,        \* bound on the clock
  MaxRequests,    \* bound on the apply requests built for one plan
  MaxDeaths       \* bound on the processes that may end early

ASSUME SentinelAssumption ==
  /\ NoPlan \notin Plans
  /\ None \notin Nat
  /\ None \notin {"terminal", "uncertain", "clash"}
ASSUME NumberAssumption ==
  /\ Lifetime \in Nat /\ Retention \in Nat /\ Limit \in Nat
  /\ MaxTime \in Nat /\ MaxRequests \in Nat /\ MaxDeaths \in Nat
\* A directory holds finitely many files, and the recovery window is 24 hours.
ASSUME StoreAssumption == IsFiniteSet(Plans) /\ Retention > 0

VARIABLES
  store,   \* the record under each planRef, or Absent
  used,    \* planRefs handed out so far
  issued,  \* how many request ids have been generated for each plan
  clock,   \* the wall clock
  lock,    \* the processes that hold the dispatch-capacity lock
  dead,    \* the processes that have ended early
  at,      \* where each process is inside a store operation
  op,      \* the store operation it is in, or was in last
  plan,    \* the planRef its command works on
  rec,     \* the record its command holds in memory
  req,     \* the apply request its command holds
  now,     \* the time captured at the start of an operation
  todo,    \* the directory entries a sweep has still to look at
  count,   \* protected records counted so far
  target,  \* the expired record a sweep is about to remove
  seen,    \* what an operation has read in the file it is about to remove
  ret      \* how the last operation returned

storeVars == <<store, used, issued>>
cmdVars == <<plan, rec, req>>
sweepVars == <<now, todo, count, target, seen>>
vars == <<storeVars, clock, lock, dead, at, op, cmdVars, sweepVars, ret>>

(***************************************************************************)
(* Records                                                                 *)
(***************************************************************************)

\* request 0 is one bound by an earlier CLI version; start is
\* recoveryStartedAt, and exact tells whether recoveryExpiresAt is exactly
\* Retention later; outcome is lastOutcome, "terminal" when a terminalResult
\* of that status is there too, "clash" when one of another status is.
Requests == 0 .. MaxRequests
Record ==
  [created: Nat, request: Requests \cup {None}, start: Nat \cup {None},
   exact: BOOLEAN, outcome: {None, "terminal", "uncertain", "clash"},
   readable: BOOLEAN]
ASSUME AbsentAssumption == Absent \notin Record

Fresh(t) ==
  [created |-> t, request |-> None, start |-> None, exact |-> TRUE,
   outcome |-> None, readable |-> TRUE]
\* A record an earlier CLI version bound without a recovery window, and one
\* this version cannot decode but that names an apply request.
Legacy == [Fresh(0) EXCEPT !.request = 0]
Unreadable == [Legacy EXCEPT !.readable = FALSE]

\* What decodeStoredPlan asks of the recovery fields: a window or an outcome
\* only with the apply request it is about, a window of exactly Retention, and
\* no status other than that of the terminal result.
Decodable(r) ==
  /\ r.start # None \/ r.outcome # None => r.request # None
  /\ r.exact
  /\ r.outcome # "clash"

\* Mutant of Writable: what is written is not decoded first.
WritableAlways(r) == TRUE

\* writeStoredPlanV1 decodes a record before it is written.
Writable(r) == Decodable(r)

Protected(r) == r.request # None \/ r.outcome # None
Expiry(r) == r.created + Lifetime
RecoveryExpiry(r) == (IF r.start # None THEN r.start ELSE r.created) + Retention

\* Mutant of Verdict: evidence expires with its plan.
VerdictUnprotected(r, t, allowExpired) ==
  IF r = Absent THEN "missing"
  ELSE IF ~r.readable THEN "isolated"
  ELSE IF ~allowExpired /\ t >= Expiry(r) THEN "expired" ELSE "ok"

\* What readMutationPlanV1 makes of file r at time t.  "expired" goes on to
\* unlink the file and throw PLAN_EXPIRED.
Verdict(r, t, allowExpired) ==
  IF r = Absent THEN "missing"
  ELSE IF ~r.readable THEN "isolated"
  ELSE IF Protected(r)
    THEN IF t >= RecoveryExpiry(r) THEN "expired"
         ELSE IF ~allowExpired /\ t >= Expiry(r) THEN "recovery" ELSE "ok"
    ELSE IF ~allowExpired /\ t >= Expiry(r) THEN "expired" ELSE "ok"

Stored == {q \in Plans : store[q] # Absent}
\* The records that are recovery evidence now.
Evidence ==
  {q \in Stored : Protected(store[q])
                  /\ (store[q].readable => clock < RecoveryExpiry(store[q]))}

Init ==
  /\ store \in [Plans -> {Absent, Fresh(0), Legacy, Unreadable}]
  /\ used = Stored
  /\ issued = [q \in Plans |-> 0]
  /\ clock = 0
  /\ Cardinality(Evidence) <= Limit
  /\ lock = {}
  /\ dead = {}
  /\ at = [p \in Procs |-> "idle"]
  /\ op = [p \in Procs |-> "none"]
  /\ plan = [p \in Procs |-> NoPlan]
  /\ rec = [p \in Procs |-> Absent]
  /\ req = [p \in Procs |-> None]
  /\ now = [p \in Procs |-> 0]
  /\ todo = [p \in Procs |-> {}]
  /\ count = [p \in Procs |-> 0]
  /\ target = [p \in Procs |-> NoPlan]
  /\ seen = [p \in Procs |-> Absent]
  /\ ret = [p \in Procs |-> "none"]

(***************************************************************************)
(* Control                                                                 *)
(***************************************************************************)

Alive == Procs \ dead
At(p, here) == p \in Alive /\ at[p] = here
Goto(p, there) == at' = [at EXCEPT ![p] = there]
Ready(p) == At(p, "idle")

Begin(p, name, there) ==
  /\ Ready(p)
  /\ op' = [op EXCEPT ![p] = name]
  /\ ret' = [ret EXCEPT ![p] = "none"]
  /\ Goto(p, there)

\* An operation returns or throws; a lock holder first releases the lock.
Return(p, result) ==
  /\ ret' = [ret EXCEPT ![p] = result]
  /\ Goto(p, IF p \in lock THEN "unlock" ELSE "idle")

Hold(p, r) == rec' = [rec EXCEPT ![p] = r]
Put(q, r) == store' = [store EXCEPT ![q] = r]
Mine(p) == store[plan[p]]
\* What p has read in a file it will remove, and that it has removed it.
Sight(p, r) == seen' = [seen EXCEPT ![p] = r]
Unsight(p) == seen' = [seen EXCEPT ![p] = Absent]

(***************************************************************************)
(* The dispatch-capacity lock, around mark and restore                     *)
(***************************************************************************)

Lock(p) ==
  /\ At(p, "lock")
  /\ lock = {}
  /\ lock' = lock \cup {p}
  /\ Goto(p, "load")
  /\ UNCHANGED <<storeVars, clock, dead, op, cmdVars, sweepVars, ret>>

\* RECOVERY_STORE_UNAVAILABLE after 5 s.
LockTimeout(p) ==
  /\ At(p, "lock")
  /\ lock # {}
  /\ Return(p, "error")
  /\ UNCHANGED <<storeVars, clock, lock, dead, op, cmdVars, sweepVars>>

Unlock(p) ==
  /\ At(p, "unlock")
  /\ lock' = lock \ {p}
  /\ Goto(p, "idle")
  /\ UNCHANGED <<storeVars, clock, dead, op, cmdVars, sweepVars, ret>>

\* A contender removes the stale lock of a process that has ended.
RecoverLock(p) ==
  /\ p \in lock \cap dead
  /\ lock' = lock \ {p}
  /\ UNCHANGED <<storeVars, clock, dead, at, op, cmdVars, sweepVars, ret>>

(***************************************************************************)
(* Calls                                                                   *)
(***************************************************************************)

\* storeMutationPlanV1: prune first, without the lock.  The random planRef
\* is reserved here.
CallStore(p) ==
  /\ Begin(p, "store", "prune")
  /\ plan[p] = NoPlan
  /\ \E q \in Plans \ used :
       /\ plan' = [plan EXCEPT ![p] = q]
       /\ used' = used \cup {q}
  /\ now' = [now EXCEPT ![p] = clock]
  /\ todo' = [todo EXCEPT ![p] = Stored]
  /\ UNCHANGED <<store, issued, clock, lock, dead, rec, req, count, target, seen>>

\* A command starts on an existing planRef: plan apply reads it strictly
\* ("read"), plan recover and plan show with allowExpired ("readAll").
CallLoad(p, q, name) ==
  /\ Begin(p, name, "load")
  /\ plan[p] = NoPlan
  /\ plan' = [plan EXCEPT ![p] = q]
  /\ UNCHANGED <<storeVars, clock, lock, dead, rec, req, sweepVars>>

\* listRecoverableMutationPlansV1.
CallList(p) ==
  /\ Begin(p, "list", "list")
  /\ plan[p] = NoPlan
  /\ todo' = [todo EXCEPT ![p] = Stored]
  /\ UNCHANGED <<storeVars, clock, lock, dead, cmdVars, now, count, target, seen>>

\* buildMutationApplyRequestV1 with a new request id, then
\* markMutationPlanDispatchedV1: the clock is read before the lock is waited
\* for.
CallMark(p) ==
  /\ Begin(p, "mark", "lock")
  /\ rec[p] # Absent
  /\ rec[p].request = None
  /\ issued[plan[p]] < MaxRequests
  /\ issued' = [issued EXCEPT ![plan[p]] = @ + 1]
  /\ req' = [req EXCEPT ![p] = issued[plan[p]] + 1]
  /\ now' = [now EXCEPT ![p] = clock]
  /\ UNCHANGED <<store, used, clock, lock, dead, plan, rec, todo, count,
                 target, seen>>

CallRestore(p) ==
  /\ Begin(p, "restore", "lock")
  /\ rec[p] # Absent
  /\ rec[p].request # None
  /\ UNCHANGED <<storeVars, clock, lock, dead, cmdVars, sweepVars>>

(***************************************************************************)
(* Reading one record                                                      *)
(***************************************************************************)

LoadTime(p) == IF op[p] = "mark" THEN now[p] ELSE clock
Load(p) == Verdict(Mine(p), LoadTime(p), op[p] # "read")

\* readMutationPlanV1 throws.  A missing plan is nothing to discard.
LoadFails(p) ==
  /\ At(p, "load")
  /\ \/ /\ Load(p) \in {"missing", "isolated"}
        /\ Return(p, IF Load(p) = "missing" /\ op[p] = "discard"
                     THEN "ok" ELSE "error")
        /\ UNCHANGED seen
     \/ Load(p) = "recovery" /\ Return(p, "recovery") /\ UNCHANGED seen
     \/ /\ Load(p) = "expired"
        /\ Goto(p, "evict")
        /\ Sight(p, Mine(p))
        /\ UNCHANGED ret
  /\ UNCHANGED <<storeVars, clock, lock, dead, op, cmdVars, now, todo, count, target>>

\* The unlink in readMutationPlanV1; whatever the file holds by now goes.
Evict(p) ==
  /\ At(p, "evict")
  /\ Put(plan[p], Absent)
  /\ Unsight(p)
  /\ Return(p, IF op[p] = "discard" /\ Mine(p) = Absent THEN "ok" ELSE "error")
  /\ UNCHANGED <<used, issued, clock, lock, dead, op, cmdVars, now, todo, count, target>>

\* The caller takes the bound request, if there is one, at once.
LoadRead(p) ==
  /\ At(p, "load")
  /\ op[p] \in {"read", "readAll"}
  /\ Load(p) = "ok"
  /\ Hold(p, Mine(p))
  /\ req' = [req EXCEPT ![p] = Mine(p).request]
  /\ Return(p, "ok")
  /\ UNCHANGED <<storeVars, clock, lock, dead, op, plan, sweepVars>>

\* discardMutationPlanV1 refuses evidence, abandonRecoverableMutationPlanV1
\* removes nothing else.
LoadRemove(p) ==
  /\ At(p, "load")
  /\ op[p] \in {"discard", "abandon"}
  /\ Load(p) = "ok"
  /\ \/ /\ Protected(Mine(p)) = (op[p] = "abandon")
        /\ Goto(p, "remove")
        /\ Sight(p, Mine(p))
        /\ UNCHANGED ret
     \/ /\ Protected(Mine(p)) # (op[p] = "abandon")
        /\ Return(p, IF op[p] = "discard" THEN "recovery" ELSE "error")
        /\ UNCHANGED seen
  /\ UNCHANGED <<storeVars, clock, lock, dead, op, cmdVars, now, todo, count, target>>

\* Mutant of Adopted: the caller keeps the request it built itself.
AdoptedOwn(p) == req[p]

Bindable(r) == r.request = None
Adopted(p) == Mine(p).request

\* Under the lock: adopt an earlier binding, refuse an expired plan, or go on
\* to prune and count.
LoadMark(p) ==
  /\ At(p, "load")
  /\ op[p] = "mark"
  /\ Load(p) = "ok"
  /\ \/ /\ ~Bindable(Mine(p))
        /\ Return(p, "ok")
        /\ Hold(p, Mine(p))
        /\ req' = [req EXCEPT ![p] = Adopted(p)]
        /\ UNCHANGED <<todo, seen>>
     \/ /\ Bindable(Mine(p))
        /\ now[p] >= Expiry(Mine(p))
        /\ Goto(p, "remove")
        /\ Sight(p, Mine(p))
        /\ UNCHANGED <<ret, rec, req, todo>>
     \/ /\ Bindable(Mine(p))
        /\ now[p] < Expiry(Mine(p))
        /\ Hold(p, Mine(p))
        /\ todo' = [todo EXCEPT ![p] = Stored]
        /\ Goto(p, "prune")
        /\ UNCHANGED <<ret, req, seen>>
  /\ UNCHANGED <<storeVars, clock, lock, dead, op, plan, now, count, target>>

\* Under the lock: only the very request, and only without an outcome.
LoadRestore(p) ==
  /\ At(p, "load")
  /\ op[p] = "restore"
  /\ Load(p) = "ok"
  /\ \/ /\ Mine(p).outcome = None
        /\ Mine(p).request = req[p]
        /\ Hold(p, Mine(p))
        /\ Goto(p, "write")
        /\ UNCHANGED ret
     \/ /\ Mine(p).outcome # None \/ Mine(p).request # req[p]
        /\ Return(p, "error")
        /\ UNCHANGED rec
  /\ UNCHANGED <<storeVars, clock, lock, dead, op, plan, req, sweepVars>>

\* removeMutationPlanFile.
Remove(p) ==
  /\ At(p, "remove")
  /\ Put(plan[p], Absent)
  /\ Unsight(p)
  /\ Return(p, IF op[p] = "mark" THEN "error" ELSE "ok")
  /\ UNCHANGED <<used, issued, clock, lock, dead, op, cmdVars, now, todo, count, target>>

(***************************************************************************)
(* Sweeping the directory: prune, count, list                              *)
(***************************************************************************)

Sweeps == {"prune", "count", "list"}
SweepTime(p) == IF at[p] = "list" THEN clock ELSE now[p]
Sees(p, q) == Verdict(store[q], SweepTime(p), at[p] # "prune")

\* One directory entry is read.  A file that has gone since readdir makes the
\* whole operation fail; records that cannot be decoded are passed over, and
\* counted when they may be evidence.
SweepRead(p) ==
  /\ p \in Alive
  /\ at[p] \in Sweeps
  /\ \E q \in todo[p] :
       \/ /\ Sees(p, q) = "missing"
          /\ Return(p, "error")
          /\ todo' = [todo EXCEPT ![p] = {}]
          /\ count' = [count EXCEPT ![p] = 0]
          /\ UNCHANGED <<target, seen>>
       \/ /\ Sees(p, q) = "expired"
          /\ target' = [target EXCEPT ![p] = q]
          /\ Sight(p, store[q])
          /\ Goto(p, IF at[p] = "prune" THEN "pruneEvict"
                     ELSE IF at[p] = "count" THEN "countEvict" ELSE "listEvict")
          /\ UNCHANGED <<todo, count, ret>>
       \/ /\ Sees(p, q) \in {"ok", "recovery", "isolated"}
          /\ todo' = [todo EXCEPT ![p] = @ \ {q}]
          /\ count' = [count EXCEPT ![p] =
               IF at[p] = "count" /\ Protected(store[q]) THEN @ + 1 ELSE @]
          /\ UNCHANGED <<at, target, seen, ret>>
  /\ UNCHANGED <<storeVars, clock, lock, dead, op, cmdVars, now>>

\* The unlink that follows; a file already gone makes the operation fail.
SweepEvict(p) ==
  /\ p \in Alive
  /\ at[p] \in {"pruneEvict", "countEvict", "listEvict"}
  /\ target' = [target EXCEPT ![p] = NoPlan]
  /\ Unsight(p)
  /\ \/ /\ store[target[p]] = Absent
        /\ Return(p, "error")
        /\ todo' = [todo EXCEPT ![p] = {}]
        /\ count' = [count EXCEPT ![p] = 0]
        /\ UNCHANGED store
     \/ /\ store[target[p]] # Absent
        /\ Put(target[p], Absent)
        /\ todo' = [todo EXCEPT ![p] = @ \ {target[p]}]
        /\ Goto(p, IF at[p] = "pruneEvict" THEN "prune"
                   ELSE IF at[p] = "countEvict" THEN "count" ELSE "list")
        /\ UNCHANGED <<count, ret>>
  /\ UNCHANGED <<used, issued, clock, lock, dead, op, cmdVars, now>>

\* Mutant of Full: one record too many.
FullOffByOne(p) == count[p] > Limit

Full(p) == count[p] >= Limit

\* Prune is followed by the write of the new record, or by the count of the
\* other plans' evidence; 256 records of evidence refuse the dispatch.
SweepDone(p) ==
  /\ p \in Alive
  /\ at[p] \in Sweeps
  /\ todo[p] = {}
  /\ \/ at[p] = "list" /\ Return(p, "ok") /\ UNCHANGED todo
     \/ at[p] = "prune" /\ op[p] = "store" /\ Goto(p, "write")
        /\ UNCHANGED <<todo, ret>>
     \/ at[p] = "prune" /\ op[p] = "mark" /\ Goto(p, "count")
        /\ todo' = [todo EXCEPT ![p] = Stored \ {plan[p]}] /\ UNCHANGED ret
     \/ at[p] = "count" /\ Full(p) /\ Return(p, "error")
        /\ UNCHANGED todo
     \/ at[p] = "count" /\ ~Full(p) /\ Goto(p, "write")
        /\ UNCHANGED <<todo, ret>>
  /\ count' = [count EXCEPT ![p] = 0]
  /\ UNCHANGED <<storeVars, clock, lock, dead, op, cmdVars, now, target, seen>>

(***************************************************************************)
(* Writing                                                                 *)
(***************************************************************************)

\* Mutant of Written: the restore forgets the recovery window.
WrittenKeepingWindow(p) ==
  CASE op[p] = "store" -> Fresh(clock)
    [] op[p] = "mark" -> [rec[p] EXCEPT !.request = req[p], !.start = now[p]]
    [] op[p] = "restore" -> [rec[p] EXCEPT !.request = None]

\* What store, mark and restore write.
Written(p) ==
  CASE op[p] = "store" -> Fresh(clock)
    [] op[p] = "mark" -> [rec[p] EXCEPT !.request = req[p], !.start = now[p]]
    [] op[p] = "restore" -> [rec[p] EXCEPT !.request = None, !.start = None]

\* The decoder never has to refuse what mark and restore write (RecordsDecode);
\* a new record is written without it.
Write(p) ==
  /\ At(p, "write")
  /\ op[p] # "store" => Writable(Written(p))
  /\ Put(plan[p], Written(p))
  /\ Hold(p, Written(p))
  /\ Return(p, "ok")
  /\ UNCHANGED <<used, issued, clock, lock, dead, op, plan, req, sweepVars>>

\* Mutants of Outcome: the status is recorded as it came; one that comes late
\* takes the terminal result away.
OutcomeRaw(p, result) == [rec[p] EXCEPT !.request = req[p], !.outcome = result]
OutcomeOver(p, result) ==
  [rec[p] EXCEPT !.request = req[p],
                 !.start = IF @ = None THEN clock ELSE @,
                 !.outcome = IF result = "applied" THEN "terminal" ELSE "uncertain"]

\* recordMutationOutcomeV1 starts from the record in memory: "applied" leaves
\* a tombstone, "uncertain" evidence, which next to the terminal result of a
\* tombstone is a clash.
Outcome(p, result) ==
  [rec[p] EXCEPT
    !.request = req[p],
    !.start = IF @ = None THEN clock ELSE @,
    !.outcome = CASE result = "applied" -> "terminal"
                  [] result # "applied" /\ @ \in {"terminal", "clash"} -> "clash"
                  [] result # "applied" /\ @ \notin {"terminal", "clash"} -> "uncertain"]

\* The records it may come to: a window that "uncertain" adds to a record has
\* its ends read from the clock one after the other.
Attempts(p, result) ==
  {Outcome(p, result)} \cup
  {[Outcome(p, result) EXCEPT !.exact = FALSE] : r \in
     {r \in {rec[p]} : result = "uncertain" /\ r.start = None}}

\* recordMutationOutcomeV1, without the lock: what the decoder refuses is not
\* written.  "failed" leaves nothing.
RecordOutcome(p, result) ==
  /\ Ready(p)
  /\ rec[p] # Absent
  /\ req[p] # None
  /\ op' = [op EXCEPT ![p] = "record"]
  /\ \/ /\ result = "failed"
        /\ Put(plan[p], Absent)
        /\ Return(p, "ok")
        /\ UNCHANGED rec
     \/ /\ result # "failed"
        /\ \E r \in Attempts(p, result) :
             \/ Writable(r) /\ Put(plan[p], r) /\ Hold(p, r) /\ Return(p, "ok")
             \/ ~Writable(r) /\ Return(p, "error") /\ UNCHANGED <<store, rec>>
  /\ UNCHANGED <<used, issued, clock, lock, dead, plan, req, sweepVars>>

(***************************************************************************)
(* Commands end, processes end, time passes                                *)
(***************************************************************************)

Forget(p) ==
  /\ plan' = [plan EXCEPT ![p] = NoPlan]
  /\ rec' = [rec EXCEPT ![p] = Absent]
  /\ req' = [req EXCEPT ![p] = None]

\* The locals of an operation go out of scope with its command.
EndCommand(p) ==
  /\ Ready(p)
  /\ op[p] # "none"
  /\ op' = [op EXCEPT ![p] = "none"]
  /\ ret' = [ret EXCEPT ![p] = "none"]
  /\ now' = [now EXCEPT ![p] = 0]
  /\ Forget(p)
  /\ UNCHANGED <<storeVars, clock, lock, dead, at, todo, count, target, seen>>

\* A process dies between any two file operations; a lock it holds stays.
Die(p) ==
  /\ p \in Alive
  /\ Cardinality(dead) < MaxDeaths
  /\ dead' = dead \cup {p}
  /\ Goto(p, "idle")
  /\ op' = [op EXCEPT ![p] = "none"]
  /\ ret' = [ret EXCEPT ![p] = "none"]
  /\ now' = [now EXCEPT ![p] = 0]
  /\ todo' = [todo EXCEPT ![p] = {}]
  /\ count' = [count EXCEPT ![p] = 0]
  /\ target' = [target EXCEPT ![p] = NoPlan]
  /\ Unsight(p)
  /\ Forget(p)
  /\ UNCHANGED <<storeVars, clock, lock>>

Tick ==
  /\ clock < MaxTime
  /\ clock' = clock + 1
  /\ UNCHANGED <<storeVars, lock, dead, at, op, cmdVars, sweepVars, ret>>

\* The steps inside operations that have been called.
Inside(p) ==
  \/ Lock(p) \/ LockTimeout(p) \/ Unlock(p)
  \/ LoadFails(p) \/ Evict(p) \/ LoadRead(p) \/ LoadRemove(p) \/ LoadMark(p)
  \/ LoadRestore(p) \/ Remove(p)
  \/ SweepRead(p) \/ SweepEvict(p) \/ SweepDone(p) \/ Write(p)

(***************************************************************************)
(* The most liberal client: any process may issue any command of the CLI,  *)
(* and after a record was read or bound any step runPlanApply takes with   *)
(* it.  PlanApply adds the transport and the Runtime to these steps.       *)
(***************************************************************************)

Returned(p, names) == op[p] \in names /\ ret[p] = "ok"

Client(p) ==
  \/ CallStore(p) \/ CallList(p) \/ EndCommand(p)
  \/ \E q \in used, name \in {"read", "readAll", "discard", "abandon"} :
       CallLoad(p, q, name)
  \/ Returned(p, {"read"}) /\ CallMark(p)
  \/ Returned(p, {"mark"}) /\ CallRestore(p)
  \/ /\ Returned(p, {"mark", "readAll"})
     /\ \E result \in {"applied", "uncertain", "failed"} : RecordOutcome(p, result)

StoreNext ==
  \/ \E p \in Procs : Client(p) \/ Inside(p) \/ RecoverLock(p) \/ Die(p)
  \/ Tick

StoreSpec == Init /\ [][StoreNext]_vars

(***************************************************************************)
(* Disciplined use, which the store relies on for what it does outside its *)
(* lock: no two processes work on one plan at the same time, no store      *)
(* operation is overtaken by the clock (an operation takes at most the 5 s *)
(* of the lock wait, a lifetime is minutes and Retention a day), and no    *)
(* command is still working on a plan when the plan's 24 hours end.        *)
(***************************************************************************)

OneCommandPerPlan ==
  \A p1, p2 \in Procs : plan[p1] = plan[p2] /\ plan[p1] # NoPlan => p1 = p2
PromptOperations == clock' # clock =>
  /\ \A p \in Alive : at[p] = "idle"
  /\ \A q \in Evidence : q \notin Evidence' => \A p \in Procs : plan[p] # q

Disciplined == OneCommandPerPlan' /\ PromptOperations
DisciplinedStoreSpec == Init /\ [][StoreNext /\ Disciplined]_vars

\* Concurrent use of a plan by any number of processes, of which none takes a
\* binding back.
NoRestore == \A p \in Procs : op'[p] # "restore"
ConcurrentStoreSpec == Init /\ [][StoreNext /\ NoRestore]_vars

(***************************************************************************)
(* Properties                                                              *)
(***************************************************************************)

TypeOK ==
  /\ store \in [Plans -> Record \cup {Absent}]
  /\ used \in SUBSET Plans
  /\ issued \in [Plans -> Requests]
  /\ clock \in 0 .. MaxTime
  /\ lock \in SUBSET Procs
  /\ dead \in SUBSET Procs
  /\ at \in [Procs -> Sweeps \cup {"idle", "lock", "unlock", "load", "evict",
        "remove", "write", "pruneEvict", "countEvict", "listEvict"}]
  /\ op \in [Procs -> {"none", "store", "list", "read", "readAll", "discard",
        "abandon", "mark", "restore", "record"}]
  /\ plan \in [Procs -> Plans \cup {NoPlan}]
  /\ rec \in [Procs -> Record \cup {Absent}]
  /\ req \in [Procs -> Requests \cup {None}]
  /\ now \in [Procs -> 0 .. MaxTime]
  /\ todo \in [Procs -> SUBSET Plans]
  /\ count \in [Procs -> Nat]
  /\ target \in [Procs -> Plans \cup {NoPlan}]
  /\ seen \in [Procs -> Record \cup {Absent}]
  /\ ret \in [Procs -> {"none", "ok", "error", "recovery"}]

\* Everything ever written passes the strict decoder of the next reader
\* (plan-store.ts:470-581), and the decoder that writeStoredPlanV1 asks first
\* never refuses what a mark or a restore has come to.
RecordsDecode ==
  /\ \A q \in Stored : Decodable(store[q])
  /\ \A p \in Procs : at[p] = "write" => Decodable(Written(p))

\* Never more than Limit records of evidence (plan-store.ts:228-233), over
\* any number of processes dispatching different plans at once.
CapacityKept == Cardinality(Evidence) <= Limit

\* Evidence is lost when its file goes, when its request is replaced or taken
\* back, and when a tombstone becomes uncertain again.
Loses(old, new) ==
  \/ new = Absent
  \/ new.request # old.request
  \/ old.outcome = "terminal" /\ new.outcome # "terminal"

\* p writes or removes the file of q, and what p last knew of it.
Removers == {"evict", "remove", "pruneEvict", "countEvict", "listEvict"}
Acts(p, q) ==
  /\ p \in Alive
  /\ at'[p] # at[p] \/ op'[p] # op[p]
  /\ q = IF at[p] \in {"pruneEvict", "countEvict", "listEvict"} THEN target[p] ELSE plan[p]
Known(p) == IF at[p] \in Removers THEN seen[p] ELSE rec[p]

\* The losses that are meant: the user abandons the plan, the Runtime has
\* answered that nothing was applied, a binding without an outcome is taken
\* back.
Waives(p, q) ==
  \/ op'[p] = "abandon"
  \/ op'[p] = "record" /\ store'[q] = Absent
  \/ op'[p] = "restore" /\ store[q].outcome = None /\ store[q].request = req[p]

\* However many commands work on one plan, and however late they go on: no
\* prune, count, list, read or discard removes evidence it has seen, no mark
\* or restore writes over it, and no repeated answer turns a tombstone a
\* command knows of back into an uncertain plan.  All that can go wrong outside
\* of the lock is that a process acts on a file another one has changed since
\* it was read (plan-store.ts:144-198, 207-286, 392-453).
KnownEvidenceIsKept ==
  [][\A q \in Evidence : Loses(store[q], store'[q]) =>
       \E p \in Procs : Acts(p, q) /\ (Waives(p, q) \/ Known(p) # store[q])]_vars

\* Two apply requests are never bound to one plan without the first being
\* taken back, and a request is taken back only while it has no outcome
\* (plan-store.ts:213-217, 252-261).
BindingIsStable ==
  \A q \in Plans :
    store[q] # Absent /\ store'[q] # Absent /\ store[q].request # None =>
      \/ store'[q].request = store[q].request
      \/ store'[q].request = None /\ store[q].outcome = None

\* Processes that apply one plan at the same time all dispatch the same apply
\* request, the one whose binding came first (plan-store.ts:217).
AppliersAgree ==
  \A p1, p2 \in Procs :
    /\ plan[p1] = plan[p2]
    /\ Returned(p1, {"mark"})
    /\ Returned(p2, {"mark"})
    => req[p1] = req[p2]

\* What one process has bound, every other one that applies the plan uses, and
\* a binding is never replaced by another.
OneBinding == [][BindingIsStable /\ AppliersAgree']_vars
=============================================================================
