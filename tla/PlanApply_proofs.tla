-------------------------- MODULE PlanApply_proofs --------------------------
(***************************************************************************)
(* Proofs about plan apply and plan recover (DisciplinedApplySpec), for    *)
(* any number of processes, plans, crashes and lost answers.  A step of a  *)
(* command is a step of the store, so that Discipline of PlanStore_proofs  *)
(* holds; what is added ties the requests that are under way or have been  *)
(* seen by the Runtime to the records of their plans, and each command's   *)
(* stage to what it holds in memory.                                       *)
(***************************************************************************)
EXTENDS MCPlanApply, MCLiveness, PlanStore_proofs

(***************************************************************************)
(* The invariant                                                           *)
(***************************************************************************)

\* A request that can still reach the Runtime or has reached it.
Out(q, r) ==
  r \in consumed[q] \/ \E p \in Procs : file[p] # None /\ file[p] = <<q, r>>
Clean(q) ==
  consumed[q] = {} /\ \A p \in Procs : file[p] # None => file[p][1] # q

\* There is at most one request out for a plan.  As long as the plan has a
\* record the record is bound to it, and it has one until the plan is settled
\* or given up.
OutsAreBound ==
  \A q \in Plans, r \in Requests : Out(q, r) =>
    /\ q \in used
    /\ \A p \in Procs : Storing(p) => plan[p] # q
    /\ store[q] # Absent => store[q].request = r
    /\ q \notin settled \cup waived => store[q] # Absent
OneOut == \A q \in Plans, r1, r2 \in Requests : Out(q, r1) /\ Out(q, r2) => r1 = r2

\* An execution whose answer is awaited is one of the plan of a command that
\* has sent its request.
Awaited ==
  \A j \in running : j[1] # None =>
    stage[j[1]] = "sent" /\ file[j[1]] = None /\ plan[j[1]] = j[2]

\* Where a command is, by what it has called; a process that has ended leaves
\* at most a request file.
Reads(p) == \/ cmd[p] = "apply" /\ op[p] = "read"
            \/ cmd[p] = "recover" /\ op[p] = "readAll"
Holds(p) == \/ cmd[p] = "apply" /\ op[p] = "mark"
            \/ cmd[p] = "recover" /\ op[p] = "readAll"
Staged(p) ==
  /\ p \in dead => stage[p] = "none" /\ plan[p] = NoPlan
  /\ stage[p] = "none" =>
       op[p] \in {"none", "store", "list", "readAll", "discard", "abandon"}
  /\ stage[p] # "none" => plan[p] \in Plans
  /\ stage[p] = "reading" => Reads(p)
  /\ stage[p] = "marking" => cmd[p] = "apply" /\ op[p] = "mark"
  /\ stage[p] \in {"sent", "answered"} =>
       at[p] = "idle" /\ ret[p] = "ok" /\ req[p] # None /\ Holds(p)
  /\ stage[p] = "answered" => reply[p] \in Results
  /\ stage[p] = "restoring" => cmd[p] = "apply" /\ op[p] = "restore"
  /\ stage[p] = "retry" => op[p] = "restore" /\ ret[p] = "ok"
  /\ stage[p] \in Ends => at[p] = "idle"
  /\ at[p] \notin {"idle", "unlock"} => ret[p] = "none"
  /\ file[p] # None => p \in dead \/ (stage[p] = "sent" /\ file[p] = <<plan[p], req[p]>>)
  /\ p \in lock => p \in dead \/ at[p] \notin {"idle", "lock"}

\* What a command has read is what the file holds, or the file is gone; a
\* refused one is evidence.
Recoverable(p) == plan[p] \in Evidence /\ store[plan[p]].request # None
Held(p) ==
  /\ plan[p] \in Evidence /\ store[plan[p]].readable
  /\ store[plan[p]].request = req[p] /\ req[p] # None
ReadIsRight(p) ==
  /\ op[p] = "read" /\ ret[p] = "ok" =>
       /\ rec[p] # Absent /\ store[plan[p]] \in {rec[p], Absent}
       /\ Protected(rec[p]) => Recoverable(p)
  /\ op[p] = "read" /\ ret[p] = "recovery" => Recoverable(p)
  /\ op[p] = "readAll" => ret[p] # "recovery"
  /\ Returned(p, {"mark", "readAll"}) => rec[p].request = req[p]

\* An apply finds its plan unbound when it marks it, so the request it sends
\* is the first; it takes a binding back only while no request is out.
MarkIsFirst(p) ==
  /\ op[p] = "mark" /\ at[p] \in {"lock", "load"} /\ store[plan[p]] # Absent =>
       store[plan[p]].request = None
  /\ stage[p] = "marking" /\ ret[p] = "ok" => Clean(plan[p])
SentAlone(p) ==
  cmd[p] = "apply" /\ stage[p] = "sent" =>
    /\ \A p1 \in Procs \ {p} : file[p1] # None => file[p1][1] # plan[p]
    /\ file[p] # None => consumed[plan[p]] = {}
RestoreIsSafe(p) ==
  op[p] = "restore" =>
    /\ Clean(plan[p])
    /\ ret[p] = "ok" /\ store[plan[p]] # Absent => ~Protected(store[plan[p]])
    /\ ret[p] # "ok" => Held(p)

Sound(p) ==
  /\ Staged(p) /\ ReadIsRight(p) /\ MarkIsFirst(p) /\ SentAlone(p) /\ RestoreIsSafe(p)
  /\ stage[p] = "recovery" => Recoverable(p)

ApplyInv ==
  /\ Discipline /\ ApplyTypeOK
  /\ OutsAreBound /\ OneOut /\ Awaited
  /\ \A p \in Procs : Sound(p)

(***************************************************************************)
(* What a step of one process leaves the others: their locals, and the     *)
(* file of the plan they work on, which another one may at most remove     *)
(* when it is no evidence.                                                 *)
(***************************************************************************)

StoreSteps(p) == Client(p) \/ Inside(p) \/ RecoverLock(p) \/ Die(p)

Undisturbed(p) ==
  /\ UNCHANGED <<at[p], op[p], plan[p], rec[p], req[p], ret[p]>>
  /\ p \in dead' <=> p \in dead
  /\ p \in lock' => p \in lock
  /\ plan[p] \in Plans =>
       /\ store'[plan[p]] \in {store[plan[p]], Absent}
       /\ plan[p] \in Evidence => plan[p] \in Evidence' /\ store'[plan[p]] = store[plan[p]]

LEMMA OthersLocals ==
  ASSUME TypeOK, NEW p \in Procs, NEW p1 \in Procs, p1 # p, StoreSteps(p)
  PROVE  /\ UNCHANGED <<at[p1], op[p1], plan[p1], rec[p1], req[p1], ret[p1], todo[p1], target[p1], clock>>
         /\ p1 \in dead' <=> p1 \in dead
         /\ p1 \in lock' => p1 \in lock
<1> USE DEF TypeOK, Begin, Goto, Return, Hold, Forget, storeVars, cmdVars, sweepVars
<1>1. CASE CallStore(p) \/ CallList(p) \/ EndCommand(p) \/ CallMark(p) \/ CallRestore(p)
  BY <1>1 DEF CallStore, CallList, EndCommand, CallMark, CallRestore
<1>2. CASE \E q \in used, name \in {"read", "readAll", "discard", "abandon"} : CallLoad(p, q, name)
  BY <1>2 DEF CallLoad
<1>3. CASE \E result \in {"applied", "uncertain", "failed"} : RecordOutcome(p, result)
  BY <1>3, RecordsExact DEF Recording
<1>4. CASE Lock(p) \/ LockTimeout(p) \/ Unlock(p) \/ RecoverLock(p) \/ Die(p)
  BY <1>4 DEF Lock, LockTimeout, Unlock, RecoverLock, Die
<1>5. CASE LoadFails(p) \/ Evict(p) \/ LoadRead(p) \/ LoadRemove(p) \/ Remove(p) \/ Write(p)
  BY <1>5 DEF LoadFails, Evict, LoadRead, LoadRemove, Remove, Write
<1>6. CASE LoadMark(p) \/ LoadRestore(p)
  BY <1>6 DEF LoadMark, LoadRestore
<1>7. CASE SweepRead(p) \/ SweepEvict(p) \/ SweepDone(p)
  BY <1>7 DEF SweepRead, SweepEvict, SweepDone
<1> QED BY <1>1, <1>2, <1>3, <1>4, <1>5, <1>6, <1>7 DEF StoreSteps, Client, Inside

\* A step of p changes at most the file of its own plan and that of one which
\* is over.
LEMMA OwnFileOnly ==
  ASSUME Discipline, NEW p \in Procs, StoreSteps(p)
  PROVE  \/ store' = store
         \/ plan[p] \in Plans /\ \E r : store' = [store EXCEPT ![plan[p]] = r]
         \/ /\ SweepEvict(p) /\ Over(target[p]) /\ target[p] \in Plans
            /\ store' = [store EXCEPT ![target[p]] = Absent]
<1> USE DEF Discipline, StoreInv, TypeOK, Working, AtPlan, Put, At, storeVars
<1>1. CASE CallStore(p) \/ CallList(p) \/ EndCommand(p) \/ CallMark(p) \/ CallRestore(p)
  BY <1>1 DEF CallStore, CallList, EndCommand, CallMark, CallRestore
<1>2. CASE \E q \in used, name \in {"read", "readAll", "discard", "abandon"} : CallLoad(p, q, name)
  BY <1>2 DEF CallLoad
<1>3. CASE \E result \in {"applied", "uncertain", "failed"} : RecordOutcome(p, result)
  BY <1>3, RecordsExact DEF Recording
<1>4. CASE Lock(p) \/ LockTimeout(p) \/ Unlock(p) \/ RecoverLock(p) \/ Die(p)
  BY <1>4 DEF Lock, LockTimeout, Unlock, RecoverLock, Die
<1>5. CASE LoadFails(p) \/ LoadRead(p) \/ LoadRemove(p) \/ LoadMark(p) \/ LoadRestore(p)
           \/ SweepRead(p) \/ SweepDone(p)
  BY <1>5 DEF LoadFails, LoadRead, LoadRemove, LoadMark, LoadRestore, SweepRead, SweepDone
<1>6. CASE Evict(p) \/ Remove(p) \/ Write(p)
  BY <1>6 DEF Evict, Remove, Write
<1>7. CASE SweepEvict(p)
  BY <1>7 DEF SweepEvict, Parts, Removals, SweepsOver
<1> QED BY <1>1, <1>2, <1>3, <1>4, <1>5, <1>6, <1>7 DEF StoreSteps, Client, Inside

LEMMA OthersUndisturbed ==
  ASSUME Discipline, NEW p \in Procs, NEW p1 \in Procs, p1 # p, StoreSteps(p)
  PROVE  Undisturbed(p1)
<1>1. TypeOK
  BY DEF Discipline, StoreInv
<1>2. /\ UNCHANGED <<at[p1], op[p1], plan[p1], rec[p1], req[p1], ret[p1], clock>>
      /\ p1 \in dead' <=> p1 \in dead
      /\ p1 \in lock' => p1 \in lock
  BY <1>1, OthersLocals
<1>3. ASSUME plan[p1] \in Plans
      PROVE  /\ store'[plan[p1]] \in {store[plan[p1]], Absent}
             /\ plan[p1] \in Evidence => store'[plan[p1]] = store[plan[p1]]
  <2>1. CASE store' = store
    BY <2>1
  <2>2. CASE plan[p] \in Plans /\ \E r : store' = [store EXCEPT ![plan[p]] = r]
    BY <2>2, OwnFile
  <2>3. CASE Over(target[p]) /\ target[p] \in Plans /\ store' = [store EXCEPT ![target[p]] = Absent]
    <3>1. target[p] \notin Evidence
      BY <1>1, <2>3, OverIsNoEvidence
    <3>2. store'[plan[p1]] = IF plan[p1] = target[p] THEN Absent ELSE store[plan[p1]]
      BY <1>1, <1>3, <2>3 DEF TypeOK
    <3> QED BY <3>1, <3>2
  <2> QED BY <2>1, <2>2, <2>3, OwnFileOnly
<1>4. plan[p1] \in Evidence => plan[p1] \in Plans /\ plan[p1] \in Evidence'
  BY <1>2, <1>3 DEF Evidence, Stored
<1> QED BY <1>2, <1>3, <1>4 DEF Undisturbed

LEMMA TickUndisturbed ==
  ASSUME Discipline, Tick, PromptOperations, NEW p \in Procs
  PROVE  Undisturbed(p)
<1>1. clock' # clock /\ clock \in Nat
  BY NumberAssumption DEF Tick, Discipline, StoreInv, TypeOK
<1> QED BY <1>1 DEF Tick, PromptOperations, Undisturbed, storeVars, cmdVars, sweepVars

\* What a command holds stays right under the steps of others.
LEMMA SoundCarried ==
  ASSUME ApplyInv, NEW p \in Procs, Undisturbed(p),
         UNCHANGED <<cmd[p], stage[p], reply[p]>>, file'[p] \in {file[p], None},
         Clean(plan[p]) => Clean(plan[p])', SentAlone(p)'
  PROVE  Sound(p)'
<1>1. Sound(p) /\ Working(p)
  BY DEF ApplyInv, Discipline, StoreInv
<1>2. /\ UNCHANGED <<at[p], op[p], plan[p], rec[p], req[p], ret[p]>>
      /\ (p \in dead' <=> p \in dead) /\ (p \in lock' => p \in lock)
  BY DEF Undisturbed
<1>3. Staged(p)'
  BY <1>1, <1>2 DEF Sound, Staged, Reads, Holds
<1>4. plan[p] \in Plans => (Recoverable(p) => Recoverable(p)') /\ (Held(p) => Held(p)')
  BY <1>2 DEF Undisturbed, Recoverable, Held
<1>5. /\ op[p] \in {"read", "restore"} \/ stage[p] # "none" => plan[p] \in Plans
      /\ op[p] = "mark" /\ at[p] \in {"lock", "load"} => plan[p] \in Plans
  BY <1>1 DEF Sound, Staged, Working, AtPlan
<1>6. plan[p] \in Plans => store'[plan[p]] \in {store[plan[p]], Absent}
  BY DEF Undisturbed
<1>7. ReadIsRight(p)'
  <2>1. op[p] = "read" /\ ret[p] = "ok" => store'[plan[p]] \in {rec[p], Absent}
    BY <1>1, <1>5, <1>6 DEF Sound, ReadIsRight
  <2> QED BY <1>1, <1>2, <1>4, <1>5, <2>1 DEF Sound, ReadIsRight, Returned
<1>8. MarkIsFirst(p)'
  BY <1>1, <1>2, <1>5, <1>6 DEF Sound, MarkIsFirst
<1>9. RestoreIsSafe(p)'
  BY <1>1, <1>2, <1>4, <1>5, <1>6 DEF Sound, RestoreIsSafe
<1> QED BY <1>1, <1>2, <1>3, <1>4, <1>5, <1>7, <1>8, <1>9 DEF Sound

(***************************************************************************)
(* Requests that are out                                                   *)
(***************************************************************************)

LEMMA CleanIsNoneOut ==
  ASSUME ApplyTypeOK, NEW q \in Plans, \A r \in Requests : ~Out(q, r)
  PROVE  Clean(q)
<1>1. consumed[q] \subseteq Requests
  BY DEF ApplyTypeOK
<1>2. \A p \in Procs : file[p] # None => file[p] \in Plans \X Requests
  BY DEF ApplyTypeOK
<1> QED BY <1>1, <1>2 DEF Clean, Out

LEMMA NoneOutOfClean ==
  ASSUME NEW q, Clean(q), NEW r
  PROVE  ~Out(q, r)
BY DEF Clean, Out

LEMMA UnboundIsClean ==
  ASSUME ApplyInv, NEW q \in Plans, store[q] # Absent, store[q].request = None
  PROVE  Clean(q)
<1>1. \A r \in Requests : r # None
  BY SentinelAssumption, NumberAssumption DEF Requests
<1> QED BY <1>1, CleanIsNoneOut DEF ApplyInv, OutsAreBound

LEMMA OutsCarried ==
  ASSUME ApplyInv,
         \A q \in Plans, r \in Requests : Out(q, r)' => Out(q, r),
         used \subseteq used', settled \subseteq settled', waived \subseteq waived',
         \A p \in Procs, q \in used : Storing(p)' /\ plan'[p] = q => Storing(p) /\ plan[p] = q,
         \A q \in Plans, r \in Requests : Out(q, r) =>
           \/ store'[q] = store[q]
           \/ store'[q] = Absent /\ q \in settled' \cup waived'
           \/ /\ store[q] # Absent /\ store'[q] # Absent
              /\ store'[q].request = store[q].request
  PROVE  OutsAreBound' /\ OneOut'
<1>1. OneOut'
  BY DEF ApplyInv, OneOut
<1>2. ASSUME NEW q \in Plans, NEW r \in Requests, Out(q, r)'
      PROVE  /\ q \in used'
             /\ \A p \in Procs : Storing(p)' => plan'[p] # q
             /\ store'[q] # Absent => store'[q].request = r
             /\ q \notin settled' \cup waived' => store'[q] # Absent
  <2>1. Out(q, r)
    BY <1>2
  <2>2. /\ q \in used /\ \A p \in Procs : Storing(p) => plan[p] # q
        /\ store[q] # Absent => store[q].request = r
        /\ q \notin settled \cup waived => store[q] # Absent
    BY <2>1 DEF ApplyInv, OutsAreBound
  <2> QED BY <2>1, <2>2
<1> QED BY <1>1, <1>2 DEF OutsAreBound

(***************************************************************************)
(* Steps inside a store operation                                          *)
(***************************************************************************)

\* What an operation removes is no evidence, unless it is abandoned.
LEMMA InsideRemoves ==
  ASSUME Discipline, NEW p \in Procs, Inside(p), NEW q \in Plans,
         store[q] # Absent, store'[q] = Absent
  PROVE  q \notin Evidence \/ op[p] = "abandon"
<1> USE DEF Discipline, Parts, StoreInv, TypeOK, Working, AtPlan, Put, At, storeVars
<1>1. CASE Evict(p)
  BY <1>1 DEF Evict, Removals, RemovesNoEvidence
<1>2. CASE Remove(p)
  BY <1>2 DEF Remove, Removals, RemovesNoEvidence
<1>3. CASE SweepEvict(p)
  <2>1. Over(target[p]) /\ target[p] \in Plans /\ target[p] = q
    BY <1>3 DEF SweepEvict, Removals, SweepsOver
  <2> QED BY <2>1, OverIsNoEvidence
<1>4. CASE Write(p)
  BY <1>4, WrittenType, AbsentAssumption DEF Write
<1>5. CASE \/ Lock(p) \/ LockTimeout(p) \/ Unlock(p) \/ LoadFails(p) \/ LoadRead(p)
           \/ LoadRemove(p) \/ LoadMark(p) \/ LoadRestore(p) \/ SweepRead(p) \/ SweepDone(p)
  BY <1>5 DEF Lock, LockTimeout, Unlock, LoadFails, LoadRead, LoadRemove, LoadMark,
    LoadRestore, SweepRead, SweepDone
<1> QED BY <1>1, <1>2, <1>3, <1>4, <1>5 DEF Inside

LEMMA InsideWrites ==
  ASSUME Discipline, NEW p \in Procs, Inside(p), NEW q \in Plans,
         store'[q] # Absent, store'[q] # store[q]
  PROVE  Write(p) /\ plan[p] = q
<1> USE DEF Discipline, StoreInv, TypeOK, Working, AtPlan, Put, At, storeVars
<1>1. CASE Evict(p) \/ Remove(p) \/ SweepEvict(p)
  BY <1>1 DEF Evict, Remove, SweepEvict
<1>2. CASE Write(p)
  BY <1>2 DEF Write
<1>3. CASE \/ Lock(p) \/ LockTimeout(p) \/ Unlock(p) \/ LoadFails(p) \/ LoadRead(p)
           \/ LoadRemove(p) \/ LoadMark(p) \/ LoadRestore(p) \/ SweepRead(p) \/ SweepDone(p)
  BY <1>3 DEF Lock, LockTimeout, Unlock, LoadFails, LoadRead, LoadRemove, LoadMark,
    LoadRestore, SweepRead, SweepDone
<1> QED BY <1>1, <1>2, <1>3 DEF Inside

\* No request is out for a plan that is written.
LEMMA WritesClean ==
  ASSUME ApplyInv, NEW p \in Procs, Write(p), NEW r \in Requests
  PROVE  ~Out(plan[p], r)
<1>1. at[p] = "write" /\ plan[p] \in Plans /\ op[p] \in {"store", "mark", "restore"}
  BY DEF Write, At, ApplyInv, Discipline, StoreInv, Working, AtPlan
<1>2. CASE op[p] = "store"
  BY <1>1, <1>2 DEF ApplyInv, OutsAreBound, Storing
<1>3. CASE op[p] = "mark"
  <2>1. store[plan[p]] = rec[p] /\ rec[p].request = None /\ rec[p] # Absent
    BY <1>1, <1>3 DEF ApplyInv, Discipline, StoreInv, Working, Parts, Memory, MarksItsOwn, Marking
  <2> QED BY <1>1, <2>1, UnboundIsClean, NoneOutOfClean
<1>4. CASE op[p] = "restore"
  BY <1>4, NoneOutOfClean DEF ApplyInv, Sound, RestoreIsSafe
<1> QED BY <1>1, <1>2, <1>3, <1>4

LEMMA InsideFrame ==
  ASSUME TypeOK, NEW p \in Procs, Inside(p)
  PROVE  /\ at[p] # "idle" /\ p \notin dead
         /\ UNCHANGED <<used, issued, clock, dead, op, plan>>
<1> USE DEF TypeOK, At, Alive, Sweeps, storeVars, cmdVars, sweepVars
<1>1. CASE Lock(p) \/ LockTimeout(p) \/ Unlock(p)
  BY <1>1 DEF Lock, LockTimeout, Unlock
<1>2. CASE LoadFails(p) \/ Evict(p) \/ LoadRead(p) \/ LoadRemove(p) \/ LoadMark(p)
           \/ LoadRestore(p) \/ Remove(p)
  BY <1>2 DEF LoadFails, Evict, LoadRead, LoadRemove, LoadMark, LoadRestore, Remove
<1>3. CASE SweepRead(p) \/ SweepEvict(p) \/ SweepDone(p) \/ Write(p)
  BY <1>3 DEF SweepRead, SweepEvict, SweepDone, Write
<1> QED BY <1>1, <1>2, <1>3 DEF Inside

LEMMA InsideStoring ==
  ASSUME StoreInv, NEW p \in Procs, Inside(p), NEW p1 \in Procs, Storing(p1)'
  PROVE  Storing(p1) /\ plan'[p1] = plan[p1]
<1>1. TypeOK /\ op' = op /\ plan' = plan
  BY InsideFrame DEF StoreInv
<1>2. CASE p1 # p
  BY <1>1, <1>2, OthersLocals DEF StoreSteps, Storing
<1>3. CASE p1 = p
  <2> USE <1>1, <1>3 DEF Storing, StoreInv, TypeOK, Working, At, Goto, Return, Sweeps
  <2>1. CASE Lock(p) \/ LockTimeout(p) \/ Unlock(p)
    BY <2>1 DEF Lock, LockTimeout, Unlock
  <2>2. CASE LoadFails(p) \/ Evict(p) \/ LoadRead(p) \/ LoadRemove(p) \/ Remove(p) \/ Write(p)
    BY <2>2 DEF LoadFails, Evict, LoadRead, LoadRemove, Remove, Write
  <2>3. CASE LoadMark(p) \/ LoadRestore(p)
    BY <2>3 DEF LoadMark, LoadRestore
  <2>4. CASE SweepRead(p) \/ SweepEvict(p) \/ SweepDone(p)
    BY <2>4 DEF SweepRead, SweepEvict, SweepDone
  <2> QED BY <2>1, <2>2, <2>3, <2>4 DEF Inside
<1> QED BY <1>2, <1>3

\* The files and requests stay as they are while the store works.
LEMMA OutUnchanged ==
  ASSUME UNCHANGED <<file, consumed>>, NEW q, NEW r
  PROVE  (Out(q, r)' <=> Out(q, r)) /\ (Clean(q)' <=> Clean(q))
BY DEF Out, Clean

LEMMA InsideOuts ==
  ASSUME ApplyInv, NEW p \in Procs, StoreStep(p)
  PROVE  OutsAreBound' /\ OneOut'
<1>1. TypeOK /\ Discipline /\ Inside(p) /\ UNCHANGED <<file, consumed, settled>>
  BY DEF StoreStep, ApplyInv, Discipline, StoreInv
<1>2. used' = used /\ waived \subseteq waived'
  BY <1>1, InsideFrame DEF StoreStep
<1>3. \A p1 \in Procs, q \in used : Storing(p1)' /\ plan'[p1] = q => Storing(p1) /\ plan[p1] = q
  BY <1>1, InsideStoring DEF Discipline
<1>4. \A q \in Plans, r \in Requests : Out(q, r)' => Out(q, r)
  BY <1>1, OutUnchanged
<1>5. ASSUME NEW q \in Plans, NEW r \in Requests, Out(q, r), store'[q] # store[q]
      PROVE  store'[q] = Absent /\ q \in settled' \cup waived'
  <2>1. store'[q] = Absent
    BY <1>1, <1>5, InsideWrites, WritesClean
  <2>2. store[q] # Absent /\ store[q].request = r /\ store[q] \in Record /\ r # None
    BY <1>1, <1>5, <2>1, SentinelAssumption, NumberAssumption
      DEF ApplyInv, OutsAreBound, TypeOK, Requests
  <2>3. Protected(store[q]) /\ q \in Stored
    BY <2>2 DEF Protected, Stored
  <2>4. q \notin Evidence \/ op[p] = "abandon"
    BY <1>1, <2>1, <2>2, InsideRemoves
  <2>5. clock >= RecoveryExpiry(store[q]) \/ op[p] = "abandon"
    BY <1>1, <2>2, <2>3, <2>4, RecordTimes, NumberAssumption DEF Evidence, TypeOK
  <2> QED BY <2>1, <2>3, <2>5 DEF StoreStep
<1> QED BY <1>1, <1>2, <1>3, <1>4, <1>5, OutsCarried

\* A command inside a store operation has no request file and is at one of
\* four stages.
LEMMA InsideStages ==
  ASSUME ApplyInv, NEW p \in Procs, StoreStep(p)
  PROVE  /\ Discipline /\ TypeOK /\ StoreInv /\ Inside(p) /\ at[p] # "idle" /\ p \notin dead
         /\ UNCHANGED <<used, issued, clock, dead, op, plan, cmd, stage, reply, file, consumed>>
         /\ stage[p] \in {"none", "reading", "marking", "restoring"} /\ file[p] = None
<1>1. Discipline /\ TypeOK /\ Inside(p) /\ UNCHANGED <<cmd, stage, reply, file, consumed>>
  BY DEF ApplyInv, Discipline, StoreInv, StoreStep
<1>2. at[p] # "idle" /\ p \notin dead /\ UNCHANGED <<used, issued, clock, dead, op, plan>>
  BY <1>1, InsideFrame
<1>3. stage[p] \in Ends \cup {"none", "reading", "marking", "sent", "answered", "restoring"}
  BY DEF ApplyInv, ApplyTypeOK
<1> QED BY <1>1, <1>2, <1>3 DEF ApplyInv, Sound, Staged, Discipline

\* How a step inside an operation makes it return.
LEMMA InsideReturns ==
  ASSUME ApplyInv, NEW p \in Procs, StoreStep(p)
  PROVE  /\ at'[p] \notin {"idle", "unlock"} => ret'[p] = "none"
         /\ p \in lock' => at'[p] \notin {"idle", "lock"}
         /\ op[p] = "readAll" => ret'[p] # "recovery"
         /\ op[p] = "read" /\ ret'[p] = "recovery" => ret[p] = "recovery" \/ (Load(p) = "recovery" /\ LoadFails(p))
         /\ op[p] \in {"read", "readAll"} /\ ret'[p] = "ok" => (Unlock(p) /\ ret[p] = "ok") \/ LoadRead(p)
         /\ op[p] = "mark" /\ ret'[p] = "ok" => (Unlock(p) /\ ret[p] = "ok") \/ LoadMark(p) \/ Write(p)
         /\ op[p] = "restore" /\ ret'[p] = "ok" => (Unlock(p) /\ ret[p] = "ok") \/ Write(p)
<1>1. Discipline /\ TypeOK /\ Working(p) /\ Inside(p) /\ op' = op /\ at[p] # "idle"
  BY InsideStages DEF StoreInv
<1>2. /\ at[p] \notin {"idle", "unlock"} => ret[p] = "none"
      /\ p \in lock => at[p] \notin {"idle", "lock"}
      /\ op[p] = "readAll" => ret[p] # "recovery"
  BY InsideStages DEF ApplyInv, Sound, Staged, ReadIsRight
<1>3. RemovesNoEvidence(p)
  BY <1>1 DEF Discipline, Parts, Removals
<1>4. CASE Unlock(p)
  <2>1. ret' = ret /\ at'[p] = "idle" /\ p \notin lock'
    BY <1>1, <1>4 DEF Unlock, Goto, TypeOK
  <2> QED BY <1>2, <1>4, <2>1
<1> USE <1>1, <1>2 DEF TypeOK, Working, Goto, Return, At, Sweeps
<1>5. CASE Lock(p) \/ LockTimeout(p)
  BY <1>5 DEF Lock, LockTimeout
<1>6. CASE LoadFails(p)
  <2>1. op[p] = "readAll" => Load(p) # "recovery"
    BY DEF Load, Verdict
  <2> QED BY <1>6, <2>1 DEF LoadFails
<1>7. CASE Evict(p) \/ Remove(p)
  BY <1>3, <1>7 DEF Evict, Remove, RemovesNoEvidence
<1>8. CASE LoadRead(p) \/ LoadRemove(p) \/ LoadMark(p) \/ LoadRestore(p) \/ Write(p)
  BY <1>8 DEF LoadRead, LoadRemove, LoadMark, LoadRestore, Write
<1>9. CASE SweepRead(p) \/ SweepEvict(p) \/ SweepDone(p)
  BY <1>9 DEF SweepRead, SweepEvict, SweepDone
<1> QED BY <1>4, <1>5, <1>6, <1>7, <1>8, <1>9 DEF Inside

LEMMA InsideReadIsRight ==
  ASSUME ApplyInv, NEW p \in Procs, StoreStep(p)
  PROVE  ReadIsRight(p)'
<1>1. /\ Discipline /\ TypeOK /\ Inside(p) /\ UNCHANGED <<op, plan, clock>> /\ at[p] # "idle"
  BY InsideStages
<1>2. ReadIsRight(p) /\ (at[p] \notin {"idle", "unlock"} => ret[p] = "none")
  BY DEF ApplyInv, Sound, Staged
<1>3. ASSUME op[p] = "read", ret'[p] = "ok"
      PROVE  /\ rec'[p] # Absent /\ store'[plan[p]] \in {rec'[p], Absent}
             /\ Protected(rec'[p]) => Recoverable(p)'
  <2>1. CASE Unlock(p) /\ ret[p] = "ok"
    <3>1. UNCHANGED <<store, clock, rec, plan>>
      BY <2>1 DEF Unlock, storeVars, cmdVars
    <3> QED BY <1>2, <1>3, <2>1, <3>1, QuietStep DEF ReadIsRight, Recoverable
  <2>2. CASE LoadRead(p)
    <3>1. /\ at[p] = "load" /\ Load(p) = "ok" /\ UNCHANGED <<store, clock, plan>>
          /\ rec'[p] = store[plan[p]]
      BY <1>1, <2>2 DEF LoadRead, At, Hold, Mine, storeVars, TypeOK
    <3>2. store[plan[p]] \in Record /\ (Protected(store[plan[p]]) => Recoverable(p))
      BY <1>1, <3>1, LoadsInForce DEF Mine, Recoverable
    <3> QED BY <3>1, <3>2, QuietStep, AbsentAssumption DEF Recoverable
  <2> QED BY <1>3, <2>1, <2>2, InsideReturns
<1>4. ASSUME op[p] = "read", ret'[p] = "recovery"
      PROVE  Recoverable(p)'
  <2>1. CASE ret[p] = "recovery"
    <3>1. Unlock(p)
      BY <1>1, <1>2, <2>1 DEF Inside, Lock, LockTimeout, LoadFails, Evict, LoadRead, LoadRemove,
        LoadMark, LoadRestore, Remove, SweepRead, SweepEvict, SweepDone, Write, At, Sweeps
    <3>2. UNCHANGED <<store, clock, plan>>
      BY <3>1 DEF Unlock, storeVars, cmdVars
    <3> QED BY <1>2, <1>4, <2>1, <3>2, QuietStep DEF ReadIsRight, Recoverable
  <2>2. CASE Load(p) = "recovery" /\ LoadFails(p)
    <3>1. at[p] = "load" /\ UNCHANGED <<store, clock, plan>>
      BY <2>2 DEF LoadFails, At, storeVars, cmdVars
    <3>2. plan[p] \in Plans /\ Verdict(store[plan[p]], clock, FALSE) = "recovery"
      BY <1>1, <1>4, <2>2, <3>1, LoadsNow DEF Discipline, StoreInv, Working, AtPlan, Parts
    <3>3. /\ store[plan[p]] # Absent /\ store[plan[p]].readable /\ Protected(store[plan[p]])
          /\ ~(clock >= RecoveryExpiry(store[plan[p]]))
      BY <3>2 DEF Verdict
    <3>4. store[plan[p]] \in Record /\ Decodable(store[plan[p]]) /\ clock \in Nat
      BY <1>1, <3>2, <3>3, NumberAssumption DEF TypeOK, Discipline, DecodeInv
    <3>5. clock < RecoveryExpiry(store[plan[p]]) /\ store[plan[p]].request # None
      BY <3>3, <3>4, RecordTimes DEF Protected, Decodable
    <3>6. Recoverable(p)
      BY <3>2, <3>3, <3>5 DEF Recoverable, Evidence, Stored
    <3> QED BY <3>1, <3>6, QuietStep DEF Recoverable
  <2> QED BY <1>4, <2>1, <2>2, InsideReturns
<1>5. op[p] = "readAll" => ret'[p] # "recovery"
  BY InsideReturns
<1>6. ASSUME op[p] \in {"mark", "readAll"}, ret'[p] = "ok"
      PROVE  rec'[p].request = req'[p]
  <2>1. CASE Unlock(p) /\ ret[p] = "ok"
    BY <1>2, <1>6, <2>1 DEF Unlock, cmdVars, ReadIsRight, Returned
  <2>2. CASE LoadRead(p)
    BY <1>1, <2>2 DEF LoadRead, Hold, TypeOK
  <2>3. CASE LoadMark(p)
    <3>1. ret[p] = "none"
      BY <1>2, <2>3 DEF LoadMark, At
    <3> QED BY <1>1, <1>6, <2>3, <3>1 DEF LoadMark, Hold, Adopted, TypeOK
  <2>4. CASE Write(p)
    <3>1. /\ op[p] = "mark" /\ rec[p] \in Record /\ req' = req /\ rec'[p] = Written(p)
      BY <1>1, <1>6, <2>4 DEF Write, At, Hold, cmdVars, Discipline, StoreInv, Working, TypeOK
    <3>2. Written(p) = [rec[p] EXCEPT !.request = req[p], !.start = now[p]]
      BY <3>1 DEF Written
    <3> QED BY <3>1, <3>2 DEF Record
  <2> QED BY <1>6, <2>1, <2>2, <2>3, <2>4, InsideReturns
<1> QED BY <1>1, <1>3, <1>4, <1>5, <1>6 DEF ReadIsRight, Returned

LEMMA WriteCleans ==
  ASSUME ApplyInv, NEW p \in Procs, Write(p), UNCHANGED <<file, consumed>>
  PROVE  Clean(plan[p])'
<1>1. plan[p] \in Plans /\ plan' = plan
  BY DEF Write, At, cmdVars, ApplyInv, Discipline, StoreInv, Working, AtPlan
<1>2. Clean(plan[p])
  BY <1>1, WritesClean, CleanIsNoneOut DEF ApplyInv
<1> QED BY <1>1, <1>2 DEF Clean

LEMMA InsideMarkIsFirst ==
  ASSUME ApplyInv, NEW p \in Procs, StoreStep(p)
  PROVE  MarkIsFirst(p)'
<1>1. /\ Discipline /\ TypeOK /\ Inside(p) /\ UNCHANGED <<op, plan, stage, file, consumed>>
  BY InsideStages
<1>2. MarkIsFirst(p) /\ (stage[p] = "marking" => op[p] = "mark" /\ plan[p] \in Plans)
  BY DEF ApplyInv, Sound, Staged
<1>3. at'[p] \in {"lock", "load"} => at[p] = "lock" /\ store' = store
  <2> USE <1>1 DEF TypeOK, Goto, Return, At, Sweeps, storeVars
  <2>1. CASE Lock(p) \/ LockTimeout(p) \/ Unlock(p)
    BY <2>1 DEF Lock, LockTimeout, Unlock
  <2>2. CASE LoadFails(p) \/ Evict(p) \/ LoadRead(p) \/ LoadRemove(p) \/ Remove(p) \/ Write(p)
    BY <2>2 DEF LoadFails, Evict, LoadRead, LoadRemove, Remove, Write
  <2>3. CASE LoadMark(p) \/ LoadRestore(p)
    BY <2>3 DEF LoadMark, LoadRestore
  <2>4. CASE SweepRead(p) \/ SweepEvict(p) \/ SweepDone(p)
    BY <2>4 DEF SweepRead, SweepEvict, SweepDone
  <2> QED BY <2>1, <2>2, <2>3, <2>4 DEF Inside
<1>4. ASSUME stage[p] = "marking", ret'[p] = "ok"
      PROVE  Clean(plan[p])'
  <2>1. CASE Unlock(p) /\ ret[p] = "ok"
    BY <1>1, <1>2, <1>4, <2>1 DEF MarkIsFirst, Clean
  <2>2. CASE LoadMark(p)
    <3>1. at[p] = "load" /\ Load(p) = "ok" /\ ret[p] = "none"
      BY <2>2 DEF LoadMark, At, ApplyInv, Sound, Staged
    <3>2. Mine(p) # Absent
      BY <3>1, VerdictOk DEF Load
    <3>3. Bindable(Mine(p))
      BY <1>2, <1>4, <3>1, <3>2 DEF MarkIsFirst, Mine, Bindable
    <3> QED BY <1>4, <2>2, <3>1, <3>3 DEF LoadMark
  <2>3. CASE Write(p)
    BY <1>1, <2>3, WriteCleans
  <2> QED BY <1>2, <1>4, <2>1, <2>2, <2>3, InsideReturns
<1> QED BY <1>1, <1>2, <1>3, <1>4 DEF MarkIsFirst

LEMMA InsideRestoreIsSafe ==
  ASSUME ApplyInv, NEW p \in Procs, StoreStep(p)
  PROVE  RestoreIsSafe(p)'
<1> SUFFICES ASSUME op[p] = "restore" PROVE RestoreIsSafe(p)'
  BY InsideStages DEF RestoreIsSafe
<1>1. /\ Discipline /\ TypeOK /\ Inside(p) /\ Working(p) /\ at[p] # "idle"
      /\ UNCHANGED <<op, plan, clock, file, consumed>>
  BY InsideStages DEF StoreInv
<1>2. /\ Clean(plan[p]) /\ (ret[p] # "ok" => Held(p))
      /\ ret[p] = "ok" /\ store[plan[p]] # Absent => ~Protected(store[plan[p]])
  BY DEF ApplyInv, Sound, RestoreIsSafe
<1>3. at[p] \notin {"idle", "unlock"} => ret[p] = "none" /\ Held(p)
  BY <1>2 DEF ApplyInv, Sound, Staged
<1>4. Clean(plan[p])'
  BY <1>1, <1>2 DEF Clean
<1>5. UNCHANGED <<store, req, ret>> \/ (UNCHANGED <<store, req>> /\ at[p] # "unlock" /\ ret'[p] = "error")
        \/ Write(p)
  <2>1. CASE Lock(p) \/ LockTimeout(p) \/ Unlock(p)
    BY <1>1, <2>1 DEF Lock, LockTimeout, Unlock, At, Return, TypeOK, storeVars, cmdVars
  <2>2. CASE LoadFails(p) \/ Evict(p)
    <3>1. plan[p] \in Evidence /\ store[plan[p]].readable
      BY <1>3, <2>2 DEF LoadFails, Evict, At, Held
    <3>2. LoadFails(p)
      BY <1>1, <2>2, <3>1 DEF Evict, At, Discipline, Parts, Removals, RemovesNoEvidence
    <3>3. Load(p) = Verdict(store[plan[p]], clock, TRUE)
      BY <1>1, <3>2, LoadsNow DEF LoadFails, At, Discipline, Parts
    <3>4. store[plan[p]] \in Record /\ store[plan[p]] # Absent /\ Protected(store[plan[p]])
          /\ clock < RecoveryExpiry(store[plan[p]]) /\ clock \in Nat
      BY <1>1, <3>1, AbsentAssumption, NumberAssumption DEF Evidence, Stored, TypeOK
    <3>5. Load(p) = "ok"
      BY <3>1, <3>3, <3>4, RecordTimes DEF Verdict
    <3> QED BY <3>2, <3>5 DEF LoadFails
  <2>3. CASE LoadRead(p) \/ LoadRemove(p) \/ LoadMark(p)
    BY <2>3 DEF LoadRead, LoadRemove, LoadMark
  <2>4. CASE LoadRestore(p)
    BY <1>1, <2>4 DEF LoadRestore, At, Return, TypeOK, storeVars
  <2>5. CASE Remove(p)
    BY <1>1, <2>5 DEF Remove, At, Discipline, Parts, Removals, RemovesNoEvidence
  <2>6. CASE SweepRead(p) \/ SweepEvict(p) \/ SweepDone(p)
    BY <1>1, <2>6 DEF SweepRead, SweepEvict, SweepDone, Working, Sweeps
  <2> QED BY <1>1, <2>1, <2>2, <2>3, <2>4, <2>5, <2>6 DEF Inside
<1>6. CASE UNCHANGED <<store, req>> /\ (ret'[p] = ret[p] \/ (at[p] # "unlock" /\ ret'[p] = "error"))
  <2>1. Held(p)' <=> Held(p)
    BY <1>1, <1>6, QuietStep DEF Held
  <2> QED BY <1>1, <1>2, <1>3, <1>4, <1>6, <2>1 DEF RestoreIsSafe
<1>7. CASE Write(p)
  <2>1. /\ at[p] = "write" /\ rec[p] \in Record /\ plan[p] \in Plans /\ rec[p].outcome = None
    BY <1>1, <1>7 DEF Write, At, Working, AtPlan, TypeOK, Discipline, DecodeInv
  <2>2. store'[plan[p]] = [rec[p] EXCEPT !.request = None, !.start = None]
    BY <1>1, <1>7, <2>1 DEF Write, Put, Written, TypeOK
  <2>3. ~Protected(store'[plan[p]])
    BY <2>1, <2>2 DEF Protected, Record
  <2>4. ret'[p] = "ok"
    BY <1>1, <1>7 DEF Write, Return, TypeOK
  <2> QED BY <1>1, <1>4, <2>3, <2>4 DEF RestoreIsSafe
<1> QED BY <1>5, <1>6, <1>7

LEMMA InsideSound ==
  ASSUME ApplyInv, NEW p \in Procs, StoreStep(p)
  PROVE  Sound(p)'
<1>1. /\ at[p] # "idle" /\ p \notin dead /\ UNCHANGED <<dead, op, plan, cmd, stage, reply, file>>
      /\ stage[p] \in {"none", "reading", "marking", "restoring"} /\ file[p] = None
  BY InsideStages
<1>2. /\ Staged(p) /\ (at'[p] \notin {"idle", "unlock"} => ret'[p] = "none")
      /\ p \in lock' => at'[p] \notin {"idle", "lock"}
  BY InsideReturns DEF ApplyInv, Sound
<1>3. Staged(p)'
  BY <1>1, <1>2 DEF Staged, Reads, Holds, Ends
<1>4. SentAlone(p)' /\ stage'[p] # "recovery"
  BY <1>1 DEF SentAlone
<1> QED BY <1>3, <1>4, InsideReadIsRight, InsideMarkIsFirst, InsideRestoreIsSafe DEF Sound

(***************************************************************************)
(* Steps of a command                                                      *)
(***************************************************************************)

\* A step on the store leaves right what the other commands hold.
LEMMA OthersSound ==
  ASSUME ApplyInv, NEW p \in Procs, NEW p1 \in Procs, p1 # p, StoreSteps(p),
         UNCHANGED <<file, consumed, cmd[p1], stage[p1], reply[p1]>>
  PROVE  Sound(p1)'
<1>1. Undisturbed(p1)
  BY OthersUndisturbed DEF ApplyInv
<1>2. SentAlone(p1)' /\ (Clean(plan[p1]) => Clean(plan[p1])')
  BY <1>1 DEF Undisturbed, Clean, SentAlone, ApplyInv, Sound
<1> QED BY <1>1, <1>2, SoundCarried

\* What a command is about to send, or has sent, is bound in the store.
LEMMA BoundHolds ==
  ASSUME ApplyInv, NEW p \in Procs, Bound(p) \/ In(p, "sent") \/ In(p, "answered")
  PROVE  /\ Held(p) /\ rec[p] = store[plan[p]] /\ plan[p] \in Plans
         /\ p \notin dead /\ at[p] = "idle" /\ ret[p] = "ok" /\ Holds(p)
         /\ Recoverable(p)
<1>1. /\ p \notin dead /\ at[p] = "idle" /\ stage[p] \in {"reading", "marking", "sent", "answered"}
      /\ stage[p] = "reading" => cmd[p] = "recover" /\ req[p] # None
      /\ stage[p] \in {"reading", "marking"} => ret[p] = "ok"
  BY DEF Bound, In, Ready, At, Alive
<1>2. Staged(p) /\ ReadIsRight(p)
  BY DEF ApplyInv, Sound
<1>3. ret[p] = "ok" /\ Holds(p) /\ plan[p] \in Plans
  BY <1>1, <1>2 DEF Staged, Holds, Reads
<1>4. Returned(p, {"mark", "readAll"}) /\ (cmd[p] = "apply" => Returned(p, {"mark"}))
  BY <1>3 DEF Holds, Returned
<1>5. RecordsItsOwn(p) /\ HasRequest(p)
  BY DEF ApplyInv, Discipline, Parts, Memory
<1>6. req[p] # None
  BY <1>1, <1>2, <1>3, <1>4, <1>5 DEF Staged, HasRequest, Returned, Holds
<1>7. /\ plan[p] \in Evidence /\ store[plan[p]] = rec[p] /\ rec[p].readable
      /\ rec[p].request = req[p]
  BY <1>2, <1>4, <1>5, <1>6 DEF RecordsItsOwn, ReadIsRight
<1> QED BY <1>1, <1>3, <1>6, <1>7 DEF Held, Recoverable

\* Every step of the commands is a step of the store, as far as the store is
\* concerned.
LEMMA StoreTakesPart ==
  ASSUME ApplyInv, ApplyNext
  PROVE  StoreNext \/ UNCHANGED vars
<1> USE DEF StoreNext, Client
<1>1. ASSUME NEW p \in Procs, NEW q \in used, NEW name \in {"apply", "recover"}, Start(p, q, name)
      PROVE  StoreNext
  BY <1>1 DEF Start
<1>2. ASSUME NEW p \in Procs, Mark(p)
      PROVE  StoreNext
  BY <1>2 DEF Mark, In, Returned, ApplyInv, Sound, Staged, Reads
<1>3. ASSUME NEW p \in Procs, FailBeforeSend(p) \/ NoAnswer(p)
      PROVE  StoreNext \/ UNCHANGED vars
  <2>1. Bound(p) \/ In(p, "sent")
    BY <1>3 DEF FailBeforeSend, NoAnswer
  <2>2. cmd[p] = "apply" => Returned(p, {"mark"})
    BY <2>1, BoundHolds DEF Holds, Returned
  <2> QED BY <1>3, <2>2 DEF FailBeforeSend, NoAnswer, Unanswered
<1>4. ASSUME NEW p \in Procs, RecordReply(p)
      PROVE  StoreNext
  <2>1. In(p, "answered")
    BY <1>4 DEF RecordReply
  <2>2. Returned(p, {"mark", "readAll"}) /\ reply[p] \in {"applied", "uncertain", "failed"}
    BY <2>1, BoundHolds DEF Holds, Returned, In, ApplyInv, Sound, Staged, Results
  <2> QED BY <1>4, <2>2 DEF RecordReply
<1>5. ASSUME NEW p \in Procs, StoreStep(p) \/ End(p) \/ Other(p) \/ Crash(p)
      PROVE  StoreNext
  BY <1>5 DEF StoreStep, End, Other, Crash
<1>6. ASSUME NEW p \in Procs,
             Refuse(p) \/ Decline(p) \/ MarkFails(p) \/ Send(p) \/ Restored(p) \/ Consume(p)
      PROVE  UNCHANGED vars
  BY <1>6 DEF Refuse, Decline, MarkFails, Send, Restored, Consume
<1>7. CASE \E j \in running, result \in Results : Execute(j, result)
  BY <1>7 DEF Execute
<1>8. CASE Pass
  BY <1>8 DEF Pass
<1> QED BY <1>1, <1>2, <1>3, <1>4, <1>5, <1>6, <1>7, <1>8 DEF ApplyNext, Progress, Runtime

LEMMA AppliesDiscipline ==
  ASSUME ApplyInv, [ApplyNext /\ Disciplined]_allVars
  PROVE  Discipline'
<1>1. [StoreNext /\ Disciplined]_vars
  BY StoreTakesPart DEF allVars
<1> QED BY <1>1, NextDiscipline DEF ApplyInv

LEMMA NextApplyTypeOK ==
  ASSUME ApplyInv, ApplyNext, TypeOK'
  PROVE  ApplyTypeOK'
<1> USE DEF ApplyInv, ApplyTypeOK, Enter, Ends, Results, applyVars
<1>1. ASSUME NEW p \in Procs, NEW q \in used, NEW name \in {"apply", "recover"}, Start(p, q, name)
      PROVE  ApplyTypeOK'
  BY <1>1 DEF Start
<1>2. ASSUME NEW p \in Procs,
             Refuse(p) \/ Decline(p) \/ Mark(p) \/ MarkFails(p) \/ Restored(p) \/ End(p) \/ Other(p)
      PROVE  ApplyTypeOK'
  BY <1>2 DEF Refuse, Decline, Mark, MarkFails, Restored, End, Other
<1>3. ASSUME NEW p \in Procs, StoreStep(p)
      PROVE  ApplyTypeOK'
  BY <1>3 DEF StoreStep, Stored
<1>4. ASSUME NEW p \in Procs, Send(p)
      PROVE  ApplyTypeOK'
  <2>1. <<plan[p], req[p]>> \in Plans \X Requests
    BY <1>4, BoundHolds DEF Send, Held, TypeOK
  <2> QED BY <1>4, <2>1 DEF Send
<1>5. ASSUME NEW p \in Procs, FailBeforeSend(p)
      PROVE  ApplyTypeOK'
  BY <1>5 DEF FailBeforeSend, Unanswered
<1>6. ASSUME NEW p \in Procs, Unawaited(p)
      PROVE  running' \in SUBSET ((Procs \cup {None}) \X Plans)
  BY <1>6 DEF Unawaited
<1>7. ASSUME NEW p \in Procs, NoAnswer(p)
      PROVE  ApplyTypeOK'
  BY <1>6, <1>7 DEF NoAnswer, Unanswered
<1>8. ASSUME NEW p \in Procs, Crash(p)
      PROVE  ApplyTypeOK'
  BY <1>6, <1>8 DEF Crash
<1>9. ASSUME NEW p \in Procs, RecordReply(p)
      PROVE  ApplyTypeOK'
  <2>1. plan[p] \in Plans
    BY <1>9, BoundHolds DEF RecordReply
  <2>2. reply[p] \in {"applied", "uncertain", "failed"} /\ ret'[p] \in {"ok", "error"}
    BY <1>9, RecordsExact DEF RecordReply, Recording, Return, TypeOK, In, Sound, Staged
  <2>3. (CASE ret'[p] # "ok" \/ reply[p] = "uncertain" -> "recovery"
            [] ret'[p] = "ok" /\ reply[p] = "applied" -> "success"
            [] ret'[p] = "ok" /\ reply[p] = "failed" -> "failed") \in Ends
    BY <2>2
  <2> QED BY <1>9, <2>1, <2>3 DEF RecordReply
<1>10. ASSUME NEW p \in Procs, Consume(p)
       PROVE  ApplyTypeOK'
  <2>1. file[p] \in Plans \X Requests
    BY <1>10 DEF Consume
  <2>2. file[p][1] \in Plans /\ file[p][2] \in Requests
    BY <2>1
  <2>3. consumed' \in [Plans -> SUBSET Requests]
    BY <1>10, <2>2 DEF Consume
  <2>4. running' \in SUBSET ((Procs \cup {None}) \X Plans)
    BY <1>10, <2>2 DEF Consume
  <2> QED BY <1>10, <2>3, <2>4 DEF Consume
<1>11. ASSUME NEW j \in running, NEW result \in Results, Execute(j, result)
       PROVE  ApplyTypeOK'
  <2>1. j[1] \in Procs \cup {None} /\ j[2] \in Plans /\ result \in {"applied", "uncertain", "failed"}
    OBVIOUS
  <2>2. applied' \in SUBSET Plans
    BY <1>11, <2>1 DEF Execute
  <2>3. stage' \in [Procs -> Ends \cup {"none", "reading", "marking", "sent", "answered", "restoring"}]
        /\ reply' \in [Procs -> Results \cup {None}]
    BY <1>11, <2>1 DEF Execute
  <2> QED BY <1>11, <2>2, <2>3 DEF Execute
<1>12. CASE Pass
  BY <1>12 DEF Pass
<1> QED BY <1>1, <1>2, <1>3, <1>4, <1>5, <1>7, <1>8, <1>9, <1>10, <1>11, <1>12
  DEF ApplyNext, Progress, Runtime

LEMMA NextAwaited ==
  ASSUME ApplyInv, ApplyNext
  PROVE  Awaited'
<1> USE DEF ApplyInv, ApplyTypeOK, TypeOK, Awaited, Enter, applyVars, storeVars, cmdVars
<1>0. \A j \in running : j[1] \in Procs \cup {None} /\ j[2] \in Plans
  OBVIOUS
<1>1. ASSUME NEW p \in Procs, NEW q \in used, NEW name \in {"apply", "recover"}, Start(p, q, name)
      PROVE  Awaited'
  <2>1. plan[p] = NoPlan /\ plan' = [plan EXCEPT ![p] = q]
    BY <1>1 DEF Start, CallLoad
  <2>2. stage[p] # "sent"
    BY <2>1, SentinelAssumption DEF Sound, Staged
  <2> QED BY <1>1, <2>1, <2>2 DEF Start
<1>2. ASSUME NEW p \in Procs, Refuse(p) \/ Decline(p) \/ MarkFails(p) \/ Restored(p)
      PROVE  Awaited'
  BY <1>2 DEF Refuse, Decline, MarkFails, Restored, In, vars
<1>3. ASSUME NEW p \in Procs, Mark(p)
      PROVE  Awaited'
  BY <1>3 DEF Mark, In, CallMark
<1>4. ASSUME NEW p \in Procs, Send(p)
      PROVE  Awaited'
  BY <1>4 DEF Send, In, Bound, vars
<1>5. ASSUME NEW p \in Procs, RecordReply(p)
      PROVE  Awaited'
  BY <1>5, RecordsExact DEF RecordReply, In, Recording
<1>6. ASSUME NEW p \in Procs, FailBeforeSend(p)
      PROVE  Awaited'
  BY <1>6 DEF FailBeforeSend, In, Bound, Unanswered, CallRestore, vars
<1>7. ASSUME NEW p \in Procs, End(p)
      PROVE  Awaited'
  BY <1>7 DEF End, EndCommand, Forget, Ends
<1>8. ASSUME NEW p \in Procs, Unawaited(p),
             \A p1 \in Procs \ {p} : UNCHANGED <<stage[p1], file[p1], plan[p1]>>
      PROVE  Awaited'
  <2> SUFFICES ASSUME NEW j \in running', j[1] # None
               PROVE  stage'[j[1]] = "sent" /\ file'[j[1]] = None /\ plan'[j[1]] = j[2]
    BY DEF Awaited
  <2>1. PICK k \in running : j = <<IF k[1] = p THEN None ELSE k[1], k[2]>>
    BY <1>8 DEF Unawaited
  <2>2. j[1] = k[1] /\ j[1] \in Procs \ {p} /\ j[2] = k[2]
    BY <1>0, <2>1
  <2> QED BY <1>8, <2>2
<1>9. ASSUME NEW p \in Procs, NoAnswer(p)
      PROVE  Awaited'
  <2>1. Unawaited(p) /\ file' = [file EXCEPT ![p] = None] /\ plan' = plan
        /\ \A p1 \in Procs \ {p} : UNCHANGED stage[p1]
    BY <1>9 DEF NoAnswer, Unanswered, CallRestore, vars
  <2> QED BY <1>8, <2>1
<1>10. ASSUME NEW p \in Procs, Crash(p)
       PROVE  Awaited'
  BY <1>8, <1>10 DEF Crash, Die, Forget
<1>11. ASSUME NEW p \in Procs, Other(p)
       PROVE  Awaited'
  <2>1. plan[p] = NoPlan /\ \A p1 \in Procs \ {p} : UNCHANGED plan[p1]
    BY <1>11 DEF Other, CallStore, CallList, CallLoad
  <2>2. stage[p] # "sent"
    BY <2>1, SentinelAssumption DEF Sound, Staged
  <2> QED BY <1>11, <2>1, <2>2 DEF Other
<1>12. ASSUME NEW p \in Procs, StoreStep(p)
       PROVE  Awaited'
  <2>1. UNCHANGED <<running, stage, file, plan>>
    BY <1>12, InsideStages DEF StoreStep
  <2> QED BY <2>1
<1>13. ASSUME NEW p \in Procs, Consume(p)
       PROVE  Awaited'
  <2>1. file[p] # None /\ UNCHANGED <<stage, plan>> /\ file' = [file EXCEPT ![p] = None]
    BY <1>13 DEF Consume, vars
  <2>2. file[p] \in Plans \X Requests /\ Staged(p)
    BY <2>1 DEF Sound
  <2>3. plan[p] = file[p][1] => stage[p] = "sent"
    BY <2>1, <2>2, SentinelAssumption DEF Staged
  <2>4. \A j \in running' : j \in running \/ j = <<IF plan[p] = file[p][1] THEN p ELSE None, file[p][1]>>
    BY <1>13 DEF Consume
  <2> QED BY <1>0, <2>1, <2>3, <2>4
<1>14. ASSUME NEW j \in running, NEW result \in Results, Execute(j, result)
       PROVE  Awaited'
  <2>1. running' = running \ {j} /\ UNCHANGED <<file, plan>>
    BY <1>14 DEF Execute, vars
  <2>2. \A k \in running \ {j} : k[1] # None => k[1] # j[1]
    <3> SUFFICES ASSUME NEW k \in running, k[1] # None, k[1] = j[1]
                 PROVE  k = j
      OBVIOUS
    <3>1. k[2] = j[2]
      OBVIOUS
    <3> QED BY <3>1
  <2>3. \A p \in Procs : p # j[1] => stage'[p] = stage[p]
    BY <1>14 DEF Execute
  <2> QED BY <1>0, <2>1, <2>2, <2>3
<1>15. CASE Pass
  <2>1. plan' = plan
    BY <1>15 DEF Pass, Tick, RecoverLock
  <2> QED BY <1>15, <2>1 DEF Pass
<1> QED BY <1>1, <1>2, <1>3, <1>4, <1>5, <1>6, <1>7, <1>9, <1>10, <1>11, <1>12, <1>13, <1>14, <1>15
  DEF ApplyNext, Progress, Runtime

(***************************************************************************)
(* Requests that are out, over the steps of the commands and the Runtime   *)
(***************************************************************************)

\* Only a new planRef is stored, and no command but a record writes.
LEMMA ClientStoring ==
  ASSUME Discipline, NEW p \in Procs, Client(p) \/ RecoverLock(p) \/ Die(p)
  PROVE  /\ used \subseteq used'
         /\ \A p1 \in Procs, q \in used : Storing(p1)' /\ plan'[p1] = q => Storing(p1) /\ plan[p1] = q
         /\ \/ store' = store
            \/ \E result \in {"applied", "uncertain", "failed"} : RecordOutcome(p, result)
<1> USE DEF Discipline, StoreInv, TypeOK, Storing, Begin, Goto, Return, Forget, storeVars, cmdVars
<1>1. CASE CallStore(p) \/ CallList(p)
  BY <1>1 DEF CallStore, CallList
<1>2. CASE EndCommand(p) \/ CallMark(p) \/ CallRestore(p)
  BY <1>2 DEF EndCommand, CallMark, CallRestore
<1>3. CASE \E q \in used, name \in {"read", "readAll", "discard", "abandon"} : CallLoad(p, q, name)
  BY <1>3 DEF CallLoad
<1>4. CASE \E result \in {"applied", "uncertain", "failed"} : RecordOutcome(p, result)
  BY <1>4, RecordsExact DEF Recording
<1>5. CASE RecoverLock(p) \/ Die(p)
  BY <1>5 DEF RecoverLock, Die
<1> QED BY <1>1, <1>2, <1>3, <1>4, <1>5 DEF Client

LEMMA QuietOuts ==
  ASSUME ApplyInv, UNCHANGED <<store, consumed, settled, waived>>,
         \A p \in Procs : file'[p] \in {file[p], None},
         \/ UNCHANGED <<used, op, at, plan>>
         \/ \E p \in Procs : Client(p) \/ RecoverLock(p) \/ Die(p)
  PROVE  OutsAreBound' /\ OneOut'
<1>1. Discipline
  BY DEF ApplyInv
<1>2. /\ used \subseteq used'
      /\ \A p1 \in Procs, q \in used : Storing(p1)' /\ plan'[p1] = q => Storing(p1) /\ plan[p1] = q
  BY <1>1, ClientStoring DEF Storing
<1>3. \A q \in Plans, r \in Requests : Out(q, r)' => Out(q, r)
  BY DEF Out
<1> QED BY <1>2, <1>3, OutsCarried

LEMMA ConsumeOuts ==
  ASSUME ApplyInv, NEW p \in Procs, Consume(p)
  PROVE  OutsAreBound' /\ OneOut'
<1>1. /\ file[p] # None /\ file' = [file EXCEPT ![p] = None]
      /\ consumed' = [consumed EXCEPT ![file[p][1]] = @ \cup {file[p][2]}]
      /\ UNCHANGED <<store, used, op, at, plan, settled, waived>>
  BY DEF Consume, vars, storeVars, cmdVars
<1>2. file[p] \in Plans \X Requests /\ consumed \in [Plans -> SUBSET Requests] /\ file \in [Procs -> (Plans \X Requests) \cup {None}]
  BY <1>1 DEF ApplyInv, ApplyTypeOK
<1>3. ASSUME NEW q \in Plans, NEW r \in Requests, Out(q, r)'
      PROVE  Out(q, r)
  <2>1. CASE r \in consumed'[q]
    <3>1. r \in consumed[q] \/ (q = file[p][1] /\ r = file[p][2])
      BY <1>1, <1>2, <2>1
    <3>2. file[p] = <<file[p][1], file[p][2]>>
      BY <1>2
    <3> QED BY <1>1, <3>1, <3>2 DEF Out
  <2>2. CASE \E p1 \in Procs : file'[p1] # None /\ file'[p1] = <<q, r>>
    BY <1>1, <1>2, <2>2 DEF Out
  <2> QED BY <1>3, <2>1, <2>2 DEF Out
<1>4. \A p1 \in Procs, q \in used : Storing(p1)' /\ plan'[p1] = q => Storing(p1) /\ plan[p1] = q
  BY <1>1 DEF Storing
<1> QED BY <1>1, <1>3, <1>4, OutsCarried

\* A request is sent while its plan is bound to it.
LEMMA SendOuts ==
  ASSUME ApplyInv, NEW p \in Procs, Send(p)
  PROVE  OutsAreBound' /\ OneOut'
<1>1. /\ file' = [file EXCEPT ![p] = <<plan[p], req[p]>>]
      /\ UNCHANGED <<store, used, op, at, plan, settled, waived, consumed>>
  BY DEF Send, vars, storeVars, cmdVars
<1>2. Held(p) /\ plan[p] \in Plans /\ at[p] = "idle"
  BY BoundHolds DEF Send
<1>3. /\ plan[p] \in used /\ store[plan[p]] # Absent /\ store[plan[p]].request = req[p]
      /\ \A p1 \in Procs : Storing(p1) => plan[p1] # plan[p]
  <2>1. plan[p] \in used
    BY <1>2, SentinelAssumption DEF ApplyInv, Discipline, Parts, KnownPlans
  <2>2. \A p1 \in Procs : Storing(p1) => plan[p1] # plan[p]
    BY <1>2, OwnFile DEF ApplyInv, Storing
  <2> QED BY <1>2, <2>1, <2>2 DEF Held, Evidence, Stored
<1>4. \A q \in Plans, r \in Requests : Out(q, r)' => Out(q, r) \/ (q = plan[p] /\ r = req[p])
  BY <1>1 DEF Out, ApplyInv, ApplyTypeOK
<1>5. \A r \in Requests : Out(plan[p], r) => r = req[p]
  BY <1>2, <1>3 DEF ApplyInv, OutsAreBound
<1>6. OneOut'
  BY <1>4, <1>5 DEF ApplyInv, OneOut
<1>7. ASSUME NEW q \in Plans, NEW r \in Requests, Out(q, r)'
      PROVE  /\ q \in used'
             /\ \A p1 \in Procs : Storing(p1)' => plan'[p1] # q
             /\ store'[q] # Absent => store'[q].request = r
             /\ q \notin settled' \cup waived' => store'[q] # Absent
  BY <1>1, <1>3, <1>4, <1>7 DEF ApplyInv, OutsAreBound, Storing
<1> QED BY <1>6, <1>7 DEF OutsAreBound

\* What an answer leaves in the store: the same binding, or nothing.
LEMMA RecordReplyStore ==
  ASSUME ApplyInv, NEW p \in Procs, RecordReply(p)
  PROVE  /\ plan[p] \in Plans /\ plan' = plan /\ at'[p] = "idle"
         /\ \A q \in Plans \ {plan[p]} : store'[q] = store[q]
         /\ ret'[p] = "ok" \/ (ret'[p] = "error" /\ store' = store)
         /\ ret'[p] = "ok" /\ reply[p] = "failed" => store'[plan[p]] = Absent
         /\ ret'[p] = "ok" /\ reply[p] # "failed" => store'[plan[p]] = Outcome(p, reply[p])
         /\ reply[p] \in {"applied", "uncertain", "failed"} /\ RecordOutcome(p, reply[p])
         /\ ret'[p] = "error" => reply[p] = "uncertain"
<1>1. In(p, "answered") /\ RecordOutcome(p, reply[p])
  BY DEF RecordReply
<1>2. plan[p] \in Plans /\ at[p] = "idle" /\ p \notin dead /\ reply[p] \in {"applied", "uncertain", "failed"}
  BY <1>1, BoundHolds DEF ApplyInv, Sound, Staged, In, Results
<1>3. p \notin lock
  BY <1>2 DEF ApplyInv, Sound, Staged
<1>4. TypeOK
  BY DEF ApplyInv, ApplyTypeOK
<1>5. Recording(p, reply[p])
  BY <1>1, <1>4, RecordsExact
<1>6. ASSUME reply[p] = "applied" PROVE ret'[p] # "error"
  <2>1. rec[p] \in Record /\ Decodable(rec[p]) /\ req[p] # None
    BY <1>1, <1>4, AbsentAssumption DEF RecordOutcome, TypeOK, ApplyInv, Discipline, DecodeInv
  <2>2. /\ Outcome(p, reply[p]).request = req[p] /\ Outcome(p, reply[p]).exact = rec[p].exact
        /\ Outcome(p, reply[p]).outcome = "terminal"
    BY <1>6, <2>1 DEF Outcome, Record
  <2>3. Decodable(Outcome(p, reply[p]))
    BY <2>1, <2>2 DEF Decodable
  <2>4. Attempts(p, reply[p]) = {Outcome(p, reply[p])}
    BY <1>6 DEF Attempts
  <2> QED BY <1>1, <1>4, <1>6, <2>3, <2>4 DEF RecordOutcome, Writable, Return, TypeOK
<1> QED BY <1>1, <1>2, <1>3, <1>4, <1>5, <1>6 DEF Recording, Return, Goto, Put, TypeOK

LEMMA RecordReplyOuts ==
  ASSUME ApplyInv, NEW p \in Procs, RecordReply(p)
  PROVE  OutsAreBound' /\ OneOut'
<1>1. /\ UNCHANGED <<file, consumed, used, plan, waived>>
      /\ settled' = IF reply[p] = "uncertain" THEN settled ELSE settled \cup {plan[p]}
  BY DEF RecordReply, RecordOutcome
<1>2. Held(p) /\ rec[p] = store[plan[p]] /\ rec[p] \in Record
  BY BoundHolds, AbsentAssumption DEF RecordReply, ApplyInv, ApplyTypeOK, TypeOK, Held, Evidence, Stored
<1>3. Outcome(p, reply[p]) \in Record /\ Outcome(p, reply[p]).request = req[p]
  <2>1. Outcome(p, reply[p]) \in Record
    BY <1>2, OutcomeType, AbsentAssumption DEF ApplyInv, ApplyTypeOK
  <2>2. Outcome(p, reply[p]).request = req[p]
    BY <1>2 DEF Outcome, Record
  <2> QED BY <2>1, <2>2
<1>4. \A q \in Plans, r \in Requests : Out(q, r)' => Out(q, r)
  BY <1>1, OutUnchanged
<1>5. \A p1 \in Procs, q \in used : Storing(p1)' /\ plan'[p1] = q => Storing(p1) /\ plan[p1] = q
  <2>1. Client(p)
    BY BoundHolds, RecordReplyStore DEF RecordReply, Client, Holds, Returned
  <2> QED BY <2>1, ClientStoring DEF ApplyInv
<1>6. ASSUME NEW q \in Plans, store'[q] # store[q]
      PROVE  \/ store'[q] = Absent /\ q \in settled' \cup waived'
             \/ /\ store[q] # Absent /\ store'[q] # Absent
                /\ store'[q].request = store[q].request
  <2>1. q = plan[p]
    BY <1>6, RecordReplyStore
  <2>2. CASE reply[p] = "failed"
    BY <1>1, <1>6, <2>1, <2>2, RecordReplyStore
  <2>3. CASE reply[p] # "failed"
    <3>1. store'[q] = Outcome(p, reply[p])
      BY <1>6, <2>1, <2>3, RecordReplyStore
    <3> QED BY <1>2, <1>3, <2>1, <3>1, AbsentAssumption DEF Held
  <2> QED BY <2>2, <2>3
<1>7. used \subseteq used' /\ settled \subseteq settled' /\ waived \subseteq waived'
  BY <1>1
<1> QED BY <1>4, <1>5, <1>6, <1>7, OutsCarried

LEMMA NextOuts ==
  ASSUME ApplyInv, ApplyNext
  PROVE  OutsAreBound' /\ OneOut'
<1> USE DEF ApplyInv, Discipline, StoreInv, TypeOK, ApplyTypeOK, applyVars, storeVars, cmdVars
<1>1. ASSUME NEW p \in Procs, NEW q \in used, NEW name \in {"apply", "recover"}, Start(p, q, name)
      PROVE  OutsAreBound' /\ OneOut'
  <2>1. Client(p) /\ UNCHANGED <<store, consumed, settled, waived, file>>
    BY <1>1 DEF Start, CallLoad, Client
  <2> QED BY <2>1, QuietOuts
<1>2. ASSUME NEW p \in Procs, Refuse(p) \/ Decline(p) \/ MarkFails(p) \/ Restored(p)
      PROVE  OutsAreBound' /\ OneOut'
  <2>1. UNCHANGED <<vars, consumed, settled, waived, file>>
    BY <1>2 DEF Refuse, Decline, MarkFails, Restored
  <2> QED BY <2>1, QuietOuts DEF vars
<1>3. ASSUME NEW p \in Procs, Mark(p)
      PROVE  OutsAreBound' /\ OneOut'
  <2>1. Client(p) /\ UNCHANGED <<store, consumed, settled, waived, file>>
    BY <1>3 DEF Mark, In, CallMark, Client, Returned, Sound, Staged, Reads
  <2> QED BY <2>1, QuietOuts
<1>4. ASSUME NEW p \in Procs, FailBeforeSend(p) \/ NoAnswer(p)
      PROVE  OutsAreBound' /\ OneOut'
  <2>1. Bound(p) \/ In(p, "sent")
    BY <1>4 DEF FailBeforeSend, NoAnswer
  <2>2. cmd[p] = "apply" => Returned(p, {"mark"})
    BY <2>1, BoundHolds DEF Holds, Returned
  <2>3. \/ UNCHANGED vars
        \/ Client(p) /\ UNCHANGED store
    BY <1>4, <2>2 DEF FailBeforeSend, NoAnswer, Unanswered, Client, CallRestore
  <2>4. UNCHANGED <<store, consumed, settled, waived>> /\ \A p1 \in Procs : file'[p1] \in {file[p1], None}
    BY <1>4, <2>3 DEF FailBeforeSend, NoAnswer, vars
  <2> QED BY <2>3, <2>4, QuietOuts DEF vars
<1>5. ASSUME NEW p \in Procs, End(p) \/ Other(p) \/ Crash(p)
      PROVE  OutsAreBound' /\ OneOut'
  <2>1. (Client(p) \/ Die(p)) /\ UNCHANGED <<store, consumed, settled, waived, file>>
    BY <1>5 DEF End, Other, Crash, Client, EndCommand, CallStore, CallList, CallLoad, Die
  <2> QED BY <2>1, QuietOuts
<1>6. ASSUME NEW j \in running, NEW result \in Results, Execute(j, result)
      PROVE  OutsAreBound' /\ OneOut'
  <2>1. UNCHANGED <<vars, consumed, settled, waived, file>>
    BY <1>6 DEF Execute
  <2> QED BY <2>1, QuietOuts DEF vars
<1>7. CASE Pass
  <2>1. \/ UNCHANGED <<used, op, at, plan>>
        \/ \E p \in Procs : RecoverLock(p)
    BY <1>7 DEF Pass, Tick
  <2>2. UNCHANGED <<store, consumed, settled, waived, file>>
    BY <1>7 DEF Pass, Tick, RecoverLock
  <2> QED BY <2>1, <2>2, QuietOuts
<1> QED BY <1>1, <1>2, <1>3, <1>4, <1>5, <1>6, <1>7, InsideOuts, ConsumeOuts, SendOuts, RecordReplyOuts
  DEF ApplyNext, Progress, Runtime

(***************************************************************************)
(* What the commands hold, over their own steps                            *)
(***************************************************************************)

\* Only a process that has called nothing works on no plan.
LEMMA IdleHoldsNothing ==
  ASSUME ApplyInv, NEW p \in Procs, p \notin dead, plan[p] = NoPlan
  PROVE  stage[p] = "none" /\ file[p] = None
BY SentinelAssumption DEF ApplyInv, Sound, Staged

\* A command that starts: it has read nothing yet.
LEMMA StartSound ==
  ASSUME ApplyInv, NEW p \in Procs, NEW q \in used, NEW name \in {"apply", "recover"}, Start(p, q, name)
  PROVE  \A p1 \in Procs : Sound(p1)'
<1> USE DEF ApplyInv, Discipline, StoreInv, TypeOK, ApplyTypeOK
<1>1. CallLoad(p, q, IF name = "recover" THEN "readAll" ELSE "read") /\ UNCHANGED <<file, consumed>>
      /\ cmd' = [cmd EXCEPT ![p] = name] /\ stage' = [stage EXCEPT ![p] = "reading"] /\ reply' = reply
  BY DEF Start, Enter
<1>2. /\ p \notin dead /\ dead' = dead /\ at[p] = "idle" /\ at'[p] = "load" /\ ret'[p] = "none" /\ plan'[p] = q
      /\ q \in Plans /\ lock' = lock /\ op'[p] = IF name = "recover" THEN "readAll" ELSE "read"
      /\ plan[p] = NoPlan
  BY <1>1 DEF CallLoad, Begin, Ready, At, Alive, Goto
<1>3. file'[p] = None /\ stage'[p] = "reading" /\ cmd'[p] = name
  BY <1>1, <1>2, IdleHoldsNothing
<1>4. Sound(p)'
  BY <1>2, <1>3 DEF Sound, Staged, Reads, ReadIsRight, MarkIsFirst, SentAlone, RestoreIsSafe, Returned, Ends
<1>5. Client(p)
  BY <1>1 DEF Client
<1>6. ASSUME NEW p1 \in Procs \ {p}
      PROVE  Sound(p1)'
  BY <1>1, <1>5, OthersSound DEF StoreSteps
<1> QED BY <1>4, <1>6

LEMMA OtherSound ==
  ASSUME ApplyInv, NEW p \in Procs, Other(p)
  PROVE  \A p1 \in Procs : Sound(p1)'
<1> USE DEF ApplyInv, Discipline, StoreInv, TypeOK, ApplyTypeOK
<1>1. UNCHANGED <<cmd, stage, file, reply, consumed>>
  BY DEF Other, applyVars
<1>2. /\ p \notin dead /\ dead' = dead /\ at'[p] \in {"prune", "list", "load"} /\ ret'[p] = "none"
      /\ op'[p] \in {"store", "list", "readAll", "discard", "abandon"} /\ plan[p] = NoPlan
  BY DEF Other, CallStore, CallList, CallLoad, Begin, Ready, At, Alive, Goto
<1>3. file'[p] = None /\ stage'[p] = "none"
  BY <1>1, <1>2, IdleHoldsNothing
<1>4. Sound(p)'
  BY <1>2, <1>3 DEF Sound, Staged, ReadIsRight, MarkIsFirst, SentAlone, RestoreIsSafe, Returned, Ends
<1>5. Client(p)
  BY DEF Other, Client
<1>6. ASSUME NEW p1 \in Procs \ {p}
      PROVE  Sound(p1)'
  BY <1>1, <1>5, OthersSound DEF StoreSteps
<1> QED BY <1>4, <1>6

LEMMA QuietUndisturbed ==
  ASSUME UNCHANGED vars, NEW p
  PROVE  Undisturbed(p) /\ (plan[p] = plan'[p])
BY QuietStep DEF vars, storeVars, cmdVars, sweepVars, Undisturbed

LEMMA QuietOthersSound ==
  ASSUME ApplyInv, UNCHANGED <<vars, file, consumed>>, NEW p1 \in Procs,
         UNCHANGED <<cmd[p1], stage[p1], reply[p1]>>
  PROVE  Sound(p1)'
<1>1. Undisturbed(p1) /\ plan'[p1] = plan[p1]
  BY QuietUndisturbed
<1>2. SentAlone(p1)' /\ (Clean(plan[p1]) => Clean(plan[p1])')
  BY <1>1 DEF Clean, SentAlone, ApplyInv, Sound
<1> QED BY <1>1, <1>2, SoundCarried

\* A command that ends without sending anything, or with the restore it has
\* made; what it then says is true.
LEMMA GiveUpSound ==
  ASSUME ApplyInv, NEW p \in Procs, Refuse(p) \/ Decline(p) \/ MarkFails(p) \/ Restored(p)
  PROVE  \A p1 \in Procs : Sound(p1)'
<1> USE DEF ApplyInv, TypeOK, ApplyTypeOK
<1>1. /\ UNCHANGED <<vars, cmd, reply, file, consumed>>
      /\ In(p, "reading") \/ In(p, "marking") \/ In(p, "restoring")
  BY DEF Refuse, Decline, MarkFails, Restored
<1>2. /\ p \notin dead /\ at[p] = "idle" /\ stage[p] \in {"reading", "marking", "restoring"}
      /\ file[p] = None /\ plan[p] \in Plans /\ p \notin lock /\ Staged(p)
  BY <1>1 DEF In, Ready, At, Alive, Sound, Staged
<1>3. \E s \in {"recovery", "retry", "error"} :
        /\ stage' = [stage EXCEPT ![p] = s]
        /\ s = "retry" => op[p] = "restore" /\ ret[p] = "ok"
        /\ s = "recovery" => Recoverable(p)
  <2>1. CASE Refuse(p)
    <3>1. stage[p] = "reading" /\ Reads(p)
      BY <2>1 DEF Refuse, In, Sound, Staged
    <3>2. CASE ret[p] = "recovery"
      BY <2>1, <3>1, <3>2 DEF Refuse, Reads, Sound, ReadIsRight, Enter
    <3>3. CASE ret[p] = "ok" /\ cmd[p] = "apply" /\ Protected(rec[p])
      BY <2>1, <3>1, <3>3 DEF Refuse, Reads, Sound, ReadIsRight, Enter
    <3>4. CASE ret[p] # "recovery" /\ ~(ret[p] = "ok" /\ cmd[p] = "apply" /\ Protected(rec[p]))
      BY <2>1, <3>4 DEF Refuse, Enter
    <3> QED BY <3>2, <3>3, <3>4
  <2>2. CASE Decline(p) \/ MarkFails(p)
    BY <2>2 DEF Decline, MarkFails, Enter
  <2>3. CASE Restored(p)
    <3>1. stage[p] = "restoring" /\ op[p] = "restore"
      BY <2>3 DEF Restored, In, Sound, Staged
    <3>2. ret[p] # "ok" => Recoverable(p)
      BY <3>1 DEF Sound, RestoreIsSafe, Held, Recoverable
    <3> QED BY <2>3, <3>1, <3>2 DEF Restored, Enter
  <2> QED BY <2>1, <2>2, <2>3
<1>4. PICK s \in {"recovery", "retry", "error"} :
        /\ stage' = [stage EXCEPT ![p] = s]
        /\ s = "retry" => op[p] = "restore" /\ ret[p] = "ok"
        /\ s = "recovery" => Recoverable(p)
  BY <1>3
<1>5. stage'[p] = s
  BY <1>4
<1>6. /\ UNCHANGED <<at, op, plan, rec, req, ret, lock, dead, store, clock>>
      /\ (Recoverable(p) <=> Recoverable(p)') /\ (Held(p) <=> Held(p)')
  BY <1>1, QuietStep DEF vars, storeVars, cmdVars, Recoverable, Held
<1>7. Staged(p)'
  BY <1>1, <1>2, <1>4, <1>5, <1>6 DEF Staged, Ends
<1>8. ReadIsRight(p)' /\ RestoreIsSafe(p)'
  BY <1>1, <1>6 DEF Sound, ReadIsRight, RestoreIsSafe, Returned, Clean
<1>9. MarkIsFirst(p)' /\ SentAlone(p)'
  BY <1>2, <1>5, <1>6 DEF MarkIsFirst, SentAlone
<1>10. Sound(p)'
  BY <1>4, <1>5, <1>6, <1>7, <1>8, <1>9 DEF Sound
<1>11. ASSUME NEW p1 \in Procs \ {p}
       PROVE  Sound(p1)'
  BY <1>1, <1>4, QuietOthersSound
<1> QED BY <1>10, <1>11

\* An apply marks a plan it has found unbound.
LEMMA MarkSound ==
  ASSUME ApplyInv, NEW p \in Procs, Mark(p)
  PROVE  \A p1 \in Procs : Sound(p1)'
<1> USE DEF ApplyInv, Discipline, StoreInv, TypeOK, ApplyTypeOK
<1>1. /\ UNCHANGED <<cmd, reply, file, consumed, store, plan, lock, dead>> /\ CallMark(p)
      /\ stage' = [stage EXCEPT ![p] = "marking"] /\ ~Protected(rec[p])
      /\ p \notin dead /\ at[p] = "idle" /\ stage[p] = "reading" /\ cmd[p] = "apply" /\ ret[p] = "ok"
      /\ at'[p] = "lock" /\ op'[p] = "mark" /\ ret'[p] = "none"
  BY DEF Mark, CallMark, Begin, Goto, Enter, In, Ready, At, Alive, storeVars
<1>2. Staged(p) /\ op[p] = "read" /\ plan[p] \in Plans /\ file[p] = None /\ p \notin lock
  BY <1>1 DEF Sound, Staged, Reads
<1>3. store[plan[p]] # Absent => store[plan[p]].request = None
  BY <1>1, <1>2 DEF Sound, ReadIsRight, Protected
<1>4. Sound(p)'
  BY <1>1, <1>2, <1>3 DEF Sound, Staged, ReadIsRight, MarkIsFirst, SentAlone, RestoreIsSafe, Returned, Ends
<1>5. Client(p)
  BY <1>1, <1>2 DEF Client, Returned
<1>6. ASSUME NEW p1 \in Procs \ {p}
      PROVE  Sound(p1)'
  BY <1>1, <1>5, OthersSound DEF StoreSteps
<1> QED BY <1>4, <1>6

\* The first request of a plan is sent by an apply that is alone with it.
LEMMA SendSound ==
  ASSUME ApplyInv, NEW p \in Procs, Send(p)
  PROVE  \A p1 \in Procs : Sound(p1)'
<1> USE DEF ApplyInv, Discipline, StoreInv, TypeOK, ApplyTypeOK
<1>1. /\ UNCHANGED <<vars, cmd, reply, consumed>> /\ Bound(p)
      /\ file' = [file EXCEPT ![p] = <<plan[p], req[p]>>]
      /\ stage' = [stage EXCEPT ![p] = "sent"]
  BY DEF Send, Enter
<1>2. /\ UNCHANGED <<at, op, plan, rec, req, ret, lock, dead, store, clock>>
      /\ (Held(p) <=> Held(p)')
  BY <1>1, QuietStep DEF vars, storeVars, cmdVars, Held
<1>3. /\ Held(p) /\ plan[p] \in Plans /\ p \notin dead /\ at[p] = "idle" /\ ret[p] = "ok" /\ Holds(p)
      /\ p \notin lock
  BY <1>1, BoundHolds DEF Sound, Staged
<1>4. cmd[p] = "apply" => Clean(plan[p])
  BY <1>1 DEF Bound, In, Sound, MarkIsFirst
<1>5. Staged(p)'
  BY <1>1, <1>2, <1>3 DEF Staged, Ends, Holds, Held
<1>6. SentAlone(p)'
  BY <1>1, <1>2, <1>4 DEF SentAlone, Clean
<1>7. ReadIsRight(p)'
  BY <1>1, <1>2, QuietStep DEF Sound, ReadIsRight, Returned, Recoverable
<1>8. MarkIsFirst(p)' /\ RestoreIsSafe(p)'
  BY <1>1, <1>2, <1>3 DEF MarkIsFirst, RestoreIsSafe, Holds
<1>9. Sound(p)'
  BY <1>1, <1>5, <1>6, <1>7, <1>8 DEF Sound
<1>10. ASSUME NEW p1 \in Procs \ {p}
       PROVE  Sound(p1)'
  <2>1. plan[p1] # plan[p] /\ Undisturbed(p1) /\ plan'[p1] = plan[p1]
    BY <1>1, <1>3, OwnFile, QuietUndisturbed
  <2>2. file'[p] # None => file'[p][1] # plan[p1]
    BY <1>1, <2>1
  <2>3. UNCHANGED <<file[p1], cmd[p1], stage[p1], reply[p1]>>
    BY <1>1
  <2>4. Clean(plan[p1]) => Clean(plan[p1])'
    BY <1>1, <2>1, <2>2 DEF Clean
  <2>5. SentAlone(p1)'
    BY <1>1, <2>1, <2>2, <2>3 DEF SentAlone, Sound
  <2> QED BY <2>1, <2>3, <2>4, <2>5, SoundCarried
<1> QED BY <1>9, <1>10

\* A command that gets no answer keeps its evidence, or takes its binding
\* back when the request has certainly reached nobody.
LEMMA UnansweredSound ==
  ASSUME ApplyInv, NEW p \in Procs, NEW notStarted \in BOOLEAN,
         Bound(p) \/ In(p, "sent"), Unanswered(p, notStarted),
         UNCHANGED <<cmd, reply, consumed>>, file' = [file EXCEPT ![p] = None],
         notStarted /\ cmd[p] = "apply" => Clean(plan[p])'
  PROVE  \A p1 \in Procs : Sound(p1)'
<1> USE DEF ApplyInv, Discipline, StoreInv, TypeOK, ApplyTypeOK
<1>1. /\ Held(p) /\ plan[p] \in Plans /\ p \notin dead /\ at[p] = "idle" /\ ret[p] = "ok" /\ Holds(p)
      /\ p \notin lock /\ Recoverable(p) /\ stage[p] \in {"reading", "marking", "sent"}
  BY BoundHolds DEF Sound, Staged, Bound, In
<1>2. file'[p] = None
  OBVIOUS
<1>3. CASE notStarted /\ cmd[p] = "apply"
  <2>1. CallRestore(p) /\ stage' = [stage EXCEPT ![p] = "restoring"]
    BY <1>3 DEF Unanswered, Enter
  <2>2. /\ UNCHANGED <<plan, rec, req, lock, dead, store, clock>>
        /\ at'[p] = "lock" /\ op'[p] = "restore" /\ ret'[p] = "none"
        /\ Held(p)'
    <3>1. UNCHANGED <<plan, rec, req, lock, dead, store, clock>>
          /\ at'[p] = "lock" /\ op'[p] = "restore" /\ ret'[p] = "none"
      BY <2>1 DEF CallRestore, Begin, Goto, storeVars, cmdVars
    <3> QED BY <1>1, <3>1, QuietStep DEF Held
  <2>3. Staged(p)' /\ SentAlone(p)' /\ ReadIsRight(p)' /\ MarkIsFirst(p)'
    BY <1>1, <1>2, <1>3, <2>1, <2>2 DEF Staged, Ends, SentAlone, ReadIsRight, Returned, MarkIsFirst
  <2>4. RestoreIsSafe(p)'
    BY <1>3, <2>2 DEF RestoreIsSafe
  <2>5. Sound(p)'
    BY <2>1, <2>3, <2>4 DEF Sound
  <2>6. ASSUME NEW p1 \in Procs \ {p}
        PROVE  Sound(p1)'
    <3>1. Client(p)
      BY <1>1, <1>3, <2>1 DEF Client, Returned, Holds
    <3>2. Undisturbed(p1)
      BY <3>1, OthersUndisturbed DEF StoreSteps
    <3>3. SentAlone(p1)' /\ (Clean(plan[p1]) => Clean(plan[p1])')
      BY <2>1, <2>2 DEF Clean, SentAlone, Sound
    <3> QED BY <2>1, <3>2, <3>3, SoundCarried
  <2> QED BY <2>5, <2>6
<1>4. CASE ~(notStarted /\ cmd[p] = "apply")
  <2>1. UNCHANGED vars /\ stage' = [stage EXCEPT ![p] = "recovery"]
    BY <1>4 DEF Unanswered, Enter
  <2>2. /\ UNCHANGED <<at, op, plan, rec, req, ret, lock, dead, store, clock>>
        /\ (Recoverable(p) <=> Recoverable(p)')
    BY <2>1, QuietStep DEF vars, storeVars, cmdVars, Recoverable
  <2>3. Staged(p)' /\ SentAlone(p)' /\ MarkIsFirst(p)' /\ RestoreIsSafe(p)'
    BY <1>1, <1>2, <2>1, <2>2 DEF Staged, Ends, SentAlone, MarkIsFirst, RestoreIsSafe, Holds
  <2>4. ReadIsRight(p)'
    BY <2>2 DEF Sound, ReadIsRight, Returned
  <2>5. Sound(p)'
    BY <1>1, <2>2, <2>3, <2>4 DEF Sound
  <2>6. ASSUME NEW p1 \in Procs \ {p}
        PROVE  Sound(p1)'
    <3>1. Undisturbed(p1)
      BY <2>1, QuietUndisturbed
    <3>2. SentAlone(p1)' /\ (Clean(plan[p1]) => Clean(plan[p1])')
      BY <2>1, <2>2 DEF Clean, SentAlone, Sound
    <3> QED BY <2>1, <3>1, <3>2, SoundCarried
  <2> QED BY <2>5, <2>6
<1> QED BY <1>3, <1>4

LEMMA NoAnswerSound ==
  ASSUME ApplyInv, NEW p \in Procs, FailBeforeSend(p) \/ NoAnswer(p)
  PROVE  \A p1 \in Procs : Sound(p1)'
<1> USE DEF ApplyInv, Discipline, StoreInv, TypeOK, ApplyTypeOK
<1>1. CASE FailBeforeSend(p)
  <2>1. PICK notStarted \in BOOLEAN : Unanswered(p, notStarted)
    BY <1>1 DEF FailBeforeSend
  <2>2. Bound(p) /\ UNCHANGED <<cmd, reply, consumed, file>> /\ plan' = plan
    BY <1>1, <2>1 DEF FailBeforeSend, Unanswered, CallRestore, vars, cmdVars
  <2>3. file[p] = None
    BY <2>2 DEF Bound, In, Ready, At, Alive, Sound, Staged
  <2>4. cmd[p] = "apply" => Clean(plan[p])'
    BY <2>2 DEF Bound, In, Sound, MarkIsFirst, Clean
  <2>5. UNCHANGED <<cmd, reply, consumed>> /\ file' = [file EXCEPT ![p] = None]
    BY <2>2, <2>3
  <2>6. (Bound(p) \/ In(p, "sent")) /\ (notStarted /\ cmd[p] = "apply" => Clean(plan[p])')
    BY <2>2, <2>4
  <2> HIDE DEF ApplyInv, Discipline, StoreInv, TypeOK, ApplyTypeOK
  <2> QED BY <2>1, <2>5, <2>6, UnansweredSound
<1>2. CASE NoAnswer(p)
  <2>1. /\ In(p, "sent") /\ Unanswered(p, NotStarted(p)) /\ UNCHANGED <<cmd, reply, consumed>>
        /\ file' = [file EXCEPT ![p] = None] /\ NotStarted(p) \in BOOLEAN
    BY <1>2 DEF NoAnswer, NotStarted
  <2>2. plan' = plan /\ stage[p] = "sent"
    BY <2>1 DEF Unanswered, CallRestore, vars, cmdVars, In
  <2>3. NotStarted(p) /\ cmd[p] = "apply" => Clean(plan[p])'
    BY <2>1, <2>2 DEF NotStarted, Sound, SentAlone, Clean
  <2> QED BY <2>1, <2>3, UnansweredSound
<1> QED BY <1>1, <1>2

\* A file that is consumed was out before.
LEMMA ConsumeSound ==
  ASSUME ApplyInv, NEW p \in Procs, Consume(p)
  PROVE  \A p1 \in Procs : Sound(p1)'
<1>1. /\ file[p] # None /\ file' = [file EXCEPT ![p] = None]
      /\ consumed' = [consumed EXCEPT ![file[p][1]] = @ \cup {file[p][2]}]
      /\ UNCHANGED <<vars, cmd, stage, reply>>
  BY DEF Consume
<1>2. /\ file[p] \in Plans \X Requests /\ consumed \in [Plans -> SUBSET Requests]
      /\ file \in [Procs -> (Plans \X Requests) \cup {None}]
  BY <1>1 DEF ApplyInv, ApplyTypeOK
<1> SUFFICES ASSUME NEW p1 \in Procs PROVE Sound(p1)'
  OBVIOUS
<1>3. Undisturbed(p1) /\ plan'[p1] = plan[p1] /\ file'[p1] \in {file[p1], None}
  BY <1>1, <1>2, QuietUndisturbed
<1>4. Clean(plan[p1]) => Clean(plan[p1])'
  <2>1. Clean(plan[p1]) => file[p][1] # plan[p1]
    BY <1>1 DEF Clean
  <2> QED BY <1>1, <1>2, <1>3, <2>1 DEF Clean
<1>5. SentAlone(p1)'
  <2>1. CASE p1 = p
    BY <1>1, <1>2, <1>3, <2>1 DEF SentAlone, ApplyInv, Sound
  <2>2. CASE p1 # p
    <3>1. cmd[p1] = "apply" /\ stage[p1] = "sent" => file[p][1] # plan[p1]
      BY <1>1, <2>2 DEF SentAlone, ApplyInv, Sound
    <3> QED BY <1>1, <1>2, <1>3, <2>2, <3>1 DEF SentAlone, ApplyInv, Sound
  <2> QED BY <2>1, <2>2
<1> QED BY <1>1, <1>3, <1>4, <1>5, SoundCarried

LEMMA ExecuteSound ==
  ASSUME ApplyInv, NEW j \in running, NEW result \in Results, Execute(j, result)
  PROVE  \A p1 \in Procs : Sound(p1)'
<1>1. UNCHANGED <<vars, cmd, file, consumed>>
  BY DEF Execute
<1>2. CASE j[1] = None
  BY <1>1, <1>2, QuietOthersSound DEF Execute
<1>3. CASE j[1] # None
  <2> DEFINE p == j[1]
  <2>1. p \in Procs
    BY <1>3 DEF ApplyInv, ApplyTypeOK
  <2>2. stage[p] = "sent" /\ file[p] = None
    BY <1>3 DEF ApplyInv, Awaited
  <2>3. stage' = [stage EXCEPT ![p] = "answered"] /\ reply' = [reply EXCEPT ![p] = result]
    BY <1>3 DEF Execute, Enter
  <2>4. stage'[p] = "answered" /\ reply'[p] = result /\ Sound(p)
    BY <2>1, <2>3 DEF ApplyInv, ApplyTypeOK
  <2>5. UNCHANGED <<at, op, plan, rec, req, ret, lock, dead, store, clock>>
    BY <1>1 DEF vars, storeVars, cmdVars
  <2>6. Staged(p)'
    BY <1>1, <2>2, <2>4, <2>5 DEF Sound, Staged, Holds, Ends
  <2>7. ReadIsRight(p)' /\ RestoreIsSafe(p)'
    BY <1>1, <2>4, <2>5, QuietStep DEF Sound, ReadIsRight, RestoreIsSafe, Returned, Clean, Held, Recoverable
  <2>8. MarkIsFirst(p)' /\ SentAlone(p)'
    BY <2>4, <2>5 DEF Sound, MarkIsFirst, SentAlone
  <2>9. Sound(p)'
    BY <2>4, <2>6, <2>7, <2>8 DEF Sound
  <2>10. ASSUME NEW p1 \in Procs \ {p}
         PROVE  Sound(p1)'
    BY <1>1, <2>3, QuietOthersSound DEF ApplyInv, ApplyTypeOK
  <2> QED BY <2>9, <2>10
<1> QED BY <1>2, <1>3

\* An uncertain answer, or one that could not be recorded, leaves evidence.
LEMMA RecordReplySound ==
  ASSUME ApplyInv, NEW p \in Procs, RecordReply(p)
  PROVE  \A p1 \in Procs : Sound(p1)'
<1> USE DEF ApplyInv, Discipline, StoreInv, TypeOK, ApplyTypeOK
<1>1. /\ Held(p) /\ plan[p] \in Plans /\ p \notin dead /\ at[p] = "idle" /\ Holds(p)
      /\ rec[p] = store[plan[p]] /\ stage[p] = "answered" /\ p \notin lock /\ file[p] = None
  BY BoundHolds DEF RecordReply, In, Sound, Staged
<1>2. UNCHANGED <<plan, req, lock, dead, clock, file, consumed, cmd, reply>>
  BY RecordsExact DEF RecordReply, Recording
<1>3. /\ at'[p] = "idle" /\ op' = [op EXCEPT ![p] = "record"] /\ ret'[p] \in {"ok", "error"}
      /\ reply[p] \in {"applied", "uncertain", "failed"}
      /\ \E s \in {"recovery", "success", "failed"} :
           /\ stage' = [stage EXCEPT ![p] = s]
           /\ s = "recovery" => ret'[p] # "ok" \/ reply[p] = "uncertain"
  <2>1. /\ at'[p] = "idle" /\ ret'[p] \in {"ok", "error"} /\ RecordOutcome(p, reply[p])
        /\ reply[p] \in {"applied", "uncertain", "failed"}
    BY RecordReplyStore
  <2> DEFINE s == CASE ret'[p] # "ok" \/ reply[p] = "uncertain" -> "recovery"
                    [] ret'[p] = "ok" /\ reply[p] = "applied" -> "success"
                    [] ret'[p] = "ok" /\ reply[p] = "failed" -> "failed"
  <2>2. s \in {"recovery", "success", "failed"} /\ (s = "recovery" => ret'[p] # "ok" \/ reply[p] = "uncertain")
    BY <2>1
  <2>3. stage' = [stage EXCEPT ![p] = s]
    BY DEF RecordReply, Enter
  <2> HIDE DEF s
  <2> QED BY <2>1, <2>2, <2>3, RecordsExact DEF Recording
<1>4. PICK s \in {"recovery", "success", "failed"} :
        /\ stage' = [stage EXCEPT ![p] = s]
        /\ s = "recovery" => ret'[p] # "ok" \/ reply[p] = "uncertain"
  BY <1>3
<1>5. stage'[p] = s /\ op'[p] = "record"
  BY <1>3, <1>4
<1>6. s = "recovery" => Recoverable(p)'
  <2>1. CASE ret'[p] = "error"
    <3>1. store' = store
      BY <2>1, RecordReplyStore
    <3> QED BY <1>1, <1>2, <3>1, QuietStep DEF Recoverable, Held
  <2>2. CASE ret'[p] = "ok" /\ reply[p] = "uncertain"
    <3> DEFINE new == Outcome(p, reply[p])
    <3>1. store'[plan[p]] = new
      BY <2>2, RecordReplyStore
    <3>2. rec[p] \in Record /\ rec[p] # Absent /\ rec[p].readable /\ clock \in Nat /\ req[p] # None
          /\ Protected(rec[p]) /\ clock < RecoveryExpiry(rec[p])
      BY <1>1, AbsentAssumption, NumberAssumption DEF Held, Evidence, Stored
    <3>3. new \in Record
      BY <3>2, OutcomeType
    <3>4. new.request = req[p] /\ new.start = IF rec[p].start = None THEN clock ELSE rec[p].start
      BY <3>2 DEF Outcome, Record
    <3>5. clock < RecoveryExpiry(new)
      BY <3>2, <3>4, SentinelAssumption, NumberAssumption, StoreAssumption DEF RecoveryExpiry
    <3>6. Protected(new) /\ new # Absent
      BY <3>2, <3>3, <3>4, AbsentAssumption DEF Protected
    <3> HIDE DEF new
    <3> QED BY <1>1, <1>2, <3>1, <3>2, <3>4, <3>5, <3>6 DEF Recoverable, Evidence, Stored
  <2> QED BY <1>3, <1>4, <2>1, <2>2
<1>7. Sound(p)'
  BY <1>1, <1>2, <1>3, <1>4, <1>5, <1>6
    DEF Sound, Staged, Ends, ReadIsRight, MarkIsFirst, SentAlone, RestoreIsSafe, Returned
<1>8. ASSUME NEW p1 \in Procs \ {p}
      PROVE  Sound(p1)'
  <2>1. Client(p)
    <3>1. Returned(p, {"mark", "readAll"})
      BY BoundHolds DEF RecordReply, Holds, Returned
    <3>2. RecordOutcome(p, reply[p]) /\ reply[p] \in {"applied", "uncertain", "failed"}
      BY RecordReplyStore
    <3> QED BY <3>1, <3>2 DEF Client
  <2> QED BY <1>2, <1>4, <2>1, OthersSound DEF StoreSteps
<1> QED BY <1>7, <1>8

LEMMA EndSound ==
  ASSUME ApplyInv, NEW p \in Procs, End(p) \/ Crash(p)
  PROVE  \A p1 \in Procs : Sound(p1)'
<1> USE DEF ApplyInv, Discipline, StoreInv, TypeOK, ApplyTypeOK
<1>1. /\ UNCHANGED <<file, consumed>> /\ stage' = [stage EXCEPT ![p] = "none"]
      /\ cmd' = [cmd EXCEPT ![p] = "none"] /\ reply' = [reply EXCEPT ![p] = None]
      /\ EndCommand(p) \/ Die(p)
  BY DEF End, Crash, Enter
<1>2. /\ op'[p] = "none" /\ ret'[p] = "none" /\ at'[p] = "idle" /\ plan'[p] = NoPlan
      /\ file[p] # None => p \in dead'
      /\ p \in lock' => p \in dead'
  <2>1. CASE End(p)
    <3>1. stage[p] # "sent" /\ EndCommand(p)
      BY <2>1 DEF End, Ends
    <3> QED BY <3>1 DEF EndCommand, Forget, Ready, At, Alive, Sound, Staged
  <2>2. CASE Crash(p)
    BY <2>2 DEF Crash, Die, Forget, Goto
  <2> QED BY <2>1, <2>2
<1>3. Sound(p)'
  BY <1>1, <1>2 DEF Sound, Staged, Ends, ReadIsRight, MarkIsFirst, SentAlone, RestoreIsSafe, Returned
<1>4. ASSUME NEW p1 \in Procs \ {p}
      PROVE  Sound(p1)'
  BY <1>1, OthersSound DEF StoreSteps, Client
<1> QED BY <1>3, <1>4

LEMMA PassSound ==
  ASSUME ApplyInv, Pass, PromptOperations
  PROVE  \A p1 \in Procs : Sound(p1)'
<1> SUFFICES ASSUME NEW p1 \in Procs PROVE Sound(p1)'
  OBVIOUS
<1>1. UNCHANGED <<cmd, stage, reply, file, consumed>>
  BY DEF Pass, applyVars
<1>2. Undisturbed(p1)
  <2>1. CASE Tick
    BY <2>1, TickUndisturbed DEF ApplyInv
  <2>2. ASSUME NEW p \in Procs, RecoverLock(p)
        PROVE  Undisturbed(p1)
    <3>1. /\ UNCHANGED <<store, clock, at, op, plan, rec, req, ret, dead>> /\ lock' = lock \ {p}
      BY <2>2 DEF RecoverLock, storeVars, cmdVars
    <3> QED BY <3>1, QuietStep DEF Undisturbed
  <2> QED BY <2>1, <2>2 DEF Pass
<1>3. SentAlone(p1)' /\ (Clean(plan[p1]) => Clean(plan[p1])')
  BY <1>1, <1>2 DEF Undisturbed, Clean, SentAlone, ApplyInv, Sound
<1> QED BY <1>1, <1>2, <1>3, SoundCarried

LEMMA NextSound ==
  ASSUME ApplyInv, ApplyNext, PromptOperations
  PROVE  \A p1 \in Procs : Sound(p1)'
<1>1. ASSUME NEW p \in Procs, StoreStep(p)
      PROVE  \A p1 \in Procs : Sound(p1)'
  <2>1. UNCHANGED <<file, consumed, cmd, stage, reply>> /\ StoreSteps(p)
    BY <1>1, InsideStages DEF StoreSteps
  <2>2. ASSUME NEW p1 \in Procs, p1 # p
        PROVE  Sound(p1)'
    BY <2>1, <2>2, OthersSound
  <2> QED BY <1>1, <2>2, InsideSound
<1> QED BY <1>1, StartSound, OtherSound, GiveUpSound, MarkSound, SendSound, NoAnswerSound, ConsumeSound,
           ExecuteSound, RecordReplySound, EndSound, PassSound
  DEF ApplyNext, Progress, Runtime

LEMMA InitApplyInv == ApplyInit => ApplyInv
<1> SUFFICES ASSUME ApplyInit PROVE ApplyInv
  OBVIOUS
<1>1. Discipline /\ TypeOK
  BY InitDiscipline DEF ApplyInit, Discipline, StoreInv
<1>2. ApplyTypeOK
  BY <1>1 DEF ApplyInit, ApplyTypeOK, Results, Ends
<1>3. \A q \in Plans, r \in Requests : ~Out(q, r)
  BY DEF ApplyInit, Out
<1>4. OutsAreBound /\ OneOut /\ Awaited
  BY <1>3 DEF OutsAreBound, OneOut, Awaited, ApplyInit
<1>5. ASSUME NEW p \in Procs
      PROVE  Sound(p)
  BY DEF ApplyInit, Init, Sound, Staged, ReadIsRight, MarkIsFirst, SentAlone, RestoreIsSafe, Returned, Ends
<1> QED BY <1>1, <1>2, <1>4, <1>5 DEF ApplyInv

LEMMA NextApplyInv == ApplyInv /\ [ApplyNext /\ Disciplined]_allVars => ApplyInv'
<1> SUFFICES ASSUME ApplyInv, [ApplyNext /\ Disciplined]_allVars PROVE ApplyInv'
  OBVIOUS
<1>1. Discipline' /\ TypeOK'
  BY AppliesDiscipline DEF Discipline, StoreInv
<1>2. CASE ApplyNext /\ Disciplined
  BY <1>1, <1>2, NextApplyTypeOK, NextOuts, NextAwaited, NextSound DEF ApplyInv, Disciplined
<1>3. CASE UNCHANGED allVars
  <2>1. UNCHANGED <<vars, cmd, stage, file, reply, running, consumed, applied, settled, waived>>
    BY <1>3 DEF allVars, applyVars
  <2>2. ApplyTypeOK'
    BY <1>1, <2>1 DEF ApplyInv, ApplyTypeOK
  <2>3. OutsAreBound' /\ OneOut'
    BY <2>1, QuietOuts DEF vars, storeVars, cmdVars
  <2>4. Awaited'
    BY <2>1 DEF ApplyInv, Awaited, vars, cmdVars
  <2>5. \A p \in Procs : Sound(p)'
    BY <2>1, QuietOthersSound
  <2> QED BY <1>1, <2>2, <2>3, <2>4, <2>5 DEF ApplyInv
<1> QED BY <1>2, <1>3

LEMMA AlwaysApplyInv == DisciplinedApplySpec => []ApplyInv
BY InitApplyInv, NextApplyInv, PTL DEF DisciplinedApplySpec

(***************************************************************************)
(* Theorems                                                                *)
(***************************************************************************)

\* Every variable of the commands, the request files and the Runtime keeps its
\* type.
THEOREM ApplyTypeCorrect == DisciplinedApplySpec => []ApplyTypeOK
<1>1. ApplyInv => ApplyTypeOK
  BY DEF ApplyInv
<1> QED BY AlwaysApplyInv, <1>1, PTL

\* A plan that has reached the Runtime without a final answer stays in the
\* store as evidence of that very request (README.md:108-119).
THEOREM EvidenceIsRetained == DisciplinedApplySpec => []EvidenceRetained
<1>1. ApplyInv => EvidenceRetained
  <2> SUFFICES ASSUME ApplyInv, NEW q \in Plans, consumed[q] # {}, q \notin settled \cup waived
               PROVE  store[q] # Absent /\ store[q].request \in consumed[q]
    BY DEF EvidenceRetained
  <2>1. PICK r \in consumed[q] : TRUE
    OBVIOUS
  <2>2. r \in Requests /\ Out(q, r)
    BY <2>1 DEF ApplyInv, ApplyTypeOK, Out
  <2> QED BY <2>1, <2>2 DEF ApplyInv, OutsAreBound
<1> QED BY AlwaysApplyInv, <1>1, PTL

\* At most one apply request of a plan ever reaches the Runtime.
THEOREM OneRequestReachesTheRuntime == DisciplinedApplySpec => []OneRequestPerPlan
<1>1. ApplyInv => OneRequestPerPlan
  <2> SUFFICES ASSUME ApplyInv, NEW q \in Plans
               PROVE  Cardinality(consumed[q]) <= 1
    BY DEF OneRequestPerPlan
  <2>1. \A r1, r2 \in consumed[q] : r1 = r2
    BY DEF ApplyInv, ApplyTypeOK, OneOut, Out
  <2>2. CASE consumed[q] = {}
    BY <2>2, FS_EmptySet
  <2>3. CASE consumed[q] # {}
    <3>1. PICK r : consumed[q] = {r}
      BY <2>1, <2>3
    <3>2. Cardinality({r}) = 1
      BY FS_Singleton
    <3> QED BY <3>1, <3>2
  <2> QED BY <2>2, <2>3
<1> QED BY AlwaysApplyInv, <1>1, PTL

\* "Retry the same stored plan" is said only of a plan of which no request has
\* been or will be seen by the Runtime, and "recover only this stored plan"
\* only of one that plan recover finds in the store.
THEOREM AdviceIsAlwaysTrue == DisciplinedApplySpec => []AdviceIsTrue
<1>1. ApplyInv => RetryIsSafe
  BY DEF ApplyInv, RetryIsSafe, Sound, Staged, RestoreIsSafe, Clean
<1>2. ApplyInv => RecoveryIsPossible
  BY DEF ApplyInv, RecoveryIsPossible, Sound, Recoverable
<1> QED BY AlwaysApplyInv, <1>1, <1>2, PTL DEF AdviceIsTrue

(***************************************************************************)
(* The ledger.  A record this version cannot decode is evidence for as     *)
(* long as it lies there, and never of a request that is out; what is      *)
(* removed has been decoded; only mark and restore take the lock, and a    *)
(* preview that is not over has reserved its planRef.                      *)
(***************************************************************************)

ForeignIsEvidence ==
  \A q \in Plans : store[q] # Absent /\ ~store[q].readable => Protected(store[q])
OutsAreReadable ==
  \A q \in Plans, r \in Requests : Out(q, r) /\ store[q] # Absent => store[q].readable
Uses(p) ==
  /\ op[p] = "store" /\ at[p] # "idle" => Storing(p)
  /\ at[p] = "lock" => op[p] \in {"mark", "restore"}
  /\ p \in lock => p \in dead \/ op[p] \in {"mark", "restore"}
  /\ at[p] = "remove" /\ store[plan[p]] # Absent => store[plan[p]].readable
LedgerInv == ForeignIsEvidence /\ OutsAreReadable /\ \A p \in Procs : Uses(p)

\* What is written can be decoded.
LEMMA WritesReadable ==
  ASSUME Discipline, NEW p \in Procs, Write(p)
  PROVE  Written(p).readable
<1>1. /\ at[p] = "write" /\ op[p] \in {"store", "mark", "restore"}
      /\ op[p] # "store" => rec[p] \in Record /\ rec[p].readable
  BY DEF Write, At, Discipline, StoreInv, TypeOK, Working, Parts, Memory, MarksItsOwn, Marking, RestoresItsOwn
<1>2. CASE op[p] = "store"
  BY <1>2 DEF Written, Fresh
<1>3. CASE op[p] = "mark"
  BY <1>1, <1>3 DEF Written, Record
<1>4. CASE op[p] = "restore"
  BY <1>1, <1>4 DEF Written, Record
<1> QED BY <1>1, <1>2, <1>3, <1>4

\* Every step leaves a file alone, removes it or writes it readable.
LEMMA FilesStayReadable ==
  ASSUME ApplyInv, ApplyNext, NEW q \in Plans, store'[q] # store[q], store'[q] # Absent
  PROVE  store'[q].readable
<1>1. Discipline /\ TypeOK
  BY DEF ApplyInv, Discipline, StoreInv
<1>2. ASSUME NEW p \in Procs, RecordReply(p) PROVE store'[q].readable
  <2>1. store'[q] = Outcome(p, reply[p])
    BY <1>2, RecordReplyStore
  <2>2. rec[p] \in Record /\ rec[p].readable
    BY <1>1, <1>2, BoundHolds, AbsentAssumption DEF RecordReply, Held, Evidence, Stored, TypeOK
  <2> QED BY <2>1, <2>2 DEF Outcome, Record
<1>3. ASSUME NEW p \in Procs, StoreStep(p) PROVE store'[q].readable
  <2>1. Write(p) /\ plan[p] = q
    BY <1>1, <1>3, InsideWrites DEF StoreStep
  <2>2. store'[q] = Written(p)
    BY <1>1, <2>1 DEF Write, Put, TypeOK
  <2> QED BY <1>1, <2>1, <2>2, WritesReadable
<1>4. ASSUME NEW p \in Procs, FailBeforeSend(p) \/ NoAnswer(p) PROVE FALSE
  BY <1>4 DEF FailBeforeSend, NoAnswer, Unanswered, CallRestore, vars, storeVars
<1>5. ASSUME NEW p \in Procs, \/ Refuse(p) \/ Decline(p) \/ MarkFails(p) \/ Send(p) \/ Restored(p)
                              \/ Consume(p) \/ Mark(p) \/ End(p) \/ Crash(p) \/ Other(p)
      PROVE  FALSE
  BY <1>5 DEF Refuse, Decline, MarkFails, Send, Restored, Consume, Mark, CallMark, End, EndCommand,
    Crash, Die, Other, CallStore, CallList, CallLoad, vars, storeVars
<1>6. ASSUME NEW p \in Procs, NEW x \in used, NEW name \in {"apply", "recover"}, Start(p, x, name)
      PROVE  FALSE
  BY <1>6 DEF Start, CallLoad, storeVars
<1>7. ASSUME NEW j \in running, NEW result \in Results, Execute(j, result) PROVE FALSE
  BY <1>7 DEF Execute, vars, storeVars
<1>8. CASE Pass
  BY <1>8 DEF Pass, Tick, RecoverLock, storeVars
<1> QED BY <1>2, <1>3, <1>4, <1>5, <1>6, <1>7, <1>8 DEF ApplyNext, Progress, Runtime

LEMMA NewOuts ==
  ASSUME ApplyInv, ApplyNext, NEW q \in Plans, NEW r \in Requests, Out(q, r)', ~Out(q, r)
  PROVE  \E p \in Procs : Send(p) /\ q = plan[p]
<1>1. file \in [Procs -> (Plans \X Requests) \cup {None}] /\ consumed \in [Plans -> SUBSET Requests]
  BY DEF ApplyInv, ApplyTypeOK
<1>2. CASE consumed' = consumed /\ \A p \in Procs : file'[p] \in {file[p], None}
  BY <1>2 DEF Out
<1>3. ASSUME NEW p \in Procs, StoreStep(p) \/ Refuse(p) \/ Decline(p) \/ MarkFails(p) \/ Restored(p)
                              \/ Mark(p) \/ End(p) \/ Crash(p) \/ Other(p) \/ FailBeforeSend(p)
                              \/ NoAnswer(p) \/ RecordReply(p)
      PROVE  consumed' = consumed /\ \A p1 \in Procs : file'[p1] \in {file[p1], None}
  BY <1>1, <1>3 DEF StoreStep, Refuse, Decline, MarkFails, Restored, Mark, End, Crash, Other,
    FailBeforeSend, NoAnswer, RecordReply, applyVars
<1>4. ASSUME NEW p \in Procs, NEW x \in used, NEW name \in {"apply", "recover"}, Start(p, x, name)
      PROVE  consumed' = consumed /\ \A p1 \in Procs : file'[p1] \in {file[p1], None}
  BY <1>4 DEF Start
<1>5. ASSUME NEW p \in Procs, Send(p)
      PROVE  q = plan[p]
  BY <1>1, <1>5 DEF Send, Out
<1>6. ASSUME NEW p \in Procs, Consume(p)
      PROVE  FALSE
  <2>1. file[p] # None /\ file[p] = <<file[p][1], file[p][2]>>
    BY <1>1, <1>6 DEF Consume
  <2>2. r \notin consumed[q] /\ file[p] # <<q, r>>
    BY <2>1 DEF Out
  <2>3. r \notin consumed'[q] /\ \A p1 \in Procs : file'[p1] \in {file[p1], None}
    BY <1>1, <1>6, <2>1, <2>2 DEF Consume
  <2> QED BY <2>3 DEF Out
<1>7. ASSUME NEW j \in running, NEW result \in Results, Execute(j, result)
      PROVE  consumed' = consumed /\ \A p1 \in Procs : file'[p1] \in {file[p1], None}
  BY <1>7 DEF Execute
<1>8. CASE Pass
  BY <1>2, <1>8 DEF Pass, applyVars
<1> QED BY <1>2, <1>3, <1>4, <1>5, <1>6, <1>7, <1>8 DEF ApplyNext, Progress, Runtime

LEMMA UsesInside ==
  ASSUME ApplyInv, LedgerInv, NEW p \in Procs, Inside(p)
  PROVE  Uses(p)'
<1>1. TypeOK /\ Uses(p) /\ Working(p) /\ op' = op /\ plan' = plan /\ at[p] # "idle"
  BY InsideFrame DEF ApplyInv, ApplyTypeOK, Discipline, StoreInv, LedgerInv
<1>2. RemovesNoEvidence(p)
  BY DEF ApplyInv, Discipline, Parts, Removals
<1>3. at[p] = "load" /\ Load(p) = "ok" => Mine(p).readable
  BY LoadsInForce DEF ApplyInv
<1> USE <1>1, <1>2 DEF TypeOK, Uses, Storing, At, Alive, Goto, Return, Sweeps, storeVars
<1>4. CASE Lock(p) \/ LockTimeout(p)
  BY <1>4 DEF Lock, LockTimeout
<1>5. CASE Unlock(p)
  BY <1>5 DEF Unlock
<1>6. CASE LoadFails(p) \/ LoadRead(p) \/ LoadRestore(p)
  BY <1>6 DEF LoadFails, LoadRead, LoadRestore
<1>7. CASE LoadRemove(p) \/ LoadMark(p)
  BY <1>3, <1>7 DEF LoadRemove, LoadMark, Mine
<1>8. CASE Evict(p) \/ Remove(p)
  BY <1>8 DEF Evict, Remove, RemovesNoEvidence
<1>9. CASE SweepRead(p) \/ SweepDone(p)
  BY <1>9 DEF SweepRead, SweepDone, Working
<1>10. CASE SweepEvict(p)
  BY <1>10 DEF SweepEvict, Working
<1>11. CASE Write(p)
  BY <1>11 DEF Write
<1> QED BY <1>4, <1>5, <1>6, <1>7, <1>8, <1>9, <1>10, <1>11 DEF Inside

LEMMA UsesClient ==
  ASSUME ApplyInv, LedgerInv, NEW p \in Procs, Client(p) \/ RecoverLock(p) \/ Die(p)
  PROVE  Uses(p)'
<1>1. TypeOK /\ Uses(p) /\ (p \in lock => p \in dead \/ at[p] # "idle")
  BY DEF ApplyInv, ApplyTypeOK, LedgerInv, Sound, Staged
<1> USE <1>1 DEF TypeOK, Uses, Storing, Begin, Ready, At, Alive, Goto, Return
<1>2. CASE CallStore(p) \/ CallList(p) \/ EndCommand(p) \/ CallMark(p) \/ CallRestore(p)
  BY <1>2 DEF CallStore, CallList, EndCommand, CallMark, CallRestore
<1>3. CASE \E q \in used, name \in {"read", "readAll", "discard", "abandon"} : CallLoad(p, q, name)
  BY <1>3 DEF CallLoad
<1>4. CASE \E result \in {"applied", "uncertain", "failed"} : RecordOutcome(p, result)
  BY <1>4, RecordsExact DEF Recording
<1>5. CASE RecoverLock(p)
  BY <1>5 DEF RecoverLock, storeVars, cmdVars
<1>6. CASE Die(p)
  BY <1>6 DEF Die
<1> QED BY <1>2, <1>3, <1>4, <1>5, <1>6 DEF Client

LEMMA NextUses ==
  ASSUME ApplyInv, LedgerInv, ApplyNext
  PROVE  \A p1 \in Procs : Uses(p1)'
<1> SUFFICES ASSUME NEW p1 \in Procs PROVE Uses(p1)'
  OBVIOUS
<1>1. Uses(p1) /\ Working(p1)
  BY DEF LedgerInv, ApplyInv, Discipline, StoreInv
<1>2. ASSUME NEW p \in Procs, StoreSteps(p), p # p1
      PROVE  Uses(p1)'
  <2>1. Undisturbed(p1)
    BY <1>2, OthersUndisturbed DEF ApplyInv
  <2>2. at[p1] = "remove" => plan[p1] \in Plans
    BY <1>1 DEF Working, AtPlan
  <2> QED BY <1>1, <2>1, <2>2 DEF Undisturbed, Uses, Storing
<1>3. CASE Tick \/ UNCHANGED vars
  BY <1>1, <1>3 DEF Tick, Uses, Storing, vars, storeVars, cmdVars
<1> QED BY <1>2, <1>3, StoreTakesPart, UsesInside, UsesClient DEF StoreNext, StoreSteps

LEMMA NextLedgerInv ==
  ASSUME ApplyInv, LedgerInv, ApplyNext
  PROVE  LedgerInv'
<1>1. ForeignIsEvidence'
  BY FilesStayReadable DEF LedgerInv, ForeignIsEvidence
<1>2. ASSUME NEW q \in Plans, NEW r \in Requests, Out(q, r)', store'[q] # Absent
      PROVE  store'[q].readable
  <2>1. CASE store'[q] # store[q]
    BY <1>2, <2>1, FilesStayReadable
  <2>2. CASE store'[q] = store[q]
    <3>1. store[q].readable
      BY <1>2, <2>2, NewOuts, BoundHolds DEF LedgerInv, OutsAreReadable, Send, Held
    <3> QED BY <2>2, <3>1
  <2> QED BY <2>1, <2>2
<1> QED BY <1>1, <1>2, NextUses DEF LedgerInv, OutsAreReadable

\* How the ledger reads a step that concerns one plan and sends nothing.
Moves(x) ==
  \/ Phase(x)' = Phase(x)
  \/ Phase(x) = "none" /\ Phase(x)' = "prepared"
  \/ Phase(x) = "prepared" /\ Phase(x)' = "bound"
  \/ Phase(x) = "bound" /\ Phase(x)' = "prepared" /\ consumed[x] = {}
  \/ Phase(x) \in {"none", "prepared"} /\ Phase(x)' = "gone" /\ consumed[x] = {}
  \/ Phase(x) = "bound" /\ Phase(x)' = "settled"
  \/ Phase(x) \in {"bound", "settled"} /\ Phase(x)' = "gone"

LEMMA MovesInLedger ==
  ASSUME NEW x \in Plans, Moves(x), consumed' = consumed,
         \A q \in Plans \ {x} : Phase(q)' = Phase(q)
  PROVE  [Ledger!LedgerNext]_(Ledger!ledgerVars)
<1> DEFINE phase == [q \in Plans |-> Phase(q)]
           sent == {q \in Plans : consumed[q] # {}}
<1>1. sent' = sent /\ phase' = [q \in Plans |-> Phase(q)']
  OBVIOUS
<1>2. phase' = [phase EXCEPT ![x] = Phase(x)']
  BY <1>1
<1>3. phase[x] = Phase(x) /\ (consumed[x] = {} => x \notin sent)
  OBVIOUS
<1>4. CASE Phase(x)' = Phase(x)
  <2>1. phase' = phase
    BY <1>1, <1>4
  <2> QED BY <1>1, <2>1 DEF Ledger!ledgerVars
<1> HIDE DEF phase, sent
<1> USE DEF Ledger!LedgerNext, Ledger!Become
<1>5. CASE Phase(x) = "none" /\ Phase(x)' = "prepared"
  BY <1>1, <1>2, <1>3, <1>5 DEF Ledger!Prepare, phase, sent
<1>6. CASE Phase(x) = "prepared" /\ Phase(x)' = "bound"
  BY <1>1, <1>2, <1>3, <1>6 DEF Ledger!Bind, phase, sent
<1>7. CASE Phase(x) = "bound" /\ Phase(x)' = "prepared" /\ consumed[x] = {}
  BY <1>1, <1>2, <1>3, <1>7 DEF Ledger!Unbind, phase, sent
<1>8. CASE Phase(x) \in {"none", "prepared"} /\ Phase(x)' = "gone" /\ consumed[x] = {}
  BY <1>1, <1>2, <1>3, <1>8 DEF Ledger!Drop, phase, sent
<1>9. CASE Phase(x) = "bound" /\ Phase(x)' = "settled"
  BY <1>1, <1>2, <1>3, <1>9 DEF Ledger!Settle, phase, sent
<1>10. CASE Phase(x) \in {"bound", "settled"} /\ Phase(x)' = "gone"
  BY <1>1, <1>2, <1>3, <1>10 DEF Ledger!Forget, phase, sent
<1> QED BY <1>4, <1>5, <1>6, <1>7, <1>8, <1>9, <1>10 DEF Moves

\* Phases by what they are made of.
LEMMA PhaseKept ==
  ASSUME NEW q, store'[q] = store[q], q \in used' <=> q \in used, Reserved(q)' <=> Reserved(q)
  PROVE  Phase(q)' = Phase(q)
BY DEF Phase

\* A planRef is reserved for as long as its process is inside storeMutationPlanV1.
LEMMA ReservedIsStoring ==
  ASSUME LedgerInv, NEW q, Reserved(q)
  PROVE  \E p \in Procs : Storing(p) /\ plan[p] = q
BY DEF Reserved, Alive, LedgerInv, Uses

\* What goes has been decoded, and nothing is out for it or it was bound.
LEMMA GoneInLedger ==
  ASSUME ApplyInv, LedgerInv, NEW x \in Plans, store[x] # Absent, store[x].readable,
         store'[x] = Absent, used' = used, Reserved(x)' => Reserved(x)
  PROVE  Moves(x)
<1>1. ~Reserved(x)
  BY ReservedIsStoring DEF ApplyInv, Discipline, Parts, Memory, StoresNew
<1>2. x \in used
  BY DEF ApplyInv, Discipline, Parts, KnownPlans, Stored
<1>3. Phase(x)' = "gone"
  BY <1>1, <1>2 DEF Phase
<1>4. CASE Protected(store[x])
  <2>1. Phase(x) \in {"bound", "settled"}
    BY <1>4 DEF Phase
  <2> QED BY <1>3, <2>1 DEF Moves
<1>5. CASE ~Protected(store[x])
  <2>1. Phase(x) = "prepared" /\ store[x].request = None
    BY <1>5, SentinelAssumption DEF Phase, Protected
  <2>2. consumed[x] = {}
    BY <2>1, UnboundIsClean DEF Clean
  <2> QED BY <1>3, <2>1, <2>2 DEF Moves
<1> QED BY <1>4, <1>5

\* A preview that fails, or dies, has stored nothing.
LEMMA UnstoredInLedger ==
  ASSUME ApplyInv, NEW p \in Procs, NEW x \in Plans, Storing(p), plan[p] = x,
         store' = store, used' = used
  PROVE  Moves(x)
<1>1. store[x] = Absent /\ x \in used
  BY SentinelAssumption DEF ApplyInv, Discipline, StoreInv, Working, AtPlan, Parts, Memory, StoresNew, Storing, KnownPlans
<1>2. consumed[x] = {}
  <2>1. \A r \in Requests : ~Out(x, r)
    BY <1>1 DEF ApplyInv, OutsAreBound
  <2> QED BY <1>1, <2>1 DEF ApplyInv, ApplyTypeOK, Out
<1>3. Reserved(x)
  BY DEF Reserved, Alive, Storing, ApplyInv, Discipline, Parts, NowIsNow
<1>4. Phase(x) = "none" /\ Phase(x)' \in {"none", "gone"}
  BY <1>1, <1>3 DEF Phase
<1> QED BY <1>2, <1>4 DEF Moves

LEMMA StaysInLedger ==
  ASSUME consumed' = consumed, \A q \in Plans : Phase(q)' = Phase(q)
  PROVE  [Ledger!LedgerNext]_(Ledger!ledgerVars)
<1> DEFINE phase == [q \in Plans |-> Phase(q)]
<1>1. phase' = [q \in Plans |-> Phase(q)']
  OBVIOUS
<1>2. phase' = phase
  BY <1>1
<1>3. UNCHANGED {q \in Plans : consumed[q] # {}}
  OBVIOUS
<1> QED BY <1>2, <1>3 DEF Ledger!ledgerVars

LEMMA ReservedKept ==
  ASSUME ApplyInv, LedgerInv, Discipline', LedgerInv', NEW p \in Procs, StoreSteps(p), NEW q,
         (Storing(p)' /\ plan'[p] = q) <=> (Storing(p) /\ plan[p] = q)
  PROVE  Reserved(q)' <=> Reserved(q)
<1>1. Reserved(q) <=> \E p1 \in Procs : Storing(p1) /\ plan[p1] = q
  BY DEF Reserved, Alive, Storing, LedgerInv, Uses, ApplyInv, Discipline, Parts, NowIsNow
<1>2. Reserved(q)' <=> \E p1 \in Procs : Storing(p1)' /\ plan'[p1] = q
  BY DEF Reserved, Alive, Storing, LedgerInv, Uses, Discipline, Parts, NowIsNow
<1>3. \A p1 \in Procs \ {p} : (Storing(p1)' <=> Storing(p1)) /\ plan'[p1] = plan[p1]
  BY OthersLocals DEF ApplyInv, ApplyTypeOK, Storing
<1> QED BY <1>1, <1>2, <1>3

\* A call, the end of a command and a crash change no phase but that of a
\* planRef whose preview dies.
LEMMA ClientInLedger ==
  ASSUME ApplyInv, LedgerInv, Discipline', LedgerInv', NEW p \in Procs,
         Client(p) \/ RecoverLock(p) \/ Die(p), store' = store, consumed' = consumed
  PROVE  [Ledger!LedgerNext]_(Ledger!ledgerVars)
<1>1. TypeOK /\ StoreSteps(p) /\ (Storing(p) => plan[p] \in Plans)
  BY DEF StoreSteps, ApplyInv, ApplyTypeOK, Storing, Discipline, StoreInv, Working, AtPlan
<1>2. CASE CallStore(p)
  <2>1. PICK x \in Plans \ used : plan' = [plan EXCEPT ![p] = x] /\ used' = used \cup {x}
    BY <1>2 DEF CallStore
  <2>2. Storing(p)' /\ plan'[p] = x /\ ~Storing(p)
    BY <1>1, <1>2, <2>1 DEF CallStore, Begin, Ready, At, Goto, Storing, TypeOK
  <2>3. Phase(x) = "none" /\ Phase(x)' = "none"
    <3>1. store[x] = Absent
      BY <2>1 DEF ApplyInv, Discipline, Parts, KnownPlans, Stored
    <3>2. Reserved(x)'
      BY <2>2 DEF Reserved, Alive, Storing, Discipline, Parts, NowIsNow
    <3> QED BY <2>1, <3>1, <3>2 DEF Phase
  <2>4. ASSUME NEW q \in Plans \ {x} PROVE Phase(q)' = Phase(q)
    BY <1>1, <2>1, <2>2, ReservedKept, PhaseKept
  <2> QED BY <2>3, <2>4, StaysInLedger
<1>3. CASE ~CallStore(p)
  <2>1. used' = used /\ ~Storing(p)' /\ (Storing(p) => Die(p))
    <3> USE <1>1 DEF TypeOK, Storing, Begin, Ready, At, Goto, Return, storeVars
    <3>1. CASE CallList(p) \/ EndCommand(p) \/ CallMark(p) \/ CallRestore(p)
      BY <3>1 DEF CallList, EndCommand, CallMark, CallRestore
    <3>2. CASE \E q \in used, name \in {"read", "readAll", "discard", "abandon"} : CallLoad(p, q, name)
      BY <3>2 DEF CallLoad
    <3>3. CASE \E result \in {"applied", "uncertain", "failed"} : RecordOutcome(p, result)
      BY <3>3, RecordsExact DEF Recording
    <3>4. CASE RecoverLock(p)
      BY <3>4 DEF RecoverLock, ApplyInv, Discipline, Parts, NowIsNow
    <3>5. CASE Die(p)
      BY <3>5 DEF Die
    <3> QED BY <1>3, <3>1, <3>2, <3>3, <3>4, <3>5 DEF Client
  <2>2. ASSUME NEW q \in Plans, ~(Storing(p) /\ plan[p] = q) PROVE Phase(q)' = Phase(q)
    BY <1>1, <2>1, <2>2, ReservedKept, PhaseKept
  <2>3. CASE ~Storing(p)
    BY <2>2, <2>3, StaysInLedger
  <2>4. CASE Storing(p)
    <3>1. PICK x \in Plans : x = plan[p]
      BY <1>1, <2>4
    <3>2. Moves(x)
      BY <2>1, <2>4, <3>1, UnstoredInLedger
    <3> QED BY <2>2, <3>1, <3>2, MovesInLedger
  <2> QED BY <2>3, <2>4
<1> QED BY <1>2, <1>3

\* Where a preview is, over a step of its store operation.
LEMMA InsideEffects ==
  ASSUME ApplyInv, LedgerInv, NEW p \in Procs, Inside(p)
  PROVE  \/ store' = store
         \/ Write(p)
         \/ /\ Storing(p)' <=> Storing(p)
            /\ \E x \in Plans : /\ store' = [store EXCEPT ![x] = Absent]
                                /\ store[x] # Absent => store[x].readable
<1> USE DEF ApplyInv, Discipline, StoreInv, TypeOK, Working, AtPlan, At, Put, Goto, Return, storeVars
<1>1. CASE Evict(p)
  <2>1. plan[p] \in Plans /\ store' = [store EXCEPT ![plan[p]] = Absent]
    BY <1>1 DEF Evict
  <2>2. store[plan[p]] # Absent => store[plan[p]].readable
    <3>1. plan[p] \notin Evidence
      BY <1>1 DEF Evict, Parts, Removals, RemovesNoEvidence
    <3> QED BY <2>1, <3>1 DEF LedgerInv, ForeignIsEvidence, Evidence, Stored
  <2>3. ~Storing(p) /\ ~Storing(p)'
    BY <1>1 DEF Evict, Storing
  <2> QED BY <2>1, <2>2, <2>3
<1>2. CASE Remove(p)
  <2>1. plan[p] \in Plans /\ store' = [store EXCEPT ![plan[p]] = Absent]
        /\ (store[plan[p]] # Absent => store[plan[p]].readable)
    BY <1>2 DEF Remove, LedgerInv, Uses
  <2>2. ~Storing(p) /\ ~Storing(p)'
    BY <1>2 DEF Remove, Storing
  <2> QED BY <2>1, <2>2
<1>3. CASE SweepEvict(p)
  <2>1. target[p] \in Plans /\ Over(target[p])
    BY <1>3 DEF SweepEvict, Parts, Removals, SweepsOver
  <2>2. store' = store \/ ((Storing(p)' <=> Storing(p)) /\ store' = [store EXCEPT ![target[p]] = Absent])
    BY <1>3 DEF SweepEvict, Storing
  <2> QED BY <2>1, <2>2 DEF Over
<1>4. CASE \/ Lock(p) \/ LockTimeout(p) \/ Unlock(p) \/ LoadFails(p) \/ LoadRead(p)
           \/ LoadRemove(p) \/ LoadMark(p) \/ LoadRestore(p) \/ SweepRead(p) \/ SweepDone(p)
  BY <1>4 DEF Lock, LockTimeout, Unlock, LoadFails, LoadRead, LoadRemove, LoadMark,
    LoadRestore, SweepRead, SweepDone
<1> QED BY <1>1, <1>2, <1>3, <1>4 DEF Inside

\* A new plan is prepared, a mark binds one, a restore takes a binding back.
LEMMA WriteInLedger ==
  ASSUME ApplyInv, LedgerInv, Discipline', LedgerInv', NEW p \in Procs, Write(p),
         NEW x \in Plans, x = plan[p], UNCHANGED <<file, consumed>>
  PROVE  Moves(x)
<1> USE DEF ApplyInv, Discipline, StoreInv, TypeOK
<1>1. /\ at[p] = "write" /\ op[p] \in {"store", "mark", "restore"} /\ p \notin dead
      /\ op[p] # "store" => rec[p] \in Record /\ rec[p].readable
      /\ store'[x] = Written(p) /\ Written(p) # Absent /\ Written(p).readable
  <2>1. Written(p) \in Record /\ Written(p).readable
    BY WrittenType, WritesReadable DEF Write, At
  <2> QED BY <2>1, AbsentAssumption
      DEF Write, At, Alive, Put, Working, Parts, Memory, MarksItsOwn, Marking, RestoresItsOwn
<1>2. CASE op[p] = "store"
  <2>1. store[x] = Absent /\ Reserved(x)
    BY <1>1, <1>2 DEF Parts, Memory, StoresNew, Storing, Reserved, Alive
  <2>2. Phase(x) = "none"
    BY <2>1 DEF Phase
  <2>3. Phase(x)' = "prepared"
    <3>1. ~Protected(Written(p)) /\ Written(p).outcome # "terminal"
      BY <1>2, SentinelAssumption DEF Written, Fresh, Protected
    <3> HIDE DEF ApplyInv, Discipline, StoreInv, TypeOK
    <3> QED BY <1>1, <3>1 DEF Phase
  <2> QED BY <2>2, <2>3 DEF Moves
<1>3. CASE op[p] = "mark"
  <2>1. store[x] = rec[p] /\ rec[p].request = None /\ rec[p].outcome = None /\ req[p] # None /\ rec[p] # Absent
    BY <1>1, <1>3 DEF Parts, Memory, MarksItsOwn, Marking, DecodeInv, Decodable, InMark, Working
  <2>2. Phase(x) = "prepared"
    BY <1>1, <1>3, <2>1, SentinelAssumption DEF Phase, Protected
  <2>3. Written(p).request = req[p] /\ Written(p).outcome = None
    BY <1>1, <1>3, <2>1 DEF Written, Record
  <2>4. Protected(Written(p)) /\ Written(p).outcome # "terminal"
    BY <2>1, <2>3, SentinelAssumption DEF Protected
  <2>5. Phase(x)' = "bound"
    <3> HIDE DEF ApplyInv, Discipline, StoreInv, TypeOK
    <3> QED BY <1>1, <2>4 DEF Phase
  <2> QED BY <2>2, <2>5 DEF Moves
<1>4. CASE op[p] = "restore"
  <2>1. store[x] = rec[p] /\ Protected(rec[p]) /\ rec[p].outcome = None /\ rec[p] # Absent
    BY <1>1, <1>4 DEF Parts, Memory, RestoresItsOwn, DecodeInv, Working
  <2>2. Phase(x) = "bound"
    BY <1>1, <1>4, <2>1, SentinelAssumption DEF Phase
  <2>3. Written(p).request = None /\ Written(p).outcome = None
    BY <1>1, <1>4, <2>1 DEF Written, Record
  <2>4. ~Protected(Written(p)) /\ Written(p).outcome # "terminal"
    BY <2>3, SentinelAssumption DEF Protected
  <2>5. Phase(x)' = "prepared"
    <3> HIDE DEF ApplyInv, Discipline, StoreInv, TypeOK
    <3> QED BY <1>1, <2>4 DEF Phase
  <2>6. consumed[x] = {}
    BY <1>4 DEF Sound, RestoreIsSafe, Clean
  <2> QED BY <2>2, <2>5, <2>6 DEF Moves
<1> QED BY <1>1, <1>2, <1>3, <1>4

LEMMA InsideInLedger ==
  ASSUME ApplyInv, LedgerInv, Discipline', LedgerInv', NEW p \in Procs, StoreStep(p)
  PROVE  [Ledger!LedgerNext]_(Ledger!ledgerVars)
<1>1. /\ Discipline /\ TypeOK /\ StoreInv /\ Inside(p) /\ StoreSteps(p)
      /\ UNCHANGED <<used, op, plan, file, consumed>>
  BY InsideStages DEF StoreSteps
<1>2. Storing(p)' => Storing(p)
  BY <1>1, InsideStoring
<1>3. ASSUME NEW q \in Plans, store'[q] = store[q], Storing(p) /\ plan[p] = q => Storing(p)'
      PROVE  Phase(q)' = Phase(q)
  BY <1>1, <1>2, <1>3, ReservedKept, PhaseKept
<1>4. Storing(p) => plan[p] \in Plans
  BY <1>1 DEF Storing, StoreInv, Working, AtPlan
<1>5. CASE store' = store
  <2>1. CASE Storing(p) /\ ~Storing(p)'
    <3>1. PICK x \in Plans : x = plan[p]
      BY <1>4, <2>1
    <3>2. Moves(x)
      BY <1>1, <1>5, <2>1, <3>1, UnstoredInLedger
    <3> QED BY <1>1, <1>3, <1>5, <3>1, <3>2, MovesInLedger
  <2>2. CASE ~(Storing(p) /\ ~Storing(p)')
    BY <1>1, <1>3, <1>5, <2>2, StaysInLedger
  <2> QED BY <2>1, <2>2
<1>6. CASE Write(p)
  <2>1. PICK x \in Plans : x = plan[p]
    BY <1>1, <1>6 DEF Write, At, StoreInv, Working, AtPlan
  <2>2. Moves(x)
    BY <1>1, <1>6, <2>1, WriteInLedger
  <2>3. \A q \in Plans \ {x} : store'[q] = store[q]
    BY <1>1, <1>6, <2>1 DEF Write, Put, TypeOK
  <2> QED BY <1>1, <1>3, <2>1, <2>2, <2>3, MovesInLedger
<1>7. CASE /\ Storing(p)' <=> Storing(p)
           /\ \E x \in Plans : /\ store' = [store EXCEPT ![x] = Absent]
                               /\ store[x] # Absent => store[x].readable
  <2>1. PICK x \in Plans : /\ store' = [store EXCEPT ![x] = Absent]
                           /\ store[x] # Absent => store[x].readable
    BY <1>7
  <2>2. store'[x] = Absent /\ \A q \in Plans \ {x} : store'[q] = store[q]
    BY <1>1, <2>1 DEF TypeOK
  <2>3. CASE store[x] = Absent
    <3>1. \A q \in Plans : store'[q] = store[q]
      BY <2>2, <2>3
    <3> QED BY <1>1, <1>3, <1>7, <3>1, StaysInLedger
  <2>4. CASE store[x] # Absent
    <3>1. Reserved(x)' <=> Reserved(x)
      BY <1>1, <1>7, ReservedKept
    <3>2. Moves(x)
      BY <1>1, <2>1, <2>2, <2>4, <3>1, GoneInLedger
    <3> QED BY <1>1, <1>3, <1>7, <2>2, <3>2, MovesInLedger
  <2> QED BY <2>3, <2>4
<1> QED BY <1>1, <1>5, <1>6, <1>7, InsideEffects

\* A final answer settles the plan or removes it.
LEMMA RecordInLedger ==
  ASSUME ApplyInv, LedgerInv, Discipline', LedgerInv', NEW p \in Procs, RecordReply(p)
  PROVE  [Ledger!LedgerNext]_(Ledger!ledgerVars)
<1>1. /\ UNCHANGED <<used, consumed>> /\ plan[p] \in Plans
      /\ reply[p] \in {"applied", "uncertain", "failed"} /\ RecordOutcome(p, reply[p])
      /\ at[p] = "idle" /\ at'[p] = "idle"
      /\ ret'[p] = "ok" \/ store' = store
  <2>1. UNCHANGED <<used, consumed>>
    BY DEF RecordReply, RecordOutcome
  <2> QED BY <2>1, RecordReplyStore, BoundHolds DEF RecordReply
<1>2. ~Storing(p) /\ ~Storing(p)'
  BY <1>1 DEF Storing
<1>3. StoreSteps(p)
  BY <1>1, BoundHolds DEF RecordReply, StoreSteps, Client, Holds, Returned
<1>4. ASSUME NEW q \in Plans PROVE Reserved(q)' <=> Reserved(q)
  BY <1>2, <1>3, ReservedKept
<1>5. ASSUME NEW q \in Plans, store'[q] = store[q] PROVE Phase(q)' = Phase(q)
  BY <1>1, <1>4, <1>5, PhaseKept
<1>6. PICK x \in Plans : x = plan[p]
  BY <1>1
<1>7. \A q \in Plans \ {x} : store'[q] = store[q]
  BY <1>6, RecordReplyStore
<1>8. /\ rec[p] = store[x] /\ store[x] # Absent /\ store[x] \in Record /\ store[x].readable
      /\ store[x].request # None
  BY <1>6, BoundHolds, AbsentAssumption
    DEF RecordReply, Held, Evidence, Stored, ApplyInv, ApplyTypeOK, TypeOK
<1>9. CASE store' = store
  BY <1>1, <1>5, <1>9, StaysInLedger
<1>10. CASE ret'[p] = "ok" /\ reply[p] = "failed"
  <2>1. store'[x] = Absent
    BY <1>6, <1>10, RecordReplyStore
  <2>2. Moves(x)
    BY <1>1, <1>4, <1>8, <2>1, GoneInLedger
  <2> QED BY <1>1, <1>5, <1>7, <2>2, MovesInLedger
<1>11. CASE ret'[p] = "ok" /\ reply[p] # "failed" /\ store' # store
  <2> DEFINE new == Outcome(p, reply[p])
  <2>1. store'[x] = new /\ Protected(store[x]) /\ req[p] # None
    BY <1>6, <1>8, <1>11, RecordReplyStore, BoundHolds DEF Protected, RecordReply, Held
  <2>2. /\ new \in Record /\ new.request = req[p] /\ new.readable
        /\ new.outcome = IF reply[p] = "applied" THEN "terminal" ELSE "uncertain"
    <3>1. new \in Record
      BY <1>8, OutcomeType DEF ApplyInv, ApplyTypeOK
    <3>2. Recording(p, reply[p])
      BY <1>1, RecordsExact DEF ApplyInv, ApplyTypeOK
    <3>3. new.outcome # "clash"
      BY <1>11, <3>2 DEF Recording, Decodable, Return
    <3>4. new.request = req[p] /\ new.readable
          /\ new.outcome = IF reply[p] = "applied" THEN "terminal" ELSE "uncertain"
      BY <1>1, <1>8, <3>3 DEF Outcome, Record
    <3> QED BY <3>1, <3>4
  <2>3. reply[p] = "uncertain" => store[x].outcome # "terminal"
    BY <1>8, <2>2, SentinelAssumption DEF Outcome, Record
  <2>4. Phase(x) = IF store[x].outcome = "terminal" THEN "settled" ELSE "bound"
    BY <1>8, <2>1 DEF Phase
  <2>5. Phase(x)' = IF reply[p] = "applied" THEN "settled" ELSE "bound"
    <3>1. Protected(new) /\ new # Absent
      BY <2>1, <2>2, AbsentAssumption DEF Protected
    <3> HIDE DEF new
    <3> QED BY <2>1, <2>2, <3>1 DEF Phase
  <2>6. Moves(x)
    BY <1>1, <1>11, <2>3, <2>4, <2>5 DEF Moves
  <2> QED BY <1>1, <1>5, <1>7, <2>6, MovesInLedger
<1> QED BY <1>1, <1>9, <1>10, <1>11

\* What the Runtime consumes is of a plan that is bound, settled or gone.
LEMMA ConsumeInLedger ==
  ASSUME ApplyInv, LedgerInv, NEW p \in Procs, Consume(p)
  PROVE  [Ledger!LedgerNext]_(Ledger!ledgerVars)
<1>1. /\ file[p] # None /\ file[p] \in Plans \X Requests /\ UNCHANGED <<vars>>
      /\ consumed' = [consumed EXCEPT ![file[p][1]] = @ \cup {file[p][2]}]
      /\ consumed \in [Plans -> SUBSET Requests]
  BY DEF Consume, ApplyInv, ApplyTypeOK
<1>2. PICK x \in Plans, r \in Requests : file[p] = <<x, r>>
  BY <1>1
<1>3. \A q \in Plans : Phase(q)' = Phase(q)
  BY <1>1 DEF vars, storeVars, cmdVars, Phase, Reserved, Alive
<1>4. Out(x, r) /\ r # None
  BY <1>1, <1>2, SentinelAssumption, NumberAssumption DEF Out, Requests
<1>5. Phase(x) \in {"bound", "settled", "gone"}
  <2>1. CASE store[x] = Absent
    <3>1. ~Reserved(x)
      BY <1>4, ReservedIsStoring DEF ApplyInv, OutsAreBound
    <3> QED BY <1>4, <2>1, <3>1 DEF Phase, ApplyInv, OutsAreBound
  <2>2. CASE store[x] # Absent
    <3>1. store[x].request = r /\ store[x].readable
      BY <1>4, <2>2 DEF LedgerInv, OutsAreReadable, ApplyInv, OutsAreBound
    <3> QED BY <1>4, <2>2, <3>1 DEF Phase, Protected
  <2> QED BY <2>1, <2>2
<1> DEFINE phase == [q \in Plans |-> Phase(q)]
           sent == {q \in Plans : consumed[q] # {}}
<1>6. phase' = phase
  <2>1. phase' = [q \in Plans |-> Phase(q)']
    OBVIOUS
  <2> QED BY <1>3, <2>1
<1>7. sent' = sent \cup {x}
  <2>1. consumed' = [consumed EXCEPT ![x] = consumed[x] \cup {r}]
    BY <1>1, <1>2
  <2>2. \A q \in Plans : consumed'[q] = IF q = x THEN consumed[q] \cup {r} ELSE consumed[q]
    BY <1>1, <2>1
  <2> QED BY <2>2
<1>8. phase[x] \in {"bound", "settled", "gone"}
  BY <1>5
<1>9. Ledger!Send(x)
  BY <1>6, <1>7, <1>8 DEF Ledger!Send
<1> QED BY <1>9 DEF Ledger!LedgerNext

LEMMA LedgerStep ==
  ASSUME ApplyInv, LedgerInv, Discipline', LedgerInv', ApplyNext
  PROVE  [Ledger!LedgerNext]_(Ledger!ledgerVars)
<1>1. ASSUME UNCHANGED <<vars, consumed>> PROVE [Ledger!LedgerNext]_(Ledger!ledgerVars)
  <2>1. \A q \in Plans : Phase(q)' = Phase(q)
    BY <1>1 DEF vars, storeVars, cmdVars, Phase, Reserved, Alive
  <2> QED BY <1>1, <2>1, StaysInLedger
<1>2. ASSUME NEW p \in Procs, NEW q \in used, NEW name \in {"apply", "recover"}, Start(p, q, name)
      PROVE  [Ledger!LedgerNext]_(Ledger!ledgerVars)
  <2>1. Client(p) /\ store' = store /\ consumed' = consumed
    BY <1>2 DEF Start, CallLoad, Client, storeVars
  <2> QED BY <2>1, ClientInLedger
<1>3. ASSUME NEW p \in Procs, Refuse(p) \/ Decline(p) \/ MarkFails(p) \/ Restored(p) \/ Send(p)
      PROVE  [Ledger!LedgerNext]_(Ledger!ledgerVars)
  BY <1>1, <1>3 DEF Refuse, Decline, MarkFails, Restored, Send
<1>4. ASSUME NEW p \in Procs, Mark(p) \/ End(p) \/ Other(p) \/ Crash(p)
      PROVE  [Ledger!LedgerNext]_(Ledger!ledgerVars)
  <2>1. Mark(p) => Returned(p, {"read"})
    BY DEF Mark, In, Returned, ApplyInv, Sound, Staged, Reads
  <2>2. (Client(p) \/ Die(p)) /\ store' = store /\ consumed' = consumed
    BY <1>4, <2>1 DEF Mark, CallMark, End, EndCommand, Other, CallStore, CallList, CallLoad, Crash, Die,
      Client, storeVars, applyVars
  <2> QED BY <2>2, ClientInLedger
<1>5. ASSUME NEW p \in Procs, FailBeforeSend(p) \/ NoAnswer(p)
      PROVE  [Ledger!LedgerNext]_(Ledger!ledgerVars)
  <2>1. cmd[p] = "apply" => Returned(p, {"mark"})
    BY <1>5, BoundHolds DEF FailBeforeSend, NoAnswer, Holds, Returned
  <2>2. consumed' = consumed /\ (UNCHANGED vars \/ (Client(p) /\ store' = store))
    BY <1>5, <2>1 DEF FailBeforeSend, NoAnswer, Unanswered, Client, CallRestore, storeVars
  <2> QED BY <1>1, <2>2, ClientInLedger
<1>6. ASSUME NEW j \in running, NEW result \in Results, Execute(j, result)
      PROVE  [Ledger!LedgerNext]_(Ledger!ledgerVars)
  BY <1>1, <1>6 DEF Execute
<1>7. CASE Pass
  <2>1. CASE Tick
    <3>1. \A q \in Plans : Phase(q)' = Phase(q)
      BY <2>1 DEF Tick, storeVars, cmdVars, Phase, Reserved, Alive
    <3> QED BY <1>7, <3>1, StaysInLedger DEF Pass, applyVars
  <2>2. ASSUME NEW p \in Procs, RecoverLock(p) PROVE [Ledger!LedgerNext]_(Ledger!ledgerVars)
    <3>1. store' = store /\ consumed' = consumed
      BY <1>7, <2>2 DEF Pass, applyVars, RecoverLock, storeVars
    <3> QED BY <2>2, <3>1, ClientInLedger
  <2> QED BY <1>7, <2>1, <2>2 DEF Pass
<1> QED BY <1>2, <1>3, <1>4, <1>5, <1>6, <1>7, InsideInLedger, RecordInLedger, ConsumeInLedger
  DEF ApplyNext, Progress, Runtime

LEMMA InitLedger == ApplyInit => LedgerInv /\ Ledger!LedgerInit
<1> SUFFICES ASSUME ApplyInit PROVE LedgerInv /\ Ledger!LedgerInit
  OBVIOUS
<1>1. /\ store \in [Plans -> {Absent, Fresh(0), Legacy, Unreadable}] /\ used = Stored
      /\ \A p \in Procs : at[p] = "idle" /\ op[p] = "none"
      /\ lock = {} /\ consumed = [q \in Plans |-> {}] /\ \A p \in Procs : file[p] = None
  BY DEF ApplyInit, Init
<1>2. /\ Fresh(0).readable /\ Legacy.readable /\ ~Unreadable.readable
      /\ ~Protected(Fresh(0)) /\ Protected(Legacy) /\ Protected(Unreadable)
      /\ Legacy.outcome = None /\ Fresh(0).outcome = None
  BY SentinelAssumption, NumberAssumption DEF Fresh, Legacy, Unreadable, Protected
<1>3. ForeignIsEvidence
  BY <1>1, <1>2 DEF ForeignIsEvidence
<1>4. OutsAreReadable
  BY <1>1 DEF OutsAreReadable, Out
<1>5. \A p \in Procs : Uses(p)
  BY <1>1 DEF Uses
<1>6. ASSUME NEW q \in Plans PROVE Phase(q) \in {"none", "prepared", "bound", "foreign"}
  <2>1. ~Reserved(q) /\ (store[q] = Absent => q \notin used)
    BY <1>1 DEF Reserved, Alive, Stored
  <2> QED BY <1>1, <1>2, <2>1, SentinelAssumption DEF Phase
<1>7. Ledger!LedgerInit
  BY <1>1, <1>6 DEF Ledger!LedgerInit
<1> QED BY <1>3, <1>4, <1>5, <1>7 DEF LedgerInv

\* The commands, the store and the Runtime implement the ledger: a plan that
\* has reached the Runtime is never again one that may be applied afresh
\* (README.md:108-119).
THEOREM CommandsImplementLedger == DisciplinedApplySpec => KeepsLedger
<1>1. ApplyInv /\ LedgerInv /\ [ApplyNext /\ Disciplined]_allVars => LedgerInv'
  <2> SUFFICES ASSUME ApplyInv, LedgerInv, [ApplyNext /\ Disciplined]_allVars PROVE LedgerInv'
    OBVIOUS
  <2>1. CASE UNCHANGED allVars
    BY <2>1 DEF allVars, vars, applyVars, storeVars, cmdVars, LedgerInv, ForeignIsEvidence,
      OutsAreReadable, Uses, Out, Storing
  <2> QED BY <2>1, NextLedgerInv
<1>2. /\ ApplyInv /\ LedgerInv /\ Discipline' /\ LedgerInv' /\ [ApplyNext /\ Disciplined]_allVars
      => [Ledger!LedgerNext]_(Ledger!ledgerVars)
  <2> SUFFICES ASSUME ApplyInv, LedgerInv, Discipline', LedgerInv',
                      [ApplyNext /\ Disciplined]_allVars
               PROVE  [Ledger!LedgerNext]_(Ledger!ledgerVars)
    OBVIOUS
  <2>1. CASE UNCHANGED allVars
    <3>1. \A q \in Plans : Phase(q)' = Phase(q)
      BY <2>1 DEF allVars, vars, storeVars, cmdVars, Phase, Reserved, Alive
    <3> QED BY <2>1, <3>1, StaysInLedger DEF allVars, applyVars
  <2> QED BY <2>1, LedgerStep
<1>3. ApplyInv => Discipline
  BY DEF ApplyInv
<1>4. DisciplinedApplySpec => []LedgerInv
  BY AlwaysApplyInv, InitLedger, <1>1, PTL DEF DisciplinedApplySpec
<1> QED BY AlwaysApplyInv, InitLedger, <1>2, <1>3, <1>4, PTL
  DEF DisciplinedApplySpec, KeepsLedger, Ledger!LedgerSpec

\* What the ledger promises: a plan of which the Runtime has consumed a request
\* is bound, settled or gone, never one to apply afresh, and it stays so.
SentStaysBound ==
  \A q \in Plans : consumed[q] # {} => Phase(q) \in {"bound", "settled", "gone"}

\* It is a consequence of the ledger alone, so that it holds of the commands,
\* whatever Discipline allows beside them, because they implement the ledger.
THEOREM LedgerKeepsItsPromise == KeepsLedger => []SentStaysBound
<1> DEFINE phase == [q \in Plans |-> Phase(q)]
           sent == {q \in Plans : consumed[q] # {}}
           Promise == /\ phase \in [Plans -> Ledger!Phases]
                      /\ \A q \in sent : phase[q] \in {"bound", "settled", "gone"}
<1>1. Ledger!LedgerInit => Promise
  BY DEF Ledger!LedgerInit, Ledger!Phases
<1>2. Promise /\ [Ledger!LedgerNext]_(Ledger!ledgerVars) => Promise'
  <2> SUFFICES ASSUME Promise, [Ledger!LedgerNext]_(Ledger!ledgerVars) PROVE Promise'
    OBVIOUS
  <2>1. CASE UNCHANGED Ledger!ledgerVars
    BY <2>1 DEF Ledger!ledgerVars
  <2>2. ASSUME NEW q \in Plans, NEW here, NEW there \in Ledger!Phases, Ledger!Become(q, here, there),
               q \in sent => there \in {"bound", "settled", "gone"}
        PROVE  Promise'
    BY <2>2 DEF Ledger!Become
  <2>3. ASSUME NEW q \in Plans, Ledger!Send(q) PROVE Promise'
    BY <2>3 DEF Ledger!Send
  <2>4. ASSUME NEW q \in Plans,
               \/ Ledger!Prepare(q) \/ Ledger!Bind(q) \/ Ledger!Unbind(q) \/ Ledger!Drop(q)
               \/ Ledger!Settle(q) \/ Ledger!Forget(q)
        PROVE  Promise'
    <3>1. CASE Ledger!Prepare(q) \/ Ledger!Unbind(q)
      BY <3>1, <2>2 DEF Ledger!Prepare, Ledger!Unbind, Ledger!Become, Ledger!Phases
    <3>2. CASE Ledger!Bind(q) \/ Ledger!Settle(q)
      BY <3>2, <2>2 DEF Ledger!Bind, Ledger!Settle, Ledger!Phases
    <3>3. CASE Ledger!Drop(q) \/ Ledger!Forget(q)
      BY <3>3, <2>2 DEF Ledger!Drop, Ledger!Forget, Ledger!Phases
    <3> QED BY <2>4, <3>1, <3>2, <3>3
  <2> QED BY <2>1, <2>3, <2>4 DEF Ledger!LedgerNext
<1>3. Promise => SentStaysBound
  BY DEF SentStaysBound
<1> QED BY <1>1, <1>2, <1>3, PTL DEF KeepsLedger, Ledger!LedgerSpec

(***************************************************************************)
(* What holds of the store holds of the store under the commands.          *)
(***************************************************************************)

\* Commands, Runtime and crashes do to the store what its disciplined use may
\* do: every theorem about DisciplinedStoreSpec or StoreSpec is one about plan
\* apply and plan recover, among them that evidence never exceeds its limit and
\* that no evidence a command knows of is lost.
THEOREM CommandsUseTheStore == DisciplinedApplySpec => DisciplinedStoreSpec
<1>1. ApplyInit => Init
  BY DEF ApplyInit
<1>2. ApplyInv /\ [ApplyNext /\ Disciplined]_allVars => [StoreNext /\ Disciplined]_vars
  BY StoreTakesPart DEF allVars
<1> QED BY AlwaysApplyInv, <1>1, <1>2, PTL DEF DisciplinedApplySpec, DisciplinedStoreSpec

\* Commands that apply and recover a plan one after the other, with crashes and
\* lost answers between them, never replace a binding by another, and take one
\* back only while its request has no outcome
\* (plan-store.ts:213-217, 252-261).
THEOREM CommandsKeepOneBinding == DisciplinedApplySpec => OneBinding
BY CommandsUseTheStore, BindingsAreStable

(***************************************************************************)
(* Both uses of the store (CommandsSpec).                                  *)
(***************************************************************************)

\* What MCPlanApply explores is either commands that apply and recover plans, or
\* processes that use the store while no command runs.
THEOREM CommandsImplementParts ==
  CommandsSpec =>
    \/ DisciplinedApplySpec
    \/ ConcurrentStoreSpec /\ ApplyInit /\ [][UNCHANGED applyVars]_allVars
<1> DEFINE SomeUse == (Commands \/ Appliers) /\ UNCHANGED use
<1>1. CommandsInit => ApplyInit /\ Init /\ (use = "commands" \/ use = "appliers")
  BY DEF CommandsInit, ApplyInit
<1>2. use = "commands" /\ [SomeUse]_<<use, allVars>>
        => (use = "commands")' /\ [ApplyNext /\ Disciplined]_allVars
  BY DEF Commands, Appliers
<1>3. use = "appliers" /\ [SomeUse]_<<use, allVars>>
        => (use = "appliers")' /\ [StoreNext /\ NoRestore]_vars /\ [UNCHANGED applyVars]_allVars
  BY DEF Commands, Appliers, allVars
<1>4. CommandsSpec <=> CommandsInit /\ [][SomeUse]_<<use, allVars>>
  BY DEF CommandsSpec
<1> HIDE DEF SomeUse
<1> QED BY <1>1, <1>2, <1>3, <1>4, PTL DEF DisciplinedApplySpec, ConcurrentStoreSpec

\* A request that no command presents is never consumed.
LEMMA AppliersAskNothing ==
  ConcurrentStoreSpec /\ ApplyInit /\ [][UNCHANGED applyVars]_allVars
    => [](ApplyTypeOK /\ EvidenceRetained /\ OneRequestPerPlan /\ AdviceIsTrue)
<1> DEFINE Untouched ==
      /\ cmd = [p \in Procs |-> "none"] /\ stage = [p \in Procs |-> "none"]
      /\ file = [p \in Procs |-> None] /\ reply = [p \in Procs |-> None]
      /\ running = {} /\ consumed = [q \in Plans |-> {}]
      /\ applied = {} /\ settled = {} /\ waived = {}
<1>1. ApplyInit => Untouched
  BY DEF ApplyInit
<1>2. Untouched /\ [UNCHANGED applyVars]_allVars => Untouched'
  BY DEF allVars, applyVars
<1>3. Untouched => EvidenceRetained /\ OneRequestPerPlan /\ AdviceIsTrue
  BY FS_EmptySet DEF EvidenceRetained, OneRequestPerPlan, AdviceIsTrue, RetryIsSafe,
    RecoveryIsPossible
<1>4. Untouched /\ TypeOK => ApplyTypeOK
  BY DEF ApplyTypeOK, Results
<1>5. ConcurrentStoreSpec => StoreSpec
  <2>1. [StoreNext /\ NoRestore]_vars => [StoreNext]_vars
    OBVIOUS
  <2> QED BY <2>1, PTL DEF ConcurrentStoreSpec, StoreSpec
<1> QED BY <1>1, <1>2, <1>3, <1>4, <1>5, StoreTypeCorrect, PTL

\* What the commands promise holds of everything MCPlanApply explores.
THEOREM CommandsAreSafe ==
  CommandsSpec =>
    /\ [](ApplyTypeOK /\ EvidenceRetained /\ OneRequestPerPlan /\ AdviceIsTrue)
    /\ OneBinding
BY CommandsImplementParts, AppliersAskNothing, ApplyTypeCorrect, EvidenceIsRetained,
   OneRequestReachesTheRuntime, AdviceIsAlwaysTrue, CommandsKeepOneBinding,
   ConcurrentAppliesAgree, PTL

(***************************************************************************)
(* Next to the lock (BothSpec).                                            *)
(***************************************************************************)

\* What MCLiveness explores are behaviours of the commands and of the lock, so
\* that the theorems about both hold there too, and the ledger is kept.
THEOREM BothImplementParts == BothSpec => DisciplinedApplySpec /\ L!Spec /\ KeepsLedger
<1> DEFINE SomePart == \/ Of("commands") /\ ApplyNext /\ Disciplined /\ UNCHANGED lockVars
                       \/ Of("lock") /\ L!Next /\ UNCHANGED allVars
<1>1. BothInit => ApplyInit /\ L!Init
  BY DEF BothInit
<1>2. [SomePart]_bothVars => [ApplyNext /\ Disciplined]_allVars /\ [L!Next]_(L!vars)
  <2>1. UNCHANGED lockVars => UNCHANGED L!vars
    BY DEF lockVars, L!vars, L!fileVars, L!procVars
  <2>2. UNCHANGED bothVars => UNCHANGED allVars /\ UNCHANGED lockVars
    BY DEF bothVars
  <2> QED BY <2>1, <2>2
<1>3. BothSpec <=> BothInit /\ [][SomePart]_bothVars
  BY DEF BothSpec
<1> HIDE DEF SomePart
<1> QED BY <1>1, <1>2, <1>3, CommandsImplementLedger, PTL DEF DisciplinedApplySpec, L!Spec
=============================================================================
