-------------------------- MODULE PlanStore_proofs --------------------------
(***************************************************************************)
(* Proofs about the stored plans, for any number of processes and plans,   *)
(* any lifetime, retention and limit, a lock that excludes or not, and the *)
(* most liberal use of the store (StoreSpec).                              *)
(***************************************************************************)
EXTENDS PlanStore, FiniteSetTheorems, TLAPS

(***************************************************************************)
(* Type correctness.  TypeOK alone is not inductive: a step reads the plan *)
(* and the record its process works on, so these must be there.            *)
(***************************************************************************)

AtPlan == {"lock", "load", "evict", "remove", "write", "prune", "count",
           "pruneEvict", "countEvict"}

Working(p) ==
  /\ rec[p] # Absent \/ at[p] \in AtPlan => plan[p] \in Plans
  /\ at[p] \in {"pruneEvict", "countEvict", "listEvict"} => target[p] \in Plans
  /\ at[p] \in {"prune", "pruneEvict"} => op[p] \in {"store", "mark"}
  /\ at[p] \in {"count", "countEvict"} => op[p] = "mark"
  /\ at[p] \in {"list", "listEvict"} => op[p] = "list"
  /\ at[p] = "write" => op[p] \in {"store", "mark", "restore"}
  /\ op[p] = "mark" /\ at[p] \in {"prune", "count", "pruneEvict", "countEvict"}
       => rec[p] # Absent
  /\ at[p] = "write" /\ op[p] # "store" => rec[p] # Absent

StoreInv == TypeOK /\ \A p \in Procs : Working(p)

\* Records stay records when a field is replaced by a value of its type.
LEMMA SetRequest ==
  ASSUME NEW r \in Record, NEW v \in Requests \cup {None}
  PROVE  [r EXCEPT !.request = v] \in Record
BY DEF Record

LEMMA SetStart ==
  ASSUME NEW r \in Record, NEW v \in Nat \cup {None}
  PROVE  [r EXCEPT !.start = v] \in Record
BY DEF Record

LEMMA SetOutcome ==
  ASSUME NEW r \in Record, NEW v \in {None, "terminal", "uncertain", "clash"}
  PROVE  [r EXCEPT !.outcome = v] \in Record
BY DEF Record

LEMMA SetExact ==
  ASSUME NEW r \in Record, NEW v \in BOOLEAN
  PROVE  [r EXCEPT !.exact = v] \in Record /\ [r EXCEPT !.exact = v].exact = v
BY DEF Record

LEMMA SetReadable ==
  ASSUME NEW r \in Record, NEW v \in BOOLEAN
  PROVE  [r EXCEPT !.readable = v] \in Record
BY DEF Record

LEMMA SetBinding ==
  ASSUME NEW r \in Record, NEW v \in Requests \cup {None}, NEW w \in Nat \cup {None}
  PROVE  [r EXCEPT !.request = v, !.start = w] \in Record
<1> DEFINE r1 == [r EXCEPT !.request = v]
<1>1. r1 \in Record
  BY SetRequest
<1> HIDE DEF r1
<1>2. [r1 EXCEPT !.start = w] \in Record
  BY <1>1, SetStart
<1> QED BY <1>2 DEF r1

LEMMA SetAll ==
  ASSUME NEW r \in Record, NEW v \in Requests \cup {None}, NEW w \in Nat \cup {None},
         NEW x \in {None, "terminal", "uncertain", "clash"}
  PROVE  [r EXCEPT !.request = v, !.start = w, !.outcome = x] \in Record
<1>1. [r EXCEPT !.request = v, !.start = w] \in Record
  BY SetBinding
<1> QED BY <1>1, SetOutcome

LEMMA FreshType == ASSUME NEW t \in Nat PROVE Fresh(t) \in Record
BY DEF Fresh, Record

LEMMA OldRecordTypes == Legacy \in Record /\ Unreadable \in Record
<1>1. 0 \in Requests /\ Fresh(0) \in Record
  BY FreshType, NumberAssumption DEF Requests
<1>2. Legacy \in Record
  BY <1>1, SetRequest DEF Legacy
<1> QED BY <1>2, SetReadable DEF Unreadable

LEMMA InitStoreInv == Init => StoreInv
<1> SUFFICES ASSUME Init PROVE StoreInv
  OBVIOUS
<1>1. store \in [Plans -> Record \cup {Absent}]
  BY FreshType, OldRecordTypes DEF Init
<1>2. TypeOK
  BY <1>1, NumberAssumption DEF Init, TypeOK, Requests, Stored, storeVars
<1>3. \A p \in Procs : Working(p)
  BY DEF Init, Working, AtPlan
<1> QED BY <1>2, <1>3 DEF StoreInv

\* What a step writes.
LEMMA OutcomeType ==
  ASSUME TypeOK, NEW p \in Procs, NEW result, rec[p] # Absent
  PROVE  Outcome(p, result) \in Record
<1>1. rec[p] \in Record /\ req[p] \in Requests \cup {None} /\ clock \in Nat
  BY NumberAssumption DEF TypeOK
<1>2. (IF rec[p].start = None THEN clock ELSE rec[p].start) \in Nat \cup {None}
  BY <1>1 DEF Record
<1>3. (CASE result = "applied" -> "terminal"
         [] result # "applied" /\ rec[p].outcome \in {"terminal", "clash"} -> "clash"
         [] result # "applied" /\ rec[p].outcome \notin {"terminal", "clash"} -> "uncertain")
        \in {None, "terminal", "uncertain", "clash"}
  OBVIOUS
<1> QED BY <1>1, <1>2, <1>3, SetAll DEF Outcome

\* A record with a window of another length is never stored, so that an
\* outcome is recorded as Outcome says or not at all.
Recording(p, result) ==
  /\ Ready(p)
  /\ rec[p] # Absent
  /\ req[p] # None
  /\ op' = [op EXCEPT ![p] = "record"]
  /\ \/ result = "failed" /\ Put(plan[p], Absent) /\ Return(p, "ok") /\ UNCHANGED rec
     \/ /\ result # "failed" /\ Decodable(Outcome(p, result))
        /\ Put(plan[p], Outcome(p, result)) /\ Hold(p, Outcome(p, result)) /\ Return(p, "ok")
     \/ result # "failed" /\ Return(p, "error") /\ UNCHANGED <<store, rec>>
  /\ UNCHANGED <<used, issued, clock, lock, dead, plan, req, sweepVars>>

LEMMA RecordsExact ==
  ASSUME TypeOK, NEW p \in Procs, NEW result, RecordOutcome(p, result)
  PROVE  Recording(p, result)
<1>1. rec[p] # Absent
  BY DEF RecordOutcome
<1>2. Outcome(p, result) \in Record
  BY <1>1, OutcomeType
<1>3. ASSUME NEW r \in Attempts(p, result), Writable(r)
      PROVE  r = Outcome(p, result) /\ Decodable(Outcome(p, result))
  <2>1. r = Outcome(p, result) \/ r = [Outcome(p, result) EXCEPT !.exact = FALSE]
    BY DEF Attempts
  <2>2. ~Decodable([Outcome(p, result) EXCEPT !.exact = FALSE])
    BY <1>2, SetExact DEF Decodable
  <2> QED BY <1>3, <2>1, <2>2 DEF Writable
<1> QED BY <1>3 DEF RecordOutcome, Recording

LEMMA WrittenType ==
  ASSUME StoreInv, NEW p \in Procs, at[p] = "write"
  PROVE  Written(p) \in Record
<1>1. CASE op[p] = "store"
  BY <1>1, FreshType, NumberAssumption DEF Written, StoreInv, TypeOK
<1>2. CASE op[p] \in {"mark", "restore"}
  <2>1. /\ rec[p] \in Record
        /\ req[p] \in Requests \cup {None} /\ None \in Requests \cup {None}
        /\ now[p] \in Nat \cup {None} /\ None \in Nat \cup {None}
    BY <1>2, NumberAssumption DEF StoreInv, TypeOK, Working
  <2> QED BY <1>2, <2>1, SetBinding DEF Written
<1> QED BY <1>1, <1>2 DEF StoreInv, Working

\* A verdict other than "missing" is about a record.
LEMMA VerdictOk ==
  ASSUME NEW r, NEW t, NEW allowExpired, Verdict(r, t, allowExpired) = "ok"
  PROVE  r # Absent
BY DEF Verdict

LEMMA LockSteps ==
  ASSUME StoreInv, NEW p \in Procs,
         Lock(p) \/ LockTimeout(p) \/ Unlock(p) \/ RecoverLock(p)
  PROVE  StoreInv'
BY DEF StoreInv, TypeOK, Working, AtPlan, Sweeps, Lock, LockTimeout, Unlock,
  RecoverLock, At, Alive, Goto, Return, storeVars, cmdVars, sweepVars

LEMMA CallSteps ==
  ASSUME StoreInv, NEW p \in Procs,
         \/ CallStore(p) \/ CallList(p) \/ CallMark(p) \/ CallRestore(p)
         \/ \E q \in used, name \in {"read", "readAll", "discard", "abandon"} :
              CallLoad(p, q, name)
  PROVE  StoreInv'
<1> USE DEF StoreInv, TypeOK, Working, AtPlan, Sweeps, Begin, Ready, At, Alive,
            Goto, Stored, storeVars, cmdVars, sweepVars
<1>1. CASE CallStore(p)
  BY <1>1 DEF CallStore
<1>2. CASE CallList(p)
  BY <1>2 DEF CallList
<1>3. CASE CallMark(p)
  <2>1. plan[p] \in Plans /\ issued[plan[p]] + 1 \in Requests
    BY <1>3, NumberAssumption DEF CallMark, Requests
  <2> QED BY <1>3, <2>1 DEF CallMark
<1>4. CASE CallRestore(p)
  BY <1>4 DEF CallRestore
<1>5. ASSUME NEW q \in used, NEW name \in {"read", "readAll", "discard", "abandon"},
             CallLoad(p, q, name)
      PROVE  StoreInv'
  BY <1>5 DEF CallLoad
<1> QED BY <1>1, <1>2, <1>3, <1>4, <1>5

LEMMA LoadSteps ==
  ASSUME StoreInv, NEW p \in Procs,
         \/ LoadFails(p) \/ Evict(p) \/ LoadRead(p) \/ LoadRemove(p)
         \/ LoadMark(p) \/ LoadRestore(p) \/ Remove(p)
  PROVE  StoreInv'
<1> USE DEF StoreInv, TypeOK, Working, AtPlan, Sweeps, At, Alive, Goto, Return,
            Hold, Put, Mine, Stored, storeVars, cmdVars, sweepVars, Sight, Unsight
<1>1. CASE LoadFails(p)
  BY <1>1 DEF LoadFails
<1>2. CASE Evict(p) \/ Remove(p)
  BY <1>2 DEF Evict, Remove
<1>3. Load(p) = "ok" => Mine(p) # Absent
  BY VerdictOk DEF Load
<1>4. at[p] = "load" /\ Load(p) = "ok" =>
        Mine(p) \in Record /\ Mine(p).request \in Requests \cup {None}
  BY <1>3 DEF Record
<1>5. CASE LoadRead(p)
  BY <1>3, <1>4, <1>5 DEF LoadRead
<1>6. CASE LoadRemove(p)
  BY <1>6 DEF LoadRemove
<1>7. CASE LoadMark(p)
  BY <1>3, <1>4, <1>7 DEF LoadMark, Adopted
<1>8. CASE LoadRestore(p)
  BY <1>3, <1>4, <1>8 DEF LoadRestore
<1> QED BY <1>1, <1>2, <1>5, <1>6, <1>7, <1>8

LEMMA SweepSteps ==
  ASSUME StoreInv, NEW p \in Procs, SweepRead(p) \/ SweepEvict(p) \/ SweepDone(p)
  PROVE  StoreInv'
<1> USE DEF StoreInv, TypeOK, Working, AtPlan, Sweeps, At, Alive, Goto, Return,
            Put, Stored, storeVars, cmdVars, sweepVars, Sight, Unsight
<1>1. CASE SweepRead(p)
  BY <1>1 DEF SweepRead
<1>2. CASE SweepEvict(p)
  BY <1>2, SMTT(30) DEF SweepEvict
<1>3. CASE SweepDone(p)
  BY <1>3 DEF SweepDone
<1> QED BY <1>1, <1>2, <1>3

LEMMA OtherSteps ==
  ASSUME StoreInv, NEW p \in Procs,
         \/ Write(p) \/ EndCommand(p) \/ Die(p)
         \/ \E result \in {"applied", "uncertain", "failed"} : RecordOutcome(p, result)
  PROVE  StoreInv'
<1> USE DEF StoreInv, TypeOK, Working, AtPlan, Sweeps, At, Alive, Ready, Goto,
            Return, Hold, Put, Forget, Unsight, storeVars, cmdVars, sweepVars
<1>1. CASE Write(p)
  <2>1. Written(p) \in Record
    BY <1>1, WrittenType DEF Write
  <2> QED BY <1>1, <2>1 DEF Write
<1>2. CASE EndCommand(p)
  BY <1>2, NumberAssumption DEF EndCommand
<1>3. CASE Die(p)
  BY <1>3, NumberAssumption DEF Die
<1>4. ASSUME NEW result \in {"applied", "uncertain", "failed"}, RecordOutcome(p, result)
      PROVE  StoreInv'
  <2>1. rec[p] # Absent /\ Outcome(p, result) \in Record
    BY <1>4, OutcomeType, RecordsExact DEF Recording
  <2> QED BY <1>4, <2>1, RecordsExact DEF Recording
<1> QED BY <1>1, <1>2, <1>3, <1>4

LEMMA NextStoreInv == StoreInv /\ [StoreNext]_vars => StoreInv'
<1> SUFFICES ASSUME StoreInv, [StoreNext]_vars PROVE StoreInv'
  OBVIOUS
<1>1. ASSUME NEW p \in Procs, Client(p) PROVE StoreInv'
  BY <1>1, CallSteps, OtherSteps DEF Client
<1>2. ASSUME NEW p \in Procs, Inside(p) PROVE StoreInv'
  BY <1>2, LockSteps, LoadSteps, SweepSteps, OtherSteps DEF Inside
<1>3. ASSUME NEW p \in Procs, RecoverLock(p) \/ Die(p) PROVE StoreInv'
  BY <1>3, LockSteps, OtherSteps
<1>4. CASE Tick
  BY <1>4, NumberAssumption
    DEF StoreInv, TypeOK, Working, Tick, storeVars, cmdVars, sweepVars
<1>5. CASE UNCHANGED vars
  BY <1>5 DEF StoreInv, TypeOK, Working, vars, storeVars, cmdVars, sweepVars
<1> QED BY <1>1, <1>2, <1>3, <1>4, <1>5 DEF StoreNext

\* Every variable keeps its type, whatever the processes call and whenever.
THEOREM StoreTypeCorrect == StoreSpec => []TypeOK
<1>1. StoreInv => TypeOK
  BY DEF StoreInv
<1> QED BY <1>1, InitStoreInv, NextStoreInv, PTL DEF StoreSpec

(***************************************************************************)
(* Every record ever written can be decoded by the next reader.  The       *)
(* invariant adds the records in memory, that a mark has a request to bind *)
(* and that a restore works on a record without an outcome.                *)
(***************************************************************************)

InMark == {"lock", "load", "prune", "count", "pruneEvict", "countEvict", "write"}

DecodeInv ==
  /\ \A q \in Plans : store[q] # Absent => Decodable(store[q])
  /\ \A p \in Procs : rec[p] # Absent => Decodable(rec[p])
  /\ \A p \in Procs : op[p] = "mark" /\ at[p] \in InMark => req[p] # None
  /\ \A p \in Procs : op[p] = "restore" /\ at[p] = "write" => rec[p].outcome = None

LEMMA FreshDecodes == ASSUME NEW t PROVE Decodable(Fresh(t))
BY SentinelAssumption DEF Decodable, Fresh

LEMMA OldRecordsDecode == Decodable(Legacy) /\ Decodable(Unreadable)
<1>1. /\ Legacy.request = 0 /\ Unreadable.request = 0 /\ Legacy.exact /\ Unreadable.exact
      /\ Legacy.outcome # "clash" /\ Unreadable.outcome # "clash"
  BY SentinelAssumption DEF Legacy, Unreadable, Fresh
<1> QED BY <1>1, SentinelAssumption DEF Decodable

LEMMA WrittenDecodes ==
  ASSUME StoreInv, DecodeInv, NEW p \in Procs, at[p] = "write"
  PROVE  Decodable(Written(p))
<1>1. CASE op[p] = "store"
  BY <1>1, FreshDecodes DEF Written
<1>2. CASE op[p] = "mark"
  <2>1. rec[p] \in Record /\ req[p] # None /\ Decodable(rec[p])
    BY <1>2, AbsentAssumption DEF StoreInv, TypeOK, Working, DecodeInv, InMark
  <2>2. Written(p) = [rec[p] EXCEPT !.request = req[p], !.start = now[p]]
    BY <1>2 DEF Written
  <2>3. /\ Written(p).request = req[p] /\ Written(p).exact = rec[p].exact
        /\ Written(p).outcome = rec[p].outcome
    BY <2>1, <2>2 DEF Record
  <2> QED BY <2>1, <2>3 DEF Decodable
<1>3. CASE op[p] = "restore"
  <2>1. rec[p] \in Record /\ rec[p].outcome = None /\ Decodable(rec[p])
    BY <1>3, AbsentAssumption DEF StoreInv, TypeOK, Working, DecodeInv
  <2>2. Written(p) = [rec[p] EXCEPT !.request = None, !.start = None]
    BY <1>3 DEF Written
  <2>3. Written(p).start = None /\ Written(p).outcome = None /\ Written(p).exact = rec[p].exact
    BY <2>1, <2>2 DEF Record
  <2> QED BY <2>1, <2>3, SentinelAssumption DEF Decodable
<1> QED BY <1>1, <1>2, <1>3 DEF StoreInv, Working

LEMMA DecodeInside ==
  ASSUME StoreInv, DecodeInv, NEW p \in Procs, Inside(p)
  PROVE  DecodeInv'
<1> USE DEF StoreInv, TypeOK, DecodeInv, InMark, At, Alive, Goto, Return, Hold,
            Put, Mine, Stored, Sweeps, storeVars, cmdVars, sweepVars
<1>1. CASE Lock(p) \/ LockTimeout(p) \/ Unlock(p)
  BY <1>1 DEF Lock, LockTimeout, Unlock
<1>2. CASE LoadFails(p) \/ LoadRemove(p)
  BY <1>2 DEF LoadFails, LoadRemove
<1>3. CASE Evict(p) \/ Remove(p)
  BY <1>3 DEF Evict, Remove
<1>4. at[p] = "load" /\ Load(p) = "ok" => Mine(p) # Absent /\ Decodable(Mine(p))
  BY VerdictOk DEF Load, Working, AtPlan
<1>5. CASE LoadRead(p)
  BY <1>4, <1>5 DEF LoadRead
<1>6. CASE LoadMark(p)
  <2>1. rec' = rec \/ rec' = [rec EXCEPT ![p] = Mine(p)]
    BY <1>6 DEF LoadMark
  <2>2. \A p1 \in Procs : rec'[p1] # Absent => Decodable(rec'[p1])
    BY <1>4, <1>6, <2>1 DEF LoadMark
  <2>3. op' = op /\ store' = store
    BY <1>6 DEF LoadMark
  <2>4. \A p1 \in Procs : op[p1] = "mark" /\ at'[p1] \in InMark => req'[p1] # None
    BY <1>6 DEF LoadMark
  <2>5. \A p1 \in Procs : op[p1] = "restore" /\ at'[p1] = "write" => rec'[p1].outcome = None
    BY <1>6, <2>1 DEF LoadMark
  <2> QED BY <2>2, <2>3, <2>4, <2>5
<1>7. CASE LoadRestore(p)
  <2>1. \/ rec' = rec /\ at'[p] # "write"
        \/ rec' = [rec EXCEPT ![p] = Mine(p)] /\ Mine(p).outcome = None
    BY <1>7 DEF LoadRestore
  <2>2. /\ op' = op /\ store' = store /\ req' = req /\ op[p] = "restore"
        /\ \A p1 \in Procs : p1 # p => at'[p1] = at[p1]
    BY <1>7 DEF LoadRestore
  <2>3. \A p1 \in Procs : rec'[p1] # Absent => Decodable(rec'[p1])
    BY <1>4, <1>7, <2>1 DEF LoadRestore
  <2>4. \A p1 \in Procs : op[p1] = "restore" /\ at'[p1] = "write" => rec'[p1].outcome = None
    BY <2>1, <2>2
  <2>5. \A p1 \in Procs : op[p1] = "mark" /\ at'[p1] \in InMark => req[p1] # None
    BY <2>2
  <2> QED BY <2>2, <2>3, <2>4, <2>5
<1>8. CASE SweepRead(p) \/ SweepDone(p)
  <2>1. at[p] \in Sweeps /\ op[p] # "restore"
    BY <1>8 DEF SweepRead, SweepDone, Working
  <2>2. CASE SweepRead(p)
    BY <2>1, <2>2 DEF SweepRead
  <2>3. CASE SweepDone(p)
    BY <2>1, <2>3 DEF SweepDone
  <2> QED BY <1>8, <2>2, <2>3
<1>9. CASE SweepEvict(p)
  BY <1>9 DEF SweepEvict
<1>10. CASE Write(p)
  <2>1. Decodable(Written(p))
    BY <1>10, WrittenDecodes DEF Write
  <2> QED BY <1>10, <2>1 DEF Write
<1> QED BY <1>1, <1>2, <1>3, <1>5, <1>6, <1>7, <1>8, <1>9, <1>10 DEF Inside

LEMMA DecodeClient ==
  ASSUME StoreInv, DecodeInv, NEW p \in Procs,
         Client(p) \/ RecoverLock(p) \/ Die(p)
  PROVE  DecodeInv'
<1> USE DEF StoreInv, TypeOK, DecodeInv, InMark, Begin, Ready, At, Alive, Goto,
            Return, Hold, Put, Forget, storeVars, cmdVars, sweepVars
<1>1. CASE CallStore(p) \/ CallList(p) \/ CallRestore(p)
  BY <1>1 DEF CallStore, CallList, CallRestore
<1>2. CASE \E q \in used, name \in {"read", "readAll", "discard", "abandon"} :
             CallLoad(p, q, name)
  BY <1>2 DEF CallLoad
<1>3. CASE CallMark(p)
  <2>1. plan[p] \in Plans /\ issued[plan[p]] + 1 # None
    BY <1>3, NumberAssumption, SentinelAssumption DEF CallMark, Working, Requests
  <2> QED BY <1>3, <2>1 DEF CallMark
<1>4. CASE EndCommand(p) \/ Die(p)
  BY <1>4 DEF EndCommand, Die
<1>5. CASE RecoverLock(p)
  BY <1>5 DEF RecoverLock
<1>6. ASSUME NEW result \in {"applied", "uncertain", "failed"}, RecordOutcome(p, result)
      PROVE  DecodeInv'
  BY <1>6, RecordsExact DEF Recording
<1> QED BY <1>1, <1>2, <1>3, <1>4, <1>5, <1>6 DEF Client

LEMMA NextDecodeInv == StoreInv /\ DecodeInv /\ [StoreNext]_vars => DecodeInv'
<1> SUFFICES ASSUME StoreInv, DecodeInv, [StoreNext]_vars PROVE DecodeInv'
  OBVIOUS
<1>1. CASE Tick \/ UNCHANGED vars
  BY <1>1 DEF DecodeInv, Tick, vars, storeVars, cmdVars, sweepVars
<1> QED BY <1>1, DecodeInside, DecodeClient DEF StoreNext

\* No interleaving of commands, crashes and clock steps ever stores a record
\* that the strict decoder would refuse, or makes a mark or a restore fail in
\* it (plan-store.ts:200-205, 470-581).
THEOREM RecordsAlwaysDecode == StoreSpec => []RecordsDecode
<1>1. Init => DecodeInv
  BY FreshDecodes, OldRecordsDecode DEF Init, DecodeInv
<1>2. StoreInv /\ DecodeInv => RecordsDecode
  BY WrittenDecodes DEF DecodeInv, RecordsDecode, Stored
<1> QED BY <1>1, <1>2, InitStoreInv, NextStoreInv, NextDecodeInv, PTL DEF StoreSpec

(***************************************************************************)
(* Evidence a process knows of is kept, under any use of the store.  What  *)
(* an operation found when it read a file tells what it may still do: the  *)
(* invariant KnownInv is about each process alone, and holds whatever the  *)
(* others have done to the file since.                                     *)
(***************************************************************************)

InForce(r) == Protected(r) /\ (r.readable => clock < RecoveryExpiry(r))

SawNoEvidence(p) ==
  at[p] \in Removers =>
    /\ seen[p] \in Record
    /\ ~InForce(seen[p]) \/ (at[p] = "remove" /\ op[p] = "abandon")
MarksUnbound(p) ==
  op[p] = "mark" /\ at[p] \in {"prune", "count", "pruneEvict", "countEvict", "write"} =>
    rec[p].request = None
RestoresBound(p) ==
  op[p] = "restore" /\ at[p] = "write" =>
    rec[p].outcome = None /\ rec[p].request = req[p]
StoresUnread(p) ==
  op[p] = "store" /\ at[p] \in {"prune", "pruneEvict", "write"} => rec[p] = Absent
RemovesFor(p) == at[p] = "remove" => op[p] \in {"discard", "abandon", "mark"}
AnswersBound(p) ==
  /\ ret[p] # "none" => at[p] \in {"idle", "unlock"}
  /\ Returned(p, {"mark", "readAll"}) /\ req[p] # None => rec[p].request = req[p]

Heeds(p) ==
  /\ now[p] <= clock
  /\ SawNoEvidence(p) /\ MarksUnbound(p) /\ RestoresBound(p) /\ StoresUnread(p)
  /\ RemovesFor(p) /\ AnswersBound(p)
KnownInv == \A p \in Procs : Heeds(p)
KeepInv == StoreInv /\ DecodeInv /\ KnownInv

LEMMA HeedsFrame ==
  ASSUME NEW p \in Procs, Heeds(p), clock' = clock,
         at'[p] = at[p], op'[p] = op[p], rec'[p] = rec[p], req'[p] = req[p],
         now'[p] = now[p], seen'[p] = seen[p], ret'[p] = ret[p]
  PROVE  Heeds(p)'
BY DEF Heeds, SawNoEvidence, MarksUnbound, RestoresBound, StoresUnread,
       RemovesFor, AnswersBound, InForce, Returned

\* Times are numbers.
LEMMA RecordTimes ==
  ASSUME NEW r \in Record
  PROVE  Expiry(r) \in Nat /\ RecoveryExpiry(r) \in Nat /\ r.readable \in BOOLEAN
BY NumberAssumption, SentinelAssumption DEF Record, Expiry, RecoveryExpiry

\* What a reader takes for expired is no evidence now.
LEMMA ExpiredNotInForce ==
  ASSUME NEW r \in Record \cup {Absent}, NEW t \in Nat, NEW allowExpired,
         clock \in Nat, t <= clock, Verdict(r, t, allowExpired) = "expired"
  PROVE  r \in Record /\ ~InForce(r)
<1>1. r \in Record /\ r.readable /\ (Protected(r) => t >= RecoveryExpiry(r))
  BY DEF Verdict
<1>2. RecoveryExpiry(r) \in Nat \/ ~Protected(r)
  BY <1>1, RecordTimes
<1> QED BY <1>1, <1>2 DEF InForce

LEMMA HeedsCalls ==
  ASSUME KeepInv, NEW p \in Procs,
         \/ CallStore(p) \/ CallList(p) \/ CallMark(p) \/ CallRestore(p)
         \/ \E q \in used, name \in {"read", "readAll", "discard", "abandon"} :
              CallLoad(p, q, name)
         \/ EndCommand(p) \/ Die(p) \/ RecoverLock(p)
         \/ Lock(p) \/ LockTimeout(p) \/ Unlock(p)
  PROVE  KnownInv'
<1> USE DEF KeepInv, StoreInv, TypeOK, Working, AtPlan, Sweeps, Begin, Ready, At, Alive,
            Goto, Return, Forget, storeVars, cmdVars, sweepVars, Removers
<1>1. clock' = clock
  BY DEF CallStore, CallList, CallMark, CallRestore, CallLoad, EndCommand, Die,
         RecoverLock, Lock, LockTimeout, Unlock
<1>2. ASSUME NEW p1 \in Procs, p1 # p PROVE Heeds(p1)'
  <2>1. /\ at'[p1] = at[p1] /\ op'[p1] = op[p1] /\ rec'[p1] = rec[p1] /\ req'[p1] = req[p1]
        /\ now'[p1] = now[p1] /\ seen'[p1] = seen[p1] /\ ret'[p1] = ret[p1]
    BY <1>2 DEF CallStore, CallList, CallMark, CallRestore, CallLoad, EndCommand, Die,
                Unsight, RecoverLock, Lock, LockTimeout, Unlock
  <2> QED BY <1>1, <1>2, <2>1, HeedsFrame DEF KnownInv
<1>3. Heeds(p) /\ clock \in Nat
  BY NumberAssumption DEF KnownInv
<1> USE DEF Heeds, SawNoEvidence, MarksUnbound, RestoresBound, StoresUnread,
            RemovesFor, AnswersBound, InForce, Returned
<1>4. CASE CallStore(p)
  BY <1>1, <1>2, <1>3, <1>4, SentinelAssumption DEF CallStore, KnownInv
<1>5. CASE CallList(p) \/ CallMark(p) \/ CallRestore(p)
  BY <1>1, <1>2, <1>3, <1>5 DEF CallList, CallMark, CallRestore, KnownInv
<1>6. CASE \E q \in used, name \in {"read", "readAll", "discard", "abandon"} :
             CallLoad(p, q, name)
  BY <1>1, <1>2, <1>3, <1>6 DEF CallLoad, KnownInv
<1>7. CASE EndCommand(p) \/ Die(p)
  BY <1>1, <1>2, <1>3, <1>7 DEF EndCommand, Die, KnownInv
<1>8. CASE RecoverLock(p)
  BY <1>1, <1>2, <1>3, <1>8 DEF RecoverLock, KnownInv
<1>9. CASE Lock(p) \/ LockTimeout(p) \/ Unlock(p)
  BY <1>1, <1>2, <1>3, <1>9 DEF Lock, LockTimeout, Unlock, KnownInv
<1> QED BY <1>4, <1>5, <1>6, <1>7, <1>8, <1>9

LEMMA HeedsLoads ==
  ASSUME KeepInv, NEW p \in Procs,
         \/ LoadFails(p) \/ Evict(p) \/ LoadRead(p) \/ LoadRemove(p)
         \/ LoadMark(p) \/ LoadRestore(p) \/ Remove(p)
  PROVE  KnownInv'
<1> USE DEF KeepInv, StoreInv, TypeOK, Working, AtPlan, Sweeps, At, Alive, Goto,
            Return, Hold, Put, Sight, Unsight, storeVars, cmdVars, sweepVars, Removers
<1>1. clock' = clock /\ op' = op /\ now' = now /\ op[p] \in {"none", "store", "list", "read",
        "readAll", "discard", "abandon", "mark", "restore", "record"}
  BY DEF LoadFails, Evict, LoadRead, LoadRemove, LoadMark, LoadRestore, Remove
<1>2. ASSUME NEW p1 \in Procs, p1 # p PROVE Heeds(p1)'
  <2>1. /\ at'[p1] = at[p1] /\ rec'[p1] = rec[p1] /\ req'[p1] = req[p1]
        /\ seen'[p1] = seen[p1] /\ ret'[p1] = ret[p1]
    BY <1>2 DEF LoadFails, Evict, LoadRead, LoadRemove, LoadMark, LoadRestore, Remove
  <2> QED BY <1>1, <1>2, <2>1, HeedsFrame DEF KnownInv
<1>3. Heeds(p) /\ clock \in Nat /\ now[p] \in Nat
  BY NumberAssumption DEF KnownInv
<1>4. at[p] = "load" => plan[p] \in Plans /\ Mine(p) \in Record \cup {Absent}
  BY DEF Mine
<1>5. at[p] = "load" /\ Load(p) = "ok" => Mine(p) \in Record /\ Decodable(Mine(p))
  BY <1>4, VerdictOk DEF Load, Mine, DecodeInv
<1>6. at[p] = "load" /\ Load(p) = "expired" => Mine(p) \in Record /\ ~InForce(Mine(p))
  <2>1. LoadTime(p) \in Nat /\ LoadTime(p) <= clock
    BY <1>3 DEF LoadTime, Heeds
  <2> QED BY <1>3, <1>4, <2>1, ExpiredNotInForce DEF Load
<1> USE DEF Heeds, SawNoEvidence, MarksUnbound, RestoresBound, StoresUnread,
            RemovesFor, AnswersBound, Returned
<1>7. CASE LoadFails(p)
  <2>1. SawNoEvidence(p)'
    BY <1>1, <1>6, <1>7 DEF LoadFails, InForce
  <2> QED BY <1>1, <1>2, <1>3, <1>7, <2>1 DEF LoadFails, KnownInv
<1>8. CASE Evict(p) \/ Remove(p)
  BY <1>1, <1>2, <1>3, <1>8 DEF Evict, Remove, KnownInv
<1>9. CASE LoadRead(p)
  BY <1>1, <1>2, <1>3, <1>9 DEF LoadRead, KnownInv
<1>10. CASE LoadRemove(p)
  <2>1. SawNoEvidence(p)'
    BY <1>1, <1>5, <1>10 DEF LoadRemove, InForce
  <2> QED BY <1>1, <1>2, <1>3, <1>10, <2>1 DEF LoadRemove, KnownInv
<1>11. CASE LoadMark(p)
  <2>1. SawNoEvidence(p)'
    BY <1>1, <1>5, <1>11 DEF LoadMark, Bindable, InForce, Protected, Decodable
  <2>2. /\ MarksUnbound(p)' /\ RestoresBound(p)' /\ StoresUnread(p)' /\ RemovesFor(p)'
        /\ AnswersBound(p)'
    <3>1. CASE Bindable(Mine(p))
      BY <1>1, <1>3, <1>11, <3>1 DEF LoadMark, Bindable
    <3>2. CASE ~Bindable(Mine(p))
      <4>1. /\ rec'[p] = Mine(p) /\ req'[p] = Mine(p).request /\ op[p] = "mark"
            /\ at'[p] \in {"unlock", "idle"}
        BY <1>11, <3>2 DEF LoadMark, Adopted
      <4> QED BY <1>1, <4>1
    <3> QED BY <3>1, <3>2
  <2> QED BY <1>1, <1>2, <1>3, <2>1, <2>2 DEF KnownInv
<1>12. CASE LoadRestore(p)
  BY <1>1, <1>2, <1>3, <1>12 DEF LoadRestore, KnownInv
<1> QED BY <1>7, <1>8, <1>9, <1>10, <1>11, <1>12

LEMMA HeedsSweeps ==
  ASSUME KeepInv, NEW p \in Procs, SweepRead(p) \/ SweepEvict(p) \/ SweepDone(p)
  PROVE  KnownInv'
<1> USE DEF KeepInv, StoreInv, TypeOK, Working, AtPlan, Sweeps, At, Alive, Goto,
            Return, Put, Sight, Unsight, storeVars, cmdVars, sweepVars, Removers
<1>1. UNCHANGED <<clock, op, rec, req, now>>
  BY DEF SweepRead, SweepEvict, SweepDone
<1>2. ASSUME NEW p1 \in Procs, p1 # p PROVE Heeds(p1)'
  <2>1. at'[p1] = at[p1] /\ seen'[p1] = seen[p1] /\ ret'[p1] = ret[p1]
    BY <1>2 DEF SweepRead, SweepEvict, SweepDone
  <2> QED BY <1>1, <1>2, <2>1, HeedsFrame DEF KnownInv
<1>3. Heeds(p) /\ clock \in Nat /\ now[p] \in Nat
  BY NumberAssumption DEF KnownInv
<1>4. op[p] \in {"store", "mark", "list"} /\ (op[p] = "list" <=> at[p] \in {"list", "listEvict"})
  BY DEF SweepRead, SweepEvict, SweepDone
<1>5. ASSUME NEW q \in Plans, at[p] \in Sweeps, Sees(p, q) = "expired"
      PROVE  store[q] \in Record /\ ~InForce(store[q])
  <2>1. SweepTime(p) \in Nat /\ SweepTime(p) <= clock
    BY <1>3 DEF SweepTime, Heeds
  <2> QED BY <1>3, <1>5, <2>1, ExpiredNotInForce DEF Sees
<1>6. SawNoEvidence(p)'
  <2>1. CASE SweepRead(p)
    BY <1>1, <1>5, <2>1 DEF SweepRead, SawNoEvidence, InForce
  <2>2. CASE SweepEvict(p)
    BY <2>2 DEF SweepEvict, SawNoEvidence
  <2>3. CASE SweepDone(p)
    BY <2>3 DEF SweepDone, SawNoEvidence
  <2> QED BY <2>1, <2>2, <2>3
<1>7. /\ at'[p] \in {"prune", "count", "pruneEvict", "countEvict", "write"}
           => at[p] \in {"prune", "count", "pruneEvict", "countEvict"}
      /\ op[p] = "store" /\ at'[p] \in {"prune", "pruneEvict", "write"}
           => at[p] \in {"prune", "pruneEvict"}
  BY <1>4 DEF SweepRead, SweepEvict, SweepDone
<1>8. /\ at'[p] # "remove" /\ at[p] \notin {"idle", "unlock"}
      /\ \/ ret'[p] = ret[p]
         \/ at'[p] \in {"idle", "unlock"} /\ (ret'[p] = "error" \/ op[p] = "list")
  BY <1>4 DEF SweepRead, SweepEvict, SweepDone
<1>9. /\ MarksUnbound(p)' /\ RestoresBound(p)' /\ StoresUnread(p)' /\ RemovesFor(p)'
      /\ AnswersBound(p)'
  BY <1>1, <1>3, <1>4, <1>7, <1>8
  DEF Heeds, MarksUnbound, RestoresBound, StoresUnread, RemovesFor, AnswersBound, Returned
<1> QED BY <1>1, <1>2, <1>3, <1>6, <1>9 DEF Heeds, KnownInv

LEMMA HeedsWrites ==
  ASSUME KeepInv, NEW p \in Procs,
         Write(p) \/ \E result \in {"applied", "uncertain", "failed"} : RecordOutcome(p, result)
  PROVE  KnownInv'
<1> USE DEF KeepInv, StoreInv, TypeOK, Working, At, Alive, Ready, Goto, Return, Hold,
            Put, storeVars, cmdVars, sweepVars, Removers
<1>1. UNCHANGED <<clock, req, now, seen>> /\ at'[p] \in {"idle", "unlock"}
  BY DEF Write, RecordOutcome
<1>2. ASSUME NEW p1 \in Procs, p1 # p PROVE Heeds(p1)'
  <2>1. /\ at'[p1] = at[p1] /\ op'[p1] = op[p1] /\ rec'[p1] = rec[p1] /\ ret'[p1] = ret[p1]
    BY <1>2 DEF Write, RecordOutcome
  <2> QED BY <1>1, <1>2, <2>1, HeedsFrame DEF KnownInv
<1>3. Heeds(p)
  BY DEF KnownInv
<1>4. AnswersBound(p)'
  <2>1. CASE Write(p)
    <3>1. ASSUME op[p] = "mark" PROVE Written(p).request = req[p]
      <4>1. rec[p] \in Record
        BY <2>1, <3>1 DEF Write
      <4>2. Written(p) = [rec[p] EXCEPT !.request = req[p], !.start = now[p]]
        BY <3>1 DEF Written
      <4> QED BY <4>1, <4>2 DEF Record
    <3> QED BY <1>1, <2>1, <3>1 DEF Write, AnswersBound, Returned
  <2>2. CASE \E result \in {"applied", "uncertain", "failed"} : RecordOutcome(p, result)
    BY <2>2 DEF RecordOutcome, AnswersBound, Returned
  <2> QED BY <2>1, <2>2
<1> QED BY <1>1, <1>2, <1>3, <1>4
    DEF Heeds, SawNoEvidence, MarksUnbound, RestoresBound, StoresUnread, RemovesFor, KnownInv

LEMMA NextKnownInv == KeepInv /\ [StoreNext]_vars => KeepInv'
<1> SUFFICES ASSUME KeepInv, [StoreNext]_vars PROVE KnownInv'
  BY NextStoreInv, NextDecodeInv DEF KeepInv
<1>1. ASSUME NEW p \in Procs, Client(p) \/ Inside(p) \/ RecoverLock(p) \/ Die(p)
      PROVE  KnownInv'
  BY <1>1, HeedsCalls, HeedsLoads, HeedsSweeps, HeedsWrites DEF Client, Inside
<1>2. CASE Tick
  <2> SUFFICES ASSUME NEW p \in Procs PROVE Heeds(p)'
    BY DEF KnownInv
  <2>1. /\ clock \in Nat /\ now[p] \in Nat /\ clock' = clock + 1 /\ Heeds(p)
        /\ UNCHANGED <<at, op, rec, req, now, seen, ret>>
    BY <1>2, NumberAssumption
    DEF Tick, KeepInv, KnownInv, StoreInv, TypeOK, cmdVars, sweepVars
  <2>2. ASSUME seen[p] \in Record, ~InForce(seen[p]) PROVE ~InForce(seen[p])'
    BY <2>1, <2>2, RecordTimes DEF InForce, Protected, RecoveryExpiry
  <2> QED BY <2>1, <2>2
      DEF Heeds, SawNoEvidence, MarksUnbound, RestoresBound, StoresUnread,
          RemovesFor, AnswersBound, Returned
<1>3. CASE UNCHANGED vars
  BY <1>3, HeedsFrame DEF KeepInv, KnownInv, vars, storeVars, cmdVars, sweepVars
<1> QED BY <1>1, <1>2, <1>3 DEF StoreNext

\* A step that takes evidence away from one file is one of five.
LEMMA LosingSteps ==
  ASSUME KeepInv, [StoreNext]_vars, NEW q \in Evidence, Loses(store[q], store'[q])
  PROVE  \E p \in Procs :
           \/ Evict(p) \/ Remove(p) \/ SweepEvict(p) \/ Write(p)
           \/ \E result \in {"applied", "uncertain", "failed"} :
                Returned(p, {"mark", "readAll"}) /\ RecordOutcome(p, result)
<1> SUFFICES ASSUME store' = store PROVE FALSE
  BY DEF StoreNext, Client, Inside, CallStore, CallList, EndCommand, CallLoad, CallMark,
         CallRestore, Lock, LockTimeout, Unlock, LoadFails, LoadRead, LoadRemove,
         LoadMark, LoadRestore, SweepRead, SweepDone, RecoverLock, Die, Tick, vars,
         storeVars
<1> QED BY DEF Loses, Evidence, Stored

LEMMA KnownStep ==
  ASSUME KeepInv, NEW q \in Evidence, Loses(store[q], store'[q]), NEW p \in Procs,
         \/ Evict(p) \/ Remove(p) \/ SweepEvict(p) \/ Write(p)
         \/ \E result \in {"applied", "uncertain", "failed"} :
              Returned(p, {"mark", "readAll"}) /\ RecordOutcome(p, result)
  PROVE  Acts(p, q) /\ (Waives(p, q) \/ Known(p) # store[q])
<1>1. /\ q \in Plans /\ store[q] \in Record /\ InForce(store[q]) /\ Heeds(p)
      /\ store[q] # Absent /\ Decodable(store[q])
  BY DEF KeepInv, StoreInv, TypeOK, DecodeInv, KnownInv, Evidence, Stored, InForce
<1>2. ~Loses(store[q], store[q])
  BY <1>1 DEF Loses
<1> USE DEF KeepInv, StoreInv, TypeOK, Working, At, Alive, Ready, Goto, Return, Hold, Put
<1>3. CASE Evict(p) \/ Remove(p)
  <2>1. /\ at[p] \in {"evict", "remove"} /\ at'[p] # at[p] /\ op' = op /\ p \in Procs \ dead
        /\ q = plan[p]
    BY <1>1, <1>2, <1>3 DEF Evict, Remove
  <2> QED BY <1>1, <2>1 DEF Acts, Waives, Known, Removers, Heeds, SawNoEvidence
<1>4. CASE SweepEvict(p)
  <2>1. /\ at[p] \in {"pruneEvict", "countEvict", "listEvict"} /\ at'[p] # at[p]
        /\ p \in Procs \ dead /\ q = target[p]
    BY <1>1, <1>2, <1>4 DEF SweepEvict
  <2> QED BY <1>1, <2>1 DEF Acts, Known, Removers, Heeds, SawNoEvidence
<1>5. CASE Write(p)
  <2>1. /\ at[p] = "write" /\ at'[p] # at[p] /\ op' = op /\ p \in Procs \ dead /\ q = plan[p]
        /\ op[p] \in {"store", "mark", "restore"}
    BY <1>1, <1>2, <1>5 DEF Write
  <2>2. Acts(p, q) /\ Known(p) = rec[p]
    BY <2>1 DEF Acts, Known, Removers
  <2>3. rec[p] = store[q] => op[p] = "restore" /\ store[q].outcome = None
                              /\ store[q].request = req[p]
    BY <1>1, <2>1 DEF Heeds, StoresUnread, MarksUnbound, RestoresBound, InForce,
                      Protected, Decodable
  <2> QED BY <2>1, <2>2, <2>3 DEF Waives
<1>6. ASSUME NEW result \in {"applied", "uncertain", "failed"},
             Returned(p, {"mark", "readAll"}), RecordOutcome(p, result)
      PROVE  Acts(p, q) /\ (Waives(p, q) \/ Known(p) # store[q])
  <2>1. Recording(p, result)
    BY <1>6, RecordsExact
  <2>2. /\ at[p] = "idle" /\ op'[p] = "record" /\ op[p] # "record" /\ p \in Procs \ dead
        /\ q = plan[p] /\ req[p] # None /\ rec[p] # Absent
    BY <1>1, <1>2, <1>6, <2>1 DEF Recording, Returned
  <2>3. Acts(p, q) /\ Known(p) = rec[p]
    BY <2>2 DEF Acts, Known, Removers
  <2>4. CASE store'[q] = Absent
    BY <2>2, <2>3, <2>4 DEF Waives
  <2>5. CASE store'[q] # Absent
    <3>1. store'[q] = Outcome(p, result) /\ Decodable(Outcome(p, result))
      BY <1>1, <1>2, <2>1, <2>2, <2>5 DEF Recording
    <3>2. Outcome(p, result).request = req[p] /\ Outcome(p, result).outcome # "clash"
      BY <3>1, <2>2 DEF Decodable, Outcome, Record
    <3>3. rec[p].request = req[p]
      BY <1>1, <1>6, <2>2 DEF Heeds, AnswersBound
    <3>4. rec[p].outcome = "terminal" => Outcome(p, result).outcome = "terminal"
      BY <2>2, <3>2 DEF Outcome, Record
    <3>5. rec[p] # store[q]
      BY <2>5, <3>1, <3>2, <3>3, <3>4 DEF Loses
    <3> QED BY <2>3, <3>5
  <2> QED BY <2>4, <2>5
<1> QED BY <1>3, <1>4, <1>5, <1>6

\* Under any use of the store, with any number of commands on one plan:
\* evidence is lost only where that is meant or where a process acts on a file
\* that another one has changed since it was read (plan-store.ts:144-198,
\* 207-286, 392-453).
THEOREM NoKnownEvidenceIsLost == StoreSpec => KnownEvidenceIsKept
<1>1. Init => KnownInv
  BY NumberAssumption
  DEF Init, KnownInv, Heeds, SawNoEvidence, MarksUnbound, RestoresBound, StoresUnread,
      RemovesFor, AnswersBound, Removers, Returned
<1>2. KeepInv /\ [StoreNext]_vars =>
        [\A q \in Evidence : Loses(store[q], store'[q]) =>
           \E p \in Procs : Acts(p, q) /\ (Waives(p, q) \/ Known(p) # store[q])]_vars
  BY LosingSteps, KnownStep
<1>3. Init => KeepInv
  BY <1>1, InitStoreInv, FreshDecodes, OldRecordsDecode DEF KeepInv, DecodeInv, Init
<1> QED BY <1>2, <1>3, NextKnownInv, PTL DEF StoreSpec, KnownEvidenceIsKept

(***************************************************************************)
(* Disciplined use (DisciplinedStoreSpec): evidence never exceeds its      *)
(* limit, and a binding is stable.  What the store does outside of its     *)
(* lock is right because of the invariant Discipline, each part of which   *)
(* relates what a process has found in a file some steps ago to what the   *)
(* file holds when it acts on it.                                          *)
(***************************************************************************)

\* Expired now: gone, out of its window, or never bound and too old.
Over(q) ==
  store[q] # Absent =>
    /\ store[q].readable
    /\ clock >= IF Protected(store[q]) THEN RecoveryExpiry(store[q]) ELSE Expiry(store[q])

\* The lock has one holder, which is the process inside mark or restore.
OneHolder ==
  /\ lock = {} \/ \E p \in Procs : lock = {p}
  /\ \A p \in Procs : op[p] \in {"mark", "restore"} /\ at[p] \notin {"idle", "lock"} =>
       lock = {p}

\* A planRef is known before a process works on it or stores it.
KnownPlans ==
  /\ Stored \subseteq used
  /\ \A p \in Procs : plan[p] # NoPlan => plan[p] \in used

\* An operation is over before the clock moves on.
NowIsNow ==
  \A p \in Procs :
    /\ p \in dead => at[p] = "idle"
    /\ at[p] # "idle" /\ op[p] \in {"store", "mark"} => now[p] = clock

\* A new plan is stored under a name no file has; the file of a plan that is
\* marked or restored holds what the process has read under the lock; and a
\* process that may record an outcome has the evidence in memory.
Storing(p) == op[p] = "store" /\ at[p] \in {"prune", "pruneEvict", "write"}
Marking(p) ==
  op[p] = "mark" /\ at[p] \in {"prune", "pruneEvict", "count", "countEvict", "write"}
StoresNew(p) == Storing(p) => store[plan[p]] = Absent
MarksItsOwn(p) ==
  Marking(p) =>
    /\ store[plan[p]] = rec[p] /\ rec[p].readable
    /\ rec[p].request = None /\ clock < Expiry(rec[p])
RestoresItsOwn(p) ==
  op[p] = "restore" /\ at[p] = "write" =>
    /\ store[plan[p]] = rec[p] /\ rec[p].readable
    /\ Protected(rec[p]) /\ clock < RecoveryExpiry(rec[p])
RecordsItsOwn(p) ==
  Returned(p, {"mark", "readAll"}) /\ req[p] # None =>
    store[plan[p]] = rec[p] /\ rec[p].readable /\ plan[p] \in Evidence
HasRequest(p) ==
  (op[p] = "restore" /\ at[p] # "idle") \/ Returned(p, {"mark"}) => req[p] # None
Memory ==
  \A p \in Procs :
    /\ StoresNew(p) /\ MarksItsOwn(p) /\ RestoresItsOwn(p) /\ RecordsItsOwn(p)
    /\ HasRequest(p)

\* What is about to be removed is no evidence, unless the user abandons it;
\* what a sweep is about to remove or has still to read is no plan that is
\* just being stored.
RemovesNoEvidence(p) ==
  /\ at[p] = "evict" => plan[p] \notin Evidence
  /\ at[p] = "remove" =>
       op[p] = "abandon" \/ (op[p] \in {"discard", "mark"} /\ plan[p] \notin Evidence)
SweepsOver(p) ==
  at[p] \in {"pruneEvict", "countEvict", "listEvict"} =>
    /\ Over(target[p]) /\ target[p] \in used
    /\ \A p1 \in Procs : Storing(p1) => plan[p1] # target[p]
SweepsKnown(p) ==
  /\ todo[p] \subseteq used
  /\ \A p1 \in Procs : Storing(p1) => plan[p1] \notin todo[p]
Removals == \A p \in Procs : RemovesNoEvidence(p) /\ SweepsOver(p) /\ SweepsKnown(p)

\* The lock's holder counts at least the evidence of the other plans.
Counted(p) == {q \in Evidence : q # plan[p] /\ q \notin todo[p]}
CountsAll(p) ==
  op[p] = "mark" =>
    /\ at[p] \in {"count", "countEvict"} => Cardinality(Counted(p)) <= count[p]
    /\ at[p] = "write" => Cardinality(Evidence \ {plan[p]}) < Limit
Capacity == CapacityKept /\ \A p \in Procs : CountsAll(p)

Parts == OneHolder /\ KnownPlans /\ NowIsNow /\ Memory /\ Removals /\ Capacity
Discipline == StoreInv /\ DecodeInv /\ OneCommandPerPlan /\ Parts

\* A step that leaves the files and the clock alone leaves what is evidence
\* and what is over alone.
LEMMA QuietStep ==
  ASSUME UNCHANGED <<store, clock>>
  PROVE  /\ Evidence' = Evidence /\ Stored' = Stored
         /\ \A q : Over(q)' = Over(q)
BY DEF Evidence, Stored, Over

LEMMA EvidenceFinite == IsFiniteSet(Evidence)
<1> Evidence \subseteq Plans
  BY DEF Evidence, Stored
<1> QED BY FS_Subset, StoreAssumption

\* Where there is less evidence, the limit and the counts of the processes
\* that do not move stay right.
LEMMA CapacityCarried ==
  ASSUME Capacity, Evidence' \subseteq Evidence, TypeOK
  PROVE  /\ CapacityKept'
         /\ \A p1 \in Procs :
              UNCHANGED <<op[p1], at[p1], plan[p1], todo[p1], count[p1]>> => CountsAll(p1)'
<1>1. IsFiniteSet(Evidence) /\ IsFiniteSet(Evidence')
  BY EvidenceFinite, FS_Subset
<1>2. Cardinality(Evidence') <= Cardinality(Evidence)
  BY <1>1, FS_Subset
<1>3. CapacityKept'
  BY <1>1, <1>2, FS_CardinalityType, NumberAssumption DEF Capacity, CapacityKept
<1>4. ASSUME NEW p1 \in Procs, UNCHANGED <<op[p1], at[p1], plan[p1], todo[p1], count[p1]>>
      PROVE  CountsAll(p1)'
  <2>1. Counted(p1)' \subseteq Counted(p1) /\ Counted(p1) \subseteq Evidence
    BY <1>4 DEF Counted
  <2>2. Cardinality(Counted(p1)') <= Cardinality(Counted(p1))
    BY <1>1, <2>1, FS_Subset
  <2>3. Cardinality(Counted(p1)) \in Nat /\ Cardinality(Counted(p1)') \in Nat /\ count[p1] \in Nat
    BY <1>1, <2>1, FS_Subset, FS_CardinalityType DEF TypeOK
  <2>4. IsFiniteSet(Evidence \ {plan[p1]}) /\ Evidence' \ {plan[p1]} \subseteq Evidence \ {plan[p1]}
    BY <1>1, FS_Subset
  <2>5. /\ Cardinality(Evidence' \ {plan[p1]}) <= Cardinality(Evidence \ {plan[p1]})
        /\ Cardinality(Evidence' \ {plan[p1]}) \in Nat /\ Cardinality(Evidence \ {plan[p1]}) \in Nat
    BY <2>4, FS_Subset, FS_CardinalityType
  <2>6. op[p1] = "mark" /\ at[p1] \in {"count", "countEvict"} => Cardinality(Counted(p1)') <= count[p1]
    <3>1. CountsAll(p1)
      BY DEF Capacity
    <3>2. op[p1] = "mark" /\ at[p1] \in {"count", "countEvict"} => Cardinality(Counted(p1)) <= count[p1]
      BY <3>1 DEF CountsAll
    <3> QED BY <2>2, <2>3, <3>2
  <2>7. op[p1] = "mark" /\ at[p1] = "write" => Cardinality(Evidence' \ {plan[p1]}) < Limit
    BY <2>5, NumberAssumption DEF Capacity, CountsAll
  <2> QED BY <1>4, <2>6, <2>7 DEF CountsAll
<1> QED BY <1>3, <1>4

LEMMA OverIsNoEvidence ==
  ASSUME TypeOK, NEW q \in Plans, Over(q)
  PROVE  q \notin Evidence
<1> SUFFICES ASSUME q \in Evidence PROVE FALSE
  OBVIOUS
<1>1. store[q] \in Record /\ clock \in Nat
  BY NumberAssumption DEF TypeOK, Evidence, Stored
<1> QED BY <1>1, RecordTimes DEF Over, Evidence, Stored

LEMMA ExpiredIsOver ==
  ASSUME NEW q \in Plans, NEW allow, Verdict(store[q], clock, allow) = "expired"
  PROVE  Over(q)
BY DEF Verdict, Over

LEMMA OkIsInForce ==
  ASSUME TypeOK, NEW q \in Plans, NEW allow, Verdict(store[q], clock, allow) = "ok"
  PROVE  /\ store[q] \in Record /\ store[q].readable
         /\ Protected(store[q]) => clock < RecoveryExpiry(store[q]) /\ q \in Evidence
         /\ ~Protected(store[q]) => q \notin Evidence
<1>1. store[q] # Absent /\ store[q].readable
  BY DEF Verdict
<1>2. store[q] \in Record /\ clock \in Nat
  BY <1>1, NumberAssumption DEF TypeOK
<1>3. Protected(store[q]) => clock < RecoveryExpiry(store[q])
  BY <1>1, <1>2, RecordTimes DEF Verdict
<1> QED BY <1>1, <1>2, <1>3 DEF Evidence, Stored

\* The time an operation goes by is the time it is.
LEMMA LoadsNow ==
  ASSUME NowIsNow, NEW p \in Procs, at[p] = "load"
  PROVE  Load(p) = Verdict(store[plan[p]], clock, op[p] # "read")
BY DEF NowIsNow, Load, LoadTime, Mine

LEMMA LoadsInForce ==
  ASSUME Discipline, NEW p \in Procs, at[p] = "load", Load(p) = "ok"
  PROVE  /\ plan[p] \in Plans /\ Mine(p) \in Record /\ Mine(p).readable
         /\ Protected(Mine(p)) => clock < RecoveryExpiry(Mine(p)) /\ plan[p] \in Evidence
         /\ ~Protected(Mine(p)) => plan[p] \notin Evidence
         /\ Mine(p).request = None => ~Protected(Mine(p))
<1>1. plan[p] \in Plans /\ TypeOK
  BY DEF Discipline, StoreInv, Working, AtPlan
<1>2. Verdict(Mine(p), clock, op[p] # "read") = "ok"
  BY LoadsNow DEF Discipline, Parts, Mine
<1>3. Mine(p) \in Record /\ Decodable(Mine(p))
  BY <1>1, <1>2, OkIsInForce, VerdictOk DEF Mine, Discipline, DecodeInv
<1> QED BY <1>1, <1>2, <1>3, OkIsInForce DEF Mine, Protected, Decodable

LEMMA SweepsNow ==
  ASSUME NowIsNow, StoreInv, NEW p \in Procs, at[p] \in Sweeps, NEW q
  PROVE  Sees(p, q) = Verdict(store[q], clock, at[p] # "prune")
BY DEF NowIsNow, StoreInv, Working, Sees, SweepTime, Sweeps

LEMMA QuietLockSteps ==
  ASSUME Discipline, OneCommandPerPlan', NEW p \in Procs,
         Lock(p) \/ LockTimeout(p) \/ Unlock(p) \/ RecoverLock(p)
  PROVE  Parts'
<1> USE DEF Discipline, Parts, StoreInv, TypeOK, Working, AtPlan, Sweeps, Begin, Ready, At, Alive, Goto,
            Return, Hold, Mine, Forget, storeVars, cmdVars, sweepVars
<1>1. CASE Lock(p)
  <2> USE <1>1 DEF Lock
  <2>0. /\ UNCHANGED <<store, clock>> /\ Evidence' = Evidence /\ Stored' = Stored
        /\ \A q : Over(q)' = Over(q)
    BY QuietStep
  <2>1. OneHolder'
    BY <2>0 DEF OneHolder
  <2>2. KnownPlans'
    BY <2>0 DEF KnownPlans
  <2>3. NowIsNow'
    BY <2>0 DEF NowIsNow
  <2>4. Memory'
    BY <2>0 DEF Memory, StoresNew, MarksItsOwn, RestoresItsOwn, RecordsItsOwn, HasRequest, Storing, Marking, Returned, InMark
  <2>5. Removals'
    BY <2>0 DEF Removals, RemovesNoEvidence, SweepsOver, SweepsKnown, Storing
  <2>6. Capacity'
    <3>1. CapacityKept' /\ \A p1 \in Procs : p1 # p => CountsAll(p1)'
      BY <2>0, CapacityCarried
    <3>2. CountsAll(p)'
      BY <2>0 DEF CountsAll
    <3> QED BY <3>1, <3>2 DEF Capacity
  <2> QED BY <2>1, <2>2, <2>3, <2>4, <2>5, <2>6 DEF Parts
<1>2. CASE LockTimeout(p)
  <2> USE <1>2 DEF LockTimeout
  <2>0. /\ UNCHANGED <<store, clock>> /\ Evidence' = Evidence /\ Stored' = Stored
        /\ \A q : Over(q)' = Over(q)
    BY QuietStep
  <2>1. OneHolder'
    BY <2>0 DEF OneHolder
  <2>2. KnownPlans'
    BY <2>0 DEF KnownPlans
  <2>3. NowIsNow'
    BY <2>0 DEF NowIsNow
  <2>4. Memory'
    BY <2>0 DEF Memory, StoresNew, MarksItsOwn, RestoresItsOwn, RecordsItsOwn, HasRequest, Storing, Marking, Returned, InMark
  <2>5. Removals'
    BY <2>0 DEF Removals, RemovesNoEvidence, SweepsOver, SweepsKnown, Storing
  <2>6. Capacity'
    <3>1. CapacityKept' /\ \A p1 \in Procs : p1 # p => CountsAll(p1)'
      BY <2>0, CapacityCarried
    <3>2. CountsAll(p)'
      BY <2>0 DEF CountsAll
    <3> QED BY <3>1, <3>2 DEF Capacity
  <2> QED BY <2>1, <2>2, <2>3, <2>4, <2>5, <2>6 DEF Parts
<1>3. CASE Unlock(p)
  <2> USE <1>3 DEF Unlock
  <2>0. /\ UNCHANGED <<store, clock>> /\ Evidence' = Evidence /\ Stored' = Stored
        /\ \A q : Over(q)' = Over(q)
    BY QuietStep
  <2>1. OneHolder'
    BY <2>0 DEF OneHolder
  <2>2. KnownPlans'
    BY <2>0 DEF KnownPlans
  <2>3. NowIsNow'
    BY <2>0 DEF NowIsNow
  <2>4. Memory'
    BY <2>0 DEF Memory, StoresNew, MarksItsOwn, RestoresItsOwn, RecordsItsOwn, HasRequest, Storing, Marking, Returned, InMark
  <2>5. Removals'
    BY <2>0 DEF Removals, RemovesNoEvidence, SweepsOver, SweepsKnown, Storing
  <2>6. Capacity'
    <3>1. CapacityKept' /\ \A p1 \in Procs : p1 # p => CountsAll(p1)'
      BY <2>0, CapacityCarried
    <3>2. CountsAll(p)'
      BY <2>0 DEF CountsAll
    <3> QED BY <3>1, <3>2 DEF Capacity
  <2> QED BY <2>1, <2>2, <2>3, <2>4, <2>5, <2>6 DEF Parts
<1>4. CASE RecoverLock(p)
  <2> USE <1>4 DEF RecoverLock
  <2>0. /\ UNCHANGED <<store, clock>> /\ Evidence' = Evidence /\ Stored' = Stored
        /\ \A q : Over(q)' = Over(q)
    BY QuietStep
  <2>1. OneHolder'
    BY <2>0 DEF OneHolder, NowIsNow
  <2>2. KnownPlans'
    BY <2>0 DEF KnownPlans
  <2>3. NowIsNow'
    BY <2>0 DEF NowIsNow
  <2>4. Memory'
    BY <2>0 DEF Memory, StoresNew, MarksItsOwn, RestoresItsOwn, RecordsItsOwn, HasRequest, Storing, Marking, Returned, InMark
  <2>5. Removals'
    BY <2>0 DEF Removals, RemovesNoEvidence, SweepsOver, SweepsKnown, Storing
  <2>6. Capacity'
    BY <2>0, CapacityCarried DEF Capacity
  <2> QED BY <2>1, <2>2, <2>3, <2>4, <2>5, <2>6 DEF Parts
<1> QED BY <1>1, <1>2, <1>3, <1>4

LEMMA QuietCallSteps ==
  ASSUME Discipline, OneCommandPerPlan', NEW p \in Procs,
         CallStore(p) \/ CallList(p) \/ CallMark(p) \/ (Returned(p, {"mark"}) /\ CallRestore(p)) \/ EndCommand(p) \/ Die(p)
  PROVE  Parts'
<1> USE DEF Discipline, Parts, StoreInv, TypeOK, Working, AtPlan, Sweeps, Begin, Ready, At, Alive, Goto,
            Return, Hold, Mine, Forget, storeVars, cmdVars, sweepVars
<1>1. CASE CallStore(p)
  <2> USE <1>1 DEF CallStore
  <2>0. /\ UNCHANGED <<store, clock>> /\ Evidence' = Evidence /\ Stored' = Stored
        /\ \A q : Over(q)' = Over(q)
    BY QuietStep
  <2>1. OneHolder'
    BY <2>0 DEF OneHolder
  <2>2. KnownPlans'
    BY <2>0 DEF KnownPlans
  <2>3. NowIsNow'
    BY <2>0 DEF NowIsNow
  <2>4. Memory'
    <3>1. \A p1 \in Procs : StoresNew(p1)'
      BY <2>0 DEF Memory, StoresNew, MarksItsOwn, RestoresItsOwn, RecordsItsOwn, HasRequest, Storing, Marking, Returned, InMark, KnownPlans, Stored
    <3>2. \A p1 \in Procs : MarksItsOwn(p1)'
      BY <2>0 DEF Memory, StoresNew, MarksItsOwn, RestoresItsOwn, RecordsItsOwn, HasRequest, Storing, Marking, Returned, InMark, KnownPlans, Stored
    <3>3. \A p1 \in Procs : RestoresItsOwn(p1)'
      BY <2>0 DEF Memory, StoresNew, MarksItsOwn, RestoresItsOwn, RecordsItsOwn, HasRequest, Storing, Marking, Returned, InMark, KnownPlans, Stored
    <3>4. \A p1 \in Procs : RecordsItsOwn(p1)'
      BY <2>0 DEF Memory, StoresNew, MarksItsOwn, RestoresItsOwn, RecordsItsOwn, HasRequest, Storing, Marking, Returned, InMark, KnownPlans, Stored
    <3>5. \A p1 \in Procs : HasRequest(p1)'
      BY <2>0 DEF Memory, StoresNew, MarksItsOwn, RestoresItsOwn, RecordsItsOwn, HasRequest, Storing, Marking, Returned, InMark, KnownPlans, Stored
    <3> QED BY <3>1, <3>2, <3>3, <3>4, <3>5 DEF Memory
  <2>5. Removals'
    <3>1. \A p1 \in Procs : RemovesNoEvidence(p1)'
      BY <2>0 DEF Removals, RemovesNoEvidence, SweepsOver, SweepsKnown, Storing, KnownPlans, Memory, StoresNew, Stored
    <3>2. \A p1 \in Procs : SweepsOver(p1)'
      BY <2>0 DEF Removals, RemovesNoEvidence, SweepsOver, SweepsKnown, Storing, KnownPlans, Memory, StoresNew, Stored
    <3>3. \A p1 \in Procs : SweepsKnown(p1)'
      BY <2>0 DEF Removals, RemovesNoEvidence, SweepsOver, SweepsKnown, Storing, KnownPlans, Memory, StoresNew, Stored
    <3> QED BY <3>1, <3>2, <3>3 DEF Removals
  <2>6. Capacity'
    <3>1. CapacityKept' /\ \A p1 \in Procs : p1 # p => CountsAll(p1)'
      BY <2>0, CapacityCarried
    <3>2. CountsAll(p)'
      BY <2>0 DEF CountsAll
    <3> QED BY <3>1, <3>2 DEF Capacity
  <2> QED BY <2>1, <2>2, <2>3, <2>4, <2>5, <2>6 DEF Parts
<1>2. CASE CallList(p)
  <2> USE <1>2 DEF CallList
  <2>0. /\ UNCHANGED <<store, clock>> /\ Evidence' = Evidence /\ Stored' = Stored
        /\ \A q : Over(q)' = Over(q)
    BY QuietStep
  <2>1. OneHolder'
    BY <2>0 DEF OneHolder
  <2>2. KnownPlans'
    BY <2>0 DEF KnownPlans
  <2>3. NowIsNow'
    BY <2>0 DEF NowIsNow
  <2>4. Memory'
    BY <2>0 DEF Memory, StoresNew, MarksItsOwn, RestoresItsOwn, RecordsItsOwn, HasRequest, Storing, Marking, Returned, InMark
  <2>5. Removals'
    <3>1. \A p1 \in Procs : RemovesNoEvidence(p1)'
      BY <2>0 DEF Removals, RemovesNoEvidence, SweepsOver, SweepsKnown, Storing, KnownPlans, Memory, StoresNew, Stored
    <3>2. \A p1 \in Procs : SweepsOver(p1)'
      BY <2>0 DEF Removals, RemovesNoEvidence, SweepsOver, SweepsKnown, Storing, KnownPlans, Memory, StoresNew, Stored
    <3>3. \A p1 \in Procs : SweepsKnown(p1)'
      BY <2>0 DEF Removals, RemovesNoEvidence, SweepsOver, SweepsKnown, Storing, KnownPlans, Memory, StoresNew, Stored
    <3> QED BY <3>1, <3>2, <3>3 DEF Removals
  <2>6. Capacity'
    <3>1. CapacityKept' /\ \A p1 \in Procs : p1 # p => CountsAll(p1)'
      BY <2>0, CapacityCarried
    <3>2. CountsAll(p)'
      BY <2>0 DEF CountsAll
    <3> QED BY <3>1, <3>2 DEF Capacity
  <2> QED BY <2>1, <2>2, <2>3, <2>4, <2>5, <2>6 DEF Parts
<1>3. CASE CallMark(p)
  <2> USE <1>3 DEF CallMark
  <2>0. /\ UNCHANGED <<store, clock>> /\ Evidence' = Evidence /\ Stored' = Stored
        /\ \A q : Over(q)' = Over(q)
    BY QuietStep
  <2>1. OneHolder'
    BY <2>0 DEF OneHolder
  <2>2. KnownPlans'
    BY <2>0 DEF KnownPlans
  <2>3. NowIsNow'
    BY <2>0 DEF NowIsNow
  <2>4. Memory'
    BY <2>0 DEF Memory, StoresNew, MarksItsOwn, RestoresItsOwn, RecordsItsOwn, HasRequest, Storing, Marking, Returned, InMark
  <2>5. Removals'
    BY <2>0 DEF Removals, RemovesNoEvidence, SweepsOver, SweepsKnown, Storing
  <2>6. Capacity'
    <3>1. CapacityKept' /\ \A p1 \in Procs : p1 # p => CountsAll(p1)'
      BY <2>0, CapacityCarried
    <3>2. CountsAll(p)'
      BY <2>0 DEF CountsAll
    <3> QED BY <3>1, <3>2 DEF Capacity
  <2> QED BY <2>1, <2>2, <2>3, <2>4, <2>5, <2>6 DEF Parts
<1>4. CASE Returned(p, {"mark"}) /\ CallRestore(p)
  <2> USE <1>4 DEF CallRestore
  <2>0. /\ UNCHANGED <<store, clock>> /\ Evidence' = Evidence /\ Stored' = Stored
        /\ \A q : Over(q)' = Over(q)
    BY QuietStep
  <2>1. OneHolder'
    BY <2>0 DEF OneHolder
  <2>2. KnownPlans'
    BY <2>0 DEF KnownPlans
  <2>3. NowIsNow'
    BY <2>0 DEF NowIsNow
  <2>4. Memory'
    BY <2>0 DEF Memory, StoresNew, MarksItsOwn, RestoresItsOwn, RecordsItsOwn, HasRequest, Storing, Marking, Returned, InMark
  <2>5. Removals'
    BY <2>0 DEF Removals, RemovesNoEvidence, SweepsOver, SweepsKnown, Storing
  <2>6. Capacity'
    <3>1. CapacityKept' /\ \A p1 \in Procs : p1 # p => CountsAll(p1)'
      BY <2>0, CapacityCarried
    <3>2. CountsAll(p)'
      BY <2>0 DEF CountsAll
    <3> QED BY <3>1, <3>2 DEF Capacity
  <2> QED BY <2>1, <2>2, <2>3, <2>4, <2>5, <2>6 DEF Parts
<1>5. CASE EndCommand(p)
  <2> USE <1>5 DEF EndCommand
  <2>0. /\ UNCHANGED <<store, clock>> /\ Evidence' = Evidence /\ Stored' = Stored
        /\ \A q : Over(q)' = Over(q)
    BY QuietStep
  <2>1. OneHolder'
    BY <2>0 DEF OneHolder
  <2>2. KnownPlans'
    BY <2>0 DEF KnownPlans
  <2>3. NowIsNow'
    BY <2>0 DEF NowIsNow
  <2>4. Memory'
    BY <2>0 DEF Memory, StoresNew, MarksItsOwn, RestoresItsOwn, RecordsItsOwn, HasRequest, Storing, Marking, Returned, InMark
  <2>5. Removals'
    BY <2>0 DEF Removals, RemovesNoEvidence, SweepsOver, SweepsKnown, Storing
  <2>6. Capacity'
    <3>1. CapacityKept' /\ \A p1 \in Procs : p1 # p => CountsAll(p1)'
      BY <2>0, CapacityCarried
    <3>2. CountsAll(p)'
      BY <2>0 DEF CountsAll
    <3> QED BY <3>1, <3>2 DEF Capacity
  <2> QED BY <2>1, <2>2, <2>3, <2>4, <2>5, <2>6 DEF Parts
<1>6. CASE Die(p)
  <2> USE <1>6 DEF Die
  <2>0. /\ UNCHANGED <<store, clock>> /\ Evidence' = Evidence /\ Stored' = Stored
        /\ \A q : Over(q)' = Over(q)
    BY QuietStep
  <2>1. OneHolder'
    BY <2>0 DEF OneHolder
  <2>2. KnownPlans'
    BY <2>0 DEF KnownPlans
  <2>3. NowIsNow'
    BY <2>0 DEF NowIsNow
  <2>4. Memory'
    BY <2>0 DEF Memory, StoresNew, MarksItsOwn, RestoresItsOwn, RecordsItsOwn, HasRequest, Storing, Marking, Returned, InMark
  <2>5. Removals'
    BY <2>0 DEF Removals, RemovesNoEvidence, SweepsOver, SweepsKnown, Storing
  <2>6. Capacity'
    <3>1. CapacityKept' /\ \A p1 \in Procs : p1 # p => CountsAll(p1)'
      BY <2>0, CapacityCarried
    <3>2. CountsAll(p)'
      BY <2>0 DEF CountsAll
    <3> QED BY <3>1, <3>2 DEF Capacity
  <2> QED BY <2>1, <2>2, <2>3, <2>4, <2>5, <2>6 DEF Parts
<1> QED BY <1>1, <1>2, <1>3, <1>4, <1>5, <1>6

LEMMA QuietLoadCall ==
  ASSUME Discipline, OneCommandPerPlan', NEW p \in Procs, NEW q \in used,
         NEW name \in {"read", "readAll", "discard", "abandon"},
         CallLoad(p, q, name)
  PROVE  Parts'
<1> USE DEF Discipline, Parts, StoreInv, TypeOK, Working, AtPlan, Sweeps, Begin, Ready, At, Alive, Goto,
            Return, Hold, Mine, Forget, storeVars, cmdVars, sweepVars
<1>1. CASE CallLoad(p, q, name)
  <2> USE <1>1 DEF CallLoad
  <2>0. /\ UNCHANGED <<store, clock>> /\ Evidence' = Evidence /\ Stored' = Stored
        /\ \A pl : Over(pl)' = Over(pl)
    BY QuietStep
  <2>1. OneHolder'
    BY <2>0 DEF OneHolder
  <2>2. KnownPlans'
    BY <2>0 DEF KnownPlans
  <2>3. NowIsNow'
    BY <2>0 DEF NowIsNow
  <2>4. Memory'
    BY <2>0 DEF Memory, StoresNew, MarksItsOwn, RestoresItsOwn, RecordsItsOwn, HasRequest, Storing, Marking, Returned, InMark
  <2>5. Removals'
    BY <2>0 DEF Removals, RemovesNoEvidence, SweepsOver, SweepsKnown, Storing
  <2>6. Capacity'
    <3>1. CapacityKept' /\ \A p1 \in Procs : p1 # p => CountsAll(p1)'
      BY <2>0, CapacityCarried
    <3>2. CountsAll(p)'
      BY <2>0 DEF CountsAll
    <3> QED BY <3>1, <3>2 DEF Capacity
  <2> QED BY <2>1, <2>2, <2>3, <2>4, <2>5, <2>6 DEF Parts
<1> QED BY <1>1

LEMMA QuietLoadSteps ==
  ASSUME Discipline, OneCommandPerPlan', NEW p \in Procs,
         LoadFails(p) \/ LoadRead(p) \/ LoadRemove(p) \/ LoadMark(p) \/ LoadRestore(p)
  PROVE  Parts'
<1> USE DEF Discipline, Parts, StoreInv, TypeOK, Working, AtPlan, Sweeps, Begin, Ready, At, Alive, Goto,
            Return, Hold, Mine, Forget, storeVars, cmdVars, sweepVars
<1>1. CASE LoadFails(p)
  <2> USE <1>1 DEF LoadFails
  <2>0. /\ UNCHANGED <<store, clock>> /\ Evidence' = Evidence /\ Stored' = Stored
        /\ \A q : Over(q)' = Over(q)
    BY QuietStep
  <2>1. OneHolder'
    BY <2>0 DEF OneHolder
  <2>2. KnownPlans'
    BY <2>0 DEF KnownPlans
  <2>3. NowIsNow'
    BY <2>0 DEF NowIsNow
  <2>4. Memory'
    BY <2>0 DEF Memory, StoresNew, MarksItsOwn, RestoresItsOwn, RecordsItsOwn, HasRequest, Storing, Marking, Returned, InMark
  <2>5. Removals'
    <3>1. \A p1 \in Procs : RemovesNoEvidence(p1)'
      BY <2>0, LoadsNow, ExpiredIsOver, OverIsNoEvidence DEF Removals, RemovesNoEvidence, SweepsOver, SweepsKnown, Storing
    <3>2. \A p1 \in Procs : SweepsOver(p1)'
      BY <2>0 DEF Removals, RemovesNoEvidence, SweepsOver, SweepsKnown, Storing
    <3>3. \A p1 \in Procs : SweepsKnown(p1)'
      BY <2>0 DEF Removals, RemovesNoEvidence, SweepsOver, SweepsKnown, Storing
    <3> QED BY <3>1, <3>2, <3>3 DEF Removals
  <2>6. Capacity'
    <3>1. CapacityKept' /\ \A p1 \in Procs : p1 # p => CountsAll(p1)'
      BY <2>0, CapacityCarried
    <3>2. CountsAll(p)'
      BY <2>0 DEF CountsAll
    <3> QED BY <3>1, <3>2 DEF Capacity
  <2> QED BY <2>1, <2>2, <2>3, <2>4, <2>5, <2>6 DEF Parts
<1>2. CASE LoadRead(p)
  <2> USE <1>2 DEF LoadRead
  <2>0. /\ UNCHANGED <<store, clock>> /\ Evidence' = Evidence /\ Stored' = Stored
        /\ \A q : Over(q)' = Over(q)
    BY QuietStep
  <2>1. OneHolder'
    BY <2>0 DEF OneHolder
  <2>2. KnownPlans'
    BY <2>0 DEF KnownPlans
  <2>3. NowIsNow'
    BY <2>0 DEF NowIsNow
  <2>4. Memory'
    <3>0. Load(p) = "ok" =>
             /\ plan[p] \in Plans /\ Mine(p) \in Record /\ Mine(p).readable
             /\ Protected(Mine(p)) => clock < RecoveryExpiry(Mine(p)) /\ plan[p] \in Evidence
             /\ ~Protected(Mine(p)) => plan[p] \notin Evidence
             /\ Mine(p).request = None => ~Protected(Mine(p))
      BY LoadsInForce
    <3>1. \A p1 \in Procs : StoresNew(p1)'
      BY <2>0 DEF Memory, StoresNew, MarksItsOwn, RestoresItsOwn, RecordsItsOwn, HasRequest, Storing, Marking, Returned, InMark
    <3>2. \A p1 \in Procs : MarksItsOwn(p1)'
      BY <2>0 DEF Memory, StoresNew, MarksItsOwn, RestoresItsOwn, RecordsItsOwn, HasRequest, Storing, Marking, Returned, InMark
    <3>3. \A p1 \in Procs : RestoresItsOwn(p1)'
      BY <2>0 DEF Memory, StoresNew, MarksItsOwn, RestoresItsOwn, RecordsItsOwn, HasRequest, Storing, Marking, Returned, InMark
    <3>4. \A p1 \in Procs : RecordsItsOwn(p1)'
      <4>1. ASSUME NEW p1 \in Procs, p1 # p PROVE RecordsItsOwn(p1)'
        BY <2>0, <4>1 DEF Memory, RecordsItsOwn, Returned, Marking
      <4>2. RecordsItsOwn(p)'
        BY <2>0, <3>0 DEF Memory, RecordsItsOwn, Returned, Marking, Protected, InMark, NowIsNow, Bindable, Adopted, HasRequest
      <4> QED BY <4>1, <4>2
    <3>5. \A p1 \in Procs : HasRequest(p1)'
      BY <2>0 DEF Memory, StoresNew, MarksItsOwn, RestoresItsOwn, RecordsItsOwn, HasRequest, Storing, Marking, Returned, InMark
    <3> QED BY <3>1, <3>2, <3>3, <3>4, <3>5 DEF Memory
  <2>5. Removals'
    BY <2>0 DEF Removals, RemovesNoEvidence, SweepsOver, SweepsKnown, Storing
  <2>6. Capacity'
    <3>1. CapacityKept' /\ \A p1 \in Procs : p1 # p => CountsAll(p1)'
      BY <2>0, CapacityCarried
    <3>2. CountsAll(p)'
      BY <2>0 DEF CountsAll
    <3> QED BY <3>1, <3>2 DEF Capacity
  <2> QED BY <2>1, <2>2, <2>3, <2>4, <2>5, <2>6 DEF Parts
<1>3. CASE LoadRemove(p)
  <2> USE <1>3 DEF LoadRemove
  <2>0. /\ UNCHANGED <<store, clock>> /\ Evidence' = Evidence /\ Stored' = Stored
        /\ \A q : Over(q)' = Over(q)
    BY QuietStep
  <2>1. OneHolder'
    BY <2>0 DEF OneHolder
  <2>2. KnownPlans'
    BY <2>0 DEF KnownPlans
  <2>3. NowIsNow'
    BY <2>0 DEF NowIsNow
  <2>4. Memory'
    BY <2>0 DEF Memory, StoresNew, MarksItsOwn, RestoresItsOwn, RecordsItsOwn, HasRequest, Storing, Marking, Returned, InMark
  <2>5. Removals'
    <3>0. Load(p) = "ok" =>
             /\ plan[p] \in Plans /\ Mine(p) \in Record /\ Mine(p).readable
             /\ Protected(Mine(p)) => clock < RecoveryExpiry(Mine(p)) /\ plan[p] \in Evidence
             /\ ~Protected(Mine(p)) => plan[p] \notin Evidence
             /\ Mine(p).request = None => ~Protected(Mine(p))
      BY LoadsInForce
    <3>1. \A p1 \in Procs : RemovesNoEvidence(p1)'
      <4>1. ASSUME NEW p1 \in Procs, p1 # p PROVE RemovesNoEvidence(p1)'
        BY <2>0, <4>1 DEF Removals, RemovesNoEvidence, Returned, Marking
      <4>2. RemovesNoEvidence(p)'
        BY <2>0, <3>0 DEF Removals, RemovesNoEvidence, Returned, Marking, Protected, InMark, NowIsNow, Bindable, Adopted, HasRequest
      <4> QED BY <4>1, <4>2
    <3>2. \A p1 \in Procs : SweepsOver(p1)'
      BY <2>0 DEF Removals, RemovesNoEvidence, SweepsOver, SweepsKnown, Storing
    <3>3. \A p1 \in Procs : SweepsKnown(p1)'
      BY <2>0 DEF Removals, RemovesNoEvidence, SweepsOver, SweepsKnown, Storing
    <3> QED BY <3>1, <3>2, <3>3 DEF Removals
  <2>6. Capacity'
    <3>1. CapacityKept' /\ \A p1 \in Procs : p1 # p => CountsAll(p1)'
      BY <2>0, CapacityCarried
    <3>2. CountsAll(p)'
      BY <2>0 DEF CountsAll
    <3> QED BY <3>1, <3>2 DEF Capacity
  <2> QED BY <2>1, <2>2, <2>3, <2>4, <2>5, <2>6 DEF Parts
<1>4. CASE LoadMark(p)
  <2> USE <1>4 DEF LoadMark
  <2>0. /\ UNCHANGED <<store, clock>> /\ Evidence' = Evidence /\ Stored' = Stored
        /\ \A q : Over(q)' = Over(q)
    BY QuietStep
  <2>1. OneHolder'
    BY <2>0 DEF OneHolder
  <2>2. KnownPlans'
    BY <2>0 DEF KnownPlans
  <2>3. NowIsNow'
    BY <2>0 DEF NowIsNow
  <2>4. Memory'
    <3>0. Load(p) = "ok" =>
             /\ plan[p] \in Plans /\ Mine(p) \in Record /\ Mine(p).readable
             /\ Protected(Mine(p)) => clock < RecoveryExpiry(Mine(p)) /\ plan[p] \in Evidence
             /\ ~Protected(Mine(p)) => plan[p] \notin Evidence
             /\ Mine(p).request = None => ~Protected(Mine(p))
      BY LoadsInForce
    <3>1. \A p1 \in Procs : StoresNew(p1)'
      BY <2>0 DEF Memory, StoresNew, MarksItsOwn, RestoresItsOwn, RecordsItsOwn, HasRequest, Storing, Marking, Returned, InMark, Bindable, Adopted
    <3>2. \A p1 \in Procs : MarksItsOwn(p1)'
      <4>1. ASSUME NEW p1 \in Procs, p1 # p PROVE MarksItsOwn(p1)'
        BY <2>0, <4>1 DEF Memory, MarksItsOwn, Returned, Marking
      <4>2. MarksItsOwn(p)'
        BY <2>0, <3>0 DEF Memory, MarksItsOwn, Returned, Marking, Protected, InMark, NowIsNow, Bindable, Adopted, HasRequest
      <4> QED BY <4>1, <4>2
    <3>3. \A p1 \in Procs : RestoresItsOwn(p1)'
      BY <2>0 DEF Memory, StoresNew, MarksItsOwn, RestoresItsOwn, RecordsItsOwn, HasRequest, Storing, Marking, Returned, InMark, Bindable, Adopted
    <3>4. \A p1 \in Procs : RecordsItsOwn(p1)'
      <4>1. ASSUME NEW p1 \in Procs, p1 # p PROVE RecordsItsOwn(p1)'
        BY <2>0, <4>1 DEF Memory, RecordsItsOwn, Returned, Marking
      <4>2. RecordsItsOwn(p)'
        BY <2>0, <3>0 DEF Memory, RecordsItsOwn, Returned, Marking, Protected, InMark, NowIsNow, Bindable, Adopted, HasRequest
      <4> QED BY <4>1, <4>2
    <3>5. \A p1 \in Procs : HasRequest(p1)'
      BY <2>0 DEF Memory, StoresNew, MarksItsOwn, RestoresItsOwn, RecordsItsOwn, HasRequest, Storing, Marking, Returned, InMark, Bindable, Adopted
    <3> QED BY <3>1, <3>2, <3>3, <3>4, <3>5 DEF Memory
  <2>5. Removals'
    <3>0. Load(p) = "ok" =>
             /\ plan[p] \in Plans /\ Mine(p) \in Record /\ Mine(p).readable
             /\ Protected(Mine(p)) => clock < RecoveryExpiry(Mine(p)) /\ plan[p] \in Evidence
             /\ ~Protected(Mine(p)) => plan[p] \notin Evidence
             /\ Mine(p).request = None => ~Protected(Mine(p))
      BY LoadsInForce
    <3>1. \A p1 \in Procs : RemovesNoEvidence(p1)'
      <4>1. ASSUME NEW p1 \in Procs, p1 # p PROVE RemovesNoEvidence(p1)'
        BY <2>0, <4>1 DEF Removals, RemovesNoEvidence, Returned, Marking
      <4>2. RemovesNoEvidence(p)'
        BY <2>0, <3>0 DEF Removals, RemovesNoEvidence, Returned, Marking, Protected, InMark, NowIsNow, Bindable, Adopted, HasRequest
      <4> QED BY <4>1, <4>2
    <3>2. \A p1 \in Procs : SweepsOver(p1)'
      BY <2>0 DEF Removals, RemovesNoEvidence, SweepsOver, SweepsKnown, Storing, Memory, StoresNew, KnownPlans, Stored
    <3>3. \A p1 \in Procs : SweepsKnown(p1)'
      BY <2>0 DEF Removals, RemovesNoEvidence, SweepsOver, SweepsKnown, Storing, Memory, StoresNew, KnownPlans, Stored
    <3> QED BY <3>1, <3>2, <3>3 DEF Removals
  <2>6. Capacity'
    <3>1. CapacityKept' /\ \A p1 \in Procs : p1 # p => CountsAll(p1)'
      BY <2>0, CapacityCarried
    <3>2. CountsAll(p)'
      BY <2>0 DEF CountsAll
    <3> QED BY <3>1, <3>2 DEF Capacity
  <2> QED BY <2>1, <2>2, <2>3, <2>4, <2>5, <2>6 DEF Parts
<1>5. CASE LoadRestore(p)
  <2> USE <1>5 DEF LoadRestore
  <2>0. /\ UNCHANGED <<store, clock>> /\ Evidence' = Evidence /\ Stored' = Stored
        /\ \A q : Over(q)' = Over(q)
    BY QuietStep
  <2>1. OneHolder'
    BY <2>0 DEF OneHolder
  <2>2. KnownPlans'
    BY <2>0 DEF KnownPlans
  <2>3. NowIsNow'
    BY <2>0 DEF NowIsNow
  <2>4. Memory'
    <3>0. Load(p) = "ok" =>
             /\ plan[p] \in Plans /\ Mine(p) \in Record /\ Mine(p).readable
             /\ Protected(Mine(p)) => clock < RecoveryExpiry(Mine(p)) /\ plan[p] \in Evidence
             /\ ~Protected(Mine(p)) => plan[p] \notin Evidence
             /\ Mine(p).request = None => ~Protected(Mine(p))
      BY LoadsInForce
    <3>1. \A p1 \in Procs : StoresNew(p1)'
      BY <2>0 DEF Memory, StoresNew, MarksItsOwn, RestoresItsOwn, RecordsItsOwn, HasRequest, Storing, Marking, Returned, InMark
    <3>2. \A p1 \in Procs : MarksItsOwn(p1)'
      BY <2>0 DEF Memory, StoresNew, MarksItsOwn, RestoresItsOwn, RecordsItsOwn, HasRequest, Storing, Marking, Returned, InMark
    <3>3. \A p1 \in Procs : RestoresItsOwn(p1)'
      <4>1. ASSUME NEW p1 \in Procs, p1 # p PROVE RestoresItsOwn(p1)'
        BY <2>0, <4>1 DEF Memory, RestoresItsOwn, Returned, Marking
      <4>2. RestoresItsOwn(p)'
        BY <2>0, <3>0 DEF Memory, RestoresItsOwn, Returned, Marking, Protected, InMark, NowIsNow, Bindable, Adopted, HasRequest
      <4> QED BY <4>1, <4>2
    <3>4. \A p1 \in Procs : RecordsItsOwn(p1)'
      BY <2>0 DEF Memory, StoresNew, MarksItsOwn, RestoresItsOwn, RecordsItsOwn, HasRequest, Storing, Marking, Returned, InMark
    <3>5. \A p1 \in Procs : HasRequest(p1)'
      BY <2>0 DEF Memory, StoresNew, MarksItsOwn, RestoresItsOwn, RecordsItsOwn, HasRequest, Storing, Marking, Returned, InMark
    <3> QED BY <3>1, <3>2, <3>3, <3>4, <3>5 DEF Memory
  <2>5. Removals'
    BY <2>0 DEF Removals, RemovesNoEvidence, SweepsOver, SweepsKnown, Storing
  <2>6. Capacity'
    <3>1. CapacityKept' /\ \A p1 \in Procs : p1 # p => CountsAll(p1)'
      BY <2>0, CapacityCarried
    <3>2. CountsAll(p)'
      BY <2>0 DEF CountsAll
    <3> QED BY <3>1, <3>2 DEF Capacity
  <2> QED BY <2>1, <2>2, <2>3, <2>4, <2>5, <2>6 DEF Parts
<1> QED BY <1>1, <1>2, <1>3, <1>4, <1>5

LEMMA QuietSweepSteps ==
  ASSUME Discipline, OneCommandPerPlan', NEW p \in Procs,
         SweepRead(p) \/ SweepDone(p)
  PROVE  Parts'
<1> USE DEF Discipline, Parts, StoreInv, TypeOK, Working, AtPlan, Sweeps, Begin, Ready, At, Alive, Goto,
            Return, Hold, Mine, Forget, storeVars, cmdVars, sweepVars
<1>1. CASE SweepRead(p)
  <2> USE <1>1 DEF SweepRead
  <2>0. /\ UNCHANGED <<store, clock>> /\ Evidence' = Evidence /\ Stored' = Stored
        /\ \A q : Over(q)' = Over(q)
    BY QuietStep
  <2>1. OneHolder'
    BY <2>0 DEF OneHolder
  <2>2. KnownPlans'
    BY <2>0 DEF KnownPlans
  <2>3. NowIsNow'
    BY <2>0 DEF NowIsNow
  <2>4. Memory'
    BY <2>0 DEF Memory, StoresNew, MarksItsOwn, RestoresItsOwn, RecordsItsOwn, HasRequest, Storing, Marking, Returned, InMark
  <2>5. Removals'
    <3>1. \A p1 \in Procs : RemovesNoEvidence(p1)'
      BY <2>0 DEF Removals, RemovesNoEvidence, SweepsOver, SweepsKnown, Storing
    <3>2. \A p1 \in Procs : SweepsOver(p1)'
      BY <2>0, SweepsNow, ExpiredIsOver DEF Removals, RemovesNoEvidence, SweepsOver, SweepsKnown, Storing
    <3>3. \A p1 \in Procs : SweepsKnown(p1)'
      BY <2>0 DEF Removals, RemovesNoEvidence, SweepsOver, SweepsKnown, Storing
    <3> QED BY <3>1, <3>2, <3>3 DEF Removals
  <2>6. Capacity'
    <3>1. CapacityKept' /\ \A p1 \in Procs : p1 # p => CountsAll(p1)'
      BY <2>0, CapacityCarried
    <3>2. CountsAll(p)'
      <4>1. SUFFICES ASSUME op[p] = "mark", at'[p] \in {"count", "countEvict"}
                     PROVE  Cardinality(Counted(p)') <= count'[p]
        BY DEF CountsAll
      <4>2. at[p] = "count" /\ Cardinality(Counted(p)) <= count[p] /\ count[p] \in Nat
        BY <4>1 DEF Capacity, CountsAll
      <4>3. IsFiniteSet(Counted(p)) /\ Cardinality(Counted(p)) \in Nat
        BY EvidenceFinite, FS_Subset, FS_CardinalityType DEF Counted
      <4>4. CASE UNCHANGED <<todo, count>>
        BY <2>0, <4>2, <4>4 DEF Counted
      <4>5. ASSUME NEW q \in todo[p], todo' = [todo EXCEPT ![p] = @ \ {q}],
                   count' = [count EXCEPT ![p] = IF Protected(store[q]) THEN @ + 1 ELSE @]
            PROVE  Cardinality(Counted(p)') <= count'[p]
        <5>1. CASE q \in Evidence /\ q # plan[p]
          <6>1. Counted(p)' = Counted(p) \cup {q} /\ q \notin Counted(p)
            BY <2>0, <4>5, <5>1 DEF Counted
          <6>2. Cardinality(Counted(p) \cup {q}) = Cardinality(Counted(p)) + 1
            BY <4>3, <6>1, FS_AddElement, Zenon
          <6>3. count'[p] = count[p] + 1
            BY <4>5, <5>1 DEF Evidence
          <6> QED BY <4>2, <4>3, <6>1, <6>2, <6>3
        <5>2. CASE ~(q \in Evidence /\ q # plan[p])
          <6>1. Counted(p)' = Counted(p)
            BY <2>0, <4>5, <5>2 DEF Counted
          <6>2. count'[p] = count[p] \/ count'[p] = count[p] + 1
            BY <4>5
          <6> QED BY <4>2, <4>3, <6>1, <6>2
        <5> QED BY <5>1, <5>2
      <4> QED BY <4>1, <4>2, <4>4, <4>5
    <3> QED BY <3>1, <3>2 DEF Capacity
  <2> QED BY <2>1, <2>2, <2>3, <2>4, <2>5, <2>6 DEF Parts
<1>2. CASE SweepDone(p)
  <2> USE <1>2 DEF SweepDone
  <2>0. /\ UNCHANGED <<store, clock>> /\ Evidence' = Evidence /\ Stored' = Stored
        /\ \A q : Over(q)' = Over(q)
    BY QuietStep
  <2>1. OneHolder'
    BY <2>0 DEF OneHolder
  <2>2. KnownPlans'
    BY <2>0 DEF KnownPlans
  <2>3. NowIsNow'
    BY <2>0 DEF NowIsNow
  <2>4. Memory'
    BY <2>0 DEF Memory, StoresNew, MarksItsOwn, RestoresItsOwn, RecordsItsOwn, HasRequest, Storing, Marking, Returned, InMark
  <2>5. Removals'
    <3>1. \A p1 \in Procs : RemovesNoEvidence(p1)'
      BY <2>0 DEF Removals, RemovesNoEvidence, SweepsOver, SweepsKnown, Storing, Memory, StoresNew, KnownPlans, Stored
    <3>2. \A p1 \in Procs : SweepsOver(p1)'
      BY <2>0 DEF Removals, RemovesNoEvidence, SweepsOver, SweepsKnown, Storing, Memory, StoresNew, KnownPlans, Stored
    <3>3. \A p1 \in Procs : SweepsKnown(p1)'
      BY <2>0 DEF Removals, RemovesNoEvidence, SweepsOver, SweepsKnown, Storing, Memory, StoresNew, KnownPlans, Stored
    <3> QED BY <3>1, <3>2, <3>3 DEF Removals
  <2>6. Capacity'
    <3>1. CapacityKept' /\ \A p1 \in Procs : p1 # p => CountsAll(p1)'
      BY <2>0, CapacityCarried
    <3>2. op'[p] = "mark" /\ at'[p] \in {"count", "countEvict"} => Cardinality(Counted(p)') <= count'[p]
      <4>1. SUFFICES ASSUME op[p] = "mark", at'[p] \in {"count", "countEvict"}
                     PROVE  Cardinality(Counted(p)') <= count'[p]
        OBVIOUS
      <4>2. todo'[p] = Stored \ {plan[p]} /\ count'[p] = 0
        BY <4>1
      <4>3. Counted(p)' = {}
        BY <2>0, <4>2 DEF Counted, Evidence
      <4> QED BY <4>2, <4>3, FS_EmptySet
    <3>3. op'[p] = "mark" /\ at'[p] = "write" => Cardinality(Evidence' \ {plan'[p]}) < Limit
      <4>1. SUFFICES ASSUME op[p] = "mark", at'[p] = "write"
                     PROVE  Cardinality(Evidence \ {plan[p]}) < Limit
        BY <2>0
      <4>2. at[p] = "count" /\ count[p] < Limit /\ count[p] \in Nat
        BY <4>1, NumberAssumption DEF Full
      <4>3. Cardinality(Counted(p)) <= count[p]
        BY <4>1, <4>2 DEF Capacity, CountsAll
      <4>4. Counted(p) = Evidence \ {plan[p]}
        BY DEF Counted
      <4>5. Cardinality(Evidence \ {plan[p]}) \in Nat
        BY EvidenceFinite, FS_Subset, FS_CardinalityType
      <4> QED BY <4>2, <4>3, <4>4, <4>5, NumberAssumption
    <3> QED BY <3>1, <3>2, <3>3 DEF Capacity, CountsAll
  <2> QED BY <2>1, <2>2, <2>3, <2>4, <2>5, <2>6 DEF Parts
<1> QED BY <1>1, <1>2


LEMMA OwnFile ==
  ASSUME Discipline, NEW p \in Procs, NEW p1 \in Procs, p1 # p, plan[p] \in Plans
  PROVE  plan[p1] # plan[p]
BY SentinelAssumption DEF Discipline, OneCommandPerPlan

\* A file that goes takes no evidence with it but the one its command may
\* abandon, and leaves the other processes what they have in memory.
LEMMA RemovingSteps ==
  ASSUME Discipline, OneCommandPerPlan', NEW p \in Procs, Evict(p) \/ Remove(p)
  PROVE  Parts'
<1> USE DEF Discipline, Parts, StoreInv, TypeOK, Working, AtPlan, At, Alive, Goto, Return, Put, Mine,
            storeVars, cmdVars, sweepVars, Evict, Remove
<1>1. /\ plan[p] \in Plans
      /\ store' = [store EXCEPT ![plan[p]] = Absent] /\ clock' = clock
  OBVIOUS
<1>2. /\ Evidence' = Evidence \ {plan[p]} /\ Stored' \subseteq Stored
      /\ \A q \in Plans : Over(q) => Over(q)'
  BY <1>1 DEF Evidence, Stored, Over
<1>3. \A p1 \in Procs : p1 # p => plan[p1] # plan[p]
  BY <1>1, OwnFile
<1>4. /\ UNCHANGED <<lock, dead, op, plan, rec, req, now, todo, count, target, used>>
      /\ \A p1 \in Procs : p1 # p => at'[p1] = at[p1] /\ ret'[p1] = ret[p1]
      /\ at'[p] \in {"unlock", "idle"} /\ (at'[p] = "unlock" => p \in lock)
      /\ at[p] \in {"evict", "remove"}
      /\ ret'[p] = "ok" => op[p] \in {"discard", "abandon"}
  BY DEF Removals, RemovesNoEvidence
<1> HIDE DEF Evict, Remove
<1>5. OneHolder'
  BY <1>4 DEF OneHolder
<1>6. KnownPlans'
  BY <1>2, <1>4 DEF KnownPlans
<1>7. NowIsNow'
  BY <1>1, <1>4 DEF NowIsNow
<1>8. Memory'
  <2>1. \A p1 \in Procs : StoresNew(p1)' /\ MarksItsOwn(p1)' /\ RestoresItsOwn(p1)'
    BY <1>1, <1>3, <1>4 DEF Memory, StoresNew, MarksItsOwn, RestoresItsOwn, Storing, Marking
  <2>2. \A p1 \in Procs : RecordsItsOwn(p1)' /\ HasRequest(p1)'
    BY <1>1, <1>2, <1>3, <1>4 DEF Memory, RecordsItsOwn, HasRequest, Returned
  <2> QED BY <2>1, <2>2 DEF Memory
<1>9. Removals'
  <2>1. \A p1 \in Procs : RemovesNoEvidence(p1)'
    BY <1>2, <1>4 DEF Removals, RemovesNoEvidence
  <2>2. \A p1 \in Procs : SweepsOver(p1)'
    BY <1>2, <1>4 DEF Removals, SweepsOver, Storing
  <2>3. \A p1 \in Procs : SweepsKnown(p1)'
    BY <1>4 DEF Removals, SweepsKnown, Storing
  <2> QED BY <2>1, <2>2, <2>3 DEF Removals
<1>10. Capacity'
  <2>1. CapacityKept' /\ \A p1 \in Procs : p1 # p => CountsAll(p1)'
    BY <1>2, <1>4, CapacityCarried
  <2>2. CountsAll(p)'
    BY <1>4 DEF CountsAll
  <2> QED BY <2>1, <2>2 DEF Capacity
<1> QED BY <1>5, <1>6, <1>7, <1>8, <1>9, <1>10

LEMMA SweepEvictStep ==
  ASSUME Discipline, OneCommandPerPlan', NEW p \in Procs, SweepEvict(p)
  PROVE  Parts'
<1> USE DEF Discipline, Parts, StoreInv, TypeOK, Working, AtPlan, Sweeps, At, Alive, Goto, Return, Put,
            storeVars, cmdVars, sweepVars, SweepEvict
<1> DEFINE t == target[p]
<1>1. /\ t \in Plans /\ t \notin Evidence /\ Over(t)
      /\ \A p1 \in Procs : Storing(p1) => plan[p1] # t
  BY OverIsNoEvidence DEF Removals, SweepsOver
<1>2. store' = store \/ store' = [store EXCEPT ![t] = Absent]
  OBVIOUS
<1>3. /\ Evidence' = Evidence /\ Stored' \subseteq Stored
      /\ \A q \in Plans : Over(q) => Over(q)'
  <2>1. clock' = clock
    OBVIOUS
  <2> QED BY <1>1, <1>2, <2>1 DEF Evidence, Stored, Over
<1>4. /\ UNCHANGED <<clock, lock, dead, op, plan, rec, req, now, used>>
      /\ \A p1 \in Procs : p1 # p =>
           UNCHANGED <<at[p1], ret[p1], todo[p1], target[p1], count[p1]>>
      /\ at[p] \in {"pruneEvict", "countEvict", "listEvict"}
      /\ todo'[p] \subseteq todo[p] /\ ret'[p] \in {ret[p], "error"}
      /\ \/ at'[p] \in {"unlock", "idle"} /\ (at'[p] = "unlock" => p \in lock) /\ ret'[p] = "error"
         \/ /\ at'[p] = (IF at[p] = "pruneEvict" THEN "prune"
                       ELSE IF at[p] = "countEvict" THEN "count" ELSE "list")
            /\ count'[p] = count[p] /\ todo'[p] = todo[p] \ {t}
  OBVIOUS
<1> HIDE DEF SweepEvict
<1>5. OneHolder'
  BY <1>4 DEF OneHolder
<1>6. KnownPlans'
  BY <1>3, <1>4 DEF KnownPlans
<1>7. NowIsNow'
  BY <1>4 DEF NowIsNow
<1>8. Memory'
  <2>1. \A p1 \in Procs : StoresNew(p1)'
    BY <1>1, <1>2, <1>4 DEF Memory, StoresNew, Storing
  <2>2. ASSUME NEW p1 \in Procs, MarksItsOwn(p1), Marking(p1)
        PROVE  plan[p1] # t
    <3>1. ~Protected(rec[p1]) /\ rec[p1] \in Record /\ rec[p1] # Absent /\ plan[p1] \in Plans
      BY <2>2 DEF MarksItsOwn, Marking, DecodeInv, Decodable, Protected
    <3> QED BY <1>1, <2>2, <3>1, RecordTimes, NumberAssumption DEF MarksItsOwn, Over
  <2>3. ASSUME NEW p1 \in Procs, RestoresItsOwn(p1), op[p1] = "restore", at[p1] = "write"
        PROVE  plan[p1] # t
    <3>1. rec[p1] \in Record /\ plan[p1] \in Plans
      BY <2>3
    <3> QED BY <1>1, <2>3, <3>1, RecordTimes, NumberAssumption DEF RestoresItsOwn, Over
  <2>4. \A p1 \in Procs : MarksItsOwn(p1)'
    BY <1>2, <1>4, <2>2 DEF Memory, MarksItsOwn, Marking
  <2>5. \A p1 \in Procs : RestoresItsOwn(p1)'
    BY <1>2, <1>4, <2>3 DEF Memory, RestoresItsOwn
  <2>6. \A p1 \in Procs : RecordsItsOwn(p1)'
    <3>1. Evidence \subseteq Plans
      BY DEF Evidence, Stored
    <3> QED BY <1>1, <1>2, <1>3, <1>4, <3>1 DEF Memory, RecordsItsOwn, Returned
  <2>7. \A p1 \in Procs : HasRequest(p1)'
    BY <1>4 DEF Memory, HasRequest, Returned
  <2> QED BY <2>1, <2>4, <2>5, <2>6, <2>7 DEF Memory
<1>9. Removals'
  <2>1. \A p1 \in Procs : RemovesNoEvidence(p1)'
    BY <1>3, <1>4 DEF Removals, RemovesNoEvidence
  <2>2. \A p1 \in Procs : SweepsOver(p1)'
    BY <1>3, <1>4 DEF Removals, SweepsOver, Storing
  <2>3. \A p1 \in Procs : SweepsKnown(p1)'
    BY <1>4 DEF Removals, SweepsKnown, Storing
  <2> QED BY <2>1, <2>2, <2>3 DEF Removals
<1>10. Capacity'
  <2>1. CapacityKept' /\ \A p1 \in Procs : p1 # p => CountsAll(p1)'
    BY <1>3, <1>4, CapacityCarried
  <2>2. op[p] = "mark" /\ at'[p] = "count" => Counted(p)' = Counted(p)
    BY <1>1, <1>3, <1>4 DEF Counted
  <2>3. CountsAll(p)'
    BY <1>4, <2>2 DEF Capacity, CountsAll
  <2> QED BY <2>1, <2>3 DEF Capacity
<1> QED BY <1>5, <1>6, <1>7, <1>8, <1>9, <1>10

\* One more element makes a finite set larger by one.
LEMMA AddOne ==
  ASSUME NEW S, IsFiniteSet(S), NEW x, x \notin S
  PROVE  IsFiniteSet(S \cup {x}) /\ Cardinality(S \cup {x}) = Cardinality(S) + 1
BY FS_AddElement

LEMMA WriteStep ==
  ASSUME Discipline, OneCommandPerPlan', NEW p \in Procs, Write(p)
  PROVE  Parts'
<1> USE DEF Discipline, Parts, StoreInv, TypeOK, Working, AtPlan, Sweeps, At, Alive, Goto, Return, Put,
            Hold, storeVars, cmdVars, sweepVars, Write
<1> DEFINE w == Written(p)
<1>1. /\ plan[p] \in Plans /\ w \in Record /\ store' = [store EXCEPT ![plan[p]] = w]
      /\ rec' = [rec EXCEPT ![p] = w] /\ ret' = [ret EXCEPT ![p] = "ok"]
      /\ op[p] \in {"store", "mark", "restore"} /\ at[p] = "write" /\ p \notin dead
  BY WrittenType
<1>2. /\ UNCHANGED <<clock, lock, dead, op, plan, req, now, todo, count, target, used>>
      /\ \A p1 \in Procs : p1 # p => at'[p1] = at[p1]
      /\ at'[p] \in {"unlock", "idle"} /\ (at'[p] = "unlock" => p \in lock)
  OBVIOUS
<1>3. \A p1 \in Procs : p1 # p => plan[p1] # plan[p]
  BY <1>1, OwnFile
<1>4. \A q \in Plans : q # plan[p] => (q \in Evidence' <=> q \in Evidence) /\ (Over(q)' <=> Over(q))
  BY <1>1, <1>2 DEF Evidence, Stored, Over
<1>5. op[p] \in {"store", "restore"} => ~Protected(w)
  <2>1. CASE op[p] = "store"
    BY <2>1 DEF Written, Protected, Fresh
  <2>2. CASE op[p] = "restore"
    <3>1. rec[p] \in Record /\ rec[p].outcome = None
      BY <1>1, <2>2 DEF DecodeInv
    <3> QED BY <2>2, <3>1 DEF Written, Protected, Record
  <2> QED BY <2>1, <2>2
<1>6. op[p] = "mark" => Protected(w) /\ w.readable /\ clock < RecoveryExpiry(w)
  <2> SUFFICES ASSUME op[p] = "mark" PROVE Protected(w) /\ w.readable /\ clock < RecoveryExpiry(w)
    OBVIOUS
  <2>1. rec[p] \in Record /\ rec[p].readable /\ req[p] # None /\ now[p] = clock /\ clock \in Nat
    BY <1>1, NumberAssumption DEF Memory, MarksItsOwn, Marking, DecodeInv, InMark, NowIsNow
  <2>2. w = [rec[p] EXCEPT !.request = req[p], !.start = now[p]]
    BY DEF Written
  <2>3. w.request = req[p] /\ w.start = now[p] /\ w.readable = rec[p].readable
    BY <2>1, <2>2 DEF Record
  <2> HIDE DEF w
  <2> QED BY <2>1, <2>3, StoreAssumption, NumberAssumption, SentinelAssumption
      DEF Protected, RecoveryExpiry
<1> HIDE DEF w, Write
<1>7. /\ op[p] \in {"store", "restore"} => Evidence' = Evidence \ {plan[p]}
      /\ op[p] = "mark" => plan[p] \in Evidence'
      /\ Evidence' \subseteq Evidence \cup {plan[p]} /\ Evidence' \subseteq Plans
      /\ Stored' \subseteq Stored \cup {plan[p]}
  BY <1>1, <1>2, <1>4, <1>5, <1>6, AbsentAssumption DEF Evidence, Stored
<1>8. OneHolder'
  BY <1>2 DEF OneHolder
<1>9. KnownPlans'
  BY <1>1, <1>2, <1>7, SentinelAssumption DEF KnownPlans
<1>10. NowIsNow'
  BY <1>1, <1>2 DEF NowIsNow
<1>11. Memory'
  <2>1. \A p1 \in Procs : StoresNew(p1)' /\ MarksItsOwn(p1)' /\ RestoresItsOwn(p1)'
    BY <1>1, <1>2, <1>3 DEF Memory, StoresNew, MarksItsOwn, RestoresItsOwn, Storing, Marking
  <2>2. ASSUME NEW p1 \in Procs, p1 # p PROVE RecordsItsOwn(p1)'
    BY <1>1, <1>2, <1>3, <1>4, <2>2 DEF Memory, RecordsItsOwn, Returned, Evidence, Stored
  <2>3. RecordsItsOwn(p)'
    BY <1>1, <1>2, <1>6, <1>7 DEF RecordsItsOwn, Returned
  <2>4. \A p1 \in Procs : HasRequest(p1)'
    BY <1>1, <1>2 DEF Memory, HasRequest, Returned, DecodeInv, InMark
  <2> QED BY <2>1, <2>2, <2>3, <2>4 DEF Memory
<1>12. Removals'
  <2>1. \A p1 \in Procs : RemovesNoEvidence(p1)'
    BY <1>1, <1>2, <1>3, <1>4, <1>7 DEF Removals, RemovesNoEvidence
  <2>2. ASSUME NEW p1 \in Procs, at[p1] \in {"pruneEvict", "countEvict", "listEvict"}
        PROVE  target[p1] # plan[p]
    <3>1. Over(target[p1]) /\ target[p1] \in Plans /\ (Storing(p) => plan[p] # target[p1])
      BY <2>2 DEF Removals, SweepsOver
    <3>2. CASE op[p] = "store"
      BY <1>1, <3>1, <3>2 DEF Storing
    <3>3. CASE op[p] = "mark"
      <4>1. ~Protected(rec[p]) /\ rec[p] \in Record /\ rec[p] # Absent
        BY <1>1, <3>3 DEF Memory, MarksItsOwn, Marking, DecodeInv, Decodable, Protected
      <4> QED BY <1>1, <3>1, <3>3, <4>1, RecordTimes, NumberAssumption
          DEF Memory, MarksItsOwn, Marking, Over
    <3>4. CASE op[p] = "restore"
      <4>1. rec[p] \in Record /\ rec[p] # Absent
        BY <1>1, <3>4
      <4> QED BY <1>1, <3>1, <3>4, <4>1, RecordTimes, NumberAssumption
          DEF Memory, RestoresItsOwn, Over
    <3> QED BY <1>1, <3>2, <3>3, <3>4
  <2>3. \A p1 \in Procs : SweepsOver(p1)'
    BY <1>1, <1>2, <1>4, <2>2 DEF Removals, SweepsOver, Storing
  <2>4. \A p1 \in Procs : SweepsKnown(p1)'
    BY <1>2 DEF Removals, SweepsKnown, Storing
  <2> QED BY <2>1, <2>3, <2>4 DEF Removals
<1>13. Capacity'
  <2>1. CASE op[p] \in {"store", "restore"}
    <3>1. Evidence' \subseteq Evidence
      BY <1>7, <2>1
    <3>2. CapacityKept' /\ \A p1 \in Procs : p1 # p => CountsAll(p1)'
      BY <1>2, <3>1, CapacityCarried
    <3>3. CountsAll(p)'
      BY <1>2 DEF CountsAll
    <3> QED BY <3>2, <3>3 DEF Capacity
  <2>2. CASE op[p] = "mark"
    <3>1. ASSUME NEW p1 \in Procs, op[p1] = "mark", at'[p1] \in {"count", "countEvict", "write"}
          PROVE  FALSE
      <4>1. p1 # p /\ at[p1] \notin {"idle", "lock"}
        BY <1>2, <3>1
      <4>2. lock = {p1}
        BY <3>1, <4>1 DEF OneHolder
      <4>3. lock = {p}
        BY <1>1, <2>2 DEF OneHolder
      <4> QED BY <4>1, <4>2, <4>3
    <3>2. \A p1 \in Procs : CountsAll(p1)'
      BY <1>2, <3>1 DEF CountsAll
    <3>3. Cardinality(Evidence \ {plan[p]}) < Limit
      BY <1>1, <2>2 DEF Capacity, CountsAll
    <3>0. IsFiniteSet(Evidence \ {plan[p]}) /\ plan[p] \notin Evidence \ {plan[p]}
      BY EvidenceFinite, FS_Subset
    <3>4. /\ IsFiniteSet((Evidence \ {plan[p]}) \cup {plan[p]})
          /\ Cardinality((Evidence \ {plan[p]}) \cup {plan[p]}) = Cardinality(Evidence \ {plan[p]}) + 1
      BY <3>0, AddOne
    <3>5. Evidence' \subseteq (Evidence \ {plan[p]}) \cup {plan[p]}
      BY <1>7
    <3>6. /\ Cardinality(Evidence') <= Cardinality((Evidence \ {plan[p]}) \cup {plan[p]})
          /\ Cardinality(Evidence') \in Nat /\ Cardinality(Evidence \ {plan[p]}) \in Nat
      BY <3>0, <3>4, <3>5, FS_Subset, FS_CardinalityType
    <3>7. CapacityKept'
      BY <3>3, <3>4, <3>6, NumberAssumption DEF CapacityKept
    <3> QED BY <3>2, <3>7 DEF Capacity
  <2> QED BY <1>1, <2>1, <2>2
<1> QED BY <1>8, <1>9, <1>10, <1>11, <1>12, <1>13

\* An outcome is recorded over the evidence itself, or removes it.
LEMMA RecordStep ==
  ASSUME Discipline, OneCommandPerPlan', NEW p \in Procs, Returned(p, {"mark", "readAll"}),
         NEW result \in {"applied", "uncertain", "failed"}, RecordOutcome(p, result)
  PROVE  Parts'
<1> USE DEF Discipline, Parts, StoreInv, TypeOK, Working, AtPlan, Sweeps, At, Alive, Goto, Return, Put,
            Hold, Ready, storeVars, cmdVars, sweepVars
<1> Recording(p, result)
  BY RecordsExact
<1> USE DEF Recording
<1>1. /\ plan[p] \in Plans /\ plan[p] \in Evidence /\ store[plan[p]] = rec[p] /\ at[p] = "idle" /\ p \notin dead
      /\ op' = [op EXCEPT ![p] = "record"]
      /\ rec[p] # Absent /\ rec[p] \in Record
  BY DEF Memory, RecordsItsOwn
<1>2. /\ UNCHANGED <<clock, lock, dead, plan, req, now, todo, count, target, used>>
      /\ \A p1 \in Procs : p1 # p => at'[p1] = at[p1] /\ ret'[p1] = ret[p1] /\ rec'[p1] = rec[p1]
      /\ at'[p] \in {"unlock", "idle"}
  OBVIOUS
<1>3. \A p1 \in Procs : p1 # p => plan[p1] # plan[p]
  BY <1>1, OwnFile
<1>4. PICK r : store' = [store EXCEPT ![plan[p]] = r]
  BY <1>1
<1>5. \A q \in Plans : q # plan[p] => (q \in Evidence' <=> q \in Evidence) /\ (Over(q)' <=> Over(q))
  BY <1>2, <1>4 DEF Evidence, Stored, Over
<1> HIDE DEF Recording
<1>6. Evidence' \subseteq Evidence /\ Stored' \subseteq Stored
  BY <1>1, <1>4, <1>5 DEF Evidence, Stored
<1>7. OneHolder'
  BY <1>1, <1>2 DEF OneHolder
<1>8. KnownPlans'
  BY <1>2, <1>6 DEF KnownPlans
<1>9. NowIsNow'
  BY <1>1, <1>2 DEF NowIsNow
<1>10. Memory'
  <2>1. \A p1 \in Procs : StoresNew(p1)' /\ MarksItsOwn(p1)' /\ RestoresItsOwn(p1)'
    BY <1>1, <1>2, <1>3, <1>4 DEF Memory, StoresNew, MarksItsOwn, RestoresItsOwn, Storing, Marking
  <2>2. \A p1 \in Procs : RecordsItsOwn(p1)'
    BY <1>1, <1>2, <1>3, <1>4, <1>5 DEF Memory, RecordsItsOwn, Returned, Evidence, Stored
  <2>3. \A p1 \in Procs : HasRequest(p1)'
    BY <1>1, <1>2 DEF Memory, HasRequest, Returned
  <2> QED BY <2>1, <2>2, <2>3 DEF Memory
<1>11. Removals'
  <2>1. \A p1 \in Procs : RemovesNoEvidence(p1)'
    BY <1>1, <1>2, <1>6 DEF Removals, RemovesNoEvidence
  <2>2. ASSUME NEW p1 \in Procs, at[p1] \in {"pruneEvict", "countEvict", "listEvict"}
        PROVE  target[p1] # plan[p] /\ target[p1] \in Plans
    BY <1>1, <2>2, OverIsNoEvidence DEF Removals, SweepsOver
  <2>3. \A p1 \in Procs : SweepsOver(p1)'
    BY <1>1, <1>2, <1>5, <2>2 DEF Removals, SweepsOver, Storing
  <2>4. \A p1 \in Procs : SweepsKnown(p1)'
    BY <1>1, <1>2 DEF Removals, SweepsKnown, Storing
  <2> QED BY <2>1, <2>3, <2>4 DEF Removals
<1>12. Capacity'
  <2>1. CapacityKept' /\ \A p1 \in Procs : p1 # p => CountsAll(p1)'
    BY <1>1, <1>2, <1>6, CapacityCarried
  <2>2. CountsAll(p)'
    BY <1>1 DEF CountsAll
  <2> QED BY <2>1, <2>2 DEF Capacity
<1> QED BY <1>7, <1>8, <1>9, <1>10, <1>11, <1>12

\* Time passes between operations, and ends no evidence a command works on.
LEMMA TickStep ==
  ASSUME Discipline, Tick, PromptOperations
  PROVE  Parts'
<1> USE DEF Discipline, Parts, StoreInv, TypeOK, Tick, storeVars, cmdVars, sweepVars
<1>1. /\ clock' = clock + 1 /\ clock \in Nat
      /\ UNCHANGED <<store, used, issued, lock, dead, at, op, plan, rec, req, now, todo, count, target, ret>>
      /\ \A p \in Procs : at[p] = "idle"
      /\ \A q \in Evidence : q \notin Evidence' => \A p \in Procs : plan[p] # q
  BY NumberAssumption DEF PromptOperations, Alive, NowIsNow
<1>2. Evidence' \subseteq Evidence /\ Stored' = Stored
  <2>1. \A q \in Stored : RecoveryExpiry(store[q]) \in Nat
    BY RecordTimes DEF Stored
  <2> QED BY <1>1, <2>1 DEF Evidence, Stored
<1> HIDE DEF Tick
<1>3. OneHolder' /\ KnownPlans' /\ NowIsNow'
  BY <1>1, <1>2 DEF OneHolder, KnownPlans, NowIsNow
<1>4. Memory'
  BY <1>1 DEF Memory, StoresNew, MarksItsOwn, RestoresItsOwn, RecordsItsOwn, HasRequest, Storing,
     Marking, Returned
<1>5. Removals'
  BY <1>1 DEF Removals, RemovesNoEvidence, SweepsOver, SweepsKnown, Storing
<1>6. Capacity'
  BY <1>1, <1>2, CapacityCarried DEF Capacity
<1> QED BY <1>3, <1>4, <1>5, <1>6

LEMMA InitDiscipline == Init => Discipline
<1> SUFFICES ASSUME Init PROVE Discipline
  OBVIOUS
<1>1. StoreInv /\ DecodeInv
  BY InitStoreInv, FreshDecodes, OldRecordsDecode DEF Init, DecodeInv
<1>2. OneCommandPerPlan
  BY DEF Init, OneCommandPerPlan
<1>3. OneHolder /\ KnownPlans /\ NowIsNow
  BY DEF Init, OneHolder, KnownPlans, NowIsNow
<1>4. Memory
  BY DEF Init, Memory, StoresNew, MarksItsOwn, RestoresItsOwn, RecordsItsOwn, HasRequest,
     Storing, Marking, Returned
<1>5. Removals
  BY DEF Init, Removals, RemovesNoEvidence, SweepsOver, SweepsKnown, Storing
<1>6. Capacity
  BY DEF Init, Capacity, CapacityKept, CountsAll
<1> QED BY <1>1, <1>2, <1>3, <1>4, <1>5, <1>6 DEF Discipline, Parts

LEMMA NextDiscipline ==
  Discipline /\ [StoreNext /\ Disciplined]_vars => Discipline'
<1> SUFFICES ASSUME Discipline, [StoreNext /\ Disciplined]_vars PROVE Discipline'
  OBVIOUS
<1>1. StoreInv' /\ DecodeInv'
  BY NextStoreInv, NextDecodeInv DEF Discipline
<1>2. CASE UNCHANGED vars
  <2>1. UNCHANGED <<store, clock, used, lock, dead, at, op, plan, rec, req, now, todo, count,
                    target, ret>>
    BY <1>2 DEF vars, storeVars, cmdVars, sweepVars
  <2>2. OneCommandPerPlan' /\ OneHolder' /\ KnownPlans' /\ NowIsNow'
    BY <2>1, QuietStep DEF Discipline, Parts, OneCommandPerPlan, OneHolder, KnownPlans, NowIsNow
  <2>3. Memory'
    BY <2>1, QuietStep DEF Discipline, Parts, Memory, StoresNew, MarksItsOwn, RestoresItsOwn,
       RecordsItsOwn, HasRequest, Storing, Marking, Returned
  <2>4. Removals'
    BY <2>1, QuietStep DEF Discipline, Parts, Removals, RemovesNoEvidence, SweepsOver,
       SweepsKnown, Storing
  <2>5. Capacity'
    BY <2>1, QuietStep, CapacityCarried DEF Discipline, Parts, Capacity, StoreInv
  <2> QED BY <1>1, <2>2, <2>3, <2>4, <2>5 DEF Discipline, Parts
<1>3. CASE StoreNext /\ Disciplined
  <2>1. OneCommandPerPlan' /\ PromptOperations
    BY <1>3 DEF Disciplined
  <2>2. ASSUME NEW p \in Procs, Client(p) PROVE Parts'
    BY <2>1, <2>2, QuietCallSteps, QuietLoadCall, RecordStep DEF Client
  <2>3. ASSUME NEW p \in Procs, Inside(p) PROVE Parts'
    BY <2>1, <2>3, QuietLockSteps, QuietLoadSteps, QuietSweepSteps, RemovingSteps,
       SweepEvictStep, WriteStep DEF Inside
  <2>4. ASSUME NEW p \in Procs, RecoverLock(p) \/ Die(p) PROVE Parts'
    BY <2>1, <2>4, QuietLockSteps, QuietCallSteps
  <2>5. ASSUME Tick PROVE Parts'
    BY <2>1, <2>5, TickStep
  <2>6. Parts'
    BY <1>3, <2>2, <2>3, <2>4, <2>5 DEF StoreNext
  <2> QED BY <1>1, <2>1, <2>6 DEF Discipline
<1> QED BY <1>2, <1>3

LEMMA AlwaysDiscipline == DisciplinedStoreSpec => []Discipline
BY InitDiscipline, NextDiscipline, PTL DEF DisciplinedStoreSpec

\* Over any number of processes that dispatch different plans at once there
\* are never more than Limit records of evidence: the pruning, the count and
\* the write are one step for all others because of the lock
\* (plan-store.ts:200-247).
THEOREM CapacityIsKept == DisciplinedStoreSpec => []CapacityKept
<1>1. Discipline => CapacityKept
  BY DEF Discipline, Parts, Capacity
<1> QED BY AlwaysDiscipline, <1>1, PTL

(***************************************************************************)
(* Concurrent use without restores (ConcurrentStoreSpec): all that ever    *)
(* name a request for a plan, its file and the memory of every command     *)
(* that works on it, name the same one.  A plan is bound under the lock    *)
(* and only when its file is unbound; by then nobody can know a binding of *)
(* it, for an unbound file never follows a bound one.                      *)
(***************************************************************************)

Binds(r) == r # Absent /\ r.request # None

\* All memories agree, and so does the file while it is there.
MemoriesAgree ==
  \A p1, p2 \in Procs :
    plan[p1] = plan[p2] /\ Binds(rec[p1]) /\ Binds(rec[p2]) =>
      rec[p1].request = rec[p2].request
FilesAgree ==
  \A p \in Procs :
    Binds(rec[p]) /\ store[plan[p]] # Absent => store[plan[p]].request = rec[p].request

\* Nobody knows a binding of a plan that is being bound, and nobody has read
\* a plan that is being stored.
MarkedIsUnbound ==
  \A p \in Procs : Marking(p) =>
    /\ ~Binds(store[plan[p]])
    /\ \A p1 \in Procs : plan[p1] = plan[p] => ~Binds(rec[p1])
StoredIsUnread ==
  \A p \in Procs : Storing(p) =>
    /\ store[plan[p]] = Absent
    /\ \A p1 \in Procs : plan[p1] = plan[p] => rec[p1] = Absent
    /\ \A p1 \in Procs : plan[p1] = plan[p] /\ Storing(p1) => p1 = p

\* What a command dispatches is what its record is bound to.
RequestIsBound ==
  \A p \in Procs :
    /\ Returned(p, {"mark", "readAll"}) /\ req[p] # None =>
         Binds(rec[p]) /\ rec[p].request = req[p]
    /\ Returned(p, {"mark"}) => req[p] # None

DeadAreIdle == \A p \in dead : at[p] = "idle"
NoneRestores == \A p \in Procs : op[p] # "restore"
RemovesOwn == \A p \in Procs : at[p] = "remove" => op[p] \in {"discard", "abandon", "mark"}

Agreement == MemoriesAgree /\ FilesAgree /\ MarkedIsUnbound /\ StoredIsUnread /\ RequestIsBound
BindInv ==
  /\ StoreInv /\ DecodeInv /\ OneHolder /\ KnownPlans /\ DeadAreIdle /\ NoneRestores
  /\ RemovesOwn /\ Agreement

LEMMA InitBindInv == Init => BindInv
<1> SUFFICES ASSUME Init PROVE BindInv
  OBVIOUS
<1>1. StoreInv
  BY InitStoreInv
<1>2. DecodeInv
  BY FreshDecodes, OldRecordsDecode DEF Init, DecodeInv
<1>3. OneHolder /\ KnownPlans /\ DeadAreIdle /\ NoneRestores /\ RemovesOwn
  BY SentinelAssumption
    DEF Init, OneHolder, KnownPlans, DeadAreIdle, NoneRestores, RemovesOwn, Stored
<1>4. Agreement
  BY DEF Init, Agreement, MemoriesAgree, FilesAgree, MarkedIsUnbound, StoredIsUnread,
     RequestIsBound, Binds, Marking, Storing, Returned
<1> QED BY <1>1, <1>2, <1>3, <1>4 DEF BindInv

\* The lock, the names and the dead.
LEMMA BindFrame ==
  ASSUME BindInv, StoreNext, NoRestore
  PROVE  OneHolder' /\ KnownPlans' /\ DeadAreIdle' /\ NoneRestores' /\ RemovesOwn'
<1> USE DEF BindInv, StoreInv, TypeOK, Working, AtPlan, OneHolder, KnownPlans, DeadAreIdle,
        NoneRestores, RemovesOwn, Stored, At, Alive, Goto, Return, Ready, Begin, Sweeps,
        storeVars, cmdVars, sweepVars
<1>1. NoneRestores'
  BY DEF NoRestore
<1>2. CASE Tick
  BY <1>2 DEF Tick
<1>3. ASSUME NEW p \in Procs, RecoverLock(p)
      PROVE  OneHolder' /\ KnownPlans' /\ DeadAreIdle' /\ RemovesOwn'
  BY <1>3 DEF RecoverLock
<1>4. ASSUME NEW p \in Procs, Die(p)
      PROVE  OneHolder' /\ KnownPlans' /\ DeadAreIdle' /\ RemovesOwn'
  BY <1>4 DEF Die, Forget
<1>5. ASSUME NEW p \in Procs, Client(p)
      PROVE  OneHolder' /\ KnownPlans' /\ DeadAreIdle' /\ RemovesOwn'
  <2>1. CASE CallStore(p)
    BY <2>1 DEF CallStore
  <2>2. CASE CallList(p) \/ EndCommand(p)
    BY <2>2 DEF CallList, EndCommand, Forget
  <2>3. CASE CallMark(p)
    BY <2>3 DEF CallMark
  <2>4. CASE \E q \in used, name \in {"read", "readAll", "discard", "abandon"} :
               CallLoad(p, q, name)
    BY <2>4 DEF CallLoad
  <2>5. ASSUME NEW result, RecordOutcome(p, result)
        PROVE  OneHolder' /\ KnownPlans' /\ DeadAreIdle' /\ RemovesOwn'
    <3>1. plan[p] \in used
      BY <2>5, SentinelAssumption, RecordsExact DEF Recording
    <3>2. Stored' \subseteq Stored \cup {plan[p]} /\ used' = used
      BY <2>5, RecordsExact DEF Recording, Put
    <3> QED BY <2>5, <3>1, <3>2, RecordsExact DEF Recording
  <2>6. ~CallRestore(p)
    BY DEF CallRestore, NoRestore
  <2> QED BY <1>5, <2>1, <2>2, <2>3, <2>4, <2>5, <2>6 DEF Client
<1>6. ASSUME NEW p \in Procs, Inside(p)
      PROVE  OneHolder' /\ KnownPlans' /\ DeadAreIdle' /\ RemovesOwn'
  <2>1. CASE Lock(p) \/ LockTimeout(p) \/ Unlock(p)
    <3>1. CASE Lock(p)
      BY <3>1 DEF Lock
    <3>2. CASE LockTimeout(p)
      <4>1. p \in lock => lock = {p}
        OBVIOUS
      <4> QED BY <3>2, <4>1 DEF LockTimeout
    <3>3. CASE Unlock(p)
      <4>1. lock' = lock \ {p} /\ at' = [at EXCEPT ![p] = "idle"]
        BY <3>3 DEF Unlock
      <4>2. \A p1 \in Procs :
              p1 # p /\ op[p1] \in {"mark", "restore"} /\ at[p1] \notin {"idle", "lock"} =>
                lock = {p1} /\ lock' = {p1}
        BY <4>1
      <4> QED BY <3>3, <4>1, <4>2 DEF Unlock
    <3> QED BY <2>1, <3>1, <3>2, <3>3
  <2>2. CASE LoadFails(p) \/ LoadRead(p) \/ LoadRemove(p)
    BY <2>2 DEF LoadFails, LoadRead, LoadRemove
  <2>3. CASE LoadMark(p)
    BY <2>3 DEF LoadMark
  <2>4. CASE Evict(p) \/ Remove(p)
    BY <2>4 DEF Evict, Remove, Put
  <2>5. CASE SweepRead(p) \/ SweepDone(p)
    BY <2>5 DEF SweepRead, SweepDone
  <2>6. CASE SweepEvict(p)
    BY <2>6 DEF SweepEvict, Put
  <2>7. CASE Write(p)
    <3>1. plan[p] \in used
      BY <2>7, SentinelAssumption DEF Write
    <3>2. Stored' \subseteq Stored \cup {plan[p]} /\ used' = used
      BY <2>7 DEF Write, Put
    <3> QED BY <2>7, <3>1, <3>2 DEF Write
  <2>8. ~LoadRestore(p)
    BY DEF LoadRestore
  <2> QED BY <1>6, <2>1, <2>2, <2>3, <2>4, <2>5, <2>6, <2>7, <2>8 DEF Inside
<1> QED BY <1>1, <1>2, <1>3, <1>4, <1>5, <1>6 DEF StoreNext

\* Steps that change neither files nor memories nor what was asked and answered.
LEMMA AgreementCarried ==
  ASSUME Agreement, UNCHANGED <<store, plan, rec, req>>,
         \A p \in Procs : /\ Marking(p)' => Marking(p)
                          /\ Storing(p)' => Storing(p)
                          /\ Returned(p, {"mark"})' => Returned(p, {"mark"})
                          /\ Returned(p, {"mark", "readAll"})' => Returned(p, {"mark", "readAll"})
  PROVE  Agreement'
<1> HIDE DEF Marking, Storing, Returned
<1>1. MemoriesAgree' /\ FilesAgree'
  BY DEF Agreement, MemoriesAgree, FilesAgree, Binds
<1>2. MarkedIsUnbound'
  BY DEF Agreement, MarkedIsUnbound, Binds
<1>3. StoredIsUnread'
  BY DEF Agreement, StoredIsUnread
<1>4. RequestIsBound'
  BY DEF Agreement, RequestIsBound, Binds
<1> QED BY <1>1, <1>2, <1>3, <1>4 DEF Agreement

LEMMA BindQuiet ==
  ASSUME BindInv, NEW p \in Procs,
         \/ Lock(p) \/ LockTimeout(p) \/ Unlock(p) \/ RecoverLock(p) \/ LoadFails(p)
         \/ LoadRemove(p) \/ SweepRead(p) \/ SweepDone(p) \/ CallList(p)
  PROVE  Agreement'
<1> USE DEF BindInv, StoreInv, TypeOK, Working, AtPlan, Marking, Storing, Returned,
        At, Alive, Goto, Return, Ready, Begin, Sweeps, storeVars, cmdVars, sweepVars
<1>1. CASE Lock(p) \/ LockTimeout(p) \/ Unlock(p) \/ RecoverLock(p)
  BY <1>1, AgreementCarried DEF Lock, LockTimeout, Unlock, RecoverLock
<1>2. CASE LoadFails(p) \/ LoadRemove(p)
  BY <1>2, AgreementCarried DEF LoadFails, LoadRemove
<1>3. CASE SweepRead(p) \/ SweepDone(p)
  BY <1>3, AgreementCarried DEF SweepRead, SweepDone
<1>4. CASE CallList(p)
  BY <1>4, AgreementCarried DEF CallList
<1> QED BY <1>1, <1>2, <1>3, <1>4

LEMMA BindRemoves ==
  ASSUME BindInv, NEW p \in Procs, Evict(p) \/ Remove(p) \/ SweepEvict(p)
  PROVE  Agreement'
<1> USE DEF BindInv, StoreInv, TypeOK, Working, AtPlan
<1>1. /\ UNCHANGED <<plan, rec, req, op>>
      /\ \A q \in Plans : store'[q] = store[q] \/ store'[q] = Absent
  BY DEF Evict, Remove, SweepEvict, Put, cmdVars, sweepVars
<1>2. \A p1 \in Procs : /\ Marking(p1)' => Marking(p1)
                        /\ Storing(p1)' => Storing(p1)
                        /\ Returned(p1, {"mark"})' => Returned(p1, {"mark"})
                        /\ Returned(p1, {"mark", "readAll"})' => Returned(p1, {"mark", "readAll"})
  <2>1. CASE Evict(p)
    BY <2>1 DEF Evict, At, Alive, Goto, Return, Marking, Storing, Returned
  <2>2. CASE Remove(p)
    BY <2>2 DEF Remove, At, Alive, Goto, Return, Marking, Storing, Returned, RemovesOwn
  <2>3. CASE SweepEvict(p)
    BY <2>3 DEF SweepEvict, At, Alive, Goto, Return, Marking, Storing, Returned
  <2> QED BY <2>1, <2>2, <2>3
<1>2a. \A p1 \in Procs : Binds(rec[p1]) \/ Marking(p1) \/ Storing(p1) => plan[p1] \in Plans
  BY DEF Binds, Marking, Storing
<1> HIDE DEF BindInv, StoreInv, TypeOK, Working, AtPlan
<1>3. MemoriesAgree' /\ FilesAgree'
  BY <1>1, <1>2a DEF BindInv, Agreement, MemoriesAgree, FilesAgree, Binds
<1>4. MarkedIsUnbound'
  BY <1>1, <1>2, <1>2a DEF BindInv, Agreement, MarkedIsUnbound, Binds
<1>5. StoredIsUnread'
  BY <1>1, <1>2, <1>2a DEF BindInv, Agreement, StoredIsUnread
<1>6. RequestIsBound'
  BY <1>1, <1>2, <1>2a DEF BindInv, Agreement, RequestIsBound, Binds
<1> QED BY <1>3, <1>4, <1>5, <1>6 DEF Agreement

\* A command begins, or forgets.
LEMMA BindCalls ==
  ASSUME BindInv, NEW p \in Procs,
         \/ CallStore(p) \/ CallMark(p) \/ EndCommand(p) \/ Die(p)
         \/ \E q \in used, name \in {"read", "readAll", "discard", "abandon"} :
              CallLoad(p, q, name)
  PROVE  Agreement'
<1> USE DEF BindInv, StoreInv, TypeOK, Working, AtPlan, KnownPlans, Stored, Agreement,
        MemoriesAgree, FilesAgree, MarkedIsUnbound, StoredIsUnread, RequestIsBound, Binds,
        Marking, Storing, Returned,
        Begin, Ready, At, Alive, Goto, storeVars, cmdVars, sweepVars
<1>1. CASE CallStore(p)
  <2>1. PICK q \in Plans \ used : plan' = [plan EXCEPT ![p] = q]
    BY <1>1 DEF CallStore
  <2>2. /\ rec[p] = Absent /\ store[q] = Absent /\ UNCHANGED <<store, rec, req>>
        /\ \A p1 \in Procs : plan[p1] # q
        /\ op' = [op EXCEPT ![p] = "store"] /\ ret' = [ret EXCEPT ![p] = "none"]
        /\ at' = [at EXCEPT ![p] = "prune"]
    BY <1>1, <2>1, SentinelAssumption DEF CallStore
  <2> HIDE DEF Begin, Ready, At, Alive, Goto, storeVars, cmdVars, sweepVars, KnownPlans, Stored
  <2>3. MemoriesAgree' /\ FilesAgree'
    BY <2>1, <2>2
  <2>4. MarkedIsUnbound'
    BY <2>1, <2>2
  <2>5. StoredIsUnread'
    BY <2>1, <2>2
  <2>6. RequestIsBound'
    BY <2>1, <2>2
  <2> QED BY <2>3, <2>4, <2>5, <2>6
<1>2. CASE CallMark(p)
  BY <1>2 DEF CallMark
<1>3. CASE EndCommand(p)
  BY <1>3 DEF EndCommand, Forget
<1>4. CASE Die(p)
  BY <1>4 DEF Die, Forget
<1>5. ASSUME NEW q \in used, NEW name \in {"read", "readAll", "discard", "abandon"},
             CallLoad(p, q, name)
      PROVE  Agreement'
  <2>1. /\ plan' = [plan EXCEPT ![p] = q] /\ rec[p] = Absent /\ UNCHANGED <<store, rec, req>>
        /\ op' = [op EXCEPT ![p] = name] /\ ret' = [ret EXCEPT ![p] = "none"]
        /\ at' = [at EXCEPT ![p] = "load"] /\ q \in Plans
    BY <1>5, SentinelAssumption DEF CallLoad
  <2> HIDE DEF Begin, Ready, At, Alive, Goto, storeVars, cmdVars, sweepVars, KnownPlans, Stored
  <2>3. MemoriesAgree' /\ FilesAgree'
    BY <2>1
  <2>4. MarkedIsUnbound'
    BY <2>1
  <2>5. StoredIsUnread'
    BY <2>1
  <2>6. RequestIsBound'
    BY <2>1
  <2> QED BY <2>3, <2>4, <2>5, <2>6
<1> QED BY <1>1, <1>2, <1>3, <1>4, <1>5

\* What is read is what all the others know.
LEMMA BindReads ==
  ASSUME BindInv, NEW p \in Procs, LoadRead(p) \/ LoadMark(p)
  PROVE  Agreement'
<1>1. /\ store[plan[p]] # Absent /\ plan[p] \in Plans /\ UNCHANGED <<store, plan, op>>
      /\ at[p] = "load" /\ op[p] \in {"read", "readAll", "mark"}
      /\ \A p1 \in Procs \ {p} : at'[p1] = at[p1] /\ ret'[p1] = ret[p1]
      /\ \/ /\ rec' = [rec EXCEPT ![p] = store[plan[p]]]
            /\ req' = [req EXCEPT ![p] = store[plan[p]].request]
            /\ at'[p] \in {"idle", "unlock"}
            /\ op[p] = "mark" => store[plan[p]].request # None
         \/ /\ op[p] = "mark" /\ store[plan[p]].request = None /\ req' = req /\ ret' = ret
            /\ \/ rec' = rec /\ at'[p] = "remove"
               \/ rec' = [rec EXCEPT ![p] = store[plan[p]]]
  <2> USE DEF BindInv, StoreInv, TypeOK, Working, AtPlan, At, Alive, Goto, Return, Hold, Mine,
          storeVars, cmdVars, sweepVars
  <2>1. Load(p) = "ok" => store[plan[p]] # Absent
    BY VerdictOk DEF Load
  <2>2. CASE LoadRead(p)
    BY <2>1, <2>2 DEF LoadRead
  <2>3. CASE LoadMark(p)
    BY <2>1, <2>3 DEF LoadMark, Bindable, Adopted
  <2> QED BY <2>2, <2>3
<1> USE DEF BindInv, StoreInv, TypeOK, Agreement, MemoriesAgree, FilesAgree,
        MarkedIsUnbound, StoredIsUnread, RequestIsBound, Binds, Marking, Storing, Returned
<1>3. MemoriesAgree'
  BY <1>1
<1>4. FilesAgree'
  BY <1>1
<1>5. MarkedIsUnbound'
  BY <1>1
<1>6. StoredIsUnread'
  BY <1>1
<1>7. RequestIsBound'
  BY <1>1
<1> QED BY <1>3, <1>4, <1>5, <1>6, <1>7

\* What is written: a new plan, the binding of a plan nobody has bound, or the
\* binding the process has known all along.
LEMMA MarkWrites ==
  ASSUME StoreInv, DecodeInv, NEW p \in Procs, Write(p), op[p] = "mark"
  PROVE  /\ Marking(p) /\ plan[p] \in Plans /\ Written(p) \in Record
         /\ Written(p).request = req[p] /\ req[p] # None
<1> USE DEF StoreInv, TypeOK, Working, AtPlan
<1>1. at[p] = "write" /\ rec[p] \in Record /\ plan[p] \in Plans /\ req[p] # None
  BY DEF Write, At, DecodeInv, InMark
<1>2. Written(p) \in Record
  BY <1>1, WrittenType
<1>3. Written(p) = [rec[p] EXCEPT !.request = req[p], !.start = now[p]]
  BY DEF Written
<1>4. Written(p).request = req[p]
  BY <1>1, <1>3 DEF Record
<1> QED BY <1>1, <1>2, <1>4 DEF Marking

LEMMA OneMarks ==
  ASSUME BindInv, NEW p \in Procs, NEW p1 \in Procs, Marking(p), Marking(p1)
  PROVE  p1 = p
<1>1. lock = {p} /\ lock = {p1}
  BY DEF BindInv, OneHolder, Marking
<1> QED BY <1>1

LEMMA BindWrites ==
  ASSUME BindInv, NEW p \in Procs, Write(p)
  PROVE  Agreement'
<1> DEFINE w == Written(p)
<1>1. /\ store' = [store EXCEPT ![plan[p]] = w] /\ rec' = [rec EXCEPT ![p] = w]
      /\ ret' = [ret EXCEPT ![p] = "ok"] /\ UNCHANGED <<plan, req, op>>
      /\ at[p] = "write" /\ at'[p] \in {"idle", "unlock"}
      /\ \A p1 \in Procs \ {p} : at'[p1] = at[p1]
  BY DEF Write, At, Return, Goto, Put, Hold, BindInv, StoreInv, TypeOK
<1>2. w \in Record /\ w # Absent /\ plan[p] \in Plans
  BY <1>1, WrittenType, AbsentAssumption DEF BindInv, StoreInv, Working, AtPlan
<1>3. \A p1 \in Procs : Marking(p1)' => Marking(p1) /\ p1 # p
  BY <1>1 DEF Marking
<1>4. \A p1 \in Procs : Storing(p1)' => Storing(p1) /\ p1 # p
  BY <1>1 DEF Storing
<1>5. CASE op[p] = "store"
  <2>1. w.request = None
    BY <1>5 DEF Written, Fresh
  <2>2. Storing(p)
    BY <1>1, <1>5 DEF Storing
  <2> HIDE DEF w
  <2> USE DEF BindInv, StoreInv, TypeOK, Agreement, MemoriesAgree, FilesAgree,
        MarkedIsUnbound, StoredIsUnread, RequestIsBound, Binds
  <2>3. MemoriesAgree' /\ FilesAgree'
    BY <1>1, <1>2, <2>1, <2>2 DEF Working
  <2>4. MarkedIsUnbound'
    BY <1>1, <1>2, <1>3, <2>1, <2>2 DEF Working, AtPlan, Marking
  <2>5. StoredIsUnread'
    BY <1>1, <1>2, <1>4, <2>1, <2>2 DEF Working, AtPlan, Storing
  <2>6. RequestIsBound'
    BY <1>1, <1>2, <1>5 DEF Returned
  <2> QED BY <2>3, <2>4, <2>5, <2>6
<1>6. CASE op[p] = "mark"
  <2>1. Marking(p) /\ w.request = req[p] /\ req[p] # None /\ rec[p] # Absent
    BY <1>1, <1>6, MarkWrites DEF BindInv, StoreInv, Working
  <2>2. \A p1 \in Procs : Marking(p1)' => FALSE
    BY <1>3, <2>1, OneMarks
  <2>3. \A p1 \in Procs : Storing(p1) => plan[p1] # plan[p]
    BY <2>1 DEF BindInv, Agreement, StoredIsUnread
  <2> HIDE DEF w
  <2> USE DEF BindInv, StoreInv, TypeOK, Agreement, MemoriesAgree, FilesAgree,
        MarkedIsUnbound, StoredIsUnread, RequestIsBound, Binds
  <2>4. MemoriesAgree'
    BY <1>1, <1>2, <2>1
  <2>5. FilesAgree'
    BY <1>1, <1>2, <2>1 DEF Working
  <2>6. MarkedIsUnbound'
    BY <2>2
  <2>7. StoredIsUnread'
    BY <1>1, <1>2, <1>4, <2>3 DEF Working, AtPlan, Storing
  <2>8. RequestIsBound'
    BY <1>1, <1>2, <1>6, <2>1 DEF Returned
  <2> QED BY <2>4, <2>5, <2>6, <2>7, <2>8
<1> QED BY <1>1, <1>5, <1>6 DEF BindInv, StoreInv, Working, NoneRestores

LEMMA OutcomeBinds ==
  ASSUME BindInv, NEW p \in Procs, NEW result, Returned(p, {"mark", "readAll"}),
         RecordOutcome(p, result)
  PROVE  /\ Binds(rec[p]) /\ rec[p].request = req[p] /\ plan[p] \in Plans
         /\ Outcome(p, result) \in Record /\ Outcome(p, result).request = req[p]
<1>1. Binds(rec[p]) /\ rec[p].request = req[p]
  BY DEF RecordOutcome, BindInv, Agreement, RequestIsBound
<1>2. rec[p] \in Record /\ plan[p] \in Plans
  BY <1>1 DEF Binds, BindInv, StoreInv, TypeOK, Working
<1>3. Outcome(p, result) \in Record
  BY <1>1, OutcomeType DEF Binds, BindInv, StoreInv
<1>4. Outcome(p, result).request = req[p]
  BY <1>2 DEF Outcome, Record
<1> QED BY <1>1, <1>2, <1>3, <1>4

LEMMA BindRecords ==
  ASSUME BindInv, NEW p \in Procs, NEW result, Returned(p, {"mark", "readAll"}),
         RecordOutcome(p, result)
  PROVE  Agreement'
<1> DEFINE w == Outcome(p, result)
<1>1. /\ op' = [op EXCEPT ![p] = "record"] /\ UNCHANGED <<plan, req>>
      /\ \A p1 \in Procs \ {p} : at'[p1] = at[p1] /\ ret'[p1] = ret[p1]
      /\ \/ rec' = rec /\ (store' = store \/ store' = [store EXCEPT ![plan[p]] = Absent])
         \/ rec' = [rec EXCEPT ![p] = w] /\ store' = [store EXCEPT ![plan[p]] = w]
  <2>1. TypeOK
    BY DEF BindInv, StoreInv
  <2>2. Recording(p, result)
    BY <2>1, RecordsExact
  <2> QED BY <2>1, <2>2 DEF Recording, Ready, Return, Goto, Put, Hold, TypeOK
<1>2. /\ Binds(rec[p]) /\ rec[p].request = req[p] /\ plan[p] \in Plans
      /\ w \in Record /\ w.request = req[p] /\ w # Absent /\ req[p] # None
  BY OutcomeBinds, AbsentAssumption DEF RecordOutcome
<1> HIDE DEF w
<1>3. \A p1 \in Procs : Marking(p1)' => Marking(p1) /\ plan[p1] # plan[p]
  BY <1>1, <1>2 DEF Marking, BindInv, StoreInv, TypeOK, Agreement, MarkedIsUnbound
<1>4. \A p1 \in Procs : Storing(p1)' => Storing(p1) /\ plan[p1] # plan[p]
  BY <1>1, <1>2 DEF Storing, Binds, BindInv, StoreInv, TypeOK, Agreement, StoredIsUnread
<1>5. \A p1 \in Procs : Binds(rec[p1]) \/ Marking(p1) \/ Storing(p1) => plan[p1] \in Plans
  BY DEF Binds, Marking, Storing, BindInv, StoreInv, Working, AtPlan
<1> USE DEF BindInv, StoreInv, TypeOK, Agreement, MemoriesAgree, FilesAgree,
        MarkedIsUnbound, StoredIsUnread, RequestIsBound, Binds
<1>6. MemoriesAgree'
  BY <1>1, <1>2
<1>7. FilesAgree'
  BY <1>1, <1>2, <1>5
<1>8. MarkedIsUnbound'
  BY <1>1, <1>2, <1>3, <1>5
<1>9. StoredIsUnread'
  BY <1>1, <1>2, <1>4, <1>5
<1>10. RequestIsBound'
  BY <1>1, <1>2 DEF Returned
<1> QED BY <1>6, <1>7, <1>8, <1>9, <1>10

LEMMA NextBindInv == BindInv /\ [StoreNext /\ NoRestore]_vars => BindInv'
<1> SUFFICES ASSUME BindInv, [StoreNext /\ NoRestore]_vars PROVE BindInv'
  OBVIOUS
<1>1. CASE UNCHANGED vars
  <2>1. StoreInv' /\ DecodeInv'
    BY <1>1, NextStoreInv, NextDecodeInv DEF BindInv
  <2>2. Agreement'
    BY <1>1, AgreementCarried
      DEF BindInv, vars, storeVars, cmdVars, sweepVars, Marking, Storing, Returned
  <2> QED BY <1>1, <2>1, <2>2 DEF BindInv, vars, storeVars, cmdVars, sweepVars, OneHolder,
          KnownPlans, Stored, DeadAreIdle, NoneRestores, RemovesOwn
<1>2. CASE StoreNext /\ NoRestore
  <2>1. StoreInv' /\ DecodeInv'
    BY <1>2, NextStoreInv, NextDecodeInv DEF BindInv
  <2>2. ASSUME NEW p \in Procs, Client(p) PROVE Agreement'
    <3>1. ~CallRestore(p)
      BY <1>2 DEF CallRestore, NoRestore, Begin, BindInv, StoreInv, TypeOK
    <3> QED BY <2>2, <3>1, BindQuiet, BindCalls, BindRecords DEF Client
  <2>3. ASSUME NEW p \in Procs, Inside(p) PROVE Agreement'
    <3>1. ~LoadRestore(p)
      BY DEF LoadRestore, BindInv, NoneRestores
    <3> QED BY <2>3, <3>1, BindQuiet, BindRemoves, BindReads, BindWrites DEF Inside
  <2>4. ASSUME NEW p \in Procs, RecoverLock(p) \/ Die(p) PROVE Agreement'
    BY <2>4, BindQuiet, BindCalls
  <2>5. ASSUME Tick PROVE Agreement'
    <3>1. UNCHANGED <<store, plan, rec, req, at, op, ret>>
      BY <2>5 DEF Tick, storeVars, cmdVars, sweepVars
    <3> QED BY <3>1, AgreementCarried DEF BindInv, Marking, Storing, Returned
  <2>6. Agreement'
    BY <1>2, <2>2, <2>3, <2>4, <2>5, Zenon DEF StoreNext
  <2> QED BY <1>2, <2>1, <2>6, BindFrame DEF BindInv
<1> QED BY <1>1, <1>2

\* Only a mark of an unbound plan, and a record of an outcome that keeps the
\* binding, write over a file.
LEMMA BindingKept ==
  ASSUME BindInv, StoreNext, NEW q \in Plans, store[q] # Absent, store'[q] # Absent,
         store[q].request # None
  PROVE  store'[q].request = store[q].request
<1> USE DEF BindInv, StoreInv, TypeOK
<1>1. CASE store'[q] = store[q]
  BY <1>1
<1>2. CASE store'[q] # store[q]
  <2>1. ASSUME NEW p \in Procs, Write(p) PROVE FALSE
    <3>1. at[p] = "write" /\ plan[p] = q
      BY <1>2, <2>1 DEF Write, Put, At
    <3>2. CASE op[p] = "store"
      BY <3>1, <3>2 DEF Agreement, StoredIsUnread, Storing
    <3>3. CASE op[p] = "mark"
      BY <3>1, <3>3 DEF Agreement, MarkedIsUnbound, Marking, Binds
    <3> QED BY <3>1, <3>2, <3>3 DEF Working, NoneRestores
  <2>2. ASSUME NEW p \in Procs, NEW result, Returned(p, {"mark", "readAll"}),
               RecordOutcome(p, result)
        PROVE  store'[q].request = store[q].request
    <3>1. plan[p] = q /\ store' = [store EXCEPT ![q] = Outcome(p, result)]
      BY <1>2, <2>2, RecordsExact DEF Recording, Put
    <3>2. Binds(rec[p]) /\ rec[p].request = req[p] /\ Outcome(p, result).request = req[p]
      BY <2>2, OutcomeBinds
    <3>3. store[q].request = rec[p].request
      BY <3>1, <3>2 DEF Agreement, FilesAgree
    <3> QED BY <3>1, <3>2, <3>3
  <2>3. ASSUME NEW p \in Procs, Evict(p) \/ Remove(p) \/ SweepEvict(p) PROVE FALSE
    BY <1>2, <2>3 DEF Evict, Remove, SweepEvict, Put
  <2>4. ASSUME NEW p \in Procs, Client(p) PROVE store'[q].request = store[q].request
    <3>1. CASE CallStore(p) \/ CallList(p) \/ EndCommand(p) \/ CallMark(p) \/ CallRestore(p)
      BY <1>2, <3>1 DEF CallStore, CallList, EndCommand, CallMark, CallRestore, storeVars
    <3>2. CASE \E r \in used, name \in {"read", "readAll", "discard", "abandon"} :
                 CallLoad(p, r, name)
      BY <1>2, <3>2 DEF CallLoad, storeVars
    <3> QED BY <2>2, <2>4, <3>1, <3>2 DEF Client
  <2>5. ASSUME NEW p \in Procs, Inside(p) PROVE FALSE
    <3>1. CASE Lock(p) \/ LockTimeout(p) \/ Unlock(p) \/ LoadFails(p) \/ LoadRead(p)
               \/ LoadRemove(p) \/ LoadMark(p) \/ LoadRestore(p) \/ SweepRead(p) \/ SweepDone(p)
      BY <1>2, <3>1 DEF Lock, LockTimeout, Unlock, LoadFails, LoadRead, LoadRemove, LoadMark,
         LoadRestore, SweepRead, SweepDone, storeVars
    <3> QED BY <2>1, <2>3, <2>5, <3>1 DEF Inside
  <2>6. ASSUME NEW p \in Procs, RecoverLock(p) \/ Die(p) PROVE FALSE
    BY <1>2, <2>6 DEF RecoverLock, Die, storeVars
  <2>7. ~Tick
    BY <1>2 DEF Tick, storeVars
  <2> QED BY <2>4, <2>5, <2>6, <2>7 DEF StoreNext
<1> QED BY <1>1, <1>2

LEMMA AgreedRequests == BindInv => AppliersAgree
BY DEF BindInv, Agreement, MemoriesAgree, RequestIsBound, AppliersAgree, Returned

\* However many processes apply, recover, discard and abandon one plan at the
\* same time, and whatever expires meanwhile, none replaces the request bound
\* first, and all whose mark has returned dispatch that one
\* (plan-store.ts:213-217).
THEOREM ConcurrentAppliesAgree == ConcurrentStoreSpec => OneBinding
<1>1. BindInv /\ BindInv' /\ [StoreNext /\ NoRestore]_vars =>
        [BindingIsStable /\ AppliersAgree']_vars
  <2> SUFFICES ASSUME BindInv, BindInv', StoreNext PROVE BindingIsStable /\ AppliersAgree'
    OBVIOUS
  <2>1. BindingIsStable
    BY BindingKept DEF BindingIsStable
  <2>2. AppliersAgree'
    BY AgreedRequests, PTL
  <2> QED BY <2>1, <2>2
<1> QED BY <1>1, InitBindInv, NextBindInv, PTL DEF ConcurrentStoreSpec, OneBinding

(***************************************************************************)
(* The same in disciplined use, in which bindings are also taken back: the *)
(* only one who works on a plan knows its file.                            *)
(***************************************************************************)

LEMMA NextRequestIsBound ==
  ASSUME Discipline, RequestIsBound, StoreNext
  PROVE  RequestIsBound'
<1> USE DEF Discipline, StoreInv, TypeOK, Working, AtPlan, RequestIsBound, Returned, Binds,
        At, Alive, Goto, Return,
        Ready, Begin, Hold, Mine, Sweeps, storeVars, cmdVars, sweepVars
<1>1. CASE Tick
  BY <1>1 DEF Tick
<1>2. ASSUME NEW p \in Procs, Client(p) PROVE RequestIsBound'
  <2>1. CASE CallStore(p) \/ CallList(p)
    BY <2>1 DEF CallStore, CallList
  <2>2. CASE CallMark(p) \/ CallRestore(p)
    BY <2>2 DEF CallMark, CallRestore
  <2>3. CASE EndCommand(p)
    BY <2>3 DEF EndCommand, Forget
  <2>4. CASE \E q \in used, name \in {"read", "readAll", "discard", "abandon"} :
               CallLoad(p, q, name)
    BY <2>4 DEF CallLoad
  <2>5. CASE \E result \in {"applied", "uncertain", "failed"} : RecordOutcome(p, result)
    BY <2>5, RecordsExact DEF Recording
  <2> QED BY <1>2, <2>1, <2>2, <2>3, <2>4, <2>5 DEF Client
<1>3. ASSUME NEW p \in Procs, Inside(p) PROVE RequestIsBound'
  <2>1. CASE Lock(p) \/ LockTimeout(p) \/ Unlock(p) \/ LoadFails(p) \/ LoadRemove(p)
    BY <2>1 DEF Lock, LockTimeout, Unlock, LoadFails, LoadRemove
  <2>2. CASE Evict(p) \/ Remove(p)
    BY <2>2 DEF Evict, Remove, Parts, Removals, RemovesNoEvidence
  <2>3. at[p] = "load" /\ Load(p) = "ok" => Mine(p) # Absent
    BY VerdictOk DEF Load
  <2>4. CASE LoadRead(p)
    BY <2>3, <2>4 DEF LoadRead
  <2>5. CASE LoadMark(p)
    <3>1. \/ rec' = [rec EXCEPT ![p] = Mine(p)] /\ req' = [req EXCEPT ![p] = Mine(p).request]
             /\ Mine(p) # Absent /\ Mine(p).request # None
          \/ /\ ret' = ret /\ ~(Returned(p, {"mark"}) /\ req[p] # None)
             /\ UNCHANGED req
      BY <2>3, <2>5 DEF LoadMark, Bindable, Adopted, Parts, Memory, RecordsItsOwn
    <3> QED BY <2>5, <3>1 DEF LoadMark
  <2>6. CASE LoadRestore(p)
    BY <2>6 DEF LoadRestore
  <2>7. CASE SweepRead(p) \/ SweepEvict(p) \/ SweepDone(p)
    BY <2>7 DEF SweepRead, SweepEvict, SweepDone
  <2>8. CASE Write(p)
    <3>1. at[p] = "write" /\ UNCHANGED <<op, req>> /\ ret' = [ret EXCEPT ![p] = "ok"]
          /\ rec' = [rec EXCEPT ![p] = Written(p)]
      BY <2>8 DEF Write
    <3>2. op[p] = "mark" => Written(p) # Absent /\ Written(p).request = req[p] /\ req[p] # None
      BY <2>8, MarkWrites, AbsentAssumption
    <3> QED BY <3>1, <3>2
  <2> QED BY <1>3, <2>1, <2>2, <2>4, <2>5, <2>6, <2>7, <2>8 DEF Inside
<1>4. ASSUME NEW p \in Procs, RecoverLock(p) \/ Die(p) PROVE RequestIsBound'
  BY <1>4 DEF RecoverLock, Die, Forget
<1> QED BY <1>1, <1>2, <1>3, <1>4, Zenon DEF StoreNext

LEMMA DisciplinedBindingKept ==
  ASSUME Discipline, RequestIsBound, StoreNext, NEW q \in Plans, store[q] # Absent,
         store'[q] # Absent, store[q].request # None
  PROVE  \/ store'[q].request = store[q].request
         \/ store'[q].request = None /\ store[q].outcome = None
<1> USE DEF Discipline, Parts, StoreInv, TypeOK
<1>1. CASE store'[q] = store[q]
  BY <1>1
<1>2. CASE store'[q] # store[q]
  <2>1. ASSUME NEW p \in Procs, Write(p)
        PROVE  store'[q].request = None /\ store[q].outcome = None
    <3>1. at[p] = "write" /\ plan[p] = q /\ store' = [store EXCEPT ![q] = Written(p)]
      BY <1>2, <2>1 DEF Write, Put, At
    <3>2. op[p] = "restore"
      BY <3>1 DEF Working, Memory, StoresNew, MarksItsOwn, Storing, Marking
    <3>3. store[q] = rec[p] /\ rec[p].outcome = None /\ rec[p] \in Record
      BY <3>1, <3>2 DEF Memory, RestoresItsOwn, DecodeInv
    <3>4. Written(p) = [rec[p] EXCEPT !.request = None, !.start = None]
      BY <3>2 DEF Written
    <3>5. Written(p).request = None
      BY <3>3, <3>4 DEF Record
    <3> QED BY <3>1, <3>3, <3>5
  <2>2. ASSUME NEW p \in Procs, NEW result, Returned(p, {"mark", "readAll"}),
               RecordOutcome(p, result)
        PROVE  store'[q].request = store[q].request
    <3>1. plan[p] = q /\ store' = [store EXCEPT ![q] = Outcome(p, result)]
      BY <1>2, <2>2, RecordsExact DEF Recording, Put
    <3>2. store[q] = rec[p] /\ rec[p].request = req[p] /\ rec[p] \in Record
      BY <2>2, <3>1, RecordsExact DEF Recording, Memory, RecordsItsOwn, RequestIsBound, Binds
    <3>3. Outcome(p, result).request = req[p]
      BY <3>2 DEF Outcome, Record
    <3> QED BY <3>1, <3>2, <3>3
  <2>3. ASSUME NEW p \in Procs, Evict(p) \/ Remove(p) \/ SweepEvict(p) PROVE FALSE
    BY <1>2, <2>3 DEF Evict, Remove, SweepEvict, Put
  <2>4. ASSUME NEW p \in Procs, Client(p) PROVE store'[q].request = store[q].request
    <3>1. CASE CallStore(p) \/ CallList(p) \/ EndCommand(p) \/ CallMark(p) \/ CallRestore(p)
      BY <1>2, <3>1 DEF CallStore, CallList, EndCommand, CallMark, CallRestore, storeVars
    <3>2. CASE \E r \in used, name \in {"read", "readAll", "discard", "abandon"} :
                 CallLoad(p, r, name)
      BY <1>2, <3>2 DEF CallLoad, storeVars
    <3> QED BY <2>2, <2>4, <3>1, <3>2 DEF Client
  <2>5. ASSUME NEW p \in Procs, Inside(p)
        PROVE  store'[q].request = None /\ store[q].outcome = None
    <3>1. CASE Lock(p) \/ LockTimeout(p) \/ Unlock(p) \/ LoadFails(p) \/ LoadRead(p)
               \/ LoadRemove(p) \/ LoadMark(p) \/ LoadRestore(p) \/ SweepRead(p) \/ SweepDone(p)
      BY <1>2, <3>1 DEF Lock, LockTimeout, Unlock, LoadFails, LoadRead, LoadRemove, LoadMark,
         LoadRestore, SweepRead, SweepDone, storeVars
    <3> QED BY <2>1, <2>3, <2>5, <3>1 DEF Inside
  <2>6. ASSUME NEW p \in Procs, RecoverLock(p) \/ Die(p) PROVE FALSE
    BY <1>2, <2>6 DEF RecoverLock, Die, storeVars
  <2>7. ~Tick
    BY <1>2 DEF Tick, storeVars
  <2> QED BY <2>4, <2>5, <2>6, <2>7 DEF StoreNext
<1> QED BY <1>1, <1>2

\* Where one command at a time works on a plan, a binding is never replaced by
\* another and taken back only while its request has no outcome
\* (plan-store.ts:213-217, 252-261).
THEOREM BindingsAreStable == DisciplinedStoreSpec => OneBinding
<1>1. Init => RequestIsBound
  BY DEF Init, RequestIsBound, Returned
<1>2. Discipline /\ RequestIsBound /\ [StoreNext /\ Disciplined]_vars => RequestIsBound'
  <2> SUFFICES ASSUME Discipline, RequestIsBound, [StoreNext /\ Disciplined]_vars
               PROVE  RequestIsBound'
    OBVIOUS
  <2>1. CASE StoreNext
    BY <2>1, NextRequestIsBound
  <2>2. CASE UNCHANGED vars
    BY <2>2 DEF RequestIsBound, Returned, Binds, vars, cmdVars
  <2> QED BY <2>1, <2>2
<1>3. DisciplinedStoreSpec => []RequestIsBound
  BY AlwaysDiscipline, <1>1, <1>2, PTL DEF DisciplinedStoreSpec
<1>4. Discipline => AppliersAgree
  <2> SUFFICES ASSUME Discipline, NEW p1 \in Procs, NEW p2 \in Procs, plan[p1] = plan[p2],
                      Returned(p1, {"mark"})
               PROVE  p1 = p2
    BY DEF AppliersAgree
  <2>1. plan[p1] \in Plans
    BY DEF Discipline, Parts, Memory, HasRequest, RecordsItsOwn, Evidence, Stored, Returned
  <2> QED BY <2>1, SentinelAssumption DEF Discipline, OneCommandPerPlan
<1>5. Discipline /\ RequestIsBound /\ Discipline' /\ [StoreNext /\ Disciplined]_vars
        => [BindingIsStable /\ AppliersAgree']_vars
  <2> SUFFICES ASSUME Discipline, RequestIsBound, Discipline', StoreNext
               PROVE  BindingIsStable /\ AppliersAgree'
    OBVIOUS
  <2>1. BindingIsStable
    BY DisciplinedBindingKept DEF BindingIsStable
  <2>2. AppliersAgree'
    BY <1>4, PTL
  <2> QED BY <2>1, <2>2
<1> QED BY AlwaysDiscipline, <1>3, <1>5, PTL DEF DisciplinedStoreSpec, OneBinding

=============================================================================
