------------------------ MODULE DispatchLock_proofs ------------------------
(***************************************************************************)
(* Proofs about the dispatch-capacity lock, for any set of processes, any  *)
(* supply of inode numbers and any number of deaths.                       *)
(***************************************************************************)
EXTENDS DispatchLock, TLAPS

(***************************************************************************)
(* Type correctness                                                        *)
(***************************************************************************)

LEMMA InitType == Init => TypeOK
BY DEF Init, TypeOK, Locations

LEMMA NextType == TypeOK /\ [Next]_vars => TypeOK'
<1> SUFFICES ASSUME TypeOK, [Next]_vars PROVE TypeOK'
  OBVIOUS
<1> USE DEF TypeOK, Locations, fileVars, procVars, At, Goto, Remember, Alive
<1>1. ASSUME NEW p \in Procs, Acquire(p) PROVE TypeOK'
  <2>1. CASE Start(p)
    BY <2>1 DEF Start
  <2>2. CASE Create(p)
    BY <2>2 DEF Create
  <2>3. CASE Collide(p)
    BY <2>3 DEF Collide
  <2>4. CASE Write(p)
    BY <2>4 DEF Write
  <2>5. CASE Verify(p)
    BY <2>5 DEF Verify
  <2> QED BY <1>1, <2>1, <2>2, <2>3, <2>4, <2>5 DEF Acquire
<1>2. ASSUME NEW p \in Procs, Release(p) PROVE TypeOK'
  BY <1>2 DEF Release, Close, Compare, Unlink
<1>3. ASSUME NEW p \in Procs, RecoverStale(p) PROVE TypeOK'
  <2>1. CASE Stat(p)
    BY <2>1 DEF Stat
  <2>2. CASE Read(p)
    BY <2>2 DEF Read
  <2>3. CASE Check(p)
    BY <2>3 DEF Check
  <2>4. CASE Rename(p)
    BY <2>4 DEF Rename, Owners
  <2>5. CASE Inspect(p)
    BY <2>5 DEF Inspect
  <2>6. CASE Remove(p)
    BY <2>6 DEF Remove
  <2> QED BY <1>3, <2>1, <2>2, <2>3, <2>4, <2>5, <2>6 DEF RecoverStale
<1>4. ASSUME NEW p \in Procs, Poll(p) \/ GiveUp(p) \/ Die(p) PROVE TypeOK'
  BY <1>4 DEF Poll, GiveUp, Die
<1>5. CASE Age
  BY <1>5 DEF Age
<1>6. CASE UNCHANGED vars
  BY <1>6 DEF vars
<1> QED BY <1>1, <1>2, <1>3, <1>4, <1>5, <1>6 DEF Next

\* Every variable keeps its type, whatever the processes do.
THEOREM LockTypeCorrect == Spec => []TypeOK
<1> QED BY InitType, NextType, PTL DEF Spec

(***************************************************************************)
(* A lock is taken away only after a death                                 *)
(***************************************************************************)

\* A contender past Check has seen a dead owner.
DeathSeen ==
  /\ \A p \in Procs :
       pc[p] \in {"rename", "inspect", "remove", "drop"} => dead # {}
  /\ RobbedOnlyAfterADeath

LEMMA DeadGrows == TypeOK /\ [Next]_vars => dead \subseteq dead'
BY DEF Next, vars, fileVars, procVars, Acquire, Release, RecoverStale, Start,
  Create, Collide, Write, Verify, Close, Compare, Unlink, Stat, Read, Check,
  Rename, Inspect, Remove, Poll, GiveUp, Die, Age

\* Only Check leads to the recovery proper, and only Rename robs.
LEMMA NextDeathSeen == TypeOK /\ DeathSeen /\ [Next]_vars => DeathSeen'
<1> SUFFICES ASSUME TypeOK, DeathSeen, [Next]_vars PROVE DeathSeen'
  OBVIOUS
<1> USE DEF TypeOK, DeathSeen, RobbedOnlyAfterADeath, fileVars, procVars, At,
            Goto, Remember, Alive
<1>1. CASE dead # {}
  BY <1>1, DeadGrows
<1>2. CASE dead = {}
  <2>1. /\ robbed = {}
        /\ \A p \in Procs : pc[p] \notin {"rename", "inspect", "remove", "drop"}
    BY <1>2
  <2>2. ASSUME NEW p \in Procs, Acquire(p) \/ Release(p) PROVE DeathSeen'
    BY <1>2, <2>1, <2>2 DEF Acquire, Release, Start, Create, Collide, Write,
      Verify, Close, Compare, Unlink
  <2>3. ASSUME NEW p \in Procs, RecoverStale(p) PROVE DeathSeen'
    BY <1>2, <2>1, <2>3 DEF RecoverStale, Stat, Read, Check, Rename, Inspect, Remove
  <2>4. ASSUME NEW p \in Procs, Poll(p) \/ GiveUp(p) \/ Die(p) PROVE DeathSeen'
    BY <1>2, <2>1, <2>4 DEF Poll, GiveUp, Die
  <2>5. CASE Age \/ UNCHANGED vars
    BY <1>2, <2>1, <2>5 DEF Age, vars
  <2> QED BY <2>2, <2>3, <2>4, <2>5 DEF Next
<1> QED BY <1>1, <1>2

\* A live owner's lock file is never moved away while every process lives.
THEOREM RobbedAfterDeath == Spec => []RobbedOnlyAfterADeath
<1>1. Init => DeathSeen
  BY DEF Init, DeathSeen, RobbedOnlyAfterADeath
<1>2. DeathSeen => RobbedOnlyAfterADeath
  BY DEF DeathSeen
<1> QED BY <1>1, <1>2, LockTypeCorrect, NextDeathSeen, PTL DEF Spec

(***************************************************************************)
(* Mutual exclusion                                                        *)
(***************************************************************************)

\* The inductive invariant: until somebody is robbed there is at most one
\* owner, the lock file's name refers to the inode it created, and it will
\* compare that very inode when it releases the lock.
OneOwner == \A p, q \in Owners : p = q
OwnerInPlace == \A p \in Owners : Owned(p) = path /\ path \in Inodes
ReleasesOwn == \A p \in Alive : pc[p] = "critical" => ino[p] = fd[p]
LockInv == ReleasesOwn /\ (robbed = {} => OneOwner /\ OwnerInPlace)

LEMMA NextReleasesOwn == TypeOK /\ ReleasesOwn /\ [Next]_vars => ReleasesOwn'
<1> SUFFICES ASSUME TypeOK, ReleasesOwn, [Next]_vars PROVE ReleasesOwn'
  OBVIOUS
<1> USE DEF TypeOK, ReleasesOwn, fileVars, procVars, At, Goto, Remember, Alive
<1>1. ASSUME NEW p \in Procs, Acquire(p) PROVE ReleasesOwn'
  BY <1>1 DEF Acquire, Start, Create, Collide, Write, Verify
<1>2. ASSUME NEW p \in Procs, Release(p) PROVE ReleasesOwn'
  BY <1>2 DEF Release, Close, Compare, Unlink
<1>3. ASSUME NEW p \in Procs, RecoverStale(p) PROVE ReleasesOwn'
  BY <1>3 DEF RecoverStale, Stat, Read, Check, Rename, Inspect, Remove
<1>4. ASSUME NEW p \in Procs, Poll(p) \/ GiveUp(p) \/ Die(p) PROVE ReleasesOwn'
  BY <1>4 DEF Poll, GiveUp, Die
<1>5. CASE Age \/ UNCHANGED vars
  BY <1>5 DEF Age, vars
<1> QED BY <1>1, <1>2, <1>3, <1>4, <1>5 DEF Next

LEMMA NextLockInv == TypeOK /\ LockInv /\ [Next]_vars => LockInv'
<1> SUFFICES ASSUME TypeOK, LockInv, [Next]_vars, robbed' = {}
             PROVE  (OneOwner /\ OwnerInPlace)'
  BY NextReleasesOwn DEF LockInv
<1> USE DEF TypeOK, OneOwner, OwnerInPlace, Owners, Owned, fileVars, procVars,
            At, Goto, Remember, Alive
<1>1. robbed = {}
  BY DEF Next, vars, Acquire, Release, RecoverStale, Start, Create, Collide,
    Write, Verify, Close, Compare, Unlink, Stat, Read, Check, Rename, Inspect,
    Remove, Poll, GiveUp, Die, Age
<1>2. OneOwner /\ OwnerInPlace /\ ReleasesOwn
  BY <1>1 DEF LockInv
<1>3. ASSUME NEW p \in Procs, Acquire(p) PROVE (OneOwner /\ OwnerInPlace)'
  <2>1. CASE Create(p)
    <3>1. Owners = {}
      BY <1>2, <2>1, SentinelAssumption DEF Create
    <3> QED BY <2>1, <3>1 DEF Create
  <2>2. CASE Start(p) \/ Collide(p)
    BY <1>2, <2>2 DEF Start, Collide
  <2>3. CASE Write(p)
    BY <1>2, <2>3 DEF Write
  <2>4. CASE Verify(p)
    BY <1>2, <2>4 DEF Verify
  <2> QED BY <1>3, <2>1, <2>2, <2>3, <2>4 DEF Acquire
<1>4. ASSUME NEW p \in Procs, Release(p) PROVE (OneOwner /\ OwnerInPlace)'
  <2>1. CASE Close(p)
    BY <1>2, <2>1 DEF Close, ReleasesOwn
  <2>2. CASE Compare(p)
    BY <1>2, <2>2 DEF Compare
  <2>3. CASE Unlink(p)
    BY <1>2, <2>3 DEF Unlink
  <2> QED BY <1>4, <2>1, <2>2, <2>3 DEF Release
<1>5. ASSUME NEW p \in Procs, RecoverStale(p) PROVE (OneOwner /\ OwnerInPlace)'
  <2>1. CASE Rename(p) /\ path # NoFile
    <3>1. \A q \in Owners : Owned(q) # path
      BY <2>1 DEF Rename
    <3>2. Owners = {}
      BY <1>2, <3>1
    <3> QED BY <2>1, <3>2 DEF Rename
  <2>2. CASE Rename(p) /\ path = NoFile
    BY <1>2, <2>2 DEF Rename
  <2>3. CASE Stat(p) \/ Read(p) \/ Check(p)
    BY <1>2, <2>3 DEF Stat, Read, Check
  <2>4. CASE Inspect(p) \/ Remove(p)
    BY <1>2, <2>4 DEF Inspect, Remove
  <2> QED BY <1>5, <2>1, <2>2, <2>3, <2>4 DEF RecoverStale
<1>6. ASSUME NEW p \in Procs, Poll(p) \/ GiveUp(p) \/ Die(p)
      PROVE  (OneOwner /\ OwnerInPlace)'
  BY <1>2, <1>6 DEF Poll, GiveUp, Die
<1>7. CASE Age \/ UNCHANGED vars
  BY <1>2, <1>7 DEF Age, vars
<1> QED BY <1>3, <1>4, <1>5, <1>6, <1>7 DEF Next

\* As long as no live owner has been robbed, at most one live process is
\* inside the protected action, and its lock file is in place.
THEOREM MutualExclusion == Spec => []ExclusiveUnlessRobbed
<1>1. Init => LockInv
  BY DEF Init, LockInv, ReleasesOwn, OneOwner, OwnerInPlace, Owners, Alive
<1>2. LockInv => ExclusiveUnlessRobbed
  BY DEF LockInv, OneOwner, OwnerInPlace, Owners, Owned, Alive, Critical,
    ExclusiveUnlessRobbed
<1> QED BY <1>1, <1>2, LockTypeCorrect, NextLockInv, PTL DEF Spec
=============================================================================
