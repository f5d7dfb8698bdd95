---------------------------- MODULE DispatchLock ----------------------------
(***************************************************************************)
(* The POSIX dispatch-capacity lock of src/src/plan-store.ts: a lock file  *)
(* created with O_EXCL, verified by inode, released by inode, and taken    *)
(* away from its owner by any contender that finds it more than 30 seconds *)
(* old and its owner dead.                                                 *)
(*                                                                         *)
(* Every system call that another process can observe is a step of its     *)
(* own.  A process is identified with its pid; a process that ends, by a   *)
(* crash or by returning from its command, is in `dead' for ever.  Inode   *)
(* numbers are reused as soon as no name and no open descriptor refers to  *)
(* the file, as file systems do.                                           *)
(***************************************************************************)
EXTENDS Naturals, FiniteSets

CONSTANTS
  Procs,      \* the processes (pids) that ever use this store
  Inodes,     \* inode numbers
  NoFile,     \* "no such file" / "no open descriptor"
  Unwritten,  \* content of a lock file whose owner record is not written yet
  MaxDeaths   \* bound: how many processes may end

ASSUME SentinelAssumption ==
  /\ NoFile \notin Inodes
  /\ Unwritten \notin Procs
ASSUME DeathsAssumption == MaxDeaths \in Nat

VARIABLES
  path,        \* the inode named .dispatch-capacity.lock
  quarantine,  \* the inode at each process's own .stale.<pid>.<uuid> name
  content,     \* the pid recorded in the file on each inode
  old,         \* the inodes whose mtime is more than 30 s in the past
  pc,          \* where each process is in acquire, use and release
  fd,          \* each process's open lock descriptor
  ino,         \* the inode number a call holds in stat.ino or lock.ino
  owner,       \* the owner pid a contender read from the lock file
  dead,        \* the processes that have ended
  robbed       \* history: the processes whose lock file was moved away
               \* by another process while they were alive and owned it

fileVars == <<path, quarantine, content, old>>
procVars == <<fd, ino, owner>>
vars == <<fileVars, pc, procVars, dead, robbed>>

Locations == {"idle", "open", "write", "verify", "critical",
              "closed", "unlink", "stat", "read", "check", "rename",
              "inspect", "remove", "drop", "wait"}

Alive == Procs \ dead

TypeOK ==
  /\ path \in Inodes \cup {NoFile}
  /\ quarantine \in [Procs -> Inodes \cup {NoFile}]
  /\ content \in [Inodes -> Procs \cup {Unwritten}]
  /\ old \in SUBSET Inodes
  /\ pc \in [Procs -> Locations]
  /\ fd \in [Procs -> Inodes \cup {NoFile}]
  /\ ino \in [Procs -> Inodes \cup {NoFile}]
  /\ owner \in [Procs -> Procs \cup {Unwritten}]
  /\ dead \in SUBSET Procs
  /\ robbed \in SUBSET Procs

Init ==
  /\ path = NoFile
  /\ quarantine = [p \in Procs |-> NoFile]
  /\ content = [i \in Inodes |-> Unwritten]
  /\ old = {}
  /\ pc = [p \in Procs |-> "idle"]
  /\ fd = [p \in Procs |-> NoFile]
  /\ ino = [p \in Procs |-> NoFile]
  /\ owner = [p \in Procs |-> Unwritten]
  /\ dead = {}
  /\ robbed = {}

(***************************************************************************)
(* Acquire                                                                 *)
(***************************************************************************)

At(p, here) == p \in Alive /\ pc[p] = here
Goto(p, there) == pc' = [pc EXCEPT ![p] = there]
Remember(p, i) == ino' = [ino EXCEPT ![p] = i]

\* The live processes that have created the lock file and not yet finished
\* releasing it, and the inode each of them created.
Owners ==
  {p \in Alive : pc[p] \in {"write", "verify", "critical", "closed", "unlink"}}
Owned(p) == IF pc[p] \in {"closed", "unlink"} THEN ino[p] ELSE fd[p]

\* An inode number the file system may hand out: nothing names the file and
\* nobody has it open.
Free(i) == path # i /\ \A p \in Procs : quarantine[p] # i /\ fd[p] # i

\* withDispatchCapacityLockV1 is entered and the deadline set.
Start(p) ==
  /\ At(p, "idle")
  /\ Goto(p, "open")
  /\ UNCHANGED <<fileVars, procVars, dead, robbed>>

\* Mutant of Create: 'w' for 'wx', so an existing lock file is opened too.
CreateWithoutExcl(p) ==
  /\ At(p, "open")
  /\ \E i \in Inodes :
       /\ IF path = NoFile THEN Free(i) ELSE i = path
       /\ path' = i
       /\ content' = [content EXCEPT ![i] = Unwritten]
       /\ old' = old \ {i}
       /\ fd' = [fd EXCEPT ![p] = i]
  /\ Goto(p, "write")
  /\ UNCHANGED <<quarantine, ino, owner, dead, robbed>>

\* openSync(path, 'wx') creates the lock file.
Create(p) ==
  /\ At(p, "open")
  /\ path = NoFile
  /\ \E i \in Inodes :
       /\ Free(i)
       /\ path' = i
       /\ content' = [content EXCEPT ![i] = Unwritten]
       /\ old' = old \ {i}
       /\ fd' = [fd EXCEPT ![p] = i]
  /\ Goto(p, "write")
  /\ UNCHANGED <<quarantine, ino, owner, dead, robbed>>

\* openSync fails with EEXIST.
Collide(p) ==
  /\ At(p, "open")
  /\ path # NoFile
  /\ Goto(p, "stat")
  /\ UNCHANGED <<fileVars, procVars, dead, robbed>>

\* The owner record is written and flushed; the write refreshes mtime.
Write(p) ==
  /\ At(p, "write")
  /\ content' = [content EXCEPT ![fd[p]] = p]
  /\ old' = old \ {fd[p]}
  /\ Goto(p, "verify")
  /\ UNCHANGED <<path, quarantine, procVars, dead, robbed>>

\* lstat(path) must still show the created inode.  Otherwise the descriptor
\* is closed and RECOVERY_STORE_UNAVAILABLE ends the command.
Verify(p) ==
  /\ At(p, "verify")
  /\ \/ /\ path = fd[p]
        /\ Remember(p, fd[p])
        /\ Goto(p, "critical")
        /\ UNCHANGED fd
     \/ /\ path # fd[p]
        /\ fd' = [fd EXCEPT ![p] = NoFile]
        /\ Goto(p, "idle")
        /\ UNCHANGED ino
  /\ UNCHANGED <<fileVars, owner, dead, robbed>>

(***************************************************************************)
(* Release                                                                 *)
(***************************************************************************)

\* The protected action has returned; the descriptor is closed first.
Close(p) ==
  /\ At(p, "critical")
  /\ fd' = [fd EXCEPT ![p] = NoFile]
  /\ Goto(p, "closed")
  /\ UNCHANGED <<fileVars, ino, owner, dead, robbed>>

\* lstat compares the inode number only, of a file no longer held open.
Compare(p) ==
  /\ At(p, "closed")
  /\ \/ path = ino[p] /\ Goto(p, "unlink") /\ UNCHANGED ino
     \/ path # ino[p] /\ Goto(p, "idle") /\ Remember(p, NoFile)
  /\ UNCHANGED <<fileVars, fd, owner, dead, robbed>>

\* unlinkSync removes whatever the name resolves to now.
Unlink(p) ==
  /\ At(p, "unlink")
  /\ path' = NoFile
  /\ Remember(p, NoFile)
  /\ Goto(p, "idle")
  /\ UNCHANGED <<quarantine, content, old, fd, owner, dead, robbed>>

(***************************************************************************)
(* Stale-lock recovery by a contender                                      *)
(***************************************************************************)

\* lstat: a vanished or young lock is left alone.
Stat(p) ==
  /\ At(p, "stat")
  /\ \/ path \in old /\ Goto(p, "read") /\ Remember(p, path)
     \/ path \notin old /\ Goto(p, "wait") /\ UNCHANGED ino
  /\ UNCHANGED <<fileVars, fd, owner, dead, robbed>>

\* readFileSync and JSON.parse: a vanished file or one without an owner
\* record makes the command fail.
Read(p) ==
  /\ At(p, "read")
  /\ \/ /\ path \in Inodes
        /\ content[path] # Unwritten
        /\ owner' = [owner EXCEPT ![p] = content[path]]
        /\ Goto(p, "check")
        /\ UNCHANGED ino
     \/ /\ path \in Inodes => content[path] = Unwritten
        /\ Remember(p, NoFile)
        /\ Goto(p, "idle")
        /\ UNCHANGED owner
  /\ UNCHANGED <<fileVars, fd, dead, robbed>>

\* Mutant of Check: age alone makes a lock stale.
CheckAgeOnly(p) ==
  /\ At(p, "check")
  /\ owner' = [owner EXCEPT ![p] = Unwritten]
  /\ Goto(p, "rename")
  /\ UNCHANGED <<fileVars, fd, ino, dead, robbed>>

\* process.kill(pid, 0): a dead owner's pid may have been given to another
\* process meanwhile, and then looks alive.
Check(p) ==
  /\ At(p, "check")
  /\ owner' = [owner EXCEPT ![p] = Unwritten]
  /\ \/ owner[p] \in dead /\ Goto(p, "rename") /\ UNCHANGED ino
     \/ Goto(p, "wait") /\ Remember(p, NoFile)
  /\ UNCHANGED <<fileVars, fd, dead, robbed>>

\* renameSync(path, quarantine): whatever file has the name now is moved.
Rename(p) ==
  /\ At(p, "rename")
  /\ \/ /\ path # NoFile
        /\ quarantine' = [quarantine EXCEPT ![p] = path]
        /\ path' = NoFile
        /\ robbed' = robbed \cup {q \in Owners : Owned(q) = path}
        /\ Goto(p, "inspect")
        /\ UNCHANGED ino
     \/ /\ path = NoFile
        /\ Remember(p, NoFile)
        /\ Goto(p, "wait")
        /\ UNCHANGED <<path, quarantine, robbed>>
  /\ UNCHANGED <<content, old, fd, owner, dead>>

\* lstat(quarantine) must show the inode seen first.
Inspect(p) ==
  /\ At(p, "inspect")
  /\ Goto(p, IF quarantine[p] = ino[p] THEN "remove" ELSE "drop")
  /\ Remember(p, NoFile)
  /\ UNCHANGED <<fileVars, fd, owner, dead, robbed>>

\* The quarantined file is removed on both paths: after a match the
\* acquisition goes on, after a mismatch the command fails.
Remove(p) ==
  /\ \/ At(p, "remove") /\ Goto(p, "wait")
     \/ At(p, "drop") /\ Goto(p, "idle")
  /\ quarantine' = [quarantine EXCEPT ![p] = NoFile]
  /\ UNCHANGED <<path, content, old, procVars, dead, robbed>>

\* After 10 ms the acquisition starts over.
Poll(p) ==
  /\ At(p, "wait")
  /\ Goto(p, "open")
  /\ UNCHANGED <<fileVars, procVars, dead, robbed>>

\* Mutant of GiveUp: the deadline starts over instead of ending the wait.
GiveUpNever(p) ==
  /\ At(p, "wait")
  /\ Goto(p, "open")
  /\ UNCHANGED <<fileVars, procVars, dead, robbed>>

\* The 5 s deadline has passed: RECOVERY_STORE_UNAVAILABLE ends the command.
GiveUp(p) ==
  /\ At(p, "wait")
  /\ Goto(p, "idle")
  /\ UNCHANGED <<fileVars, procVars, dead, robbed>>

(***************************************************************************)
(* The environment                                                         *)
(***************************************************************************)

\* Mutant of Age: a lock file that is not there grows old.
AgeAnyway ==
  /\ path \notin old
  /\ old' = old \cup {path}
  /\ UNCHANGED <<path, quarantine, content, pc, procVars, dead, robbed>>

\* 30 s pass since the lock file was last written, by a slow live owner or a
\* dead one.
Age ==
  /\ path \in Inodes \ old
  /\ old' = old \cup {path}
  /\ UNCHANGED <<path, quarantine, content, pc, procVars, dead, robbed>>

\* A process ends, between any two of its steps; its descriptor is closed.
Die(p) ==
  /\ p \in Alive
  /\ Cardinality(dead) < MaxDeaths
  /\ dead' = dead \cup {p}
  /\ fd' = [fd EXCEPT ![p] = NoFile]
  /\ UNCHANGED <<fileVars, pc, ino, owner, robbed>>

Acquire(p) == Start(p) \/ Create(p) \/ Collide(p) \/ Write(p) \/ Verify(p)
Release(p) == Close(p) \/ Compare(p) \/ Unlink(p)
RecoverStale(p) ==
  \/ Stat(p) \/ Read(p) \/ Check(p) \/ Rename(p) \/ Inspect(p) \/ Remove(p)

Next ==
  \/ \E p \in Procs : \/ Acquire(p) \/ Release(p) \/ RecoverStale(p)
                      \/ Poll(p) \/ GiveUp(p) \/ Die(p)
  \/ Age

Spec == Init /\ [][Next]_vars

\* After Start the code runs synchronously to its end.  A process that keeps
\* coming back to its wait finds the deadline passed at last.  Nothing
\* obliges a process to start an acquisition.
Step(p) ==
  \/ Create(p) \/ Collide(p) \/ Write(p) \/ Verify(p)
  \/ Release(p) \/ RecoverStale(p) \/ Poll(p)

FairSpec ==
  /\ Spec
  /\ \A p \in Procs : WF_vars(Step(p)) /\ SF_vars(GiveUp(p))

(***************************************************************************)
(* Properties                                                              *)
(***************************************************************************)

Critical == {p \in Alive : pc[p] = "critical"}

\* The lock protects plan-store.ts:215 and 252: as long as no live owner's
\* lock file has been moved away, at most one process is inside the protected
\* action and its lock file is in place, however long it stays there, whoever
\* dies, and whatever inode numbers are reused.
ExclusiveUnlessRobbed ==
  robbed = {} => \A p, q \in Critical : p = q /\ path = fd[p]

\* A live owner is robbed only if some process has ended before: without
\* that, isProcessAliveV1 (plan-store.ts:921) keeps every lock in place
\* for the whole of its use, also past the 30 s staleness limit.
RobbedOnlyAfterADeath == robbed # {} => dead # {}

\* Recovering a stale lock never takes away a lock in use: a live process
\* inside the protected action finds its own lock file under the name.
HolderKeepsLock == \A p \in Critical : path = fd[p]

\* An acquisition ends: the process leaves the lock code, with or without
\* having entered the protected action, or it dies (the 5 s deadline,
\* plan-store.ts:792 and 841).
AcquisitionEnds ==
  \A p \in Procs : pc[p] # "idle" ~> (pc[p] = "idle" \/ p \in dead)
=============================================================================
