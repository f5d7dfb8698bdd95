--------------------------- MODULE SecureStorage ----------------------------
(***************************************************************************)
(* The private directory of src/src/secure-storage.ts: files replaced as a *)
(* whole by rename (writeSecureJsonAtomicV1), and the inspection and the   *)
(* repair of its entries, by commands that no lock keeps apart and that    *)
(* may die at any step.                                                    *)
(*                                                                         *)
(* A file's name is the file, a temporary name the pair of its file and    *)
(* the process that writes it, or Nobody once that has died.               *)
(***************************************************************************)
EXTENDS Naturals, FiniteSets

CONSTANTS
  Commands,   \* processes, each runs one command
  RootFiles,  \* configuration, identity, update cache
  PlanFiles,  \* stored plans, in the directory plans
  Root,       \* the directory
  PlanDir,    \* its directory plans
  Systems,    \* a subset of {"posix-mode", "windows-dacl"}
  Nobody

ASSUME StorageAssumption ==
  /\ RootFiles \cap PlanFiles = {} /\ Root # PlanDir
  /\ {Root, PlanDir} \cap (RootFiles \cup PlanFiles) = {}
  /\ Nobody \notin Commands \cup RootFiles \cup PlanFiles
  /\ "torn" \notin Commands \cup {Nobody}

StoredFiles == RootFiles \cup PlanFiles
Temporaries == StoredFiles \X (Commands \cup {Nobody})
Names == StoredFiles \cup Temporaries
ASSUME NamesAssumption ==
  (StoredFiles \cup {Root, PlanDir}) \cap
    ((StoredFiles \cup {Nobody}) \X (Commands \cup {Nobody})) = {}

VARIABLES
  system,    \* how access is restricted
  entries,   \* the names that exist
  body,      \* by name, the writer of its content, "torn" before it is complete
  loose,     \* names and directories that others may read
  job,       \* each command's operation and file
  pc,        \* its next step
  todo,      \* names the inspection or the repair has still to look at
  listed,    \* history: names it has found when it began
  verdict,   \* what the operation reports
  authors,   \* history: writers whose content has been in a file
  alone,     \* history: commands whose work nothing has disturbed
  meddled    \* history: somebody has loosened a file

storageVars == <<system, entries, body, loose, job, pc, todo, listed, verdict,
                 authors, alone, meddled>>

Windows == system = "windows-dacl"
FileOf(n) == IF n \in StoredFiles THEN n ELSE n[1]
InRoot(n) == n = PlanDir \/ (n # Root /\ FileOf(n) \in RootFiles)

Jobs == [op : {"write"}, file : StoredFiles] \cup [op : {"inspect", "repair"}, file : {Nobody}]

StorageInit ==
  /\ system \in Systems
  /\ \E leftovers \in SUBSET (StoredFiles \X {Nobody}) : entries = StoredFiles \cup leftovers
  /\ body = [n \in Names |-> IF n \in StoredFiles THEN Nobody ELSE "torn"]
  /\ loose = (IF Windows THEN entries \cap Temporaries ELSE {}) /\ meddled = FALSE
  /\ job \in [Commands -> Jobs]
  /\ pc = [p \in Commands |-> "begin"]
  /\ todo = [p \in Commands |-> {}]
  /\ listed = [p \in Commands |-> {}]
  /\ verdict = [p \in Commands |-> "none"]
  /\ authors = [f \in StoredFiles |-> {}]
  /\ alone = Commands

At(p, s) == pc[p] = s
Then(p, s) == pc' = [pc EXCEPT ![p] = s]
Report(p, v) == verdict' = [verdict EXCEPT ![p] = v] /\ Then(p, "end")
\* What an operation has listed is gone with it.
Forget(p) == todo' = [todo EXCEPT ![p] = {}] /\ listed' = [listed EXCEPT ![p] = {}]
Unbegun == {p \in Commands : At(p, "begin")}
Disturb(p) == alone' = alone \cap (Unbegun \cup {p})

(***************************************************************************)
(* writeSecureJsonAtomicV1                                                 *)
(***************************************************************************)

Temporary(p) == <<job[p].file, p>>
Writing(p, s) == At(p, s) /\ job[p].op = "write" /\ Disturb(p)
WriteKeeps == UNCHANGED <<system, job, todo, listed, meddled>>

\* Mutant of WriteFails: what was written stays.
WriteFailsLeaving(p) ==
  /\ \E s \in {"begin", "open", "fill", "protect", "rename", "check"} : Writing(p, s)
  /\ Report(p, "failed")
  /\ UNCHANGED <<entries, body, loose, authors>> /\ WriteKeeps

\* The finally block of a write that throws.
WriteFails(p) ==
  /\ \E s \in {"begin", "open", "fill", "protect", "rename", "check"} : Writing(p, s)
  /\ entries' = entries \ {Temporary(p)}
  /\ Report(p, "failed")
  /\ UNCHANGED <<body, loose, authors>> /\ WriteKeeps

\* ensureSecureDirectoryV1: a loose directory is refused where modes protect
\* it, and repaired where an access list does.
Ensure(p) ==
  /\ Writing(p, "begin")
  /\ LET d == IF job[p].file \in RootFiles THEN Root ELSE PlanDir IN
       /\ d \in loose => Windows
       /\ loose' = loose \ {d}
  /\ Then(p, "open")
  /\ UNCHANGED <<entries, body, verdict, authors>> /\ WriteKeeps

\* Exclusive creation; on Windows it inherits the access list of others.
Open(p) ==
  /\ Writing(p, "open")
  /\ entries' = entries \cup {Temporary(p)}
  /\ body' = [body EXCEPT ![Temporary(p)] = "torn"]
  /\ loose' = IF Windows THEN loose \cup {Temporary(p)} ELSE loose
  /\ Then(p, "fill")
  /\ UNCHANGED <<verdict, authors>> /\ WriteKeeps

Fill(p) ==
  /\ Writing(p, "fill")
  /\ body' = [body EXCEPT ![Temporary(p)] = p]
  /\ Then(p, IF Windows THEN "protect" ELSE "rename")
  /\ UNCHANGED <<entries, loose, verdict, authors>> /\ WriteKeeps

Protect(p) ==
  /\ Writing(p, "protect")
  /\ Temporary(p) \in entries
  /\ loose' = loose \ {Temporary(p)}
  /\ Then(p, "rename")
  /\ UNCHANGED <<entries, body, verdict, authors>> /\ WriteKeeps

Rename(p) ==
  /\ Writing(p, "rename")
  /\ Temporary(p) \in entries
  /\ LET f == job[p].file IN
       /\ entries' = (entries \ {Temporary(p)}) \cup {f}
       /\ body' = [body EXCEPT ![f] = body[Temporary(p)]]
       /\ authors' = [authors EXCEPT ![f] = @ \cup {p}]
       /\ loose' = IF Temporary(p) \in loose
                     THEN (loose \ {Temporary(p)}) \cup {f} ELSE loose \ {f}
  /\ Then(p, "check")
  /\ UNCHANGED verdict /\ WriteKeeps

\* On POSIX the mode is set once more; the file must be there and tight.
Check(p) ==
  /\ Writing(p, "check")
  /\ job[p].file \in entries
  /\ job[p].file \in loose => ~Windows
  /\ loose' = loose \ {job[p].file}
  /\ Report(p, "written")
  /\ UNCHANGED <<entries, body, authors>> /\ WriteKeeps

(***************************************************************************)
(* inspectCliStorageSecurityV1                                             *)
(***************************************************************************)

\* isRecognizedRootFileV1, isRecognizedPlanFileV1: temporary names are known
\* in the directory itself, not in plans.
Recognized(n) == n \in StoredFiles \/ (n \in Temporaries /\ InRoot(n))

LookKeeps == UNCHANGED <<system, body, job, authors, meddled>>
RootNames == {n \in entries : InRoot(n)} \cup {PlanDir}
PlanNames == {n \in entries : ~InRoot(n)}
Looks(p, s, n) == At(p, s) /\ n \in todo[p] /\ Disturb(p)
Looked(p, n, more) ==
  /\ todo' = [todo EXCEPT ![p] = (@ \ {n}) \cup more]
  /\ listed' = [listed EXCEPT ![p] = @ \cup more]

InspectRoot(p) ==
  /\ At(p, "begin") /\ job[p].op = "inspect" /\ Disturb(p)
  /\ IF Root \in loose THEN Report(p, "insecure") /\ UNCHANGED <<todo, listed>>
     ELSE /\ todo' = [todo EXCEPT ![p] = RootNames]
          /\ listed' = [listed EXCEPT ![p] = RootNames]
          /\ Then(p, "inspect") /\ UNCHANGED verdict
  /\ UNCHANGED <<entries, loose>> /\ LookKeeps

Insecure(p) ==
  /\ Report(p, IF job[p].op = "repair" THEN "failed" ELSE "insecure")
  /\ Forget(p)

\* Mutant of Inspect: the directory plans is not looked into.
InspectFlat(p, n) ==
  /\ Looks(p, "inspect", n)
  /\ IF n \in loose \/ (n # PlanDir /\ ~(n \in entries /\ Recognized(n)))
       THEN Insecure(p)
     ELSE Looked(p, n, {}) /\ UNCHANGED <<pc, verdict>>
  /\ UNCHANGED <<entries, loose>> /\ LookKeeps

\* An entry that has gone since fails the inspection as a foreign one does.
Inspect(p, n) ==
  /\ Looks(p, "inspect", n)
  /\ IF n \in loose \/ (n # PlanDir /\ ~(n \in entries /\ Recognized(n)))
       THEN Insecure(p)
     ELSE /\ Looked(p, n, IF n = PlanDir THEN PlanNames ELSE {})
          /\ UNCHANGED <<pc, verdict>>
  /\ UNCHANGED <<entries, loose>> /\ LookKeeps

Inspected(p) ==
  /\ At(p, "inspect") /\ todo[p] = {} /\ Disturb(p)
  /\ IF job[p].op = "repair" THEN Report(p, "repaired") /\ UNCHANGED <<todo, listed>>
                             ELSE Report(p, "secure") /\ Forget(p)
  /\ UNCHANGED <<entries, loose>> /\ LookKeeps

(***************************************************************************)
(* repairCliStorageSecurityV1                                              *)
(***************************************************************************)

\* The directory is listed, and refused if it holds a name the repair does not
\* know, before anything is changed.
RepairRoot(p) ==
  /\ At(p, "begin") /\ job[p].op = "repair" /\ Disturb(p)
  /\ \/ /\ \A n \in RootNames \ {PlanDir} : Recognized(n)
        /\ loose' = loose \ {Root}
        /\ todo' = [todo EXCEPT ![p] = RootNames]
        /\ listed' = [listed EXCEPT ![p] = RootNames]
        /\ Then(p, "repair") /\ UNCHANGED verdict
     \/ /\ Windows \/ \E n \in RootNames \ {PlanDir} : ~Recognized(n)
        /\ Report(p, "failed")
        /\ UNCHANGED <<loose, todo, listed>>
  /\ UNCHANGED entries /\ LookKeeps

RepairPlanDir(p) ==
  /\ Looks(p, "repair", PlanDir)
  /\ loose' = loose \ {PlanDir}
  /\ Looked(p, PlanDir, PlanNames)
  /\ UNCHANGED <<entries, pc, verdict>> /\ LookKeeps

\* A temporary file of the directory is removed, whether its writer has died
\* or is about to rename it; one that is loose fails the repair.
RepairTemporary(p, n) ==
  /\ Looks(p, "repair", n) /\ n \in Temporaries /\ InRoot(n)
  /\ n \in entries /\ n \notin loose
  /\ entries' = entries \ {n}
  /\ Looked(p, n, {})
  /\ UNCHANGED <<loose, pc, verdict>> /\ LookKeeps

RepairFile(p, n) ==
  /\ Looks(p, "repair", n) /\ n \in StoredFiles
  /\ n \in entries
  /\ loose' = loose \ {n}
  /\ Looked(p, n, {})
  /\ UNCHANGED <<entries, pc, verdict>> /\ LookKeeps

\* What cannot be repaired ends the repair: an entry that has gone, a name in
\* plans that it does not know, a loose temporary file, an access list that
\* cannot be set.
RepairFails(p, n) ==
  /\ Looks(p, "repair", n)
  /\ \/ n # PlanDir /\ (n \notin entries \/ ~Recognized(n))
     \/ (n \in Temporaries /\ n \in loose) \/ Windows
  /\ Insecure(p)
  /\ UNCHANGED <<entries, loose>> /\ LookKeeps

Repaired(p) ==
  /\ At(p, "repair") /\ todo[p] = {} /\ Disturb(p)
  /\ IF Root \in loose THEN Insecure(p)
     ELSE /\ todo' = [todo EXCEPT ![p] = RootNames]
          /\ Then(p, "inspect") /\ UNCHANGED <<listed, verdict>>
  /\ UNCHANGED <<entries, loose>> /\ LookKeeps

(***************************************************************************)
(* Everything else                                                         *)
(***************************************************************************)

Crash(p) ==
  /\ pc[p] \notin {"begin", "end"}
  /\ Then(p, "end") /\ verdict' = [verdict EXCEPT ![p] = "died"] /\ Forget(p)
  /\ UNCHANGED <<system, entries, body, loose, job, authors, alone, meddled>>

\* A plan is removed (removeMutationPlanFile of plan-store.ts).
Discard(f) ==
  /\ f \in entries /\ f \in PlanFiles
  /\ entries' = entries \ {f} /\ loose' = loose \ {f}
  /\ alone' = alone \cap Unbegun
  /\ UNCHANGED <<system, body, job, pc, todo, listed, verdict, authors, meddled>>

\* Somebody changes the access of an entry, once.
Loosen(n) ==
  /\ ~meddled /\ n \in entries \cup {Root, PlanDir}
  /\ loose' = loose \cup {n} /\ meddled' = TRUE
  /\ alone' = alone \cap Unbegun
  /\ UNCHANGED <<system, entries, body, job, pc, todo, listed, verdict, authors>>

StorageNext ==
  \/ \E p \in Commands :
       \/ Ensure(p) \/ Open(p) \/ Fill(p) \/ Protect(p) \/ Rename(p) \/ Check(p)
       \/ WriteFails(p) \/ InspectRoot(p) \/ Inspected(p) \/ RepairRoot(p)
       \/ RepairPlanDir(p) \/ Repaired(p) \/ Crash(p)
       \/ \E n \in todo[p] :
            Inspect(p, n) \/ RepairTemporary(p, n) \/ RepairFile(p, n) \/ RepairFails(p, n)
  \/ \E f \in PlanFiles : Discard(f)
  \/ \E n \in Names \cup {Root, PlanDir} : Loosen(n)

StorageSpec == StorageInit /\ [][StorageNext]_storageVars

(***************************************************************************)
(* Properties                                                              *)
(***************************************************************************)

Verdicts == {"none", "written", "failed", "secure", "insecure", "repaired", "died"}

\* The variables keep their types; in particular only a command that dies leaves
\* a temporary file of its own.
StorageTypeOK ==
  /\ system \in Systems
  /\ entries \subseteq Names /\ loose \subseteq Names \cup {Root, PlanDir}
  /\ body \in [Names -> Commands \cup {Nobody, "torn"}]
  /\ job \in [Commands -> Jobs]
  /\ pc \in [Commands -> {"begin", "open", "fill", "protect", "rename", "check", "inspect",
                         "repair", "end"}]
  /\ todo \in [Commands -> SUBSET (Names \cup {PlanDir})]
  /\ listed \in [Commands -> SUBSET (Names \cup {PlanDir})]
  /\ verdict \in [Commands -> Verdicts]
  /\ \A p \in Commands : verdict[p] \notin {"none", "died"} => Temporary(p) \notin entries
  /\ authors \in [StoredFiles -> SUBSET Commands]
  /\ alone \subseteq Commands /\ meddled \in BOOLEAN

\* No crash, failed step or race of writers and repairs leaves a file that is
\* not the whole of what one command has written.
NeverTorn == \A f \in StoredFiles : f \in entries => body[f] # "torn"

\* A file is never published with the access of its directory: on Windows the
\* access list is set before the rename.
NeverExposed == ~meddled => loose \cap StoredFiles = {}

\* A write that reports success has been in place, whatever a repair has done
\* to its temporary file meanwhile.
WrittenWasThere ==
  \A p \in Commands : verdict[p] = "written" => p \in authors[job[p].file]

\* A repair that reports success has removed the temporary files of the
\* directory that it found.
RepairCleans ==
  \A p \in Commands : verdict[p] = "repaired" =>
    \A n \in listed[p] \cap entries : n \notin Temporaries

\* Storage is reported secure, by a command that nothing disturbed, only if
\* nobody else can read an entry of it and every entry is known.
SecureIsTrue ==
  \A p \in alone : verdict[p] \in {"secure", "repaired"} =>
    loose \cap (entries \cup {Root, PlanDir}) = {} /\ \A n \in entries : Recognized(n)

\* The files are whole, private and kept, and what is said of them is true.
StorageIsSound == NeverTorn /\ NeverExposed /\ WrittenWasThere /\ RepairCleans /\ SecureIsTrue

\* The unit test of the repair lets it remove a temporary file that a write
\* has left (test/unit/client-core.test.ts:280-288): what crashed writes leave
\* behind does not make a repair fail.
LeftoversAreRepaired ==
  \A p \in alone : ~meddled => ~(job[p].op = "repair" /\ verdict[p] = "failed")
=============================================================================
