--------------------------- MODULE ClientIdentity ---------------------------
(***************************************************************************)
(* The client identity of src/src/client-identity.ts: the first command on *)
(* a machine migrates the identity of the older client, or makes a new     *)
(* one, and every later command reads it back.  Stored plans are bound to  *)
(* it (client.ts:225-230): under another identity they cannot be applied.  *)
(*                                                                         *)
(* Commands are processes that share the identity file, its initialization *)
(* marker and the older client's file; nothing locks them.                 *)
(***************************************************************************)
EXTENDS Naturals, FiniteSets

CONSTANTS
  Procs,   \* processes that run a command
  Fresh,   \* the UUIDs the processes draw
  Legacy,  \* the identity the older client has left
  None

ASSUME LegacyAssumption == Legacy \notin Fresh
ASSUME NoneAssumption == None \notin Fresh \cup {Legacy}

VARIABLES
  state,   \* the identity in client-v1.json, or None without the file
  marker,  \* client-v1.json.initialized exists
  legacy,  \* the identity in the older client's file, or None
  at,      \* the next system call of each process
  id,      \* clientInstanceId or legacy, once a process has one to publish
  drawn,   \* the UUIDs drawn so far
  handed,  \* history: the identities getOrCreateOperonCliClientIdV1 returned
  lost,    \* history: the identity file was removed from outside
  careful  \* history: no first commands have overlapped, and the file was
           \* never removed before its marker was written

vars == <<state, marker, legacy, at, id, drawn, handed, lost, careful>>

Ids == Fresh \cup {Legacy}

Init ==
  /\ state = None
  /\ marker = FALSE
  /\ legacy \in {Legacy, None}
  /\ at = [p \in Procs |-> "idle"]
  /\ id = [p \in Procs |-> None]
  /\ drawn = {}
  /\ handed = {}
  /\ lost = FALSE
  /\ careful = TRUE

Goto(p, s) == at' = [at EXCEPT ![p] = s]
Step(p, s, t) == at[p] = s /\ Goto(p, t)

HandOut(p, i) ==
  /\ handed' = handed \cup {i}
  /\ Goto(p, "idle")
  /\ id' = [id EXCEPT ![p] = None]

ReadState(p) ==
  /\ at[p] = "idle"
  /\ IF state # None THEN HandOut(p, state)
     ELSE Goto(p, "marker") /\ UNCHANGED <<id, handed>>
  /\ UNCHANGED <<state, marker, legacy, drawn, lost>>

\* Mutant of CheckMarker: an identity that has gone missing is made anew.
CheckMarkerNever(p) ==
  /\ Step(p, "marker", "legacy")
  /\ UNCHANGED <<state, marker, legacy, id, drawn, handed, lost>>

\* With the marker the command fails: CLIENT_IDENTITY_MISSING.
CheckMarker(p) ==
  /\ Step(p, "marker", IF marker THEN "idle" ELSE "legacy")
  /\ UNCHANGED <<state, marker, legacy, id, drawn, handed, lost>>

\* Mutants of ReadLegacy: the marker is written before the identity; the older
\* client's file is moved away when it is read.
ReadLegacyMarking(p) ==
  /\ Step(p, "legacy", "publish")
  /\ marker' = TRUE
  /\ \E i \in Fresh \ drawn : id' = [id EXCEPT ![p] = i] /\ drawn' = drawn \cup {i}
  /\ UNCHANGED <<state, legacy, handed, lost>>
ReadLegacyMoving(p) ==
  /\ Step(p, "legacy", "publish")
  /\ legacy # None
  /\ id' = [id EXCEPT ![p] = legacy]
  /\ legacy' = None
  /\ UNCHANGED <<state, marker, drawn, handed, lost>>

\* A legacy identity is migrated; without one a UUID is drawn.
ReadLegacy(p) ==
  /\ Step(p, "legacy", "publish")
  /\ \/ /\ legacy # None
        /\ id' = [id EXCEPT ![p] = legacy]
        /\ UNCHANGED drawn
     \/ /\ legacy = None
        /\ \E i \in Fresh \ drawn : id' = [id EXCEPT ![p] = i] /\ drawn' = drawn \cup {i}
  /\ UNCHANGED <<state, marker, legacy, handed, lost>>

\* writeClientIdentity: a private temporary file is renamed over the state.
Publish(p) ==
  /\ Step(p, "publish", "mark")
  /\ state' = id[p]
  /\ UNCHANGED <<marker, legacy, id, drawn, handed, lost>>

\* Once the marker is there: a migrated identity is returned after the old
\* file is removed, a new one is read back.
Marked(p) == IF id[p] = Legacy THEN "clean" ELSE "back"

LookForMarker(p) ==
  /\ Step(p, "mark", IF marker THEN Marked(p) ELSE "create")
  /\ UNCHANGED <<state, marker, legacy, id, drawn, handed, lost>>

\* Exclusive creation: EEXIST fails the command.
CreateMarker(p) ==
  /\ Step(p, "create", IF marker THEN "idle" ELSE Marked(p))
  /\ marker' = TRUE
  /\ id' = IF marker THEN [id EXCEPT ![p] = None] ELSE id
  /\ UNCHANGED <<state, legacy, drawn, handed, lost>>

\* Best effort: the file may stay.
RemoveLegacy(p) ==
  /\ at[p] = "clean"
  /\ legacy' \in {legacy, None}
  /\ HandOut(p, id[p])
  /\ UNCHANGED <<state, marker, drawn, lost>>

ReadBack(p) ==
  /\ at[p] = "back"
  /\ HandOut(p, IF state # None THEN state ELSE id[p])
  /\ UNCHANGED <<state, marker, legacy, drawn, lost>>

\* A process dies, or a step throws (a full disk, a file that fails the
\* owner-only validation): what it has done so far stays.
Stop(p) ==
  /\ at[p] # "idle"
  /\ Goto(p, "idle")
  /\ id' = [id EXCEPT ![p] = None]
  /\ UNCHANGED <<state, marker, legacy, drawn, handed, lost>>

\* Somebody removes the identity file.
Lose ==
  /\ state # None
  /\ state' = None
  /\ lost' = TRUE
  /\ UNCHANGED <<marker, legacy, at, id, drawn, handed>>

Work(p) ==
  \/ ReadState(p) \/ CheckMarker(p) \/ ReadLegacy(p) \/ Publish(p)
  \/ LookForMarker(p) \/ CreateMarker(p) \/ RemoveLegacy(p) \/ ReadBack(p)

OneAtATime == \A p, q \in Procs : at[p] # "idle" /\ at[q] # "idle" => p = q
InitializedLoss == lost' # lost => marker

Next ==
  /\ Lose \/ \E p \in Procs : Work(p) \/ Stop(p)
  /\ careful' = (careful /\ OneAtATime' /\ InitializedLoss)

Spec == Init /\ [][Next]_vars

(***************************************************************************)
(* Properties                                                              *)
(***************************************************************************)

TypeOK ==
  /\ state \in Ids \cup {None}
  /\ marker \in BOOLEAN
  /\ legacy \in {Legacy, None}
  /\ at \in [Procs -> {"idle", "marker", "legacy", "publish", "mark", "create",
                       "clean", "back"}]
  /\ id \in [Procs -> Ids \cup {None}]
  /\ drawn \subseteq Fresh
  /\ handed \subseteq Ids
  /\ lost \in BOOLEAN
  /\ careful \in BOOLEAN

\* A marker that would make every later command fail is only ever written
\* after an identity, so that no crash or race of first commands locks the
\* client out.
NeverLockedOut == marker => state # None \/ lost

\* The old client's file is removed only when an identity and its marker are
\* in place: no interleaving, crash or failed step loses the last copy.
MigrationIsSafe ==
  [][legacy # None /\ legacy' = None => marker /\ (state # None \/ lost)]_vars

\* All commands ever started on a machine act under one identity, also when
\* first commands are cut short and when the initialized identity goes
\* missing (test/unit/phase9-client.test.ts:1533-1557), as long as first
\* commands do not overlap.
OneIdentity == careful => Cardinality(handed) <= 1

=============================================================================
