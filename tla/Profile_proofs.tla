--------------------------- MODULE Profile_proofs ---------------------------
(***************************************************************************)
(* What the files of the profile promise, for any number of processes,     *)
(* profiles, vaults, files and commands: the client identity, the          *)
(* configuration, the private directory and the named pipes of Windows.    *)
(* Each part has its inductive invariant, one lemma for its first state    *)
(* and one for its steps.                                                  *)
(***************************************************************************)
EXTENDS MCProfile, FiniteSetTheorems, TLAPS

(***************************************************************************)
(* Client identity (IdentitySpec).  Under every interleaving, crash,       *)
(* failed step and loss of the file: the marker never precedes an          *)
(* identity, and a migration never removes the last copy.                  *)
(***************************************************************************)

Publishing == {"publish", "mark", "create", "clean", "back"}
Published == {"mark", "create", "clean", "back"}

\* A process that publishes has an identity to publish.
HasId == \A p \in Procs : at[p] \in Publishing => id[p] # None

\* After its rename the identity is there, unless somebody has removed it.
Durable == \A p \in Procs : at[p] \in Published => state # None \/ lost

\* The older file is only removed, and an identity only returned, after the
\* marker.
MarkedFirst == \A p \in Procs : at[p] \in {"clean", "back"} => marker

IdentityInv == TypeOK /\ HasId /\ Durable /\ MarkedFirst /\ NeverLockedOut

LEMMA IdentityStarts == Init => IdentityInv
BY NoneAssumption DEF Init, IdentityInv, TypeOK, HasId, Durable, MarkedFirst, NeverLockedOut,
  Ids, Publishing, Published

LEMMA IdentityStep == IdentityInv /\ [Next]_vars => IdentityInv'
<1> SUFFICES ASSUME IdentityInv, [Next]_vars PROVE IdentityInv'
  OBVIOUS
<1> USE NoneAssumption, LegacyAssumption
<1> USE DEF IdentityInv, TypeOK, HasId, Durable, MarkedFirst, NeverLockedOut, Ids, Publishing,
  Published, Step, Goto, HandOut
<1>0. careful' \in BOOLEAN
  BY DEF Next, vars
<1> USE <1>0
<1>1. ASSUME NEW p \in Procs, ReadState(p) PROVE IdentityInv'
  BY <1>1 DEF ReadState
<1>2. ASSUME NEW p \in Procs, CheckMarker(p) PROVE IdentityInv'
  BY <1>2 DEF CheckMarker
<1>3. ASSUME NEW p \in Procs, ReadLegacy(p) PROVE IdentityInv'
  <2>1. CASE legacy # None /\ id' = [id EXCEPT ![p] = legacy] /\ UNCHANGED drawn
    BY <1>3, <2>1 DEF ReadLegacy
  <2>2. ASSUME NEW i \in Fresh, id' = [id EXCEPT ![p] = i], drawn' = drawn \cup {i}
        PROVE IdentityInv'
    BY <1>3, <2>2 DEF ReadLegacy
  <2> QED
    BY <1>3, <2>1, <2>2 DEF ReadLegacy
<1>4. ASSUME NEW p \in Procs, Publish(p) PROVE IdentityInv'
  BY <1>4 DEF Publish
<1>5. ASSUME NEW p \in Procs, LookForMarker(p) PROVE IdentityInv'
  BY <1>5 DEF LookForMarker, Marked
<1>6. ASSUME NEW p \in Procs, CreateMarker(p) PROVE IdentityInv'
  BY <1>6 DEF CreateMarker, Marked
<1>7. ASSUME NEW p \in Procs, RemoveLegacy(p) PROVE IdentityInv'
  BY <1>7 DEF RemoveLegacy
<1>8. ASSUME NEW p \in Procs, ReadBack(p) PROVE IdentityInv'
  BY <1>8 DEF ReadBack
<1>9. ASSUME NEW p \in Procs, Stop(p) PROVE IdentityInv'
  BY <1>9 DEF Stop
<1>10. CASE Lose
  BY <1>10 DEF Lose
<1>11. CASE UNCHANGED vars
  BY <1>11 DEF vars
<1> QED
  BY <1>1, <1>2, <1>3, <1>4, <1>5, <1>6, <1>7, <1>8, <1>9, <1>10, <1>11 DEF Next, Work

LEMMA AlwaysIdentity == Spec => []IdentityInv
<1> QED
  BY IdentityStarts, IdentityStep, PTL DEF Spec

\* Every file holds an identity or is absent, and only identities are returned.
THEOREM IdentityTypeCorrect == Spec => []TypeOK
<1>1. IdentityInv => TypeOK
  BY DEF IdentityInv
<1> QED
  BY <1>1, AlwaysIdentity, PTL

\* The marker is never written before an identity has been published, so that
\* no crash or race of first commands makes every later command fail with
\* CLIENT_IDENTITY_MISSING.
THEOREM FirstCommandsNeverLockOut == Spec => []NeverLockedOut
<1>1. IdentityInv => NeverLockedOut
  BY DEF IdentityInv
<1> QED
  BY <1>1, AlwaysIdentity, PTL

\* The older client's identity is removed only after an identity and its
\* marker are in place, whichever other commands run or die meanwhile.
THEOREM MigrationKeepsACopy == Spec => MigrationIsSafe
<1> DEFINE Safe == legacy # None /\ legacy' = None => marker /\ (state # None \/ lost)
<1>1. IdentityInv /\ [Next]_vars => [Safe]_vars
  <2> SUFFICES ASSUME IdentityInv, Next, legacy # None, legacy' = None
               PROVE marker /\ (state # None \/ lost)
    OBVIOUS
  <2>1. PICK p \in Procs : RemoveLegacy(p)
    BY DEF Next, Work, Lose, Stop, ReadState, CheckMarker, ReadLegacy, Publish,
      LookForMarker, CreateMarker, ReadBack
  <2> QED
    BY <2>1 DEF IdentityInv, Durable, MarkedFirst, Published, RemoveLegacy
<1> QED
  BY <1>1, AlwaysIdentity, PTL DEF Spec, MigrationIsSafe

\* One identity, as long as first commands do not overlap.  Before a process
\* publishes nothing has been returned yet; what is returned after is what it
\* has published, and the file holds that or, after a loss that the marker
\* reports to all later commands, nothing.
One ==
  /\ OneAtATime
  /\ lost => marker
  /\ \E i \in Ids : handed \subseteq {i}
  /\ state # None => handed \subseteq {state}
  /\ state = None /\ handed # {} => marker
  /\ \A p \in Procs :
       /\ at[p] \in {"marker", "legacy", "publish"} => state = None
       /\ at[p] \in {"legacy", "publish"} => ~marker /\ handed = {}
       /\ at[p] \in {"mark", "create"} => ~marker /\ handed \subseteq {id[p]} /\ state = id[p]
       /\ at[p] \in {"clean", "back"} => marker /\ handed \subseteq {id[p]} /\ state \in {id[p], None}

Careful == careful => One

LEMMA StepsAsOne == IdentityInv /\ Careful /\ [Next]_vars => Careful'
<1> SUFFICES ASSUME IdentityInv, Careful, [Next]_vars, careful' PROVE One'
  BY DEF Careful
<1>0. CASE UNCHANGED vars
  BY <1>0 DEF Careful, One, vars, OneAtATime
<1> SUFFICES ASSUME Next PROVE One'
  BY <1>0
<1> USE NoneAssumption, LegacyAssumption
<1> USE DEF IdentityInv, TypeOK, HasId, Ids, Publishing
<1>1. One /\ OneAtATime' /\ InitializedLoss
  BY DEF Careful, Next
<1>2. \A p, q \in Procs : at[p] # "idle" /\ at[q] # "idle" => p = q
  BY <1>1 DEF One, OneAtATime
<1>3. ASSUME NEW p \in Procs, ReadState(p) PROVE One'
  <2>1. CASE state # None
    <3>1. /\ handed' = handed \cup {state} /\ handed' \subseteq {state}
          /\ UNCHANGED <<state, marker, lost>>
          /\ at' = [at EXCEPT ![p] = "idle"] /\ id' = [id EXCEPT ![p] = None]
      BY <1>1, <1>3, <2>1 DEF ReadState, HandOut, Goto, One
    <3>2. \A q \in Procs : at[q] \in {"idle", "mark", "create", "clean", "back"}
      BY <1>1, <2>1 DEF One
    <3>3. \A q \in Procs : at'[q] # "idle" => q # p /\ at[q] = at'[q]
      BY <3>1
    <3>4. \A q \in Procs : at'[q] \in {"mark", "create", "clean", "back"} =>
            state = id[q] /\ id'[q] = id[q]
      BY <1>1, <2>1, <3>1, <3>3 DEF One
    <3> QED BY <1>1, <2>1, <3>1, <3>2, <3>3, <3>4 DEF One
  <2>2. CASE state = None
    <3>1. /\ UNCHANGED <<state, marker, lost, handed, id>> /\ at[p] = "idle"
          /\ at' = [at EXCEPT ![p] = "marker"]
      BY <1>3, <2>2 DEF ReadState, Goto
    <3> QED BY <1>1, <2>2, <3>1 DEF One
  <2> QED BY <2>1, <2>2
<1>4. ASSUME NEW p \in Procs, CheckMarker(p) PROVE One'
  <2>1. /\ UNCHANGED <<state, marker, lost, handed, id>> /\ at[p] = "marker"
        /\ at' = [at EXCEPT ![p] = IF marker THEN "idle" ELSE "legacy"]
    BY <1>4 DEF CheckMarker, Step, Goto
  <2> QED BY <1>1, <2>1 DEF One
<1>5. ASSUME NEW p \in Procs, ReadLegacy(p) PROVE One'
  <2>1. /\ UNCHANGED <<state, marker, lost, handed>> /\ at[p] = "legacy"
        /\ at' = [at EXCEPT ![p] = "publish"]
        /\ \A q \in Procs : q # p => id'[q] = id[q]
    BY <1>5 DEF ReadLegacy, Step, Goto
  <2> QED BY <1>1, <2>1 DEF One
<1>6. ASSUME NEW p \in Procs, Publish(p) PROVE One'
  <2>1. /\ UNCHANGED <<marker, lost, handed, id>> /\ at[p] = "publish" /\ state' = id[p]
        /\ at' = [at EXCEPT ![p] = "mark"] /\ id[p] # None
    BY <1>6 DEF Publish, Step, Goto
  <2>2. \A q \in Procs : q # p => at[q] = "idle"
    BY <1>2, <2>1
  <2> QED BY <1>1, <2>1, <2>2 DEF One
<1>7. ASSUME NEW p \in Procs, LookForMarker(p) PROVE One'
  <2>1. /\ UNCHANGED <<state, marker, lost, handed, id>> /\ at[p] = "mark" /\ ~marker
        /\ at' = [at EXCEPT ![p] = "create"]
    BY <1>1, <1>7 DEF LookForMarker, Step, Goto, One
  <2> QED BY <1>1, <2>1 DEF One
<1>8. ASSUME NEW p \in Procs, CreateMarker(p) PROVE One'
  <2>1. /\ UNCHANGED <<state, lost, handed, id>> /\ at[p] = "create" /\ ~marker /\ marker'
        /\ at' = [at EXCEPT ![p] = Marked(p)] /\ Marked(p) \in {"clean", "back"}
    BY <1>1, <1>8 DEF CreateMarker, Step, Goto, One, Marked
  <2>2. \A q \in Procs : q # p => at[q] = "idle"
    BY <1>2, <2>1
  <2> QED BY <1>1, <2>1, <2>2 DEF One
<1>9. ASSUME NEW p \in Procs, RemoveLegacy(p) \/ ReadBack(p) PROVE One'
  <2>1. /\ UNCHANGED <<state, marker, lost>> /\ at[p] \in {"clean", "back"} /\ marker
        /\ handed \subseteq {id[p]} /\ state \in {id[p], None} /\ id[p] # None
        /\ at' = [at EXCEPT ![p] = "idle"] /\ id' = [id EXCEPT ![p] = None]
        /\ handed' = handed \cup {id[p]}
    BY <1>1, <1>9 DEF RemoveLegacy, ReadBack, HandOut, Goto, One
  <2>2. \A q \in Procs : at'[q] = "idle"
    BY <1>2, <2>1
  <2>3. id[p] \in Ids
    BY <2>1
  <2> QED BY <1>1, <2>1, <2>2, <2>3 DEF One
<1>10. ASSUME NEW p \in Procs, Stop(p) PROVE One'
  <2>1. /\ UNCHANGED <<state, marker, lost, handed>> /\ at' = [at EXCEPT ![p] = "idle"]
        /\ id' = [id EXCEPT ![p] = None]
    BY <1>10 DEF Stop, Goto
  <2> QED BY <1>1, <2>1 DEF One
<1>11. CASE Lose
  <2>1. /\ UNCHANGED <<marker, handed, at, id>> /\ state # None /\ state' = None /\ lost' = TRUE
        /\ marker
    BY <1>1, <1>11 DEF Lose, One, InitializedLoss
  <2> QED BY <1>1, <2>1 DEF One
<1> QED
  BY <1>3, <1>4, <1>5, <1>6, <1>7, <1>8, <1>9, <1>10, <1>11 DEF Next, Work

\* Under no crash, failed step, migration or later loss of the file does one
\* machine ever act under two identities, unless first commands overlap or the
\* file is lost before it is marked.
THEOREM CommandsShareOneIdentity == Spec => []OneIdentity
<1>1. Init => Careful
  BY NoneAssumption DEF Init, Careful, One, OneAtATime, Ids
<1>2. IdentityInv /\ Careful => OneIdentity
  <2> SUFFICES ASSUME careful, One PROVE Cardinality(handed) <= 1
    BY DEF Careful, OneIdentity
  <2>1. PICK i \in Ids : handed \subseteq {i}
    BY DEF One
  <2>2. handed = {} \/ handed = {i}
    BY <2>1
  <2>3. Cardinality({}) = 0 /\ Cardinality({i}) = 1
    BY FS_EmptySet, FS_Singleton
  <2> QED BY <2>2, <2>3
<1> QED
  BY <1>1, <1>2, AlwaysIdentity, StepsAsOne, PTL DEF Spec

(***************************************************************************)
(* Profiles (ConfigSpec).                                                  *)
(***************************************************************************)

\* A file is replaced by one with another fingerprint, so that a command that
\* finds the fingerprint it has seen before finds what it has read as well.
StampOf(p) ==
  /\ step[p] \in {"save", "read", "after"} => before[p] <= stamp
  /\ step[p] \in {"resolve", "assert", "compare", "act"} => after[p] <= stamp
  /\ step[p] \in {"save", "after"} /\ before[p] = stamp => read[p] = config
  /\ step[p] \in {"resolve", "assert", "compare", "act"} /\ after[p] = stamp => read[p] = config
  /\ step[p] \in {"save", "after", "resolve", "assert", "compare", "act"} => read[p] # Unset
  /\ step[p] \in {"before", "read", "after", "resolve", "assert", "compare", "act"} =>
       command[p].kind = "run"
  /\ step[p] \in {"load", "save"} => command[p].kind # "run"
  /\ step[p] \in {"assert", "compare", "act"} => scope[p] # Unset
Stamped == \A p \in Shells : StampOf(p)

ConfigInv == ConfigTypeOK /\ Stamped

\* The path a command means, whether its directory is there or not.
Meant(c, vault, profile, cwd) ==
  LET around == {n \in Named(c) : cwd # Unset /\ Within(c.path[n], cwd)} IN
  CASE ~Unambiguous(c) -> Unset
    [] Unambiguous(c) /\ vault # Unset -> vault
    [] Unambiguous(c) /\ vault = Unset /\ profile # Unset ->
         IF profile \in Named(c) THEN c.path[profile] ELSE Unset
    [] OTHER ->
         IF around # {} THEN IF Nearest(c, cwd) = {} THEN Unset
                             ELSE c.path[CHOOSE n \in Nearest(c, cwd) : TRUE]
         ELSE IF c.default # Unset
           THEN IF c.default \in Named(c) THEN c.path[c.default] ELSE Unset
         ELSE IF Cardinality(Named(c)) = 1 THEN c.path[CHOOSE n \in Named(c) : TRUE]
         ELSE Unset
MeantBy(p) == Meant(read[p], command[p].vault, command[p].profile, command[p].cwd)

\* An update changes what it says it changes, and leaves a configuration.
LEMMA UpsertTyped ==
  ASSUME NEW c \in Configs, NEW n \in Profiles, NEW v \in Vaults, NEW d \in BOOLEAN,
         Upsert(c, n, v, d) # Unset
  PROVE  Upsert(c, n, v, d) \in Configs /\ Upsert(c, n, v, d).path = [c.path EXCEPT ![n] = v]
<1> DEFINE next == [c EXCEPT !.path[n] = v]
<1>1. /\ next \in Configs /\ next.path = [c.path EXCEPT ![n] = v]
  BY DEF Configs
<1> HIDE DEF next
<1>2. /\ [next EXCEPT !.default = n] \in Configs
      /\ [next EXCEPT !.default = n].path = next.path
  BY <1>1 DEF Configs
<1>3. Upsert(c, n, v, d) \in {next, [next EXCEPT !.default = n], Unset}
  BY DEF Upsert, next
<1> QED BY <1>1, <1>2, <1>3

LEMMA RemovedTyped ==
  ASSUME NEW c \in Configs, NEW n \in Profiles, Removed(c, n) # Unset
  PROVE  Removed(c, n) \in Configs /\ Removed(c, n).path = [c.path EXCEPT ![n] = Unset]
BY DEF Removed, Configs

LEMMA DefaultTyped ==
  ASSUME NEW c \in Configs, NEW n \in Profiles, Default(c, n) # Unset
  PROVE  Default(c, n) \in Configs /\ Default(c, n).path = c.path
BY DEF Default, Configs

\* What is saved is a configuration, and its profiles those of the file that
\* was read but for the one of the command.
LEMMA ChangedTyped ==
  ASSUME ConfigInv, NEW p \in Shells, step[p] = "save", Changed(p) # Unset
  PROVE  /\ Changed(p) \in Configs
         /\ Changed(p).path =
              CASE command[p].kind = "setup" ->
                     [read[p].path EXCEPT ![command[p].name] = command[p].vault]
                [] command[p].kind = "remove" ->
                     [read[p].path EXCEPT ![command[p].name] = Unset]
                [] OTHER -> read[p].path
<1> DEFINE c == command[p]
<1>1. read[p] \in Configs /\ c \in ProfileCommands /\ c.kind # "run"
  BY DEF ConfigInv, ConfigTypeOK, Stamped, StampOf
<1>2. \/ c.kind = "setup" /\ c.name \in Profiles /\ c.vault \in Vaults /\ c.default \in BOOLEAN
      \/ c.kind \in {"default", "remove"} /\ c.name \in Profiles
  BY <1>1 DEF ProfileCommands
<1> HIDE DEF c
<1>3. CASE c.kind = "setup"
  <2>1. Changed(p) = Upsert(read[p], c.name, c.vault, c.default)
    BY <1>3 DEF Changed, c
  <2> QED BY <1>1, <1>2, <1>3, <2>1, UpsertTyped DEF c
<1>4. CASE c.kind = "default"
  <2>1. Changed(p) = Default(read[p], c.name)
    BY <1>4 DEF Changed, c
  <2> QED BY <1>1, <1>2, <1>4, <2>1, DefaultTyped DEF c
<1>5. CASE c.kind = "remove"
  <2>1. Changed(p) = Removed(read[p], c.name)
    BY <1>5 DEF Changed, c
  <2> QED BY <1>1, <1>2, <1>5, <2>1, RemovedTyped DEF c
<1> QED BY <1>2, <1>3, <1>4, <1>5

\* The path a command resolves is the one it means, and was there.
LEMMA ResolvesAsMeant ==
  ASSUME NEW c \in Configs, NEW vault \in Vaults \cup {Unset},
         NEW profile \in Profiles \cup {Unset}, NEW cwd \in Cwds \cup {Unset}
  PROVE  LET m == Meant(c, vault, profile, cwd) IN
         /\ m \in Vaults \cup {Unset}
         /\ Resolve(c, vault, profile, cwd) =
              IF m # Unset /\ folder[m] # 0 THEN m ELSE Unset
<1> DEFINE around == {n \in Named(c) : cwd # Unset /\ Within(c.path[n], cwd)}
<1> DEFINE near == CHOOSE n \in Nearest(c, cwd) : TRUE
<1> DEFINE only == CHOOSE n \in Named(c) : TRUE
<1>0. \A n \in Named(c) : c.path[n] \in Vaults
  BY DEF Named, Configs
<1>1. CASE ~Unambiguous(c)
  BY <1>1 DEF Meant, Resolve
<1>2. CASE Unambiguous(c) /\ vault # Unset
  BY <1>2 DEF Meant, Resolve
<1>3. CASE Unambiguous(c) /\ vault = Unset /\ profile # Unset
  BY <1>0, <1>3 DEF Meant, Resolve, Located
<1>4. CASE Unambiguous(c) /\ vault = Unset /\ profile = Unset
  <2>1. CASE around # {}
    <3>1. Nearest(c, cwd) # {} => near \in Named(c)
      BY DEF Nearest
    <3>2. /\ Meant(c, vault, profile, cwd) = IF Nearest(c, cwd) = {} THEN Unset ELSE c.path[near]
          /\ Resolve(c, vault, profile, cwd) =
               IF Nearest(c, cwd) = {} THEN Unset ELSE Located(c, near)
      BY <1>4, <2>1 DEF Meant, Resolve
    <3> HIDE DEF near
    <3> QED BY <1>0, <3>1, <3>2 DEF Located
  <2>2. CASE around = {} /\ c.default # Unset
    <3>2. /\ Meant(c, vault, profile, cwd) = IF c.default \in Named(c) THEN c.path[c.default] ELSE Unset
          /\ Resolve(c, vault, profile, cwd) = Located(c, c.default)
      BY <1>4, <2>2 DEF Meant, Resolve
    <3> QED BY <1>0, <3>2 DEF Located
  <2>3. CASE around = {} /\ c.default = Unset /\ Cardinality(Named(c)) = 1
    <3>1. only \in Named(c)
      <4>1. Named(c) # {}
        BY <2>3, FS_EmptySet
      <4> QED BY <4>1
    <3>2. /\ Meant(c, vault, profile, cwd) = c.path[only]
          /\ Resolve(c, vault, profile, cwd) = Located(c, only)
      BY <1>4, <2>3 DEF Meant, Resolve
    <3> HIDE DEF only
    <3> QED BY <1>0, <3>1, <3>2 DEF Located
  <2>4. CASE around = {} /\ c.default = Unset /\ Cardinality(Named(c)) # 1
    BY <1>4, <2>4 DEF Meant, Resolve
  <2> QED BY <2>1, <2>2, <2>3, <2>4
<1> QED BY <1>1, <1>2, <1>3, <1>4

LEMMA ConfigStarts == ConfigInit => ConfigInv
<1> SUFFICES ASSUME ConfigInit PROVE ConfigInv
  OBVIOUS
<1>1. /\ config \in Configs /\ stamp \in Nat /\ folder \in [Vaults -> 0 .. 2]
      /\ command \in [Shells -> ProfileCommands]
      /\ ledger \in [Profiles -> Vaults \cup {Unset}]
  BY DEF ConfigInit, Configs
<1>2. step \in [Shells -> {"before", "load"}]
  BY DEF ConfigInit
<1>3. ConfigTypeOK
  BY <1>1, <1>2 DEF ConfigInit, ConfigTypeOK
<1>4. Stamped
  BY <1>1, <1>2 DEF ConfigInit, Stamped, StampOf
<1> QED BY <1>3, <1>4 DEF ConfigInv

\* What a command is to act on.
ScopeOf(p) ==
  step[p] \in {"assert", "compare", "act"} => scope[p].path = MeantBy(p) /\ scope[p].inode # 0
Kept == ~stale => config.path = ledger
ConfigAll ==
  /\ ConfigInv /\ Readable(config) /\ Kept
  /\ \A p \in Shells : ScopeOf(p)

LEMMA DecodedIsReadable == ASSUME NEW c \in Configs, Decodes(c) PROVE Readable(c)
BY DEF Decodes, Readable, Unambiguous, Named, TransportName, Configs

\* A step of one command leaves what is known of the others alone.
LEMMA OthersKept ==
  ASSUME ConfigAll, NEW p \in Shells, NEW q \in Shells,
         UNCHANGED <<config, stamp, command, step[q], read[q], before[q], after[q], scope[q]>>
  PROVE  StampOf(q)' /\ ScopeOf(q)'
<1>1. StampOf(q) /\ ScopeOf(q)
  BY DEF ConfigAll, ConfigInv, Stamped
<1> QED BY <1>1 DEF StampOf, ScopeOf, MeantBy

\* The steps that write nothing.
LEMMA UnwrittenSteps ==
  ASSUME ConfigAll, NEW p \in Shells, Unwritten,
         LoadToChange(p) \/ Before(p) \/ Load(p) \/ After(p) \/ Scope(p) \/ AssertFence(p)
         \/ AssertConfig(p) \/ Again(p)
  PROVE  ConfigAll'
<1>0. /\ UNCHANGED <<config, stamp, folder, command, stale, ledger>>
      /\ Readable(config)' /\ Kept' /\ config # Unset /\ config \in Configs /\ stamp \in Nat
  BY UnsetAssumption DEF ConfigAll, ConfigInv, ConfigTypeOK, Kept, Readable, Unwritten
<1>1. StampOf(p) /\ ScopeOf(p) /\ ConfigTypeOK
  BY DEF ConfigAll, ConfigInv, Stamped
<1> DEFINE Others ==
      \A q \in Shells \ {p} : UNCHANGED <<step[q], read[q], before[q], after[q], scope[q]>>
<1>2. SUFFICES Others /\ ConfigTypeOK' /\ StampOf(p)' /\ ScopeOf(p)'
  <2>1. \A q \in Shells \ {p} : StampOf(q)' /\ ScopeOf(q)'
    BY <1>0, <1>2, OthersKept
  <2> QED BY <1>0, <1>2, <2>1 DEF ConfigAll, ConfigInv, Stamped
<1> USE DEF ConfigTypeOK, StampOf, ScopeOf, Turn, Over
<1>3. CASE LoadToChange(p)
  <2>1. /\ step[p] = "load" /\ step' = [step EXCEPT ![p] = "save"]
        /\ read' = [read EXCEPT ![p] = config] /\ before' = [before EXCEPT ![p] = stamp]
        /\ UNCHANGED <<after, scope>>
    BY <1>3 DEF LoadToChange
  <2> QED BY <1>0, <1>1, <2>1
<1>4. CASE Before(p)
  <2>1. /\ step[p] = "before" /\ step' = [step EXCEPT ![p] = "read"]
        /\ before' = [before EXCEPT ![p] = stamp] /\ UNCHANGED <<read, after, scope>>
    BY <1>4 DEF Before
  <2> QED BY <1>0, <1>1, <2>1
<1>5. CASE Load(p)
  <2>1. /\ step[p] = "read" /\ step' = [step EXCEPT ![p] = "after"]
        /\ read' = [read EXCEPT ![p] = config] /\ UNCHANGED <<before, after, scope>>
    BY <1>5 DEF Load
  <2> QED BY <1>0, <1>1, <2>1
<1>6. CASE /\ step[p] # "act" /\ Over(p)
           /\ step' = [step EXCEPT ![p] = "end"]
  BY <1>0, <1>1, <1>6
<1>7. CASE After(p) /\ step'[p] # "end"
  <2>1. /\ step[p] = "after" /\ step' = [step EXCEPT ![p] = "resolve"]
        /\ before[p] = stamp
        /\ after' = [after EXCEPT ![p] = stamp] /\ UNCHANGED <<read, before, scope>>
    BY <1>1, <1>7 DEF After
  <2> QED BY <1>0, <1>1, <2>1
<1>8. CASE Scope(p) /\ step'[p] # "end"
  <2> DEFINE path == Target(p, read[p])
  <2>1. /\ step[p] = "resolve" /\ step' = [step EXCEPT ![p] = "assert"] /\ path # Unset
        /\ scope' = [scope EXCEPT ![p] = [path |-> path, inode |-> folder[path]]]
        /\ UNCHANGED <<read, before, after>>
    BY <1>1, <1>8 DEF Scope
  <2>2. /\ read[p] \in Configs /\ command[p] \in ProfileCommands /\ command[p].kind = "run"
    BY <1>1, <2>1
  <2>3. /\ command[p].vault \in Vaults \cup {Unset}
        /\ command[p].profile \in Profiles \cup {Unset}
        /\ command[p].cwd \in Cwds \cup {Unset}
    BY <2>2 DEF ProfileCommands
  <2>4. path = MeantBy(p) /\ path \in Vaults /\ folder[path] # 0
    <3>1. /\ MeantBy(p) \in Vaults \cup {Unset}
          /\ path = IF MeantBy(p) # Unset /\ folder[MeantBy(p)] # 0 THEN MeantBy(p) ELSE Unset
      BY <2>2, <2>3, ResolvesAsMeant DEF Target, MeantBy
    <3> HIDE DEF path
    <3> QED BY <2>1, <3>1 DEF path
  <2> HIDE DEF path
  <2>5. folder[path] \in 1 .. 2
    BY <1>1, <2>4
  <2>6. [path |-> path, inode |-> folder[path]] # Unset
    BY <2>4, <2>5, UnsetAssumption
  <2>7. MeantBy(p)' = MeantBy(p)
    BY <1>0, <2>1 DEF MeantBy
  <2>8. ConfigTypeOK'
    BY <1>0, <1>1, <2>1, <2>4, <2>5
  <2>9. StampOf(p)' /\ Others
    BY <1>0, <1>1, <2>1, <2>6
  <2>10. ScopeOf(p)'
    BY <1>1, <2>1, <2>4, <2>5, <2>7
  <2> QED BY <2>8, <2>9, <2>10
<1>9. CASE (AssertFence(p) \/ AssertConfig(p)) /\ step'[p] # "end"
  <2>1. /\ \/ step[p] = "assert" /\ step' = [step EXCEPT ![p] = "compare"]
           \/ step[p] = "compare" /\ step' = [step EXCEPT ![p] = "act"]
        /\ UNCHANGED <<read, before, after, scope>>
    BY <1>1, <1>9 DEF AssertFence, AssertConfig
  <2>2. MeantBy(p)' = MeantBy(p)
    BY <1>0, <2>1 DEF MeantBy
  <2> QED BY <1>0, <1>1, <2>1, <2>2
<1>10. CASE Again(p)
  <2>1. /\ step[p] = "act" /\ step' = [step EXCEPT ![p] = "assert"]
        /\ UNCHANGED <<read, before, after, scope>>
    BY <1>10 DEF Again
  <2>2. MeantBy(p)' = MeantBy(p)
    BY <1>0, <2>1 DEF MeantBy
  <2> QED BY <1>0, <1>1, <2>1, <2>2
<1>11. CASE (After(p) \/ Scope(p) \/ AssertFence(p) \/ AssertConfig(p)) /\ step'[p] = "end"
  <2>1. step[p] # "act" /\ Over(p) /\ step' = [step EXCEPT ![p] = "end"]
    BY <1>1, <1>11 DEF After, Scope, AssertFence, AssertConfig
  <2> QED BY <1>6, <2>1
<1> QED BY <1>3, <1>4, <1>5, <1>7, <1>8, <1>9, <1>10, <1>11

LEMMA SaveStep == ASSUME ConfigAll, NEW p \in Shells, Save(p) PROVE ConfigAll'
<1> USE DEF ConfigAll, ConfigInv, ConfigTypeOK, Stamped, StampOf, Turn, Over
<1>0. /\ step[p] = "save" /\ step' = [step EXCEPT ![p] = "end"]
      /\ UNCHANGED <<folder, command>>
      /\ read' = [read EXCEPT ![p] = Unset] /\ scope' = [scope EXCEPT ![p] = Unset]
      /\ before' = [before EXCEPT ![p] = 0] /\ after' = [after EXCEPT ![p] = 0]
  BY DEF Save
<1>1. \A q \in Shells : ScopeOf(q)'
  BY <1>0 DEF ScopeOf, MeantBy
<1>2. CASE UNCHANGED <<config, stamp, stale, ledger>>
  <2>1. ConfigInv'
    BY <1>0, <1>2
  <2>2. Readable(config)' /\ Kept'
    BY <1>2 DEF Readable, Kept
  <2> QED BY <1>1, <2>1, <2>2
<1>3. CASE ~UNCHANGED <<config, stamp, stale, ledger>>
  <2>1. /\ Changed(p) # Unset /\ Decodes(Changed(p))
        /\ config' = Changed(p) /\ stamp' = stamp + 1
        /\ stale' = (stale \/ before[p] # stamp)
        /\ ledger' = CASE command[p].kind = "setup" ->
                            [ledger EXCEPT ![command[p].name] = command[p].vault]
                       [] command[p].kind = "remove" ->
                            [ledger EXCEPT ![command[p].name] = Unset]
                       [] OTHER -> ledger
    BY <1>3 DEF Save
  <2>2. /\ Changed(p) \in Configs
        /\ Changed(p).path =
              CASE command[p].kind = "setup" ->
                     [read[p].path EXCEPT ![command[p].name] = command[p].vault]
                [] command[p].kind = "remove" ->
                     [read[p].path EXCEPT ![command[p].name] = Unset]
                [] OTHER -> read[p].path
    BY <1>0, <2>1, ChangedTyped
  <2>3. Readable(config)'
    BY <2>1, <2>2, DecodedIsReadable DEF Readable
  <2>4. Kept'
    BY <1>0, <2>1, <2>2 DEF Kept
  <2>5. command[p] \in ProfileCommands /\ command[p].kind # "run"
    BY <1>0
  <2>6. \/ command[p].kind = "setup" /\ command[p].name \in Profiles /\ command[p].vault \in Vaults
        \/ command[p].kind \in {"default", "remove"} /\ command[p].name \in Profiles
    BY <2>5 DEF ProfileCommands
  <2>7. ledger' \in [Profiles -> Vaults \cup {Unset}]
    BY <2>1, <2>6
  <2>8. ConfigTypeOK'
    BY <1>0, <2>1, <2>2, <2>7
  <2>9. Stamped'
    BY <1>0, <2>1
  <2> QED BY <1>1, <2>3, <2>4, <2>8, <2>9
<1> QED BY <1>2, <1>3

LEMMA MoveStep == ASSUME ConfigAll, NEW v \in Vaults, MoveVault(v) PROVE ConfigAll'
<1>1. /\ UNCHANGED <<config, stamp, command, step, read, before, after, scope, stale, ledger>>
      /\ folder' \in [Vaults -> 0 .. 2]
  BY DEF MoveVault, ConfigAll, ConfigInv, ConfigTypeOK
<1> QED BY <1>1 DEF ConfigAll, ConfigInv, ConfigTypeOK, Stamped, StampOf, Readable, Kept, ScopeOf, MeantBy

LEMMA ConfigSteps == ConfigAll /\ [ConfigNext]_configVars => ConfigAll'
<1> SUFFICES ASSUME ConfigAll, [ConfigNext]_configVars PROVE ConfigAll'
  OBVIOUS
<1>1. CASE UNCHANGED configVars
  BY <1>1 DEF configVars, ConfigAll, ConfigInv, ConfigTypeOK, Stamped, StampOf, Readable, Kept, ScopeOf, MeantBy
<1>2. ASSUME NEW p \in Shells,
             \/ LoadToChange(p) \/ Before(p) \/ Load(p) \/ After(p)
             \/ Scope(p) \/ AssertFence(p) \/ AssertConfig(p) \/ Again(p)
      PROVE  ConfigAll'
  BY <1>2, UnwrittenSteps DEF LoadToChange, Before, Load, After, Scope, AssertFence,
    AssertConfig, Again
<1> QED BY <1>1, <1>2, SaveStep, MoveStep DEF ConfigNext

LEMMA AlwaysConfig == ConfigSpec => []ConfigAll
<1>1. ConfigInit => ConfigAll
  BY ConfigStarts DEF ConfigAll, ConfigInit, Kept, ScopeOf
<1> QED BY <1>1, ConfigSteps, PTL DEF ConfigSpec

\* The variables of the configuration and its commands keep their types, for any
\* profiles, vaults and processes.
THEOREM ConfigTypeCorrect == ConfigSpec => []ConfigTypeOK
<1>1. ConfigAll => ConfigTypeOK
  BY DEF ConfigAll, ConfigInv
<1> QED BY <1>1, AlwaysConfig, PTL

\* However setups, defaults and removals of many processes interleave, the file
\* can be read by the next command, and as long as none of them saves what it
\* made of an older file no profile is lost.
THEOREM ConfigStaysSound == ConfigSpec => []ConfigIsSound
<1>1. ConfigAll => ConfigIsSound
  BY DEF ConfigAll, ConfigIsSound, AlwaysReadable, ProfilesAreKept, Kept
<1> QED BY <1>1, AlwaysConfig, PTL

\* Without explicit target the innermost vault is meant.
LEMMA InnermostMeant == ConfigAll => InnermostVault
<1> SUFFICES ASSUME ConfigAll, NEW p \in Shells, step[p] = "act", command[p].cwd # Unset
             PROVE LET around == {n \in Named(read[p]) : Within(read[p].path[n], command[p].cwd)}
                   IN around = {} \/ /\ Within(scope[p].path, command[p].cwd)
                                     /\ \A n \in around : Len(read[p].path[n]) <= Len(scope[p].path)
  BY DEF InnermostVault
<1> DEFINE c == read[p]
<1> DEFINE cwd == command[p].cwd
<1> DEFINE around == {n \in Named(c) : Within(c.path[n], cwd)}
<1>1. /\ c \in Configs /\ command[p] \in ProfileCommands /\ command[p].kind = "run"
      /\ scope[p].path = MeantBy(p) /\ scope[p].path \in Vaults
  BY DEF ConfigAll, ConfigInv, ConfigTypeOK, Stamped, StampOf, ScopeOf
<1>2. command[p].vault = Unset /\ command[p].profile = Unset
  BY <1>1, ConfigAssumption DEF ProfileCommands
<1>3. MeantBy(p) # Unset
  BY <1>1, ConfigAssumption
<1> SUFFICES ASSUME around # {}
             PROVE /\ Within(scope[p].path, cwd)
                   /\ \A n \in around : Len(c.path[n]) <= Len(scope[p].path)
  OBVIOUS
<1> DEFINE near == CHOOSE n \in Nearest(c, cwd) : TRUE
<1>4. Nearest(c, cwd) # {} /\ scope[p].path = c.path[near]
  BY <1>1, <1>2, <1>3 DEF MeantBy, Meant
<1>5. near \in Nearest(c, cwd)
  BY <1>4
<1> HIDE DEF near
<1>6. /\ near \in Named(c) /\ Within(c.path[near], cwd)
      /\ \A n \in around : n = near \/ Len(c.path[near]) > Len(c.path[n])
  BY <1>5 DEF Nearest
<1>7. \A n \in Named(c) : Len(c.path[n]) \in Nat
  <2>1. \A n \in Named(c) : c.path[n] \in Seq(STRING)
    BY <1>1, PathAssumption DEF Named, Configs
  <2> QED BY <2>1
<1> QED BY <1>4, <1>6, <1>7

\* A command that goes on to act acts on the vault that the file in force and
\* its arguments mean, in the very directory it has found, and without explicit
\* target on the innermost vault around its working directory.
THEOREM CommandsFindTheirVault == ConfigSpec => VaultIsMeant
<1>1. ConfigAll /\ ConfigNext => ActsOnItsTarget
  <2> SUFFICES ASSUME ConfigAll, ConfigNext, NEW p \in Shells
               PROVE  /\ step[p] = "assert" /\ step'[p] = "compare" =>
                           folder[scope[p].path] = scope[p].inode
                      /\ step[p] = "compare" /\ step'[p] = "act"
                           /\ folder[scope[p].path] = scope[p].inode =>
                           Target(p, config) = scope[p].path
    BY DEF ActsOnItsTarget
  <2>1. /\ step[p] = "assert" /\ step'[p] = "compare" => AssertFence(p)
        /\ step[p] = "compare" /\ step'[p] = "act" => AssertConfig(p)
    BY DEF ConfigNext, LoadToChange, Save, Before, Load, After, Scope, AssertFence, AssertConfig,
       Again, MoveVault, Turn, ConfigAll, ConfigInv, ConfigTypeOK
  <2>2. CASE step[p] = "assert" /\ step'[p] = "compare"
    BY <2>1, <2>2 DEF AssertFence, Turn, ConfigAll, ConfigInv, ConfigTypeOK
  <2>3. ASSUME step[p] = "compare", step'[p] = "act", folder[scope[p].path] = scope[p].inode
        PROVE  Target(p, config) = scope[p].path
    <3>1. stamp = after[p]
      BY <2>1, <2>3 DEF AssertConfig, Turn, ConfigAll, ConfigInv, ConfigTypeOK
    <3>2. /\ read[p] = config /\ config \in Configs /\ scope[p].path = MeantBy(p)
          /\ scope[p].inode # 0 /\ scope[p].path \in Vaults
          /\ command[p] \in ProfileCommands /\ command[p].kind = "run"
      BY <2>3, <3>1 DEF ConfigAll, ConfigInv, ConfigTypeOK, Stamped, StampOf, ScopeOf
    <3>3. /\ command[p].vault \in Vaults \cup {Unset}
          /\ command[p].profile \in Profiles \cup {Unset}
          /\ command[p].cwd \in Cwds \cup {Unset}
      BY <3>2 DEF ProfileCommands
    <3>4. Target(p, config) = MeantBy(p)
      BY <2>3, <3>2, <3>3, ResolvesAsMeant, ConfigAssumption DEF Target, MeantBy
    <3> QED BY <3>2, <3>4
  <2> QED BY <2>2, <2>3
<1>2. ConfigAll' => InnermostVault'
  BY InnermostMeant, PTL
<1>3. ConfigAll /\ ConfigAll' /\ [ConfigNext]_configVars =>
        [ActsOnItsTarget /\ InnermostVault']_configVars
  BY <1>1, <1>2
<1> QED BY <1>3, AlwaysConfig, PTL DEF ConfigSpec, VaultIsMeant

(***************************************************************************)
(* The private directory (StorageSpec).                                    *)
(***************************************************************************)

\* What each step says of the command that is to take it.
Phases == \A p \in Commands :
  /\ pc[p] \in {"open", "fill", "protect", "rename", "check"} => job[p].op = "write"
  /\ pc[p] = "repair" => job[p].op = "repair"
  /\ pc[p] = "inspect" => job[p].op \in {"inspect", "repair"}
  /\ pc[p] = "begin" => listed[p] = {}
  /\ verdict[p] # "none" => pc[p] = "end"
  /\ verdict[p] = "repaired" => job[p].op = "repair"
  /\ verdict[p] = "written" => job[p].op = "write"

\* Temporary names exist from their creation to the rename, and are new.
Unused == \A p \in Commands :
  /\ pc[p] \in {"begin", "open"} =>
       Temporary(p) \notin entries /\ \A q \in Commands : Temporary(p) \notin listed[q]
  /\ pc[p] = "check" \/ verdict[p] \notin {"none", "died"} => Temporary(p) \notin entries

\* Only complete files are renamed.
Complete ==
  /\ \A f \in StoredFiles : body[f] # "torn"
  /\ \A p \in Commands : pc[p] \in {"protect", "rename"} => body[Temporary(p)] = p

\* Only private files are renamed.
Private == ~meddled =>
  /\ loose \cap StoredFiles = {}
  /\ ~Windows => loose \cap Temporaries = {}
  /\ \A p \in Commands : pc[p] = "rename" => Temporary(p) \notin loose

\* A write gets to its check through its rename.
InPlace == \A p \in Commands :
  pc[p] = "check" \/ verdict[p] = "written" => p \in authors[job[p].file]

\* What a repair has listed and not removed it has still to look at, and when
\* it inspects what it has done, only the directory plans can hold such names.
Cleaning == \A p \in Commands : job[p].op = "repair" =>
  \A n \in listed[p] \cap entries \cap Temporaries :
    /\ pc[p] \in {"repair", "inspect"} /\ n \in todo[p]
    /\ pc[p] = "inspect" => ~InRoot(n)

\* What a command alone at its inspection has not to look at any more is tight
\* and known.
Fine(n) == n \notin loose /\ (n = PlanDir \/ Recognized(n))
Inspecting == \A p \in alone :
  /\ pc[p] = "inspect" =>
       /\ Root \notin loose
       /\ \A n \in entries \cup {PlanDir} :
            n \in todo[p] \/ Fine(n) \/ (n # PlanDir /\ ~InRoot(n) /\ PlanDir \in todo[p])
  /\ verdict[p] \in {"secure", "repaired"} =>
       Root \notin loose /\ \A n \in entries \cup {PlanDir} : Fine(n)

StorageParts == Phases /\ Unused /\ Complete /\ Private /\ InPlace /\ Cleaning /\ Inspecting
StorageInv == StorageTypeOK /\ StorageParts

\* Every write has a temporary name of its own.
LEMMA TemporaryFacts ==
  ASSUME StorageTypeOK
  PROVE  \A p \in Commands :
           /\ Temporary(p) \notin StoredFiles \cup {Root, PlanDir}
           /\ job[p].op = "write" => job[p].file \in StoredFiles /\ Temporary(p) \in Temporaries
           /\ job[p].op \in {"inspect", "repair"} => Temporary(p) \notin Names
           /\ job[p].op \in {"write", "inspect", "repair"}
           /\ \A q \in Commands : Temporary(p) = Temporary(q) => p = q
<1>1. SUFFICES ASSUME NEW p \in Commands
      PROVE /\ Temporary(p) \notin StoredFiles \cup {Root, PlanDir}
            /\ job[p].op = "write" => job[p].file \in StoredFiles /\ Temporary(p) \in Temporaries
            /\ job[p].op \in {"inspect", "repair"} => Temporary(p) \notin Names
            /\ job[p].op \in {"write", "inspect", "repair"}
            /\ \A q \in Commands : Temporary(p) = Temporary(q) => p = q
  OBVIOUS
<1>2. \/ job[p].op = "write" /\ job[p].file \in StoredFiles
      \/ job[p].op \in {"inspect", "repair"} /\ job[p].file = Nobody
  <2>1. job[p] \in Jobs
    BY DEF StorageTypeOK
  <2> QED BY <2>1 DEF Jobs
<1>3. Temporary(p) \in (StoredFiles \cup {Nobody}) \X (Commands \cup {Nobody})
  BY <1>2 DEF Temporary
<1>4. Nobody \notin StoredFiles
  BY StorageAssumption DEF StoredFiles
<1>5. job[p].op \in {"inspect", "repair"} => Temporary(p) \notin Names
  BY <1>2, <1>3, <1>4, NamesAssumption DEF Names, Temporaries, Temporary
<1>6. \A q \in Commands : Temporary(p) = Temporary(q) => p = q
  BY DEF Temporary
<1>7. Temporary(p) \notin StoredFiles \cup {Root, PlanDir}
  BY <1>3, NamesAssumption
<1>8. job[p].op = "write" => Temporary(p) \in Temporaries
  BY <1>2, <1>3 DEF Temporary, Temporaries
<1> QED BY <1>2, <1>5, <1>6, <1>7, <1>8

LEMMA StorageStarts == StorageInit => StorageInv
<1> SUFFICES ASSUME StorageInit PROVE StorageInv
  OBVIOUS
<1>1. StorageTypeOK
  BY StorageAssumption, NamesAssumption DEF StorageInit, StorageTypeOK, Names, Temporaries,
    Verdicts, Temporary
<1>2. \A p \in Commands : Temporary(p) \notin entries
  BY StorageAssumption, NamesAssumption, <1>1, TemporaryFacts
  DEF StorageInit, Temporary
<1>3. Phases /\ Unused /\ InPlace /\ Cleaning /\ Inspecting
  BY <1>2 DEF StorageInit, Phases, Unused, InPlace, Cleaning, Inspecting
<1>4. Complete
  BY StorageAssumption DEF StorageInit, Complete, Names
<1>5. Private
  <2>1. StoredFiles \cap Temporaries = {}
    BY NamesAssumption DEF Temporaries
  <2>2. loose \subseteq Temporaries /\ (~Windows => loose = {})
    BY DEF StorageInit
  <2> QED BY <2>1, <2>2 DEF Private, StorageInit
<1> QED BY <1>1, <1>3, <1>4, <1>5 DEF StorageInv, StorageParts

\* The steps of one command.
Acts(p) ==
  \/ Ensure(p) \/ Open(p) \/ Fill(p) \/ Protect(p) \/ Rename(p) \/ Check(p)
  \/ WriteFails(p) \/ InspectRoot(p) \/ Inspected(p) \/ RepairRoot(p)
  \/ RepairPlanDir(p) \/ Repaired(p) \/ Crash(p)
  \/ \E n \in todo[p] :
       Inspect(p, n) \/ RepairTemporary(p, n) \/ RepairFile(p, n) \/ RepairFails(p, n)

LEMMA PhasesKept ==
  ASSUME StorageTypeOK, Phases, NEW p \in Commands, Acts(p) PROVE Phases'
<1> USE DEF StorageTypeOK, Phases, At, Then, Report, Forget, Looks, Looked, Insecure,
  Writing, WriteKeeps, LookKeeps
<1>1. CASE Ensure(p) \/ Open(p) \/ Fill(p) \/ Protect(p) \/ Rename(p)
  BY <1>1 DEF Ensure, Open, Fill, Protect, Rename
<1>2. CASE Check(p) \/ WriteFails(p)
  BY <1>2 DEF Check, WriteFails
<1>3. CASE InspectRoot(p) \/ Inspected(p)
  BY <1>3, TemporaryFacts DEF InspectRoot, Inspected
<1>4. CASE RepairRoot(p) \/ RepairPlanDir(p) \/ Repaired(p)
  BY <1>4 DEF RepairRoot, RepairPlanDir, Repaired
<1>5. CASE Crash(p)
  BY <1>5 DEF Crash
<1>6. ASSUME NEW n \in todo[p], Inspect(p, n) PROVE Phases'
  BY <1>6 DEF Inspect
<1>7. ASSUME NEW n \in todo[p], RepairTemporary(p, n) \/ RepairFile(p, n) \/ RepairFails(p, n)
      PROVE Phases'
  BY <1>7 DEF RepairTemporary, RepairFile, RepairFails
<1> QED BY <1>1, <1>2, <1>3, <1>4, <1>5, <1>6, <1>7 DEF Acts

LEMMA CompleteKept ==
  ASSUME StorageTypeOK, Phases, Complete, NEW p \in Commands, Acts(p) PROVE Complete'
<1>0. /\ \A q \in Commands : Temporary(q)' = Temporary(q)
      /\ StoredFiles \subseteq Names /\ p # "torn" /\ job[p] \in Jobs
  <2>1. job' = job
    BY DEF Acts, Ensure, Open, Fill, Protect, Rename, Check, WriteFails,
    InspectRoot, Inspected, RepairRoot, RepairPlanDir, Repaired, Crash, Inspect, RepairTemporary,
    RepairFile, RepairFails, WriteKeeps, LookKeeps
  <2> QED BY <2>1, StorageAssumption DEF Temporary, Names, StorageTypeOK
<1>1. /\ \A q \in Commands : /\ Temporary(q) \notin StoredFiles
                             /\ Temporary(q) = Temporary(p) => q = p
      /\ job[p].op = "write" => job[p].file \in StoredFiles /\ Temporary(p) \in Names
  BY TemporaryFacts DEF Names
<1> USE <1>0, <1>1 DEF StorageTypeOK, Complete, At, Then, Report, Writing
<1>2. CASE Open(p)
  BY <1>2 DEF Open
<1>3. CASE Fill(p)
  BY <1>3 DEF Fill
<1>4. CASE Protect(p)
  BY <1>4 DEF Protect
<1>5. CASE Rename(p)
  BY <1>5 DEF Rename
<1>6. CASE Ensure(p) \/ Check(p) \/ WriteFails(p) \/ Crash(p)
  BY <1>6 DEF Ensure, Check, WriteFails, Crash
<1>7. CASE InspectRoot(p) \/ Inspected(p) \/ RepairRoot(p) \/ RepairPlanDir(p) \/ Repaired(p)
  BY <1>7 DEF InspectRoot, Inspected, RepairRoot, RepairPlanDir, Repaired, LookKeeps, Looks, Insecure
<1>8. ASSUME NEW n \in todo[p],
             Inspect(p, n) \/ RepairTemporary(p, n) \/ RepairFile(p, n) \/ RepairFails(p, n)
      PROVE Complete'
  BY <1>8 DEF Inspect, RepairTemporary, RepairFile, RepairFails, LookKeeps, Insecure
<1> QED BY <1>2, <1>3, <1>4, <1>5, <1>6, <1>7, <1>8 DEF Acts

LEMMA FreshKept ==
  ASSUME StorageTypeOK, Phases, Unused, NEW p \in Commands, Acts(p) PROVE Unused'
<1>0. \A q \in Commands : Temporary(q)' = Temporary(q)
  <2>1. job' = job
    BY DEF Acts, Ensure, Open, Fill, Protect, Rename, Check, WriteFails,
    InspectRoot, Inspected, RepairRoot, RepairPlanDir, Repaired, Crash, Inspect, RepairTemporary,
    RepairFile, RepairFails, WriteKeeps, LookKeeps
  <2> QED BY <2>1 DEF Temporary
<1>1. /\ \A q \in Commands : /\ Temporary(q) \notin StoredFiles \cup {Root, PlanDir}
                             /\ Temporary(q) = Temporary(p) => q = p
                             /\ job[q].op \in {"inspect", "repair"} => Temporary(q) \notin entries
      /\ job[p].op = "write" => job[p].file \in StoredFiles
  BY TemporaryFacts DEF StorageTypeOK
<1> USE <1>0, <1>1 DEF StorageTypeOK, Phases, Unused, At, Then, Report, Forget, Writing, WriteKeeps, LookKeeps
<1>2. CASE Open(p)
  BY <1>2 DEF Open
<1>3. CASE Ensure(p) \/ Fill(p) \/ Protect(p)
  BY <1>3 DEF Ensure, Fill, Protect
<1>4. CASE Rename(p)
  BY <1>4 DEF Rename
<1>5. CASE Check(p)
  BY <1>5 DEF Check
<1>6. CASE WriteFails(p)
  BY <1>6 DEF WriteFails
<1>7. CASE Crash(p)
  BY <1>7 DEF Crash
<1>8. CASE InspectRoot(p)
  BY <1>8 DEF InspectRoot, RootNames
<1>9. CASE Inspected(p)
  BY <1>9 DEF Inspected
<1>10. CASE RepairRoot(p)
  BY <1>10 DEF RepairRoot, RootNames
<1>11. CASE RepairPlanDir(p)
  BY <1>11 DEF RepairPlanDir, PlanNames, Looks, Looked
<1>12. CASE Repaired(p)
  BY <1>12 DEF Repaired, RootNames, Insecure
<1>13. ASSUME NEW n \in todo[p], Inspect(p, n) PROVE Unused'
  BY <1>13 DEF Inspect, PlanNames, Looks, Looked, Insecure
<1>14. ASSUME NEW n \in todo[p],
              RepairTemporary(p, n) \/ RepairFile(p, n) \/ RepairFails(p, n)
       PROVE Unused'
  BY <1>14 DEF RepairTemporary, RepairFile, RepairFails, Insecure, Looks, Looked
<1> QED BY <1>2, <1>3, <1>4, <1>5, <1>6, <1>7, <1>8, <1>9, <1>10, <1>11, <1>12, <1>13,
  <1>14 DEF Acts

LEMMA PrivateKept ==
  ASSUME StorageTypeOK, Phases, Private, NEW p \in Commands, Acts(p) PROVE Private'
<1>0. /\ \A q \in Commands : Temporary(q)' = Temporary(q)
      /\ Windows' = Windows /\ meddled' = meddled
  <2>1. job' = job /\ system' = system /\ meddled' = meddled
    BY DEF Acts, Ensure, Open, Fill, Protect, Rename, Check, WriteFails,
    InspectRoot, Inspected, RepairRoot, RepairPlanDir, Repaired, Crash, Inspect, RepairTemporary,
    RepairFile, RepairFails, WriteKeeps, LookKeeps
  <2> QED BY <2>1 DEF Temporary, Windows
<1>1. /\ \A q \in Commands : /\ Temporary(q) \notin StoredFiles
                             /\ Temporary(q) = Temporary(p) => q = p
      /\ job[p].op = "write" => job[p].file \in StoredFiles /\ Temporary(p) \in Temporaries
      /\ StoredFiles \cap Temporaries = {}
  BY TemporaryFacts, NamesAssumption DEF Temporaries
<1>2. /\ pc \in [Commands -> {"begin", "open", "fill", "protect", "rename", "check", "inspect",
                         "repair", "end"}]
      /\ pc[p] \in {"open", "fill", "protect", "rename", "check"} => job[p].op = "write"
  BY DEF StorageTypeOK, Phases
<1> USE <1>0, <1>1, <1>2 DEF Private, At, Then, Report, Writing
<1>3. CASE Open(p)
  BY <1>3 DEF Open
<1>4. CASE Fill(p)
  BY <1>4 DEF Fill
<1>5. CASE Protect(p)
  BY <1>5 DEF Protect
<1>6. CASE Rename(p)
  BY <1>6 DEF Rename
<1>7. CASE Ensure(p)
  BY <1>7 DEF Ensure
<1>8. CASE Check(p) \/ WriteFails(p) \/ Crash(p)
  BY <1>8 DEF Check, WriteFails, Crash
<1>9. CASE InspectRoot(p) \/ Inspected(p) \/ RepairRoot(p) \/ RepairPlanDir(p) \/ Repaired(p)
  BY <1>9 DEF InspectRoot, Inspected, RepairRoot, RepairPlanDir, Repaired, Looks, Insecure
<1>10. ASSUME NEW n \in todo[p],
             Inspect(p, n) \/ RepairTemporary(p, n) \/ RepairFile(p, n) \/ RepairFails(p, n)
       PROVE Private'
  BY <1>10 DEF Inspect, RepairTemporary, RepairFile, RepairFails, Insecure
<1> QED BY <1>3, <1>4, <1>5, <1>6, <1>7, <1>8, <1>9, <1>10 DEF Acts

LEMMA InPlaceKept ==
  ASSUME StorageTypeOK, Phases, InPlace, NEW p \in Commands, Acts(p) PROVE InPlace'
<1>0. job' = job
  BY DEF Acts, Ensure, Open, Fill, Protect, Rename, Check, WriteFails,
    InspectRoot, Inspected, RepairRoot, RepairPlanDir, Repaired, Crash, Inspect, RepairTemporary,
    RepairFile, RepairFails, WriteKeeps, LookKeeps
<1>1. job[p].op = "write" => job[p].file \in StoredFiles
  BY TemporaryFacts
<1> USE <1>0, <1>1 DEF StorageTypeOK, InPlace, At, Then, Report, Writing
<1>2. CASE Rename(p)
  BY <1>2 DEF Rename, Phases
<1>3. CASE Check(p)
  BY <1>3 DEF Check
<1>4. CASE Ensure(p) \/ Open(p) \/ Fill(p) \/ Protect(p) \/ WriteFails(p) \/ Crash(p)
  BY <1>4 DEF Ensure, Open, Fill, Protect, WriteFails, Crash
<1>5. CASE InspectRoot(p) \/ Inspected(p) \/ RepairRoot(p) \/ RepairPlanDir(p) \/ Repaired(p)
  BY <1>5 DEF InspectRoot, Inspected, RepairRoot, RepairPlanDir, Repaired, LookKeeps, Looks, Insecure
<1>6. ASSUME NEW n \in todo[p],
             Inspect(p, n) \/ RepairTemporary(p, n) \/ RepairFile(p, n) \/ RepairFails(p, n)
      PROVE InPlace'
  BY <1>6 DEF Inspect, RepairTemporary, RepairFile, RepairFails, LookKeeps, Insecure
<1> QED BY <1>2, <1>3, <1>4, <1>5, <1>6 DEF Acts

LEMMA CleaningKept ==
  ASSUME StorageTypeOK, Phases, Unused, Cleaning, NEW p \in Commands, Acts(p) PROVE Cleaning'
<1>0. job' = job
  BY DEF Acts, Ensure, Open, Fill, Protect, Rename, Check, WriteFails,
    InspectRoot, Inspected, RepairRoot, RepairPlanDir, Repaired, Crash, Inspect, RepairTemporary,
    RepairFile, RepairFails, WriteKeeps, LookKeeps
<1>1. /\ job[p].op = "write" => job[p].file \in StoredFiles
      /\ StoredFiles \cap Temporaries = {} /\ PlanDir \notin Temporaries
      /\ \A n : InRoot(n)' = InRoot(n)
  BY TemporaryFacts, NamesAssumption DEF Temporaries, InRoot, FileOf
<1>2. /\ pc \in [Commands -> {"begin", "open", "fill", "protect", "rename", "check", "inspect",
                         "repair", "end"}]
      /\ todo \in [Commands -> SUBSET (Names \cup {PlanDir})]
      /\ listed \in [Commands -> SUBSET (Names \cup {PlanDir})]
  BY DEF StorageTypeOK
<1> USE <1>0, <1>1, <1>2 DEF Cleaning, At, Then, Report, Forget, Writing, WriteKeeps, LookKeeps
<1>3. CASE Open(p)
  BY <1>3 DEF Open, Unused, Phases
<1>4. CASE Rename(p)
  BY <1>4 DEF Rename, Phases
<1>5. CASE Ensure(p) \/ Fill(p) \/ Protect(p) \/ Check(p) \/ WriteFails(p)
  BY <1>5 DEF Ensure, Fill, Protect, Check, WriteFails
<1>6. CASE Crash(p)
  BY <1>6 DEF Crash
<1>7. CASE InspectRoot(p)
  BY <1>7 DEF InspectRoot
<1>8. CASE Inspected(p)
  BY <1>8 DEF Inspected
<1>9. CASE RepairRoot(p)
  BY <1>9 DEF RepairRoot
<1>10. CASE RepairPlanDir(p)
  BY <1>10 DEF RepairPlanDir, Looks, Looked
<1>11. CASE Repaired(p)
  BY <1>11 DEF Repaired, Insecure
<1>12. ASSUME NEW n \in todo[p], Inspect(p, n) PROVE Cleaning'
  <2>1. CASE Insecure(p)
    BY <1>12, <2>1 DEF Inspect, Insecure
  <2>2. CASE ~Insecure(p)
    <3>1. /\ pc[p] = "inspect" /\ (n = PlanDir \/ Recognized(n))
          /\ todo' = [todo EXCEPT ![p] = (@ \ {n}) \cup IF n = PlanDir THEN PlanNames ELSE {}]
          /\ listed' = [listed EXCEPT ![p] = @ \cup IF n = PlanDir THEN PlanNames ELSE {}]
          /\ UNCHANGED <<pc, entries>>
      BY <1>12, <2>2 DEF Inspect, Looks, Looked
    <3> QED BY <3>1 DEF Recognized, PlanNames
  <2> QED BY <2>1, <2>2
<1>13. ASSUME NEW n \in todo[p], RepairTemporary(p, n) PROVE Cleaning'
  BY <1>13 DEF RepairTemporary, Looks, Looked
<1>14. ASSUME NEW n \in todo[p], RepairFile(p, n) PROVE Cleaning'
  BY <1>14 DEF RepairFile, Looks, Looked
<1>15. ASSUME NEW n \in todo[p], RepairFails(p, n) PROVE Cleaning'
  BY <1>15 DEF RepairFails, Insecure
<1> QED BY <1>3, <1>4, <1>5, <1>6, <1>7, <1>8, <1>9, <1>10, <1>11, <1>12, <1>13, <1>14, <1>15
  DEF Acts

LEMMA InspectingKept ==
  ASSUME StorageTypeOK, Phases, Inspecting, NEW p \in Commands, Acts(p) PROVE Inspecting'
<1>1. /\ \A n : InRoot(n)' = InRoot(n) /\ Recognized(n)' = Recognized(n)
      /\ pc \in [Commands -> {"begin", "open", "fill", "protect", "rename", "check", "inspect",
                         "repair", "end"}]
      /\ todo \in [Commands -> SUBSET (Names \cup {PlanDir})]
      /\ verdict \in [Commands -> Verdicts]
  BY DEF InRoot, FileOf, Recognized, StorageTypeOK
<1>2. CASE Crash(p)
  BY <1>1, <1>2 DEF Crash, Then, Forget, Inspecting, Fine
<1>3. CASE ~Crash(p)
  <2>0. Disturb(p) /\ \A q \in Commands \ {p} : UNCHANGED <<pc[q], verdict[q]>>
    BY <1>3, <1>1 DEF Acts, Ensure, Open, Fill, Protect, Rename, Check, WriteFails, InspectRoot,
      Inspected, RepairRoot, RepairPlanDir, Repaired, Inspect, RepairTemporary, RepairFile,
      RepairFails, Writing, Looks, Looked, Insecure, Report, Then
  <2>1. \A q \in alone' : q \in alone /\ (q = p \/ (pc'[q] = "begin" /\ verdict'[q] = "none"))
    BY <2>0 DEF Disturb, Unbegun, At, Phases, StorageTypeOK
  <2>2. CASE p \notin alone'
    BY <2>1, <2>2 DEF Inspecting
  <2>3. CASE p \in alone'
    <3>1. SUFFICES
            /\ pc'[p] = "inspect" =>
                 /\ Root \notin loose'
                 /\ \A n \in entries' \cup {PlanDir} :
                      n \in todo'[p] \/ Fine(n)'
                        \/ (n # PlanDir /\ ~InRoot(n) /\ PlanDir \in todo'[p])
            /\ verdict'[p] \in {"secure", "repaired"} =>
                 Root \notin loose' /\ \A n \in entries' \cup {PlanDir} : Fine(n)'
      BY <1>1, <2>1 DEF Inspecting
    <3>2. /\ pc[p] = "inspect" =>
               /\ Root \notin loose
               /\ \A n \in entries \cup {PlanDir} :
                    n \in todo[p] \/ Fine(n) \/ (n # PlanDir /\ ~InRoot(n) /\ PlanDir \in todo[p])
          /\ pc[p] # "end" => verdict[p] = "none"
      BY <2>1, <2>3 DEF Inspecting, Phases
    <3>3. pc[p] # "end"
      BY <1>3 DEF Acts, Ensure, Open, Fill, Protect, Rename, Check, WriteFails, InspectRoot,
      Inspected, RepairRoot, RepairPlanDir, Repaired, Inspect, RepairTemporary, RepairFile,
      RepairFails, Writing, Looks, At
    <3> USE <1>1, <3>2, <3>3 DEF At, Then, Report, Fine
    <3>4. CASE Ensure(p) \/ Open(p) \/ Fill(p) \/ Protect(p) \/ Rename(p)
      BY <3>4 DEF Ensure, Open, Fill, Protect, Rename, Writing
    <3>5. CASE Check(p) \/ WriteFails(p)
      BY <3>5 DEF Check, WriteFails
    <3>6. CASE InspectRoot(p)
      BY <3>6 DEF InspectRoot, RootNames
    <3>7. CASE Inspected(p)
      BY <3>7 DEF Inspected
    <3>8. CASE RepairRoot(p) \/ RepairPlanDir(p)
      BY <3>8 DEF RepairRoot, RepairPlanDir, Looks
    <3>9. CASE Repaired(p)
      BY <3>9 DEF Repaired, RootNames, Insecure
    <3>10. ASSUME NEW n \in todo[p], Inspect(p, n) PROVE <3>1!1
      <4>1. CASE Insecure(p)
        BY <4>1 DEF Insecure
      <4>2. CASE ~Insecure(p)
        <5>1. /\ pc[p] = "inspect" /\ n \notin loose /\ (n = PlanDir \/ Recognized(n))
              /\ todo' = [todo EXCEPT ![p] = (@ \ {n}) \cup IF n = PlanDir THEN PlanNames ELSE {}]
              /\ UNCHANGED <<pc, verdict, entries, loose>>
          BY <3>10, <4>2 DEF Inspect, Looks, Looked
        <5> QED BY <5>1 DEF PlanNames
      <4> QED BY <4>1, <4>2
    <3>11. ASSUME NEW n \in todo[p],
                  RepairTemporary(p, n) \/ RepairFile(p, n) \/ RepairFails(p, n)
           PROVE <3>1!1
      BY <3>11 DEF RepairTemporary, RepairFile, RepairFails, Insecure, Looks
    <3> QED BY <1>3, <3>4, <3>5, <3>6, <3>7, <3>8, <3>9, <3>10, <3>11 DEF Acts
  <2> QED BY <2>2, <2>3
<1> QED BY <1>2, <1>3

LEMMA StorageTyped ==
  ASSUME StorageTypeOK, Phases, Unused, NEW p \in Commands, Acts(p), Unused' PROVE StorageTypeOK'
<1>0. /\ system' = system /\ job' = job /\ meddled' = meddled
      /\ \A q \in Commands : Temporary(q)' = Temporary(q)
  BY DEF Temporary, Acts, Ensure, Open, Fill, Protect, Rename, Check, WriteFails,
    InspectRoot, Inspected, RepairRoot, RepairPlanDir, Repaired, Crash, Inspect, RepairTemporary,
    RepairFile, RepairFails, WriteKeeps, LookKeeps
<1>1. /\ job[p].op = "write" => job[p].file \in StoredFiles /\ Temporary(p) \in Temporaries
      /\ StoredFiles \subseteq Names /\ Temporaries \subseteq Names
      /\ RootNames \subseteq Names \cup {PlanDir} /\ PlanNames \subseteq Names \cup {PlanDir}
  BY TemporaryFacts DEF Names, RootNames, PlanNames, StorageTypeOK
<1>2. Disturb(p) \/ UNCHANGED alone
  BY DEF Acts, Ensure, Open, Fill, Protect, Rename, Check, WriteFails, InspectRoot,
      Inspected, RepairRoot, RepairPlanDir, Repaired, Crash, Inspect, RepairTemporary, RepairFile,
      RepairFails, Writing, Looks
<1>3. alone' \subseteq Commands
  BY <1>2 DEF Disturb, StorageTypeOK
<1>4. \A q \in Commands : verdict'[q] \notin {"none", "died"} => Temporary(q) \notin entries'
  BY <1>0 DEF Unused
<1> USE <1>0, <1>1, <1>3, <1>4 DEF StorageTypeOK, Phases, At, Then, Report, Forget, Writing,
  WriteKeeps, LookKeeps, Verdicts
<1>5. CASE Ensure(p)
  BY <1>5 DEF Ensure
<1>6. CASE Open(p)
  BY <1>6 DEF Open
<1>7. CASE Fill(p)
  BY <1>7 DEF Fill
<1>8. CASE Protect(p)
  BY <1>8 DEF Protect
<1>9. CASE Rename(p)
  <2>1. body[Temporary(p)] \in Commands \cup {Nobody, "torn"}
    BY <1>9 DEF Rename
  <2> QED BY <1>9, <2>1 DEF Rename
<1>10. CASE Check(p)
  BY <1>10 DEF Check
<1>11. CASE WriteFails(p)
  BY <1>11 DEF WriteFails
<1>12. CASE Crash(p)
  BY <1>12 DEF Crash
<1>13. CASE InspectRoot(p)
  BY <1>13 DEF InspectRoot
<1>14. CASE Inspected(p)
  BY <1>14 DEF Inspected
<1>15. CASE RepairRoot(p)
  BY <1>15 DEF RepairRoot
<1>16. CASE RepairPlanDir(p)
  BY <1>16 DEF RepairPlanDir, Looks, Looked
<1>17. CASE Repaired(p)
  BY <1>17 DEF Repaired, Insecure
<1>18. ASSUME NEW n \in todo[p], Inspect(p, n) PROVE StorageTypeOK'
  BY <1>18 DEF Inspect, Looks, Looked, Insecure
<1>19. ASSUME NEW n \in todo[p], RepairTemporary(p, n) PROVE StorageTypeOK'
  BY <1>19 DEF RepairTemporary, Looks, Looked
<1>20. ASSUME NEW n \in todo[p], RepairFile(p, n) PROVE StorageTypeOK'
  BY <1>20 DEF RepairFile, Looks, Looked
<1>21. ASSUME NEW n \in todo[p], RepairFails(p, n) PROVE StorageTypeOK'
  BY <1>21 DEF RepairFails, Insecure
<1> QED BY <1>5, <1>6, <1>7, <1>8, <1>9, <1>10, <1>11, <1>12, <1>13, <1>14, <1>15, <1>16,
  <1>17, <1>18, <1>19, <1>20, <1>21 DEF Acts

\* A plan is removed, or the access of an entry changed, by somebody else.
LEMMA OthersAct ==
  ASSUME StorageInv, (\E f \in PlanFiles : Discard(f))
                       \/ \E n \in Names \cup {Root, PlanDir} : Loosen(n)
  PROVE  StorageInv'
<1>1. /\ UNCHANGED <<system, body, job, pc, todo, listed, verdict, authors>>
      /\ alone' = alone \cap Unbegun /\ entries' \subseteq entries
      /\ loose' \subseteq Names \cup {Root, PlanDir} /\ meddled' \in BOOLEAN
      /\ ~meddled' => ~meddled /\ loose' \subseteq loose
  BY DEF Discard, Loosen, StorageInv, StorageTypeOK
<1>2. /\ \A q \in Commands : Temporary(q)' = Temporary(q)
      /\ Windows' = Windows /\ \A n : InRoot(n)' = InRoot(n)
  BY <1>1 DEF Temporary, Windows, InRoot, FileOf
<1> USE <1>1, <1>2 DEF StorageInv, StorageParts
<1>3. StorageTypeOK'
  BY DEF StorageTypeOK
<1>4. Phases' /\ Complete' /\ InPlace'
  BY DEF Phases, Complete, InPlace
<1>5. Unused'
  BY DEF Unused
<1>6. Private'
  BY DEF Private
<1>7. Cleaning'
  BY DEF Cleaning
<1>8. Inspecting'
  BY DEF Inspecting, Unbegun, At, Phases
<1> QED BY <1>3, <1>4, <1>5, <1>6, <1>7, <1>8

LEMMA StorageSteps == StorageInv /\ [StorageNext]_storageVars => StorageInv'
<1> SUFFICES ASSUME StorageInv, [StorageNext]_storageVars PROVE StorageInv'
  OBVIOUS
<1>1. CASE UNCHANGED storageVars
  BY <1>1 DEF storageVars, StorageInv, StorageParts, StorageTypeOK, Phases, Unused, Complete,
    Private, InPlace, Cleaning, Inspecting, Fine, Recognized, Windows, Temporary, InRoot, FileOf
<1>2. ASSUME NEW p \in Commands, Acts(p) PROVE StorageInv'
  BY <1>2, PhasesKept, FreshKept, CompleteKept, PrivateKept, InPlaceKept, CleaningKept,
    InspectingKept, StorageTyped DEF StorageInv, StorageParts
<1> QED BY <1>1, <1>2, OthersAct DEF StorageNext, Acts

LEMMA InvIsSound == StorageInv => StorageIsSound
<1> SUFFICES ASSUME StorageInv PROVE StorageIsSound
  OBVIOUS
<1> USE DEF StorageInv, StorageParts
<1>1. NeverTorn /\ NeverExposed /\ WrittenWasThere
  BY DEF Complete, Private, InPlace, NeverTorn, NeverExposed, WrittenWasThere
<1>2. RepairCleans
  BY DEF Cleaning, Phases, StorageTypeOK, RepairCleans
<1>3. SecureIsTrue
  <2>1. PlanDir \notin entries /\ alone \subseteq Commands
    BY StorageAssumption, NamesAssumption DEF StorageTypeOK, Names, Temporaries, StoredFiles
  <2> QED BY <2>1 DEF Inspecting, Fine, SecureIsTrue
<1> QED BY <1>1, <1>2, <1>3 DEF StorageIsSound

LEMMA AlwaysStorage == StorageSpec => []StorageInv
BY StorageStarts, StorageSteps, PTL DEF StorageSpec

\* The variables of the private files keep their types, for any files and
\* commands.
THEOREM StorageTypeCorrect == StorageSpec => []StorageTypeOK
<1>1. StorageInv => StorageTypeOK
  BY DEF StorageInv
<1> QED BY <1>1, AlwaysStorage, PTL

\* For any number of commands and files, under every interleaving of writes,
\* inspections, repairs and removals, and every crash: a file is never torn and
\* never readable by others unless somebody has made it so, what a write, a
\* repair or an inspection reports is true.
THEOREM StorageStaysSound == StorageSpec => []StorageIsSound
BY AlwaysStorage, InvIsSound, PTL

(***************************************************************************)
(* Named pipes on Windows (BootstrapSpec).  A command that has been given  *)
(* a descriptor and been disturbed by nothing finds, wherever it is, its   *)
(* own answer or another one of the same server in the file.               *)
(***************************************************************************)

\* Nothing is trusted for longer than MaxAge from the time it was asked for.
Dated ==
  /\ \A p \in Connectors : asked[p] # Nowhere => asked[p] <= clock
  /\ \A p \in Connectors : answer[p] # Nowhere => answer[p].expires <= clock + MaxAge
  /\ \A p \in Connectors :
       place[p] \in {"shake", "write", "look-back", "open-back"} => answer[p] # Nowhere
  /\ \A p \in Connectors : place[p] \in {"open", "open-back"} => descriptor # Nowhere
  /\ \A p \in Connectors : place[p] = "ask" => asked[p] # Nowhere

BootstrapInv == BootstrapTypeOK /\ Dated

LEMMA BootstrapStarts == BootstrapInit => BootstrapInv
<1> SUFFICES ASSUME BootstrapInit PROVE BootstrapInv
  OBVIOUS
<1>1. 0 \in 0 .. MaxRestarts /\ 0 \in 0 .. MaxClock
  BY BootstrapAssumption
<1>2. descriptor \in Files \cup {Nowhere}
  BY DEF BootstrapInit
<1>3. descriptor # Nowhere => descriptor.expires <= clock + MaxAge
  BY BootstrapAssumption DEF BootstrapInit
<1>4. BootstrapTypeOK
  BY <1>1, <1>2, <1>3 DEF BootstrapInit, BootstrapTypeOK, Ended
<1>5. Dated
  BY DEF BootstrapInit, Dated
<1> QED BY <1>4, <1>5 DEF BootstrapInv

\* A failure asks once, or ends the command.
LEMMA GiveTyped ==
  ASSUME BootstrapTypeOK, NEW p \in Connectors, NEW mendable \in BOOLEAN,
         Give(p, mendable) \/ Mend(p)
  PROVE  \E s \in {"ask", "failed"} :
           /\ place' = [place EXCEPT ![p] = s]
           /\ \/ asked' = asked /\ s = "failed"
              \/ asked' = [asked EXCEPT ![p] = clock] /\ asked[p] = Nowhere
BY DEF Give, Mend, Goes

LEMMA BootstrapSteps == BootstrapInv /\ [BootstrapNext]_bootstrapVars => BootstrapInv'
<1> SUFFICES ASSUME BootstrapInv, [BootstrapNext]_bootstrapVars PROVE BootstrapInv'
  OBVIOUS
<1> USE DEF BootstrapInv, Goes
<1>0. /\ MaxAge \in Nat /\ clock \in Nat /\ server \in Nat /\ MaxClock \in Nat /\ MaxRestarts \in Nat
      /\ clock \in 0 .. MaxClock /\ server \in 0 .. MaxRestarts
      /\ clock # Nowhere
  BY BootstrapAssumption, NowhereAssumption DEF BootstrapTypeOK
<1>1. ASSUME NEW p \in Connectors, Look(p) PROVE BootstrapInv'
  <2>0. /\ UNCHANGED <<server, clock, descriptor, answer, calm>>
        /\ place[p] \in {"look", "look-back"}
    BY <1>1 DEF Look
  <2>1. CASE \E m \in BOOLEAN : Give(p, m) /\ UNCHANGED seen
    <3>1. /\ \E s \in {"ask", "failed"} :
               /\ place' = [place EXCEPT ![p] = s]
               /\ (asked' = asked /\ s = "failed") \/ asked' = [asked EXCEPT ![p] = clock]
          /\ UNCHANGED seen
      BY <2>1, GiveTyped
    <3>2. BootstrapTypeOK'
      BY <1>0, <2>0, <3>1 DEF BootstrapTypeOK, Ended
    <3>3. Dated'
      BY <1>0, <2>0, <3>1 DEF BootstrapTypeOK, Dated, Ended
    <3> QED BY <3>2, <3>3
  <2>2. CASE /\ descriptor # Nowhere
             /\ seen' = [seen EXCEPT ![p] = descriptor.writer]
             /\ Goes(p, IF Back(p) THEN "open-back" ELSE "open") /\ UNCHANGED asked
    <3>0. descriptor.writer \in Connectors \cup {Old, Nowhere}
      BY <2>2 DEF BootstrapTypeOK, Files
    <3>1. BootstrapTypeOK'
      BY <1>0, <2>0, <2>2, <3>0 DEF BootstrapTypeOK, Ended, Back
    <3>2. Dated'
      BY <1>0, <2>0, <2>2 DEF BootstrapTypeOK, Dated, Ended, Back
    <3> QED BY <3>1, <3>2
  <2> QED BY <1>1, <2>1, <2>2 DEF Look
<1>2. ASSUME NEW p \in Connectors, OpenFile(p) PROVE BootstrapInv'
  <2>0. /\ UNCHANGED <<server, clock, descriptor, calm>>
        /\ seen' = [seen EXCEPT ![p] = Nowhere]
        /\ place[p] \in {"open", "open-back"} /\ descriptor \in Files /\ descriptor # Nowhere
        /\ descriptor.expires <= clock + MaxAge
    BY <1>2 DEF OpenFile, BootstrapTypeOK, Dated
  <2>1. CASE \E m \in BOOLEAN : Give(p, m) /\ UNCHANGED answer
    <3>1. /\ \E s \in {"ask", "failed"} :
               /\ place' = [place EXCEPT ![p] = s]
               /\ (asked' = asked /\ s = "failed") \/ asked' = [asked EXCEPT ![p] = clock]
          /\ UNCHANGED answer
      BY <2>1, GiveTyped
    <3>2. BootstrapTypeOK'
      BY <1>0, <2>0, <3>1 DEF BootstrapTypeOK, Ended
    <3>3. Dated'
      BY <1>0, <2>0, <3>1 DEF BootstrapTypeOK, Dated, Ended
    <3> QED BY <3>2, <3>3
  <2>2. CASE /\ Goes(p, IF Same(descriptor, answer[p]) THEN "look" ELSE "failed")
             /\ UNCHANGED <<asked, answer>>
    <3>1. BootstrapTypeOK'
      BY <1>0, <2>0, <2>2 DEF BootstrapTypeOK, Ended
    <3>2. Dated'
      BY <1>0, <2>0, <2>2 DEF BootstrapTypeOK, Dated, Ended
    <3> QED BY <3>1, <3>2
  <2>3. CASE /\ Usable(descriptor, clock)
             /\ answer' = [answer EXCEPT ![p] = Inside(descriptor)]
             /\ Goes(p, "shake") /\ UNCHANGED asked
    <3>0. /\ Inside(descriptor) \in Descriptors
          /\ Inside(descriptor).expires = descriptor.expires
      BY <2>0, <2>3 DEF Inside, Files, Descriptors, Usable
    <3>4. Inside(descriptor) # Nowhere
      BY <3>0, NowhereAssumption
    <3>1. BootstrapTypeOK'
      BY <1>0, <2>0, <2>3, <3>0 DEF BootstrapTypeOK, Ended
    <3>2. Dated'
      BY <1>0, <2>0, <2>3, <3>0, <3>4 DEF BootstrapTypeOK, Dated, Ended
    <3> QED BY <3>1, <3>2
  <2> QED BY <1>2, <2>1, <2>2, <2>3 DEF OpenFile
<1>3. ASSUME NEW p \in Connectors, Shake(p) PROVE BootstrapInv'
  <2>0. UNCHANGED <<server, clock, descriptor, seen, answer, calm>>
    BY <1>3 DEF Shake
  <2>1. \E s \in {"ask", "failed", "connected"} :
          /\ place' = [place EXCEPT ![p] = s]
          /\ (asked' = asked /\ s # "ask") \/ asked' = [asked EXCEPT ![p] = clock]
    BY <1>3 DEF Shake, Mend
  <2>2. BootstrapTypeOK'
    BY <1>0, <2>0, <2>1 DEF BootstrapTypeOK, Ended
  <2>3. Dated'
    BY <1>0, <2>0, <2>1 DEF BootstrapTypeOK, Dated, Ended
  <2> QED BY <2>2, <2>3
<1>4. ASSUME NEW p \in Connectors, AskFails(p) \/ Refuse(p) PROVE BootstrapInv'
  <2>1. BootstrapTypeOK'
    BY <1>4 DEF AskFails, Refuse, BootstrapTypeOK, Ended
  <2>2. Dated'
    BY <1>4 DEF AskFails, Refuse, BootstrapTypeOK, Dated, Ended
  <2> QED BY <2>1, <2>2
<1>5. ASSUME NEW p \in Connectors, Ask(p) PROVE BootstrapInv'
  <2>0. /\ UNCHANGED <<server, clock, descriptor, asked, seen>> /\ place[p] = "ask"
    BY <1>5 DEF Ask
  <2>1. CASE Goes(p, "failed") /\ UNCHANGED <<answer, calm>>
    <3>1. BootstrapTypeOK'
      BY <2>0, <2>1 DEF BootstrapTypeOK, Ended
    <3>2. Dated'
      BY <2>0, <2>1 DEF BootstrapTypeOK, Dated, Ended
    <3> QED BY <3>1, <3>2
  <2>2. ASSUME NEW expires \in Times, NEW d, d = [instance |-> server, expires |-> expires],
               Admitted(d, asked[p]), answer' = [answer EXCEPT ![p] = d],
               calm' = [calm EXCEPT ![p] = expires > clock], Goes(p, "write")
        PROVE  BootstrapInv'
    <3>1. d \in Descriptors /\ d # Nowhere /\ d.expires = expires /\ expires \in Nat
      BY <1>0, <2>2, NowhereAssumption DEF Descriptors, BootstrapTypeOK, Times
    <3>4. asked[p] # Nowhere /\ asked[p] \in Nat /\ asked[p] <= clock
      BY <1>0, <2>0 DEF Dated, BootstrapTypeOK
    <3>2. BootstrapTypeOK'
      BY <1>0, <2>0, <2>2, <3>1, <3>4 DEF BootstrapTypeOK, Ended
    <3>3. Dated'
      BY <1>0, <2>0, <2>2, <3>1, <3>4 DEF BootstrapTypeOK, Dated, Ended, Admitted
    <3> QED BY <3>2, <3>3
  <2> QED BY <1>5, <2>1, <2>2 DEF Ask
<1>6. ASSUME NEW p \in Connectors, Write(p) PROVE BootstrapInv'
  <2>0. /\ UNCHANGED <<server, clock, asked, seen, answer>> /\ place[p] = "write"
        /\ answer[p] # Nowhere /\ asked[p] # Nowhere
        /\ answer[p] \in Descriptors
        /\ answer[p].expires <= clock + MaxAge
    BY <1>6 DEF Write, Dated, BootstrapTypeOK
  <2>3. calm' \in [Connectors -> BOOLEAN]
    BY <1>6 DEF Write, BootstrapTypeOK
  <2>1. CASE Goes(p, "failed") /\ UNCHANGED descriptor
    <3>1. BootstrapTypeOK'
      BY <2>0, <2>1, <2>3 DEF BootstrapTypeOK, Ended
    <3>2. Dated'
      BY <2>0, <2>1 DEF BootstrapTypeOK, Dated, Ended
    <3> QED BY <3>1, <3>2
  <2>2. CASE /\ descriptor' = [writer |-> p, secure |-> TRUE, instance |-> answer[p].instance,
                               expires |-> answer[p].expires]
             /\ Goes(p, "look-back")
    <3>4. descriptor' \in Files /\ descriptor'.expires = answer[p].expires
      BY <2>0, <2>2 DEF Files, Descriptors
    <3>1. descriptor' \in Files /\ descriptor' # Nowhere /\ descriptor'.expires = answer[p].expires
      BY <3>4, NowhereAssumption
    <3>2. BootstrapTypeOK'
      BY <1>0, <2>0, <2>2, <2>3, <3>1 DEF BootstrapTypeOK, Ended
    <3>3. Dated'
      BY <1>0, <2>0, <2>2, <3>1 DEF BootstrapTypeOK, Dated, Ended
    <3> QED BY <3>2, <3>3
  <2> QED BY <1>6, <2>1, <2>2 DEF Write
<1>7. ASSUME NEW p \in Connectors, Cancel(p) PROVE BootstrapInv'
  <2>1. BootstrapTypeOK'
    BY <1>7 DEF Cancel, BootstrapTypeOK, Ended
  <2>2. Dated'
    BY <1>7 DEF Cancel, BootstrapTypeOK, Dated, Ended
  <2> QED BY <2>1, <2>2
<1>8. CASE Restart
  <2>1. BootstrapTypeOK'
    BY <1>0, <1>8 DEF Restart, BootstrapTypeOK, Ended
  <2>2. Dated'
    BY <1>8 DEF Restart, BootstrapTypeOK, Dated, Ended
  <2> QED BY <2>1, <2>2
<1>9. CASE Tick
  <2>0. /\ UNCHANGED <<server, descriptor, place, asked, seen, answer>>
        /\ clock' = clock + 1 /\ clock' \in 0 .. MaxClock
        /\ calm' \in [Connectors -> BOOLEAN]
    BY <1>0, <1>9 DEF Tick, BootstrapTypeOK
  <2>3. descriptor # Nowhere => descriptor.expires \in Nat
    BY BootstrapAssumption DEF BootstrapTypeOK, Files, Times
  <2>4. \A p \in Connectors : answer[p] # Nowhere => answer[p].expires \in Nat
    BY BootstrapAssumption DEF BootstrapTypeOK, Descriptors, Times
  <2>5. \A p \in Connectors : asked[p] # Nowhere => asked[p] \in Nat
    BY DEF BootstrapTypeOK
  <2>1. BootstrapTypeOK'
    BY <1>0, <2>0, <2>3 DEF BootstrapTypeOK, Ended
  <2>2. Dated'
    BY <1>0, <2>0, <2>4, <2>5 DEF Dated
  <2> QED BY <2>1, <2>2
<1>10. CASE UNCHANGED bootstrapVars
  <2>1. BootstrapTypeOK'
    BY <1>10 DEF bootstrapVars, BootstrapTypeOK
  <2>2. Dated'
    BY <1>10 DEF bootstrapVars, Dated
  <2> QED BY <2>1, <2>2
<1> QED
  BY <1>1, <1>2, <1>3, <1>4, <1>5, <1>6, <1>7, <1>8, <1>9, <1>10 DEF BootstrapNext

\* No descriptor is ever trusted for longer than MaxAge from when it was asked
\* for, and only a command that has asked writes one.
THEOREM BootstrapTypeCorrect == BootstrapSpec => []BootstrapTypeOK
<1>1. BootstrapInv => BootstrapTypeOK
  BY DEF BootstrapInv
<1> QED BY BootstrapStarts, BootstrapSteps, <1>1, PTL DEF BootstrapSpec

\* What a command that is still calm will find.
Calm(p) ==
  calm[p] =>
    /\ place[p] \in {"write", "look-back", "open-back", "look", "open", "shake", "connected"}
    /\ answer[p] # Nowhere /\ answer[p].instance = server /\ answer[p].expires > clock
    /\ place[p] \in {"look-back", "open-back", "look", "open"} =>
         /\ descriptor # Nowhere /\ descriptor.secure
         /\ descriptor.instance = server /\ descriptor.expires > clock
    /\ place[p] \in {"open", "open-back"} => seen[p] = descriptor.writer

CalmInv == \A p \in Connectors : Calm(p)

LEMMA CalmSteps == BootstrapInv /\ CalmInv /\ [BootstrapNext]_bootstrapVars => CalmInv'
<1> SUFFICES ASSUME BootstrapInv, CalmInv, [BootstrapNext]_bootstrapVars,
                    NEW q \in Connectors, calm'[q]
             PROVE  Calm(q)'
  BY DEF CalmInv, Calm
<1> USE DEF Goes, Calm
<1>0. /\ BootstrapTypeOK /\ Dated /\ Calm(q)
      /\ clock \in Nat /\ server \in Nat /\ server # Nowhere
  BY BootstrapAssumption, NowhereAssumption DEF BootstrapInv, BootstrapTypeOK, CalmInv
<1>1. ASSUME NEW p \in Connectors, Look(p) PROVE Calm(q)'
  <2>1. /\ UNCHANGED <<server, clock, descriptor, answer, calm>>
        /\ \E s : place' = [place EXCEPT ![p] = s]
        /\ \A r \in Connectors : r # p => seen'[r] = seen[r]
    BY <1>0, <1>1 DEF Look, Give, Mend, BootstrapTypeOK
  <2>2. CASE q = p
    <3>1. /\ seen' = [seen EXCEPT ![p] = descriptor.writer]
          /\ place' = [place EXCEPT ![p] = IF Back(p) THEN "open-back" ELSE "open"]
      BY <1>0, <1>1, <2>1, <2>2 DEF Look
    <3>2. place[p] \in {"look", "look-back"}
      BY <1>1 DEF Look
    <3> QED BY <1>0, <2>1, <2>2, <3>1, <3>2 DEF BootstrapTypeOK, Back
  <2>3. CASE q # p
    BY <1>0, <2>1, <2>3 DEF BootstrapTypeOK
  <2> QED BY <2>2, <2>3
<1>2. ASSUME NEW p \in Connectors, OpenFile(p) PROVE Calm(q)'
  <2>1. /\ UNCHANGED <<server, clock, descriptor, calm>>
        /\ \E s : place' = [place EXCEPT ![p] = s]
        /\ \A r \in Connectors : r # p => seen'[r] = seen[r] /\ answer'[r] = answer[r]
    BY <1>0, <1>2 DEF OpenFile, Give, Mend, BootstrapTypeOK
  <2>2. CASE q = p
    <3>1. /\ descriptor.writer = seen[p] /\ Usable(descriptor, clock)
          /\ descriptor.instance = server /\ descriptor.expires > clock
          /\ place[p] \in {"open", "open-back"}
      BY <1>0, <1>2, <2>1, <2>2 DEF OpenFile, Usable
    <3>2. CASE Back(p)
      <4>1. /\ place' = [place EXCEPT ![p] = "look"] /\ UNCHANGED answer
        BY <1>0, <1>2, <2>1, <2>2, <3>1, <3>2 DEF OpenFile, Same
      <4> QED BY <1>0, <2>1, <2>2, <3>1, <4>1 DEF BootstrapTypeOK
    <3>3. CASE ~Back(p)
      <4>1. /\ place' = [place EXCEPT ![p] = "shake"]
            /\ answer' = [answer EXCEPT ![p] = Inside(descriptor)]
        BY <1>2, <3>1, <3>3 DEF OpenFile
      <4>2. /\ Inside(descriptor).instance = server /\ Inside(descriptor).expires > clock
            /\ Inside(descriptor) \in Descriptors
        BY <1>0, <2>1, <2>2, <3>1 DEF Inside, Descriptors, BootstrapTypeOK, Files
      <4>3. Inside(descriptor) # Nowhere
        BY <4>2, NowhereAssumption
      <4> QED BY <1>0, <2>1, <2>2, <4>1, <4>2, <4>3 DEF BootstrapTypeOK
    <3> QED BY <3>2, <3>3
  <2>3. CASE q # p
    BY <1>0, <2>1, <2>3 DEF BootstrapTypeOK
  <2> QED BY <2>2, <2>3
<1>3. ASSUME NEW p \in Connectors, Shake(p) PROVE Calm(q)'
  <2>1. /\ UNCHANGED <<server, clock, descriptor, seen, answer, calm>>
        /\ \E s : place' = [place EXCEPT ![p] = s]
        /\ p = q => place' = [place EXCEPT ![p] = "connected"]
    BY <1>0, <1>3 DEF Shake, Mend
  <2> QED BY <1>0, <2>1 DEF BootstrapTypeOK
<1>4. ASSUME NEW p \in Connectors, AskFails(p) \/ Refuse(p) PROVE Calm(q)'
  BY <1>0, <1>4 DEF AskFails, Refuse, BootstrapTypeOK
<1>5. ASSUME NEW p \in Connectors, Ask(p) PROVE Calm(q)'
  <2>1. /\ UNCHANGED <<server, clock, descriptor, asked, seen>> /\ place[p] = "ask"
        /\ \A r \in Connectors : r # p =>
             place'[r] = place[r] /\ answer'[r] = answer[r] /\ calm'[r] = calm[r]
    BY <1>0, <1>5 DEF Ask, BootstrapTypeOK
  <2>2. CASE q = p
    <3>1. PICK expires \in Times :
            /\ answer' = [answer EXCEPT ![p] = [instance |-> server, expires |-> expires]]
            /\ calm' = [calm EXCEPT ![p] = expires > clock]
            /\ place' = [place EXCEPT ![p] = "write"]
      BY <1>0, <1>5, <2>1, <2>2 DEF Ask
    <3>2. [instance |-> server, expires |-> expires] # Nowhere
      BY <1>0, NowhereAssumption DEF Descriptors, BootstrapTypeOK
    <3>3. expires > clock
      BY <1>0, <2>2, <3>1 DEF BootstrapTypeOK
    <3> QED BY <1>0, <2>1, <2>2, <3>1, <3>2, <3>3 DEF BootstrapTypeOK
  <2>3. CASE q # p
    BY <1>0, <2>1, <2>3
  <2> QED BY <2>2, <2>3
<1>6. ASSUME NEW p \in Connectors, Write(p) PROVE Calm(q)'
  <2>0. /\ UNCHANGED <<server, clock, asked, seen, answer>> /\ place[p] = "write"
        /\ answer[p] \in Descriptors
    BY <1>0, <1>6 DEF Write, Dated, BootstrapTypeOK
  <2>1. CASE /\ calm' = [calm EXCEPT ![p] = FALSE]
             /\ Goes(p, "failed") /\ UNCHANGED descriptor
    BY <1>0, <2>0, <2>1 DEF BootstrapTypeOK
  <2>2. CASE /\ descriptor' = [writer |-> p, secure |-> TRUE, instance |-> answer[p].instance,
                               expires |-> answer[p].expires]
             /\ calm' = [r \in Connectors |->
                  calm[r] /\ seen[r] = Nowhere /\ answer[p].instance = server
                    /\ answer[p].expires > clock]
             /\ Goes(p, "look-back")
    <3>1. calm[q] /\ seen[q] = Nowhere /\ answer[p].instance = server /\ answer[p].expires > clock
      BY <2>2
    <3>2. /\ descriptor' \in Files /\ descriptor'.secure /\ descriptor'.instance = server
          /\ descriptor'.expires > clock
      BY <2>0, <2>2, <3>1 DEF Files, Descriptors
    <3>3. descriptor' # Nowhere
      BY <3>2, NowhereAssumption
    <3>4. place[q] \notin {"open", "open-back"}
      <4>1. descriptor # Nowhere => descriptor.writer \in Connectors \cup {Old}
        BY <1>0 DEF BootstrapTypeOK, Files
      <4> QED BY <1>0, <3>1, <4>1, BootstrapAssumption
    <3> QED BY <1>0, <2>0, <2>2, <3>1, <3>2, <3>3, <3>4 DEF BootstrapTypeOK
  <2> QED BY <1>6, <2>1, <2>2 DEF Write
<1>7. ASSUME NEW p \in Connectors, Cancel(p) PROVE Calm(q)'
  BY <1>0, <1>7 DEF Cancel, BootstrapTypeOK
<1>8. CASE Restart
  BY <1>8 DEF Restart
<1>9. CASE Tick
  BY <1>0, <1>9 DEF Tick
<1>10. CASE UNCHANGED bootstrapVars
  BY <1>0, <1>10 DEF bootstrapVars
<1> QED
  BY <1>1, <1>2, <1>3, <1>4, <1>5, <1>6, <1>7, <1>8, <1>9, <1>10 DEF BootstrapNext

\* Whichever commands start at the same time, each asking for a descriptor and
\* each replacing the file with its own: one that has been given a descriptor
\* and is disturbed by nothing connects, as no answer of the server that runs
\* can end it.
THEOREM ColdStartsAlwaysConnect == BootstrapSpec => []ColdStartsConnect
<1>1. BootstrapInit => CalmInv
  BY DEF BootstrapInit, CalmInv, Calm
<1>2. CalmInv => ColdStartsConnect
  BY DEF CalmInv, Calm, ColdStartsConnect
<1> QED BY BootstrapStarts, BootstrapSteps, CalmSteps, <1>1, <1>2, PTL DEF BootstrapSpec

(***************************************************************************)
(* Side by side (ProfileSpec).                                             *)
(***************************************************************************)

\* What MCProfile explores are behaviours of the four specifications, so that
\* every theorem about one of them holds there too.
THEOREM ProfileImplementsParts ==
  ProfileSpec => Spec /\ ConfigSpec /\ StorageSpec /\ BootstrapSpec
<1> DEFINE SomePart ==
      \/ /\ Exercise("identity") /\ Next
         /\ UNCHANGED <<configVars, storageVars, bootstrapVars>>
      \/ /\ Exercise("config") /\ ConfigNext
         /\ UNCHANGED <<vars, storageVars, bootstrapVars>>
      \/ /\ Exercise("storage") /\ StorageNext
         /\ UNCHANGED <<vars, configVars, bootstrapVars>>
      \/ /\ Exercise("bootstrap") /\ BootstrapNext
         /\ UNCHANGED <<vars, configVars, storageVars>>
<1>1. ProfileInit => Init /\ ConfigInit /\ StorageInit /\ BootstrapInit
  BY DEF ProfileInit
<1>2. [SomePart]_<<about, profileVars>>
        => [Next]_vars /\ [ConfigNext]_configVars /\ [StorageNext]_storageVars
           /\ [BootstrapNext]_bootstrapVars
  BY DEF profileVars
<1>3. ProfileSpec <=> ProfileInit /\ [][SomePart]_<<about, profileVars>>
  BY DEF ProfileSpec
<1> HIDE DEF SomePart
<1> QED BY <1>1, <1>2, <1>3, PTL DEF Spec, ConfigSpec, StorageSpec, BootstrapSpec

\* The variables of all four keep their types.
THEOREM ProfileTypeCorrect == ProfileSpec => []ProfileTypeOK
<1>1. TypeOK /\ ConfigTypeOK /\ StorageTypeOK /\ BootstrapTypeOK => ProfileTypeOK
  BY DEF ProfileTypeOK
<1> QED BY <1>1, ProfileImplementsParts, IdentityTypeCorrect, ConfigTypeCorrect,
           StorageTypeCorrect, BootstrapTypeCorrect, PTL
=============================================================================
