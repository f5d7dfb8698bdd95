------------------------------- MODULE Config -------------------------------
(***************************************************************************)
(* Vault profiles of src/src/config.ts: commands that read the file,       *)
(* change it and write it back as a whole, with questions to the user in   *)
(* between (runSetup of command-line.ts), and commands that resolve a      *)
(* vault from it and assert, before they act, that nothing has changed.    *)
(*                                                                         *)
(* A path is the sequence of its segments.                                 *)
(***************************************************************************)
EXTENDS Naturals, FiniteSets, SequencesExt

CONSTANTS
  Shells,   \* processes, each runs one command
  Profiles, \* profile names
  Vaults,   \* paths of directories with the Operon plugin
  Cwds,     \* working directories
  Unset

ASSUME ConfigAssumption == Unset \notin Profiles \cup Vaults \cup Cwds \cup Shells
ASSUME PathAssumption == Vaults \cup Cwds \subseteq Seq(STRING)

VARIABLES
  config,  \* what config-v1.json holds
  stamp,   \* its fingerprint; 0 without the file
  folder,  \* the directory at each vault's path: its inode number, 0 if gone
  command, \* each process's command
  step,    \* what it does next
  read,    \* the configuration it has loaded
  before,  \* fingerprints before and after it loaded
  after,
  scope,   \* the path and the inode it has resolved
  stale,   \* history: a configuration was saved that was made of an older one
  ledger   \* history: the profiles set up and not removed

configVars == <<config, stamp, folder, command, step, read, before, after, scope,
                stale, ledger>>

Configs == [default : Profiles \cup {Unset}, path : [Profiles -> Vaults \cup {Unset}]]
Named(c) == {n \in Profiles : c.path[n] # Unset}
ASSUME UnsetAssumption == Unset \notin Configs \cup [path : Vaults, inode : Nat]

\* What AlwaysReadable promises of the file.
Readable(c) ==
  /\ c.default # Unset => c.path[c.default] # Unset
  /\ \A m, n \in Profiles :
       Unset \notin {c.path[m], c.path[n]} /\ c.path[m] # c.path[n] =>
         Last(c.path[m]) # Last(c.path[n])

\* platformBasenameV1: the name Obsidian knows a vault by.
TransportName(path) == Last(path)

\* assertUniqueTransportVaultNames
Unambiguous(c) ==
  \A m, n \in Named(c) :
    TransportName(c.path[m]) = TransportName(c.path[n]) => c.path[m] = c.path[n]

\* Mutant of Decodes: only names are compared.
DecodesNames(c) == c.default # Unset => c.default \in Named(c)

\* decodeConfig
Decodes(c) == Unambiguous(c) /\ (c.default # Unset => c.default \in Named(c))

(***************************************************************************)
(* Updates; Unset stands for an error                                      *)
(***************************************************************************)

Upsert(c, n, path, makeDefault) ==
  LET next == [c EXCEPT !.path[n] = path]
      first == Named(next) = {n}
      result == IF makeDefault \/ first THEN [next EXCEPT !.default = n] ELSE next
  IN IF Decodes(result) THEN result ELSE Unset

Removed(c, n) ==
  IF n \notin Named(c) THEN Unset
  ELSE [default |-> IF c.default = n THEN Unset ELSE c.default,
        path |-> [c.path EXCEPT ![n] = Unset]]

Default(c, n) == IF n \in Named(c) THEN [c EXCEPT !.default = n] ELSE Unset

(***************************************************************************)
(* resolveVaultV1                                                          *)
(***************************************************************************)

\* isPlatformPathWithinV1
Within(parent, path) == IsPrefix(parent, path)

\* The profile of the innermost vault around cwd; none if two are as near.
Nearest(c, cwd) ==
  LET matching == {n \in Named(c) : Within(c.path[n], cwd)} IN
  {n \in matching : \A m \in matching \ {n} : Len(c.path[n]) > Len(c.path[m])}

\* resolvedProfile; a vault that has moved is refused.
Located(c, n) == IF n \in Named(c) /\ folder[c.path[n]] # 0 THEN c.path[n] ELSE Unset

Resolve(c, vault, profile, cwd) ==
  LET around == {n \in Named(c) : cwd # Unset /\ Within(c.path[n], cwd)} IN
  CASE ~Unambiguous(c) -> Unset
    [] Unambiguous(c) /\ vault # Unset -> IF folder[vault] # 0 THEN vault ELSE Unset
    [] Unambiguous(c) /\ vault = Unset /\ profile # Unset -> Located(c, profile)
    [] OTHER ->
         IF around # {} THEN IF Nearest(c, cwd) = {} THEN Unset
                             ELSE Located(c, CHOOSE n \in Nearest(c, cwd) : TRUE)
         ELSE IF c.default # Unset THEN Located(c, c.default)
         ELSE IF Cardinality(Named(c)) = 1 THEN Located(c, CHOOSE n \in Named(c) : TRUE)
         ELSE Unset

ProfileCommands == [kind : {"setup"}, name : Profiles, vault : Vaults, default : BOOLEAN]
              \cup [kind : {"default", "remove"}, name : Profiles]
              \cup [kind : {"run"}, vault : Vaults, profile : {Unset}, cwd : {Unset}]
              \cup [kind : {"run"}, vault : {Unset}, profile : Profiles, cwd : {Unset}]
              \cup [kind : {"run"}, vault : {Unset}, profile : {Unset}, cwd : Cwds]

Target(p, c) == Resolve(c, command[p].vault, command[p].profile, command[p].cwd)

ConfigInit ==
  /\ config \in {c \in Configs : Readable(c)}
  /\ stamp = IF Named(config) = {} THEN 0 ELSE 1
  /\ folder = [v \in Vaults |-> 1]
  /\ command \in [Shells -> ProfileCommands]
  /\ step = [p \in Shells |-> IF command[p].kind = "run" THEN "before" ELSE "load"]
  /\ read = [p \in Shells |-> Unset]
  /\ before = [p \in Shells |-> 0] /\ after = [p \in Shells |-> 0]
  /\ scope = [p \in Shells |-> Unset]
  /\ stale = FALSE /\ ledger = config.path

Turn(p, s, t) == step[p] = s /\ step' = [step EXCEPT ![p] = t]

\* The command ends, and what it knows is gone with it.
Over(p) ==
  /\ read' = [read EXCEPT ![p] = Unset] /\ scope' = [scope EXCEPT ![p] = Unset]
  /\ before' = [before EXCEPT ![p] = 0] /\ after' = [after EXCEPT ![p] = 0]
Unwritten == UNCHANGED <<config, stamp, folder, command, stale, ledger>>

(***************************************************************************)
(* setup, profile default, profile remove                                  *)
(***************************************************************************)

LoadToChange(p) ==
  /\ Turn(p, "load", "save")
  /\ read' = [read EXCEPT ![p] = config] /\ before' = [before EXCEPT ![p] = stamp]
  /\ UNCHANGED <<after, scope>> /\ Unwritten

\* setup validates the vault and its plugin first.
Changed(p) ==
  LET c == command[p] IN
  CASE c.kind = "setup" -> IF folder[c.vault] = 0 THEN Unset
                           ELSE Upsert(read[p], c.name, c.vault, c.default)
    [] c.kind = "default" -> Default(read[p], c.name)
    [] c.kind = "remove" -> Removed(read[p], c.name)

\* saveOperonCliConfigV1 decodes once more what it writes.
Save(p) ==
  /\ Turn(p, "save", "end")
  /\ IF Changed(p) = Unset \/ ~Decodes(Changed(p))
       THEN UNCHANGED <<config, stamp, stale, ledger>>
     ELSE /\ config' = Changed(p) /\ stamp' = stamp + 1
          /\ stale' = (stale \/ before[p] # stamp)
          /\ ledger' = CASE command[p].kind = "setup" ->
                              [ledger EXCEPT ![command[p].name] = command[p].vault]
                         [] command[p].kind = "remove" ->
                              [ledger EXCEPT ![command[p].name] = Unset]
                         [] OTHER -> ledger
  /\ Over(p) /\ UNCHANGED <<folder, command>>

(***************************************************************************)
(* createResolvedVaultCommandScopeV1, assertResolvedVaultCommandScopeV1    *)
(***************************************************************************)

Before(p) ==
  /\ Turn(p, "before", "read")
  /\ before' = [before EXCEPT ![p] = stamp]
  /\ UNCHANGED <<read, after, scope>> /\ Unwritten

Load(p) ==
  /\ Turn(p, "read", "after")
  /\ read' = [read EXCEPT ![p] = config]
  /\ UNCHANGED <<before, after, scope>> /\ Unwritten

\* Mutant of After: the two fingerprints are not compared.
AfterOnly(p) ==
  /\ Turn(p, "after", "resolve")
  /\ after' = [after EXCEPT ![p] = stamp]
  /\ UNCHANGED <<read, before, scope>> /\ Unwritten

After(p) ==
  /\ \/ /\ Turn(p, "after", "resolve") /\ before[p] = stamp
        /\ after' = [after EXCEPT ![p] = stamp] /\ UNCHANGED <<read, before, scope>>
     \/ Turn(p, "after", "end") /\ before[p] # stamp /\ Over(p)
  /\ Unwritten

\* The vault, and the fence: the inode of its directory.
Scope(p) ==
  LET path == Target(p, read[p]) IN
  /\ \/ /\ Turn(p, "resolve", "assert") /\ path # Unset
        /\ scope' = [scope EXCEPT ![p] = [path |-> path, inode |-> folder[path]]]
        /\ UNCHANGED <<read, before, after>>
     \/ Turn(p, "resolve", "end") /\ path = Unset /\ Over(p)
  /\ Unwritten

\* An assertion looks at the directory first, then at the configuration; what
\* has changed ends the command.
AssertFence(p) ==
  LET same == folder[scope[p].path] = scope[p].inode IN
  /\ \/ Turn(p, "assert", "compare") /\ same /\ UNCHANGED <<read, before, after, scope>>
     \/ Turn(p, "assert", "end") /\ ~same /\ Over(p)
  /\ Unwritten

AssertConfig(p) ==
  /\ \/ Turn(p, "compare", "act") /\ stamp = after[p] /\ UNCHANGED <<read, before, after, scope>>
     \/ Turn(p, "compare", "end") /\ stamp # after[p] /\ Over(p)
  /\ Unwritten

\* The command goes on, and asserts again before it stores a plan.
Again(p) ==
  /\ Turn(p, "act", "assert")
  /\ UNCHANGED <<read, before, after, scope>> /\ Unwritten

\* A vault is moved away, and perhaps another directory put in its place; this
\* happens to one vault of a behaviour.
MoveVault(v) ==
  /\ folder[v] < 2 /\ \A w \in Vaults \ {v} : folder[w] = 1
  /\ folder' = [folder EXCEPT ![v] = IF @ = 0 THEN 2 ELSE 0]
  /\ UNCHANGED <<config, stamp, command, step, read, before, after, scope, stale, ledger>>

ConfigNext ==
  \/ \E p \in Shells : \/ LoadToChange(p) \/ Save(p) \/ Before(p) \/ Load(p) \/ After(p)
                       \/ Scope(p) \/ AssertFence(p) \/ AssertConfig(p) \/ Again(p)
  \/ \E v \in Vaults : MoveVault(v)

ConfigSpec == ConfigInit /\ [][ConfigNext]_configVars

(***************************************************************************)
(* Properties                                                              *)
(***************************************************************************)

\* The variables keep their types; in particular what a command has resolved is
\* a directory that was there.
ConfigTypeOK ==
  /\ config \in Configs
  /\ stamp \in Nat
  /\ folder \in [Vaults -> 0 .. 2]
  /\ command \in [Shells -> ProfileCommands]
  /\ step \in [Shells -> {"load", "save", "before", "read", "after", "resolve", "assert",
                          "compare", "act", "end"}]
  /\ read \in [Shells -> Configs \cup {Unset}]
  /\ before \in [Shells -> Nat] /\ after \in [Shells -> Nat]
  /\ scope \in [Shells -> [path : Vaults, inode : 1 .. 2] \cup {Unset}]
  /\ stale \in BOOLEAN
  /\ ledger \in [Profiles -> Vaults \cup {Unset}]

\* No sequence or interleaving of setups, defaults and removals writes a file
\* that every later command would refuse: its default exists, and no two of
\* its vaults share the name by which Obsidian selects one.
AlwaysReadable == Readable(config)

\* When a command goes on to act on a vault, the configuration in force then
\* resolves its arguments to that vault, whatever was saved meanwhile, and the
\* directory was the one it has resolved when the assertion began; a vault moved
\* between the two checks of an assertion is not noticed.
ActsOnItsTarget ==
  \A p \in Shells :
    /\ step[p] = "assert" /\ step'[p] = "compare" =>
         folder[scope[p].path] = scope[p].inode
    /\ step[p] = "compare" /\ step'[p] = "act" /\ folder[scope[p].path] = scope[p].inode =>
         Target(p, config) = scope[p].path

\* A command without explicit target acts on the innermost registered vault
\* around its working directory, and on another one only outside of all.
InnermostVault ==
  \A p \in Shells : step[p] = "act" /\ command[p].cwd # Unset =>
    LET around == {n \in Named(read[p]) : Within(read[p].path[n], command[p].cwd)} IN
    around = {} \/ /\ Within(scope[p].path, command[p].cwd)
                   /\ \A n \in around : Len(read[p].path[n]) <= Len(scope[p].path)

\* As long as no command saves what it made of an older file, every profile
\* that was set up is there until it is removed.
ProfilesAreKept == ~stale => config.path = ledger

\* The configuration stays readable and keeps what was saved in it.
ConfigIsSound == AlwaysReadable /\ ProfilesAreKept

\* A command acts on the vault its arguments, or its working directory, mean.
VaultIsMeant == [][ActsOnItsTarget /\ InnermostVault']_configVars
=============================================================================
