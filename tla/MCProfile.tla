----------------------------- MODULE MCProfile ------------------------------
(***************************************************************************)
(* The private directory and its files side by side: `about' says which of *)
(* the four modules a behaviour exercises, the others stay in one of their *)
(* initial states.                                                         *)
(***************************************************************************)
EXTENDS ClientIdentity, Config, SecureStorage, WindowsBootstrap, TLC

VARIABLE about

profileVars == <<vars, configVars, storageVars, bootstrapVars>>

Exercise(name) == about = name /\ UNCHANGED about

\* One fixed initial state for each module that is not exercised.
IdentityRests == legacy = None
ConfigRests ==
  config.default = Unset /\ config.path = [n \in Profiles |-> Unset]
    /\ \A p \in Shells :
         command[p] = [kind |-> "run", vault |-> Unset, profile |-> Unset, cwd |-> <<"a", "y">>]
StorageRests ==
  /\ system = "posix-mode" /\ entries = StoredFiles
  /\ job = [p \in Commands |-> [op |-> "inspect", file |-> Nobody]]

BootstrapRests == descriptor = Nowhere

ProfileInit ==
  /\ about \in {"identity", "config", "storage", "bootstrap"}
  /\ Init /\ (about # "identity" => IdentityRests)
  /\ ConfigInit /\ (about # "config" => ConfigRests)
  /\ StorageInit /\ (about # "storage" => StorageRests)
  /\ BootstrapInit /\ (about # "bootstrap" => BootstrapRests)

ProfileSpec ==
  /\ ProfileInit
  /\ [][\/ /\ Exercise("identity") /\ Next
           /\ UNCHANGED <<configVars, storageVars, bootstrapVars>>
        \/ /\ Exercise("config") /\ ConfigNext
           /\ UNCHANGED <<vars, storageVars, bootstrapVars>>
        \/ /\ Exercise("storage") /\ StorageNext
           /\ UNCHANGED <<vars, configVars, bootstrapVars>>
        \/ /\ Exercise("bootstrap") /\ BootstrapNext
           /\ UNCHANGED <<vars, configVars, storageVars>>
     ]_<<about, profileVars>>

\* The variables of the four modules keep their types.
ProfileTypeOK == TypeOK /\ ConfigTypeOK /\ StorageTypeOK /\ BootstrapTypeOK

ProfileVaults == {<<"a">>, <<"a", "n">>, <<"b", "n">>}
ProfileCwds == {<<"a", "n", "x">>, <<"a", "y">>}

Symmetry == Permutations(Shells) \cup Permutations(Profiles) \cup Permutations(Commands)
=============================================================================
