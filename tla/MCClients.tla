----------------------------- MODULE MCClients ------------------------------
(***************************************************************************)
(* What one command does besides the plan store, side by side: `part' says *)
(* which of the three modules a behaviour is about, the others stay in one *)
(* of their initial states.                                                *)
(***************************************************************************)
EXTENDS Mutation, TaskFinder, UpdateCheck, TLC

VARIABLE part

clientsVars == <<part, mutationVars, finderVars, updateVars>>

Of(name) == part = name /\ UNCHANGED part

\* One fixed initial state for each module that is not the part.
MutationRests ==
  call = [route |-> "typed", vault |-> None, named |-> FALSE, preview |-> FALSE,
          terminal |-> "none", more |-> FALSE]
FinderRests == ~criteria.query
UpdateRests == current = 8 /\ hour = 0 /\ cache = Empty

ClientsInit ==
  /\ part \in {"mutation", "finder", "update"}
  /\ MutationInit /\ (part # "mutation" => MutationRests)
  /\ FinderInit /\ (part # "finder" => FinderRests)
  /\ UpdateInit /\ (part # "update" => UpdateRests)

ClientsSpec ==
  /\ ClientsInit
  /\ [][\/ Of("mutation") /\ MutationNext /\ UNCHANGED <<finderVars, updateVars>>
        \/ Of("finder") /\ FinderNext /\ UNCHANGED <<mutationVars, updateVars>>
        \/ Of("update") /\ UpdateNext /\ UNCHANGED <<mutationVars, finderVars>>]_clientsVars

\* The variables of the three modules keep their types.
ClientsTypeOK == MutationTypeOK /\ FinderTypeOK /\ UpdateTypeOK

Number(digits) == [number |-> TRUE, text |-> digits]
Word(codes) == [number |-> FALSE, text |-> codes]
Version(minor, pre) == [numbers |-> <<<<1>>, minor, <<0>>>>, pre |-> pre]

\* The example of semantic versioning, with a for alpha and b for beta.
ByPrecedence ==
  <<Version(<<0>>, <<Word(<<97>>)>>), Version(<<0>>, <<Word(<<97>>), Number(<<1>>)>>),
    Version(<<0>>, <<Word(<<97>>), Word(<<98>>)>>), Version(<<0>>, <<Word(<<98>>)>>),
    Version(<<0>>, <<Word(<<98>>), Number(<<2>>)>>),
    Version(<<0>>, <<Word(<<98>>), Number(<<1, 1>>)>>), Version(<<0>>, <<>>),
    Version(<<9>>, <<>>), Version(<<1, 0>>, <<>>)>>

Symmetry == Permutations(Checkers)

Catalog == [p \in {"A", "B"} |-> IF p = "A" THEN {"s"} ELSE {}]
=============================================================================
