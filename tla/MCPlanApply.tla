---------------------------- MODULE MCPlanApply ----------------------------
(***************************************************************************)
(* The commands of PlanApply one after the other, and next to them, in     *)
(* behaviours of their own, the store under processes that work on one     *)
(* plan at the same time: `use' says which of the two a behaviour is.      *)
(***************************************************************************)
EXTENDS PlanApply, TLC

VARIABLE use

\* The bounds of each use.
Within(requests, time, deaths) ==
  /\ \A q \in Plans : issued'[q] <= requests
  /\ clock' <= time
  /\ Cardinality(dead') <= deaths

\* Concurrent use in which no process takes a binding back.
Appliers ==
  /\ use = "appliers" /\ StoreNext /\ NoRestore /\ UNCHANGED applyVars
  /\ Within(2, 0, 0)

Commands == use = "commands" /\ ApplyNext /\ Disciplined /\ Within(2, 3, 2)

CommandsInit == use \in {"commands", "appliers"} /\ ApplyInit

CommandsSpec ==
  /\ CommandsInit
  /\ [][(Commands \/ Appliers) /\ UNCHANGED use]_<<use, allVars>>

Symmetry == Permutations(Procs) \cup Permutations(Plans)
=============================================================================
