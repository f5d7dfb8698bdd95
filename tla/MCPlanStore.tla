---------------------------- MODULE MCPlanStore ----------------------------
(***************************************************************************)
(* The store in disciplined use, and next to it, in behaviours of their    *)
(* own, any number of commands on one contested plan at the same time,     *)
(* overtaken by the clock wherever they are: `use' is that plan, or NoPlan *)
(* in the behaviours of disciplined use.                                   *)
(***************************************************************************)
EXTENDS PlanStore, TLC

VARIABLE use

\* Another plan may be stored meanwhile, with the prune that goes with it.
Contested ==
  /\ use # NoPlan
  /\ StoreNext
  /\ \A p \in Procs : plan'[p] \in {use, NoPlan} \/ op'[p] = "store"

UsesInit == use \in Plans \cup {NoPlan} /\ Init /\ (use # NoPlan => Stored \subseteq {use})

UsesSpec ==
  /\ UsesInit
  /\ [][((use = NoPlan /\ StoreNext /\ Disciplined) \/ Contested) /\ UNCHANGED use]_<<use, vars>>

Symmetry == Permutations(Procs) \cup Permutations(Plans)
=============================================================================
