--------------------------- MODULE RecoveryLedger ---------------------------
(***************************************************************************)
(* What the stored plans promise a user, without files, locks, processes   *)
(* or clocks: a plan whose apply request has reached the Runtime is never  *)
(* again a plan that may be applied afresh, and only a plan that has not   *)
(* reached the Runtime can become one again.                               *)
(***************************************************************************)
CONSTANT Plans

VARIABLES
  phase,  \* what the store says about each plan
  sent    \* the plans of which the Runtime has consumed a request

ledgerVars == <<phase, sent>>

\* "foreign" is a record this version cannot decode.
Phases == {"none", "prepared", "bound", "settled", "gone", "foreign"}

LedgerInit ==
  /\ phase \in [Plans -> {"none", "prepared", "bound", "foreign"}]
  /\ sent = {}

Become(q, here, there) ==
  /\ phase[q] \in here
  /\ phase' = [phase EXCEPT ![q] = there]
  /\ UNCHANGED sent

Prepare(q) == Become(q, {"none"}, "prepared")
Bind(q) == Become(q, {"prepared"}, "bound")

\* A binding is taken back, and a plan dropped, only before it is sent; a
\* preview that fails never stores its plan.
Unbind(q) == q \notin sent /\ Become(q, {"bound"}, "prepared")
Drop(q) == q \notin sent /\ Become(q, {"none", "prepared"}, "gone")

\* A final answer leaves a tombstone, or nothing when nothing was applied.
Settle(q) == Become(q, {"bound"}, "settled")
Forget(q) == Become(q, {"bound", "settled"}, "gone")

\* A copy of a request may still arrive after its plan is settled or gone,
\* but none of a plan that is yet to be applied.
Send(q) ==
  /\ phase[q] \in {"bound", "settled", "gone"}
  /\ sent' = sent \cup {q}
  /\ UNCHANGED phase

LedgerNext ==
  \E q \in Plans : \/ Prepare(q) \/ Bind(q) \/ Unbind(q) \/ Drop(q)
                   \/ Settle(q) \/ Forget(q) \/ Send(q)

LedgerSpec == LedgerInit /\ [][LedgerNext]_ledgerVars
=============================================================================
