----------------------------- MODULE ReadContract -----------------------------
(***************************************************************************)
(* What a session promises the reads it receives, without frames, batches, *)
(* sockets, attempts or timers: a read is answered only after the Runtime  *)
(* has been asked, which it is at most twice, each time with a token it    *)
(* has not seen; a read that is refused or fails was not asked at all; one *)
(* is aborted only by the user; and what a read has ended as, it remains.  *)
(***************************************************************************)
CONSTANTS
  Reads,
  Tokens  \* the request tokens of a read

VARIABLES
  stage,   \* "new", "open", or how the read has ended
  seen,    \* the tokens of each read the Runtime has seen
  stopped  \* the user has interrupted the session

contractVars == <<stage, seen, stopped>>

Ends == {"done", "failed", "refused", "aborted"}

ContractInit ==
  /\ stage = [r \in Reads |-> "new"]
  /\ seen = [r \in Reads |-> {}]
  /\ stopped = FALSE

Become(r, here, there) == stage[r] = here /\ stage'[r] = there
Ask(r, t) == t \notin seen[r] /\ seen'[r] = seen[r] \cup {t}
AskNothing(r) == seen'[r] = seen[r]

Rest(r) == Become(r, stage[r], stage[r]) /\ AskNothing(r)
Admit(r) == ~stopped /\ Become(r, "new", "open") /\ AskNothing(r)
Refuse(r) == ~stopped /\ Become(r, "new", "refused") /\ AskNothing(r)
Fail(r) == seen[r] = {} /\ Become(r, "open", "failed") /\ AskNothing(r)

\* Over the socket, once.
Present(r) == seen[r] = {} /\ Become(r, "open", "open") /\ \E t \in Tokens : Ask(r, t)
Answer(r) == seen[r] # {} /\ Become(r, "open", "done") /\ AskNothing(r)

\* By a spawned Obsidian, which gives the answer.
FallBack(r) == ~stopped /\ Become(r, "open", "done") /\ \E t \in Tokens : Ask(r, t)
Abort(r) == stopped' /\ Become(r, "open", "aborted") /\ AskNothing(r)

\* The reads of a group move together.
ContractNext ==
  /\ stage' \in [Reads -> Ends \cup {"new", "open"}]
  /\ seen' \in [Reads -> SUBSET Tokens]
  /\ stopped' \in {stopped, TRUE}
  /\ \A r \in Reads : \/ Rest(r) \/ Admit(r) \/ Refuse(r) \/ Fail(r) \/ Present(r)
                      \/ Answer(r) \/ FallBack(r) \/ Abort(r)

ContractSpec == ContractInit /\ [][ContractNext]_contractVars
=============================================================================
