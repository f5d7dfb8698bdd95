----------------------------- MODULE MCLiveness -----------------------------
(***************************************************************************)
(* PlanApply and DispatchLock side by side: `part' says which of the two a *)
(* behaviour is about, the other one stays in its initial state.           *)
(***************************************************************************)
EXTENDS PlanApply

CONSTANTS Inodes, NoFile, Unwritten

VARIABLES part, lockPath, quarantine, content, old, lockPc, fd, ino, owner,
          lockDead, robbed

lockVars == <<lockPath, quarantine, content, old, lockPc, fd, ino, owner,
              lockDead, robbed>>
bothVars == <<part, allVars, lockVars>>

L == INSTANCE DispatchLock WITH path <- lockPath, pc <- lockPc, dead <- lockDead

Of(name) == part = name /\ UNCHANGED part

BothInit == part \in {"commands", "lock"} /\ ApplyInit /\ L!Init

BothSpec ==
  /\ BothInit
  /\ [][\/ Of("commands") /\ ApplyNext /\ Disciplined /\ UNCHANGED lockVars
        \/ Of("lock") /\ L!Next /\ UNCHANGED allVars]_bothVars

FairBothSpec ==
  /\ BothSpec
  /\ \A p \in Procs :
       /\ WF_bothVars(Of("commands") /\ Progress(p) /\ UNCHANGED lockVars)
       /\ WF_bothVars(Of("lock") /\ L!Step(p) /\ UNCHANGED allVars)
       /\ SF_bothVars(Of("lock") /\ L!GiveUp(p) /\ UNCHANGED allVars)

\* Nobody waits for ever: every contender for the lock holds it or gives up at
\* last, although another may die with the lock, and every plan command ends.
EveryWaitEnds == L!AcquisitionEnds /\ CommandsEnd
=============================================================================
