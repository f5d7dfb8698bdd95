------------------------------ MODULE Mutation ------------------------------
(***************************************************************************)
(* One mutating command line, from its arguments to the dispatch of a      *)
(* stored plan: runConvenienceCommand of src/src/command-line.ts with its  *)
(* compact, batch, direct, adopt, guided and typed routes, the storing of  *)
(* the preview by runRuntimeCommand, and runPlanApply up to the point      *)
(* where PlanApply begins.                                                 *)
(*                                                                         *)
(* A command asks the Runtime (outside this repository) what it needs to   *)
(* know, has a plan sealed, stores it, and dispatches it only if the plan  *)
(* is what was asked for or the user agrees.  Meanwhile other terminals    *)
(* change the default profile and other clients edit the tasks.            *)
(***************************************************************************)
EXTENDS Naturals, Sequences, FiniteSets

CONSTANTS
  Vaults,
  Home,        \* the vault an explicit --vault or --profile names
  Tasks,       \* operon ids; a copied vault has the same ones
  MaxChanges,  \* bound on what others do during a command
  MaxPages,    \* pages of a description query; 100 in the code
  None

ASSUME MutationAssumption ==
  Home \in Vaults /\ Tasks # {} /\ MaxPages \in Nat \ {0} /\ MaxChanges \in Nat
Readings == [vault : Vaults, task : Tasks, at : BOOLEAN, titled : BOOLEAN]
\* How a command ends.
Outcomes == {"error", "cancelled", "no-change", "saved", "dispatched", "silence"}
ASSUME NothingAssumption ==
  None \notin Vaults \cup Readings \cup [vault : Vaults, revision : Nat] \cup Outcomes

VARIABLES
  call,     \* the invocation
  todo,     \* what the command does next, in order
  pin,      \* the resolved target of the routes that resolve it once
  visited,  \* history: the vaults the requests of such a route have gone to
  query,    \* the description query: matches, unseen tasks, pages read
  got,      \* the target of the intent, as it was read
  plan,     \* the plan the Runtime has sealed
  scope,    \* the target the preview was resolved to
  asserted, \* history: the vault that was meant when this was last asserted
  stored,   \* the plan is in the plan store
  consent,  \* the confirmation token of runPlanApply
  agreed,   \* history: the user has agreed to this very plan
  ending,   \* how the command ends
  implicit, revision,  \* what the configuration resolves to, and its version
  titled, moved,       \* tasks with the description; tasks that were moved
  changes              \* what others have done so far

answers == <<visited, query, got>>
planState == <<plan, scope, asserted, stored, consent, agreed>>
others == <<implicit, revision, titled, moved, changes>>
mutationVars == <<call, todo, pin, answers, planState, ending, others>>

(***************************************************************************)
(* Invocations                                                             *)
(***************************************************************************)

\* "typed": --input with JSON; "apply": plan apply; "session-remove": timer
\* session remove, "session": its other actions; "convert-..." by its --to;
\* "relationship", "recurrence": updates of such fields, "update" of others.
UpdateRoutes == {"update", "relationship", "recurrence"}
PinnedRoutes == {"create", "create-input", "create-batch", "update-batch", "adopt"}
                \cup UpdateRoutes
TransitionRoutes == {"relocate", "convert-file", "convert-inline"}
DirectRoutes == {"lifecycle", "pinned", "reminder", "session", "session-remove", "delete",
                 "adopt"} \cup TransitionRoutes
ConfirmRoutes == {"session-remove", "convert-inline", "delete"}
MaintenanceRoutes == {"guided", "guided-timer"}
GuidedRoutes == {"guided-create"} \cup MaintenanceRoutes
BatchRoutes == {"create-batch", "update-batch"}
Routes == PinnedRoutes \cup DirectRoutes \cup GuidedRoutes \cup {"typed", "apply"}
NamingRoutes == UpdateRoutes \cup (DirectRoutes \ {"adopt"})

\* terminal: "none" with --json or without a TTY, the process's own, or the
\* interactive shell's; more: the route needs its optional requests too.
Invocations ==
  {c \in [route : Routes, vault : {None, Home}, named : BOOLEAN, preview : BOOLEAN,
          terminal : {"none", "tty", "shell"}, more : BOOLEAN] :
     /\ c.more => c.route \in {"typed", "create", "create-input", "update"}
                             \cup MaintenanceRoutes
     /\ c.named => c.route \in NamingRoutes
     /\ c.preview => c.route \in {"create", "guided-create"} \cup UpdateRoutes \cup DirectRoutes
     /\ c.route \in GuidedRoutes => c.terminal # "none"
     /\ c.route \in {"typed", "create-input"} \cup BatchRoutes => c.terminal = "none"
     /\ c.route = "apply" => c.vault = None}

If(yes, s) == IF yes THEN <<s>> ELSE <<>>

\* The requests of a direct command before its intent is complete; "context"
\* stands for its catalog and placement requests too.
Found(c) == <<"capabilities">> \o If(c.named, "query") \o <<"read">>
LifecycleCourse(c) == Found(c) \o <<"context">>
PinnedCourse(c) == Found(c)
ReminderCourse(c) == Found(c)
SessionCourse(c) == Found(c)
TransitionCourse(c) == Found(c) \o <<"context">> \o If(c.route # "convert-file", "context")
DeleteCourse(c) == Found(c) \o <<"context">>
AdoptCourse(c) == <<"capabilities">>

CreateCourse(c) == If(c.more, "capabilities") \o <<"context">>
UpdateCourse(c) == If(c.more, "capabilities") \o If(c.named, "query") \o <<"read">>
BatchCourse(c) == IF c.route = "create-batch" THEN <<"context">> ELSE <<"read">>

\* A guided command; the state of the timers is context, and only a start
\* selects a task.
GuidedCreateCourse(c) == <<"capabilities", "context", "wizard">>
GuidedCourse(c) ==
  IF c.route = "guided-timer"
    THEN <<"capabilities", "context">> \o If(c.more, "select") \o If(c.more, "read")
         \o <<"wizard">>
  ELSE <<"capabilities", "select", "read">> \o If(c.more, "context") \o <<"wizard">>

\* The requests and questions of a route before its intent is complete.
Course(c) ==
  CASE c.route = "typed" -> If(c.more, "capabilities")
    [] c.route \in {"create", "create-input"} -> CreateCourse(c)
    [] c.route \in BatchRoutes -> BatchCourse(c)
    [] c.route \in UpdateRoutes -> UpdateCourse(c)
    [] c.route = "lifecycle" -> LifecycleCourse(c)
    [] c.route = "pinned" -> PinnedCourse(c)
    [] c.route = "reminder" -> ReminderCourse(c)
    [] c.route \in {"session", "session-remove"} -> SessionCourse(c)
    [] c.route \in TransitionRoutes -> TransitionCourse(c)
    [] c.route = "delete" -> DeleteCourse(c)
    [] c.route = "adopt" -> AdoptCourse(c)
    [] c.route = "guided-create" -> GuidedCreateCourse(c)
    [] c.route \in MaintenanceRoutes -> GuidedCourse(c)
    [] c.route = "apply" -> <<>>

\* A sealed plan: its spec is the one asked for, or that with the facts the
\* Runtime binds it to (expected values, digests, its time), or another one;
\* and what it requires of its user.  "delete" stands for destructive
\* with exactly the acknowledgement of its kind, "confirm" for any other risk
\* that is to be confirmed; only such plans have a word to confirm them by.
Risky == {"confirm", "delete"}
Sealed(v, t, moves) ==
  {p \in [vault : {v}, task : {t}, at : {moves}, spec : {"asked", "bound", "other"},
          risk : {"routine", "elevated"} \cup Risky, word : BOOLEAN,
          warned : {"no", "projected", "other"}, effects : {"none", "same", "some"}] :
     /\ p.word => p.risk \in Risky
     /\ p.effects # "some" => p.risk = "routine" /\ p.warned = "no"}

ASSUME PlanAssumption == \A v \in Vaults, t \in Tasks, m \in BOOLEAN : None \notin Sealed(v, t, m)

MutationInit ==
  /\ call \in Invocations
  /\ implicit = Home /\ revision = 0 /\ changes = 0
  /\ titled \in {[v \in Vaults |-> named] : named \in IF call.named THEN SUBSET Tasks ELSE {{}}}
  /\ moved = [v \in Vaults |-> {}]
  /\ todo = IF call.route = "apply" THEN <<"apply">> ELSE <<"pin">>
  /\ pin = None /\ visited = {} /\ got = None /\ ending = None
  /\ scope = None /\ asserted = None
  /\ query = [matches |-> {}, unseen |-> Tasks, pages |-> 0]
  /\ IF call.route = "apply"
       THEN /\ \E t \in Tasks : plan \in Sealed(Home, t, FALSE)
            /\ consent \in {"none", "right", "wrong"} /\ stored = TRUE
       ELSE plan = None /\ consent = "none" /\ stored = FALSE
  /\ agreed = (consent = "right")

Does(s) == ending = None /\ todo # <<>> /\ Head(todo) = s
Turn(s) == todo' = <<s>>
GoOn == todo' = Tail(todo)
End(o) == ending' = o /\ UNCHANGED todo

(***************************************************************************)
(* Requests                                                                *)
(***************************************************************************)

\* resolveOperonVaultTargetV1: the vault the arguments mean now.
Meant == IF call.vault = None THEN implicit ELSE call.vault

\* withResolvedRuntimeTargetV1
Pin ==
  /\ Does("pin")
  /\ pin' = IF call.route \in PinnedRoutes
              THEN [vault |-> Meant, revision |-> revision]
              ELSE None
  /\ todo' = Course(call) \o <<"compile">>
  /\ UNCHANGED <<call, answers, planState, ending, others>>

\* resolveRuntimeVaultArgs
InScope == pin # None => pin.revision = revision
Target == IF pin # None THEN pin.vault ELSE Meant

\* A request that fails, is refused or is not answered in full ends the
\* command; so does a configuration that has changed under a resolved target.
RequestFails ==
  /\ \E s \in {"capabilities", "context", "query", "select", "read", "preview"} : Does(s)
  /\ End("error")
  /\ UNCHANGED <<call, pin, answers, planState, others>>

Request(s) ==
  /\ Does(s) /\ InScope
  /\ visited' = IF call.route \in PinnedRoutes THEN visited \cup {Target} ELSE {}
  /\ UNCHANGED <<call, pin, planState, others>>

\* requireDirectMutationCapabilitiesV1, requirePeriodicCapabilitiesV1, the
\* catalog, creation and placement contexts: what is advertised suffices.
Inform ==
  /\ \E s \in {"capabilities", "context"} : Request(s)
  /\ GoOn
  /\ UNCHANGED <<query, got, ending>>

\* Mutant of Query: the cursors that were seen are not remembered.
QueryAgain ==
  /\ Request("query")
  /\ \E t \in query.unseen, cursor \in {"none", "new", "seen"} :
       LET matches == IF t \in titled[Target] THEN query.matches \cup {t}
                                              ELSE query.matches IN
       /\ query' = IF cursor = "seen" THEN [query EXCEPT !.pages = query.pages + 1]
                   ELSE [matches |-> matches, unseen |-> query.unseen \ {t},
                         pages |-> query.pages + 1]
       /\ IF Cardinality(matches) >= 2 \/ (cursor = "new" /\ query'.unseen = {})
            THEN End("error")
          ELSE IF cursor # "none" THEN UNCHANGED <<todo, ending>>
          ELSE IF query'.unseen # {} \/ matches = {} THEN End("error")
          ELSE GoOn /\ UNCHANGED ending
  /\ UNCHANGED got

\* A page of resolveExactDirectOperonIdV1.  A second match, a cursor seen
\* before, one too many pages or no match at all end the command.  Whatever
\* the Runtime says, a page that leaves tasks out and names no next one is
\* truncated.
Query ==
  /\ Request("query")
  /\ \E t \in query.unseen, cursor \in {"none", "new", "seen"} :
       LET matches == IF t \in titled[Target] THEN query.matches \cup {t}
                                              ELSE query.matches
           page == [matches |-> matches, unseen |-> query.unseen \ {t},
                    pages |-> query.pages + 1] IN
       /\ query' = page
       /\ \/ /\ \/ Cardinality(matches) >= 2
                \/ cursor = "none" /\ (page.unseen # {} \/ matches = {})
                \/ cursor = "seen"
                \/ cursor = "new" /\ (page.pages = MaxPages \/ page.unseen = {})
             /\ End("error")
          \/ /\ Cardinality(matches) = 1 /\ cursor = "none" /\ page.unseen = {}
             /\ GoOn /\ UNCHANGED ending
          \/ /\ Cardinality(matches) < 2 /\ cursor = "new"
             /\ page.pages < MaxPages /\ page.unseen # {}
             /\ UNCHANGED <<todo, ending>>
  /\ UNCHANGED got

\* The guided finder: the user picks a task, or leaves.
Select ==
  /\ Request("select")
  /\ \/ /\ \E t \in Tasks : query' = [query EXCEPT !.matches = {t}]
        /\ GoOn /\ UNCHANGED ending
     \/ End("cancelled") /\ UNCHANGED query
  /\ UNCHANGED got

\* The tasks --id, the query or the finder leave to be read.
Chosen == IF call.named \/ call.route \in MaintenanceRoutes THEN query.matches ELSE Tasks

\* resolveExactDirectTaskV1, loadCompactUpdateContextV1 and its batch form: a
\* complete, mutable task, still with the description it was found by.  A task
\* stands for all those of a batch.
Read ==
  /\ Request("read")
  /\ \E t \in Chosen :
       IF call.named /\ t \notin titled[Target] THEN End("error") /\ UNCHANGED got
       ELSE /\ got' = [vault |-> Target, task |-> t, at |-> t \in moved[Target],
                       titled |-> t \in titled[Target]]
            /\ GoOn /\ UNCHANGED ending
  /\ UNCHANGED query

\* A guided wizard collects the rest, or is cancelled.
Wizard ==
  /\ Does("wizard")
  /\ \/ GoOn /\ UNCHANGED ending
     \/ End("cancelled")
  /\ UNCHANGED <<call, pin, answers, planState, others>>

\* The intent is compiled: it is refused, changes nothing, or gets its preview.
Compile ==
  /\ Does("compile")
  /\ \/ Turn("preview") /\ UNCHANGED ending
     \/ End("error")
     \/ /\ call.route \in {"update", "relationship", "lifecycle", "pinned", "reminder"}
                             \cup MaintenanceRoutes
        /\ End("no-change")
  /\ UNCHANGED <<call, pin, answers, planState, others>>

(***************************************************************************)
(* Preview and store                                                       *)
(***************************************************************************)

\* Routes whose intent names a task that was read.
Targeted == got # None

\* The Runtime seals a plan for the task where it finds it, or another plan.
\* Only timer sessions can find their range unchanged, and only a creation can
\* tell projected values from another warning.
Preview ==
  /\ Does("preview") /\ InScope
  /\ visited' = IF call.route \in PinnedRoutes THEN visited \cup {Target} ELSE {}
  /\ LET t == IF Targeted THEN got.task ELSE CHOOSE new \in Tasks : TRUE IN
       plan' \in {p \in Sealed(Target, t, t \in moved[Target]) :
                    /\ p.effects = "same" => call.route = "session"
                    /\ p.warned = "projected" => call.route = "create"}
  /\ scope' = [vault |-> Target, revision |-> revision]
  /\ Turn("assert")
  /\ UNCHANGED <<call, pin, query, got, asserted, stored, consent, agreed, ending, others>>

\* Mutant of AssertScope: any configuration will do.
AssertScopeAnyway ==
  /\ Does("assert")
  /\ asserted' = Meant /\ Turn("store") /\ UNCHANGED ending
  /\ UNCHANGED <<call, pin, answers, plan, scope, stored, consent, agreed, others>>

\* The plan is admitted, and the configuration is still the one its target was
\* resolved with.
AssertScope ==
  /\ Does("assert")
  /\ \/ /\ scope.revision = revision
        /\ asserted' = Meant /\ Turn("store") /\ UNCHANGED ending
     \/ End("error") /\ UNCHANGED asserted
  /\ UNCHANGED <<call, pin, answers, plan, scope, stored, consent, agreed, others>>

\* Then it is stored, whatever others have changed since.
StorePlan ==
  /\ Does("store")
  /\ \/ stored' = TRUE /\ Turn("decide") /\ UNCHANGED ending
     \/ End("error") /\ UNCHANGED stored
  /\ UNCHANGED <<call, pin, answers, plan, scope, asserted, consent, agreed, others>>

(***************************************************************************)
(* What becomes of a stored plan                                           *)
(***************************************************************************)

\* The plan's one target is the task that was read, at the place it was read at.
ExpectedTarget == plan.task = got.task /\ plan.at = got.at

\* Whether the sealed spec is compared as it was sent, or with what the Runtime
\* must have bound it to, by the kind of the mutation.
ExpectedCreation == plan.spec = "asked"
ExpectedBatchCreation == plan.spec = "asked"
ExpectedBatchUpdate == plan.spec = "asked" /\ ExpectedTarget
ExpectedUpdate == plan.spec = "asked" /\ ExpectedTarget
ExpectedRecurrence == plan.spec = "bound" /\ ExpectedTarget
ExpectedRelationship == plan.spec = "bound" /\ ExpectedTarget
ExpectedAdoption == plan.spec = "bound"
ExpectedPinned == plan.spec = "bound"
ExpectedRelocation == plan.spec = "bound"
ExpectedSession == plan.spec = "bound"
ExpectedConversion == plan.spec = "asked"

\* isExpectedDirectMutationPlan
ExpectedDirect ==
  IF call.route = "adopt" THEN ExpectedAdoption
  ELSE /\ ExpectedTarget
       /\ CASE call.route = "pinned" -> ExpectedPinned
            [] call.route = "relocate" -> ExpectedRelocation
            [] call.route \in {"session", "session-remove"} -> ExpectedSession
            [] call.route \in {"convert-file", "convert-inline"} -> ExpectedConversion
            [] OTHER -> plan.spec = "asked"

\* isCompactPreviewSafeToAutoApply
Safe ==
  /\ plan.risk = "routine" \/ (call.route # "create" /\ plan.risk = "elevated")
  /\ plan.warned = "no" \/ (call.route = "create" /\ plan.warned = "projected")

Deciding(routes) == Does("decide") /\ call.route \in routes
DecideStep == UNCHANGED <<call, pin, answers, plan, scope, asserted, others>>
Save == End("saved") /\ UNCHANGED <<stored, consent, agreed>>
GoApply == Turn("apply") /\ UNCHANGED <<stored, consent, agreed, ending>>
Discard(o) == stored' = FALSE /\ End(o) /\ UNCHANGED <<consent, agreed>>

\* The typed routes only preview.
DecideTyped == Deciding({"typed", "create-input"}) /\ Save /\ DecideStep

DecideBatch ==
  /\ Deciding(BatchRoutes)
  /\ IF (IF call.route = "create-batch" THEN ExpectedBatchCreation ELSE ExpectedBatchUpdate)
       THEN Save ELSE Discard("error")
  /\ DecideStep

DecideCreate ==
  /\ Deciding({"create"})
  /\ IF ~call.preview /\ ExpectedCreation /\ Safe THEN GoApply ELSE Save
  /\ DecideStep

DecideUpdate ==
  /\ Deciding(UpdateRoutes)
  /\ IF /\ plan.effects = "some" /\ ~call.preview /\ Safe
        /\ CASE call.route = "update" -> ExpectedUpdate
             [] call.route = "recurrence" -> ExpectedRecurrence
             [] call.route = "relationship" -> ExpectedRelationship
       THEN GoApply ELSE Save
  /\ DecideStep

\* isExpectedDirectSemanticConfirmationPlanV1
WordWanted ==
  /\ call.route \in ConfirmRoutes /\ ExpectedDirect /\ plan.word
  /\ plan.risk = "delete" /\ plan.warned = "no" /\ call.terminal # "none"

\* previewAndMaybeApplyDirectIntentV1
DecideDirect ==
  /\ Deciding(DirectRoutes)
  /\ CASE plan.effects = "none" \/ call.preview -> Save
       [] plan.effects = "same" /\ ~call.preview ->
            IF ExpectedDirect THEN Discard("no-change") ELSE Save
       [] plan.effects = "some" /\ ~call.preview ->
            IF WordWanted THEN Turn("word") /\ UNCHANGED <<stored, consent, agreed, ending>>
            ELSE IF ExpectedDirect /\ Safe THEN GoApply ELSE Save
  /\ DecideStep

\* The guided routes show the preview and ask; they do not compare it with
\* their intent.  A plan that needs confirming without a word is left alone.
DecideGuided ==
  /\ Deciding(GuidedRoutes)
  /\ IF call.preview \/ (call.route \in MaintenanceRoutes /\ plan.effects # "some") THEN Save
     ELSE IF call.route \in MaintenanceRoutes /\ plan.word
       THEN Turn("word") /\ UNCHANGED <<stored, consent, agreed, ending>>
     ELSE IF call.route \in MaintenanceRoutes /\ plan.risk \in Risky THEN Save
     ELSE Turn("agree") /\ UNCHANGED <<stored, consent, agreed, ending>>
  /\ DecideStep

(***************************************************************************)
(* Questions: promptForSemanticConfirmation and askGuidedApplyV1           *)
(***************************************************************************)

\* The word is typed: the plan's own token goes to runPlanApply.
Confirm ==
  /\ Does("word") \/ Does("confirm")
  /\ consent' = "right" /\ agreed' = TRUE
  /\ Turn(IF Does("word") THEN "apply" ELSE "dispatch")
  /\ UNCHANGED <<call, pin, answers, plan, scope, asserted, stored, ending, others>>

Agree ==
  /\ Does("agree")
  /\ agreed' = TRUE
  /\ Turn("apply")
  /\ UNCHANGED <<call, pin, answers, plan, scope, asserted, stored, consent, ending, others>>

\* Anything else is typed.
Deny ==
  /\ \/ (Does("word") \/ Does("agree")) /\ End("saved")
     \/ Does("confirm") /\ End("error")
  /\ UNCHANGED <<call, pin, answers, planState, others>>

\* A question asked through readline alone.
Unported == call.terminal = "tty" /\ (Does("confirm") \/ (Does("word") /\ call.route \in ConfirmRoutes))

\* The input ends.  A port answers for the user; a bare readline question is
\* never answered, and the process ends for want of anything to do.
InputCloses ==
  /\ Does("word") \/ Does("agree") \/ Does("confirm")
  /\ End(IF Unported THEN "silence" ELSE IF Does("confirm") THEN "error" ELSE "saved")
  /\ UNCHANGED <<call, pin, answers, planState, others>>

(***************************************************************************)
(* runPlanApply up to the dispatch                                         *)
(***************************************************************************)

\* The plan is read, its vault is still the one it was sealed for, and a
\* periodic plan's apply capability is advertised.
ApplyPlan ==
  /\ Does("apply")
  /\ \/ End("error")
     \/ /\ pin # None => plan.vault = pin.vault
        /\ Turn(IF /\ plan.word \/ plan.risk \in Risky
                   /\ consent = "none" /\ call.terminal # "none"
                  THEN "confirm" ELSE "dispatch")
        /\ UNCHANGED ending
  /\ UNCHANGED <<call, pin, answers, planState, others>>

\* Mutant of Dispatch: any token will do.
DispatchAnyToken ==
  /\ Does("dispatch")
  /\ IF plan.risk \in Risky /\ consent = "none" THEN End("error")
     ELSE End("dispatched")
  /\ UNCHANGED <<call, pin, answers, planState, others>>

\* buildMutationApplyRequestV1, then PlanApply begins.
Dispatch ==
  /\ Does("dispatch")
  /\ IF plan.risk \in Risky /\ consent # "right" THEN End("error")
     ELSE End("dispatched")
  /\ UNCHANGED <<call, pin, answers, planState, others>>

(***************************************************************************)
(* The others                                                              *)
(***************************************************************************)

OtherStep == UNCHANGED <<call, todo, pin, answers, planState, ending>>

\* Another terminal makes another profile the default.
ChangeDefault ==
  /\ ending = None /\ changes < MaxChanges /\ changes' = changes + 1
  /\ implicit' \in Vaults \ {implicit} /\ revision' = revision + 1
  /\ UNCHANGED <<titled, moved>>
  /\ OtherStep

\* A task is renamed or moved, as far as the command can tell.  Edits after
\* the plan is sealed are the Runtime's business: it checks the digests it has
\* sealed.
Edit ==
  /\ ending = None /\ plan = None /\ changes < MaxChanges /\ changes' = changes + 1
  /\ \E v \in Vaults, t \in Tasks :
       \/ /\ call.named
          /\ titled' = [titled EXCEPT ![v] = IF t \in @ THEN @ \ {t} ELSE @ \cup {t}]
          /\ UNCHANGED moved
       \/ /\ \E n \in DOMAIN Course(call) : Course(call)[n] = "read"
          /\ t \notin moved[v]
          /\ moved' = [moved EXCEPT ![v] = @ \cup {t}]
          /\ UNCHANGED titled
  /\ UNCHANGED <<implicit, revision>>
  /\ OtherStep

Command ==
  \/ Pin \/ RequestFails \/ Inform \/ Query \/ Select \/ Read \/ Wizard \/ Compile
  \/ Preview \/ AssertScope \/ StorePlan
  \/ DecideTyped \/ DecideBatch \/ DecideCreate \/ DecideUpdate \/ DecideDirect \/ DecideGuided
  \/ Confirm \/ Agree \/ Deny \/ InputCloses
  \/ ApplyPlan \/ Dispatch

MutationNext == Command \/ ChangeDefault \/ Edit

MutationSpec == MutationInit /\ [][MutationNext]_mutationVars

(***************************************************************************)
(* Properties                                                              *)
(***************************************************************************)

\* The variables keep their types; in particular a query asks for a bounded
\* number of pages whatever cursors the Runtime returns.
MutationTypeOK ==
  /\ call \in Invocations
  /\ pin = None \/ pin \in [vault : Vaults, revision : 0 .. MaxChanges]
  /\ visited \subseteq Vaults
  /\ query \in [matches : SUBSET Tasks, unseen : SUBSET Tasks, pages : 0 .. MaxPages]
  /\ got \in Readings \cup {None}
  /\ plan = None \/ \E v \in Vaults, t \in Tasks, m \in BOOLEAN : plan \in Sealed(v, t, m)
  /\ asserted \in Vaults \cup {None} /\ (stored => plan # None)
  /\ consent \in {"none", "right", "wrong"} /\ agreed \in BOOLEAN
  /\ ending \in Outcomes \cup {None}

Dispatched == ending = "dispatched"

\* No plan that is destructive, needs a confirmation or has acknowledgements
\* is dispatched unless the user has typed its word or its consent, whatever
\* route it came by (direct-source-transition-v1.md:50-52).
RiskIsConfirmed == Dispatched /\ plan.risk \in Risky => agreed /\ consent = "right"

\* A plan that nobody was shown is dispatched only if it is exactly what the
\* command asked for and carries no warning but that apply-time values are
\* projected (direct-lifecycle-reminder-v1.md:56-58): never after a typed
\* input, never with --preview-only, never if the task was moved meanwhile.
UnseenIsExpected ==
  Dispatched /\ ~agreed /\ call.route # "apply" =>
    /\ call.route \in {"create"} \cup UpdateRoutes \cup DirectRoutes /\ ~call.preview
    /\ plan.spec # "other"
    /\ got # None => plan.task = got.task /\ plan.at = got.at
    /\ plan.warned = "no" \/ (plan.warned = "projected" /\ call.route = "create")

\* A task named by its description carried it when the command read it, and
\* if nobody interfered it is the only one that does
\* (direct-lifecycle-reminder-v1.md:53-54).
NamedTask ==
  Dispatched /\ call.named =>
    /\ got.titled
    /\ changes = 0 => titled[plan.vault] = {plan.task}

\* The routes that pin their target stay in one vault whatever becomes of the
\* default profile: what they have read, sealed and dispatched is of that
\* vault.
OneVault == call.route \in PinnedRoutes /\ plan # None => visited = {plan.vault}

\* A plan is stored for the vault the command's arguments denoted when its scope
\* was asserted, after the Runtime had answered, not for one they denoted when
\* the preview was asked for.  A configuration that changes between that
\* assertion and the store is not noticed.
StoredWhereMeant == ~stored /\ stored' => plan.vault = asserted

\* A batch plan that stays in the store to be applied by its reference is the
\* batch that was asked for, and an update of the very tasks that were read: a
\* mismatch is taken out of the store again.
BatchAsAsked ==
  /\ plan.spec = "asked"
  /\ call.route = "update-batch" => plan.task = got.task /\ plan.at = got.at
BatchKept == call.route \in BatchRoutes /\ stored /\ ending # None => BatchAsAsked

\* Nothing is dispatched that the user has not agreed to or asked for exactly.
NothingUnagreed == RiskIsConfirmed /\ UnseenIsExpected

\* What is stored and dispatched is for the task and the vault that were meant.
TargetIsMeant == [][StoredWhereMeant /\ (NamedTask /\ OneVault /\ BatchKept)']_mutationVars
=============================================================================
