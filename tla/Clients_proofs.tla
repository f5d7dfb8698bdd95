--------------------------- MODULE Clients_proofs ---------------------------
(***************************************************************************)
(* What the commands a user types promise, for any number of tasks,        *)
(* vaults, pages and shells: commands that change tasks, the task finder   *)
(* and the update check.  Each part has its inductive invariant, and       *)
(* lemmas that its first state has it and its steps keep it.               *)
(***************************************************************************)
EXTENDS MCClients, FiniteSetTheorems, TLAPS

(***************************************************************************)
(* Mutating commands (MutationSpec).                                       *)
(***************************************************************************)

EarlySteps == {"capabilities", "context", "query", "select", "read", "wizard"}
Reading == EarlySteps \cup {"compile"}
LateSteps == {"preview", "assert", "store", "decide", "word", "agree", "apply", "confirm", "dispatch"}
Sealing == {"assert", "store", "decide", "word", "agree", "apply", "confirm", "dispatch"}
Alone(s) == todo = <<s>>

Has(s, x) == \E i \in DOMAIN s : s[i] = x
\* A course compiles at last, and finds a task before it reads it.
Program(s) ==
  /\ s \in Seq(Reading) /\ Len(s) > 0
  /\ \A i \in DOMAIN s : s[i] = "compile" <=> i = Len(s)
  /\ \A i, j \in DOMAIN s : i < j /\ s[i] = "read" => s[j] # "query"

Phases == Alone("pin") \/ Program(todo) \/ \E s \in LateSteps : Alone(s)
IsSealed == \E s \in Sealing : Alone(s)

\* A plan is there from the preview on.
Planned ==
  /\ call.route = "apply" => \E s \in {"apply", "confirm", "dispatch"} : Alone(s)
  /\ IsSealed => /\ plan # None /\ plan.vault \in Vaults
                 /\ plan.effects \in {"none", "same", "some"}
                 /\ got # None /\ call.route # "apply" => plan.task = got.task
  /\ ~IsSealed => plan = None /\ ~stored
  /\ Alone("assert") \/ Alone("store") => ~stored
  /\ Alone("store") => plan.vault = asserted

\* A token that consents comes from a user who agreed.
Consent ==
  /\ consent = "right" => agreed
  /\ ending = "dispatched" =>
       Alone("dispatch") /\ (plan.risk \in Risky => consent = "right")

\* What is applied unseen has been compared.
Expected ==
  (Alone("apply") \/ Alone("confirm") \/ Alone("dispatch")) /\ ~agreed /\ call.route # "apply" =>
    /\ call.route \in {"create"} \cup UpdateRoutes \cup DirectRoutes /\ ~call.preview
    /\ plan.spec # "other"
    /\ got # None => plan.task = got.task /\ plan.at = got.at
    /\ plan.warned = "no" \/ (plan.warned = "projected" /\ call.route = "create")

\* A task is read where the command reads one, and nowhere else.
HasRead ==
  /\ call.route \in {"create", "adopt", "apply"} =>
       got = None /\ ~Has(todo, "read")
  /\ call.named /\ got = None => Alone("pin") \/ Has(todo, "read")
  /\ call.named /\ got # None => got.titled
  /\ call.named => ~Has(todo, "select")

\* Without others' changes, the query has found the only task of its name.
Only(t) == titled[Home] = {t}
Searched ==
  call.named =>
    /\ IsFiniteSet(query.matches)
    /\ changes = 0 =>
         /\ query.matches = titled[Home] \ query.unseen
         /\ ~Alone("pin") /\ ~Has(todo, "query") =>
              query.unseen = {} /\ Cardinality(query.matches) = 1
         /\ got # None => Only(got.task)

\* What the arguments mean is what was resolved, as long as the configuration
\* is the one it was resolved with.
Resolved(r) == r.vault \in Vaults /\ r.revision \in 0 .. revision
                 /\ (r.revision = revision => r.vault = Meant)
InPlace ==
  /\ revision \in Nat /\ changes \in Nat /\ implicit \in Vaults
  /\ changes = 0 => implicit = Home /\ revision = 0
  /\ call.route \in PinnedRoutes /\ ~Alone("pin") => pin # None /\ visited \subseteq {pin.vault}
  /\ call.route \in PinnedRoutes /\ Alone("pin") => visited = {}
  /\ call.route \notin PinnedRoutes \/ Alone("pin") => pin = None
  /\ pin # None => Resolved(pin)
  /\ IsSealed /\ call.route # "apply" =>
       /\ Resolved(scope) /\ scope.vault = plan.vault
       /\ call.route \in PinnedRoutes => visited = {plan.vault}
       /\ changes = 0 => plan.vault = Home

Batched ==
  call.route \in BatchRoutes /\ stored =>
    Alone("decide") /\ (ending # None => BatchAsAsked)

Typed ==
  /\ call \in Invocations
  /\ got \in Readings \cup {None}
  /\ titled \in [Vaults -> SUBSET Tasks] /\ moved \in [Vaults -> SUBSET Tasks]
  /\ query.matches \subseteq Tasks /\ query.unseen \subseteq Tasks
  /\ query = [matches |-> query.matches, unseen |-> query.unseen, pages |-> query.pages]

MutationInv ==
  /\ Typed /\ Phases /\ Planned /\ Consent /\ Expected /\ HasRead /\ Searched /\ InPlace
  /\ Batched

\* What a course may hold before it compiles: steps in this order.
Orderly(s) ==
  /\ s \in Seq(EarlySteps)
  /\ \A i, j \in DOMAIN s : i < j /\ s[i] = "read" => s[j] # "query"
Steps(s) == {x \in EarlySteps : Has(s, x)}

LEMMA NoStep == Orderly(<<>>) /\ Steps(<<>>) = {}
BY DEF Orderly, Steps, Has

LEMMA OneStep == ASSUME NEW x \in EarlySteps PROVE Orderly(<<x>>) /\ Steps(<<x>>) = {x}
BY DEF Orderly, Steps, Has

LEMMA AddStep ==
  ASSUME NEW s, Orderly(s), NEW x \in EarlySteps, x = "query" => "read" \notin Steps(s)
  PROVE  Orderly(s \o <<x>>) /\ Steps(s \o <<x>>) = Steps(s) \cup {x}
<1> DEFINE t == s \o <<x>>
<1>1. /\ t \in Seq(EarlySteps) /\ Len(t) = Len(s) + 1
      /\ DOMAIN t = 1 .. Len(s) + 1 /\ DOMAIN s = 1 .. Len(s) /\ Len(s) \in Nat
      /\ \A i \in DOMAIN t : t[i] = IF i \in DOMAIN s THEN s[i] ELSE x
  BY DEF Orderly
<1> HIDE DEF t
<1>2. \A y : Has(t, y) <=> Has(s, y) \/ y = x
  <2>1. Len(s) + 1 \in DOMAIN t /\ Len(s) + 1 \notin DOMAIN s /\ \A i \in DOMAIN s : i \in DOMAIN t
    BY <1>1
  <2> QED BY <1>1, <2>1 DEF Has
<1>3. \A i, j \in DOMAIN t : i < j => i \in DOMAIN s
  BY <1>1
<1>4. Orderly(t)
  <2>1. x = "query" => ~Has(s, "read")
    BY DEF Steps, EarlySteps
  <2> QED BY <1>1, <1>3, <2>1 DEF Orderly, Has
<1>5. Steps(t) = Steps(s) \cup {x}
  BY <1>2 DEF Steps
<1> QED BY <1>4, <1>5 DEF t

LEMMA MaybeStep ==
  ASSUME NEW s, Orderly(s), NEW x \in EarlySteps, NEW b \in BOOLEAN,
         x = "query" => "read" \notin Steps(s)
  PROVE  Orderly(s \o If(b, x)) /\ Steps(s \o If(b, x)) = IF b THEN Steps(s) \cup {x} ELSE Steps(s)
<1>1. CASE b
  BY <1>1, AddStep DEF If
<1>2. CASE ~b
  <2>1. s \o <<>> = s
    BY DEF Orderly
  <2> QED BY <1>2, <2>1 DEF If
<1> QED BY <1>1, <1>2

LEMMA PerhapsStep ==
  ASSUME NEW x \in EarlySteps, NEW b \in BOOLEAN
  PROVE  Orderly(If(b, x)) /\ Steps(If(b, x)) = IF b THEN {x} ELSE {}
BY NoStep, OneStep DEF If

Requests(c, s) ==
  /\ Orderly(s)
  /\ c.route \in {"create", "adopt"} => "read" \notin Steps(s)
  /\ c.named => {"read", "query"} \subseteq Steps(s) /\ "select" \notin Steps(s)

\* Every command finds, reads and compiles in this order.
LEMMA CourseRequests ==
  ASSUME NEW c \in Invocations, c.route # "apply"
  PROVE  Requests(c, Course(c))
<1>0. /\ c.route \in Routes /\ c.named \in BOOLEAN /\ c.more \in BOOLEAN
      /\ c.named => c.route \in NamingRoutes
  BY DEF Invocations
<1> USE DEF NamingRoutes, UpdateRoutes, DirectRoutes, TransitionRoutes, BatchRoutes,
  MaintenanceRoutes
<1>12. EarlySteps = {"capabilities", "context", "query", "select", "read", "wizard"}
  BY DEF EarlySteps
<1>13. Orderly(Found(c)) /\ Steps(Found(c)) = IF c.named THEN {"capabilities", "query", "read"}
                                                   ELSE {"capabilities", "read"}
  <2>1. Orderly(<<"capabilities">>) /\ Steps(<<"capabilities">>) = {"capabilities"}
    BY <1>12, OneStep
  <2> DEFINE r == <<"capabilities">> \o If(c.named, "query")
  <2>2. Orderly(r) /\ Steps(r) = IF c.named THEN {"capabilities", "query"} ELSE {"capabilities"}
    <3>1. "query" \in EarlySteps /\ "read" \notin Steps(<<"capabilities">>)
      BY <1>12, <2>1
    <3>2. /\ Orderly(<<"capabilities">> \o If(c.named, "query"))
          /\ Steps(<<"capabilities">> \o If(c.named, "query")) =
               IF c.named THEN Steps(<<"capabilities">>) \cup {"query"}
               ELSE Steps(<<"capabilities">>)
      BY <1>0, <2>1, <3>1, MaybeStep
    <3> QED BY <2>1, <3>2
  <2>3. Found(c) = r \o <<"read">>
    BY DEF Found
  <2> HIDE DEF r
  <2>4. "read" \in EarlySteps
    BY <1>12
  <2>5. Orderly(r \o <<"read">>) /\ Steps(r \o <<"read">>) = Steps(r) \cup {"read"}
    BY <2>2, <2>4, AddStep
  <2> QED BY <2>2, <2>3, <2>5
<1>14. /\ Orderly(Found(c) \o <<"context">>)
      /\ Steps(Found(c) \o <<"context">>) = Steps(Found(c)) \cup {"context"}
  BY <1>12, <1>13, AddStep
<1>1. CASE c.route = "typed"
  <2>1. Course(c) = If(c.more, "capabilities")
    BY <1>1 DEF Course
  <2> QED BY <1>0, <1>1, <1>12, <2>1, PerhapsStep DEF Requests
<1>2. CASE c.route \in {"create", "create-input"}
  <2>1. Course(c) = If(c.more, "capabilities") \o <<"context">>
    BY <1>2 DEF Course, CreateCourse
  <2>2. /\ Orderly(If(c.more, "capabilities"))
        /\ Steps(If(c.more, "capabilities")) \subseteq {"capabilities"}
    BY <1>0, <1>12, PerhapsStep
  <2> DEFINE r == If(c.more, "capabilities")
  <2>3. Orderly(r) /\ Steps(r) \subseteq {"capabilities"} /\ Course(c) = r \o <<"context">>
    BY <2>1, <2>2
  <2> HIDE DEF r
  <2>4. Orderly(Course(c)) /\ Steps(Course(c)) = Steps(r) \cup {"context"}
    <3>1. "context" \in EarlySteps /\ Orderly(r)
      BY <1>12, <2>3
    <3> QED BY <2>3, <3>1, AddStep
  <2> QED BY <1>0, <1>2, <2>3, <2>4 DEF Requests
<1>3. CASE c.route \in BatchRoutes \cup {"adopt"}
  <2>1. PICK x \in {"context", "capabilities", "read"} :
          Course(c) = <<x>> /\ (c.route = "adopt" => x = "capabilities")
    BY <1>3 DEF Course, BatchCourse, AdoptCourse
  <2>2. ~c.named /\ c.route # "create"
    BY <1>0, <1>3
  <2>3. Orderly(Course(c)) /\ Steps(Course(c)) = {x}
    BY <1>12, <2>1, OneStep
  <2> QED BY <2>1, <2>2, <2>3 DEF Requests
<1>4. CASE c.route = "guided-create"
  <2>1. Course(c) = <<"capabilities", "context", "wizard">>
    BY <1>4 DEF Course, GuidedCreateCourse
  <2> QED BY <1>0, <1>4, <2>1 DEF Requests, Orderly, EarlySteps
<1>5. CASE c.route \in UpdateRoutes
  <2> DEFINE q == If(c.more, "capabilities")
  <2> DEFINE r == q \o If(c.named, "query")
  <2>1. Course(c) = r \o <<"read">>
    BY <1>5 DEF Course, UpdateCourse
  <2>2. Orderly(q) /\ Steps(q) \subseteq {"capabilities"}
    BY <1>0, <1>12, PerhapsStep
  <2> HIDE DEF q
  <2>3. /\ Orderly(r) /\ Steps(r) \subseteq {"capabilities", "query"}
        /\ c.named => "query" \in Steps(r)
    <3>1. "read" \notin Steps(q) /\ "query" \in EarlySteps
      BY <1>12, <2>2
    <3>2. Orderly(r) /\ Steps(r) = IF c.named THEN Steps(q) \cup {"query"} ELSE Steps(q)
      BY <1>0, <2>2, <3>1, MaybeStep
    <3> QED BY <2>2, <3>2
  <2> HIDE DEF r
  <2>4. "read" \in EarlySteps
    BY <1>12
  <2>5. Orderly(r \o <<"read">>) /\ Steps(r \o <<"read">>) = Steps(r) \cup {"read"}
    BY <2>3, <2>4, AddStep
  <2> QED BY <1>5, <2>1, <2>3, <2>5 DEF Requests
<1>6. CASE c.route = "guided-timer"
  <2> DEFINE p == <<"capabilities", "context">>
  <2> DEFINE q == p \o If(c.more, "select")
  <2> DEFINE r == q \o If(c.more, "read")
  <2>1. Course(c) = r \o <<"wizard">>
    BY <1>6 DEF Course, GuidedCourse
  <2>2. Orderly(p)
    BY DEF Orderly, EarlySteps
  <2> HIDE DEF p
  <2>3. Orderly(q)
    BY <1>0, <1>12, <2>2, MaybeStep
  <2> HIDE DEF q
  <2>4. Orderly(r)
    BY <1>0, <1>12, <2>3, MaybeStep
  <2> HIDE DEF r
  <2> QED BY <1>0, <1>6, <1>12, <2>1, <2>4, AddStep DEF Requests
<1>7. CASE c.route = "guided"
  <2> DEFINE p == <<"capabilities", "select", "read">>
  <2> DEFINE q == p \o If(c.more, "context")
  <2>1. Course(c) = q \o <<"wizard">>
    BY <1>7 DEF Course, GuidedCourse
  <2>2. Orderly(p)
    BY DEF Orderly, EarlySteps
  <2> HIDE DEF p
  <2>3. Orderly(q)
    BY <1>0, <1>12, <2>2, MaybeStep
  <2> HIDE DEF q
  <2> QED BY <1>0, <1>7, <1>12, <2>1, <2>3, AddStep DEF Requests
<1>8. CASE c.route \in {"lifecycle", "delete"}
  <2>1. Course(c) = Found(c) \o <<"context">>
    BY <1>8 DEF Course, LifecycleCourse, DeleteCourse
  <2> QED BY <1>8, <1>13, <1>14, <2>1 DEF Requests
<1>9. CASE c.route \in {"pinned", "reminder", "session", "session-remove"}
  <2>1. Course(c) = Found(c)
    BY <1>9 DEF Course, PinnedCourse, ReminderCourse, SessionCourse
  <2> QED BY <1>9, <1>13, <2>1 DEF Requests
<1>10. CASE c.route \in TransitionRoutes
  <2> DEFINE r == Found(c) \o <<"context">>
  <2>1. Course(c) = r \o If(c.route # "convert-file", "context")
    BY <1>10 DEF Course, TransitionCourse
  <2>2. Orderly(r) /\ Steps(r) = Steps(Found(c)) \cup {"context"}
    BY <1>14
  <2> HIDE DEF r
  <2>3. Orderly(Course(c)) /\ Steps(Course(c)) = Steps(Found(c)) \cup {"context"}
    <3>1. (c.route # "convert-file") \in BOOLEAN /\ "context" \in EarlySteps
      BY <1>12
    <3>2. /\ Orderly(r \o If(c.route # "convert-file", "context"))
          /\ Steps(r \o If(c.route # "convert-file", "context")) =
               IF c.route # "convert-file" THEN Steps(r) \cup {"context"} ELSE Steps(r)
      BY <2>2, <3>1, MaybeStep
    <3> QED BY <2>1, <2>2, <3>2
  <2> QED BY <1>10, <1>13, <2>3 DEF Requests
<1>11. c.route \in {"typed", "create", "create-input", "adopt", "guided-create", "guided-timer",
                    "guided", "lifecycle", "delete", "pinned", "reminder", "session",
                    "session-remove"} \cup UpdateRoutes \cup BatchRoutes \cup TransitionRoutes
  BY <1>0 DEF Routes, PinnedRoutes, GuidedRoutes
<1> QED BY <1>1, <1>2, <1>3, <1>4, <1>5, <1>6, <1>7, <1>8, <1>9, <1>10, <1>11

LEMMA CourseIsProgram ==
  ASSUME NEW c \in Invocations, c.route # "apply"
  PROVE  LET s == Course(c) \o <<"compile">> IN
         /\ Program(s)
         /\ c.route \in {"create", "adopt"} => ~Has(s, "read")
         /\ c.named => Has(s, "read") /\ Has(s, "query") /\ ~Has(s, "select")
<1> DEFINE r == Course(c)
<1> DEFINE s == r \o <<"compile">>
<1>1. Requests(c, r)
  BY CourseRequests
<1> HIDE DEF r
<1>2. /\ s \in Seq(Reading) /\ Len(s) = Len(r) + 1
      /\ \A i \in DOMAIN r : i \in DOMAIN s /\ s[i] = r[i] /\ r[i] \in EarlySteps
      /\ \A i \in DOMAIN s : s[i] = IF i \in DOMAIN r THEN r[i] ELSE "compile"
      /\ r \in Seq(EarlySteps) /\ DOMAIN s = 1 .. Len(r) + 1 /\ DOMAIN r = 1 .. Len(r)
      /\ Len(r) \in Nat
  BY <1>1 DEF Requests, Orderly, Reading
<1> HIDE DEF s
<1>3. \A i \in DOMAIN s : s[i] = "compile" <=> i = Len(s)
  BY <1>2 DEF EarlySteps
<1>4. \A i, j \in DOMAIN s : i < j /\ s[i] = "read" => s[j] # "query"
  BY <1>1, <1>2 DEF Requests, Orderly
<1>5. /\ c.route \in {"create", "adopt"} => ~Has(s, "read")
      /\ c.named => Has(s, "read") /\ Has(s, "query") /\ ~Has(s, "select")
  BY <1>1, <1>2 DEF Requests, Steps, EarlySteps, Has
<1> QED BY <1>2, <1>3, <1>4, <1>5 DEF Program, s, r

\* What is left of a course when its first step is done.
LEMMA RestOfProgram ==
  ASSUME NEW s, Program(s), Head(s) # "compile"
  PROVE  /\ Program(Tail(s))
         /\ \A x : Has(Tail(s), x) => Has(s, x)
         /\ \A x : Has(s, x) /\ x # Head(s) => Has(Tail(s), x)
         /\ Head(s) = "read" => ~Has(Tail(s), "query")
<1>1. /\ s \in Seq(Reading) /\ Len(s) > 1 /\ Tail(s) \in Seq(Reading)
      /\ Len(Tail(s)) = Len(s) - 1 /\ DOMAIN s = 1 .. Len(s) /\ DOMAIN Tail(s) = 1 .. Len(s) - 1
      /\ \A i \in DOMAIN Tail(s) : Tail(s)[i] = s[i + 1]
      /\ Head(s) = s[1]
  BY DEF Program
<1>2. \A i \in DOMAIN s : i = 1 \/ (i - 1 \in DOMAIN Tail(s) /\ Tail(s)[i - 1] = s[i])
  BY <1>1
<1>3. Program(Tail(s))
  BY <1>1 DEF Program
<1>4. \A x : Has(Tail(s), x) => Has(s, x)
  BY <1>1 DEF Has
<1>5. \A x : Has(s, x) /\ x # Head(s) => Has(Tail(s), x)
  BY <1>1, <1>2 DEF Has
<1>6. Head(s) = "read" => ~Has(Tail(s), "query")
  BY <1>1 DEF Has, Program
<1> QED BY <1>3, <1>4, <1>5, <1>6

\* What a step that is at hand tells of what is left to do.
LEMMA Doing ==
  ASSUME Phases, NEW s, Does(s)
  PROVE  /\ ending = None /\ Has(todo, s)
         /\ s \in LateSteps \cup {"pin"} => Alone(s)
         /\ s \in Reading => /\ Program(todo) /\ Head(todo) = s
                             /\ \A x : Alone(x) => x = "compile"
<1>1. ending = None /\ todo # <<>> /\ Head(todo) = s
  BY DEF Does
<1>2. CASE Alone("pin")
  BY <1>1, <1>2 DEF Alone, Has, LateSteps, Reading, EarlySteps
<1>3. ASSUME NEW t \in LateSteps, Alone(t)
      PROVE s = t /\ Has(todo, s)
  BY <1>1, <1>3 DEF Alone, Has
<1>4. CASE Program(todo)
  <2>1. Head(todo) = todo[1] /\ 1 \in DOMAIN todo /\ todo[1] \in Reading
    BY <1>4 DEF Program
  <2>2. \A x : Alone(x) => x = "compile"
    BY <1>4 DEF Alone, Program
  <2> QED BY <1>1, <1>4, <2>1, <2>2 DEF Has, LateSteps, Reading, EarlySteps
<1> QED BY <1>1, <1>2, <1>3, <1>4 DEF Phases, LateSteps, Reading, EarlySteps

LEMMA OnlyOne ==
  \A s, x : Alone(s) => (Has(todo, x) <=> x = s) /\ (Alone(x) <=> x = s)
BY DEF Alone, Has

\* The target is the one that is meant, and the home without others' changes.
LEMMA TargetMeant ==
  ASSUME Typed, InPlace, InScope
  PROVE  /\ Target \in Vaults /\ Target = Meant /\ (pin # None => Target = pin.vault)
         /\ changes = 0 => Target = Home
<1>1. call.vault \in {None, Home}
  BY DEF Typed, Invocations
<1> QED BY <1>1, MutationAssumption DEF InPlace, InScope, Target, Meant, Resolved

\* The steps before the preview.
LEMMA EarlyMove ==
  ASSUME MutationInv, NEW s \in Reading, Does(s),
         UNCHANGED <<call, pin, plan, scope, asserted, stored, consent, agreed, others>>,
         ending' # "dispatched",
         todo' = todo \/ (s # "compile" /\ todo' = Tail(todo)),
         \/ visited' = visited
         \/ visited' = IF call.route \in PinnedRoutes THEN visited \cup {Target} ELSE {}
  PROVE  /\ Phases' /\ Planned' /\ Consent' /\ Expected' /\ InPlace' /\ Batched'
         /\ \A x : Has(todo', x) => Has(todo, x)
         /\ \A x : Has(todo, x) /\ x # s => Has(todo', x)
         /\ ~Alone("pin") /\ ~Alone("pin")'
<1> USE DEF MutationInv, others
<1>1. /\ Program(todo) /\ Head(todo) = s /\ \A x : Alone(x) => x = "compile"
  BY Doing
<1>2. /\ Program(todo')
      /\ \A x : Has(todo', x) => Has(todo, x)
      /\ \A x : Has(todo, x) /\ x # s => Has(todo', x)
  BY <1>1, RestOfProgram
<1>3. \A x : Alone(x)' => x = "compile"
  BY <1>2 DEF Alone, Program
<1>4. ~IsSealed /\ ~IsSealed' /\ ~Alone("pin") /\ ~Alone("pin")' /\ plan = None /\ ~stored
  BY <1>1, <1>3 DEF IsSealed, Sealing, Planned
<1>5. ~Alone("apply") /\ ~Alone("confirm") /\ ~Alone("dispatch") /\ ~Alone("store") /\ ~Alone("assert")
  BY <1>1
<1>6. ~Alone("apply")' /\ ~Alone("confirm")' /\ ~Alone("dispatch")' /\ ~Alone("store")' /\ ~Alone("assert")'
  BY <1>3
<1>7. Phases'
  BY <1>2 DEF Phases, Program
<1>8. call.route # "apply"
  BY <1>5 DEF Planned
<1>9. Planned' /\ Batched'
  BY <1>4, <1>6, <1>8 DEF Planned, Batched
<1>10. Consent' /\ Expected'
  BY <1>5, <1>6 DEF Consent, Expected
<1>11. InPlace'
  <2>1. Target = IF pin # None THEN pin.vault ELSE Target
    BY DEF Target
  <2> QED BY <1>4, <2>1 DEF InPlace, Resolved, Meant
<1> QED BY <1>2, <1>4, <1>7, <1>9, <1>10, <1>11

\* Those of them that learn nothing of the task.
LEMMA BlindMove ==
  ASSUME MutationInv, NEW s \in Reading, Does(s),
         UNCHANGED <<call, pin, plan, scope, asserted, stored, consent, agreed, others, query, got>>,
         ending' # "dispatched",
         todo' = todo \/ (s \notin {"compile", "query", "read"} /\ todo' = Tail(todo)),
         \/ visited' = visited
         \/ visited' = IF call.route \in PinnedRoutes THEN visited \cup {Target} ELSE {}
  PROVE  MutationInv'
<1>1. /\ Phases' /\ Planned' /\ Consent' /\ Expected' /\ InPlace' /\ Batched'
      /\ \A x : Has(todo', x) => Has(todo, x)
      /\ \A x : Has(todo, x) /\ x # s => Has(todo', x)
      /\ ~Alone("pin") /\ ~Alone("pin")'
  BY EarlyMove
<1>2. (Has(todo, "read") <=> Has(todo', "read")) /\ (Has(todo, "query") <=> Has(todo', "query"))
  <2>1. CASE todo' = todo
    BY <2>1
  <2>2. CASE s \notin {"query", "read"}
    BY <1>1, <2>2
  <2> QED BY <2>1, <2>2
<1>3. Typed' /\ HasRead' /\ Searched'
  BY <1>1, <1>2 DEF MutationInv, Typed, HasRead, Searched, Only, others
<1> QED BY <1>1, <1>3 DEF MutationInv

LEMMA MutationStarts == MutationInit => MutationInv
<1> SUFFICES ASSUME MutationInit PROVE MutationInv
  OBVIOUS
<1>1. /\ call \in Invocations
      /\ implicit = Home /\ revision = 0 /\ changes = 0 /\ moved = [v \in Vaults |-> {}]
      /\ titled \in [Vaults -> SUBSET Tasks]
      /\ pin = None /\ visited = {} /\ got = None /\ ending = None /\ scope = None
      /\ query = [matches |-> {}, unseen |-> Tasks, pages |-> 0]
      /\ agreed = (consent = "right")
  BY DEF MutationInit
<1>2. \/ call.route # "apply" /\ Alone("pin") /\ plan = None /\ consent = "none" /\ ~stored
      \/ call.route = "apply" /\ Alone("apply") /\ \E t \in Tasks : plan \in Sealed(Home, t, FALSE)
  BY DEF MutationInit, Alone
<1>3. Typed
  BY <1>1 DEF Typed
<1>4. Phases /\ Expected /\ HasRead /\ Consent /\ Batched
  <2>1. "pin" \notin LateSteps /\ "apply" \in LateSteps
    BY DEF LateSteps
  <2>2. Phases /\ Batched
    BY <1>2, <2>1 DEF Phases, Batched, BatchRoutes
  <2>3. call.named => call.route # "apply"
    BY <1>1 DEF Invocations, NamingRoutes, UpdateRoutes, DirectRoutes, TransitionRoutes
  <2>4. HasRead /\ Expected
    BY <1>1, <1>2, <2>3, OnlyOne DEF HasRead, Expected
  <2>5. Consent
    BY <1>1, NothingAssumption DEF Consent, Outcomes
  <2> QED BY <2>2, <2>4, <2>5
<1>5. IsSealed <=> call.route = "apply"
  BY <1>2, OnlyOne DEF IsSealed, Sealing
<1>6. Planned
  <2>1. \A t \in Tasks : \A p \in Sealed(Home, t, FALSE) :
          p # None /\ p.vault \in Vaults /\ p.effects \in {"none", "same", "some"}
    BY MutationAssumption, PlanAssumption DEF Sealed
  <2> QED BY <1>1, <1>2, <1>5, <2>1, OnlyOne DEF Planned
<1>7. InPlace
  <2>1. "apply" \notin PinnedRoutes
    BY DEF PinnedRoutes, UpdateRoutes
  <2> QED BY <1>1, <1>2, <1>5, <2>1, MutationAssumption DEF InPlace
<1>8. Searched
  <2>1. call.named => call.route # "apply"
    BY <1>1 DEF Invocations, NamingRoutes, UpdateRoutes, DirectRoutes, TransitionRoutes
  <2>2. titled[Home] \ Tasks = {} /\ IsFiniteSet({})
    BY <1>1, MutationAssumption, FS_EmptySet
  <2> QED BY <1>1, <1>2, <2>1, <2>2 DEF Searched
<1> QED BY <1>3, <1>4, <1>6, <1>7, <1>8 DEF MutationInv

LEMMA PinStep == ASSUME MutationInv, Pin PROVE MutationInv'
<1> USE DEF MutationInv, others, answers, planState
<1>1. /\ Alone("pin") /\ ending = None
      /\ UNCHANGED <<call, answers, planState, ending, others>>
      /\ todo' = Course(call) \o <<"compile">>
      /\ pin' = IF call.route \in PinnedRoutes
                  THEN [vault |-> Meant, revision |-> revision] ELSE None
  BY Doing DEF Pin, Meant
<1>2. call.route # "apply" /\ ~IsSealed /\ plan = None /\ ~stored
  BY <1>1, OnlyOne DEF Planned, IsSealed, Sealing
<1>3. /\ Program(todo')
      /\ call.route \in {"create", "adopt"} => ~Has(todo', "read")
      /\ call.named => Has(todo', "read") /\ Has(todo', "query") /\ ~Has(todo', "select")
  BY <1>1, <1>2, CourseIsProgram DEF Typed
<1>4. \A x : Alone(x)' => x = "compile"
  BY <1>3 DEF Alone, Program
<1>5. /\ ~IsSealed' /\ ~Alone("pin")' /\ ~Alone("apply")' /\ ~Alone("confirm")' /\ ~Alone("dispatch")'
      /\ ~Alone("store")' /\ ~Alone("assert")'
  BY <1>4 DEF IsSealed, Sealing
<1>6. Typed' /\ Phases' /\ Planned' /\ Consent' /\ Expected' /\ Batched'
  BY <1>1, <1>2, <1>3, <1>5, NothingAssumption
  DEF Typed, Phases, Planned, Consent, Expected, Batched, Outcomes
<1>7. HasRead' /\ Searched'
  BY <1>1, <1>2, <1>3, <1>5, OnlyOne DEF HasRead, Searched, Only
<1>8. InPlace'
  <2>1. Meant \in Vaults
    BY MutationAssumption DEF InPlace, Meant, Typed, Invocations
  <2>2. call.route \in PinnedRoutes => pin' # None /\ Resolved(pin)'
    BY <1>1, <2>1, NothingAssumption DEF Resolved, Meant, InPlace
  <2> QED BY <1>1, <1>5, <2>2 DEF InPlace
<1> QED BY <1>6, <1>7, <1>8

LEMMA InformStep == ASSUME MutationInv, Inform PROVE MutationInv'
<1>1. PICK s \in {"capabilities", "context"} : Request(s)
  BY DEF Inform
<1>2. /\ Does(s) /\ todo' = Tail(todo)
      /\ UNCHANGED <<call, pin, plan, scope, asserted, stored, consent, agreed, others, query, got, ending>>
      /\ visited' = IF call.route \in PinnedRoutes THEN visited \cup {Target} ELSE {}
  BY <1>1 DEF Inform, Request, GoOn, planState
<1>3. ending' # "dispatched"
  BY <1>2, OnlyOne, Doing DEF MutationInv, Consent
<1>4. s \in Reading \ {"compile", "query", "read"}
  BY DEF Reading, EarlySteps
<1> QED BY <1>2, <1>3, <1>4, BlindMove

LEMMA WizardStep == ASSUME MutationInv, Wizard PROVE MutationInv'
<1>1. /\ Does("wizard") /\ (todo' = Tail(todo) \/ todo' = todo)
      /\ UNCHANGED <<call, pin, plan, scope, asserted, stored, consent, agreed, others, query, got, visited>>
      /\ ending' = ending \/ ending' = "cancelled"
  BY DEF Wizard, GoOn, End, planState, answers
<1>2. ending' # "dispatched"
  BY <1>1, NothingAssumption DEF Does, Outcomes
<1>3. "wizard" \in Reading \ {"compile", "query", "read"}
  BY DEF Reading, EarlySteps
<1> QED BY <1>1, <1>2, <1>3, BlindMove

\* A command that ends leaves everything as it is.
LEMMA EndMove ==
  ASSUME MutationInv, UNCHANGED <<call, todo, pin, answers, plan, scope, asserted, consent, agreed, others>>,
         ending' # "dispatched", stored' => stored,
         call.route \in BatchRoutes /\ stored' /\ ending' # None => BatchAsAsked,
         stored' = stored \/ IsSealed
  PROVE  MutationInv'
<1> USE DEF MutationInv, others, answers
<1>1. IsSealed' <=> IsSealed
  BY DEF IsSealed, Alone
<1>2. Typed' /\ Phases' /\ Consent' /\ Expected' /\ HasRead' /\ Searched' /\ InPlace'
  BY <1>1 DEF Typed, Phases, Alone, Consent, Expected, HasRead, Searched, InPlace, Only, Resolved, Meant
<1>3. Planned' /\ Batched'
  BY <1>1 DEF Planned, Batched, Alone, BatchAsAsked
<1> QED BY <1>2, <1>3

LEMMA RequestFailsStep == ASSUME MutationInv, RequestFails PROVE MutationInv'
<1>1. PICK s \in {"capabilities", "context", "query", "select", "read", "preview"} : Does(s)
  BY DEF RequestFails
<1>2. ~stored
  <2>1. s = "preview" => Alone("preview")
    BY <1>1, Doing DEF MutationInv, LateSteps
  <2>2. s # "preview" => \A x : Alone(x) => x = "compile"
    BY <1>1, Doing DEF MutationInv, Reading, EarlySteps
  <2>3. ~IsSealed
    BY <2>1, <2>2, OnlyOne DEF IsSealed, Sealing
  <2> QED BY <2>3 DEF MutationInv, Planned
<1> QED BY <1>2, EndMove DEF RequestFails, End, planState

LEMMA CompileStep == ASSUME MutationInv, Compile PROVE MutationInv'
<1>1. /\ Does("compile") /\ Program(todo) /\ Head(todo) = "compile"
      /\ UNCHANGED <<call, pin, answers, planState, others>>
  BY Doing DEF MutationInv, Reading, Compile
<1>2. \A x : Alone(x) => x = "compile"
  BY <1>1, Doing DEF MutationInv, Reading
<1>3. ~stored /\ plan = None /\ ~IsSealed /\ call.route # "apply"
  BY <1>2 DEF MutationInv, Planned, IsSealed, Sealing
<1>4. CASE ending' \in {"error", "no-change"} /\ todo' = todo
  BY <1>1, <1>3, <1>4, EndMove DEF planState
<1>5. CASE Alone("preview")' /\ UNCHANGED ending
  <2>1. /\ \A x : Alone(x)' <=> x = "preview"
        /\ \A x : Has(todo', x) <=> x = "preview"
    BY <1>5 DEF Alone, Has
  <2>2. ~IsSealed'
    BY <2>1 DEF IsSealed, Sealing
  <2>3. \A x : Has(todo, x) => x = "compile"
    BY <1>1 DEF Program, Has
  <2> USE <1>1, <1>3, <1>5 DEF MutationInv, planState, answers, others
  <2>4. Phases' /\ Planned' /\ Consent' /\ Expected' /\ Batched'
    BY <1>2, <2>1, <2>2 DEF Phases, LateSteps, Planned, Consent, Expected, Batched
  <2>5. Typed' /\ HasRead'
    BY <1>2, <2>1, <2>3 DEF Typed, HasRead
  <2>6. Searched'
    BY <1>2, <2>1, <2>3 DEF Searched, Only
  <2>7. InPlace'
    BY <1>2, <2>1, <2>2 DEF InPlace, Resolved, Meant
  <2> QED BY <2>4, <2>5, <2>6, <2>7
<1> QED BY <1>4, <1>5 DEF Compile, Turn, End, Alone

LEMMA SelectStep == ASSUME MutationInv, Select PROVE MutationInv'
<1>1. /\ Does("select") /\ InScope
      /\ UNCHANGED <<call, pin, plan, scope, asserted, stored, consent, agreed, others, got>>
      /\ visited' = IF call.route \in PinnedRoutes THEN visited \cup {Target} ELSE {}
  BY DEF Select, Request, planState
<1>2. "select" \in Reading /\ "select" # "compile"
  BY DEF Reading, EarlySteps
<1>3. ending' # "dispatched" /\ (todo' = todo \/ todo' = Tail(todo))
  BY <1>1, NothingAssumption DEF Select, GoOn, End, Does, Outcomes
<1>4. CASE query' = query
  BY <1>1, <1>2, <1>3, <1>4, BlindMove
<1>5. ASSUME NEW t \in Tasks, query' = [query EXCEPT !.matches = {t}] PROVE MutationInv'
  <2>1. /\ Phases' /\ Planned' /\ Consent' /\ Expected' /\ InPlace' /\ Batched'
        /\ \A x : Has(todo', x) => Has(todo, x)
        /\ \A x : Has(todo, x) /\ x # "select" => Has(todo', x)
        /\ ~Alone("pin") /\ ~Alone("pin")'
    BY <1>1, <1>2, <1>3, EarlyMove
  <2>2. ~call.named
    BY <1>1, Doing DEF MutationInv, HasRead
  <2>3. Typed'
    BY <1>1, <1>5 DEF MutationInv, Typed, others
  <2>4. HasRead' /\ Searched'
    BY <1>1, <2>1, <2>2 DEF MutationInv, HasRead, Searched
  <2> QED BY <2>1, <2>3, <2>4 DEF MutationInv
<1> QED BY <1>4, <1>5 DEF Select

LEMMA QueryStep == ASSUME MutationInv, Query PROVE MutationInv'
<1>1. /\ Does("query") /\ InScope
      /\ UNCHANGED <<call, pin, plan, scope, asserted, stored, consent, agreed, others, got>>
      /\ visited' = IF call.route \in PinnedRoutes THEN visited \cup {Target} ELSE {}
  BY DEF Query, Request, planState
<1>2. "query" \in Reading /\ "query" # "compile"
  BY DEF Reading, EarlySteps
<1>3. PICK t \in query.unseen, cursor \in {"none", "new", "seen"} :
       LET matches == IF t \in titled[Target] THEN query.matches \cup {t}
                                              ELSE query.matches
           page == [matches |-> matches, unseen |-> query.unseen \ {t},
                    pages |-> query.pages + 1] IN
       /\ query' = page
       /\ \/ todo' = todo /\ ending' \in {ending, "error"}
          \/ /\ Cardinality(matches) = 1 /\ page.unseen = {}
             /\ todo' = Tail(todo) /\ UNCHANGED ending
  BY DEF Query, End, GoOn
<1> DEFINE matches == IF t \in titled[Target] THEN query.matches \cup {t} ELSE query.matches
<1>4. /\ query'.matches = matches /\ query'.unseen = query.unseen \ {t}
      /\ query' = [matches |-> query'.matches, unseen |-> query'.unseen, pages |-> query'.pages]
  BY <1>3
<1>5. \/ todo' = todo /\ ending' \in {ending, "error"}
      \/ /\ Cardinality(matches) = 1 /\ query.unseen \ {t} = {}
         /\ todo' = Tail(todo) /\ UNCHANGED ending
  BY <1>3
<1>6. ending' # "dispatched"
  BY <1>1, <1>5, NothingAssumption DEF Does, Outcomes
<1>7. /\ Phases' /\ Planned' /\ Consent' /\ Expected' /\ InPlace' /\ Batched'
      /\ \A x : Has(todo', x) => Has(todo, x)
      /\ \A x : Has(todo, x) /\ x # "query" => Has(todo', x)
      /\ ~Alone("pin") /\ ~Alone("pin")'
  BY <1>1, <1>2, <1>5, <1>6, EarlyMove
<1>8. Typed'
  <2>1. matches \subseteq Tasks /\ query.unseen \ {t} \subseteq Tasks
    BY DEF MutationInv, Typed
  <2> QED BY <1>1, <1>4, <2>1 DEF MutationInv, Typed, others
<1>9. HasRead'
  BY <1>1, <1>7 DEF MutationInv, HasRead
<1>10. Searched'
  <2>1. changes = 0 => Target = Home
    BY <1>1, TargetMeant DEF MutationInv
  <2>2. call.named => IsFiniteSet(matches)
    BY FS_AddElement DEF MutationInv, Searched
  <2>3. call.named /\ changes = 0 => matches = titled[Home] \ (query.unseen \ {t})
    BY <2>1 DEF MutationInv, Searched
  <2>4. Has(todo, "query")
    BY <1>1, Doing DEF MutationInv
  <2>5. ~Has(todo', "query") => Cardinality(matches) = 1 /\ query.unseen \ {t} = {}
    BY <1>5, <2>4
  <2> HIDE DEF matches
  <2> QED BY <1>1, <1>4, <2>2, <2>3, <2>5 DEF MutationInv, Searched, Only, others
<1> QED BY <1>7, <1>8, <1>9, <1>10 DEF MutationInv

LEMMA ReadStep == ASSUME MutationInv, Read PROVE MutationInv'
<1>1. /\ Does("read") /\ InScope
      /\ UNCHANGED <<call, pin, plan, scope, asserted, stored, consent, agreed, others, query>>
      /\ visited' = IF call.route \in PinnedRoutes THEN visited \cup {Target} ELSE {}
  BY DEF Read, Request, planState
<1>2. "read" \in Reading /\ "read" # "compile"
  BY DEF Reading, EarlySteps
<1>3. ending' \in {ending, "error"} /\ ending' # "dispatched"
  BY <1>1, NothingAssumption DEF Read, End, Does, Outcomes
<1>4. CASE todo' = todo /\ got' = got
  BY <1>1, <1>2, <1>3, <1>4, BlindMove
<1>5. ASSUME NEW t \in Chosen, ~(call.named /\ t \notin titled[Target]), todo' = Tail(todo),
             got' = [vault |-> Target, task |-> t, at |-> t \in moved[Target],
                     titled |-> t \in titled[Target]]
      PROVE MutationInv'
  <2>1. /\ Phases' /\ Planned' /\ Consent' /\ Expected' /\ InPlace' /\ Batched'
        /\ \A x : Has(todo', x) => Has(todo, x)
        /\ \A x : Has(todo, x) /\ x # "read" => Has(todo', x)
        /\ ~Alone("pin") /\ ~Alone("pin")'
    BY <1>1, <1>2, <1>3, <1>5, EarlyMove
  <2>2. /\ Target \in Vaults /\ t \in Tasks
        /\ changes = 0 => Target = Home
    BY <1>1, TargetMeant DEF MutationInv, Typed, Chosen
  <2>3. got' \in Readings /\ got' # None /\ got'.task = t /\ (call.named => got'.titled)
    <3> DEFINE a == t \in moved[Target]
    <3> DEFINE b == t \in titled[Target]
    <3>1. a \in BOOLEAN /\ b \in BOOLEAN /\ (call.named => b)
      BY <1>5
    <3>2. got' = [vault |-> Target, task |-> t, at |-> a, titled |-> b]
      BY <1>5
    <3> HIDE DEF a, b
    <3>3. got' \in Readings /\ got'.task = t /\ got'.titled = b
      BY <2>2, <3>1, <3>2 DEF Readings
    <3> QED BY <3>1, <3>3, NothingAssumption
  <2>4. Typed'
    BY <1>1, <2>3 DEF MutationInv, Typed, others
  <2>5. Has(todo, "read") /\ ~Has(todo', "query") /\ ~Has(todo, "query")
    <3>1. Program(todo) /\ Head(todo) = "read"
      BY <1>1, <1>2, Doing DEF MutationInv
    <3>2. Has(todo, "read") /\ ~Has(todo', "query")
      BY <1>1, <1>5, <3>1, Doing, RestOfProgram DEF MutationInv
    <3> QED BY <2>1, <3>2
  <2>6. HasRead'
    BY <1>1, <2>1, <2>3, <2>5 DEF MutationInv, HasRead
  <2>7. call.named /\ changes = 0 => titled[Home] = {t}
    <3> SUFFICES ASSUME call.named, changes = 0 PROVE titled[Home] = {t}
      OBVIOUS
    <3>1. /\ query.matches = titled[Home] /\ IsFiniteSet(query.matches)
          /\ Cardinality(query.matches) = 1
      BY <2>1, <2>5 DEF MutationInv, Searched
    <3>2. \E y : query.matches = {y}
      BY <3>1, FS_Singleton
    <3> QED BY <1>5, <3>1, <3>2 DEF Chosen
  <2>8. Searched'
    BY <1>1, <2>1, <2>3, <2>5, <2>7 DEF MutationInv, Searched, Only, others
  <2> QED BY <2>1, <2>4, <2>6, <2>8 DEF MutationInv
<1> QED BY <1>4, <1>5 DEF Read, End, GoOn

LEMMA PreviewStep == ASSUME MutationInv, Preview PROVE MutationInv'
<1> DEFINE t == IF Targeted THEN got.task ELSE CHOOSE new \in Tasks : TRUE
<1>1. /\ Does("preview") /\ InScope /\ todo' = <<"assert">>
      /\ visited' = IF call.route \in PinnedRoutes THEN visited \cup {Target} ELSE {}
      /\ scope' = [vault |-> Target, revision |-> revision]
      /\ plan' \in Sealed(Target, t, t \in moved[Target])
      /\ UNCHANGED <<call, pin, query, got, asserted, stored, consent, agreed, ending, others>>
  BY DEF Preview, Turn
<1>2. plan'.vault = Target /\ plan'.task = t /\ plan'.effects \in {"none", "same", "some"}
  BY <1>1 DEF Sealed
<1>3. Alone("preview") /\ ending = None
  BY <1>1, Doing DEF MutationInv, LateSteps
<1>4. \A x : (Alone(x) <=> x = "preview") /\ (Has(todo, x) <=> x = "preview")
  BY <1>3, OnlyOne
<1>5. /\ Alone("assert")'
      /\ \A x : (Alone(x)' <=> x = "assert") /\ (Has(todo', x) <=> x = "assert")
  BY <1>1 DEF Alone, Has
<1>6. ~IsSealed /\ IsSealed' /\ ~stored /\ call.route # "apply"
  BY <1>4, <1>5 DEF IsSealed, Sealing, MutationInv, Planned
<1>7. /\ Target \in Vaults /\ Target = Meant /\ (pin # None => Target = pin.vault)
      /\ changes = 0 => Target = Home
  BY <1>1, TargetMeant DEF MutationInv
<1> USE DEF MutationInv, others
<1>8. Typed' /\ Phases'
  BY <1>1, <1>5 DEF Typed, Phases, LateSteps
<1>9. Planned'
  <2>1. t \in Tasks
    BY MutationAssumption DEF Typed, Targeted, Readings
  <2>2. (t \in moved[Target]) \in BOOLEAN
    OBVIOUS
  <2> HIDE DEF t
  <2>3. plan' # None
    BY <1>1, <1>7, <2>1, <2>2, PlanAssumption
  <2> QED BY <1>1, <1>2, <1>5, <1>6, <1>7, <2>3 DEF Planned, Targeted, t
<1>10. Consent' /\ Expected' /\ Batched'
  BY <1>1, <1>3, <1>5, <1>6, NothingAssumption DEF Consent, Expected, Batched, Outcomes
<1>11. HasRead' /\ Searched'
  BY <1>1, <1>4, <1>5 DEF HasRead, Searched, Only
<1>12. InPlace'
  <2>1. Resolved(scope)' /\ scope'.vault = plan'.vault
    BY <1>1, <1>2, <1>7 DEF Resolved, Meant, InPlace
  <2>2. call.route \in PinnedRoutes => visited' = {plan'.vault}
    BY <1>1, <1>2, <1>4, <1>7 DEF InPlace
  <2> QED BY <1>1, <1>2, <1>4, <1>5, <1>7, <2>1, <2>2 DEF InPlace, Resolved, Meant
<1> QED BY <1>8, <1>9, <1>10, <1>11, <1>12

\* From one step after the preview to another.
LEMMA LateMove ==
  ASSUME MutationInv, NEW s \in Sealing, NEW t \in Sealing \ {"assert", "store"}, Does(s), todo' = <<t>>,
         UNCHANGED <<call, pin, answers, plan, scope, asserted, others>>,
         call.route = "apply" => t \in {"apply", "confirm", "dispatch"}
  PROVE  /\ Typed' /\ Phases' /\ Planned' /\ HasRead' /\ Searched' /\ InPlace'
         /\ \A x : Alone(x) <=> x = s
         /\ \A x : Alone(x)' <=> x = t
<1>1. Alone(s) /\ Alone(t)'
  BY Doing DEF MutationInv, LateSteps, Sealing, Alone
<1>2. /\ \A x : (Alone(x) <=> x = s) /\ (Has(todo, x) <=> x = s)
      /\ \A x : (Alone(x)' <=> x = t) /\ (Has(todo', x) <=> x = t)
  BY <1>1 DEF Alone, Has
<1>3. IsSealed /\ IsSealed'
  BY <1>1 DEF IsSealed
<1>4. {s, t} \cap (EarlySteps \cup {"pin"}) = {}
  BY DEF Sealing, EarlySteps
<1> USE DEF MutationInv, others, answers
<1>5. Typed' /\ Phases'
  <2>1. t \in LateSteps
    BY DEF LateSteps, Sealing
  <2> QED BY <1>1, <2>1 DEF Typed, Phases
<1>6. Planned'
  BY <1>2, <1>3 DEF Planned
<1>7. HasRead' /\ Searched'
  BY <1>2, <1>4 DEF HasRead, Searched, Only, EarlySteps
<1>8. InPlace'
  BY <1>2, <1>3, <1>4 DEF InPlace, Resolved, Meant
<1> QED BY <1>2, <1>5, <1>6, <1>7, <1>8

LEMMA AssertScopeStep == ASSUME MutationInv, AssertScope PROVE MutationInv'
<1>1. Does("assert") /\ UNCHANGED <<call, pin, answers, plan, scope, stored, consent, agreed, others>>
  BY DEF AssertScope
<1>2. Alone("assert") /\ ending = None /\ ~stored /\ call.route # "apply" /\ IsSealed
  <2>1. Alone("assert") /\ ending = None
    BY <1>1, Doing DEF MutationInv, LateSteps
  <2> QED BY <2>1, OnlyOne DEF MutationInv, Planned, IsSealed, Sealing
<1>3. CASE End("error") /\ UNCHANGED asserted
  BY <1>1, <1>2, <1>3, EndMove DEF End
<1>4. CASE scope.revision = revision /\ asserted' = Meant /\ Turn("store") /\ UNCHANGED ending
  <2>1. /\ \A x : (Alone(x) <=> x = "assert") /\ (Has(todo, x) <=> x = "assert")
        /\ \A x : (Alone(x)' <=> x = "store") /\ (Has(todo', x) <=> x = "store")
    BY <1>2, <1>4, OnlyOne DEF Turn, Alone, Has
  <2>2. IsSealed' /\ "store" \in LateSteps /\ Alone("store")'
    BY <2>1 DEF IsSealed, Sealing, LateSteps
  <2> USE DEF MutationInv, others, answers
  <2>3. Typed' /\ Phases'
    BY <1>1, <2>2 DEF Typed, Phases
  <2>4. Planned'
    <3>1. plan.vault = Meant
      BY <1>2, <1>4 DEF InPlace, Resolved
    <3> QED BY <1>1, <1>2, <1>4, <2>1, <2>2, <3>1 DEF Planned
  <2>5. HasRead' /\ Searched'
    BY <1>1, <2>1 DEF HasRead, Searched, Only
  <2>6. InPlace'
    BY <1>1, <1>2, <2>1, <2>2 DEF InPlace, Resolved, Meant
  <2>7. Consent' /\ Expected' /\ Batched'
    BY <1>1, <1>2, <1>4, <2>1, NothingAssumption DEF Consent, Expected, Batched, Outcomes
  <2> QED BY <2>3, <2>4, <2>5, <2>6, <2>7
<1> QED BY <1>3, <1>4 DEF AssertScope

LEMMA StorePlanStep == ASSUME MutationInv, StorePlan PROVE MutationInv'
<1>1. /\ Does("store") /\ "store" \in Sealing /\ "decide" \in Sealing \ {"assert", "store"}
      /\ UNCHANGED <<call, pin, answers, plan, scope, asserted, consent, agreed, others>>
  BY DEF StorePlan, Sealing
<1>2. Alone("store") /\ ending = None /\ ~stored /\ call.route # "apply"
  <2>1. Alone("store") /\ ending = None
    BY <1>1, Doing DEF MutationInv, LateSteps
  <2> QED BY <2>1, OnlyOne DEF MutationInv, Planned
<1>3. CASE End("error") /\ UNCHANGED stored
  BY <1>1, <1>2, <1>3, EndMove DEF End
<1>4. CASE todo' = <<"decide">> /\ UNCHANGED ending
  <2>1. /\ Typed' /\ Phases' /\ Planned' /\ HasRead' /\ Searched' /\ InPlace'
        /\ \A x : Alone(x)' <=> x = "decide"
    BY <1>1, <1>2, <1>4, LateMove
  <2>2. Consent' /\ Expected' /\ Batched'
    BY <1>1, <1>2, <1>4, <2>1, NothingAssumption
    DEF MutationInv, Consent, Expected, Batched, Outcomes
  <2> QED BY <2>1, <2>2 DEF MutationInv
<1> QED BY <1>3, <1>4 DEF StorePlan, Turn

\* A decision ends the command, asks, or goes on to apply what was expected.
LEMMA DecisionMade ==
  ASSUME MutationInv, Does("decide"), UNCHANGED <<call, pin, answers, plan, scope, asserted, others>>,
         UNCHANGED <<consent, agreed>>,
         \/ /\ ending' \in {"error", "saved", "no-change"} /\ todo' = todo
            /\ stored' = stored \/ stored' = FALSE
            /\ call.route \in BatchRoutes /\ stored' => BatchAsAsked
         \/ /\ UNCHANGED <<ending, stored>> /\ call.route \notin BatchRoutes
            /\ \/ todo' = <<"word">> \/ todo' = <<"agree">>
               \/ /\ todo' = <<"apply">>
                  /\ call.route \in {"create"} \cup UpdateRoutes \cup DirectRoutes /\ ~call.preview
                  /\ plan.spec # "other"
                  /\ got # None => plan.task = got.task /\ plan.at = got.at
                  /\ plan.warned = "no" \/ (plan.warned = "projected" /\ call.route = "create")
  PROVE  MutationInv'
<1>1. /\ "decide" \in Sealing /\ {"word", "agree", "apply"} \subseteq Sealing \ {"assert", "store"}
      /\ Alone("decide") /\ ending = None
  BY Doing DEF MutationInv, LateSteps, Sealing
<1>2. \A x : Alone(x) <=> x = "decide"
  BY <1>1, OnlyOne
<1>3. call.route # "apply"
  BY <1>2 DEF MutationInv, Planned
<1>4. CASE /\ ending' \in {"error", "saved", "no-change"} /\ todo' = todo
           /\ stored' = stored \/ stored' = FALSE
           /\ call.route \in BatchRoutes /\ stored' => BatchAsAsked
  <2>1. IsSealed
    BY <1>1 DEF IsSealed
  <2> QED BY <1>4, <2>1, EndMove
<1>5. ASSUME NEW t \in {"word", "agree", "apply"}, todo' = <<t>>, UNCHANGED <<ending, stored>>,
             call.route \notin BatchRoutes,
             t = "apply" =>
                  /\ call.route \in {"create"} \cup UpdateRoutes \cup DirectRoutes /\ ~call.preview
                  /\ plan.spec # "other"
                  /\ got # None => plan.task = got.task /\ plan.at = got.at
                  /\ plan.warned = "no" \/ (plan.warned = "projected" /\ call.route = "create")
      PROVE MutationInv'
  <2>1. /\ Typed' /\ Phases' /\ Planned' /\ HasRead' /\ Searched' /\ InPlace'
        /\ \A x : Alone(x)' <=> x = t
    BY <1>1, <1>3, <1>5, LateMove
  <2>2. Consent' /\ Batched'
    BY <1>1, <1>5, NothingAssumption DEF MutationInv, Consent, Batched, Outcomes
  <2>3. Expected'
    BY <1>5, <2>1 DEF Expected, answers
  <2> QED BY <2>1, <2>2, <2>3 DEF MutationInv
<1> QED BY <1>4, <1>5

\* The arms of previewAndMaybeApplyDirectIntentV1 leave nothing out.
LEMMA DirectChoices ==
  ASSUME MutationInv, DecideDirect
  PROVE  /\ UNCHANGED <<consent, agreed>>
         /\ \/ ending' \in {"saved", "no-change"} /\ todo' = todo /\ stored' \in {stored, FALSE}
            \/ todo' = <<"word">> /\ UNCHANGED <<stored, ending>>
            \/ todo' = <<"apply">> /\ UNCHANGED <<stored, ending>> /\ ~call.preview
                 /\ ExpectedDirect /\ Safe
<1> USE DEF DecideStep, Deciding, Save, GoApply, Discard, End, Turn
<1>1. plan.effects \in {"none", "same", "some"} /\ call.preview \in BOOLEAN
  <2>1. Alone("decide")
    BY Doing DEF DecideDirect, MutationInv, LateSteps
  <2>2. IsSealed
    BY <2>1 DEF IsSealed, Sealing
  <2> QED BY <2>2 DEF MutationInv, Planned, Typed, Invocations
<1>2. CASE plan.effects = "none" \/ call.preview
  BY <1>1, <1>2 DEF DecideDirect
<1>3. CASE plan.effects = "same" /\ ~call.preview
  BY <1>1, <1>3 DEF DecideDirect
<1>4. CASE plan.effects = "some" /\ ~call.preview
  BY <1>1, <1>4 DEF DecideDirect
<1> QED BY <1>1, <1>2, <1>3, <1>4

LEMMA DecideSteps ==
  ASSUME MutationInv, \/ DecideTyped \/ DecideBatch \/ DecideCreate \/ DecideUpdate
                      \/ DecideDirect \/ DecideGuided
  PROVE  MutationInv'
<1> USE DEF DecideStep, Deciding, Save, GoApply, Discard, End, Turn
<1>0. /\ Does("decide") /\ UNCHANGED <<call, pin, answers, plan, scope, asserted, others>>
      /\ UNCHANGED <<consent, agreed>>
  <2>1. ASSUME DecideTyped \/ DecideBatch \/ DecideCreate \/ DecideGuided
        PROVE  /\ Does("decide") /\ UNCHANGED <<call, pin, answers, plan, scope, asserted, others>>
               /\ UNCHANGED <<consent, agreed>>
    BY <2>1 DEF DecideTyped, DecideBatch, DecideCreate, DecideGuided
  <2>2. ASSUME DecideUpdate
        PROVE  /\ Does("decide") /\ UNCHANGED <<call, pin, answers, plan, scope, asserted, others>>
               /\ UNCHANGED <<consent, agreed>>
    BY <2>2 DEF DecideUpdate
  <2>3. ASSUME DecideDirect
        PROVE  /\ Does("decide") /\ UNCHANGED <<call, pin, answers, plan, scope, asserted, others>>
               /\ UNCHANGED <<consent, agreed>>
    BY <2>3, DirectChoices DEF DecideDirect
  <2> QED BY <2>1, <2>2, <2>3
<1>1. /\ {"typed", "create-input", "create"} \cap BatchRoutes = {}
      /\ UpdateRoutes \cap BatchRoutes = {} /\ DirectRoutes \cap BatchRoutes = {}
      /\ GuidedRoutes \cap BatchRoutes = {} /\ "create" \notin UpdateRoutes \cup DirectRoutes
  BY DEF BatchRoutes, UpdateRoutes, DirectRoutes, GuidedRoutes, TransitionRoutes, MaintenanceRoutes
<1>2. call.route \in {"create", "adopt"} => got = None
  BY DEF MutationInv, HasRead
<1>3. CASE DecideTyped
  BY <1>0, <1>1, <1>3, DecisionMade DEF DecideTyped
<1>4. CASE DecideBatch
  BY <1>0, <1>4, DecisionMade DEF DecideBatch, ExpectedBatchCreation, ExpectedBatchUpdate,
       ExpectedTarget, BatchAsAsked, BatchRoutes
<1>5. CASE DecideCreate
  <2>1. \/ ending' = "saved" /\ todo' = todo /\ stored' = stored
        \/ todo' = <<"apply">> /\ UNCHANGED <<stored, ending>> /\ ~call.preview
             /\ plan.spec = "asked" /\ Safe
    BY <1>5 DEF DecideCreate, ExpectedCreation
  <2>2. call.route = "create"
    BY <1>5 DEF DecideCreate
  <2> QED BY <1>0, <1>1, <1>2, <2>1, <2>2, DecisionMade DEF Safe
<1>6. CASE DecideUpdate
  <2>1. \/ ending' = "saved" /\ todo' = todo /\ stored' = stored
        \/ todo' = <<"apply">> /\ UNCHANGED <<stored, ending>> /\ ~call.preview
             /\ plan.spec \in {"asked", "bound"} /\ ExpectedTarget /\ Safe
    BY <1>6 DEF DecideUpdate, ExpectedUpdate, ExpectedRecurrence, ExpectedRelationship, UpdateRoutes
  <2>2. call.route \in UpdateRoutes
    BY <1>6 DEF DecideUpdate
  <2> QED BY <1>0, <1>1, <2>1, <2>2, DecisionMade DEF Safe, ExpectedTarget
<1>7. CASE DecideDirect
  <2>1. call.route \in DirectRoutes
    BY <1>7 DEF DecideDirect
  <2>2. \/ ending' \in {"saved", "no-change"} /\ todo' = todo /\ stored' \in {stored, FALSE}
        \/ todo' = <<"word">> /\ UNCHANGED <<stored, ending>>
        \/ todo' = <<"apply">> /\ UNCHANGED <<stored, ending>> /\ ~call.preview
             /\ ExpectedDirect /\ Safe
    BY <1>7, DirectChoices
  <2>3. ExpectedDirect => /\ plan.spec \in {"asked", "bound"}
                          /\ got # None => ExpectedTarget
    BY <1>2 DEF ExpectedDirect, ExpectedAdoption, ExpectedPinned, ExpectedRelocation,
      ExpectedSession, ExpectedConversion
  <2> QED BY <1>0, <1>1, <2>1, <2>2, <2>3, DecisionMade DEF Safe, ExpectedTarget
<1>8. CASE DecideGuided
  <2>1. call.route \in GuidedRoutes
    BY <1>8 DEF DecideGuided
  <2>2. \/ ending' = "saved" /\ todo' = todo /\ stored' = stored
        \/ todo' \in {<<"word">>, <<"agree">>} /\ UNCHANGED <<stored, ending>>
    BY <1>8 DEF DecideGuided
  <2> QED BY <1>0, <1>1, <2>1, <2>2, DecisionMade
<1> QED BY <1>3, <1>4, <1>5, <1>6, <1>7, <1>8

\* A question is answered.
LEMMA AnswerStep == ASSUME MutationInv, Confirm \/ Agree \/ Deny \/ InputCloses PROVE MutationInv'
<1>1. PICK s \in {"word", "agree", "confirm"} : Does(s)
  BY DEF Confirm, Agree, Deny, InputCloses
<1>2. /\ s \in Sealing /\ {"apply", "dispatch"} \subseteq Sealing \ {"assert", "store"}
      /\ Alone(s) /\ IsSealed /\ ending = None
  BY <1>1, Doing DEF MutationInv, LateSteps, Sealing, IsSealed
<1>3. \A x : Alone(x) <=> x = s
  BY <1>2, OnlyOne
<1>4. call.route \notin BatchRoutes \/ ~stored
  BY <1>3 DEF MutationInv, Batched
<1>5. ASSUME NEW t \in {"apply", "dispatch"}, todo' = <<t>>, agreed' = TRUE,
             UNCHANGED <<call, pin, answers, plan, scope, asserted, stored, ending, others>>,
             call.route = "apply" => t = "dispatch"
      PROVE MutationInv'
  <2>1. /\ Typed' /\ Phases' /\ Planned' /\ HasRead' /\ Searched' /\ InPlace'
        /\ \A x : Alone(x)' <=> x = t
    BY <1>1, <1>2, <1>5, LateMove
  <2>2. Consent' /\ Expected' /\ Batched'
    BY <1>2, <1>4, <1>5, NothingAssumption DEF Consent, Expected, Batched, Outcomes
  <2> QED BY <2>1, <2>2 DEF MutationInv
<1>6. CASE Confirm
  <2>1. Does("word") => Alone("word")
    BY Doing DEF MutationInv, LateSteps
  <2>2. call.route = "apply" => ~Does("word")
    BY <2>1, OnlyOne DEF MutationInv, Planned
  <2>3. PICK t \in {"apply", "dispatch"} : todo' = <<t>> /\ (call.route = "apply" => t = "dispatch")
    BY <1>6, <2>2 DEF Confirm, Turn
  <2> QED BY <1>5, <1>6, <2>3 DEF Confirm
<1>7. CASE Agree
  <2>1. call.route # "apply"
    <3>1. Alone("agree")
      BY <1>7, Doing DEF MutationInv, LateSteps, Agree
    <3> QED BY <3>1, OnlyOne DEF MutationInv, Planned
  <2>2. "apply" \in {"apply", "dispatch"} /\ todo' = <<"apply">>
    BY <1>7 DEF Agree, Turn
  <2> QED BY <1>5, <1>7, <2>1, <2>2 DEF Agree
<1>8. CASE Deny
  <2>1. /\ ending' \in {"saved", "error"}
        /\ UNCHANGED <<call, todo, pin, answers, plan, scope, asserted, consent, agreed, others, stored>>
    BY <1>8 DEF Deny, End, planState
  <2> QED BY <1>4, <2>1, EndMove
<1>9. CASE InputCloses
  <2>1. /\ ending' \in {"saved", "error", "silence"}
        /\ UNCHANGED <<call, todo, pin, answers, plan, scope, asserted, consent, agreed, others, stored>>
    BY <1>9 DEF InputCloses, End, planState
  <2> QED BY <1>4, <2>1, EndMove
<1> QED BY <1>6, <1>7, <1>8, <1>9

LEMMA ApplyPlanStep == ASSUME MutationInv, ApplyPlan PROVE MutationInv'
<1>1. /\ Does("apply") /\ UNCHANGED <<call, pin, answers, planState, others>>
  BY DEF ApplyPlan
<1>2. /\ "apply" \in Sealing /\ {"confirm", "dispatch"} \subseteq Sealing \ {"assert", "store"}
      /\ Alone("apply") /\ ending = None
  BY <1>1, Doing DEF MutationInv, LateSteps, Sealing
<1>3. \A x : Alone(x) <=> x = "apply"
  BY <1>2, OnlyOne
<1>4. call.route \notin BatchRoutes \/ ~stored
  BY <1>3 DEF MutationInv, Batched
<1>5. CASE End("error")
  BY <1>1, <1>4, <1>5, EndMove DEF End, planState
<1>6. ASSUME NEW t \in {"confirm", "dispatch"}, todo' = <<t>>, UNCHANGED ending
      PROVE MutationInv'
  <2>1. /\ Typed' /\ Phases' /\ Planned' /\ HasRead' /\ Searched' /\ InPlace'
        /\ \A x : Alone(x)' <=> x = t
    BY <1>1, <1>2, <1>6, LateMove DEF planState
  <2>2. Expected'
    BY <1>1, <1>2, <2>1 DEF MutationInv, Expected, planState, answers
  <2>3. Consent' /\ Batched'
    BY <1>1, <1>2, <1>4, <1>6, NothingAssumption
    DEF MutationInv, Consent, Batched, Outcomes, planState
  <2> QED BY <2>1, <2>2, <2>3 DEF MutationInv
<1>7. \/ End("error")
      \/ \E t \in {"confirm", "dispatch"} : todo' = <<t>> /\ UNCHANGED ending
  BY DEF ApplyPlan, Turn
<1> QED BY <1>5, <1>6, <1>7

LEMMA DispatchStep == ASSUME MutationInv, Dispatch PROVE MutationInv'
<1>1. /\ Does("dispatch")
      /\ UNCHANGED <<call, todo, pin, visited, query, got, plan, scope, asserted, stored, consent, agreed, others>>
      /\ \/ ending' = "error"
         \/ ending' = "dispatched" /\ (plan.risk \in Risky => consent = "right")
  BY DEF Dispatch, End, planState, answers
<1>2. Alone("dispatch")
  BY <1>1, Doing DEF MutationInv, LateSteps
<1>3. IsSealed /\ (call.route \notin BatchRoutes \/ ~stored)
  BY <1>2, OnlyOne DEF MutationInv, Batched, IsSealed, Sealing
<1>4. CASE ending' = "error"
  BY <1>1, <1>3, <1>4, EndMove DEF answers
<1>5. CASE ending' = "dispatched" /\ (plan.risk \in Risky => consent = "right")
  <2> USE <1>1, <1>2, <1>3, <1>5 DEF MutationInv, others, answers
  <2>1. IsSealed' <=> IsSealed
    BY DEF IsSealed, Alone
  <2>2. Typed' /\ Phases' /\ HasRead' /\ Searched' /\ InPlace'
    BY <2>1 DEF Typed, Phases, Alone, HasRead, Searched, InPlace, Only, Resolved, Meant
  <2>3. Planned' /\ Batched' /\ Consent' /\ Expected'
    BY <2>1 DEF Planned, Batched, Alone, Consent, Expected
  <2> QED BY <2>2, <2>3
<1> QED BY <1>1, <1>4, <1>5

LEMMA ChangeDefaultStep == ASSUME MutationInv, ChangeDefault PROVE MutationInv'
<1>1. /\ implicit' \in Vaults /\ revision' = revision + 1 /\ changes' = changes + 1
      /\ UNCHANGED <<call, todo, pin, visited, query, got, plan, scope, asserted, stored, consent, agreed,
                     ending, titled, moved>>
  BY DEF ChangeDefault, OtherStep, answers, planState
<1> USE <1>1 DEF MutationInv
<1>2. IsSealed' <=> IsSealed
  BY DEF IsSealed, Alone
<1>3. Typed' /\ Phases' /\ HasRead' /\ Planned' /\ Batched' /\ Consent' /\ Expected'
  BY <1>2 DEF Typed, Phases, Alone, HasRead, Planned, Batched, BatchAsAsked, Consent, Expected
<1>4. revision \in Nat /\ changes \in Nat /\ revision' # 0 /\ changes' # 0
  BY DEF InPlace
<1>5. \A q : q.revision \in 0 .. revision => q.revision \in 0 .. revision' /\ q.revision # revision'
  BY <1>4
<1>6. InPlace' /\ Searched'
  BY <1>2, <1>4, <1>5 DEF InPlace, Searched, Alone, Resolved
<1> QED BY <1>3, <1>6

LEMMA EditStep == ASSUME MutationInv, Edit PROVE MutationInv'
<1>1. /\ changes' = changes + 1 /\ plan = None
      /\ titled' \in [Vaults -> SUBSET Tasks] /\ moved' \in [Vaults -> SUBSET Tasks]
      /\ UNCHANGED <<call, todo, pin, visited, query, got, plan, scope, asserted, stored, consent, agreed,
                     ending, implicit, revision>>
  BY DEF Edit, OtherStep, answers, planState, MutationInv, Typed
<1> USE <1>1 DEF MutationInv
<1>2. IsSealed' <=> IsSealed
  BY DEF IsSealed, Alone
<1>3. Typed' /\ Phases' /\ HasRead' /\ Planned' /\ Batched' /\ Consent' /\ Expected'
  BY <1>2 DEF Typed, Phases, Alone, HasRead, Planned, Batched, BatchAsAsked, Consent, Expected
<1>4. changes \in Nat /\ changes' # 0
  BY DEF InPlace
<1>5. InPlace' /\ Searched'
  BY <1>2, <1>4 DEF InPlace, Searched, Alone, Resolved, Meant
<1> QED BY <1>3, <1>5

LEMMA MutationSteps == MutationInv /\ [MutationNext]_mutationVars => MutationInv'
<1> SUFFICES ASSUME MutationInv, [MutationNext]_mutationVars PROVE MutationInv'
  OBVIOUS
<1>1. CASE Command
  BY <1>1, PinStep, RequestFailsStep, InformStep, QueryStep, SelectStep, ReadStep, WizardStep,
    CompileStep, PreviewStep, AssertScopeStep, StorePlanStep, DecideSteps, AnswerStep, ApplyPlanStep, DispatchStep
  DEF Command
<1>2. CASE UNCHANGED mutationVars
  BY <1>2 DEF mutationVars, answers, planState, others, MutationInv, Typed, Phases, Alone, Planned,
    IsSealed, Consent, Expected, HasRead, Searched, Only, InPlace, Resolved, Meant, Batched,
    BatchAsAsked
<1> QED BY <1>1, <1>2, ChangeDefaultStep, EditStep DEF MutationNext

LEMMA AlwaysMutation == MutationSpec => []MutationInv
BY MutationStarts, MutationSteps, PTL DEF MutationSpec

THEOREM NothingIsUnagreed == MutationSpec => []NothingUnagreed
<1>1. MutationInv => NothingUnagreed
  BY DEF MutationInv, NothingUnagreed, RiskIsConfirmed, UnseenIsExpected, Dispatched, Consent, Expected
<1> QED BY <1>1, AlwaysMutation, PTL

LEMMA InvGivesTarget == MutationInv => NamedTask /\ OneVault /\ BatchKept
<1> SUFFICES ASSUME MutationInv PROVE NamedTask /\ OneVault /\ BatchKept
  OBVIOUS
<1>1. NamedTask
  <2> SUFFICES ASSUME Dispatched, call.named
               PROVE got.titled /\ (changes = 0 => titled[plan.vault] = {plan.task})
    BY DEF NamedTask
  <2>1. Alone("dispatch") /\ \A x : (Alone(x) <=> x = "dispatch") /\ (Has(todo, x) <=> x = "dispatch")
    BY OnlyOne DEF MutationInv, Consent, Dispatched
  <2>2. IsSealed /\ call.route # "apply"
    <3>1. call.route \in NamingRoutes
      BY DEF MutationInv, Typed, Invocations
    <3> QED BY <2>1, <3>1 DEF IsSealed, Sealing, NamingRoutes, UpdateRoutes, DirectRoutes, TransitionRoutes
  <2>3. got # None /\ got.titled
    BY <2>1 DEF MutationInv, HasRead
  <2>4. plan.task = got.task /\ (changes = 0 => plan.vault = Home)
    BY <2>2, <2>3 DEF MutationInv, Planned, InPlace
  <2> QED BY <2>3, <2>4 DEF MutationInv, Searched, Only
<1>2. OneVault
  <2>1. plan # None => IsSealed
    BY DEF MutationInv, Planned
  <2>2. call.route \in PinnedRoutes => call.route # "apply"
    BY DEF PinnedRoutes, UpdateRoutes
  <2> QED BY <2>1, <2>2 DEF OneVault, MutationInv, InPlace
<1>3. BatchKept
  BY DEF BatchKept, MutationInv, Batched
<1> QED BY <1>1, <1>2, <1>3

THEOREM CommandsMeanTheirTarget == MutationSpec => TargetIsMeant
<1>1. MutationInv /\ [MutationNext]_mutationVars => [StoredWhereMeant]_mutationVars
  <2> SUFFICES ASSUME MutationInv, MutationNext, ~stored, stored'
               PROVE  plan.vault = asserted
    BY DEF StoredWhereMeant, mutationVars, planState
  <2>1. CASE StorePlan
    <3>1. Alone("store")
      BY <2>1, Doing DEF StorePlan, MutationInv, LateSteps
    <3> QED BY <3>1 DEF MutationInv, Planned
  <2>2. ASSUME DecideTyped \/ DecideBatch \/ DecideCreate \/ DecideUpdate \/ DecideGuided
        PROVE  stored' => stored
    BY <2>2 DEF DecideTyped, DecideBatch, DecideCreate, DecideUpdate, DecideGuided, Save, Discard,
      GoApply
  <2>3. DecideDirect => (stored' => stored)
    BY DirectChoices
  <2>4. ASSUME Pin \/ RequestFails \/ Inform \/ Query \/ Select \/ Read \/ Wizard \/ Compile \/ Preview
        PROVE  stored' = stored
    BY <2>4 DEF Pin, RequestFails, Inform, Query, Select, Read, Wizard, Compile, Preview, Request,
      planState
  <2>5. ASSUME \/ Confirm \/ Agree \/ Deny \/ InputCloses \/ ApplyPlan \/ Dispatch
               \/ AssertScope \/ ChangeDefault \/ Edit
        PROVE  stored' = stored
    BY <2>5 DEF AssertScope, Confirm, Agree, Deny, InputCloses, ApplyPlan, Dispatch, ChangeDefault, Edit,
      OtherStep, planState
  <2> QED BY <2>1, <2>2, <2>3, <2>4, <2>5 DEF MutationNext, Command
<1> QED BY <1>1, AlwaysMutation, InvGivesTarget, PTL DEF MutationSpec, TargetIsMeant

\* A query that may go on has pages left, and there are no more versions of
\* the configuration than changes.
PagesLeft == query.pages < MaxPages \/ query.unseen = {} \/ ending # None

MutationTyped ==
  MutationTypeOK /\ PagesLeft /\ changes \in 0 .. MaxChanges /\ revision \in 0 .. changes

\* Steps that neither ask the Runtime nor store a plan.
LEMMA QuietMove ==
  ASSUME MutationTyped, ending = None, UNCHANGED <<call, pin, answers, plan, asserted, others>>,
         stored' => stored, consent' \in {consent, "right"}, agreed' \in BOOLEAN,
         ending' \in Outcomes \cup {None}
  PROVE  MutationTyped'
BY DEF MutationTyped, MutationTypeOK, PagesLeft, answers, others

\* Steps that ask the Runtime before there is a plan.
LEMMA AskingMove ==
  ASSUME MutationInv, MutationTyped, NEW s, Request(s), got' \in Readings \cup {None},
         query' \in [matches : SUBSET Tasks, unseen : SUBSET Tasks, pages : 0 .. MaxPages],
         ending' \in Outcomes \cup {None}, PagesLeft'
  PROVE  MutationTyped'
<1>1. /\ UNCHANGED <<call, pin, planState, others>>
      /\ visited' = IF call.route \in PinnedRoutes THEN visited \cup {Target} ELSE {}
  BY DEF Request
<1>2. Target \in Vaults
  BY TargetMeant DEF MutationInv, Request
<1> QED BY <1>1, <1>2 DEF MutationTyped, MutationTypeOK, planState, others

LEMMA MutationStartsTyped == MutationInit => MutationTyped
<1> SUFFICES ASSUME MutationInit PROVE MutationTyped
  OBVIOUS
<1>1. query = [matches |-> {}, unseen |-> Tasks, pages |-> 0]
  BY DEF MutationInit
<1>2. /\ query \in [matches : SUBSET Tasks, unseen : SUBSET Tasks, pages : 0 .. MaxPages]
      /\ query.pages < MaxPages
  BY <1>1, MutationAssumption
<1>3. /\ changes \in 0 .. MaxChanges /\ revision \in 0 .. changes /\ visited = {} /\ pin = None
      /\ got = None /\ ending = None /\ asserted = None /\ call \in Invocations
      /\ agreed \in BOOLEAN
  BY MutationAssumption DEF MutationInit
<1>4. CASE call.route = "apply"
  <2>1. PICK t \in Tasks : plan \in Sealed(Home, t, FALSE)
    BY <1>4 DEF MutationInit
  <2>2. plan # None
    BY <2>1, PlanAssumption, MutationAssumption
  <2>3. consent \in {"none", "right", "wrong"}
    BY <1>4 DEF MutationInit
  <2> QED BY <1>2, <1>3, <2>1, <2>2, <2>3, MutationAssumption
          DEF MutationTyped, MutationTypeOK, PagesLeft
<1>5. CASE call.route # "apply"
  <2>1. plan = None /\ consent = "none" /\ stored = FALSE
    BY <1>5 DEF MutationInit
  <2> QED BY <1>2, <1>3, <2>1 DEF MutationTyped, MutationTypeOK, PagesLeft
<1> QED BY <1>4, <1>5

LEMMA MutationStepsTyped ==
  MutationInv /\ MutationTyped /\ [MutationNext]_mutationVars => MutationTyped'
<1> SUFFICES ASSUME MutationInv, MutationTyped, [MutationNext]_mutationVars
             PROVE  MutationTyped'
  OBVIOUS
<1>0. /\ query \in [matches : SUBSET Tasks, unseen : SUBSET Tasks, pages : 0 .. MaxPages]
      /\ PagesLeft /\ got \in Readings \cup {None} /\ ending \in Outcomes \cup {None}
      /\ changes \in 0 .. MaxChanges /\ revision \in 0 .. changes /\ agreed \in BOOLEAN
  BY DEF MutationTyped, MutationTypeOK
<1>1. CASE UNCHANGED mutationVars
  BY <1>1 DEF mutationVars, MutationTyped, MutationTypeOK, PagesLeft, answers, planState, others
<1>2. CASE Pin
  <2>1. /\ UNCHANGED <<call, answers, planState, ending, others>>
        /\ pin' = None \/ pin' = [vault |-> Meant, revision |-> revision]
    BY <1>2 DEF Pin, Meant
  <2>2. Meant \in Vaults /\ revision \in 0 .. MaxChanges
    BY <1>0, MutationAssumption DEF MutationInv, InPlace, Meant, Typed, Invocations
  <2>3. pin' = None \/ pin' \in [vault : Vaults, revision : 0 .. MaxChanges]
    BY <2>1, <2>2
  <2> QED BY <2>1, <2>3 DEF MutationTyped, MutationTypeOK, PagesLeft, answers, planState, others
<1>3. CASE RequestFails
  BY <1>0, <1>3, QuietMove DEF RequestFails, End, Does, Outcomes, planState
<1>4. CASE Inform
  <2>1. PICK s \in {"capabilities", "context"} : Request(s)
    BY <1>4 DEF Inform
  <2>2. UNCHANGED <<query, got, ending>>
    BY <1>4 DEF Inform
  <2> QED BY <1>0, <2>1, <2>2, AskingMove DEF PagesLeft
<1>5. CASE Query
  <2>1. PICK t \in query.unseen, cursor \in {"none", "new", "seen"} :
          LET matches == IF t \in titled[Target] THEN query.matches \cup {t}
                                                 ELSE query.matches
              page == [matches |-> matches, unseen |-> query.unseen \ {t},
                       pages |-> query.pages + 1] IN
          /\ query' = page
          /\ \/ ending' = "error"
             \/ page.unseen = {} /\ UNCHANGED ending
             \/ page.pages < MaxPages /\ UNCHANGED ending
    BY <1>5 DEF Query, End
  <2>2. Request("query") /\ UNCHANGED got
    BY <1>5 DEF Query
  <2>3. query.pages < MaxPages
    BY <1>0, <2>1, <2>2 DEF PagesLeft, Request, Does
  <2> DEFINE matches == IF t \in titled[Target] THEN query.matches \cup {t} ELSE query.matches
  <2>4. matches \in SUBSET Tasks /\ query.unseen \ {t} \in SUBSET Tasks
        /\ query.pages + 1 \in 0 .. MaxPages
    BY <1>0, <2>3, MutationAssumption
  <2>5. query' = [matches |-> matches, unseen |-> query.unseen \ {t}, pages |-> query.pages + 1]
    BY <2>1
  <2>6. /\ query' \in [matches : SUBSET Tasks, unseen : SUBSET Tasks, pages : 0 .. MaxPages]
        /\ query'.unseen = query.unseen \ {t} /\ query'.pages = query.pages + 1
    BY <2>4, <2>5
  <2>7. ending' \in Outcomes \cup {None} /\ PagesLeft'
    BY <1>0, <2>1, <2>6, NothingAssumption DEF PagesLeft, Outcomes
  <2> QED BY <1>0, <2>2, <2>6, <2>7, AskingMove
<1>6. CASE Select
  <2>1. /\ Request("select") /\ UNCHANGED got /\ ending' \in Outcomes \cup {None}
        /\ UNCHANGED ending \/ ending' = "cancelled"
    BY <1>0, <1>6 DEF Select, End, Outcomes
  <2>2. /\ query' \in [matches : SUBSET Tasks, unseen : SUBSET Tasks, pages : 0 .. MaxPages]
        /\ query'.unseen = query.unseen /\ query'.pages = query.pages
    BY <1>0, <1>6 DEF Select
  <2>3. PagesLeft'
    BY <1>0, <2>1, <2>2, NothingAssumption DEF PagesLeft, Outcomes
  <2> QED BY <1>0, <2>1, <2>2, <2>3, AskingMove
<1>7. CASE Read
  <2>1. Request("read") /\ UNCHANGED query
    BY <1>7 DEF Read
  <2>2. PICK t \in Chosen :
          IF call.named /\ t \notin titled[Target] THEN ending' = "error" /\ UNCHANGED got
          ELSE /\ got' = [vault |-> Target, task |-> t, at |-> t \in moved[Target],
                          titled |-> t \in titled[Target]]
               /\ UNCHANGED ending
    BY <1>7 DEF Read, End
  <2>3. t \in Tasks /\ Target \in Vaults
    BY <2>1, TargetMeant DEF MutationInv, Request, Typed, Chosen
  <2>4. got' \in Readings \cup {None}
    <3>1. (t \in moved[Target]) \in BOOLEAN /\ (t \in titled[Target]) \in BOOLEAN
      OBVIOUS
    <3>2. [vault |-> Target, task |-> t, at |-> t \in moved[Target], titled |-> t \in titled[Target]]
            \in Readings
      BY <2>3, <3>1, Zenon DEF Readings
    <3> QED BY <1>0, <2>2, <3>2
  <2>5. ending' \in Outcomes \cup {None} /\ PagesLeft'
    BY <1>0, <2>1, <2>2, NothingAssumption DEF PagesLeft, Outcomes
  <2> QED BY <1>0, <2>1, <2>4, <2>5, AskingMove
<1>8. CASE Wizard
  BY <1>0, <1>8, QuietMove DEF Wizard, End, Does, Outcomes, planState
<1>9. CASE Compile
  BY <1>0, <1>9, QuietMove DEF Compile, End, Does, Outcomes, planState
<1>10. CASE Preview
  <2> DEFINE t == IF Targeted THEN got.task ELSE CHOOSE new \in Tasks : TRUE
  <2>1. /\ UNCHANGED <<call, pin, query, got, asserted, stored, consent, agreed, ending, others>>
        /\ plan' \in Sealed(Target, t, t \in moved[Target])
        /\ visited' = IF call.route \in PinnedRoutes THEN visited \cup {Target} ELSE {}
    BY <1>10 DEF Preview
  <2>2. Target \in Vaults
    BY <1>10, TargetMeant DEF MutationInv, Preview
  <2>3. t \in Tasks
    BY <1>0, MutationAssumption DEF Targeted, Readings
  <2>4. (t \in moved[Target]) \in BOOLEAN
    OBVIOUS
  <2> HIDE DEF t
  <2>5. \E v \in Vaults, x \in Tasks, m \in BOOLEAN : plan' \in Sealed(v, x, m)
    BY <2>1, <2>2, <2>3, <2>4
  <2>6. plan' # None
    BY <2>5, PlanAssumption
  <2> QED BY <2>1, <2>2, <2>5, <2>6 DEF MutationTyped, MutationTypeOK, PagesLeft, others
<1>11. CASE StorePlan
  <2>1. /\ UNCHANGED <<call, pin, answers, plan, scope, asserted, consent, agreed, others>>
        /\ ending' \in Outcomes \cup {None} /\ ending = None /\ stored' \in {TRUE, stored}
    BY <1>0, <1>11 DEF StorePlan, Does, End, Outcomes
  <2>2. plan # None
    <3>1. Alone("store")
      BY <1>11, Doing DEF StorePlan, MutationInv, LateSteps
    <3>2. IsSealed
      BY <3>1 DEF IsSealed, Sealing
    <3> QED BY <3>2 DEF MutationInv, Planned
  <2> QED BY <2>1, <2>2 DEF MutationTyped, MutationTypeOK, PagesLeft, answers, others
<1>12. CASE DecideTyped \/ DecideBatch \/ DecideCreate \/ DecideUpdate \/ DecideDirect \/ DecideGuided
  <2>1. /\ ending = None /\ UNCHANGED <<call, pin, answers, plan, asserted, others>>
        /\ stored' => stored
        /\ consent' \in {consent, "right"} /\ agreed' \in BOOLEAN
        /\ ending' \in Outcomes \cup {None}
    <3>1. CASE DecideTyped \/ DecideBatch \/ DecideCreate
      BY <1>0, <3>1 DEF DecideTyped, DecideBatch, DecideCreate, Deciding, DecideStep, Save, GoApply,
        Discard, End, Turn, Does, Outcomes
    <3>2. CASE DecideUpdate
      BY <1>0, <3>2 DEF DecideUpdate, Deciding, DecideStep, Save, GoApply, End, Turn, Does, Outcomes
    <3>3. CASE DecideDirect
      <4>1. ending = None /\ UNCHANGED <<call, pin, answers, plan, asserted, others>>
        BY <3>3 DEF DecideDirect, Deciding, DecideStep, Does
      <4>2. /\ UNCHANGED <<consent, agreed>>
            /\ ending' \in {"saved", "no-change"} \/ UNCHANGED ending
            /\ stored' = stored \/ ~stored'
        BY <3>3, DirectChoices
      <4> QED BY <1>0, <4>1, <4>2 DEF Outcomes
    <3>4. CASE DecideGuided
      BY <1>0, <3>4 DEF DecideGuided, Deciding, DecideStep, Save, End, Turn, Does, Outcomes
    <3> QED BY <1>12, <3>1, <3>2, <3>3, <3>4
  <2> QED BY <1>0, <2>1, QuietMove
<1>13. CASE Confirm \/ Agree \/ Deny \/ InputCloses
  <2>1. /\ ending = None /\ UNCHANGED <<call, pin, answers, plan, asserted, stored, others>>
        /\ ending' \in Outcomes \cup {None}
    BY <1>0, <1>13 DEF Confirm, Agree, Deny, InputCloses, Does, End, Outcomes, planState
  <2>2. consent' \in {consent, "right"} /\ agreed' \in BOOLEAN
    BY <1>0, <1>13 DEF Confirm, Agree, Deny, InputCloses, planState
  <2> QED BY <2>1, <2>2, QuietMove
<1>14. CASE ApplyPlan \/ Dispatch
  BY <1>0, <1>14, QuietMove DEF ApplyPlan, Dispatch, Does, End, Outcomes, planState
<1>15. CASE ChangeDefault
  BY <1>0, <1>15, MutationAssumption
  DEF ChangeDefault, OtherStep, MutationTyped, MutationTypeOK, PagesLeft, answers, planState
<1>16. CASE Edit
  <2>1. /\ changes' = changes + 1 /\ changes < MaxChanges /\ UNCHANGED revision
        /\ UNCHANGED <<call, pin, answers, planState, ending>>
    BY <1>16 DEF Edit, OtherStep
  <2> QED BY <1>0, <2>1, MutationAssumption
          DEF MutationTyped, MutationTypeOK, PagesLeft, answers, planState
<1>17. CASE AssertScope
  <2>1. /\ UNCHANGED <<call, pin, answers, plan, scope, stored, consent, agreed, others>>
        /\ ending' \in {None, "error"} /\ ending = None /\ asserted' \in {Meant, asserted}
    BY <1>17 DEF AssertScope, Does, End
  <2>2. Meant \in Vaults
    BY MutationAssumption DEF MutationInv, InPlace, Meant, Typed, Invocations
  <2> QED BY <2>1, <2>2 DEF MutationTyped, MutationTypeOK, PagesLeft, Outcomes, answers, others
<1> QED BY <1>1, <1>2, <1>3, <1>4, <1>5, <1>6, <1>7, <1>8, <1>9, <1>10, <1>11, <1>12, <1>13, <1>14,
           <1>15, <1>16, <1>17 DEF MutationNext, Command

\* A command's variables keep their types, on every route: in particular a
\* query asks for no more pages than the limit, whatever cursors it is given.
THEOREM MutationTypeCorrect == MutationSpec => []MutationTypeOK
<1>1. MutationInit => MutationInv /\ MutationTyped
  BY MutationStarts, MutationStartsTyped
<1>2. MutationInv /\ MutationTyped /\ [MutationNext]_mutationVars => (MutationInv /\ MutationTyped)'
  BY MutationSteps, MutationStepsTyped
<1>3. MutationInv /\ MutationTyped => MutationTypeOK
  BY DEF MutationTyped
<1> QED BY <1>1, <1>2, <1>3, PTL DEF MutationSpec

(***************************************************************************)
(* The task finder (FinderSpec).                                           *)
(***************************************************************************)

Shown == [criteria : Criteria, version : Nat]
FinderTyped ==
  /\ criteria \in Criteria /\ before \in Filters /\ pages \in Seq(Shown) /\ version \in Nat

\* While the filters are edited the pages are those of the filters before.
StillShown ==
  place # "browse" => \A i \in DOMAIN pages :
    LET origin == pages[i].criteria IN
    /\ origin.query = criteria.query /\ origin.representations = criteria.representations
    /\ origin.project = criteria.project /\ origin.filters = before
    /\ origin.scope = criteria.scope \/ (OpenOnly(origin.scope) /\ criteria.scope = "normal")

FinderInv ==
  FinderTyped /\ PagesMatch /\ StillShown /\ OpenViewsAreOpen /\ StatusesFit

Sound(c) ==
  /\ c \in Criteria
  /\ OpenOnly(c.scope) => c.filters.checkbox = {"open"}
  /\ c.filters.statuses \subseteq StatusesWithin(c.filters.pipelines)

LEMMA SoundNow == FinderInv => Sound(criteria)
BY DEF FinderInv, FinderTyped, OpenViewsAreOpen, StatusesFit, Sound

LEMMA SearchReplaced ==
  ASSUME NEW c \in Criteria, NEW q, NEW s
  PROVE  [c EXCEPT !.query = q, !.scope = s] =
           [query |-> q, filters |-> c.filters, representations |-> c.representations,
            scope |-> s, project |-> c.project]
<1> DEFINE d == [c EXCEPT !.query = q]
<1>1. d = [query |-> q, filters |-> c.filters, representations |-> c.representations,
           scope |-> c.scope, project |-> c.project]
  BY DEF Criteria
<1>2. [c EXCEPT !.query = q, !.scope = s] = [d EXCEPT !.scope = s]
  OBVIOUS
<1> HIDE DEF d
<1>3. [d EXCEPT !.scope = s] =
        [query |-> q, filters |-> c.filters, representations |-> c.representations,
         scope |-> s, project |-> c.project]
  BY <1>1
<1> QED BY <1>2, <1>3

Boxes(c, b) == [checkbox |-> b, pipelines |-> c.filters.pipelines, statuses |-> c.filters.statuses]

LEMMA BoxesReplaced ==
  ASSUME NEW c \in Criteria, NEW b \in Checkboxes, NEW s \in Scopes
  PROVE  LET d == [c EXCEPT !.filters.checkbox = b, !.scope = s] IN
         /\ d \in Criteria /\ d.query = c.query /\ d.representations = c.representations
         /\ d.project = c.project /\ d.scope = s /\ d.filters = Boxes(c, b)
<1>1. c.filters \in Filters
  BY DEF Criteria
<1>2. [c.filters EXCEPT !.checkbox = b] = Boxes(c, b) /\ Boxes(c, b) \in Filters
  BY <1>1 DEF Filters, Boxes
<1> QED BY <1>2 DEF Criteria

LEMMA FinderStarts == FinderInit => FinderInv
<1> SUFFICES ASSUME FinderInit PROVE FinderInv
  OBVIOUS
<1>1. Open \in Filters /\ [mode |-> NoMode, root |-> FALSE] \in Projects
  BY FinderAssumption DEF Open, Filters, Checkboxes, Projects
<1>2. criteria \in Criteria
  BY <1>1, FinderAssumption DEF FinderInit, Criteria
<1> QED BY <1>1, <1>2 DEF FinderInit, FinderInv, FinderTyped, PagesMatch, StillShown, OpenViewsAreOpen,
         StatusesFit, OpenOnly, Open

LEMMA RefineKeeps ==
  ASSUME FinderInv, NEW c, Sound(c), Refine(c)
  PROVE  FinderInv'
BY DEF FinderInv, FinderTyped, PagesMatch, StillShown, OpenViewsAreOpen, StatusesFit,
  OpenOnly, StatusesWithin, Sound, Refine, ResetPages, Quiet, Browsing, InMenu

LEMMA EditKeeps ==
  ASSUME FinderInv, NEW c, Sound(c), EditCriteria(c),
         c.query = criteria.query, c.representations = criteria.representations,
         c.project = criteria.project,
         c.scope = criteria.scope \/ (OpenOnly(criteria.scope) /\ c.scope = "normal")
  PROVE  FinderInv'
<1>1. place = "filters" /\ result = "none" /\ criteria' = c
      /\ UNCHANGED <<pages, index, restarted, place, before, result, version>>
  BY DEF EditCriteria, InMenu, Quiet
<1>2. ~OpenOnly("normal")
  BY DEF OpenOnly
<1> QED BY <1>1, <1>2 DEF FinderInv, FinderTyped, PagesMatch, StillShown, OpenViewsAreOpen, StatusesFit, OpenOnly, StatusesWithin, Sound

\* A page is put after the others, or the pages go.
LEMMA PageKeeps ==
  ASSUME FinderInv, InMenu("browse"), UNCHANGED <<criteria, place, before, version>>,
         \/ pages' = Append(pages, [criteria |-> criteria, version |-> version])
         \/ pages' = <<>> \/ pages' = pages,
         result' # "selected"
  PROVE  FinderInv'
<1> DEFINE shown == [criteria |-> criteria, version |-> version]
<1>1. pages \in Seq(Shown) /\ shown \in Shown
  BY DEF FinderInv, FinderTyped, Shown
<1>2. pages' = Append(pages, shown) \/ pages' = <<>> \/ pages' = pages
  OBVIOUS
<1>3. shown.criteria = criteria
  OBVIOUS
<1> HIDE DEF shown
<1>4. /\ pages' \in Seq(Shown)
      /\ \A i \in DOMAIN pages' : (i \in DOMAIN pages /\ pages'[i] = pages[i]) \/ pages'[i] = shown
  <2>1. CASE pages' = Append(pages, shown)
    BY <1>1, <2>1
  <2>2. CASE pages' = <<>>
    <3>1. <<>> \in Seq(Shown) /\ DOMAIN pages' = {}
      BY <2>2
    <3> QED BY <2>2, <3>1
  <2>3. CASE pages' = pages
    BY <1>1, <2>3
  <2> QED BY <1>2, <2>1, <2>2, <2>3
<1>5. PagesMatch'
  <2> SUFFICES ASSUME NEW i \in DOMAIN pages'
               PROVE  LET origin == pages'[i].criteria IN
                 origin = criteria \/ (OpenOnly(origin.scope)
                                        /\ criteria = [origin EXCEPT !.scope = "normal"])
    BY DEF PagesMatch
  <2>1. CASE pages'[i] = shown
    BY <1>3, <2>1
  <2>2. CASE i \in DOMAIN pages /\ pages'[i] = pages[i]
    BY <2>2 DEF FinderInv, PagesMatch, InMenu
  <2> QED BY <1>4, <2>1, <2>2
<1> QED BY <1>4, <1>5 DEF FinderInv, FinderTyped, StillShown, OpenViewsAreOpen, StatusesFit, InMenu

LEMMA RefiningSteps ==
  ASSUME FinderInv, \/ Search \/ ToggleOpen \/ ChooseRepresentation \/ ChooseScope
                    \/ ChooseProjectMode \/ PickProject
  PROVE  FinderInv'
<1>1. Sound(criteria) /\ criteria \in Criteria
  BY SoundNow DEF Sound
<1>2. /\ criteria.query \in BOOLEAN /\ criteria.filters \in Filters /\ criteria.scope \in Scopes
      /\ criteria.representations \in Kinds /\ criteria.project \in Projects
  BY <1>1 DEF Criteria
<1>3. ~OpenOnly("normal") /\ "normal" \in Scopes /\ {"open"} \in Checkboxes /\ {} \in Checkboxes
  BY FinderAssumption DEF OpenOnly, Checkboxes
<1>4. CASE Search
  <2>1. PICK q \in BOOLEAN :
          Refine([criteria EXCEPT !.query = q, !.scope = IF q THEN "normal" ELSE @])
    BY <1>4 DEF Search
  <2> DEFINE s == IF q THEN "normal" ELSE criteria.scope
  <2> DEFINE c == [query |-> q, filters |-> criteria.filters, scope |-> s,
                   representations |-> criteria.representations, project |-> criteria.project]
  <2>2. s \in Scopes /\ (s = "normal" \/ s = criteria.scope)
    BY <1>2, <1>3
  <2> HIDE DEF s
  <2>3. [criteria EXCEPT !.query = q, !.scope = s] = c
    BY <1>1, SearchReplaced
  <2>4. Sound(c)
    BY <1>1, <1>2, <1>3, <2>2 DEF Sound, Criteria
  <2>5. Refine([criteria EXCEPT !.query = q, !.scope = s])
    BY <2>1 DEF s
  <2>6. Refine(c)
    BY <2>3, <2>5
  <2> QED BY <2>4, <2>6, RefineKeeps
<1>5. CASE ToggleOpen
  <2> DEFINE b == IF criteria.filters.checkbox = {} THEN {"open"} ELSE {}
  <2> DEFINE s == IF OpenOnly(criteria.scope) /\ criteria.filters.checkbox # {}
                    THEN "normal" ELSE criteria.scope
  <2>1. b \in Checkboxes /\ s \in Scopes /\ (OpenOnly(s) => b = {"open"})
    BY <1>1, <1>2, <1>3 DEF Sound
  <2>2. Refine([criteria EXCEPT !.filters.checkbox = b, !.scope = s])
    BY <1>5 DEF ToggleOpen
  <2> HIDE DEF b, s
  <2> DEFINE c == [criteria EXCEPT !.filters.checkbox = b, !.scope = s]
  <2>3. c \in Criteria /\ c.scope = s /\ c.filters = Boxes(criteria, b)
    BY <1>1, <2>1, BoxesReplaced
  <2>4. Refine(c)
    BY <2>2
  <2> HIDE DEF c
  <2>5. Sound(c)
    BY <1>1, <2>1, <2>3 DEF Sound, Boxes
  <2> QED BY <2>4, <2>5, RefineKeeps
<1>6. CASE ChooseRepresentation
  <2>1. PICK r \in Kinds : Refine([criteria EXCEPT !.representations = r])
    BY <1>6 DEF ChooseRepresentation
  <2>2. Sound([criteria EXCEPT !.representations = r])
    BY <1>1, <1>2 DEF Sound, Criteria
  <2> QED BY <2>1, <2>2, RefineKeeps
<1>7. CASE ChooseScope
  <2>1. PICK s \in Scopes :
          Refine([criteria EXCEPT !.scope = s,
                                  !.filters.checkbox = IF OpenOnly(s) THEN {"open"} ELSE @])
    BY <1>7 DEF ChooseScope
  <2> DEFINE b == IF OpenOnly(s) THEN {"open"} ELSE criteria.filters.checkbox
  <2>2. b \in Checkboxes /\ (OpenOnly(s) => b = {"open"})
    BY <1>2, <1>3 DEF Filters
  <2>3. Refine([criteria EXCEPT !.scope = s, !.filters.checkbox = b])
    BY <2>1
  <2> HIDE DEF b
  <2>4. [criteria EXCEPT !.scope = s, !.filters.checkbox = b]
          = [criteria EXCEPT !.filters.checkbox = b, !.scope = s]
    BY <1>1 DEF Criteria
  <2> DEFINE c == [criteria EXCEPT !.filters.checkbox = b, !.scope = s]
  <2>5. c \in Criteria /\ c.scope = s /\ c.filters = Boxes(criteria, b)
    BY <1>1, <2>2, BoxesReplaced
  <2>6. Refine(c)
    BY <2>3, <2>4
  <2> HIDE DEF c
  <2>7. Sound(c)
    BY <1>1, <2>2, <2>5 DEF Sound, Boxes
  <2> QED BY <2>6, <2>7, RefineKeeps
<1>8. CASE ChooseProjectMode \/ PickProject
  <2>1. PICK p \in Projects : Refine([criteria EXCEPT !.project = p])
    <3>1. CASE ChooseProjectMode
      BY <3>1 DEF ChooseProjectMode, Projects
    <3>2. CASE PickProject
      <4> DEFINE p == [mode |-> IF criteria.project.mode = NoMode THEN "direct"
                                ELSE criteria.project.mode, root |-> TRUE]
      <4>1. p \in Projects
        BY <1>2, FinderAssumption DEF Projects
      <4>2. Refine([criteria EXCEPT !.project = p])
        BY <3>2 DEF PickProject
      <4> QED BY <4>1, <4>2
    <3> QED BY <1>8, <3>1, <3>2
  <2>2. Sound([criteria EXCEPT !.project = p])
    BY <1>1, <1>2 DEF Sound, Criteria
  <2> QED BY <2>1, <2>2, RefineKeeps
<1> QED BY <1>4, <1>5, <1>6, <1>7, <1>8

LEMMA EditingSteps ==
  ASSUME FinderInv, EditCheckboxes \/ EditPipelines \/ EditStatuses \/ ResetFilters
  PROVE  FinderInv'
<1>1. Sound(criteria) /\ criteria \in Criteria
  BY SoundNow DEF Sound
<1>2. /\ criteria.query \in BOOLEAN /\ criteria.filters \in Filters /\ criteria.scope \in Scopes
      /\ criteria.representations \in Kinds /\ criteria.project \in Projects
  BY <1>1 DEF Criteria
<1>3. ~OpenOnly("normal") /\ "normal" \in Scopes /\ Open \in Filters
  BY FinderAssumption DEF OpenOnly, Open, Filters, Checkboxes
<1>4. CASE EditCheckboxes
  <2>1. PICK b \in Checkboxes :
          EditCriteria([criteria EXCEPT !.filters.checkbox = b,
                          !.scope = IF OpenOnly(@) /\ b # {"open"} THEN "normal" ELSE @])
    BY <1>4 DEF EditCheckboxes
  <2> DEFINE s == IF OpenOnly(criteria.scope) /\ b # {"open"} THEN "normal" ELSE criteria.scope
  <2>2. /\ s \in Scopes /\ (OpenOnly(s) => b = {"open"})
        /\ s = criteria.scope \/ (OpenOnly(criteria.scope) /\ s = "normal")
    BY <1>2, <1>3
  <2>3. EditCriteria([criteria EXCEPT !.filters.checkbox = b, !.scope = s])
    BY <2>1
  <2> HIDE DEF s
  <2> DEFINE c == [criteria EXCEPT !.filters.checkbox = b, !.scope = s]
  <2>4. /\ c \in Criteria /\ c.query = criteria.query /\ c.representations = criteria.representations
        /\ c.project = criteria.project /\ c.scope = s /\ c.filters = Boxes(criteria, b)
    BY <1>1, <2>2, BoxesReplaced
  <2> HIDE DEF c
  <2>5. Sound(c)
    BY <1>1, <2>2, <2>4 DEF Sound, Boxes
  <2>6. EditCriteria(c)
    BY <2>3 DEF c
  <2> QED BY <2>2, <2>4, <2>5, <2>6, EditKeeps
<1>5. ASSUME NEW f \in Filters, EditCriteria([criteria EXCEPT !.filters = f]),
             OpenOnly(criteria.scope) => f.checkbox = {"open"},
             f.statuses \subseteq StatusesWithin(f.pipelines)
      PROVE FinderInv'
  <2> DEFINE c == [criteria EXCEPT !.filters = f]
  <2>1. /\ c \in Criteria /\ c.query = criteria.query /\ c.representations = criteria.representations
        /\ c.project = criteria.project /\ c.scope = criteria.scope /\ c.filters = f
    BY <1>1, <1>2 DEF Criteria
  <2>2. EditCriteria(c)
    BY <1>5
  <2> HIDE DEF c
  <2>3. Sound(c)
    BY <1>5, <2>1 DEF Sound
  <2> QED BY <2>1, <2>2, <2>3, EditKeeps
<1>6. \A ps : StatusesWithin(ps) \subseteq UNION {StatusesOf[p] : p \in Pipelines \cup ps}
  BY DEF StatusesWithin
<1>7. CASE EditPipelines
  <2>1. PICK chosen \in SUBSET Pipelines :
          EditCriteria([criteria EXCEPT !.filters.pipelines = chosen,
                          !.filters.statuses = @ \cap StatusesWithin(chosen)])
    BY <1>7 DEF EditPipelines
  <2> DEFINE kept == criteria.filters.statuses \cap StatusesWithin(chosen)
  <2> DEFINE f == [checkbox |-> criteria.filters.checkbox, pipelines |-> chosen, statuses |-> kept]
  <2>2. [criteria EXCEPT !.filters.pipelines = chosen,
                         !.filters.statuses = @ \cap StatusesWithin(chosen)]
          = [criteria EXCEPT !.filters = f]
    <3> DEFINE g == [criteria.filters EXCEPT !.pipelines = chosen]
    <3> DEFINE d == [criteria EXCEPT !.filters = g]
    <3>1. g = [checkbox |-> criteria.filters.checkbox, pipelines |-> chosen,
               statuses |-> criteria.filters.statuses]
      BY <1>2 DEF Filters
    <3> DEFINE h == [d.filters EXCEPT !.statuses = @ \cap StatusesWithin(chosen)]
    <3>2. [d EXCEPT !.filters.statuses = @ \cap StatusesWithin(chosen)] = [d EXCEPT !.filters = h]
      OBVIOUS
    <3> HIDE DEF g
    <3>3. d.filters = g /\ \A x : [d EXCEPT !.filters = x] = [criteria EXCEPT !.filters = x]
      BY <1>1 DEF Criteria
    <3> HIDE DEF d
    <3>4. [g EXCEPT !.statuses = @ \cap StatusesWithin(chosen)] = f
      BY <3>1, SMTT(30)
    <3>5. h = f
      BY <3>3, <3>4
    <3> HIDE DEF h
    <3>6. [d EXCEPT !.filters = h] = [criteria EXCEPT !.filters = f]
      BY <3>3, <3>5
    <3>7. [d EXCEPT !.filters.statuses = @ \cap StatusesWithin(chosen)]
            = [criteria EXCEPT !.filters = f]
      BY <3>2, <3>6, Zenon
    <3> QED BY <3>7 DEF d, g
  <2>3. EditCriteria([criteria EXCEPT !.filters = f])
    BY <2>1, <2>2
  <2>4. f \in Filters /\ kept \subseteq StatusesWithin(chosen)
    BY <1>2 DEF Filters
  <2>5. OpenOnly(criteria.scope) => f.checkbox = {"open"}
    BY <1>1 DEF Sound
  <2> QED BY <1>5, <2>3, <2>4, <2>5
<1>8. CASE EditStatuses
  <2>1. PICK chosen \in SUBSET StatusesWithin(criteria.filters.pipelines) :
          EditCriteria([criteria EXCEPT !.filters.statuses = chosen])
    BY <1>8 DEF EditStatuses
  <2> DEFINE f == [checkbox |-> criteria.filters.checkbox,
                   pipelines |-> criteria.filters.pipelines, statuses |-> chosen]
  <2>2. [criteria EXCEPT !.filters.statuses = chosen] = [criteria EXCEPT !.filters = f]
    BY <1>1, <1>2 DEF Criteria, Filters
  <2>3. EditCriteria([criteria EXCEPT !.filters = f])
    BY <2>1, <2>2
  <2>4. f \in Filters
    BY <1>2, <1>6 DEF Filters, AllStatuses
  <2>5. OpenOnly(criteria.scope) => f.checkbox = {"open"}
    BY <1>1 DEF Sound
  <2> QED BY <1>5, <2>1, <2>3, <2>4, <2>5
<1>9. CASE ResetFilters
  BY <1>3, <1>5, <1>9 DEF ResetFilters, Open
<1> QED BY <1>4, <1>7, <1>8, <1>9

LEMMA FinderSteps == FinderInv /\ [FinderNext]_finderVars => FinderInv'
<1> SUFFICES ASSUME FinderInv, [FinderNext]_finderVars PROVE FinderInv'
  OBVIOUS
<1>1. CASE FirstPage
  BY <1>1, PageKeeps DEF FirstPage, LoadPage, InMenu
<1>2. CASE NextPage
  BY <1>2, PageKeeps DEF NextPage, LoadPage, Browsing, InMenu
<1>3. CASE PreviousPage
  BY <1>3, PageKeeps DEF PreviousPage, Browsing, InMenu, Quiet
<1>4. CASE OpenFilters
  <2>1. CASE result' = "failed" /\ UNCHANGED <<place, before>>
    BY <1>4, <2>1, PageKeeps DEF OpenFilters, Browsing
  <2>2. CASE place' = "filters" /\ before' = criteria.filters /\ UNCHANGED result
    <3>1. /\ place = "browse" /\ result = "none"
          /\ UNCHANGED <<criteria, pages, index, restarted, version>>
      BY <1>4 DEF OpenFilters, Browsing, InMenu
    <3>2. criteria \in Criteria /\ criteria.filters \in Filters /\ pages \in Seq(Shown)
      BY DEF FinderInv, FinderTyped, Criteria
    <3>3. StillShown'
      <4> SUFFICES ASSUME NEW i \in DOMAIN pages
                   PROVE  LET origin == pages[i].criteria IN
                    /\ origin.query = criteria.query
                    /\ origin.representations = criteria.representations
                    /\ origin.project = criteria.project /\ origin.filters = criteria.filters
                    /\ \/ origin.scope = criteria.scope
                       \/ OpenOnly(origin.scope) /\ criteria.scope = "normal"
        BY <2>2, <3>1 DEF StillShown
      <4> DEFINE origin == pages[i].criteria
      <4>1. pages[i] \in Shown
        BY <3>2
      <4>5. origin \in Criteria
        BY <4>1 DEF Shown
      <4>2. \/ origin = criteria
            \/ OpenOnly(origin.scope) /\ criteria = [origin EXCEPT !.scope = "normal"]
        BY <3>1 DEF FinderInv, PagesMatch
      <4> HIDE DEF origin
      <4>3. /\ origin.query = criteria.query
            /\ origin.representations = criteria.representations
            /\ origin.project = criteria.project /\ origin.filters = criteria.filters
            /\ \/ origin.scope = criteria.scope
               \/ OpenOnly(origin.scope) /\ criteria.scope = "normal"
        BY <4>2, <4>5 DEF Criteria
      <4> QED BY <4>3 DEF origin
    <3> QED BY <2>2, <3>1, <3>2, <3>3 DEF FinderInv, FinderTyped, PagesMatch, OpenViewsAreOpen,
              StatusesFit
  <2> QED BY <1>4, <2>1, <2>2 DEF OpenFilters
<1>5. CASE ApplyFilters
  <2>1. /\ place = "filters" /\ place' = "browse" /\ before' = Open /\ result = "none"
        /\ UNCHANGED <<criteria, result, version>>
        /\ (criteria.filters = before /\ pages' = pages) \/ pages' = <<>>
    BY <1>5 DEF ApplyFilters, InMenu, ResetPages
  <2>2. criteria \in Criteria /\ pages \in Seq(Shown) /\ Open \in Filters
    BY FinderAssumption DEF FinderInv, FinderTyped, Open, Filters, Checkboxes
  <2>3. PagesMatch'
    <3>1. CASE pages' = <<>>
      BY <3>1 DEF PagesMatch
    <3>2. CASE criteria.filters = before /\ pages' = pages
      <4> SUFFICES ASSUME NEW i \in DOMAIN pages
                   PROVE  LET origin == pages[i].criteria IN
                     origin = criteria \/ (OpenOnly(origin.scope)
                                            /\ criteria = [origin EXCEPT !.scope = "normal"])
        BY <2>1, <3>2 DEF PagesMatch
      <4> DEFINE origin == pages[i].criteria
      <4>1. pages[i] \in Shown
        BY <2>2
      <4>5. origin \in Criteria
        BY <4>1 DEF Shown
      <4>2. /\ origin.query = criteria.query /\ origin.representations = criteria.representations
            /\ origin.project = criteria.project /\ origin.filters = criteria.filters
            /\ origin.scope = criteria.scope \/ (OpenOnly(origin.scope) /\ criteria.scope = "normal")
        BY <2>1, <3>2 DEF FinderInv, StillShown
      <4> HIDE DEF origin
      <4>3. origin.scope = criteria.scope => origin = criteria
        BY <2>2, <4>2, <4>5 DEF Criteria
      <4>4. criteria.scope = "normal" => criteria = [origin EXCEPT !.scope = "normal"]
        BY <2>2, <4>2, <4>5 DEF Criteria
      <4> QED BY <4>2, <4>3, <4>4 DEF origin
    <3> QED BY <2>1, <3>1, <3>2
  <2>4. pages' \in Seq(Shown)
    <3>1. <<>> \in Seq(Shown)
      OBVIOUS
    <3>2. pages' = pages \/ pages' = <<>>
      BY <2>1
    <3> QED BY <2>2, <3>1, <3>2
  <2> QED BY <2>1, <2>2, <2>3, <2>4 DEF FinderInv, FinderTyped, StillShown, OpenViewsAreOpen,
           StatusesFit
<1>6. CASE PickTask
  <2>1. CASE result' = "selected"
    BY <1>6, <2>1 DEF PickTask, FinderInv, FinderTyped, PagesMatch, StillShown, OpenViewsAreOpen,
      StatusesFit, Page
  <2>2. CASE result' # "selected"
    BY <1>6, <2>2, PageKeeps DEF PickTask, Browsing, ResetPages
  <2> QED BY <2>1, <2>2
<1>7. CASE CancelFinder
  BY <1>7 DEF CancelFinder, FinderInv, FinderTyped, PagesMatch, StillShown, OpenViewsAreOpen,
      StatusesFit
<1>8. CASE EditElsewhere
  BY <1>8 DEF EditElsewhere, FinderInv, FinderTyped, PagesMatch, StillShown, OpenViewsAreOpen,
      StatusesFit
<1>9. CASE UNCHANGED finderVars
  BY <1>9 DEF finderVars, FinderInv, FinderTyped, PagesMatch, StillShown, OpenViewsAreOpen,
      StatusesFit, Page
<1> QED BY <1>1, <1>2, <1>3, <1>4, <1>5, <1>6, <1>7, <1>8, <1>9, RefiningSteps, EditingSteps
        DEF FinderNext

LEMMA AlwaysFinder == FinderSpec => []FinderInv
BY FinderStarts, FinderSteps, PTL DEF FinderSpec

\* However the user refines, pages and edits filters, and others edit the
\* tasks, the pages are those of the search that is shown, the Runtime is asked
\* for what the menus can show, and what is selected is what was shown.
THEOREM FinderShowsItsSearch == FinderSpec => SearchIsShown
<1>1. FinderInv => PagesMatch /\ OpenViewsAreOpen /\ StatusesFit
  BY DEF FinderInv
<1>2. FinderNext => SelectedAsShown
  BY DEF FinderNext, FirstPage, NextPage, PreviousPage, LoadPage, Search, ToggleOpen,
    ChooseRepresentation, ChooseScope, ChooseProjectMode, OpenFilters, EditCheckboxes, EditPipelines,
    EditStatuses, ResetFilters, ApplyFilters, PickProject, PickTask, CancelFinder, EditElsewhere,
    Refine, EditCriteria, Quiet, InMenu, Browsing, SelectedAsShown
<1> QED BY <1>1, <1>2, AlwaysFinder, PTL DEF FinderSpec, SearchIsShown

RootHasMode == criteria.project.root => criteria.project.mode # NoMode

\* No page is older than the first edit or newer than the last one, and the
\* page that is shown is one of those that are there.
PagesFit ==
  /\ version \in 0 .. MaxEdits /\ \A i \in DOMAIN pages : pages[i].version \in 0 .. MaxEdits
  /\ Len(pages) <= PageLimit /\ index \in 1 .. (IF pages = <<>> THEN 1 ELSE Len(pages))
  /\ result \in {"none", "selected", "failed", "cancelled"}

FinderBounds == PagesFit /\ RootHasMode

LEMMA NoPages ==
  ASSUME PagesFit, pages' = <<>>, index' = 1, UNCHANGED version,
         result' \in {"none", "selected", "failed", "cancelled"}
  PROVE  PagesFit'
<1>1. Len(<<>>) = 0 /\ DOMAIN <<>> = {}
  OBVIOUS
<1> QED BY <1>1, FinderAssumption DEF PagesFit

LEMMA PageLoaded ==
  ASSUME FinderTyped, PagesFit, NEW cursor \in BOOLEAN, LoadPage(cursor), result = "none",
         Len(pages) < PageLimit, UNCHANGED version
  PROVE  PagesFit'
<1>0. pages \in Seq(Shown)
  BY DEF FinderTyped
<1>1. CASE /\ pages' = Append(pages, [criteria |-> criteria, version |-> version])
           /\ index' = Len(pages) + 1 /\ UNCHANGED <<restarted, result>>
  <2>1. /\ Len(pages') = Len(pages) + 1 /\ pages' # <<>> /\ Len(pages) \in Nat
        /\ \A i \in DOMAIN pages' : \/ i \in DOMAIN pages /\ pages'[i] = pages[i]
                                    \/ pages'[i].version = version
    BY <1>0, <1>1
  <2> QED BY <1>1, <2>1, FinderAssumption DEF PagesFit
<1>2. CASE pages' = <<>> /\ index' = 1 /\ UNCHANGED result
  BY <1>2, NoPages DEF PagesFit
<1>3. CASE result' = "failed" /\ UNCHANGED <<pages, index, restarted>>
  BY <1>3 DEF PagesFit
<1> QED BY <1>1, <1>2, <1>3 DEF LoadPage

LEMMA RefinedFits ==
  ASSUME PagesFit, NEW c, Refine(c), c.project.root => c.project.mode # NoMode
  PROVE  FinderBounds'
BY NoPages DEF Refine, ResetPages, Quiet, Browsing, InMenu, FinderBounds, RootHasMode

LEMMA EditedFits ==
  ASSUME FinderBounds, NEW c, EditCriteria(c), c.project = criteria.project
  PROVE  FinderBounds'
BY DEF EditCriteria, Quiet, FinderBounds, RootHasMode, PagesFit

LEMMA FinderStartsBounded == FinderInit => FinderBounds
<1>1. Len(<<>>) = 0 /\ DOMAIN <<>> = {}
  OBVIOUS
<1> QED BY <1>1, FinderAssumption DEF FinderInit, FinderBounds, PagesFit, RootHasMode

LEMMA FinderStepsBounded == FinderInv /\ FinderBounds /\ [FinderNext]_finderVars => FinderBounds'
<1> SUFFICES ASSUME FinderInv, FinderBounds, [FinderNext]_finderVars PROVE FinderBounds'
  OBVIOUS
<1>0. criteria \in Criteria /\ pages \in Seq(Shown) /\ FinderTyped /\ PagesFit /\ RootHasMode
  BY DEF FinderInv, FinderTyped, FinderBounds
<1>1. CASE FirstPage
  <2>1. Len(pages) < PageLimit /\ LoadPage(FALSE) /\ result = "none" /\ UNCHANGED <<criteria, version>>
    <3>1. Len(<<>>) = 0 /\ 0 < PageLimit
      BY FinderAssumption
    <3> QED BY <1>1, <3>1 DEF FirstPage, InMenu
  <2> QED BY <1>0, <2>1, PageLoaded DEF FinderBounds, RootHasMode
<1>2. CASE NextPage
  <2>1. UNCHANGED <<criteria, version>> /\ result = "none" /\ pages # <<>>
    BY <1>2 DEF NextPage, Browsing, InMenu
  <2>2. CASE index < Len(pages) /\ index' = index + 1 /\ UNCHANGED <<pages, result>>
    BY <1>0, <2>1, <2>2 DEF FinderBounds, PagesFit, RootHasMode
  <2>3. CASE Len(pages) < PageLimit /\ LoadPage(TRUE)
    BY <1>0, <2>1, <2>3, PageLoaded DEF FinderBounds, RootHasMode
  <2> QED BY <1>2, <2>2, <2>3 DEF NextPage
<1>3. CASE PreviousPage
  BY <1>0, <1>3 DEF PreviousPage, Browsing, Quiet, FinderBounds, PagesFit, RootHasMode
<1>4. CASE Search
  <2>1. PICK q \in BOOLEAN :
          Refine([criteria EXCEPT !.query = q, !.scope = IF q THEN "normal" ELSE @])
    BY <1>4 DEF Search
  <2>2. [criteria EXCEPT !.query = q, !.scope = IF q THEN "normal" ELSE @].project
          = criteria.project
    BY <1>0 DEF Criteria
  <2> QED BY <1>0, <2>1, <2>2, RefinedFits DEF RootHasMode
<1>5. CASE ToggleOpen
  <2> DEFINE b == IF criteria.filters.checkbox = {} THEN {"open"} ELSE {}
  <2> DEFINE s == IF OpenOnly(criteria.scope) /\ criteria.filters.checkbox # {}
                    THEN "normal" ELSE criteria.scope
  <2>1. Refine([criteria EXCEPT !.filters.checkbox = b, !.scope = s])
    BY <1>5 DEF ToggleOpen
  <2> HIDE DEF b, s
  <2>2. [criteria EXCEPT !.filters.checkbox = b, !.scope = s].project = criteria.project
    BY <1>0 DEF Criteria
  <2> QED BY <1>0, <2>1, <2>2, RefinedFits DEF RootHasMode
<1>6. CASE ChooseRepresentation
  <2>1. PICK r \in Kinds : Refine([criteria EXCEPT !.representations = r])
    BY <1>6 DEF ChooseRepresentation
  <2>2. [criteria EXCEPT !.representations = r].project = criteria.project
    BY <1>0 DEF Criteria
  <2> QED BY <1>0, <2>1, <2>2, RefinedFits DEF RootHasMode
<1>7. CASE ChooseScope
  <2>1. PICK s \in Scopes :
          Refine([criteria EXCEPT !.scope = s,
                                  !.filters.checkbox = IF OpenOnly(s) THEN {"open"} ELSE @])
    BY <1>7 DEF ChooseScope
  <2> DEFINE b == IF OpenOnly(s) THEN {"open"} ELSE criteria.filters.checkbox
  <2>2. Refine([criteria EXCEPT !.scope = s, !.filters.checkbox = b])
    BY <2>1
  <2> HIDE DEF b
  <2>3. [criteria EXCEPT !.scope = s, !.filters.checkbox = b].project = criteria.project
    BY <1>0 DEF Criteria
  <2> QED BY <1>0, <2>2, <2>3, RefinedFits DEF RootHasMode
<1>8. CASE ChooseProjectMode
  <2>1. PICK mode \in Modes \cup {NoMode} :
          Refine([criteria EXCEPT !.project = [mode |-> mode, root |-> FALSE]])
    BY <1>8 DEF ChooseProjectMode
  <2>2. ~[criteria EXCEPT !.project = [mode |-> mode, root |-> FALSE]].project.root
    BY <1>0 DEF Criteria
  <2> QED BY <1>0, <2>1, <2>2, RefinedFits
<1>9. CASE PickProject
  <2> DEFINE mode == IF criteria.project.mode = NoMode THEN "direct" ELSE criteria.project.mode
  <2>1. Refine([criteria EXCEPT !.project = [mode |-> mode, root |-> TRUE]])
    BY <1>9 DEF PickProject
  <2>2. mode # NoMode
    BY FinderAssumption
  <2> HIDE DEF mode
  <2>3. [criteria EXCEPT !.project = [mode |-> mode, root |-> TRUE]].project.mode # NoMode
    BY <1>0, <2>2 DEF Criteria
  <2> QED BY <1>0, <2>1, <2>3, RefinedFits
<1>10. CASE EditCheckboxes
  <2>1. PICK b \in Checkboxes :
          EditCriteria([criteria EXCEPT !.filters.checkbox = b,
                          !.scope = IF OpenOnly(@) /\ b # {"open"} THEN "normal" ELSE @])
    BY <1>10 DEF EditCheckboxes
  <2> DEFINE s == IF OpenOnly(criteria.scope) /\ b # {"open"} THEN "normal" ELSE criteria.scope
  <2>2. EditCriteria([criteria EXCEPT !.filters.checkbox = b, !.scope = s])
    BY <2>1
  <2> HIDE DEF s
  <2>3. [criteria EXCEPT !.filters.checkbox = b, !.scope = s].project = criteria.project
    BY <1>0 DEF Criteria
  <2> QED BY <2>2, <2>3, EditedFits
<1>11. CASE EditPipelines
  <2>1. PICK chosen \in SUBSET Pipelines :
          EditCriteria([criteria EXCEPT !.filters.pipelines = chosen,
                          !.filters.statuses = @ \cap StatusesWithin(chosen)])
    BY <1>11 DEF EditPipelines
  <2>2. [criteria EXCEPT !.filters.pipelines = chosen,
                         !.filters.statuses = @ \cap StatusesWithin(chosen)].project
          = criteria.project
    BY <1>0 DEF Criteria
  <2> QED BY <2>1, <2>2, EditedFits
<1>12. CASE EditStatuses
  <2>1. PICK chosen \in SUBSET StatusesWithin(criteria.filters.pipelines) :
          EditCriteria([criteria EXCEPT !.filters.statuses = chosen])
    BY <1>12 DEF EditStatuses
  <2>2. [criteria EXCEPT !.filters.statuses = chosen].project = criteria.project
    BY <1>0 DEF Criteria
  <2> QED BY <2>1, <2>2, EditedFits
<1>13. CASE ResetFilters
  <2>1. [criteria EXCEPT !.filters = Open].project = criteria.project
    BY <1>0 DEF Criteria
  <2> QED BY <1>13, <2>1, EditedFits DEF ResetFilters
<1>14. CASE OpenFilters
  BY <1>0, <1>14 DEF OpenFilters, Browsing, InMenu, FinderBounds, PagesFit, RootHasMode
<1>15. CASE ApplyFilters
  <2>1. CASE UNCHANGED <<criteria, pages, index, result, version>>
    BY <1>0, <2>1 DEF FinderBounds, PagesFit, RootHasMode
  <2>2. CASE ResetPages /\ UNCHANGED <<criteria, result, version>>
    BY <1>0, <2>2, NoPages DEF ResetPages, FinderBounds, PagesFit, RootHasMode
  <2> QED BY <1>15, <2>1, <2>2 DEF ApplyFilters
<1>16. CASE PickTask
  <2>1. /\ UNCHANGED <<criteria, version>>
        /\ result' \in {"none", "selected", "failed", "cancelled"}
    BY <1>16 DEF PickTask
  <2>2. CASE UNCHANGED <<pages, index>>
    BY <1>0, <2>1, <2>2 DEF FinderBounds, PagesFit, RootHasMode
  <2>3. CASE ResetPages
    BY <1>0, <2>1, <2>3, NoPages DEF ResetPages, FinderBounds, RootHasMode
  <2> QED BY <1>16, <2>2, <2>3 DEF PickTask
<1>17. CASE CancelFinder
  BY <1>0, <1>17 DEF CancelFinder, FinderBounds, PagesFit, RootHasMode
<1>18. CASE EditElsewhere
  BY <1>0, <1>18, FinderAssumption DEF EditElsewhere, FinderBounds, PagesFit, RootHasMode
<1>19. CASE UNCHANGED finderVars
  BY <1>0, <1>19 DEF finderVars, FinderBounds, PagesFit, RootHasMode
<1> QED BY <1>1, <1>2, <1>3, <1>4, <1>5, <1>6, <1>7, <1>8, <1>9, <1>10, <1>11, <1>12, <1>13,
           <1>14, <1>15, <1>16, <1>17, <1>18, <1>19 DEF FinderNext

\* The finder's variables keep their types: it never keeps more pages than the
\* limit, shows one of them, and a project filter with a root has a mode.
THEOREM FinderTypeCorrect == FinderSpec => []FinderTypeOK
<1>1. FinderInit => FinderInv /\ FinderBounds
  BY FinderStarts, FinderStartsBounded
<1>2. FinderInv /\ FinderBounds /\ [FinderNext]_finderVars => (FinderInv /\ FinderBounds)'
  BY FinderSteps, FinderStepsBounded
<1>3. FinderInv /\ FinderBounds => FinderTypeOK
  <2> SUFFICES ASSUME FinderInv, FinderBounds PROVE FinderTypeOK
    OBVIOUS
  <2>1. \A i \in DOMAIN pages : pages[i] \in [criteria : Criteria, version : 0 .. MaxEdits]
    <3> SUFFICES ASSUME NEW i \in DOMAIN pages
                 PROVE  pages[i] \in [criteria : Criteria, version : 0 .. MaxEdits]
      OBVIOUS
    <3>1. pages[i] \in Shown /\ pages[i].version \in 0 .. MaxEdits
      BY DEF FinderInv, FinderTyped, FinderBounds, PagesFit
    <3> QED BY <3>1 DEF Shown
  <2> QED BY <2>1 DEF FinderInv, FinderTyped, FinderBounds, PagesFit, RootHasMode, FinderTypeOK
<1> QED BY <1>1, <1>2, <1>3, PTL DEF FinderSpec

(***************************************************************************)
(* The order of versions.                                                  *)
(***************************************************************************)

\* Two sequences have one first difference.
LEMMA FirstDifference ==
  ASSUME NEW S, NEW s \in Seq(S), NEW t \in Seq(S),
         NEW i \in 1 .. Len(s) + 1, NEW j \in 1 .. Len(t) + 1,
         i <= Len(t), SubSeq(s, 1, i - 1) = SubSeq(t, 1, i - 1), i = Len(s) + 1 \/ s[i] # t[i],
         j <= Len(s), SubSeq(t, 1, j - 1) = SubSeq(s, 1, j - 1), j = Len(t) + 1 \/ t[j] # s[j]
  PROVE  i = j /\ i <= Len(s) /\ j <= Len(t)
<1>1. ASSUME NEW m \in Nat, NEW n \in 1 .. m, m <= Len(s), m <= Len(t),
             SubSeq(s, 1, m) = SubSeq(t, 1, m)
      PROVE  s[n] = t[n]
  <2>1. SubSeq(s, 1, m)[n] = s[n] /\ SubSeq(t, 1, m)[n] = t[n]
    BY <1>1
  <2> QED BY <1>1, <2>1
<1>2. Len(s) \in Nat /\ Len(t) \in Nat
  OBVIOUS
<1>3. CASE i < j
  <2>1. j - 1 \in Nat /\ i \in 1 .. j - 1 /\ j - 1 <= Len(s) /\ j - 1 <= Len(t) /\ i # Len(s) + 1
    BY <1>2, <1>3
  <2>2. s[i] = t[i]
    BY <1>1, <2>1
  <2> QED BY <2>1, <2>2
<1>4. CASE j < i
  <2>1. i - 1 \in Nat /\ j \in 1 .. i - 1 /\ i - 1 <= Len(s) /\ i - 1 <= Len(t) /\ j # Len(t) + 1
    BY <1>2, <1>4
  <2>2. s[j] = t[j]
    BY <1>1, <2>1
  <2> QED BY <2>1, <2>2
<1> QED BY <1>2, <1>3, <1>4

\* No text is before one that is before it, nor before itself.
LEMMA TextOrder ==
  ASSUME NEW s \in Seq(Nat), NEW t \in Seq(Nat), TextBefore(s, t), TextBefore(t, s)
  PROVE  FALSE
<1>1. PICK i \in 1 .. Len(s) + 1 :
        /\ i <= Len(t) /\ SubSeq(s, 1, i - 1) = SubSeq(t, 1, i - 1)
        /\ i = Len(s) + 1 \/ s[i] < t[i]
  BY DEF TextBefore
<1>2. PICK j \in 1 .. Len(t) + 1 :
        /\ j <= Len(s) /\ SubSeq(t, 1, j - 1) = SubSeq(s, 1, j - 1)
        /\ j = Len(t) + 1 \/ t[j] < s[j]
  BY DEF TextBefore
<1>3. (i = Len(s) + 1 \/ s[i] # t[i]) /\ (j = Len(t) + 1 \/ t[j] # s[j])
  BY <1>1, <1>2
<1>4. i = j /\ i <= Len(s) /\ j <= Len(t)
  BY <1>1, <1>2, <1>3, FirstDifference
<1>5. s[i] \in Nat /\ t[i] \in Nat /\ s[i] < t[i] /\ t[i] < s[i]
  BY <1>1, <1>2, <1>4
<1> QED BY <1>5

LEMMA NumberOrder ==
  ASSUME NEW s \in Seq(Nat), NEW t \in Seq(Nat), LessNumber(s, t), LessNumber(t, s)
  PROVE  FALSE
BY TextOrder DEF LessNumber

Identifiers == [number : BOOLEAN, text : Seq(Nat)]
LEMMA IdentifierOrder ==
  ASSUME NEW a \in Identifiers, NEW b \in Identifiers, LessIdentifier(a, b), LessIdentifier(b, a)
  PROVE  FALSE
<1>1. a.text \in Seq(Nat) /\ b.text \in Seq(Nat)
  BY DEF Identifiers
<1> QED BY <1>1, TextOrder, NumberOrder DEF LessIdentifier

LEMMA NumbersOrder ==
  ASSUME NEW s \in Seq(Seq(Nat)), NEW t \in Seq(Seq(Nat)),
         Smaller(s, t, LessNumber), Smaller(t, s, LessNumber)
  PROVE  FALSE
<1>1. PICK i \in 1 .. Len(s) + 1 :
        /\ i <= Len(t) /\ SubSeq(s, 1, i - 1) = SubSeq(t, 1, i - 1)
        /\ i = Len(s) + 1 \/ LessNumber(s[i], t[i])
  BY DEF Smaller
<1>2. PICK j \in 1 .. Len(t) + 1 :
        /\ j <= Len(s) /\ SubSeq(t, 1, j - 1) = SubSeq(s, 1, j - 1)
        /\ j = Len(t) + 1 \/ LessNumber(t[j], s[j])
  BY DEF Smaller
<1>3. (i = Len(s) + 1 \/ s[i] # t[i]) /\ (j = Len(t) + 1 \/ t[j] # s[j])
  <2>1. i <= Len(s) => s[i] \in Seq(Nat)
    OBVIOUS
  <2>2. j <= Len(t) => t[j] \in Seq(Nat)
    OBVIOUS
  <2> QED BY <1>1, <1>2, <2>1, <2>2, NumberOrder
<1>4. i = j /\ i <= Len(s) /\ j <= Len(t)
  BY <1>1, <1>2, <1>3, FirstDifference
<1>5. s[i] \in Seq(Nat) /\ t[i] \in Seq(Nat) /\ LessNumber(s[i], t[i]) /\ LessNumber(t[i], s[i])
  BY <1>1, <1>2, <1>4
<1> QED BY <1>5, NumberOrder

LEMMA PrereleaseOrder ==
  ASSUME NEW s \in Seq(Identifiers), NEW t \in Seq(Identifiers),
         Smaller(s, t, LessIdentifier), Smaller(t, s, LessIdentifier)
  PROVE  FALSE
<1>1. PICK i \in 1 .. Len(s) + 1 :
        /\ i <= Len(t) /\ SubSeq(s, 1, i - 1) = SubSeq(t, 1, i - 1)
        /\ i = Len(s) + 1 \/ LessIdentifier(s[i], t[i])
  BY DEF Smaller
<1>2. PICK j \in 1 .. Len(t) + 1 :
        /\ j <= Len(s) /\ SubSeq(t, 1, j - 1) = SubSeq(s, 1, j - 1)
        /\ j = Len(t) + 1 \/ LessIdentifier(t[j], s[j])
  BY DEF Smaller
<1>3. (i = Len(s) + 1 \/ s[i] # t[i]) /\ (j = Len(t) + 1 \/ t[j] # s[j])
  <2>1. i <= Len(s) => s[i] \in Identifiers
    OBVIOUS
  <2>2. j <= Len(t) => t[j] \in Identifiers
    OBVIOUS
  <2> QED BY <1>1, <1>2, <2>1, <2>2, IdentifierOrder
<1>4. i = j /\ i <= Len(s) /\ j <= Len(t)
  BY <1>1, <1>2, <1>3, FirstDifference
<1>5. /\ s[i] \in Identifiers /\ t[i] \in Identifiers
      /\ LessIdentifier(s[i], t[i]) /\ LessIdentifier(t[i], s[i])
  BY <1>1, <1>2, <1>4
<1> QED BY <1>5, IdentifierOrder

Versions == [numbers : Seq(Seq(Nat)), pre : Seq(Identifiers)]

\* compareOperonVersions never orders two versions both ways, however long
\* their numbers and identifiers are.
LEMMA OlderIsAsymmetric ==
  ASSUME NEW v \in Versions, NEW w \in Versions, Older(v, w), Older(w, v)
  PROVE  FALSE
<1>1. /\ v.numbers \in Seq(Seq(Nat)) /\ w.numbers \in Seq(Seq(Nat))
      /\ v.pre \in Seq(Identifiers) /\ w.pre \in Seq(Identifiers)
  BY DEF Versions
<1>2. ~Smaller(v.numbers, w.numbers, LessNumber) \/ ~Smaller(w.numbers, v.numbers, LessNumber)
  BY <1>1, NumbersOrder
<1>3. v.numbers = w.numbers =>
        ~Smaller(v.numbers, w.numbers, LessNumber) /\ ~Smaller(w.numbers, v.numbers, LessNumber)
  BY <1>1, NumbersOrder
<1>4. ~Smaller(v.pre, w.pre, LessIdentifier) \/ ~Smaller(w.pre, v.pre, LessIdentifier)
  BY <1>1, PrereleaseOrder
<1> QED BY <1>2, <1>3, <1>4 DEF Older

\* Ordered lists versions by ascending precedence: then the code's order is
\* that of the list.
Ascending == \A i, j \in DOMAIN Ordered : i < j => Older(Ordered[i], Ordered[j])
Sorted == \A i, j \in DOMAIN Ordered : Older(Ordered[i], Ordered[j]) <=> i < j

LEMMA AscendingIsSorted == Ascending => Sorted
<1> SUFFICES ASSUME Ascending, NEW i \in DOMAIN Ordered, NEW j \in DOMAIN Ordered,
                    Older(Ordered[i], Ordered[j])
             PROVE  i < j
  BY DEF Ascending, Sorted
<1>1. Ordered \in Seq(Versions)
  BY VersionsAssumption DEF Versions, Identifiers
<1>2. i \in Nat /\ j \in Nat /\ Ordered[i] \in Versions /\ Ordered[j] \in Versions
  BY <1>1
<1>3. i # j /\ ~(j < i)
  BY <1>2, OlderIsAsymmetric DEF Ascending
<1> QED BY <1>2, <1>3

(***************************************************************************)
(* The update check (UpdateSpec).                                          *)
(***************************************************************************)

\* The cache is as old as a check that was stored.
CacheWasAsked == cache # Empty => [at |-> cache.checkedAt, success |-> cache.success] \in asked

\* Without overlap there is one check under way, which has read the cache that
\* is in force, and what is known is in that cache or in its answer.
TagsOf(c) == IF c = Empty THEN NoTags ELSE c.tags
OneCheck ==
  ~crossed =>
    /\ \A p, q \in Checkers : phase[p] # "idle" /\ phase[q] # "idle" => p = q
    /\ \A p \in Checkers : phase[p] # "idle" => had[p] = cache
    /\ \A p \in Checkers : phase[p] = "store" => known = Remembered(p)
    /\ (\A p \in Checkers : phase[p] # "store") => known = TagsOf(cache)

UpdateInv == UpdateTypeOK /\ CacheWasAsked /\ OneCheck /\ (Sorted => OfferIsNewer)

LEMMA NoticeTyped ==
  ASSUME NEW tags \in Tags, current \in Running
  PROVE  /\ Notice(tags) \in [version : Offered, channel : {"latest", "beta"}] \cup {Empty}
         /\ Sorted /\ Notice(tags) # Empty =>
              /\ current < Notice(tags).version
              /\ Notice(tags).channel = "beta" => Ordered[current].pre # <<>>
<1>1. /\ tags["latest"] = tags.latest /\ tags["beta"] = tags.beta
      /\ tags.latest \in Offered \cup {Empty} /\ tags.beta \in Offered \cup {Empty}
      /\ current \in DOMAIN Ordered /\ Offered \subseteq DOMAIN Ordered
  BY UpdateAssumption DEF Tags
<1>2. CASE Offer(tags, "latest", TRUE)
  <2>1. Notice(tags) = [version |-> tags.latest, channel |-> "latest"] /\ tags.latest \in Offered
    BY <1>1, <1>2 DEF Notice, Offer
  <2>2. Sorted => current < tags.latest
    BY <1>1, <1>2, <2>1 DEF Sorted, Offer
  <2> QED BY <2>1, <2>2
<1>3. CASE ~Offer(tags, "latest", TRUE) /\ Offer(tags, "beta", Ordered[current].pre # <<>>)
  <2>1. /\ Notice(tags) = [version |-> tags.beta, channel |-> "beta"] /\ tags.beta \in Offered
        /\ Ordered[current].pre # <<>>
    BY <1>1, <1>3 DEF Notice, Offer
  <2>2. Sorted => current < tags.beta
    BY <1>1, <1>3, <2>1 DEF Sorted, Offer
  <2> QED BY <2>1, <2>2
<1>4. CASE ~Offer(tags, "latest", TRUE) /\ ~Offer(tags, "beta", Ordered[current].pre # <<>>)
  BY <1>4 DEF Notice
<1> QED BY <1>2, <1>3, <1>4

LEMMA NoTagsTyped == NoTags \in Tags
BY DEF NoTags, Tags

LEMMA RememberedTyped ==
  ASSUME UpdateTypeOK, NEW p \in Checkers
  PROVE  Remembered(p) \in Tags /\ (Succeeded(p) => Remembered(p) # NoTags)
<1>1. answer[p] \in Tags /\ had[p] \in Caches \cup {Empty}
  BY DEF UpdateTypeOK
<1>2. had[p] # Empty => had[p].tags \in Tags
  BY <1>1 DEF Caches
<1> QED BY <1>1, <1>2, NoTagsTyped DEF Remembered, Succeeded

LEMMA UpdateStarts == UpdateInit => UpdateInv
<1> SUFFICES ASSUME UpdateInit PROVE UpdateInv
  OBVIOUS
<1>1. UpdateTypeOK
  <2>1. cache # Empty => cache \in Caches /\ cache.tags \in Tags
    BY DEF UpdateInit, Caches
  <2> QED BY <2>1, UpdateAssumption, NoTagsTyped DEF UpdateInit, UpdateTypeOK
<1>2. CacheWasAsked
  BY DEF UpdateInit, CacheWasAsked
<1>3. OneCheck
  BY DEF UpdateInit, OneCheck, TagsOf
<1>4. OfferIsNewer
  BY DEF UpdateInit, OfferIsNewer
<1> QED BY <1>1, <1>2, <1>3, <1>4 DEF UpdateInv

LEMMA BeginKeeps == ASSUME UpdateInv, NEW p \in Checkers, Begin(p) PROVE UpdateInv'
<1>1. /\ phase[p] = "idle" /\ checks' = checks + 1
      /\ crossed' = (crossed \/ \E q \in Checkers : phase[q] # "idle")
      /\ start' = [start EXCEPT ![p] = hour] /\ had' = [had EXCEPT ![p] = cache]
      /\ UNCHANGED <<current, hour, cache, answer, asked, known>>
  BY DEF Begin
<1>2. \/ cache # Empty /\ notice' = Notice(cache.tags) /\ UNCHANGED phase
      \/ phase' = [phase EXCEPT ![p] = "ask"] /\ UNCHANGED notice
  BY DEF Begin, Fresh
<1>3. cache # Empty => cache.tags \in Tags
  BY DEF UpdateInv, UpdateTypeOK, Caches
<1>4. /\ notice' \in [version : Offered, channel : {"latest", "beta"}] \cup {Empty}
      /\ Sorted => OfferIsNewer'
  <2>1. CASE UNCHANGED notice
    BY <1>1, <2>1 DEF UpdateInv, UpdateTypeOK, OfferIsNewer
  <2>2. CASE cache # Empty /\ notice' = Notice(cache.tags)
    <3>1. current \in Running
      BY DEF UpdateInv, UpdateTypeOK
    <3> QED BY <1>1, <1>3, <2>2, <3>1, NoticeTyped DEF OfferIsNewer
  <2> QED BY <1>2, <2>1, <2>2
<1>5. UpdateTypeOK'
  BY <1>1, <1>2, <1>4 DEF UpdateInv, UpdateTypeOK
<1>6. CacheWasAsked'
  BY <1>1 DEF UpdateInv, CacheWasAsked
<1>7. OneCheck'
  <2> SUFFICES ASSUME ~crossed' PROVE OneCheck'
    BY DEF OneCheck
  <2>1. ~crossed /\ \A q \in Checkers : phase[q] = "idle"
    BY <1>1
  <2>2. known = TagsOf(cache)
    BY <2>1 DEF UpdateInv, OneCheck
  <2>3. \A q \in Checkers : (phase'[q] # "idle" => q = p) /\ phase'[q] # "store"
    BY <1>1, <1>2, <2>1 DEF UpdateInv, UpdateTypeOK
  <2>4. had'[p] = cache'
    BY <1>1 DEF UpdateInv, UpdateTypeOK
  <2> QED BY <1>1, <2>2, <2>3, <2>4 DEF OneCheck, TagsOf
<1> QED BY <1>4, <1>5, <1>6, <1>7 DEF UpdateInv

LEMMA AskKeeps == ASSUME UpdateInv, NEW p \in Checkers, Ask(p) PROVE UpdateInv'
<1>1. PICK tags \in Tags : /\ answer' = [answer EXCEPT ![p] = tags]
                           /\ known' = IF tags = NoTags THEN known ELSE tags
  BY DEF Ask
<1>2. /\ phase[p] = "ask" /\ phase' = [phase EXCEPT ![p] = "store"]
      /\ UNCHANGED <<current, hour, cache, start, had, notice, asked, checks, crossed>>
  BY DEF Ask
<1>3. UpdateTypeOK'
  BY <1>1, <1>2 DEF UpdateInv, UpdateTypeOK
<1>4. CacheWasAsked' /\ (Sorted => OfferIsNewer')
  BY <1>2 DEF UpdateInv, CacheWasAsked, OfferIsNewer
<1>5. OneCheck'
  <2> SUFFICES ASSUME ~crossed PROVE OneCheck'
    BY <1>2 DEF OneCheck
  <2>1. \A q \in Checkers : q # p => phase[q] = "idle" /\ phase'[q] = "idle"
    BY <1>2 DEF UpdateInv, OneCheck, UpdateTypeOK
  <2>2. had[p] = cache /\ known = TagsOf(cache)
    BY <1>2, <2>1 DEF UpdateInv, OneCheck
  <2>3. answer'[p] = tags /\ phase'[p] = "store"
    BY <1>1, <1>2 DEF UpdateInv, UpdateTypeOK
  <2>4. known' = Remembered(p)'
    BY <1>1, <1>2, <2>2, <2>3 DEF Remembered, TagsOf
  <2> QED BY <1>2, <2>1, <2>2, <2>3, <2>4 DEF OneCheck
<1> QED BY <1>3, <1>4, <1>5 DEF UpdateInv

LEMMA StoreKeeps == ASSUME UpdateInv, NEW p \in Checkers, Store(p) PROVE UpdateInv'
<1> DEFINE won == Succeeded(p)
<1> DEFINE tags == Remembered(p)
<1>1. /\ phase[p] = "store" /\ notice' = Notice(tags) /\ Done(p)
      /\ UNCHANGED <<current, hour, checks, known>>
      /\ \/ /\ cache' = [checkedAt |-> start[p], success |-> won, tags |-> tags]
            /\ asked' = asked \cup {[at |-> start[p], success |-> won]} /\ UNCHANGED crossed
         \/ crossed' = TRUE /\ UNCHANGED <<cache, asked>>
  BY DEF Store
<1>2. tags \in Tags /\ won \in BOOLEAN /\ (won => tags # NoTags)
  BY RememberedTyped DEF UpdateInv, Succeeded
<1>3. ~crossed => known = tags
  BY <1>1 DEF UpdateInv, OneCheck
<1>4. ~crossed => \A q \in Checkers : q # p => phase[q] = "idle"
  BY <1>1 DEF UpdateInv, OneCheck
<1> HIDE DEF won, tags
<1>5. /\ notice' \in [version : Offered, channel : {"latest", "beta"}] \cup {Empty}
      /\ Sorted => OfferIsNewer'
  <2>1. current \in Running
    BY DEF UpdateInv, UpdateTypeOK
  <2> QED BY <1>1, <1>2, <2>1, NoticeTyped DEF OfferIsNewer
<1>6. UpdateTypeOK'
  <2>1. start[p] \in 0 .. MaxHour
    BY DEF UpdateInv, UpdateTypeOK
  <2>2. /\ cache' \in Caches \cup {Empty}
        /\ cache' # Empty /\ cache'.success => cache'.tags # NoTags
    BY <1>1, <1>2, <2>1 DEF UpdateInv, UpdateTypeOK, Caches
  <2>3. 0 \in 0 .. MaxHour
    BY UpdateAssumption
  <2> QED BY <1>1, <1>5, <2>2, <2>3, NoTagsTyped DEF UpdateInv, UpdateTypeOK, Done
<1>7. CacheWasAsked'
  BY <1>1 DEF UpdateInv, CacheWasAsked
<1>8. OneCheck'
  <2> SUFFICES ASSUME ~crossed' PROVE OneCheck'
    BY DEF OneCheck
  <2>1. ~crossed /\ cache' = [checkedAt |-> start[p], success |-> won, tags |-> tags]
    BY <1>1
  <2>2. \A q \in Checkers : phase'[q] = "idle"
    BY <1>1, <1>4, <2>1 DEF UpdateInv, UpdateTypeOK, Done
  <2>3. cache' # Empty
    BY <1>2, <2>1, CacheAssumption DEF UpdateInv, UpdateTypeOK, Caches
  <2>4. known' = TagsOf(cache')
    BY <1>1, <1>3, <2>1, <2>3 DEF TagsOf
  <2> QED BY <2>2, <2>4 DEF OneCheck, TagsOf
<1> QED BY <1>5, <1>6, <1>7, <1>8 DEF UpdateInv

LEMMA UpdateSteps == UpdateInv /\ [UpdateNext]_updateVars => UpdateInv'
<1> SUFFICES ASSUME UpdateInv, [UpdateNext]_updateVars PROVE UpdateInv'
  OBVIOUS
<1>1. ASSUME NEW p \in Checkers, CloseShell(p) PROVE UpdateInv'
  <2>1. /\ UNCHANGED <<current, hour, cache, notice, asked, checks, known>> /\ crossed' = TRUE
        /\ Done(p)
    BY <1>1 DEF CloseShell
  <2>2. UpdateTypeOK'
    <3>1. 0 \in 0 .. MaxHour
      BY UpdateAssumption
    <3> QED BY <2>1, <3>1, NoTagsTyped DEF UpdateInv, UpdateTypeOK, Done
  <2> QED BY <2>1, <2>2 DEF UpdateInv, CacheWasAsked, OneCheck, OfferIsNewer
<1>2. CASE SetClock
  BY <1>2 DEF SetClock, UpdateInv, UpdateTypeOK, CacheWasAsked, OneCheck, OfferIsNewer, TagsOf,
    Remembered
<1>3. CASE UNCHANGED updateVars
  BY <1>3 DEF updateVars, UpdateInv, UpdateTypeOK, CacheWasAsked, OneCheck, OfferIsNewer, TagsOf,
    Remembered
<1> QED BY <1>1, <1>2, <1>3, BeginKeeps, AskKeeps, StoreKeeps DEF UpdateNext

LEMMA AlwaysUpdate == UpdateSpec => []UpdateInv
BY UpdateStarts, UpdateSteps, PTL DEF UpdateSpec

\* The variables of the update checks keep their types, for any shells.
THEOREM UpdateTypeCorrect == UpdateSpec => []UpdateTypeOK
<1>1. UpdateInv => UpdateTypeOK
  BY DEF UpdateInv
<1> QED BY <1>1, AlwaysUpdate, PTL

\* However checks of many shells overlap, fail or are given up, and however the
\* clock is set, a shell that does not ask the registry has a cache whose check
\* was made within its lifetime.
THEOREM ChecksAreNotMuted == UpdateSpec => NotMuted
<1> DEFINE Silent == checks' > checks /\ phase' = phase =>
       \E check \in asked :
         hour - check.at \in 0 .. (IF check.success THEN SuccessTtl ELSE FailureTtl)
<1>1. UpdateInv /\ [UpdateNext]_updateVars => [Silent]_updateVars
  <2> SUFFICES ASSUME UpdateInv, UpdateNext, checks' > checks, phase' = phase
               PROVE  \E check \in asked :
                        hour - check.at \in 0 .. (IF check.success THEN SuccessTtl ELSE FailureTtl)
    OBVIOUS
  <2>1. checks \in Nat /\ hour \in Nat /\ (cache # Empty => cache.checkedAt \in Nat)
    BY UpdateAssumption DEF UpdateInv, UpdateTypeOK, Caches
  <2>2. PICK p \in Checkers : Begin(p)
    BY <2>1 DEF UpdateNext, SetClock, Ask, Store, CloseShell
  <2>3. Fresh(cache, hour)
    BY <2>2 DEF Begin, UpdateInv, UpdateTypeOK
  <2>4. [at |-> cache.checkedAt, success |-> cache.success] \in asked
    BY <2>3 DEF UpdateInv, CacheWasAsked, Fresh
  <2>5. hour - cache.checkedAt \in 0 .. (IF cache.success THEN SuccessTtl ELSE FailureTtl)
    BY <2>1, <2>3, UpdateAssumption DEF Fresh
  <2> QED BY <2>4, <2>5
<1> QED BY <1>1, AlwaysUpdate, PTL DEF UpdateSpec, NotMuted

\* If the code finds each version of a list older than all that follow it, then
\* whatever checks overlap and fail, every notice is of a newer version than the
\* shell's and of a channel the shell follows, and no failure forgets tags.
THEOREM NoticesAreRight == UpdateSpec => [](Ascending => NoticeIsRight)
<1>1. UpdateInv /\ Ascending => NoticeIsRight
  <2> SUFFICES ASSUME UpdateInv, Sorted PROVE NoticeIsRight
    BY AscendingIsSorted
  <2>1. OrderIsSemantic
    <3>1. notice # Empty => notice.version \in DOMAIN Ordered
      BY UpdateAssumption DEF UpdateInv, UpdateTypeOK
    <3> QED BY <3>1 DEF OrderIsSemantic, Sorted
  <2>2. TagsSurvive
    BY DEF UpdateInv, OneCheck, TagsSurvive, Resting, TagsOf
  <2> QED BY <2>1, <2>2 DEF NoticeIsRight, UpdateInv
<1> QED BY <1>1, AlwaysUpdate, PTL

(***************************************************************************)
(* Side by side (ClientsSpec).                                             *)
(***************************************************************************)

\* What MCClients explores are behaviours of the three specifications, so that
\* every theorem about one of them holds there too.
THEOREM ClientsImplementParts == ClientsSpec => MutationSpec /\ FinderSpec /\ UpdateSpec
<1> DEFINE SomePart ==
      \/ Of("mutation") /\ MutationNext /\ UNCHANGED <<finderVars, updateVars>>
      \/ Of("finder") /\ FinderNext /\ UNCHANGED <<mutationVars, updateVars>>
      \/ Of("update") /\ UpdateNext /\ UNCHANGED <<mutationVars, finderVars>>
<1>1. ClientsInit => MutationInit /\ FinderInit /\ UpdateInit
  BY DEF ClientsInit
<1>2. [SomePart]_clientsVars
        => [MutationNext]_mutationVars /\ [FinderNext]_finderVars /\ [UpdateNext]_updateVars
  BY DEF clientsVars
<1>3. ClientsSpec <=> ClientsInit /\ [][SomePart]_clientsVars
  BY DEF ClientsSpec
<1> HIDE DEF SomePart
<1> QED BY <1>1, <1>2, <1>3, PTL DEF MutationSpec, FinderSpec, UpdateSpec

\* The variables of all three keep their types.
THEOREM ClientsTypeCorrect == ClientsSpec => []ClientsTypeOK
<1>1. MutationTypeOK /\ FinderTypeOK /\ UpdateTypeOK => ClientsTypeOK
  BY DEF ClientsTypeOK
<1> QED BY <1>1, ClientsImplementParts, MutationTypeCorrect, FinderTypeCorrect,
           UpdateTypeCorrect, PTL
=============================================================================
