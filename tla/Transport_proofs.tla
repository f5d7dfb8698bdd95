-------------------------- MODULE Transport_proofs --------------------------
(***************************************************************************)
(* For all platforms, options, failures, signals and deadlines: what a     *)
(* Runtime command reports of its request is true.                         *)
(***************************************************************************)
EXTENDS Transport, TLAPS

Publishing == {"link", "unlink", "verify", "close"}
Judging == {"settled", "cancel", "judge"}
Handling == {"catch", "cancel-caught", "report"}
Errors == {"input", "internal", "aborted", "platform", "security"} \cup BrokerErrors

\* A request is presented with its token, consumed when presented, and sent
\* when it has a token; only reads go over the persistent transport.
RequestTokens ==
  /\ presented => hasToken
  /\ progress \in {"send", "running"} => hasToken
  /\ progress \in Publishing => ~hasToken /\ ~taken
  /\ Apply => route = "direct"
  /\ Apply /\ progress \in {"start", "root", "stage"} => ~hasToken
  /\ taken => presented \/ ~Apply

\* The names of the request file and the times of its inode at each step; a
\* token is of a file whose identity is known.
FileSteps ==
  /\ "temp" \in names => progress \in {"link", "unlink"} \/ undeleted
  /\ progress = "link" => ctime = 1 /\ identity = NoValue
  /\ progress = "unlink" => ctime = 2 /\ identity = NoValue
  /\ progress \in {"verify", "close"} => ctime = 3
  /\ progress = "close" => identity = 3
  /\ Posix /\ hasToken => identity = 3 /\ ctime = 3
  /\ progress \in Publishing => Posix
  /\ progress = "stage" => ~Posix
  /\ progress = "root" => Posix
  /\ progress \in {"cancel", "cancel-caught"} => ~Posix

\* A consumed apply is out of the Runtime's reach.
ConsumedOnce ==
  Apply /\ taken => IF Posix THEN "target" \notin names ELSE broker = "consumed"

\* An ended process has an output, a settled one that or a flag, and what is
\* caught is an error the classification knows.
Settles ==
  /\ child = "ended" => output # NoValue
  /\ progress \in Judging => flags # {} \/ output # NoValue
  /\ progress \in Handling => failure \in Errors

\* An apply of which it was found that it has not started has not, and cannot.
Concludes ==
  Apply /\ progress \in {"judge", "report", "done"} /\ ~started => ~taken /\ ~Reachable

\* One that may have is reported as such, and the request is removed.
Reports ==
  /\ At("done") /\ Apply /\ started /\ outcome.by = "client" =>
       ~outcome.retryable /\ outcome.exit = 5
  /\ At("done") /\ Posix /\ ~undeleted => ~(presented /\ "target" \in names)

\* The parts of TransportTypeOK, for the steps in which the whole is too much
\* for one leaf.
Booleans ==
  {hasToken, presented, taken, held, grace, signalled, started, undeleted} \subseteq BOOLEAN
RequestTyped ==
  /\ platform \in Platforms /\ options \in Options
  /\ request \in {NoValue, "input", "catalog", "timer-read", "task-get"}
  /\ progress \in Steps /\ route \in {"direct", "reads", "fallback"}
FileTyped ==
  /\ names \subseteq {"temp", "target"} /\ ctime \in 0 .. 3 /\ identity \in {NoValue, 3}
  /\ broker \in {"none", "staged", "consumed", "cancelled"}
ChildTyped ==
  /\ child \in {"none", "runs", "ended"} /\ flags \subseteq {"timedOut", "overflow", "spawnError"}
  /\ output \in {NoValue, "ok", "failed", "misfit", "garbage", "exit"}
OutcomeTyped ==
  /\ failure \in {NoValue, "input", "internal", "aborted", "platform", "security"} \cup BrokerErrors
  /\ outcome \in Outcomes \cup {NoValue} /\ (outcome = NoValue <=> ~At("done"))

TInv == TransportTypeOK /\ RequestTokens /\ FileSteps /\ ConsumedOnce /\ Settles /\ Concludes /\ Reports

LEMMA TransportInitially == TransportInit => TInv
<1> SUFFICES ASSUME TransportInit PROVE TInv
  OBVIOUS
<1> USE PlatformAssumption, NoValueAssumption DEF TransportInit
<1>1. TransportTypeOK
  <2>1. Booleans
    BY DEF Booleans
  <2> QED
    BY <2>1 DEF TransportTypeOK, Steps, BrokerErrors, Booleans, At
<1>2. RequestTokens /\ FileSteps
  BY DEF RequestTokens, FileSteps, Apply, Posix, Publishing
<1>3. ConsumedOnce /\ Settles /\ Concludes /\ Reports
  BY DEF ConsumedOnce, Settles, Concludes, Reports, At, Apply, Posix, Judging, Handling
<1> QED
  BY <1>1, <1>2, <1>3 DEF TInv

LEMMA ExitsAreDocumented ==
  ASSUME NEW stage \in RuntimeStages
  PROVE  ExitOf(stage) \in {2, 3, 4, 5, 70}
BY DEF ExitOf, RuntimeStages

\* clientFailure makes an outcome, and one that an uncertain apply ends with.
LEMMA FailureIsOutcome ==
  ASSUME NEW stage \in RuntimeStages, NEW retryable \in BOOLEAN, NEW interrupted \in BOOLEAN
  PROVE  LET o == Failure(stage, retryable, interrupted) IN
         o \in Outcomes /\ (Apply /\ started => ~o.retryable /\ o.exit = 5)
<1> DEFINE again == retryable /\ ~(Apply /\ started)
           exit == IF interrupted /\ ~(Apply /\ started) THEN 130
                   ELSE IF Apply /\ started THEN 5 ELSE ExitOf(stage)
           o == Failure(stage, retryable, interrupted)
<1>1. o = [stage |-> stage, retryable |-> again, by |-> "client", exit |-> exit]
  BY DEF Failure
<1>2. again \in BOOLEAN
  OBVIOUS
<1>3. exit \in {0, 2, 3, 4, 5, 70, 130}
  BY ExitsAreDocumented
<1>4. Apply /\ started => ~again /\ exit = 5
  OBVIOUS
<1> HIDE DEF again, exit
<1>5. [stage |-> stage, retryable |-> again, by |-> "client", exit |-> exit] \in Outcomes
  BY <1>2, <1>3 DEF Outcomes, RuntimeStages
<1>6. o.retryable = again /\ o.exit = exit
  BY <1>1
<1> HIDE DEF o
<1> QED
  BY <1>1, <1>4, <1>5, <1>6 DEF o

\* So does the classification of every error that is caught, and the judgement
\* of every settled process, unless the Runtime has answered.
LEMMA CaughtIsOutcome ==
  ASSUME NEW e \in Errors, signalled \in BOOLEAN
  PROVE  Caught(e) \in Outcomes /\ (Apply /\ started => ~Caught(e).retryable /\ Caught(e).exit = 5)
<1> \E stage \in RuntimeStages, retryable, interrupted \in BOOLEAN :
      Caught(e) = Failure(stage, retryable, interrupted)
  BY DEF Caught, Errors, BrokerErrors, RuntimeStages
<1> QED
  BY FailureIsOutcome

LEMMA JudgementIsOutcome ==
  ASSUME TransportTypeOK, Booleans, At("judge"), Settles, NEW o \in Judgements
  PROVE  o \in Outcomes /\ (Apply /\ started /\ o.by = "client" => ~o.retryable /\ o.exit = 5)
<1> DEFINE Said == \/ \E stage \in RuntimeStages, retryable, interrupted \in BOOLEAN :
                        o = Failure(stage, retryable, interrupted)
                   \/ \E stage \in RuntimeStages : o \in Envelope(stage, {5, ExitOf(stage)})
                   \/ o \in Envelope("answer", {0, 5})
<1>1. (~Apply \/ ~started) \in BOOLEAN /\ signalled \in BOOLEAN
  BY DEF Booleans, Apply
<1>2. Said
  <2>1. CASE "timedOut" \in flags
    BY <1>1, <2>1 DEF Judgements, RuntimeStages
  <2>2. CASE "timedOut" \notin flags /\ "overflow" \in flags
    BY <1>1, <2>2 DEF Judgements, RuntimeStages
  <2>3. CASE flags = {"spawnError"}
    BY <1>1, <2>3 DEF Judgements, RuntimeStages
  <2>4. CASE flags = {}
    <3> output \in {"ok", "failed", "misfit", "garbage", "exit"}
      BY <2>4 DEF TransportTypeOK, Settles, Judging, At
    <3> QED
      BY <1>1, <2>4 DEF Judgements, RuntimeStages
  <2> QED
    BY <2>1, <2>2, <2>3, <2>4 DEF TransportTypeOK
<1>3. CASE \E stage \in RuntimeStages, retryable, interrupted \in BOOLEAN :
             o = Failure(stage, retryable, interrupted)
  BY <1>1, <1>3, FailureIsOutcome
<1>4. CASE \E stage \in RuntimeStages : o \in Envelope(stage, {5, ExitOf(stage)})
  <2> PICK stage \in RuntimeStages : o \in Envelope(stage, {5, ExitOf(stage)})
    BY <1>4
  <2> PICK x \in {5, ExitOf(stage)} :
        o = [stage |-> stage, retryable |-> FALSE, by |-> "runtime", exit |-> x]
    BY DEF Envelope
  <2> x \in {0, 2, 3, 4, 5, 70, 130}
    BY ExitsAreDocumented
  <2> QED
    BY DEF Outcomes, RuntimeStages
<1>5. CASE o \in Envelope("answer", {0, 5})
  <2> PICK x \in {0, 5} :
        o = [stage |-> "answer", retryable |-> FALSE, by |-> "runtime", exit |-> x]
    BY <1>5 DEF Envelope
  <2> QED
    BY DEF Outcomes
<1> QED
  BY <1>2, <1>3, <1>4, <1>5

LEMMA FileCreated ==
  ASSUME FileTyped, broker' = broker,
         \/ names' = {"temp"} /\ ctime' = 1 /\ identity' = NoValue
         \/ names' = names /\ ctime' = ctime /\ identity' = identity
  PROVE  FileTyped'
<1>1. names' \subseteq {"temp", "target"}
  BY DEF FileTyped
<1>2. ctime' \in 0 .. 3 /\ identity' \in {NoValue, 3}
  BY DEF FileTyped
<1>3. broker' \in {"none", "staged", "consumed", "cancelled"}
  BY DEF FileTyped
<1> QED
  BY <1>1, <1>2, <1>3 DEF FileTyped

LEMMA TransportStep == TInv /\ [TransportNext]_transportState => TInv'
<1> SUFFICES ASSUME TInv, [TransportNext]_transportState PROVE TInv'
  OBVIOUS
<1> USE PlatformAssumption, NoValueAssumption
<1> USE DEF TInv, TransportTypeOK, RequestTokens, FileSteps, ConsumedOnce, Settles, Concludes,
  Reports, At, Goto, Throw, Posix, Apply, Publishing, Judging, Handling, Errors, Reachable, Steps,
  fileState, childState, BrokerErrors
<1>1. CASE BuildInvocation
  BY <1>1 DEF BuildInvocation, BuildErrors, RequestOf
<1>2. CASE Create
  <2> USE <1>2 DEF Create, FileStep
  <2>0. Booleans'
    BY ZenonT(40) DEF Booleans
  <2>1. TransportTypeOK'
    <3>1. RequestTyped'
      BY DEF RequestTyped
    <3>2. FileTyped'
      <4>1. broker' = broker
        OBVIOUS
      <4>2. \/ names' = {"temp"} /\ ctime' = 1 /\ identity' = NoValue
            \/ names' = names /\ ctime' = ctime /\ identity' = identity
        OBVIOUS
      <4>3. FileTyped
        BY DEF FileTyped
      <4> QED
        BY <4>1, <4>2, <4>3, FileCreated
    <3>3. ChildTyped'
      BY DEF ChildTyped
    <3>4. OutcomeTyped'
      BY DEF OutcomeTyped
    <3> QED
      BY <2>0, <3>1, <3>2, <3>3, <3>4
      DEF Booleans, RequestTyped, FileTyped, ChildTyped, OutcomeTyped
  <2>2. RequestTokens'
    OBVIOUS
  <2>3. FileSteps'
    OBVIOUS
  <2>4. ConsumedOnce'
    OBVIOUS
  <2>5. Settles'
    OBVIOUS
  <2>6. Concludes'
    OBVIOUS
  <2>7. Reports'
    OBVIOUS
  <2> QED
    BY <2>1, <2>2, <2>3, <2>4, <2>5, <2>6, <2>7 DEF TInv
<1>3. CASE Link
  BY <1>3 DEF Link, FileStep
<1>4. CASE UnlinkTemp
  BY <1>4 DEF UnlinkTemp, FileStep
<1>5. CASE Verify
  BY <1>5 DEF Verify, FileStep
<1>6. CASE Close
  BY <1>6 DEF Close, FileStep
<1>7. CASE PublishFails
  <2>1. /\ progress \in {"link", "unlink", "verify", "close"} /\ progress' = "catch"
        /\ failure' \in {"security", "internal"}
        /\ UNCHANGED <<ctime, identity, hasToken, presented, taken>> /\ FileStep
    BY <1>7 DEF PublishFails
  <2>2. /\ names' \subseteq names /\ (undeleted' = TRUE \/ undeleted' = undeleted)
        /\ "temp" \in names' => undeleted' = TRUE
    <3> DEFINE unwanted == (names \cap {"temp"}) \cup (IF Cleaned THEN {"target"} ELSE {})
    <3>1. unwanted \subseteq names /\ ("temp" \in names => "temp" \in unwanted)
      BY DEF Cleaned
    <3>2. PICK left \in SUBSET unwanted :
            names' = (names \ unwanted) \cup left /\ undeleted' = (undeleted \/ left # {})
      BY <1>7 DEF PublishFails
    <3> HIDE DEF unwanted
    <3>3. undeleted \in BOOLEAN
      BY DEF TransportTypeOK
    <3> QED BY <3>1, <3>2, <3>3
  <2> USE <2>1, <2>2 DEF FileStep
  <2>3. Booleans'
    BY ZenonT(40) DEF Booleans
  <2>4. TransportTypeOK'
    BY <2>3 DEF Booleans
  <2>5. RequestTokens' /\ FileSteps' /\ ConsumedOnce'
    OBVIOUS
  <2>6. Settles' /\ Concludes' /\ Reports'
    OBVIOUS
  <2> QED
    BY <2>4, <2>5, <2>6 DEF TInv
<1>8. CASE Stage
  <2> USE <1>8 DEF Stage
  <2>0. Booleans'
    BY ZenonT(40) DEF Booleans
  <2>1. TransportTypeOK'
    BY <2>0 DEF Booleans
  <2>2. RequestTokens'
    OBVIOUS
  <2>3. FileSteps'
    OBVIOUS
  <2>4. ConsumedOnce'
    OBVIOUS
  <2>5. Settles'
    OBVIOUS
  <2>6. Concludes'
    OBVIOUS
  <2>7. Reports'
    OBVIOUS
  <2> QED
    BY <2>1, <2>2, <2>3, <2>4, <2>5, <2>6, <2>7 DEF TInv
<1>9. CASE ReadAnswered
  BY <1>9 DEF ReadAnswered, ReadStep
<1>10. CASE ReadFails
  <2> USE <1>10 DEF ReadFails, ReadStep, Cleanup, Cleaned
  <2>0. Booleans'
    BY ZenonT(40) DEF Booleans
  <2>1. TransportTypeOK'
    <3>1. RequestTyped'
      BY DEF RequestTyped
    <3>2. FileTyped'
      BY DEF FileTyped
    <3>3. ChildTyped'
      BY DEF ChildTyped
    <3>4. OutcomeTyped'
      BY DEF OutcomeTyped
    <3> QED
      BY <2>0, <3>1, <3>2, <3>3, <3>4
      DEF Booleans, RequestTyped, FileTyped, ChildTyped, OutcomeTyped
  <2>2. RequestTokens'
    OBVIOUS
  <2>3. FileSteps'
    OBVIOUS
  <2>4. ConsumedOnce'
    OBVIOUS
  <2>5. Settles'
    OBVIOUS
  <2>6. Concludes'
    OBVIOUS
  <2>7. Reports'
    OBVIOUS
  <2> QED
    BY <2>1, <2>2, <2>3, <2>4, <2>5, <2>6, <2>7 DEF TInv
<1>11. CASE Spawn
  <2> USE <1>11 DEF Spawn
  <2>0. Booleans'
    BY ZenonT(40) DEF Booleans
  <2>1. TransportTypeOK'
    <3>1. RequestTyped'
      BY DEF RequestTyped
    <3>2. FileTyped'
      BY DEF FileTyped
    <3>3. ChildTyped'
      BY DEF ChildTyped
    <3>4. OutcomeTyped'
      BY DEF OutcomeTyped
    <3> QED
      BY <2>0, <3>1, <3>2, <3>3, <3>4
      DEF Booleans, RequestTyped, FileTyped, ChildTyped, OutcomeTyped
  <2>2. RequestTokens'
    OBVIOUS
  <2>3. FileSteps'
    OBVIOUS
  <2>4. ConsumedOnce'
    OBVIOUS
  <2>5. Settles'
    OBVIOUS
  <2>6. Concludes'
    OBVIOUS
  <2>7. Reports'
    OBVIOUS
  <2> QED
    BY <2>1, <2>2, <2>3, <2>4, <2>5, <2>6, <2>7 DEF TInv
<1>12. CASE ChildCloses
  BY <1>12 DEF ChildCloses, ChildStep
<1>13. CASE Deadline
  BY <1>13 DEF Deadline, ChildStep, Terminate
<1>14. CASE ForceSettlement
  BY <1>14 DEF ForceSettlement, ChildStep
<1>15. CASE Cancel
  <2> USE <1>15 DEF Cancel, EvidenceStep, Concluded, Then
  <2>0. Booleans'
    BY ZenonT(40) DEF Booleans
  <2>1. TransportTypeOK'
    BY <2>0 DEF Booleans
  <2>2. RequestTokens'
    OBVIOUS
  <2>3. FileSteps'
    OBVIOUS
  <2>4. ConsumedOnce'
    OBVIOUS
  <2>5. Settles'
    OBVIOUS
  <2>6. Concludes'
    <3>1. Apply' = Apply /\ Posix' = Posix /\ UNCHANGED <<taken, presented, names>>
      OBVIOUS
    <3>2. ~started' => broker' = "cancelled"
      OBVIOUS
    <3>3. ~started' /\ taken => broker # "consumed"
      OBVIOUS
    <3> QED
      BY <3>1, <3>2, <3>3
  <2>7. Reports'
    OBVIOUS
  <2> QED
    BY <2>1, <2>2, <2>3, <2>4, <2>5, <2>6, <2>7 DEF TInv
<1>16. CASE Finish
  <2> USE <1>16 DEF Finish, Cleanup, Cleaned
  <2>0. Booleans'
    BY ZenonT(40) DEF Booleans
  <2>1. outcome' \in Outcomes /\ (Apply /\ started /\ outcome'.by = "client" =>
                                   ~outcome'.retryable /\ outcome'.exit = 5)
    <3>1. signalled \in BOOLEAN
      OBVIOUS
    <3>2. CASE At("judge") /\ outcome' \in Judgements
      BY <3>2, JudgementIsOutcome DEF Booleans
    <3>3. CASE At("report") /\ outcome' = Caught(failure)
      BY <3>1, <3>3, CaughtIsOutcome
    <3> QED
      BY <3>2, <3>3
  <2>2. TransportTypeOK'
    <3>1. RequestTyped'
      BY DEF RequestTyped
    <3>2. FileTyped'
      BY DEF FileTyped
    <3>3. ChildTyped'
      BY DEF ChildTyped
    <3>4. OutcomeTyped'
      BY <2>1 DEF OutcomeTyped
    <3> QED
      BY <2>0, <3>1, <3>2, <3>3, <3>4
      DEF Booleans, RequestTyped, FileTyped, ChildTyped, OutcomeTyped
  <2>3. RequestTokens'
    OBVIOUS
  <2>4. FileSteps'
    OBVIOUS
  <2>5. ConsumedOnce'
    OBVIOUS
  <2>6. Settles'
    OBVIOUS
  <2>7. Concludes'
    OBVIOUS
  <2>8. Reports'
    <3>1. Posix /\ ~undeleted' => ~(presented /\ "target" \in names')
      OBVIOUS
    <3> QED
      BY <2>1, <3>1
  <2> QED
    BY <2>2, <2>3, <2>4, <2>5, <2>6, <2>7, <2>8 DEF TInv
<1>17. CASE ChildExits
  BY <1>17 DEF ChildExits, ChildStep, Outputs
<1>18. CASE LetGo
  <2> USE <1>18 DEF LetGo
  <2>0. Booleans'
    BY ZenonT(40) DEF Booleans
  <2>1. TransportTypeOK'
    <3>1. RequestTyped'
      BY DEF RequestTyped
    <3>2. FileTyped'
      BY DEF FileTyped
    <3>3. ChildTyped'
      BY DEF ChildTyped
    <3>4. OutcomeTyped'
      BY DEF OutcomeTyped
    <3> QED
      BY <2>0, <3>1, <3>2, <3>3, <3>4
      DEF Booleans, RequestTyped, FileTyped, ChildTyped, OutcomeTyped
  <2>2. RequestTokens'
    OBVIOUS
  <2>3. FileSteps'
    OBVIOUS
  <2>4. ConsumedOnce'
    OBVIOUS
  <2>5. Settles'
    OBVIOUS
  <2>6. Concludes'
    OBVIOUS
  <2>7. Reports'
    OBVIOUS
  <2> QED
    BY <2>1, <2>2, <2>3, <2>4, <2>5, <2>6, <2>7 DEF TInv
<1>19. CASE Overflow
  BY <1>19 DEF Overflow, ChildStep, Terminate
<1>20. CASE Signal
  BY <1>20 DEF Signal, ChildStep, Terminate
<1>21. CASE Consume
  <2> USE <1>21 DEF Consume
  <2>0. Booleans'
    BY ZenonT(40) DEF Booleans
  <2>1. TransportTypeOK'
    <3>1. RequestTyped'
      BY DEF RequestTyped
    <3>2. FileTyped'
      BY DEF FileTyped
    <3>3. ChildTyped'
      BY DEF ChildTyped
    <3>4. OutcomeTyped'
      BY DEF OutcomeTyped
    <3> QED
      BY <2>0, <3>1, <3>2, <3>3, <3>4
      DEF Booleans, RequestTyped, FileTyped, ChildTyped, OutcomeTyped
  <2>2. RequestTokens'
    OBVIOUS
  <2>3. FileSteps'
    OBVIOUS
  <2>4. ConsumedOnce'
    OBVIOUS
  <2>5. Settles'
    OBVIOUS
  <2>6. Concludes'
    OBVIOUS
  <2>7. Reports'
    OBVIOUS
  <2> QED
    BY <2>1, <2>2, <2>3, <2>4, <2>5, <2>6, <2>7 DEF TInv
<1>22. ASSUME NEW from \in {"settled", "catch"}, AskFile(from) PROVE TInv'
  <2> USE <1>22 DEF AskFile, Asking, Concluded, Then, EvidenceStep, Cleanup, Cleaned
  <2>0. Booleans'
    BY ZenonT(40) DEF Booleans
  <2>1. TransportTypeOK'
    <3>1. RequestTyped'
      BY DEF RequestTyped
    <3>2. FileTyped'
      BY DEF FileTyped
    <3>3. ChildTyped'
      BY DEF ChildTyped
    <3>4. OutcomeTyped'
      BY DEF OutcomeTyped
    <3> QED
      BY <2>0, <3>1, <3>2, <3>3, <3>4
      DEF Booleans, RequestTyped, FileTyped, ChildTyped, OutcomeTyped
  <2>2. RequestTokens'
    OBVIOUS
  <2>3. FileSteps'
    OBVIOUS
  <2>4. ConsumedOnce'
    OBVIOUS
  <2>5. Settles'
    OBVIOUS
  <2>6. Concludes'
    OBVIOUS
  <2>7. Reports'
    OBVIOUS
  <2> QED
    BY <2>1, <2>2, <2>3, <2>4, <2>5, <2>6, <2>7 DEF TInv
<1>23. ASSUME NEW from \in {"settled", "catch"}, AskBroker(from) PROVE TInv'
  <2> USE <1>23 DEF AskBroker, Asking, Concluded, Then, EvidenceStep
  <2>0. Booleans'
    BY ZenonT(40) DEF Booleans
  <2>1. TransportTypeOK'
    <3>1. RequestTyped'
      BY DEF RequestTyped
    <3>2. FileTyped'
      BY DEF FileTyped
    <3>3. ChildTyped'
      BY DEF ChildTyped
    <3>4. OutcomeTyped'
      BY DEF OutcomeTyped
    <3> QED
      BY <2>0, <3>1, <3>2, <3>3, <3>4
      DEF Booleans, RequestTyped, FileTyped, ChildTyped, OutcomeTyped
  <2>2. RequestTokens'
    OBVIOUS
  <2>3. FileSteps'
    OBVIOUS
  <2>4. ConsumedOnce'
    OBVIOUS
  <2>5. Settles'
    OBVIOUS
  <2>6. Concludes'
    OBVIOUS
  <2>7. Reports'
    OBVIOUS
  <2> QED
    BY <2>1, <2>2, <2>3, <2>4, <2>5, <2>6, <2>7 DEF TInv
<1>24. ASSUME NEW from \in {"settled", "catch"}, NotAsked(from) PROVE TInv'
  BY <1>24 DEF NotAsked, Asking, Then, EvidenceStep
<1>25. CASE UNCHANGED transportState
  BY <1>25 DEF transportState
<1> QED
  BY <1>1, <1>2, <1>3, <1>4, <1>5, <1>6, <1>7, <1>8, <1>9, <1>10, <1>11, <1>12, <1>13,
     <1>14, <1>15, <1>16, <1>17, <1>18, <1>19, <1>20, <1>21, <1>22, <1>23, <1>24, <1>25
     DEF TransportNext, Client

\* The variables of a Runtime command keep their types, for every platform: an
\* outcome carries one of the documented exit codes, and no error falls
\* through the classification (client.ts:109-116, 1013-1061).
THEOREM TransportTypeCorrect == TransportSpec => []TransportTypeOK
<1>1. TInv => TransportTypeOK
  BY DEF TInv
<1> QED
  BY TransportInitially, TransportStep, <1>1, PTL DEF TransportSpec

\* On every platform, wherever the failure, the deadline or the signal came:
\* an apply reported as not started never starts, one that was consumed is
\* never reported as retryable, and no request is left in the Runtime's reach.
THEOREM ReportsAreTrue == TransportSpec => []ReportIsTrue
<1>1. TInv => NotStartedIsTrue
  BY DEF TInv, Concludes, NotStartedIsTrue, At
<1>2. TInv => UncertainIsSaid
  BY DEF TInv, Concludes, Reports, UncertainIsSaid, At
<1>3. TInv => NothingLeft
  BY DEF TInv, TransportTypeOK, Reports, FileSteps, NothingLeft, Reachable, At
<1>4. TInv => ReportIsTrue
  BY <1>1, <1>2, <1>3 DEF ReportIsTrue
<1> QED
  BY TransportInitially, TransportStep, <1>4, PTL DEF TransportSpec
=============================================================================
