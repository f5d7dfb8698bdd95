--------------------------- MODULE PersistentRead ---------------------------
(***************************************************************************)
(* Reads over a persistent socket: PersistentReadTransportV1 and           *)
(* PersistentConnectionV1 of src/src/persistent-read-client.ts, under the  *)
(* read path of executeCliV1 (client.ts:348-424) and the frames of a JSONL *)
(* session (session-jsonl.ts:242-309).                                     *)
(*                                                                         *)
(* A session handles one frame at a time.  The reads of a group are        *)
(* announced with beginBatch, and go out together once all of them have    *)
(* called invoke; a read alone goes out at once.  A read without a result  *)
(* falls back to a spawned Obsidian CLI, with a new request token if its   *)
(* old one may have been presented.                                        *)
(***************************************************************************)
EXTENDS Naturals, Sequences, FiniteSets, Functions

CONSTANTS
  Reads,  \* the reads a session may receive
  Conns,  \* sockets; one that has ended is used again
  None

ASSUME NoneAssumption == None \notin Conns

\* A bound: a session has finitely many reads.
ASSUME ReadsAssumption == IsFiniteSet(Reads)

VARIABLES
  frame,     \* the reads of the frame in progress
  status,    \* where each read is
  attempt,   \* the attempt of a read that is alone
  token,     \* the request token each read has staged
  shown,     \* history: the tokens of each read presented to the Runtime
  expected,  \* batchExpected
  queue,     \* batchQueue
  conn,      \* the state of each socket
  load,      \* the reads that wait for each socket: connecting, or pending
  current,   \* this.connection
  cancelled,   \* the session's signal
  over,      \* the session has ended and closed its transport
  prompt     \* history: every frame's reads were built in one turn of the event loop

readVars == <<status, attempt, token, shown>>
linkVars == <<expected, queue, conn, load, current>>
codeVars == <<frame, readVars, linkVars, cancelled, over>>
transportVars == <<codeVars, prompt>>

Final == {"done", "failed", "refused", "aborted"}

ReadInit ==
  /\ frame = {}
  /\ status = [r \in Reads |-> "new"]
  /\ attempt = [r \in Reads |-> 0]
  /\ token = [r \in Reads |-> 1]
  /\ shown = [r \in Reads |-> <<>>]
  /\ expected = 0
  /\ queue = {}
  /\ conn = [c \in Conns |-> "closed"]
  /\ load = [c \in Conns |-> {}]
  /\ current = None
  /\ cancelled = FALSE
  /\ over = FALSE
  /\ prompt = TRUE

Becomes(S, s) == status' = [r \in Reads |-> IF r \in S THEN s ELSE status[r]]

(***************************************************************************)
(* PersistentReadTransportV1.close                                         *)
(***************************************************************************)

\* The reads that wait on the current socket.
Riding == IF current = None THEN {} ELSE load[current]

\* Mutant of Unserved: close forgets the reads that are queued.
UnservedRiding(r) == IF r \in Riding THEN "lost" ELSE status[r]

\* What close makes of read r: a queued one is rejected before it was sent,
\* one whose frame is out with frameSent.
Unserved(r) ==
  IF r \in queue THEN "unsent"
  ELSE IF r \in Riding THEN "lost"
  ELSE status[r]

ClearBatch == expected' = 0 /\ queue' = {}

\* close, where the failure or the new dispatch of the reads S is its cause:
\* they become s; the sockets E have ended, and the socket c, unless None, is
\* being connected for S.
Closing(S, s, E, c) ==
  /\ ClearBatch
  /\ status' = [r \in Reads |-> IF r \in S THEN s ELSE Unserved(r)]
  /\ conn' = [d \in Conns |-> IF d = c THEN "connecting"
                              ELSE IF d = current \/ d \in E THEN "closed"
                              ELSE conn[d]]
  /\ load' = [d \in Conns |-> IF d = c THEN S
                              ELSE IF d = current \/ d \in E THEN {}
                              ELSE load[d] \ S]
  /\ current' = None

(***************************************************************************)
(* Dispatch                                                                *)
(***************************************************************************)

Usable == current # None /\ conn[current] = "open"

\* The frame with the tokens of S is written to socket c.
Transmit(S, c) ==
  /\ Becomes(S, "sent")
  /\ load' = [load EXCEPT ![c] = S]
  /\ shown' = [r \in Reads |-> IF r \in S THEN Append(shown[r], token[r]) ELSE shown[r]]

\* The transport is closed and a new socket is connected for S; a socket's name
\* means nothing, so any free one will do.
Reconnect(S) ==
  LET free == {c \in Conns : conn[c] = "closed" /\ load[c] = {}} IN
  free # {} /\ Closing(S, "connecting", {}, CHOOSE c \in free : TRUE)

\* The vault's fence does not hold any more, before a batch or on the socket in
\* use: an error that does not say so counts as one after the frame was sent.
FenceLost(S) ==
  /\ Usable \/ Cardinality(S) > 1
  /\ Closing(S, "lost", {}, None)
  /\ UNCHANGED <<attempt, shown>>

\* A socket serves one frame at a time: PERSISTENT_REQUEST_IN_FLIGHT is an
\* error before anything is sent, so a read alone reconnects for its second
\* attempt, and closes the busy socket by that.
Dispatch(S) ==
  \/ /\ Usable /\ load[current] = {}
     /\ Transmit(S, current)
     /\ ClearBatch
     /\ UNCHANGED <<attempt, conn, current>>
  \/ /\ Usable /\ load[current] # {} /\ Cardinality(S) > 1
     /\ Closing(S, "unsent", {}, None)
     /\ UNCHANGED <<attempt, shown>>
  \/ /\ Usable /\ load[current] # {} /\ Cardinality(S) = 1
     /\ Reconnect(S)
     /\ attempt' = [r \in Reads |-> IF r \in S THEN 1 ELSE attempt[r]]
     /\ UNCHANGED shown
  \/ ~Usable /\ Reconnect(S) /\ UNCHANGED <<attempt, shown>>
  \/ FenceLost(S)

(***************************************************************************)
(* Frames of the session                                                   *)
(***************************************************************************)

\* A frame with one read to dispatch, or a group with beginBatch: which throws
\* when the batch before it has not come to an end, and fails the frame.
StartFrame(S) ==
  /\ frame = {} /\ ~cancelled /\ ~over
  /\ S # {} /\ \A r \in S : status[r] = "new"
  /\ IF Cardinality(S) > 1 /\ expected # 0
     THEN Becomes(S, "refused") /\ UNCHANGED <<frame, expected, queue>>
     ELSE /\ frame' = S
          /\ Becomes(S, "building")
          /\ expected' = IF Cardinality(S) > 1 THEN Cardinality(S) ELSE expected
          /\ UNCHANGED queue
  /\ UNCHANGED <<attempt, token, shown, conn, load, current, cancelled, over>>

\* A read may end before it reaches the transport: arguments that do not
\* parse, a vault that does not resolve, a request that cannot be staged.
FailLocally(r) ==
  /\ status[r] = "building"
  /\ Becomes({r}, "failed")
  /\ UNCHANGED <<frame, attempt, token, shown, linkVars, cancelled, over>>

\* invoke: the last read of a batch takes all of it along, and one whose vault
\* fence does not hold is left out.
Invoke(r) ==
  /\ status[r] = "building"
  /\ \/ /\ Becomes({r}, "unsent")
        /\ UNCHANGED <<attempt, shown, linkVars>>
     \/ /\ expected > Cardinality(queue) + 1
        /\ queue' = queue \cup {r}
        /\ Becomes({r}, "queued")
        /\ UNCHANGED <<attempt, shown, expected, conn, load, current>>
     \/ expected = Cardinality(queue) + 1 /\ Dispatch(queue \cup {r})
     \/ expected = 0 /\ Dispatch({r})
  /\ UNCHANGED <<frame, token, cancelled, over>>

\* rejectIncompleteBatch, five seconds after beginBatch.
TimerFires ==
  /\ expected # 0
  /\ Becomes(queue, "unsent")
  /\ ClearBatch
  /\ UNCHANGED <<frame, attempt, token, shown, conn, load, current, cancelled, over>>

EndFrame ==
  /\ frame # {} /\ \A r \in frame : status[r] \in Final
  /\ frame' = {}
  /\ UNCHANGED <<readVars, linkVars, cancelled, over>>

(***************************************************************************)
(* Sockets                                                                 *)
(***************************************************************************)

\* Connected and greeted: the socket becomes the current one, whatever was.
Connected(c) ==
  /\ conn[c] = "connecting"
  /\ conn' = [conn EXCEPT ![c] = "open"]
  /\ current' = c
  /\ Transmit(load[c], c)
  /\ UNCHANGED <<frame, attempt, token, expected, queue, cancelled, over>>

\* A descriptor or socket that is not right, no server, or a handshake that
\* fails or idles out: nothing was sent, and a read alone tries once more.
ConnectFails(c) ==
  /\ conn[c] = "connecting"
  /\ LET S == load[c]
         again == Cardinality(S) = 1 /\ ~cancelled /\ \A r \in S : attempt[r] = 0
     IN IF again
        THEN /\ Closing(S, "connecting", {}, c)
             /\ attempt' = [r \in Reads |-> IF r \in S THEN 1 ELSE attempt[r]]
        ELSE Closing(S, "unsent", {c}, None) /\ UNCHANGED attempt
  /\ UNCHANGED <<frame, token, shown, cancelled, over>>

\* An error of the file system on the way, a missing descriptor or socket say,
\* is wrapped as one after the frame was sent: no second attempt.
ConnectErrs(c) ==
  /\ conn[c] = "connecting"
  /\ Closing(load[c], "lost", {c}, None)
  /\ UNCHANGED <<frame, attempt, token, shown, cancelled, over>>

\* The socket is there when the fence of a read alone does not hold any more:
\* it becomes the current one, whatever was, and is closed.
ConnectedLate(c) ==
  /\ conn[c] = "connecting" /\ Cardinality(load[c]) = 1
  /\ ClearBatch
  /\ status' = [r \in Reads |-> IF r \in load[c] THEN "lost"
                               ELSE IF r \in queue THEN "unsent" ELSE status[r]]
  /\ conn' = [conn EXCEPT ![c] = "closed"]
  /\ load' = [load EXCEPT ![c] = {}]
  /\ current' = None
  /\ UNCHANGED <<frame, attempt, token, shown, cancelled, over>>

AnswerRead(r, c) ==
  /\ conn[c] = "open" /\ r \in load[c]
  /\ Becomes({r}, "done")
  /\ load' = [load EXCEPT ![c] = @ \ {r}]
  /\ UNCHANGED <<frame, attempt, token, shown, expected, queue, conn, current, cancelled, over>>

\* Mutant of Break: a frame without its answer is taken for one not sent.
BreakUnsent(c) ==
  /\ conn[c] = "open" /\ load[c] # {}
  /\ Closing(load[c], "unsent", {c}, None)
  /\ UNCHANGED <<frame, attempt, token, shown, cancelled, over>>

\* The socket errs, ends or idles for 30 seconds while reads are pending, or
\* what it delivers is inadmissible; a socket that only misbehaves is not
\* destroyed unless it is the current one.
Break(c) ==
  /\ conn[c] = "open" /\ load[c] # {}
  /\ \E E \in {{}, {c}} : Closing(load[c], "lost", E, None)
  /\ UNCHANGED <<frame, attempt, token, shown, cancelled, over>>

\* An idle socket ends; nobody is told, isUsable finds out.
Idle(c) ==
  /\ conn[c] = "open" /\ load[c] = {}
  /\ conn' = [conn EXCEPT ![c] = "closed"]
  /\ UNCHANGED <<frame, readVars, expected, queue, load, current, cancelled, over>>

(***************************************************************************)
(* The fallback, and the end of the session                                *)
(***************************************************************************)

\* A frame that was sent may have used the token up: the request is staged
\* again.  Then the spawned CLI presents the token, and its own deadline ends
\* the read.
SpawnRead(r) ==
  LET t == IF status[r] = "lost" THEN token[r] + 1 ELSE token[r] IN
  /\ token' = [token EXCEPT ![r] = t]
  /\ shown' = [shown EXCEPT ![r] = Append(@, t)]
  /\ Becomes({r}, "done")

\* Mutant of Fallback: the signal is not looked at.
FallbackAnyway(r) ==
  /\ status[r] \in {"unsent", "lost"} /\ SpawnRead(r)
  /\ UNCHANGED <<frame, attempt, linkVars, cancelled, over>>

Fallback(r) ==
  /\ status[r] \in {"unsent", "lost"}
  /\ IF cancelled THEN Becomes({r}, "aborted") /\ UNCHANGED <<token, shown>> ELSE SpawnRead(r)
  /\ UNCHANGED <<frame, attempt, linkVars, cancelled, over>>

\* The signal ends every socket somebody waits for, and by that the batch.
AbortReads ==
  /\ ~cancelled /\ ~over
  /\ cancelled' = TRUE
  /\ LET busy == {c \in Conns : load[c] # {}} IN
     IF busy = {} THEN UNCHANGED <<status, linkVars>>
     ELSE Closing(UNION {load[c] : c \in busy}, "aborted", busy, None)
  /\ UNCHANGED <<frame, attempt, token, shown, over>>

\* The input ends, or a response cannot be written because of the abort: the
\* finally of runJsonlSessionV1 closes the transport.
EndSession ==
  /\ ~over /\ (frame = {} \/ (cancelled /\ \E r \in frame : status[r] \in Final))
  /\ over' = TRUE
  /\ Closing({}, "new", {}, None)
  /\ UNCHANGED <<frame, attempt, token, shown, cancelled>>

Build(r) == FailLocally(r) \/ Invoke(r)
Proceed(r) == Build(r) \/ Fallback(r)
Outcome(c) ==
  \/ Connected(c) \/ ConnectFails(c) \/ ConnectErrs(c) \/ ConnectedLate(c)
  \/ Break(c) \/ Idle(c) \/ \E r \in Reads : AnswerRead(r, c)

\* The reads of a frame are built in one turn of the event loop where their
\* requests are staged by synchronous system calls, their input being in
\* memory: everywhere but on Windows, where staging asks the broker.
Prompt == (\E r \in Reads : status[r] = "building") => \E r \in Reads : Build(r)

\* A frame is of any number of reads; their names mean nothing, so of each size
\* one set stands for all.
Unread == {r \in Reads : status[r] = "new"}
Stands(S) == S = CHOOSE T \in SUBSET Unread : Cardinality(T) = Cardinality(S)

Act ==
  \/ \E S \in SUBSET Unread : Stands(S) /\ StartFrame(S)
  \/ \E r \in Reads : Proceed(r)
  \/ \E c \in Conns : Outcome(c)
  \/ TimerFires \/ EndFrame \/ AbortReads \/ EndSession

ReadNext == Act /\ prompt' = (prompt /\ Prompt)

ReadSpec == ReadInit /\ [][ReadNext]_transportVars

\* Promises settle: a build ends, a connection attempt and a pending frame end
\* by the socket's idle timeout at the latest, a batch by its timer, and the
\* spawned CLI by its deadline.  That some of them goes on at any time is all
\* that is needed.  Nothing obliges the session to go on.
ReadsGoOn ==
  \/ \E r \in Reads : Proceed(r)
  \/ \E c \in Conns : Outcome(c)
  \/ TimerFires

FairReadSpec == ReadSpec /\ WF_codeVars(ReadsGoOn)

(***************************************************************************)
(* Properties                                                              *)
(***************************************************************************)

ReadTypeOK ==
  /\ frame \subseteq Reads
  /\ status \in [Reads -> Final \cup {"new", "building", "queued", "connecting",
                                     "sent", "unsent", "lost"}]
  /\ attempt \in [Reads -> {0, 1}]
  /\ token \in [Reads -> {1, 2}]
  /\ shown \in [Reads -> Seq({1, 2})]
  /\ expected \in 0..Cardinality(Reads)
  /\ queue \subseteq Reads
  /\ conn \in [Conns -> {"closed", "connecting", "open"}]
  /\ load \in [Conns -> SUBSET Reads]
  /\ current \in Conns \cup {None}
  /\ cancelled \in BOOLEAN
  /\ over \in BOOLEAN
  /\ prompt \in BOOLEAN

\* Every read whose promise is open is held by exactly one place that settles
\* it: the batch that is being collected, or one socket that is connected for
\* it or carries its frame, through failures that close the transport under
\* several reads at once.
Accounted ==
  /\ \A r \in Reads : status[r] = "queued" <=> r \in queue
  /\ \A r \in Reads : status[r] \in {"connecting", "sent"} =>
       \E c \in Conns : r \in load[c]
  /\ \A c \in Conns : \A r \in load[c] :
       /\ status[r] = IF conn[c] = "open" THEN "sent" ELSE "connecting"
       /\ conn[c] # "closed"
       /\ \A d \in Conns \ {c} : r \notin load[d]
  /\ queue # {} => Cardinality(queue) < expected

\* A request token is consumed by the Runtime once.  None is presented twice,
\* over the socket, on a retry or by the spawned fallback.
TokensAreFresh == \A r \in Reads : IsInjective(shown[r])

\* A session has one socket at a time, and none when it has ended, where the
\* reads of a frame are built in one turn of the event loop.
OneSocket == prompt =>
  /\ Cardinality({c \in Conns : conn[c] # "closed"}) <= 1
  /\ over => \A c \in Conns : conn[c] = "closed"

\* No read, token or socket is lost or used twice.
ReadsAreAccounted == Accounted /\ TokensAreFresh /\ OneSocket

\* Sockets, batches, retries and the fallback together keep the contract: a
\* read is answered by a Runtime that was asked, at most twice and never with a
\* token it has seen, and does not end twice (client.ts:348-424).
Contract == INSTANCE ReadContract WITH
  Tokens <- {1, 2},
  stage <- [r \in Reads |-> IF status[r] \in Final \cup {"new"} THEN status[r] ELSE "open"],
  seen <- [r \in Reads |-> Range(shown[r])],
  stopped <- cancelled
ContractKept == Contract!ContractSpec

\* Every read comes to a result, whichever sockets, servers and companions of
\* its batch fail: reads that have begun are all over at last.
Pending(r) == status[r] \notin Final \cup {"new"}
ReadsEnd == (\E r \in Reads : Pending(r)) ~> \A r \in Reads : ~Pending(r)

\* A well-formed group of reads is run (test/transport/session-jsonl.test.ts:94).
\* It is not when all reads of the group before it have failed locally less
\* than five seconds ago.
GroupsRun == prompt => \A r \in Reads : status[r] # "refused"

=============================================================================
