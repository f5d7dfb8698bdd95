---------------------------- MODULE JsonlSession ----------------------------
(***************************************************************************)
(* What a JSONL session writes: runJsonlSessionV1 and processSessionLine   *)
(* of src/src/session-jsonl.ts, with the ordered writer of a read group,   *)
(* back pressure, abort and the recovery frame of an interrupted apply.    *)
(*                                                                         *)
(* The session handles one input frame after the other.  The reads of a    *)
(* group settle in any order; each appends a link to a promise chain, and  *)
(* the links, one at a time, write what is ready in request order.         *)
(***************************************************************************)
EXTENDS Naturals, Sequences, FiniteSets

CONSTANTS
  Size,      \* the number of reads of a group
  MaxFrames  \* bound: frames in the input

ASSUME SizeAssumption == Size \in Nat \ {0}
ASSUME MaxFramesAssumption == MaxFrames \in Nat

VARIABLES
  begun,      \* input frames read so far
  phase,      \* what the session waits for
  settled,    \* the reads of the group whose response promise is fulfilled
  ready,      \* ready: the responses not taken by the writer yet
  position,   \* nextExpectedIndex
  links,      \* links of writeChain that have not come to their end
  chain,      \* writeChain: running, waiting for drain, or rejected
  full,       \* the last write was not accepted and no drain has come
  written,    \* history: the responses written
  aborted,    \* the session's signal
  unwritable, \* history: the output has failed
  exit,       \* the exit code, or "none"
  uncertain   \* history: frames whose command returned a recovery planRef

groupVars == <<settled, ready, position, links, chain>>
vars == <<begun, phase, groupVars, full, written, aborted, unwritable, exit, uncertain>>

Items == 1..Size

\* A response: to one read of a group (item > 0), or to a whole frame.
Response(what, item) == [frame |-> begun, what |-> what, item |-> item]

Init ==
  /\ begun = 0
  /\ phase = "input"
  /\ settled = {}
  /\ ready = {}
  /\ position = 0
  /\ links = 0
  /\ chain = "running"
  /\ full = FALSE
  /\ written = <<>>
  /\ aborted = FALSE
  /\ unwritable = FALSE
  /\ exit = "none"
  /\ uncertain = {}

\* output.write: accepted, or to be followed by a drain.
Put(response, accepted) ==
  /\ written' = Append(written, response)
  /\ full' = (full \/ ~accepted)

End(code) == phase' = "over" /\ exit' = code

\* Mutant of Answer: the signal is not looked at before the write.
AnswerAnyway(response) ==
  \E accepted \in BOOLEAN :
    /\ Put(response, accepted)
    /\ phase' = IF accepted THEN "input" ELSE "drain"
    /\ UNCHANGED exit

\* writeSessionResponse for a frame as a whole.
Answer(response) ==
  IF aborted THEN End("130") /\ UNCHANGED <<written, full>>
  ELSE \E accepted \in BOOLEAN :
         /\ Put(response, accepted)
         /\ phase' = IF accepted THEN "input" ELSE "drain"
         /\ UNCHANGED exit

(***************************************************************************)
(* Input                                                                   *)
(***************************************************************************)

Begin(kind) ==
  /\ phase = "input" /\ ~aborted /\ begun < MaxFrames
  /\ begun' = begun + 1
  /\ phase' = kind
  /\ settled' = {} /\ ready' = {} /\ position' = 0 /\ links' = 0 /\ chain' = "running"
  /\ UNCHANGED <<full, written, aborted, unwritable, exit, uncertain>>

\* The input ends, or is destroyed by the signal handler.
InputEnds ==
  /\ phase = "input"
  /\ End(IF aborted THEN "130" ELSE "0")
  /\ UNCHANGED <<begun, groupVars, full, written, aborted, unwritable, uncertain>>

\* A frame that is not a valid request, too long, or refused.
Malformed ==
  /\ phase = "malformed"
  /\ Answer(Response("error", 0))
  /\ UNCHANGED <<begun, groupVars, aborted, unwritable, uncertain>>

(***************************************************************************)
(* A single command                                                        *)
(***************************************************************************)

Completes ==
  /\ phase = "command"
  /\ Answer(Response("answer", 0))
  /\ UNCHANGED <<begun, groupVars, aborted, unwritable, uncertain>>

\* The recovery frame of an aborted session does not look at the signal, and
\* waits for its drain at most one second.
LastFrame ==
  \E accepted \in BOOLEAN :
    /\ Put(Response("recovery", 0), accepted)
    /\ IF accepted THEN End("5") ELSE phase' = "last" /\ UNCHANGED exit

\* Mutant of Recovers: the recovery frame is a response like any other.
RecoversPlainly ==
  /\ phase = "command"
  /\ uncertain' = uncertain \cup {begun}
  /\ Answer(Response("recovery", 0))
  /\ UNCHANGED <<begun, groupVars, aborted, unwritable>>

\* The command returns, with a recovery planRef: the outcome of an apply is
\* uncertain.
Recovers ==
  /\ phase = "command"
  /\ uncertain' = uncertain \cup {begun}
  /\ IF aborted THEN LastFrame ELSE Answer(Response("recovery", 0))
  /\ UNCHANGED <<begun, groupVars, aborted, unwritable>>

\* runCommand rejects although the apply may have started: its recovery frame
\* is a response like any other, and an aborted session drops it.
Throws ==
  /\ phase = "command"
  /\ Answer(Response("recovery", 0))
  /\ UNCHANGED <<begun, groupVars, aborted, unwritable, uncertain>>

LastEnds ==
  /\ phase = "last"
  /\ End("5")
  /\ UNCHANGED <<begun, groupVars, full, written, aborted, unwritable, uncertain>>

(***************************************************************************)
(* A read group: writeOrderedReadGroupResponses                            *)
(***************************************************************************)

Settle(i) ==
  /\ phase = "group" /\ i \notin settled
  /\ settled' = settled \cup {i}
  /\ ready' = ready \cup {i}
  /\ links' = links + 1
  /\ UNCHANGED <<begun, phase, position, chain, full, written, aborted, unwritable,
                 exit, uncertain>>

\* Mutant of Take: a response is written as soon as it is ready.
TakeAny(i) == i \in ready

Take(i) == i \in ready /\ i = position + 1

\* The first link of the chain goes on with the next response in order.
WriteNext ==
  /\ phase = "group" /\ chain = "running" /\ links > 0
  /\ \E i \in Items :
       /\ Take(i)
       /\ ready' = ready \ {i}
       /\ position' = position + 1
       /\ IF aborted THEN chain' = "rejected" /\ UNCHANGED <<written, full>>
          ELSE \E accepted \in BOOLEAN :
                 /\ Put(Response("read", i), accepted)
                 /\ chain' = IF accepted THEN "running" ELSE "drain"
  /\ UNCHANGED <<begun, phase, settled, links, aborted, unwritable, exit, uncertain>>

\* Mutant of LinkEnds: a link ends after one response.
LinkEndsEarly ==
  /\ phase = "group" /\ chain = "running" /\ links > 0
  /\ links' = links - 1
  /\ UNCHANGED <<begun, phase, settled, ready, position, chain, full, written, aborted,
                 unwritable, exit, uncertain>>

\* The loop of a link ends when the next response is not ready: whoever settles
\* it appends another link.
LinkEnds ==
  /\ phase = "group" /\ chain = "running" /\ links > 0
  /\ position + 1 \notin ready
  /\ links' = links - 1
  /\ UNCHANGED <<begun, phase, settled, ready, position, chain, full, written, aborted,
                 unwritable, exit, uncertain>>

\* Promise.all is fulfilled.
GroupEnds ==
  /\ phase = "group" /\ settled = Items /\ links = 0 /\ chain = "running"
  /\ phase' = "input"
  /\ UNCHANGED <<begun, groupVars, full, written, aborted, unwritable, exit, uncertain>>

\* The group fails as a whole while reads of it may go on: what they settle
\* appends to a rejected chain.
GroupFails ==
  /\ phase = "group" /\ chain = "rejected"
  /\ Answer(Response("error", 0))
  /\ UNCHANGED <<begun, groupVars, aborted, unwritable, uncertain>>

(***************************************************************************)
(* The output and the signal                                               *)
(***************************************************************************)

Drain ==
  /\ full
  /\ full' = FALSE
  /\ CASE phase = "drain" -> phase' = "input" /\ UNCHANGED <<chain, exit>>
       [] phase = "last" -> End("5") /\ UNCHANGED chain
       [] phase = "group" /\ chain = "drain" -> chain' = "running" /\ UNCHANGED <<phase, exit>>
       [] OTHER -> UNCHANGED <<phase, chain, exit>>
  /\ UNCHANGED <<begun, settled, ready, position, links, written, aborted, unwritable,
                 uncertain>>

\* The output closes or errs; when nobody waits for it, the error ends the
\* process.
OutputFails ==
  /\ phase # "over"
  /\ unwritable' = TRUE
  /\ CASE phase = "drain" -> End("70") /\ UNCHANGED chain
       [] phase = "last" -> End("5") /\ UNCHANGED chain
       [] phase = "group" /\ chain = "drain" -> chain' = "rejected" /\ UNCHANGED <<phase, exit>>
       [] OTHER -> End("crash") /\ UNCHANGED chain
  /\ UNCHANGED <<begun, settled, ready, position, links, full, written, aborted, uncertain>>

Abort ==
  /\ ~aborted /\ phase # "over"
  /\ aborted' = TRUE
  /\ IF phase = "drain" THEN End("130") ELSE UNCHANGED <<phase, exit>>
  /\ chain' = IF phase = "group" /\ chain = "drain" THEN "rejected" ELSE chain
  /\ UNCHANGED <<begun, settled, ready, position, links, full, written, unwritable, uncertain>>

Work ==
  \/ Malformed \/ Completes \/ Recovers \/ Throws \/ LastEnds
  \/ (\E i \in Items : Settle(i)) \/ WriteNext \/ LinkEnds \/ GroupEnds \/ GroupFails

Next ==
  \/ \E kind \in {"malformed", "command", "group"} : Begin(kind)
  \/ InputEnds \/ Work \/ Drain \/ OutputFails \/ Abort

Spec == Init /\ [][Next]_vars

\* Commands and reads end (they get the signal and have deadlines), the event
\* loop runs on, and the signal handler destroys the input.  Nothing obliges
\* the output to drain.
FairSpec == Spec /\ WF_vars(Work) /\ WF_vars(InputEnds /\ aborted)

(***************************************************************************)
(* Properties                                                              *)
(***************************************************************************)

Responses == [frame : 1..MaxFrames, what : {"answer", "recovery", "error", "read"},
              item : 0..Size]

TypeOK ==
  /\ begun \in 0..MaxFrames
  /\ phase \in {"input", "malformed", "command", "group", "drain", "last", "over"}
  /\ settled \subseteq Items
  /\ ready \subseteq settled
  /\ position \in 0..Size
  /\ links \in 0..Size
  /\ chain \in {"running", "drain", "rejected"}
  /\ full \in BOOLEAN
  /\ written \in Seq(Responses)
  /\ aborted \in BOOLEAN
  /\ unwritable \in BOOLEAN
  /\ exit \in {"none", "0", "5", "70", "130", "crash"}
  /\ uncertain \subseteq 1..MaxFrames

\* Responses come in the order of the requests: frame after frame, the reads
\* of a group as a contiguous prefix, whichever settles first.
InRequestOrder ==
  \A m, n \in DOMAIN written :
    LET r == written[m] s == written[n] IN
    /\ m < n => \/ r.frame < s.frame
                \/ r.frame = s.frame /\ (s.what = "error" \/ s.item > r.item)
    /\ s.item > 1 => n > 1 /\ written[n - 1] = [s EXCEPT !.item = @ - 1]

\* When the session takes up the next frame, every frame before it has got all
\* its responses, or an error: no completion is overlooked by the links, so
\* that SESSION_READ_GROUP_INCOMPLETE is never thrown.
Answered(f) ==
  \E n \in DOMAIN written : /\ written[n].frame = f
                            /\ written[n].item \in {0, Size}
EveryFrameAnswered == \A f \in 1..begun : f < begun \/ phase = "input" => Answered(f)

\* Nothing is written between a write that was not accepted and its drain,
\* unless the output has failed.
BackPressure == [][written' # written => ~full \/ unwritable]_vars

\* After the abort one frame may still be written: that of an apply whose
\* outcome is uncertain.
SilentAfterAbort ==
  [][aborted /\ written' # written =>
       /\ written'[Len(written')].what = "recovery"
       /\ phase' \in {"last", "over"}]_vars

\* However reads settle, drains are late and the user interrupts: what is written
\* is neither more than the output takes nor more than an abort leaves to say.
OutputIsHeld == BackPressure /\ SilentAfterAbort

Reported(f) == \E n \in DOMAIN written : written[n].frame = f /\ written[n].what = "recovery"

\* No session ends without the recovery frame of an apply that returned an
\* uncertain outcome, aborted or not (test/transport/session-jsonl.test.ts:1147-1188).
RecoveryReported == \A f \in uncertain : Reported(f)

\* An abort ends the session, also when the output never drains.
AbortEnds == aborted ~> phase = "over"

=============================================================================
