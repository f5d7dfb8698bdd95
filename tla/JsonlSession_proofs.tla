------------------------ MODULE JsonlSession_proofs ------------------------
(***************************************************************************)
(* For groups of any size and any number of frames.  The invariant says of *)
(* a group that a read has settled exactly when it is ready or written,    *)
(* and that a chain without links leaves nothing behind that is next.      *)
(***************************************************************************)
EXTENDS JsonlSession, FiniteSetTheorems, TLAPS

LinksBounded == links <= Cardinality(settled)

\* Where the next write is to be made, the output accepts it.
Writable ==
  /\ phase \in {"input", "malformed", "command"} => ~full \/ unwritable
  /\ phase = "group" /\ chain = "running" => ~full \/ unwritable
  /\ phase = "group" /\ chain = "rejected" => ~full \/ unwritable \/ aborted

\* Nothing is ready that the chain will not look at.
Grouped ==
  phase = "group" =>
    /\ settled = ready \cup 1..position
    /\ links = 0 /\ chain # "rejected" => position + 1 \notin ready
    /\ chain # "rejected" /\ position > 0 =>
         \E n \in DOMAIN written : written[n] = Response("read", position)

Covered ==
  /\ EveryFrameAnswered
  /\ phase = "drain" => Answered(begun)
  /\ phase \in {"malformed", "command", "group", "drain", "last"} => begun > 0

IInv == TypeOK /\ LinksBounded /\ Writable /\ Grouped /\ Covered

(***************************************************************************)
(* Lemmas                                                                  *)
(***************************************************************************)

\* A set of reads is finite, and has at most Size members.
LEMMA ItemsFinite ==
  ASSUME NEW S, S \subseteq Items
  PROVE  IsFiniteSet(S) /\ Cardinality(S) <= Size
<1>1. IsFiniteSet(Items) /\ Cardinality(Items) = Size
  BY SizeAssumption, FS_Interval DEF Items
<1> QED
  BY <1>1, FS_Subset

\* A response is well-typed whenever a frame has been read.
LEMMA ResponseTyped ==
  ASSUME TypeOK, begun > 0, NEW w \in {"answer", "recovery", "error", "read"},
         NEW i \in 0..Size
  PROVE  Response(w, i) \in Responses
BY MaxFramesAssumption, SizeAssumption DEF TypeOK, Response, Responses

\* A response that has been written stays written.
LEMMA WrittenGrows ==
  ASSUME NEW w \in Seq(Responses), NEW r \in Responses
  PROVE  /\ Append(w, r) \in Seq(Responses)
         /\ Len(Append(w, r)) = Len(w) + 1
         /\ Append(w, r)[Len(w) + 1] = r
         /\ \A n \in DOMAIN w : n \in DOMAIN Append(w, r) /\ Append(w, r)[n] = w[n]
         /\ Len(w) + 1 \in DOMAIN Append(w, r)
OBVIOUS

\* Frames that are answered stay answered.
LEMMA AnsweredStays ==
  ASSUME NEW f, Answered(f), TypeOK,
         written' = written \/ \E r \in Responses : written' = Append(written, r)
  PROVE  Answered(f)'
<1>1. PICK n \in DOMAIN written : written[n].frame = f /\ written[n].item \in {0, Size}
  BY DEF Answered
<1>2. CASE written' = written
  BY <1>1, <1>2 DEF Answered
<1>3. CASE \E r \in Responses : written' = Append(written, r)
  <2>1. n \in DOMAIN written' /\ written'[n] = written[n]
    BY <1>3, WrittenGrows DEF TypeOK
  <2> QED
    BY <1>1, <2>1 DEF Answered
<1> QED
  BY <1>2, <1>3

\* What a response to a whole frame preserves.
LEMMA AnswerPreserves ==
  ASSUME IInv, NEW w \in {"answer", "recovery", "error"}, Answer(Response(w, 0)),
         phase \in {"malformed", "command", "group"}, phase = "group" => chain = "rejected",
         UNCHANGED <<begun, groupVars, aborted, unwritable>>,
         uncertain' \subseteq 1..MaxFrames
  PROVE  IInv'
<1>1. begun > 0 /\ begun \in 1..MaxFrames
  BY DEF IInv, Covered, TypeOK
<1>2. Response(w, 0) \in Responses
  BY <1>1, ResponseTyped, SizeAssumption DEF IInv
<1>3. UNCHANGED <<begun, settled, ready, position, links, chain, aborted, unwritable>>
  BY DEF groupVars
<1>4. CASE aborted
  <2>1. phase' = "over" /\ exit' = "130" /\ written' = written /\ full' = full
    BY <1>4 DEF Answer, End
  <2>2. \A f \in 1..begun : f < begun => Answered(f)'
    BY <2>1, AnsweredStays DEF IInv, Covered, EveryFrameAnswered
  <2>3. EveryFrameAnswered'
    BY <1>3, <2>1, <2>2 DEF EveryFrameAnswered, IInv, TypeOK
  <2> QED
    BY <1>3, <2>1, <2>3 DEF IInv, TypeOK, LinksBounded, Writable, Grouped, Covered
<1>5. CASE ~aborted
  <2>1. PICK accepted \in BOOLEAN :
          /\ written' = Append(written, Response(w, 0))
          /\ full' = (full \/ ~accepted)
          /\ phase' = IF accepted THEN "input" ELSE "drain"
          /\ exit' = exit
    BY <1>5 DEF Answer, Put
  <2>2. Answered(begun)'
    <3>1. Len(written) + 1 \in DOMAIN written' /\ written'[Len(written) + 1] = Response(w, 0)
      BY <1>2, <2>1, WrittenGrows DEF IInv, TypeOK
    <3> QED
      BY <1>3, <3>1 DEF Answered, Response
  <2>3. \A f \in 1..begun : f < begun => Answered(f)'
    BY <1>2, <2>1, AnsweredStays DEF IInv, Covered, EveryFrameAnswered
  <2>4. EveryFrameAnswered'
    BY <1>3, <2>2, <2>3 DEF EveryFrameAnswered, IInv, TypeOK
  <2>5. TypeOK'
    BY <1>2, <1>3, <2>1, WrittenGrows DEF IInv, TypeOK
  <2>6. Writable'
    <3>1. ~full \/ unwritable
      BY <1>5 DEF IInv, Writable
    <3>2. CASE accepted
      <4>1. full' <=> full
        BY <2>1, <3>2
      <4> QED
        BY <1>3, <2>1, <3>1, <3>2, <4>1 DEF Writable
    <3>3. CASE ~accepted
      BY <2>1, <3>3 DEF Writable
    <3> QED
      BY <3>2, <3>3
  <2>7. LinksBounded' /\ Grouped' /\ Covered'
    BY <1>1, <1>3, <2>1, <2>2, <2>4 DEF IInv, LinksBounded, Grouped, Covered
  <2> QED
    BY <2>5, <2>6, <2>7 DEF IInv
<1> QED
  BY <1>4, <1>5

\* What a step preserves that writes nothing and stays in its frame.
LEMMA CoverageKept ==
  ASSUME IInv, UNCHANGED <<begun, written>>,
         phase' = "input" => phase = "input" \/ Answered(begun),
         phase' = "drain" => phase = "drain",
         phase' \in {"malformed", "command", "group", "drain", "last"} => begun > 0
  PROVE  Covered'
<1>1. \A f \in 1..begun : Answered(f) => Answered(f)'
  BY AnsweredStays DEF IInv
<1>2. EveryFrameAnswered'
  BY <1>1 DEF IInv, Covered, EveryFrameAnswered, TypeOK
<1>3. phase' = "drain" => Answered(begun)'
  BY <1>1 DEF IInv, Covered, TypeOK
<1> QED
  BY <1>2, <1>3 DEF Covered

(***************************************************************************)
(* The invariant                                                           *)
(***************************************************************************)

LEMMA InitEstablishes == Init => IInv
<1> SUFFICES ASSUME Init PROVE IInv
  OBVIOUS
<1>1. TypeOK
  <2>1. written \in Seq(Responses)
    BY DEF Init
  <2>2. begun \in 0..MaxFrames /\ position \in 0..Size /\ links \in 0..Size
    BY SizeAssumption, MaxFramesAssumption DEF Init
  <2>3. /\ settled \subseteq Items /\ ready \subseteq settled
        /\ uncertain \subseteq 1..MaxFrames
    BY DEF Init
  <2> QED
    BY <2>1, <2>2, <2>3 DEF Init, TypeOK
<1>2. LinksBounded
  BY FS_EmptySet DEF Init, LinksBounded
<1>3. Writable /\ Grouped
  BY DEF Init, Writable, Grouped
<1>4. Covered
  BY DEF Init, Covered, EveryFrameAnswered
<1> QED
  BY <1>1, <1>2, <1>3, <1>4 DEF IInv

LEMMA BeginPreserves ==
  ASSUME IInv, NEW kind \in {"malformed", "command", "group"}, Begin(kind)
  PROVE  IInv'
<1>1. TypeOK'
  BY SizeAssumption, MaxFramesAssumption DEF IInv, TypeOK, Begin
<1>2. LinksBounded'
  BY FS_EmptySet DEF Begin, LinksBounded
<1>3. Writable'
  BY DEF IInv, Writable, Begin
<1>4. Grouped'
  BY DEF Begin, Grouped
<1>5. Covered'
  <2>1. \A f \in 1..begun : Answered(f)'
    BY AnsweredStays DEF IInv, Covered, EveryFrameAnswered, Begin
  <2> QED
    BY <2>1 DEF Begin, Covered, EveryFrameAnswered, IInv, TypeOK
<1> QED
  BY <1>1, <1>2, <1>3, <1>4, <1>5 DEF IInv

LEMMA SettlePreserves ==
  ASSUME IInv, NEW i \in Items, Settle(i)
  PROVE  IInv'
<1> USE SizeAssumption
<1>1. IsFiniteSet(settled) /\ IsFiniteSet(settled') /\ Cardinality(settled') <= Size
  BY ItemsFinite DEF IInv, TypeOK, Settle
<1>2. Cardinality(settled') = Cardinality(settled) + 1
  BY <1>1, FS_AddElement DEF Settle
<1>3. LinksBounded'
  BY <1>1, <1>2, FS_CardinalityType DEF IInv, TypeOK, LinksBounded, Settle
<1>4. TypeOK'
  BY <1>1, <1>2, <1>3, FS_CardinalityType DEF IInv, TypeOK, LinksBounded, Settle, Items
<1>5. Writable'
  BY DEF IInv, Writable, Settle
<1>6. Grouped'
  BY DEF IInv, TypeOK, Grouped, Settle, Response
<1>7. Covered'
  BY CoverageKept DEF Settle, IInv, Covered
<1> QED
  BY <1>3, <1>4, <1>5, <1>6, <1>7 DEF IInv

LEMMA WritePreserves == IInv /\ WriteNext => IInv'
<1> SUFFICES ASSUME IInv, WriteNext PROVE IInv'
  OBVIOUS
<1> USE SizeAssumption
<1>1. /\ phase = "group" /\ chain = "running" /\ position + 1 \in ready
      /\ ready' = ready \ {position + 1} /\ position' = position + 1
      /\ UNCHANGED <<begun, phase, settled, links, aborted, unwritable, exit, uncertain>>
  BY DEF WriteNext, Take
<1>2. begun > 0 /\ position + 1 \in 1..Size /\ (~full \/ unwritable)
  BY <1>1 DEF IInv, TypeOK, Writable, Covered, Items
<1>3. settled' = ready' \cup 1..position'
  BY <1>1 DEF IInv, TypeOK, Grouped
<1>4. LinksBounded'
  BY <1>1 DEF IInv, LinksBounded
<1>5. CASE aborted
  <2>1. chain' = "rejected" /\ written' = written /\ full' = full
    BY <1>5 DEF WriteNext
  <2>2. TypeOK' /\ Writable' /\ Grouped'
    BY <1>1, <1>3, <1>5, <2>1 DEF IInv, TypeOK, Writable, Grouped, Items
  <2>3. Covered'
    BY <1>1, <2>1, CoverageKept DEF IInv, Covered
  <2> QED
    BY <1>4, <2>2, <2>3 DEF IInv
<1>6. CASE ~aborted
  <2>1. PICK i \in Items, accepted \in BOOLEAN :
          /\ i = position + 1
          /\ written' = Append(written, Response("read", i))
          /\ full' = (full \/ ~accepted)
          /\ chain' = IF accepted THEN "running" ELSE "drain"
    BY <1>6 DEF WriteNext, Put, Take
  <2>2. Response("read", i) \in Responses
    <3>1. i \in 0..Size /\ TypeOK
      BY <1>2, <2>1 DEF IInv
    <3>2. "read" \in {"answer", "recovery", "error", "read"}
      OBVIOUS
    <3> QED
      BY <1>2, <3>1, <3>2, ResponseTyped
  <2>3. TypeOK'
    <3>1. written' \in Seq(Responses)
      BY <2>1, <2>2, WrittenGrows DEF IInv, TypeOK
    <3>2. full' \in BOOLEAN
      BY <2>1
    <3> QED
      BY <1>1, <1>2, <2>1, <3>1, <3>2 DEF IInv, TypeOK, Items
  <2>4. Writable'
    <3>1. CASE accepted
      <4>1. full' <=> full
        BY <2>1, <3>1
      <4> QED
        BY <1>1, <1>2, <2>1, <3>1, <4>1 DEF Writable
    <3>2. CASE ~accepted
      BY <1>1, <2>1, <3>2 DEF Writable
    <3> QED
      BY <3>1, <3>2
  <2>5. Grouped'
    <3>1. Len(written) + 1 \in DOMAIN written'
          /\ written'[Len(written) + 1] = Response("read", i)
      BY <2>1, <2>2, WrittenGrows DEF IInv, TypeOK
    <3>2. Response("read", i) = Response("read", position)'
      BY <1>1, <2>1 DEF Response
    <3>3. links' # 0
      BY <1>1 DEF WriteNext
    <3> QED
      BY <1>1, <1>3, <3>1, <3>2, <3>3 DEF Grouped
  <2>6. Covered'
    <3>1. \A f \in 1..begun : Answered(f) => Answered(f)'
      BY <2>1, <2>2, AnsweredStays DEF IInv
    <3> QED
      BY <1>1, <3>1 DEF IInv, Covered, EveryFrameAnswered
  <2> QED
    BY <1>4, <2>3, <2>4, <2>5, <2>6 DEF IInv
<1> QED
  BY <1>5, <1>6

LEMMA LinkPreserves == IInv /\ LinkEnds => IInv'
<1> SUFFICES ASSUME IInv, LinkEnds PROVE IInv'
  OBVIOUS
<1>1. TypeOK' /\ LinksBounded' /\ Writable'
  <2>1. IsFiniteSet(settled)
    BY ItemsFinite DEF IInv, TypeOK
  <2> QED
    BY <2>1, SizeAssumption, FS_CardinalityType
    DEF IInv, TypeOK, LinksBounded, Writable, LinkEnds
<1>2. Grouped'
  BY DEF IInv, Grouped, LinkEnds, Response
<1>3. Covered'
  BY CoverageKept DEF LinkEnds, IInv, Covered
<1> QED
  BY <1>1, <1>2, <1>3 DEF IInv

LEMMA GroupEndsPreserves == IInv /\ GroupEnds => IInv'
<1> SUFFICES ASSUME IInv, GroupEnds PROVE IInv'
  OBVIOUS
<1> USE SizeAssumption
<1>1. position = Size
  BY DEF IInv, TypeOK, Grouped, GroupEnds, Items
<1>2. Answered(begun)
  <2>1. PICK n \in DOMAIN written : written[n] = Response("read", position)
    BY <1>1 DEF IInv, Grouped, GroupEnds
  <2> QED
    BY <1>1, <2>1 DEF Answered, Response
<1>3. TypeOK' /\ LinksBounded' /\ Writable' /\ Grouped'
  BY DEF IInv, TypeOK, LinksBounded, Writable, Grouped, GroupEnds, groupVars
<1>4. Covered'
  BY <1>2, CoverageKept DEF GroupEnds
<1> QED
  BY <1>3, <1>4 DEF IInv

LEMMA GroupFailsPreserves == IInv /\ GroupFails => IInv'
<1> SUFFICES ASSUME IInv, GroupFails PROVE IInv'
  OBVIOUS
<1>1. uncertain' \subseteq 1..MaxFrames
  BY DEF IInv, TypeOK, GroupFails
<1> QED
  BY <1>1, AnswerPreserves DEF GroupFails

\* A frame that is malformed, or one command: whatever becomes of it.
LEMMA SinglePreserves ==
  ASSUME IInv, Malformed \/ Completes \/ Recovers \/ Throws
  PROVE  IInv'
<1>1. begun \in 1..MaxFrames
  BY DEF IInv, TypeOK, Covered, Malformed, Completes, Recovers, Throws
<1>2. uncertain' \subseteq 1..MaxFrames
  BY <1>1 DEF IInv, TypeOK, Malformed, Completes, Recovers, Throws
<1>3. CASE Malformed
  BY <1>2, <1>3, AnswerPreserves DEF Malformed
<1>4. CASE Completes
  BY <1>2, <1>4, AnswerPreserves DEF Completes
<1>5. CASE Throws
  BY <1>2, <1>5, AnswerPreserves DEF Throws
<1>6. CASE Recovers /\ ~aborted
  BY <1>2, <1>6, AnswerPreserves DEF Recovers
<1>7. CASE Recovers /\ aborted
  <2>1. UNCHANGED <<begun, settled, ready, position, links, chain, aborted, unwritable>>
    BY <1>7 DEF Recovers, groupVars
  <2>2. PICK accepted \in BOOLEAN :
          /\ written' = Append(written, Response("recovery", 0))
          /\ full' = (full \/ ~accepted)
          /\ IF accepted THEN phase' = "over" /\ exit' = "5"
                         ELSE phase' = "last" /\ exit' = exit
    BY <1>7 DEF Recovers, LastFrame, Put, End
  <2>3. Response("recovery", 0) \in Responses
    BY <1>1, ResponseTyped, SizeAssumption DEF IInv
  <2>4. TypeOK'
    <3>1. written' \in Seq(Responses)
      BY <2>2, <2>3, WrittenGrows DEF IInv, TypeOK
    <3>2. full' \in BOOLEAN
      BY <2>2
    <3> QED
      BY <1>2, <2>1, <2>2, <3>1, <3>2 DEF IInv, TypeOK
  <2>5. LinksBounded' /\ Writable' /\ Grouped'
    BY <2>1, <2>2 DEF IInv, LinksBounded, Writable, Grouped
  <2>6. Covered'
    <3>1. \A f \in 1..begun : Answered(f) => Answered(f)'
      BY <2>2, <2>3, AnsweredStays DEF IInv
    <3> QED
      BY <1>1, <2>1, <2>2, <3>1 DEF IInv, Covered, EveryFrameAnswered
  <2> QED
    BY <2>4, <2>5, <2>6 DEF IInv
<1> QED
  BY <1>3, <1>4, <1>5, <1>6, <1>7

\* The session ends, or its output or its signal changes, and nothing is written.
LEMMA OutputPreserves ==
  ASSUME IInv, InputEnds \/ LastEnds \/ Drain \/ OutputFails \/ Abort
  PROVE  IInv'
<1>1. CASE InputEnds \/ LastEnds
  <2>1. TypeOK' /\ LinksBounded' /\ Writable' /\ Grouped'
    BY <1>1 DEF IInv, TypeOK, LinksBounded, Writable, Grouped, InputEnds, LastEnds, End,
                groupVars
  <2>2. Covered'
    BY <1>1, CoverageKept DEF InputEnds, LastEnds, End
  <2> QED
    BY <2>1, <2>2 DEF IInv
<1>2. CASE Drain
  <2>1. TypeOK' /\ LinksBounded' /\ Writable'
    BY <1>2 DEF IInv, TypeOK, LinksBounded, Writable, Drain, End
  <2>2. Grouped'
    BY <1>2 DEF IInv, Grouped, Drain, End, Response
  <2>3. Covered'
    BY <1>2, CoverageKept DEF IInv, Covered, Drain, End
  <2> QED
    BY <2>1, <2>2, <2>3 DEF IInv
<1>3. CASE OutputFails
  <2>1. TypeOK' /\ LinksBounded' /\ Writable'
    BY <1>3 DEF IInv, TypeOK, LinksBounded, Writable, OutputFails, End
  <2>2. Grouped'
    BY <1>3 DEF IInv, Grouped, OutputFails, End, Response
  <2>3. Covered'
    BY <1>3, CoverageKept DEF IInv, Covered, OutputFails, End
  <2> QED
    BY <2>1, <2>2, <2>3 DEF IInv
<1>4. CASE Abort
  <2>1. TypeOK' /\ LinksBounded' /\ Writable'
    BY <1>4 DEF IInv, TypeOK, LinksBounded, Writable, Abort, End
  <2>2. Grouped'
    BY <1>4 DEF IInv, Grouped, Abort, End, Response
  <2>3. Covered'
    BY <1>4, CoverageKept DEF IInv, Covered, Abort, End
  <2> QED
    BY <2>1, <2>2, <2>3 DEF IInv
<1> QED
  BY <1>1, <1>2, <1>3, <1>4

LEMMA StutterPreserves == IInv /\ UNCHANGED vars => IInv'
BY DEF IInv, TypeOK, LinksBounded, Writable, Grouped, Covered, EveryFrameAnswered,
       Answered, Response, Items, vars, groupVars

LEMMA StepPreserves == IInv /\ [Next]_vars => IInv'
<1> SUFFICES ASSUME IInv, [Next]_vars PROVE IInv'
  OBVIOUS
<1>1. CASE \E kind \in {"malformed", "command", "group"} : Begin(kind)
  BY <1>1, BeginPreserves
<1>2. CASE \E i \in Items : Settle(i)
  BY <1>2, SettlePreserves
<1>3. CASE WriteNext \/ LinkEnds \/ GroupEnds \/ GroupFails
  BY <1>3, WritePreserves, LinkPreserves, GroupEndsPreserves, GroupFailsPreserves
<1>4. CASE Malformed \/ Completes \/ Recovers \/ Throws
  BY <1>4, SinglePreserves
<1>5. CASE InputEnds \/ LastEnds \/ Drain \/ OutputFails \/ Abort
  BY <1>5, OutputPreserves
<1>6. CASE UNCHANGED vars
  BY <1>6, StutterPreserves
<1> QED
  BY <1>1, <1>2, <1>3, <1>4, <1>5, <1>6 DEF Next, Work

LEMMA Inductive == Spec => []IInv
<1>1. IInv /\ [Next]_vars => IInv'
  BY StepPreserves
<1> QED
  BY InitEstablishes, <1>1, PTL DEF Spec

\* Every state of a session is well-typed; in particular there is never a link
\* more than there are reads.
THEOREM SessionTypeCorrect == Spec => []TypeOK
<1>1. IInv => TypeOK
  BY DEF IInv
<1> QED
  BY Inductive, <1>1, PTL

\* However the reads of a group settle, whatever the output accepts and whenever
\* the session is aborted: no frame is left behind without its responses.
THEOREM EveryFrameIsAnswered == Spec => []EveryFrameAnswered
<1>1. IInv => EveryFrameAnswered
  BY DEF IInv, Covered
<1> QED
  BY Inductive, <1>1, PTL

\* No response is written to an output that has not drained.
THEOREM OutputIsNotFlooded == Spec => BackPressure
<1>1. IInv /\ [Next]_vars => [written' # written => ~full \/ unwritable]_vars
  <2> SUFFICES ASSUME IInv, Next, written' # written PROVE ~full \/ unwritable
    BY DEF vars
  <2>1. CASE WriteNext
    BY <2>1 DEF IInv, Writable, WriteNext
  <2>2. CASE GroupFails
    BY <2>2 DEF IInv, Writable, GroupFails, Answer
  <2>3. CASE Malformed \/ Completes \/ Recovers \/ Throws
    BY <2>3 DEF IInv, Writable, Malformed, Completes, Recovers, Throws
  <2>4. CASE \/ \E kind \in {"malformed", "command", "group"} : Begin(kind)
             \/ \E i \in Items : Settle(i)
             \/ InputEnds \/ LastEnds \/ LinkEnds \/ GroupEnds \/ Drain \/ OutputFails \/ Abort
    BY <2>4 DEF Begin, Settle, InputEnds, LastEnds, LinkEnds, GroupEnds, Drain, OutputFails, Abort
  <2> QED
    BY <2>1, <2>2, <2>3, <2>4 DEF Next, Work
<1> QED
  BY Inductive, <1>1, PTL DEF Spec, BackPressure

\* An aborted session writes nothing more than a recovery frame, and ends.
THEOREM AbortedSessionIsSilent == Spec => SilentAfterAbort
<1>1. IInv /\ [Next]_vars =>
        [aborted /\ written' # written =>
           /\ written'[Len(written')].what = "recovery"
           /\ phase' \in {"last", "over"}]_vars
  <2> SUFFICES ASSUME IInv, Next, aborted, written' # written
               PROVE  /\ written'[Len(written')].what = "recovery"
                      /\ phase' \in {"last", "over"}
    BY DEF vars
  <2>1. CASE WriteNext \/ GroupFails \/ Malformed \/ Completes \/ Throws
    BY <2>1 DEF WriteNext, GroupFails, Malformed, Completes, Throws, Answer
  <2>2. CASE Recovers
    <3>1. written' = Append(written, Response("recovery", 0)) /\ phase' \in {"last", "over"}
      BY <2>2 DEF Recovers, LastFrame, Put, End
    <3>2. begun > 0
      BY <2>2 DEF Recovers, IInv, Covered
    <3>3. Response("recovery", 0) \in Responses
      BY <3>2, ResponseTyped, SizeAssumption DEF IInv
    <3>4. Len(written') = Len(written) + 1 /\ written'[Len(written) + 1] = Response("recovery", 0)
      BY <3>1, <3>3, WrittenGrows DEF IInv, TypeOK
    <3> QED
      BY <3>1, <3>4 DEF Response
  <2>3. CASE \/ \E kind \in {"malformed", "command", "group"} : Begin(kind)
             \/ \E i \in Items : Settle(i)
             \/ InputEnds \/ LastEnds \/ LinkEnds \/ GroupEnds \/ Drain \/ OutputFails \/ Abort
    BY <2>3 DEF Begin, Settle, InputEnds, LastEnds, LinkEnds, GroupEnds, Drain, OutputFails, Abort
  <2> QED
    BY <2>1, <2>2, <2>3 DEF Next, Work
<1> QED
  BY Inductive, <1>1, PTL DEF Spec, SilentAfterAbort

\* Both at once.
THEOREM OutputIsAlwaysHeld == Spec => OutputIsHeld
BY OutputIsNotFlooded, AbortedSessionIsSilent DEF OutputIsHeld

(***************************************************************************)
(* The order of the responses.  InRequestOrder speaks of what has been     *)
(* written only; the invariant adds how far the frame in hand has come, so *)
(* that whatever is written next comes after all of it.                    *)
(***************************************************************************)

\* The responses to the frame in hand are those of the reads up to position,
\* the last one written being that of the read at position, unless the chain
\* has been rejected and nothing but the error of the frame can follow.
SoFar ==
  /\ \A n \in DOMAIN written : written[n].frame <= begun
  /\ phase \in {"malformed", "command"} =>
       \A n \in DOMAIN written : written[n].frame < begun
  /\ phase = "group" =>
       \A n \in DOMAIN written : written[n].frame = begun => written[n].item \in 1..position
  /\ phase = "group" /\ position > 0 /\ chain # "rejected" =>
       /\ Len(written) > 0
       /\ written[Len(written)] = Response("read", position)

InOrder == InRequestOrder /\ SoFar

\* What has been written is typed.
LEMMA WrittenTyped ==
  ASSUME TypeOK, NEW n \in DOMAIN written
  PROVE  written[n].frame \in Nat /\ written[n].item \in Nat
<1>1. written[n] \in Responses
  BY DEF TypeOK
<1>2. written[n].frame \in 1..MaxFrames /\ written[n].item \in 0..Size
  BY <1>1 DEF Responses
<1> QED BY <1>2, MaxFramesAssumption, SizeAssumption

\* A response that comes after all others keeps the order.
LEMMA OrderKept ==
  ASSUME TypeOK, InRequestOrder, NEW s \in Responses, written' = Append(written, s),
         \A n \in DOMAIN written :
           \/ written[n].frame < s.frame
           \/ written[n].frame = s.frame /\ (s.what = "error" \/ s.item > written[n].item),
         s.item > 1 => Len(written) > 0 /\ written[Len(written)] = [s EXCEPT !.item = @ - 1]
  PROVE  InRequestOrder'
<1> DEFINE L == Len(written)
<1>1. written \in Seq(Responses) /\ L \in Nat
  BY DEF TypeOK
<1>2. /\ written' \in Seq(Responses) /\ Len(written') = L + 1 /\ written'[L + 1] = s
      /\ \A n \in DOMAIN written : written'[n] = written[n]
      /\ DOMAIN written = 1..L /\ DOMAIN written' = 1..(L + 1)
  BY <1>1, WrittenGrows
<1> SUFFICES ASSUME NEW m \in 1..(L + 1), NEW n \in 1..(L + 1)
             PROVE  LET r == written'[m] t == written'[n] IN
                    /\ m < n => \/ r.frame < t.frame
                                \/ r.frame = t.frame /\ (t.what = "error" \/ t.item > r.item)
                    /\ t.item > 1 => n > 1 /\ written'[n - 1] = [t EXCEPT !.item = @ - 1]
  BY <1>2 DEF InRequestOrder
<1> DEFINE b == [s EXCEPT !.item = @ - 1]
<1>7. s.item > 1 => L > 0 /\ written[L] = b
  OBVIOUS
<1> HIDE DEF L, b
<1>3. CASE m \in 1..L /\ n \in 1..L
  <2>1. written'[m] = written[m] /\ written'[n] = written[n]
    BY <1>2, <1>3
  <2>2. n > 1 => n - 1 \in 1..L /\ written'[n - 1] = written[n - 1]
    BY <1>1, <1>2, <1>3
  <2> QED BY <1>2, <1>3, <2>1, <2>2 DEF InRequestOrder
<1>4. CASE m \in 1..L /\ n = L + 1
  <2>1. written'[m] = written[m] /\ written'[n] = s
    BY <1>2, <1>4
  <2>2. s.item > 1 => n > 1 /\ n - 1 = L /\ L \in 1..L /\ written[L] = b
    BY <1>1, <1>4, <1>7
  <2>3. s.item > 1 => n > 1 /\ written'[n - 1] = b
    BY <1>2, <2>2
  <2> QED BY <1>2, <1>4, <2>1, <2>3 DEF b
<1>5. CASE m = L + 1 /\ n \in 1..L
  <2>1. written'[n] = written[n] /\ ~(m < n)
    BY <1>1, <1>2, <1>5
  <2>2. n > 1 => n - 1 \in 1..L /\ written'[n - 1] = written[n - 1]
    BY <1>1, <1>2, <1>5
  <2> QED BY <1>2, <1>5, <2>1, <2>2 DEF InRequestOrder
<1>6. CASE m = L + 1 /\ n = L + 1
  <2>1. written'[n] = s /\ ~(m < n)
    BY <1>1, <1>2, <1>6
  <2>2. s.item > 1 => n > 1 /\ n - 1 = L /\ L \in 1..L /\ written[L] = b
    <3>1. n = L + 1 /\ n - 1 = L
      BY <1>1, <1>6
    <3> QED BY <1>1, <1>7, <3>1
  <2>3. s.item > 1 => n > 1 /\ written'[n - 1] = b
    BY <1>2, <2>2
  <2> QED BY <2>1, <2>3 DEF b
<1>8. (m \in 1..L \/ m = L + 1) /\ (n \in 1..L \/ n = L + 1)
  BY <1>1
<1> QED BY <1>3, <1>4, <1>5, <1>6, <1>8

\* The response to a frame as a whole.
LEMMA AnswerInOrder ==
  ASSUME IInv, InOrder, NEW w \in {"answer", "recovery", "error"},
         phase \in {"malformed", "command"} \/ (phase = "group" /\ w = "error"),
         begun' = begun, phase' \notin {"malformed", "command", "group"},
         written' = written \/ written' = Append(written, Response(w, 0))
  PROVE  InOrder'
<1> USE DEF IInv, InOrder
<1>1. begun > 0 /\ begun \in Nat
  BY MaxFramesAssumption DEF Covered, TypeOK
<1>2. CASE written' = written
  BY <1>2 DEF InRequestOrder, SoFar
<1>3. CASE written' = Append(written, Response(w, 0))
  <2>1. Response(w, 0) \in Responses
    BY <1>1, ResponseTyped, SizeAssumption
  <2>2. /\ Response(w, 0).frame = begun /\ Response(w, 0).item = 0 /\ Response(w, 0).what = w
    BY DEF Response
  <2>3. \A n \in DOMAIN written : written[n].frame \in Nat
    BY WrittenTyped
  <2>4. \A n \in DOMAIN written :
          \/ written[n].frame < begun
          \/ written[n].frame = begun /\ w = "error"
    BY <1>1, <2>3 DEF SoFar
  <2> DEFINE s == Response(w, 0)
  <2>8. /\ s \in Responses /\ s.frame = begun /\ s.item = 0 /\ s.what = w
        /\ written' = Append(written, s)
    BY <1>3, <2>1, <2>2
  <2> HIDE DEF s
  <2>9. \A n \in DOMAIN written :
          \/ written[n].frame < s.frame
          \/ written[n].frame = s.frame /\ (s.what = "error" \/ s.item > written[n].item)
    BY <2>4, <2>8
  <2>10. ~(s.item > 1)
    BY <2>8
  <2>5. InRequestOrder'
    BY <2>8, <2>9, <2>10, OrderKept
  <2>6. \A n \in DOMAIN written' : written'[n] = Response(w, 0) \/
          (n \in DOMAIN written /\ written'[n] = written[n])
    BY <1>3, <2>1, WrittenGrows DEF TypeOK
  <2>7. SoFar'
    BY <1>1, <2>2, <2>6 DEF SoFar
  <2> QED BY <2>5, <2>7
<1> QED BY <1>2, <1>3

\* The response to the next read of a group.
LEMMA ReadInOrder == IInv /\ InOrder /\ WriteNext => InOrder'
<1> SUFFICES ASSUME IInv, InOrder, WriteNext PROVE InOrder'
  OBVIOUS
<1> USE DEF IInv, InOrder
<1>1. PICK i \in Items :
        /\ i = position + 1 /\ position' = position + 1
        /\ \/ chain' = "rejected" /\ written' = written
           \/ written' = Append(written, Response("read", i))
  BY DEF WriteNext, Take, Put
<1>2. /\ phase = "group" /\ phase' = "group" /\ begun' = begun /\ chain = "running"
      /\ position \in Nat /\ begun \in Nat /\ begun > 0
  BY MaxFramesAssumption, SizeAssumption DEF WriteNext, TypeOK, Covered
<1>3. \A n \in DOMAIN written : written[n].item \in Nat /\ written[n].frame \in Nat
  BY WrittenTyped
<1>4. \A n \in DOMAIN written : written[n].frame = begun => written[n].item \in 1..position
  BY <1>2 DEF SoFar
<1>5. CASE chain' = "rejected" /\ written' = written
  <2>1. \A n \in DOMAIN written : written[n].frame = begun => written[n].item \in 1..position'
    BY <1>1, <1>2, <1>4
  <2> QED BY <1>2, <1>5, <2>1 DEF InRequestOrder, SoFar
<1>6. CASE written' = Append(written, Response("read", i))
  <2> DEFINE s == Response("read", i)
  <2>1. s \in Responses
    BY <1>2, ResponseTyped DEF Items
  <2>2. s = [frame |-> begun, what |-> "read", item |-> position + 1]
    BY <1>1 DEF Response
  <2>3. \A n \in DOMAIN written :
          \/ written[n].frame < s.frame
          \/ written[n].frame = s.frame /\ s.item > written[n].item
    BY <1>2, <1>3, <1>4, <2>2 DEF SoFar
  <2>4. s.item > 1 => Len(written) > 0 /\ written[Len(written)] = [s EXCEPT !.item = @ - 1]
    <3>1. SUFFICES ASSUME position > 0
                   PROVE Len(written) > 0 /\ written[Len(written)] = [s EXCEPT !.item = @ - 1]
      BY <1>2, <2>2
    <3>2. Len(written) > 0 /\ written[Len(written)] = Response("read", position)
      BY <1>2, <3>1 DEF SoFar
    <3>3. [s EXCEPT !.item = @ - 1] = Response("read", position)
      BY <1>2, <2>2 DEF Response
    <3> QED BY <3>2, <3>3
  <2> HIDE DEF s
  <2>5. InRequestOrder'
    BY <1>6, <2>1, <2>3, <2>4, OrderKept DEF s
  <2>6. /\ \A n \in DOMAIN written' : written'[n] = s \/
             (n \in DOMAIN written /\ written'[n] = written[n])
        /\ Len(written') > 0 /\ written'[Len(written')] = s
    BY <1>6, <2>1, WrittenGrows DEF TypeOK, s
  <2>7. s = Response("read", position)'
    BY <1>1, <1>2, <2>2 DEF Response
  <2>8. \A n \in DOMAIN written' : written'[n].frame = begun => written'[n].item \in 1..position'
    BY <1>1, <1>2, <1>4, <2>2, <2>6
  <2>9. SoFar'
    BY <1>2, <1>3, <2>2, <2>6, <2>7, <2>8 DEF SoFar
  <2> QED BY <2>5, <2>9
<1> QED BY <1>1, <1>5, <1>6

LEMMA StepInOrder == IInv /\ InOrder /\ [Next]_vars => InOrder'
<1> SUFFICES ASSUME IInv, InOrder, [Next]_vars PROVE InOrder'
  OBVIOUS
<1>1. ASSUME NEW kind \in {"malformed", "command", "group"}, Begin(kind) PROVE InOrder'
  <2>1. /\ begun' = begun + 1 /\ written' = written /\ position' = 0 /\ begun \in Nat
    BY <1>1, MaxFramesAssumption DEF Begin, IInv, TypeOK
  <2>2. \A n \in DOMAIN written : written[n].frame < begun'
    BY <2>1, WrittenTyped DEF InOrder, SoFar, IInv
  <2>3. phase' = kind /\ \A n \in DOMAIN written : written[n].frame # begun' /\ written[n].frame <= begun'
    BY <1>1, <2>1, <2>2, WrittenTyped DEF Begin, IInv
  <2> QED BY <2>1, <2>2, <2>3 DEF InOrder, InRequestOrder, SoFar
<1>2. CASE Malformed
  BY <1>2, AnswerInOrder DEF Malformed, Answer, Put, End
<1>3. CASE GroupFails
  BY <1>3, AnswerInOrder DEF GroupFails, Answer, Put, End
<1>4. CASE Completes
  BY <1>4, AnswerInOrder DEF Completes, Answer, Put, End
<1>5. CASE Recovers \/ Throws
  BY <1>5, AnswerInOrder DEF Recovers, Throws, LastFrame, Answer, Put, End
<1>6. CASE WriteNext
  BY <1>6, ReadInOrder
<1>7. CASE \E i \in Items : Settle(i)
  BY <1>7 DEF Settle, InOrder, InRequestOrder, SoFar, Response
<1>8. CASE InputEnds \/ LastEnds \/ GroupEnds
  <2>1. written' = written /\ begun' = begun /\ phase' \in {"input", "over"}
    BY <1>8 DEF InputEnds, LastEnds, GroupEnds, End
  <2> QED BY <2>1 DEF InOrder, InRequestOrder, SoFar
<1>9. CASE LinkEnds
  BY <1>9 DEF LinkEnds, InOrder, InRequestOrder, SoFar, Response
<1>10. CASE Drain
  BY <1>10 DEF Drain, End, InOrder, InRequestOrder, SoFar, Response
<1>11. CASE OutputFails
  BY <1>11 DEF OutputFails, End, InOrder, InRequestOrder, SoFar, Response
<1>12. CASE Abort
  BY <1>12 DEF Abort, End, InOrder, InRequestOrder, SoFar, Response
<1>13. CASE UNCHANGED vars
  BY <1>13 DEF vars, groupVars, InOrder, InRequestOrder, SoFar, Response
<1> QED
  BY <1>1, <1>2, <1>3, <1>4, <1>5, <1>6, <1>7, <1>8, <1>9, <1>10, <1>11, <1>12, <1>13
  DEF Next, Work

\* Whichever read of a group settles first and however long the output takes:
\* responses come in the order of the requests, those of a group as a prefix
\* without a gap, and nothing but its error after a group that has failed.
THEOREM ResponsesInOrder == Spec => []InRequestOrder
<1>1. Init => InOrder
  BY DEF Init, InOrder, InRequestOrder, SoFar
<1>2. InOrder => InRequestOrder
  BY DEF InOrder
<1> QED
  BY Inductive, <1>1, StepInOrder, <1>2, PTL DEF Spec

(***************************************************************************)
(* The recovery frame                                                      *)
(***************************************************************************)

\* An apply that returned an uncertain outcome is reported in the very step
\* that returns it, also when the session has been aborted meanwhile; and what
\* is written is never taken back.
THEOREM UncertainIsReported == Spec => []RecoveryReported
<1>1. Init => RecoveryReported
  BY DEF Init, RecoveryReported
<1>2. IInv /\ RecoveryReported /\ [Next]_vars => RecoveryReported'
  <2> SUFFICES ASSUME IInv, RecoveryReported, [Next]_vars PROVE RecoveryReported'
    OBVIOUS
  <2>1. written' = written \/ \E r \in Responses : written' = Append(written, r)
    <3>1. ASSUME NEW w \in {"answer", "recovery", "error"}, begun > 0,
                 Answer(Response(w, 0)) \/ LastFrame
          PROVE  written' = written \/ \E r \in Responses : written' = Append(written, r)
      <4>1. Response(w, 0) \in Responses /\ Response("recovery", 0) \in Responses
        BY <3>1, ResponseTyped, SizeAssumption DEF IInv
      <4> QED BY <3>1, <4>1 DEF Answer, LastFrame, Put
    <3>2. CASE Malformed \/ GroupFails \/ Completes \/ Recovers \/ Throws
      BY <3>1, <3>2 DEF Malformed, GroupFails, Completes, Recovers, Throws, IInv, Covered
    <3>3. CASE WriteNext
      <4>1. \A i \in Items : Response("read", i) \in Responses
        BY <3>3, ResponseTyped DEF WriteNext, IInv, Covered, Items
      <4> QED BY <3>3, <4>1 DEF WriteNext, Put
    <3>4. CASE \/ \E kind \in {"malformed", "command", "group"} : Begin(kind)
               \/ \E i \in Items : Settle(i)
               \/ InputEnds \/ LastEnds \/ LinkEnds \/ GroupEnds \/ Drain \/ OutputFails
               \/ Abort \/ UNCHANGED vars
      BY <3>4 DEF Begin, Settle, InputEnds, LastEnds, LinkEnds, GroupEnds, Drain,
         OutputFails, Abort, vars
    <3> QED BY <3>2, <3>3, <3>4 DEF Next, Work
  <2>2. ASSUME NEW f \in uncertain PROVE Reported(f)'
    <3>1. PICK n \in DOMAIN written : written[n].frame = f /\ written[n].what = "recovery"
      BY <2>2 DEF RecoveryReported, Reported
    <3>2. n \in DOMAIN written' /\ written'[n] = written[n]
      BY <2>1, WrittenGrows DEF IInv, TypeOK
    <3> QED BY <3>1, <3>2 DEF Reported
  <2>3. CASE Recovers
    <3>1. /\ uncertain' = uncertain \cup {begun} /\ begun > 0
          /\ written' = Append(written, Response("recovery", 0))
      BY <2>3 DEF Recovers, Answer, LastFrame, Put, IInv, Covered
    <3>2. Response("recovery", 0) \in Responses
      BY <3>1, ResponseTyped, SizeAssumption DEF IInv
    <3>3. Len(written) + 1 \in DOMAIN written'
            /\ written'[Len(written) + 1] = Response("recovery", 0)
      BY <3>1, <3>2, WrittenGrows DEF IInv, TypeOK
    <3>4. ASSUME NEW f, f = begun PROVE Reported(f)'
      <4>1. Response("recovery", 0).frame = f /\ Response("recovery", 0).what = "recovery"
        BY <3>4 DEF Response
      <4> QED BY <3>3, <4>1 DEF Reported
    <3> QED BY <2>2, <3>1, <3>4 DEF RecoveryReported
  <2>4. CASE ~Recovers
    <3>1. uncertain' = uncertain
      BY <2>4 DEF Next, Work, Malformed, GroupFails, Completes, Throws, WriteNext, Begin, Settle,
         InputEnds, LastEnds, LinkEnds, GroupEnds, Drain, OutputFails, Abort, vars
    <3> QED BY <2>2, <3>1 DEF RecoveryReported
  <2> QED BY <2>3, <2>4
<1> QED
  BY Inductive, <1>1, <1>2, PTL DEF Spec
=============================================================================
