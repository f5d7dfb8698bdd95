---------------------------- MODULE UpdateCheck -----------------------------
(***************************************************************************)
(* The update check of src/src/update-check.ts and the version order of    *)
(* src/src/semver.ts: shells that ask the registry for the newest version, *)
(* and share a cache of its answer that keeps them from asking too often.  *)
(*                                                                         *)
(* A version is three numbers and a sequence of prerelease identifiers.  A *)
(* number is the sequence of its digits, a word the sequence of its        *)
(* characters' codes, as the code compares strings.                        *)
(***************************************************************************)
EXTENDS Integers, FiniteSets, Sequences

CONSTANTS
  Checkers,  \* shells
  Ordered,   \* versions by ascending precedence
  Running,   \* ranks of the versions a shell may have
  Offered,   \* ranks of the versions the registry may offer
  Empty,     \* no tag, no notice, no cache
  SuccessTtl, FailureTtl,  \* in hours
  MaxHour, MaxChecks

ASSUME UpdateAssumption ==
  /\ SuccessTtl \in Nat /\ FailureTtl \in Nat /\ MaxHour \in Nat
  /\ Running \cup Offered \subseteq DOMAIN Ordered
\* A text is the sequence of its character codes.
ASSUME VersionsAssumption ==
  Ordered \in Seq([numbers : Seq(Seq(Nat)), pre : Seq([number : BOOLEAN, text : Seq(Nat)])])

VARIABLES
  current,   \* the rank of the shells' version
  hour,      \* the clock, which may be set back
  cache,     \* update-check-v1.json
  phase,     \* each shell's check: "idle", "ask", "store"
  start,     \* its `now'
  had,       \* the cache it has read
  answer,    \* the registry's answer, Empty for a failure
  notice,    \* what a shell has told its user last
  asked,     \* history: hour and success of the checks stored
  checks,    \* history: number of checks begun
  crossed,   \* history: two checks have overlapped
  known      \* history: the tags of the last answer

updateVars == <<current, hour, cache, phase, start, had, answer, notice, asked, checks, crossed, known>>

(***************************************************************************)
(* semver.ts                                                               *)
(***************************************************************************)

\* String comparison: by the first difference, a prefix is smaller.
TextBefore(s, t) ==
  \E i \in 1 .. Len(s) + 1 :
    /\ i <= Len(t) /\ SubSeq(s, 1, i - 1) = SubSeq(t, 1, i - 1)
    /\ i = Len(s) + 1 \/ s[i] < t[i]

\* compareNumericIdentifier
LessNumber(s, t) == Len(s) < Len(t) \/ (Len(s) = Len(t) /\ TextBefore(s, t))

\* comparePrereleaseIdentifier
LessIdentifier(a, b) ==
  \/ a.number /\ b.number /\ LessNumber(a.text, b.text)
  \/ a.number /\ ~b.number
  \/ ~a.number /\ ~b.number /\ TextBefore(a.text, b.text)

\* The first difference of two sequences of which Less orders the elements; a
\* prefix is smaller.
Smaller(s, t, Less(_, _)) ==
  \E i \in 1 .. Len(s) + 1 :
    /\ i <= Len(t) /\ SubSeq(s, 1, i - 1) = SubSeq(t, 1, i - 1)
    /\ i = Len(s) + 1 \/ Less(s[i], t[i])

\* compareOperonVersions
Older(v, w) ==
  \/ Smaller(v.numbers, w.numbers, LessNumber)
  \/ /\ v.numbers = w.numbers /\ v.pre # <<>>
     /\ w.pre = <<>> \/ Smaller(v.pre, w.pre, LessIdentifier)

(***************************************************************************)
(* selectCliUpdateNoticeV1                                                 *)
(***************************************************************************)

\* Versions are given by their ranks.
Tags == [latest : Offered \cup {Empty}, beta : Offered \cup {Empty}]
NoTags == [latest |-> Empty, beta |-> Empty]

Offer(tags, channel, allowed) ==
  allowed /\ tags[channel] # Empty /\ Older(Ordered[current], Ordered[tags[channel]])

Notice(tags) ==
  IF Offer(tags, "latest", TRUE) THEN [version |-> tags.latest, channel |-> "latest"]
  ELSE IF Offer(tags, "beta", Ordered[current].pre # <<>>)
    THEN [version |-> tags.beta, channel |-> "beta"] ELSE Empty

(***************************************************************************)
(* checkForCliUpdateV1                                                     *)
(***************************************************************************)

Caches == [checkedAt : 0 .. MaxHour, success : BOOLEAN, tags : Tags]
ASSUME CacheAssumption == Empty \notin Caches

\* Mutant of Fresh: a cache from the future is fresh.
FreshForEver(c, now) ==
  c # Empty /\ now - c.checkedAt <= (IF c.success THEN SuccessTtl ELSE FailureTtl)

\* cacheIsFresh
Fresh(c, now) ==
  /\ c # Empty /\ now >= c.checkedAt
  /\ now - c.checkedAt <= (IF c.success THEN SuccessTtl ELSE FailureTtl)

UpdateInit ==
  /\ current \in Running
  /\ hour \in 0 .. MaxHour
  /\ cache \in {Empty} \cup {c \in Caches : c.success => c.tags # NoTags}
  /\ phase = [p \in Checkers |-> "idle"]
  /\ start = [p \in Checkers |-> 0]
  /\ had = [p \in Checkers |-> Empty]
  /\ answer = [p \in Checkers |-> NoTags]
  /\ notice = Empty
  /\ asked = IF cache = Empty THEN {} ELSE {[at |-> cache.checkedAt, success |-> cache.success]}
  /\ checks = 0 /\ crossed = FALSE
  /\ known = IF cache = Empty THEN NoTags ELSE cache.tags

\* A disabled check is none.
Begin(p) ==
  /\ phase[p] = "idle" /\ checks < MaxChecks
  /\ checks' = checks + 1
  /\ crossed' = (crossed \/ \E q \in Checkers : phase[q] # "idle")
  /\ start' = [start EXCEPT ![p] = hour]
  /\ had' = [had EXCEPT ![p] = cache]
  /\ IF Fresh(cache, hour)
       THEN notice' = Notice(cache.tags) /\ UNCHANGED phase
     ELSE phase' = [phase EXCEPT ![p] = "ask"] /\ UNCHANGED notice
  /\ UNCHANGED <<current, hour, cache, answer, asked, known>>

\* requestRegistryDistTags: a valid answer has a tag; an error, a timeout, or
\* an answer that is too long or has none is a failure.
Ask(p) ==
  /\ phase[p] = "ask"
  /\ \E tags \in Tags :
       /\ answer' = [answer EXCEPT ![p] = tags]
       /\ known' = IF tags = NoTags THEN known ELSE tags
  /\ phase' = [phase EXCEPT ![p] = "store"]
  /\ UNCHANGED <<current, hour, cache, start, had, notice, asked, checks, crossed>>

\* Mutant of Remembered: a failure forgets the tags.
RememberedNot(p) == answer[p]

\* The tags a check stores: those of the answer, or those it had.
Remembered(p) ==
  IF answer[p] # NoTags THEN answer[p]
  ELSE IF had[p] = Empty THEN NoTags ELSE had[p].tags

Succeeded(p) == answer[p] # NoTags

\* The check is over, and its variables with it.
Done(p) ==
  /\ phase' = [phase EXCEPT ![p] = "idle"]
  /\ start' = [start EXCEPT ![p] = 0]
  /\ had' = [had EXCEPT ![p] = Empty] /\ answer' = [answer EXCEPT ![p] = NoTags]

\* The cache is replaced; a write that fails is ignored.
Store(p) ==
  /\ phase[p] = "store"
  /\ \/ /\ cache' = [checkedAt |-> start[p], success |-> Succeeded(p),
                     tags |-> Remembered(p)]
        /\ asked' = asked \cup {[at |-> start[p], success |-> Succeeded(p)]}
        /\ UNCHANGED crossed
     \/ crossed' = TRUE /\ UNCHANGED <<cache, asked>>
  /\ notice' = Notice(Remembered(p))
  /\ Done(p)
  /\ UNCHANGED <<current, hour, checks, known>>

\* The shell is closed while it waits.
CloseShell(p) ==
  /\ phase[p] # "idle"
  /\ Done(p) /\ crossed' = TRUE
  /\ UNCHANGED <<current, hour, cache, notice, asked, checks, known>>

\* Time passes, or the clock is set.
SetClock ==
  /\ hour' \in (0 .. MaxHour) \ {hour}
  /\ UNCHANGED <<current, cache, phase, start, had, answer, notice, asked, checks, crossed,
                 known>>

UpdateNext ==
  SetClock \/ \E p \in Checkers : Begin(p) \/ Ask(p) \/ Store(p) \/ CloseShell(p)

UpdateSpec == UpdateInit /\ [][UpdateNext]_updateVars

(***************************************************************************)
(* Properties                                                              *)
(***************************************************************************)

\* The variables keep their types; in particular a cached success has a tag, so
\* that nothing mutes the check for a day but an answer of the registry.
UpdateTypeOK ==
  /\ hour \in 0 .. MaxHour
  /\ cache \in Caches \cup {Empty}
  /\ cache # Empty /\ cache.success => cache.tags # NoTags
  /\ phase \in [Checkers -> {"idle", "ask", "store"}]
  /\ start \in [Checkers -> 0 .. MaxHour]
  /\ had \in [Checkers -> Caches \cup {Empty}]
  /\ answer \in [Checkers -> Tags]
  /\ notice \in [version : Offered, channel : {"latest", "beta"}] \cup {Empty}
  /\ known \in Tags /\ current \in Running /\ checks \in Nat

\* A check that does not ask the registry follows one that was stored at most
\* a day ago, or an hour if that one failed: neither a clock set back nor what
\* other shells have stored meanwhile mutes the check for longer.
NotMuted ==
  [][checks' > checks /\ phase' = phase =>
       \E check \in asked :
         hour - check.at \in 0 .. (IF check.success THEN SuccessTtl ELSE FailureTtl)]_updateVars

\* No check is under way.
Resting == \A p \in Checkers : phase[p] = "idle"

\* Whatever version a shell has, the version that is offered is newer than it
\* exactly if semantic versioning gives it precedence, in which numbers of any
\* length compare as numbers and a prerelease comes before its release.
OrderIsSemantic ==
  Resting /\ notice # Empty =>
    \A i \in DOMAIN Ordered :
      Older(Ordered[i], Ordered[notice.version]) <=> i < notice.version

\* A shell is offered only what is newer than itself, and the beta channel only
\* if it is a prerelease.
OfferIsNewer ==
  notice # Empty =>
    /\ current < notice.version
    /\ notice.channel = "beta" => Ordered[current].pre # <<>>

\* Tags once learned stay known through failures, while checks do not overlap
\* and every cache is written.
TagsSurvive ==
  Resting /\ ~crossed /\ known # NoTags => cache.tags = known

\* What a shell tells its user of new versions is right.
NoticeIsRight == OrderIsSemantic /\ OfferIsNewer /\ TagsSurvive
=============================================================================
