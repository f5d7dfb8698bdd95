# Operon CLI: verification project

The Operon CLI lets a user or an agent read and change the tasks of an Obsidian
vault. It talks to the Operon plugin (the *Runtime*) inside a running Obsidian,
and it promises that a change is applied at most once, also when the CLI, the
transport or Obsidian fails half way. This directory holds TLA+ models of the
parts of `src/src` that make that promise, TLC runs that check them on small
instances, and proofs that TLAPS checks for every value of the constants.

## The system

| Component | State it keeps | Operations | Hard behaviour |
|---|---|---|---|
| Dispatch-capacity lock (`plan-store.ts` 677-928) | `plans/.dispatch-capacity.lock`, an owner record in it, an open descriptor | acquire, release, recover a stale lock | processes that die, age limit, inode reuse, rename of a file that has changed hands |
| Stored plans (`plan-store.ts`) | one JSON file per plan in `plans/` | store, read, prune, mark, restore, record outcome, discard, abandon, list | every CLI process works on the same directory; only mark and restore take the lock |
| Plan apply and recover (`command-line.ts` `runPlanApply`, `client.ts` `executeCliV1`) | the record and request of one command | read, confirm, bind, dispatch, record or restore | crash or deadline at any point; lost, late and repeated answers |
| Request files and the Obsidian process (`protocol.ts`, `client.ts`) | a one-shot file in the request root, a child process | publish, spawn, wait, clean up | the Runtime may consume the file at any moment until it is removed |
| Persistent reads (`persistent-read-client.ts`) | a socket, one frame in flight, a batch queue and its timer | invoke, batch, connect, receive, close | timeouts, partial batches, fallback to a spawned read |
| JSONL session (`session-jsonl.ts`) | partial input line, responses waiting for their turn | read a line, run a request or a read group, write | ordered output under back pressure, abort after dispatch |
| Configuration (`config.ts`) | `config-v1.json` with profiles | load, add, remove, set default, resolve a vault, assert a resolved one | whole-file read, change, write by concurrent commands; vaults that move |
| Client identity (`client-identity.ts`) | `client-v1.json`, its `.initialized` marker, the older client's file | read, migrate, create | first runs at the same time or cut short, an identity that goes missing |
| Secure storage (`secure-storage.ts`) | private directories | atomic write, inspect, repair | temporary files left by a crash, removals between two steps, access lists on Windows |
| Windows cold start (`persistent-read-client.ts` 480-760) | the descriptor file of a vault's Runtime | look, open, connect, ask, replace | commands that replace the file under each other, a Runtime that restarts |
| Command line (`command-line.ts`, `main.ts`, registry, output) | none between commands | parse, resolve, preview, store, confirm, dispatch, exit code | the default profile and the tasks change between two requests |
| Interactive shell (`interactive-shell.ts`) | a line buffer, one waiter, queued interrupts, history | prompt, ask, run, interrupt, close | lines and interrupts that come while nobody waits |
| Task finder (`task-finder.ts`) | pages, criteria, the row that is shown | load, browse, refine, choose, verify | stale cursors, tasks edited between the page and the choice |
| Update check (`update-check.ts`, `semver.ts`) | a cache file | check, notify | lifetimes of answers and of failures, clocks set back, concurrent shells |
| Compact and guided mutations (`compact-*`, `guided-*`, `direct-*`) | the answers so far | ask, build one preview request | their course is hard, their data is not |
| Contract compatibility (`runtime-contract-compatibility.ts`) | none | classify, admit | pure |
| Rendering, completion, package data | none | format | none |

How they interact. A mutation command sends a preview request to the Runtime
and stores the sealed plan it gets back (*Stored plans*). `plan apply` reads the
plan, binds one apply request to it under the *lock*, publishes the request as a
*request file* and spawns the Obsidian CLI with the file's token. The Runtime
consumes the file, executes the request and answers on the child's output. The
command records the outcome in the stored plan, or takes the binding back when
the request certainly was not consumed, or leaves it as recovery evidence and
names the plan to `plan recover`, which sends the stored request again. Reads go
over the *persistent* socket or a request file of their own and store nothing.

What makes each part correct:

- lock: at most one process inside; a dead owner does not block the others for
  ever; every acquisition ends;
- stored plans: what is written can be read back, at most 256 records of
  evidence, no command removes or overwrites evidence, or a final outcome, that
  it knows of before its 24 hours, and one binding per plan;
- apply and recover: one request per plan ever reaches the Runtime, the advice
  given to the user (retry, recover) is true, evidence exists for every request
  the Runtime may have seen;
- persistent reads: every read is answered once or falls back, no request token
  is presented twice;
- session: one response per request, in order, and a recovery response when an
  apply has crossed the dispatch boundary;
- configuration, identity, storage: a concurrent or crashed writer leaves the
  old or the new file, whole and private, and one identity; a command acts on
  the vault its arguments meant;
- mutations: nothing risky is dispatched that the user has not agreed to, and
  nothing unseen that is not exactly what the command asked for;
- shell: what is typed reaches the one it was typed for, and the reference of a
  plan whose apply is uncertain is said (`shell_recovery` shows where it is not);
- finder: the user chooses from, and gets, what the header and the rows show;
- update check: no notice that is not newer, no silence longer than a day.

## Modules

### DispatchLock

The POSIX lock at the granularity of system calls: `open`, `write`, `lstat`,
`close`, `unlink`, `rename`. State: the inode under the lock's name and under
each process's quarantine name, the owner recorded in each inode, which inodes
are older than 30 s, and for each process its place in the code, its
descriptor, and the inode number and the owner it has read. One action per
call. A process may die between any two; inode numbers are reused when nothing
refers to the file, and a dead owner's pid may look alive because the operating
system has given it to another process. `robbed` is a history variable: the
processes whose file was moved away while they lived and owned it.

Left out: modes, owners and symbolic links of the file (a foreign file is
refused), and the Windows helper process, which replaces all of it on Windows.

### PlanStore

The plan directory. A record is reduced to what the code decides on: when it
was created, the bound request, the start of the recovery window and whether its
length is exact, the outcome (and whether it fits the terminal result beside
it), and whether this version can decode it. `Verdict` is `readMutationPlanV1`;
`Load*` and `Remove` are what its callers do with the answer; `Sweep*` are the
directory loops of prune, count and list, one file at a time; `Write` and
`RecordOutcome` replace a file in one step, as `writeJsonAtomic` does with a
rename, and mark, restore and outcome ask the decoder first (`Writable`), as
`writeStoredPlanV1` does: `Attempts` are the records an outcome may come to,
among them one whose window has been read from two clocks. `seen` keeps what an
operation has read in the file it is about to remove. Between two file
operations of a process the others may do anything.
The lock is a set of holders that excludes as long as nobody's file is stolen,
which is what DispatchLock shows; what a theft costs the store is not modelled.

`StoreSpec` lets every process issue every command at any time.
`DisciplinedStoreSpec` adds what the code relies on outside its lock: one
command at a time per plan, no clock step in the middle of an operation (an
operation takes seconds, a plan minutes, the retention a day), and no command
at work on a plan at the very end of its 24 hours. Only `CapacityKept`, and
`BindingIsStable` where restores take part, are stated under it: what can be lost
outside of the lock when commands do overlap on a plan is the subject of
`KnownEvidenceIsKept`, which is stated of `StoreSpec`, and of `discard_race`.

The initial states hold any mix of no record, a fresh one, one bound by an
earlier version without a recovery window, and one that cannot be decoded.

### RecoveryLedger

The abstract promise, without processes, files, locks or clocks: each plan is
none, prepared, bound, settled or gone, and a set tells which plans have been
sent. A plan that has been sent is never prepared again.

### PlanApply

`runPlanApply` and `executeCliV1` on top of PlanStore, with the Runtime as the
environment. `stage` is the place in `runPlanApply` and then the way the command
ended: `success`, `failed`, `recovery` (exit 5 with the plan to recover),
`retry` (the request was not dispatched), `error`. `file` is the request file of
each process, which outlives it. `Consume` and `Execute` are the Runtime: a file
is consumed once, and the plan's idempotency key makes the mutation take effect
once. `consumed`, `applied`, `settled` and `waived` are history.

`Ledger == INSTANCE RecoveryLedger WITH ...` maps a plan's record to its phase;
`KeepsLedger` is the refinement.

The transport is one step each way here, and `NotStarted` is what the transport
promises: that part is module Transport, and what precedes the dispatch is
module Mutation (here `Decline`).

### Transport

One Runtime command, from its parsed options to the exit code (`executeCliV1`,
`runObsidianProcessV1`, `publishRequestFileV1`). On POSIX the request file is an
inode with up to two `names`: `Create`, `Link`, `UnlinkTemp`, `Verify` and `Close`
are the steps of its publication, each of which may throw; the removals that
follow may fail as well (`PublishFails`), which nothing reports. On Windows `Stage`
hands it to the Runtime's broker. The child runs, exits, prints, and may leave
descendants that keep its output open (`held`); `Deadline`, `Overflow` and
`Signal` end it, on Windows with a `taskkill` that may fail and a forced
settlement; `Consume` is the Runtime, at any moment until the file is gone. Then
`AskFile`, or `AskBroker` and `Cancel`, find out whether an apply may have
started, and `Finish` makes the outcome in the order of the code's tests.
`presented`, `taken` and `undeleted` are history.

Left out: the executable's search path, the bytes of the output. What the
Runtime's answer says is one of *ok*, *failed*, *misfit* (JSON that is not the
answer to this request), *garbage*.

### Mutation

One mutating command line: every route of `runConvenienceCommand` (compact,
batch, direct, adopt, guided, typed), the storing of the preview in
`runRuntimeCommand`, and `runPlanApply` up to its dispatch, where PlanApply
begins. The assertion of the scope (`AssertScope`) and the store of the plan
(`StorePlan`) are steps of their own, and others may move between the two;
`asserted` is history: the vault the arguments meant at the assertion.
`todo` is the rest of the route's steps, in the order of the code: it is
computed from the invocation (`Course`), so that a route reads as the list of
its steps. Meanwhile other terminals change the default profile (`implicit`,
`revision`) and other clients edit the tasks (`titled`, `moved`). The plan is
what a Runtime, which is outside of the repository, may have sealed: what was
asked for or something else, with a risk and warnings. `visited` and `agreed` are
history. How an intent is compiled out of flags and answers is data.

### TaskFinder

The guided finder. `criteria` is what the header says, each page knows the
criteria it was asked for by and the version of the task it shows. The menus
change the criteria and keep or drop the pages as the code does; `Verify` reads
the chosen row again. Others edit at any time.

### InteractiveShell

`runInteractiveShellV1` over `ProcessInteractiveShellSessionV1`. `waiter` is the
promise that waits for a line (the prompt's or a question's), `handed` what it
was resolved with and has not looked at yet: readline reports all lines and keys
of a chunk of input before the code behind the `await` runs. `events` are the
interrupts nobody waited for, each tagged with the command it was typed at. A
command's outcome is one of the kinds that `hasRecoveryPlan` tells apart, or the
command throws, which the shell always reports.

### UpdateCheck

`checkForCliUpdateV1` with its cache shared by shells, and `compareOperonVersions`
on digit and character sequences, next to a clock that may be set to any hour.
`OrderIsSemantic` compares the code's order with the ranks of a list of versions
that semantic versioning orders.

### Config

`config-v1.json` and the commands on it: `LoadToChange` and `Save` with a user's
questions in between, and `Before`, `Load`, `After`, `Scope`, `AssertFence`,
`AssertConfig`: the two fingerprints around the load, the resolution, and the two
checks of the assertion that precedes each act, of the vault's directory and of
the configuration. `folder` is the inode number at a vault's path, `MoveVault` takes a
vault away and may put another directory in its place. Paths are sequences of
segments. `stale` and `ledger` are history.

### SecureStorage

`writeSecureJsonAtomicV1` step by step, and the inspection and repair of the
directory one entry at a time, for commands that no lock keeps apart, that may
die, and that meet entries others remove. `system` is POSIX modes or Windows
access lists: there a temporary file has its directory's access until `Protect`.
A repair first looks through the whole directory for names it does not know and
changes nothing if there is one (`RepairRoot`); in `plans` it meets them one by
one (`RepairFails`). `authors`, `alone` and `meddled` are history.

### WindowsBootstrap

`connect` and `bootstrapWindowsPersistentDescriptorV1`: commands that find the
Runtime's named pipe through a descriptor file they share. `Look` is the `lstat`,
`OpenFile` the open and the checks after it (an access-list check by a process of
its own stands between the two), `Shake` the hello, `Ask` the question to the
Runtime through Obsidian's CLI, `Write` the replacement of the file. The server
may restart and descriptors expire. `calm` is history: nothing has disturbed the
command since it was given a descriptor.

### ClientIdentity

`getOrCreateOperonCliClientIdV1`, one action per file-system step, for processes
that share the identity file (`state`), its marker and the older client's file
(`legacy`). `Publish` is the rename of a temporary file, `CreateMarker` an
exclusive creation that fails the command when the marker is there.
`RemoveLegacy` is best effort and may leave the file. `Stop` is a crash, or a
step that throws, between any two. `Lose` removes the identity file from
outside, which is what the marker is for: a client that has had an identity must
not silently make another one, under which its stored plans cannot be applied.
`handed` is history: the identities that commands have acted under. So is
`careful`, which ends when first commands overlap or when an identity is removed
before its marker is written; `OneIdentity` is stated under it, because
overlapping first commands do publish over each other.

### PersistentRead

`PersistentReadTransportV1` and `PersistentConnectionV1`, with the read path of
`executeCliV1` that calls them and the frames of the session that announces
batches. Each read has a `status`; each socket carries the reads (`load`) that
wait for its connection or for the answer of its frame. `Closing` is the
`close()` of the transport, which rejects whatever is queued or in flight on the
current socket, as part of the step that causes it. `Dispatch` is the
call of a batch or of a single read with the reuse of an open socket, the
refusal of a second frame in flight, and the reconnection. A connection fails
in one of two ways: with an error that says the frame was not sent, after which a
read alone tries once more (`ConnectFails`), or with a plain one, of the file
system or of the vault's fence, which is taken for a frame that was sent
(`ConnectErrs`, `FenceLost`, `ConnectedLate`). A read whose frame
may have gone out falls back with a new request token (`lost`), one whose frame
has not keeps its token (`unsent`, `SpawnRead`); one whose fence fails before it
joins the batch falls back at once (`Invoke`). `shown` is history: the tokens
presented to the Runtime.

`ReadContract` is the abstract specification of what a session owes each read:
none of the places, sockets or batches, only that it is opened, presented with a
token the Runtime has not seen, and ended once. `ContractKept` is the refinement;
every place between `new` and an end maps to `open`, and the presented tokens to
a set. The contract forbids what a caller would notice: a second result, an
answer without a question, a third question, a fallback after an interrupt.

`prompt` is history too: it ends when the reads of a frame are not built in one
turn of the event loop. Where staging is synchronous they always are, so
everywhere but on Windows; `OneSocket` and `GroupsRun` are stated under it, the
other properties hold whatever interleaves.

Left out: the contents of frames. A frame that does not decode is `Break`.

### JsonlSession

`runJsonlSessionV1` from an input frame to the responses it causes. The promise
chain of a read group is `links`, the number of links that have not run to their
end, and `chain`, what the running one is doing. `Settle` fulfils one read and
appends a link; `WriteNext` and `LinkEnds` are the loop of the running link;
`GroupFails` is a rejected chain. `Put` is `output.write`, which the environment
accepts or does not; `Drain`, `OutputFails` and `Abort` come at any time.
`Recovers` is an apply that returns a recovery planRef, `Throws` one that
rejects: its recovery frame is a response like any other, which an aborted
session drops. `uncertain` is history.

Left out: the splitting of lines and the decoding of frames (`Malformed` is
every frame that is refused), and what a command does, which is in the other
modules. The sequence numbers of the frame clock have no influence.

### Modules that compose

`MCLiveness`, `MCPlanApply`, `MCSessions`, `MCProfile` and `MCClients` put modules
side by side: a variable (`part`, `use`, `about`) that never changes says which of
them a behaviour exercises, and the others stay in one fixed initial state
(`...Rests`). The state graph is the disjoint union of the parts' graphs, so one
run checks them all, each with its own bounds, and a property of one part is
vacuous in the others. The specifications without fairness (`SessionsSpec`,
`BothSpec`, `CommandsSpec`, `ProfileSpec`, `ClientsSpec`) are proved to allow
nothing that the parts do not. Where parts do share state the modules themselves are
composed: PlanApply extends PlanStore and drives it, and maps both to
RecoveryLedger.

## Runs

A property that a run lists may be the conjunction of named ones, which are
stated and commented where they are defined; the parts are in brackets.

| Run | Question | Instance |
|---|---|---|
| `dispatch_lock` | Does the lock exclude, until a live owner's file is moved away, and does that need a death? | 3 processes, 3 inodes, 2 deaths |
| `lock_theft` | *violation*: recovery of a stale lock takes a live one | 3 processes, 1 death |
| `liveness` | Does every wait for the lock, and every plan command, end (`EveryWaitEnds`: `AcquisitionEnds`, `CommandsEnd`)? Do store, commands and Runtime refine the ledger (`KeepsLedger`)? | 2 processes, 1 death |
| `plan_store` | Capacity under disciplined use; decodable records and `KnownEvidenceIsKept` also where both processes work on one plan and the clock moves at any point (`use`) | 2 processes, 2 plans, limit 1, 1 death, clock to 3 |
| `plan_apply` | Evidence, one request per plan, true advice (`AdviceIsTrue`: `RetryIsSafe`, `RecoveryIsPossible`); and, with `use = "appliers"`, whether concurrent applies of a plan agree on the first request (`OneBinding`: `AppliersAgree`, `BindingIsStable`) | 3 processes, 1 plan; commands: 2 requests, 2 deaths, clock to 3; appliers: 2 requests, no death, no time |
| `discard_race` | *violation*: a discard removes fresh evidence | 2 processes, no death, no time |
| `profile` | Identity (`NeverLockedOut`, `OneIdentity`, `MigrationIsSafe`), configuration (`ConfigIsSound`: `AlwaysReadable`, `ProfilesAreKept`; `VaultIsMeant`: `InnermostVault`, `ActsOnItsTarget`), storage (`StorageIsSound`: `NeverTorn`, `NeverExposed`, `WrittenWasThere`, `RepairCleans`, `SecureIsTrue`), Windows cold starts (`ColdStartsConnect`) | 3 first commands and UUIDs; 2 commands, 2 profiles, 3 vaults; 2 commands, 2 files; 2 commands, 1 restart, clock to 1 |
| `storage_leftovers` | *violation*: a repair fails on what a crashed plan write has left | 2 commands |
| `sessions` | Session: order, coverage, recovery frames, restraint (`OutputIsHeld`: `BackPressure`, `SilentAfterAbort`). Reads (`ReadsAreAccounted`: `Accounted`, `TokensAreFresh`, `OneSocket`; do they refine their contract, `ContractKept`?). Transport (`ReportIsTrue`: `NotStartedIsTrue`, `UncertainIsSaid`, `NothingLeft`). Shell (`InputReachesItsReader`: `InterruptsAreForTheirCommand`, `LinesReachTheirPrompt`, `AnswersAreForgotten`). Do they all end? (`SessionsEnd`: `AbortEnds`, `ReadsEnd`, `CommandSettles`, `CloseEnds`) | 3 frames, groups of 3; 3 reads, 3 sockets; 3 platforms; 3 lines, 3 interrupts |
| `group_refused` | *violation*: a well-formed group is refused | 4 reads, 3 sockets |
| `shell_recovery` | *violation*: a shell swallows the reference of a plan that must be recovered | 3 lines, 3 interrupts |
| `clients` | Mutations (`NothingUnagreed`: `RiskIsConfirmed`, `UnseenIsExpected`; `TargetIsMeant`: `NamedTask`, `OneVault`, `BatchKept`, `StoredWhereMeant`), the finder (`SearchIsShown`: `PagesMatch`, `OpenViewsAreOpen`, `StatusesFit`, `SelectedAsShown`), the update check (`NotMuted`; `NoticeIsRight`: `OrderIsSemantic`, `OfferIsNewer`, `TagsSurvive`) | 2 vaults, 2 tasks, 3 pages, 1 change; 2 pages, 1 edit; 2 shells, 9 versions, 2 checks |

Why the bounds are enough. A stale lock needs an owner that dies and two
contenders: three processes. Everything in the lock is symmetric in the inodes,
and with three processes three inodes can be in use at once, so that reuse
happens too. In the store, `Limit = 1` with two plans makes the last free place
the only one. `Lifetime = 1`, `Retention = 2` and a clock to 3 let a plan
expire before, and its evidence after, every other event. Two request ids per
plan are what a second binding needs; three appliers, of whom two differ and one
only reads, need no time and no death. The apply runs use one plan: plans interact only through the
capacity, which `plan_store` checks with two. Symmetry over processes, plans and
inodes is used in runs without a liveness property; no action distinguishes
members of these sets.

First commands interfere in pairs; the third process finds what two have left.
The model draws UUIDs without repetition, and three suffice for three processes
that publish once each. Two vaults share a transport name, two are nested, and
the two working directories are in the inner and in the outer one; two commands
interleave in every order. Storage has one file in the directory and one in its
`plans`, which are inspected by different rules. Cold starts interfere in pairs
through one file; a restart, an expiry and two writers with different expiries
all occur.

A batch needs two reads and a third one that comes between or after;
`group_refused` needs a second batch after the first, and four reads. Three
sockets are one current, one that is connecting, and one to be connected next. A
session frame depends on the one before it only through the output and the
signal, so three frames show every pair and one more; groups of three have a
first, a last and a middle read. In the shell one line runs a command, one
answers it and one comes too early or too late, and likewise for interrupts.
Transport has no bound: one command is finite.

One change by others can come between any two requests of a mutation; the code
compares only with what it has read last. Three pages are one that is full, one
whose cursor repeats tasks, and the limit. The finder's page limit, 5 in the
code, is reached with 2. Lifetimes of one hour and of none, in a clock of three
hours, have a success outlive a failure and both expire.

Deadlock is checked in the runs of the lock, the store and the apply commands.
Sessions, the shell and single commands end for good, so the other runs do not
check it; their liveness properties say that what has begun comes to its end.

### Violations

- `lock_theft`. Two contenders find the lock of a dead process. One renames it,
  creates its own lock and enters. The other, which has checked before, renames
  the new lock, sees that the inode is not the one it looked at, removes it all
  the same, and gives up. The live owner works on without a lock file.
- `discard_race`. `discardMutationPlanV1` reads, decides, and unlinks without
  the lock; a plan bound and dispatched in between loses its evidence.
- `group_refused`. `beginBatch` announces the reads of a group before they run.
  When all of them fail before they reach the transport, only the five-second
  timer ends the batch, and the next group is refused in the meantime.
- `storage_leftovers`. A plan is written under a temporary name and renamed. If
  the process dies before the rename, the name stays in `plans`, where
  `isRecognizedPlanFileV1` does not know it: `doctor` reports the storage
  insecure, and its repair, which removes such files in the directory above,
  fails on it.
- `shell_recovery`. When the outcome of an uncertain apply cannot be recorded,
  `localRecoveryFailure` puts the plan's reference into a local envelope.
  `hasRecoveryPlan` looks for it in the Runtime's only, and if the command was
  interrupted the shell says *Command cancelled.* instead.

`discard_race` needs two commands at work on one plan at the same time. One at a
time, `EvidenceRetained` holds (`plan_apply`); with any number of them, what goes
wrong is always of this kind: `KnownEvidenceIsKept` says that evidence is lost
without somebody meaning it only where a process acts on a file another one has
changed since it was read. A prune that removes a plan bound since, and an
outcome that is written over the tombstone another command has left since, are
the other cases.

### Observations

Read in the code while modelling it, and stated where a property makes an
exception for them:

- `tasks.query` and `mutation.apply` accept `--id` beside `--input`, and with
  `--id` also `--consistency best-effort`; both are then overridden without a
  word (`client.ts` 1019-1036; `Accepted` of Transport).
- On POSIX a killed Obsidian CLI whose descendant keeps its output open holds its
  command until that one ends; only Windows settles by force (`CommandSettles`).
- The routes that do not pin their target resolve the vault anew at every
  request; `OneVault` is stated for those that do, `StoredWhereMeant` for all. It
  speaks of the assertion before the store: a default profile that changes
  between the two is not noticed, nor a vault that is moved between the two
  checks of an assertion (`ActsOnItsTarget`).
- The finder keeps its pages when the filter editor leaves a view and its filters
  end as they began (`PagesMatch`).
- On Windows a command whose descriptor file is replaced between its `lstat` and
  its `open` fails, although the test of eight cold starts expects each of them
  to connect (`persistent-read-client.ts` 1016-1051, `ColdStartsConnect`).
- Two setups that overlap lose one of the two profiles (`stale`,
  `ProfilesAreKept`).

## Fairness

`DispatchLock!FairSpec` is weakly fair for a process's own steps once it is in
the lock code, which is synchronous, and strongly fair for the deadline:
a process that comes back to its wait again and again finds the 5 s over at
last. Nothing obliges a process to start.

`FairApplySpec` is weakly fair for the steps of a command that has started.
That includes the deadline of the transport (`NoAnswer`), which is a timer in
the CLI, and excludes the Runtime, other users, and the passing of time: a
command ends although none of them ever moves.

The reads are weakly fair for each read's own steps, for the outcome of each
socket (a connection attempt and a pending frame end by the idle timeout of 30 s
at the latest) and for the batch timer. That obliges no server to answer and no
session to go on. The session is weakly fair for the work of the frame in
progress, which has the signal and deadlines of its own, and for the end of an
input that the signal handler has destroyed. It does not oblige the output to
drain. Transport is weakly fair for the client: its event loop runs on, its timers
fire, every system call it waits for returns. The child need not exit, the
Runtime need not consume, nobody need let go of a pipe. The shell is weakly fair
for its loop and strongly fair for the end of a command, which other modules
show (`CommandSettles`, `CommandsEnd`): a command that comes back to its
questions again and again ends at last, and the user owes nothing.

In `MCSessions` only one of the four can move in a behaviour. Its weak fairness is
one condition on `GoesOn`, the steps just named of all four: the part does not
rest for ever while any of them is possible. That is what an event loop does; it
does not say that one step is not overtaken by others for ever, which no
property here needs. The history variable `prompt` has no part in it.

## Proofs

Each theorem holds for every value of the constants that the modules' named
assumptions allow. The runs check the same properties on small
instances, and where it was in doubt that a strengthened invariant holds, TLC
checked it there before its proof.

### The lock (`DispatchLock_proofs`)

- `LockTypeCorrect`: the type invariant;
- `RobbedAfterDeath`: a live owner is robbed only after some process has ended.
  Inductive invariant `DeathSeen`: a process is about to rename only if some
  process has ended, because that is what `isProcessAliveV1` told it;
- `MutualExclusion`: `ExclusiveUnlessRobbed`. The property says nothing of a
  process that is between `close` and `unlink`, so it is not inductive:
  a releasing process could remove another's file. `LockInv` adds that, until
  someone is robbed, there is one owner from `open` to `unlink` (`OneOwner`),
  its file is under the name (`OwnerInPlace`), and a releasing process
  releases its own inode (`ReleasesOwn`).

### Stored plans (`PlanStore_proofs`)

Under full concurrency (`StoreSpec`):

- `StoreTypeCorrect`: the type invariant, with `Working`: a process inside an
  operation has a plan, and one that writes has a record and a request;
- `RecordsAlwaysDecode`: every record in the store passes the strict decoder, and
  what a mark or a restore has come to is never refused by it.
  A record is also held in memory, across other processes' steps, and written
  back later, so `DecodeInv` requires the same of every record in memory;
- `NoKnownEvidenceIsLost`: no evidence is removed, bound anew or turned from
  tombstone to uncertain by a process that knew of it, but for an abandon, a final
  answer and a restore. `KnownInv` is about each process alone, and survives
  whatever the others do to its file: what it is about to remove was no evidence
  when it was read, and the passing of time does not make it so (`SawNoEvidence`);
  what it marks was unbound (`MarksUnbound`), what it restores
  bound to its own request and without an outcome (`RestoresBound`).

Under disciplined use (`DisciplinedStoreSpec`), all from the one invariant
`Discipline`, whose point is to tie what a process has read some steps ago to
what the files hold when it acts:

- `CapacityIsKept`: never more than `Limit` records of evidence. `CountsAll`: the
  holder of the lock has counted at least all evidence of other plans that it is
  past in its loop, because nobody else can make evidence meanwhile (`OneHolder`).
  `Removals` says that what is about to be removed is no evidence or expired, and
  that a sweep holds no name under which a plan is just being stored; `Memory`, that
  who marks or restores a plan under the lock holds in memory what the file holds;
- `BindingsAreStable`: a binding is never replaced by another, and taken back only
  while its request has no outcome. `RequestIsBound`: what a command dispatches is
  what its record in memory is bound to, so that recording an outcome writes the
  binding the file has.

Under concurrent use of one plan without restores (`ConcurrentStoreSpec`):

- `ConcurrentAppliesAgree`: the same property, `OneBinding`, which here says that
  all processes that apply a plan dispatch the request bound first. `BindInv`:
  whatever names a request for a plan, its file and every memory, names the same
  one, even while the file is gone (`MemoriesAgree`, `FilesAgree`); nobody knows a
  binding of a plan that is being bound (`MarkedIsUnbound`), because marks exclude
  each other and an unbound file never follows a bound one; and nobody has read a
  plan that is being stored (`StoredIsUnread`). A restore breaks `FilesAgree`,
  which is why it is left out: two commands of which one takes its binding back
  are in the list of hazards, without a property.

### Plan apply and recover (`PlanApply_proofs`)

Of `DisciplinedApplySpec`: one command at a time on a plan, any number of
processes, plans, crashes, requests under way and executions in the Runtime.

- `CommandsUseTheStore`: every step of a command, a crash included, is a step of
  the disciplined store or none, so all theorems about it hold under plan apply
  and plan recover; `CommandsKeepOneBinding` is one of them, and `Discipline` is
  the first conjunct of the invariant;
- `EvidenceIsRetained`, `OneRequestReachesTheRuntime`, `AdviceIsAlwaysTrue`. None is
  inductive: the request may be in the file of a process that has died, in the
  Runtime, or only in the memory of a command that is about to send it.
  `ApplyInv` calls it *out* in the first two cases (`Out`) and says
  that there is one at most (`OneOut`), that the record of its plan, if there is
  one, is bound to it, and that there is one until the plan is settled or given
  up (`OutsAreBound`). Per command (`Sound`) it ties `stage` to the operation of
  the store, its result and the memory (`Staged`, `ReadIsRight`), says that a
  mark that succeeds comes before anything is out (`MarkIsFirst`), that nobody
  but the apply that is under way has sent a request of its plan (`SentAlone`),
  and that a restore runs only while nothing is out (`RestoreIsSafe`). That last
  part is where `NotStarted` of the transport is needed;
- `CommandsImplementLedger`: the refinement. A step of the store changes the phase
  of one plan at most, and each change is an action of RecoveryLedger (`Moves`).
  `LedgerInv` adds to `ApplyInv` what the phases need: a record that this version
  cannot decode is evidence and never one whose request is out
  (`ForeignIsEvidence`, `OutsAreReadable`), a preview that is not over has
  reserved its planRef, and only what can be decoded is removed (`Uses`);
- `LedgerKeepsItsPromise`: what the refinement is worth. Of anything that
  implements the ledger, a plan of which the Runtime has consumed a request is
  bound, settled or gone;
- `ApplyTypeCorrect`: the type invariant;
- `CommandsImplementParts`, `CommandsAreSafe`: what `plan_apply` explores is one of
  its two uses, and what it checks holds in both, because where processes only
  use the store no request leaves it; `BothImplementParts`: the same of the
  commands next to the lock, which with it keep the ledger.

### Sessions (`JsonlSession_proofs`, `Sessions_proofs`, `Transport_proofs`)

For groups of any size and any number of frames:

- `SessionTypeCorrect`: the type invariant. That `links` stays within the size
  of the group needs `LinksBounded`: there are at most as many links as settled
  reads;
- `EveryFrameIsAnswered`: no frame is left behind without its responses.
  `Grouped` says that a read of the group has settled exactly when it is ready
  or written, and that a chain without links leaves nothing behind that is next
  in order: so a group in which all have settled and no link is left is
  written to its last read;
- `OutputIsNotFlooded`: `Writable` says where the next write is to be made that
  the output has drained, has failed, or will not be written to;
- `AbortedSessionIsSilent`: after an abort only a recovery frame;
  `OutputIsAlwaysHeld`: both at once;
- `ResponsesInOrder`: `SoFar` says which responses to the frame in hand are
  written, and that the last of them is the read at `position`, so that the next
  one has its predecessor right before it;
- `UncertainIsReported`: an uncertain outcome and its recovery frame are one
  step, whatever the signal has done.

For any sockets and any finite number of reads:

- `ReadTypeCorrect`, `ReadsAreAlwaysAccounted`: every open read is held by one
  place that settles it, no token is presented twice, and there is one socket
  where a frame's builds are not interrupted. The invariant adds: only reads of
  the frame are open (`InFrame`), so that a batch never takes up a read of an
  earlier one; a read that has not been sent has its first token and has shown
  none (`Tokens`); a connecting socket has somebody who waits for it, and is not
  the current one (`Connecting`); a batch expects at least those that are queued
  and built (`BatchFits`), so that its dispatch leaves none behind; and no
  socket is busy while a read is built (`OneAtATime`). The lemma
  `ClosingAccounts` states what `close()` does to all of that once for all its
  causes (`Causes`);
- `ReadsKeepContract`: the refinement of ReadContract. `Moves` lists what a step
  may make of the place and the tokens of one read. Each action is shown to move
  every read so, `close()` and a frame of many reads included, and each such move
  is an action of the contract (`MovesKeepContract`), for which the invariant above
  supplies that nothing was presented before a frame went out (`Tokens`);
- `ReadsEndOnce`: what follows from the contract. An answered read was presented, one
  that was refused or failed locally was not, and no result is changed later.

For one Runtime command, with any options on any platform:

- `TransportTypeCorrect`, `ReportsAreTrue`: what a command says of its request is
  true. `FileSteps` knows which names the request has at every step of its
  publication, `ConsumedOnce` that a consumed apply is out of reach,
  `Concludes` that an apply judged not to have started has not, and cannot.

For any number of lines, interrupts and commands of the shell:

- `InputAlwaysReachesItsReader`. `Timed`: what is queued
  while a command runs was typed at that command, since every reader takes what
  is there before it (`Queued`);
- `ShellTypeCorrect`: the type invariant. Its counters stay in their bounds because
  a command is counted after its line was typed (`CommandsWereTyped`).

For the four side by side, `SessionsImplementParts` and `SessionsTypeCorrect`: what
the run `sessions` explores are behaviours of each, so the theorems above hold
there, among them the type invariant of all four.

### The private directory (`Profile_proofs`)

- `IdentityTypeCorrect`; `FirstCommandsNeverLockOut`: the marker stands for an
  identity. A command about to create the marker has published before, so the
  invariant says of every such command that the file is there or was lost;
  `MigrationKeepsACopy`: the same invariant, at the step that removes the older
  file; `CommandsShareOneIdentity`: as long as first commands do not overlap,
  what each has handed out, published or is about to is one identity (`One`);
- `ConfigTypeCorrect`, `ConfigStaysSound`: a command that is about to save has a file it can save, and
  without stale saves the file is the ledger; `CommandsFindTheirVault`:
  `Stamped` says that equal fingerprints mean equal files, so that a command
  between its two fingerprints has read what it means (`ScopeOf`); that the
  resolution finds the innermost vault is a lemma on sequences of any length;
- `StorageTypeCorrect`, `StorageStaysSound`: any number of files, commands and crashes. `Complete` and
  `Private`: what is renamed is whole and tight; `Unused`: a temporary name is
  new; `Cleaning` and `Inspecting`: what an inspection or repair has listed and
  is past has been looked at;
- `BootstrapTypeCorrect`, `ColdStartsAlwaysConnect`: a command that was given a
  descriptor and not disturbed since finds its own answer, or another one of the
  same server, in the file;
- `ProfileImplementsParts`, `ProfileTypeCorrect`: the four side by side.

### Clients (`Clients_proofs`)

- `NothingIsUnagreed`, `CommandsMeanTheirTarget`: for any vaults, tasks, pages and
  changes by others. That every course computes its steps in a sound order is a
  lemma on `Course` (`Program`); the invariant relates what is sealed to what was
  read (`Expected`), agreed to (`Consent`), searched for (`Searched`) and
  resolved (`InPlace`);
- `MutationTypeCorrect`: the type invariant. There is a plan from its preview on
  (`Planned`), and a query that goes on has pages left (`PagesLeft`);
- `FinderShowsItsSearch`: `StillShown` covers the time in which the filters are
  being edited and the pages are those of the filters before;
  `FinderTypeCorrect`: the type invariant, with the limit of the pages and an index
  that points at one of them (`PagesFit`), and a project scope that is never
  without its mode (`RootHasMode`);
- `UpdateTypeCorrect`, `ChecksAreNotMuted`: the cache is as old as a check that was stored
  (`CacheWasAsked`);
- `NoticesAreRight`: stated of any list `Ordered` of which the code finds each
  version older than all that follow (`Ascending`); `OrderIsSemantic` has TLC
  check that of the list it uses. That the code then orders no pair of the list the other way round is
  proved (`OlderIsAsymmetric`), for numbers and identifiers of any length;
- `ClientsImplementParts`, `ClientsTypeCorrect`: the three side by side.

### Assumptions, and what is only model-checked

The proofs use the named assumptions of the modules and nothing else. Most say
that a value which stands for "nothing" is not one of the real values
(`SentinelAssumption`, `AbsentAssumption`, `NoneAssumption`, `LegacyAssumption`,
`NoValueAssumption`, `NowhereAssumption`, `UnsetAssumption`, `ConfigAssumption`,
`NothingAssumption`, `CacheAssumption`, `NamesAssumption`), or give a bound its
type (`ShellAssumption`, `FinderAssumption`, `MutationAssumption`, `DeathsAssumption`
and others). The others say what the code or its environment provides: a directory
holds finitely many files and a recovery window is not empty
(`StoreAssumption`), a session has finitely many reads (`ReadsAssumption`), paths
are sequences of segments (`PathAssumption`), what stands for no plan is not the
content of one (`PlanAssumption`), a version is made of sequences of
character codes (`VersionsAssumption`). TLC evaluates them in every run.

Only model-checked:

- liveness (`EveryWaitEnds`, `SessionsEnd`): there is no proof rule here for
  fairness with `ENABLED`;
- that compareOperonVersions agrees with semantic versioning on the numbers
  themselves, which needs an induction over their digits;
- the findings, which are counterexamples.

## Not modelled, and the plan

What is left, in this order:

1. The Windows helper process of the lock, as a second implementation of its
   exclusion; the line splitter of the session.
2. Contract compatibility and the compact syntax, which are functions without
   state, against reference definitions.

Outside of the models for good: formatting and rendering, completion and package
data, the Runtime's own code, and how an intent is compiled out of flags and
answers.
