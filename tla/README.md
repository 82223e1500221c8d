# Verification of Codex Session Control

Codex Session Control is a small Rust program with two faces. As an MCP server it
lets one Codex session list, read, wait for, create, message and interrupt other
sessions through the Codex app-server's Unix socket. As a command-line tool it
installs itself and keeps a systemd user service, a Codex plugin registration and a
Codex Desktop connection file in step. This directory models both faces in TLA+,
checks the models with TLC and proves the central facts with TLAPS. Paths below are
relative to the repository; the Rust sources are under `src/`.

## Inventory

| Part | State it keeps | Operations | What is hard | What makes it correct |
|---|---|---|---|---|
| app-server connection (`src/app_server.rs`) | next request id, dispatch mark, the socket | connect, initialize, request, mutate, wait for a notification | replies that come late, server frames with colliding ids, a socket that dies at any point, timeouts | a reply is the request's own; a mutation's outcome is unknown exactly when nobody can know it; no call blocks |
| session mutations (`src/mcp/operations.rs`) | none beyond one call | create, fork, message, title, goal, interrupt | a snapshot that is stale when it is acted on; two changes of which one fails; an unknown outcome | each change at most once; the report never claims more than is known; only the observed turn is touched |
| `thread_interrupt` with subagents (`src/mcp/operations.rs`) | the active descendants found | interrupt the thread, list its descendants, interrupt or name the active ones | pages read while turns change and subagents spawn, attempts that fail on their own, answers that are lost, the caller among the subagents | every subagent that stays active is accounted for; nothing is stopped behind the report; one turn each, never the caller's |
| `threads_wait` (`src/mcp/wait.rs`) | last pass, deadline | wait | torn snapshots, turns that change between passes, a deadline in the middle of a pass | every target accounted for; no false readiness; readiness noticed |
| evidence (`src/install/evidence.rs`) | none: reads configuration, manifest, artifacts | classify, permit | what interrupted commands leave | an interrupted command is accepted again |
| setup, enable, disable, uninstall, update (`src/install/*.rs`) | files, descriptor, service | five sequences of stages | failure or kill between any two stages, a service that moves on its own, PATH and Codex changing | manifest, configuration, unit and process agree after success; the descriptor outlives the service; suggestions work |
| active-turn gate of update (`src/install/update.rs`) | the threads disclosed last | list, ask, list again | turns that start and end while pages are read and questions answered | what the restart interrupts was approved |
| service control (`src/install/service.rs`) | systemd unit | query, verify, stop | states that prove nothing, sockets left behind | only proven states are acted on |
| native registrations (`src/install/native.rs`) | Codex marketplace and plugin | reconcile, remove | none of their own: external commands | |
| Desktop descriptor (`src/desktop/descriptor.rs`) | one file per launcher | publish, switch, remove | staged publication, foreign files, kills and losses of power | never removed while the service may run; foreign files survive; no torn file, no unnamed residue |
| managed files (`src/install/paths.rs`) | configuration, manifest, unit, projection, binary | reconcile (staged, renamed, synced), remove | the same | whole or absent; a reported change is durable |
| Desktop discovery, entries, rendering, release download, CLI, diagnostics | none that persists | parsing and I/O | | not modelled |
| status (`src/install/status.rs`) | none | one look at files, registrations, service, app-server and Desktop | what cut-short commands, upgrades and failures leave; questions that get no answer | healthy means healthy; the advised command is accepted |
| wrapper (`wrapper.rs`) | none | one look, then it becomes Codex | | not modelled |

The MCP server opens one connection per tool call (and a second one after an unknown
outcome). The lifecycle commands share the files, the descriptors and the service, and
`update` and `status` open a connection to the running service. Nothing is shared in
memory between commands; `disk`, `service` and the app-server are the only channels.
The hazards are listed one by one, with their lines, in `PROJECT.json`.

## Modules

`AppServerConnection` models a connection: `phase` is the await the owning task is at,
`nextId` is `next_request_id`, `dispatch` is `MutationDispatch`, `answer` is the result
of the last request (`ToolErrorData`: its category and its dispatch mark). `Request` is
the first half of `request_with_timeout`, up to the write; `ReceiveReply`, `SkipFrame`,
`ReadFails` (also on a socket that lives: a close frame, or one that is no JSON) and
`TimesOut` are the ways its read loop goes on or ends. `Connected` and
`Initialized` are the handshake in `connect_initialized`. The server and the socket
(`Reply`, `ServerFrame`, `LinkDrops`) are external: a server answers a request at most
once, as late as it likes, and numbers requests of its own from any id.

`SessionMutations` extends it with the tools that change a session, all on one thread
which other clients use too. `pc` is the await inside the tool, `seen` its compact
snapshot, `verdict` what it returns. `Decide` is the choice of `send_message` and
`interrupt_exact_thread`; `MutationReturned` is `mutation_request`; `Reopened` and
`Observed` are `reconcile_outcome_unknown`. The goal tools differ only in the parameters
they send and in the one field of the result they need (`goal`, or `cleared` for
`thread_goal_clear`), so `thread_goal_set` stands for all of them; `thread_title_set` and
`thread_interrupt` look at no field of theirs.

`MutationPromise` is the abstract specification of such a call, without connections:
changes take effect in order and at most once, and a report is a commitment for the
future (`done`: everything has happened; `untouched`: nothing ever will). The refinement
mapping is `Promised` in `SessionMutations`; `effects` is what the server applied and
`report` is read off the category and the mark of the verdict.

`ThreadsWait` models `threads_wait` on one open connection. `ThreadStep` is the life of
the server's threads, whose status and list of turns do not change together; the two
reads of a compact snapshot are two requests with any number of such steps between.
`Judge` is the verdict after a pass, `Wakes` the end of the quiet period, `Deadline` the
two `select!`s. `wasReady` and `firstSeen` are history variables for the properties.

`ThreadInterrupt` models `interrupt_thread` above that level. `pc` is where the call is:
the exact interrupt of `Root`, the listing, the attempts. `at`, `seen` and `result` are
one `interrupt_exact_thread` per thread: its snapshot, its `turn/interrupt`, the answer
(`Answered`) or its loss (`AnswerLost`, then `Reconcile`). `flying` and `reply` are the
request and the server's answer, which may come after the client has given up, or
after the call has returned. `Page` is a page of `spawned_descendants_page`; it may show
a descendant twice or one that is new. `Attempt` starts all attempts at once and answers
the caller's own on the spot; `Join` is `join_all`. `stopped` and `steady` are history
variables: the turns that the call ended, and the subagents in one turn ever since the
listing began. The order of the entries is left out: it is that of the listing.

`Installation` declares the state that the lifecycle commands change and the status
report reads: `disk` (configuration, manifest, unit, artifacts), `descriptors`,
`service`, and `world` (PATH and the versions of the Codex executables), with
`Evidence` (`evidence.rs`) and `Enablement`.

`Status` is `status.rs` as operators over that state. An operator takes the release of
the program that asks and `missed`, the questions that got no usable answer (Codex's
version, its plugins, the two `systemctl` queries, the handshake, the descriptor).
`Problems` is the union of what the inspections push, `CliIntegration`,
`DesktopIntegration` and `StatusState` are `project_status_result`, and `StatusAdvice`
is the command that `cli_output.rs` prints under it.

`Lifecycle` extends `Status` and models the five commands. `run` is the command in
progress and the stage it is at; `Stages` lists the stages in the order of the code;
there is one action per kind of stage (`WriteConfiguration`, `PublishDescriptor`,
`EnableNow`, ...), and for every stage, its failure with the suggestion the user is
given (`Suggestions`, from `cli_output.rs`). A stage can fail with nothing changed
(`StageFails`), with its change made (`Concludes`, `PublishFails`: what fails is the
sync of the directory or the look afterwards), or halfway, where it has a half: a plugin
removed and the new one not added (`PluginLost`), a unit file left in place or a
`daemon-reload` that did not happen (`RemoveUnitFails`), an old descriptor gone and the
new one withdrawn or not (`SwitchFails`), a `systemctl` that stopped, enabled or started
something first (`EnableOutcomes`, `ApplyFails`, `ReloadFails`), a manifest gone whose
directory stays (`DataRootStays`). `Killed` ends the process between two stages.
`Permits` and `Accepts` are `evidence.rs` and the checks of each command; `SetupAdvice`
is what a setup that finds another release's artifacts tells the user
(`validate_manifestless_setup_artifacts`). `Surroundings` are systemd, PATH, Codex
upgrades and the user's own `systemctl stop`. The unit has a `RuntimeDirectory`, so that
a stop by systemd removes the socket with it; `SocketStays` is the other outcome.

`ActiveTurnGate` models what `update` does before it restarts a running service:
`baseline_active_turn_gate` and `list_active_threads`, and then the stages up to
`systemctl restart`. `Page` reads one page, `Disclose` is the listing before the loop,
`FinalCheck` the comparison inside it, `Approve` and `Decline` the answers to the
question; `TurnStarts` and `TurnEnds` are the service's threads (external). `approved`
and `steady` are history variables: what the last answered question named, and what has
been active ever since the current listing began. `Lifecycle` sees the gate only as a
rejection that may happen. Of the app-server's paging it is assumed that a listing that
runs to its end has shown every thread that existed when it began, and that every page
but the last shows some thread; each thread is listed as it is when its page is made.

`FilePublication` models one path in a directory, as either the Desktop descriptor
(`publish_descriptor`, `remove_expected_descriptor`) or a managed file of the product
(`reconcile_file` with `atomic_write`, `remove_owned_file`). A step is a system call;
several processes call at the same time. `slot` is what a reader finds, `disk` the set
of what the path may hold after a loss of power: a rename or an unlink adds to it,
`SyncParent` and `CleanupSync` reduce it to what is visible. `Cleanup` and
`CleanupSync` are the two system calls of `cleanup_descriptor_stage`, either of which can
fail (`CleanupFails`). `stage` is the process's temporary file, `pc` its next system call, `call` its last operation and
outcome. `OthersChange` is any other program at the path, `Killed` and `PowerLoss` the
faults besides failing calls. The modes, owners and types that the code checks are an
answer that may be a failure.

`FileSlot` is what such a call promises, without stages, syncs or faults of the
directory: it makes one change at most, in one step, and its outcome says whether it was
made. The refinement mapping is `Slot` in `FilePublication`; `Phase` tells how far a
call has come.

The `MC*` modules give the constants their values. A component's theorems are in the
module named after it: `AppServerConnectionProofs`, `SessionMutationsProofs`,
`ThreadsWaitProofs`, `ThreadInterruptProofs`, `ActiveTurnGateProofs`,
`FilePublicationProofs` and `LifecycleProofs` (with the status report).

What `Lifecycle` leaves out, on purpose:

- One command runs at a time. The code takes no lock; see the plan.
- The checks before the first change are one step.
- A rejection by the Desktop probe before the first change is left out: it changes
  nothing and leaves nothing. The probe's other outcome, which launcher it verifies, is
  any launcher or none.
- A file is written as a whole or not at all, and a descriptor is published or
  removed in one step; `FilePublication` shows why that is sound for a process that is
  killed. A machine that loses power in the middle of a command is not modelled here.
- Files are present or absent; invalid files, foreign descriptors and the choice of the
  Codex home are left out.
- The answer to the active-turn question is a free choice. An update of the same release
  ends at once only when `StatusState` says healthy, as in the code; every question of
  that report is taken to get its answer.

## Runs

| Run | Bounds | What it shows |
|---|---|---|
| `connection` | one connection, a read and a mutation, 4 requests, 1 server frame | replies are matched although a timed-out request's reply can arrive under the next one and a server frame can carry any id; `outcome_unknown` is exact; every call returns |
| `mutations` | one call of any tool, 2 turns | the call implements `MutationPromise`; steer and interrupt hit only the turn they saw; every call ends |
| `wait` | 2 targets, 1 turn each, about 2 passes, any deadline | every target accounted for, no false trigger out of torn reads, a timeout hides no ready target, every call ends |
| `wait_turn_ends` | 1 target, 2 turns | *violated*: a turn that ends and is followed by another between two passes is not noticed |
| `lifecycle` | 4 commands, 2 faults, 2 changes, 2 Codexes, 2 launchers, 2 releases | resumability, agreement after success, clean uninstall, a disable that says what is so, the descriptor outliving the service, and between any two commands a status report that is true and advises a command that is accepted |
| `update_retry` | 2 commands, 1 fault, 1 change | *violated*: the retry a failed update suggests is rejected |
| `first_setup` | 1 command, 1 fault | *violated*: a failed first setup suggests `update`, which rejects it |
| `orphan_descriptor` | 3 commands, 1 fault | *violated*: `disable` succeeds and leaves a descriptor |
| `gate` | 3 threads, pages of any size, any number of listings and questions | sessions active since the final check began were approved; the gate ends or asks, it does not loop on its own |
| `files` | 2 processes, 2 documents, 3 calls, 2 steps of others, 2 faults | no torn file, durable changes, residues named, foreign descriptors untouched, and the calls implement `FileSlot` |
| `interrupt` | the thread named, the caller, which may be its subagent, another subagent; 2 turns each | the report is complete and true, one turn each is stopped, the caller's never; the call returns |
| `gate_restart` | 2 threads | *violated*: a turn that starts after the final check is interrupted unasked |

Why the bounds are enough. On a connection, four requests leave room for the handshake,
a request that times out, the one its late reply can be taken for, and one more. A call
needs four requests on its first connection and two on its second. Two turns are the
observed one and the one that replaces it. Two targets are the one that fails or is
ready and the one that is not, and two passes are the first, which is judged on its own,
and one that is compared. Four commands are an installation, a command that is cut
short, its repetition, and one that follows; two faults cut a command and then its
repetition, or cut one and let the service fail besides; two Codexes and two launchers are an old
and a new one. Three threads are one that was approved, one that comes later and one
that ends; nothing else bounds the gate, whose state space is finite. Two processes
race for the path while others change it twice, which is enough to put a foreign file
there and take it away between any two steps; the third call follows one that was
interrupted; two faults are one failure and the failure of its cleanup, or a kill and a
loss of power. A third process or more documents add no case: the proofs hold for any
number. In `interrupt` the caller and another subagent are the entry that is refused and
the one that is tried; two turns are the observed one and the one that a repeated
interrupt would wrongly end; pages show any set of subagents, again or anew. The bounds
are `CONSTANTS` named `Max...`.

Deadlock is not checked in any run: calls and commands finish, the bounds stop the
rest, and a system in which nothing is left to do is not stuck.

## Fairness

Only what the process does itself is assumed to happen: the task is polled (`CallStep`,
`Begin`, `ReadReturned`) and tokio's timers fire (`TimesOut`, `ConnectTimesOut`,
`Deadline`). Nothing is assumed of the server, the socket, other clients or the threads:
the liveness properties hold against a server that never answers. For the gate this is
fairness of `Page`, `Disclose` and `FinalCheck`: a page is answered, or `InspectionFails`
when the request fails or times out. The user may leave a question unanswered for ever. For
`thread_interrupt` it is fairness of the call as a whole (`Call`: each page is answered
or fails) and of each attempt (`Goes`: a wait ends by its answer or by its timeout);
that a page with a cursor shows something new is an assumption about the server, without
which the loop over pages has no bound. `FilePublication` and `Lifecycle` have no
fairness and no liveness property; their processes may be killed at any time.

## Findings

Five runs end in a violation of something the repository says of itself.

1. `threads_wait` promises that a target is ready when "its turn ends" (the tool text in
   `mcp/contract.rs`). `observe` compares the active turns of two passes only for
   presence, so a turn replaced by another within a pass interval goes unnoticed, and
   the call may time out.
2. `docs/architecture.md` and the README promise that a failed update shows a command to
   retry. When the update was replacing the Codex executable and fails after it wrote
   the configuration, the configuration and the manifest disagree, and `update`,
   `setup`, `enable`, `disable` and `uninstall` all refuse that state.
3. A first `setup` whose service check fails prints "Try again: codex-session-control
   update". There is no manifest yet, so update refuses.
4. `disable` and `uninstall` are documented to remove the Desktop connection file. They
   remove the one the manifest names; a setup that published for another launcher and
   was cut short before the manifest leaves one that nothing removes.
5. `docs/architecture.md` says that an update lists the active sessions that its restart
   would interrupt and asks. The last listing is made before the binary, the files, the
   registrations and the `daemon-reload`; the restart at the end does not look again, so
   sessions that became active in between are interrupted without a question.

Some properties stop short of something on purpose, and say so where they are defined.
`DescriptorOutlivesService` lets a setup that moves the Desktop attachment withdraw a
descriptor while the service runs: one of the two stays, unless the removal of the old
one fails after the file is gone, upon which the new one, if just published, is
withdrawn again. `UninstallLeavesNothing` speaks of an uninstall that reports success
and of one that says not to be run again, which may leave the binary; not of one that
was killed, which reports nothing. `StatusAdviceHolds` is about the advice to run
`enable`, `setup` or `update`; "see the logs" and "check the status again" promise
nothing that could fail. Two leave out the cases of the findings: `InterruptedMayResume`
(finding 2, and an uninstall past the removal of the manifest, which tells the user that
what is left must be removed by hand) and `Deployed`, which speaks of commands that
report success.

## Proofs

Every invariant, action property and refinement that a passing run checks is also proved,
for every value of the constants; only the five liveness properties are not. Each proof
rests on an inductive invariant, which TLC checked on the bounds of the run before it was
proved.

`AppServerConnectionProofs` proves, for every set of connections and requests and every
bound, under any caller and any behaviour of the server:

- `ConnTyping`: the type invariant. It is inductive as it stands; the lemmas
  `FailureType`, `TransportErrorFacts`, `TimeoutErrorFacts` and `ReplyAnswerFacts` give
  the types of the classifications.
- `RepliesAreOwn`: `AnswerIsOwn`. Not inductive alone: nothing in it speaks of the
  frames in flight. `OwnInv` adds that the server and the frames know only ids that were
  issued (`IdsIssued`), that whatever carries the id of the last request carries its
  method (`LastIdNamesCurrent`), and that nothing is returned before the handshake
  request is issued (`QuietUntilConnected`). The heart of the argument: issuing a
  request makes its id fresh, so a late frame cannot carry it.
- `UnknownOutcomesAreExact`: `UnknownIffUnanswered`. `DispatchInv` adds that a mutation
  being awaited is marked as possibly dispatched and that the handshake comes first.
- `FailuresAreMarked`: a mutation that returned without its result carries a dispatch
  mark. With `AnsweredOnce` and `AnsweredWhenReady` this is what the tools rely on; the
  step lemmas hold under any caller, so the modules that extend this one cite them.

They assume only `ConnectionAssumption`, which TLC checks in the `connection` run.

`SessionMutationsProofs` proves for any number of calls and turns, from
`SessionAssumption` (the requests are those of the tools, four request ids suffice):

- `SessionTyping` and `OnlyObservedTurns`: `TypeOK` and `OnlyTheObservedTurn`.
- `ToolsKeepThePromise`: the refinement of `MutationPromise` (`Promise`), initial states
  and every step. A request that the server executes is a change taking effect, a return
  is the report, everything else stutters. The two obligations that are not immediate are
  that a change happens only while it may still happen, and that a report is true of what
  happened and stays true.
- `SessionInv` is what both need. The type invariant says nothing of the requests in
  flight: `MutationsLast` says that a mutation is the last request on its connection and
  never goes over the fresh one, so that a reopened connection cannot repeat it;
  `MutationFits` that it is the one the tool makes of what it saw; `Effects` ties each
  change to its request, its reply and its answer, so that it happens at most once and has
  happened when it was answered; `ReportsHold` ties the verdict to that.

`ThreadsWaitProofs` proves for any number of targets, turns and passes, from
`WaitAssumption`:

- `WaitTyping`, `WaitAccountsForAll`, `WaitTriggersAreReal` and
  `WaitTimeoutsHideNothing`: the four invariants of the `wait` run, from `WaitInv`. A pass
  is half made at most states, so `PassAccounts` says that the targets before the one it
  is at have a snapshot or an error each, and `BaselinesWhole` that a pass that is
  compared with covered all of them and found none ready. For readiness, `RepliesTold`
  says that what a reply in flight says was true when it was sent, and `EndsSeen` that a
  turn which the last pass saw and this one misses has ended during the call, although the
  reply may have waited in the socket: replies of an earlier pass carry an earlier id.

`ActiveTurnGateProofs` proves for every set of threads, from the assumptions on paging
that are part of the model (no fact about the number of pages or listings is used):

- `GateTyping`: the type invariant, inductive as it stands.
- `GateWatches`: `WatchedWereApproved`. It speaks only of the states after the gate, so
  `GateInv` adds what a listing guarantees while it runs (`ListingWatches`: a thread
  that stays active was shown active or is still to come) and that what the final check
  compares with was approved. `PageWatches` is the argument for one page.
- `SilentUpdateSparesWatched`: an update that has no terminal to ask on interrupts no
  session that was active ever since its final check began.

`FilePublicationProofs` proves, for any processes, documents and bounds, from
`FileAssumption` (the constants are distinct, the bounds are numbers):

- `FileTyping`: types, and that every process is at a step of its call which fits its
  operation and its stage file (`StepFits`). Inductive as it stands.
- `FilesAreWhole`, `ChangesAreDurable`, `ResiduesAreNamed`: `NeverTorn`,
  `SuccessIsDurable`, `ResidueIsNamed`. `FileInv` strengthens them: a change that is
  past its sync is durable already when the call is still to return (`ChangeLasts`), and
  a stage file that a call no longer works on is named (`StageIsNamed`). `ProcessIsLocal`
  and `ProcessEffect` say what a step of one process leaves alone of the others and of
  the directory, so that each proof is about the process that moves.
- `ForeignFilesSurvive`: `ForeignSurvives`, an action property, from the types alone.
- `FilesImplementSlot`: the refinement of `FileSlot` (`Atomic`), initial states and
  every step.

`ThreadInterruptProofs` proves for any set of threads, from `InterruptAssumption` (the
call is not on its own caller) and the assumptions on paging in `Page`:

- `InterruptTyping`: the types, inductive as they stand.
- `InterruptWatches`, `InterruptTellsAll`, `InterruptStopsOneTurn`:
  `WatchedAreAnswered`, `ReportTellsAll`, `OneTurnEach`, from one invariant,
  `InterruptInv`. `AttemptAgrees` relates an attempt, its request, the server's answer
  and its result; `AttemptWasAsked` says which threads are tried; `ListingWatches` that
  the listing loses no subagent that stays in its turn; `SnapshotWatches` that the
  snapshot of such a one shows that turn. Each has a lemma with one step per action.

`LifecycleProofs` proves for any executables, launchers, releases and versions, and for
any number of commands, failures, kills and changes, from `InstallationAssumption` and
`LifecycleAssumption`:

- `LifecycleInvariant`: `LifecycleInv`, one invariant for all five commands. The
  properties of the run speak of the states between two commands; the invariant says what
  each stage leaves for the next. `OneCodex` is its heart: unit file, loaded unit and
  process are all of the executable that configuration and manifest name, unless these two
  contradict each other, which only an update in its middle or one that failed there
  leaves. `Resumes` says that what is on disk is accepted by the command that is in
  progress, and by the last one if it was cut short. `Written`, `SetupProgress`,
  `UpdateProgress` and `StopProgress` are what the stages behind a command have done;
  `InOrder` is what a stage owes to one before it (no enablement without a unit file, no
  plugin without its marketplace); `Reported` is what the last report says of the disk. A
  lemma per action shows that it keeps all of this; `SetupStagesAre` and its like turn the
  name of a stage into its place, `GoesOn`, `Completes`, `IdleAgain` and `CutShort` are
  the ways a stage ends, `DiskStays` and `ServiceStays` what it leaves alone.
- `LifecycleTyping`, `SuccessIsDeployed`, `UninstallIsComplete`,
  `InterruptionIsResumable`, `SuccessIsFaultless`, `HealthyReportIsTrue`,
  `AdviceIsAccepted`, `DisableIsProven`: the eight invariants of the `lifecycle` run. `NoProblems`,
  `NoInstalledFault` and `HealthyFacts` say what a report without problems means, and
  hold of the operators of `Status` in any state.
- `UnhealthyHasProblem`: an unhealthy report names a problem, in any state and for any set
  of unanswered questions; the run tries one at a time.
- `DescriptorsGoLast`: the action property `DescriptorOutlivesService`, with its two
  exceptions for a setup that moves to another launcher (see below).
- `WhatTheFindingsLeave`: what is true next to findings 3 and 4. The update that a failed
  setup suggests is accepted whenever there is a manifest, and a disable that reports
  success leaves no descriptor of the launcher that the manifest names.

Only model-checked: liveness (`CallsReturn`, `CallsFinish`, `WaitReturns`,
`InterruptReturns`, `GateEnds`). It needs the fairness in the specifications, and the
prover can reason about neither WF nor ENABLED. The theorems speak of the operators of
`Status` and `Installation` without any bound; the bounds on commands, faults, changes,
requests and passes are guards of the models, and no proof uses that they are finite.

## Not modelled

Parsing and validation of inputs, JSON and desktop entries; HTTP, archives and
checksums; file ownership and modes, and directories; rendering and wording; logging;
`/proc` and cgroup parsing; the wrapper, which only reads. These are pure functions or
I/O without a protocol of their own. The hand-over of an update to the downloaded
candidate is abstracted to the release it installs.

## Plan

Done: the connection, the session tools with `thread_interrupt` and its subagents,
`threads_wait`, the lifecycle commands with the status report, the active-turn gate, and
file publication. Left, in this order:

1. Two lifecycle commands at a time on a reduced `Lifecycle`.
2. Invalid files and the choice of the Codex home in `Evidence`.
3. The hand-over of an update to its candidate, with the versions of both.
4. The wrapper, as an operator over `Installation`.

Theorems worth proving next: the same properties of whatever these extensions add; that
a suggestion which names a command is accepted for every way a command can fail; and
that the descriptor stages of `Lifecycle` are what `FileSlot` promises.
