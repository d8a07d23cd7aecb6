# Verification of DE-Framework

TLA+ modules, TLC configurations and TLAPS proofs about DE-Framework: solver
attempts, which are long conversations with a model that are metered in output
tokens, checkpointed at phase boundaries, resumed after failures, paused, forked
and continued; their credentials, containers and gateways; the audits that judge
them; and the statistical frameworks fitted to what the audits say.

Source paths below are relative to the repository root.

## 1. The system

A *launcher* on the host schedules *attempts* (one per problem and seed). An
attempt owns a *seed directory*. A *sandbox* runs a container for it; in the
container a *worker* composes `SessionManager` (files), `ConnectionManager` and
`AgentSession` (the SDK conversation), `Recovery` (retries) and `SelfRefine`
(solve, critique, revise). Model requests go through a host-side *proxy* that
takes its credentials from a *pool* shared by the batch. Finished attempts are
judged by the *audit*, whose verdicts the *frameworks* fit curves to. Requests to
one of the providers go through *gateways*, a container for each subscription,
which an operator or the setup script prepares.

| Component | State | Operations | Interacts with | Hard behaviour |
| --- | --- | --- | --- | --- |
| `self_refine.SelfRefine` | `RefinementState`: tokens, phase, rounds, clean streak, notice flag, solution per label, status | usage report, terminal reply, notice, capture of labels | asks `Recovery` for the session, checkpoints and rollback | token boundaries met exactly or overshot; interrupts racing completion; prefix rollback |
| `self_refine.Recovery` | retry counter, current session | run, checkpoint, restore, connect, close | `SessionManager`, `ConnectionManager` | transport loss at any await, errors while closing, retry of half-done phases |
| `session.SessionManager` | `SessionState`; on disk `session.zip`, `.runtime`, `solution_k.md` | open, checkpoint, restore, continue_run, fork, close | files, `RunLock` | kill between two durable writes; exports behind the archive; stranded directories |
| `session.RunLock` | an flock | enter, exit | launchers, sandbox, audit, frameworks | contention, release by process death |
| `session.ConnectionManager` | status, client, reader task, message queue | connect, close, query, interrupt, receive, stderr callback | SDK process | reader, consumer and shutdown interleave; late callbacks of an old client |
| `session.AgentSession`, `TokenUsage` | pending message, response parts, confirmed and partial usage | run, queue, interrupt, dispatch | `ConnectionManager` | notice queued mid-phase, replayed messages, usage reported twice |
| `proxy.CredentialPool`, `Proxy` | cooldown per credential, rotation index, current credential of each run | acquire, mark, disable, forward, recover | all runs of a batch | stale limit reports, waiting for a credential that is disabled |
| `sandbox.Sandbox`, `Docker` | container of a run | create, start, remove, remove abandoned | Docker, proxy, lock | cancellation during creation, containers left by a killed launcher |
| `launcher.*Launcher` | pending attempts, counts; the shared prefix | prepare, run attempts, wait for prefix, fork | sandbox, lock, session files | concurrent consumers, two arms sharing one prefix |
| `audit.*` | verdict files, compiled table | prepare, judge stages, publish, compile | sandbox, worker | crash between verdict and file, shared verdicts |
| `codex.Gateway`, `codex.auth` | per account a volume with credentials and a named container; the tag of an image | build, add, start, check, stop | Docker; other commands at the same time | cleanup by name, interruption half-way through a creation, two imports into one volume |
| `scripts.Setup` | problem files, endpoints in `.env` | run | `Gateway`, downloads | two setups at a time, a command and a setup |
| `frameworks.*` | observations, priors, parameters; `fit.json`, `predictions.jsonl` | load, fit, predict, save | audit results, `RunLock` | branches and divisions at boundaries, two-file replacement, runs at the same time |

What makes each correct, in a line: an archive is one consistent cut of
accounting, conversation and workspace; a label's solution never changes once
saved and is the last one completed within its budget; a prefix keeps nothing
beyond its pause; a run ends; a fork never touches its source; a credential
that is out is not used and nobody waits for it; at most one container writes a
seed; each attempt and each verdict is produced once; credentials and gateways belong to
one account and are never half-made or replaced; an estimate is a probability that
follows from the model it is named for, and what is saved belongs together.

## 2. Modules

| Module | Models | Proofs |
| --- | --- | --- |
| `Refinement` | the progress record and every accounting rule of `self_refine.py`, `models.py` and `_continue_state`, as operators | lemmas in `SelfRefineProofs` |
| `SelfRefine` | one seed directory and the processes that work on it: `SelfRefine` loop, `Recovery`, `SessionManager` | `SelfRefineProofs` |
| `DurableRun` | the abstract promise: what the saved progress of a seed may do, with no processes, failures or files | refined by `SelfRefine`: `SelfRefineProofs` |
| `MCSelfRefine` | two statements of the repository the code does not keep | |
| `Credentials` | the credential pool of a batch, the proxy of each run and the sandbox loop that restarts workers | `CredentialsProofs` |
| `ContinuedWork` | the abstract promise: what the archives of a prefix and of its arms may do | refined by `Continuation`: `ContinuationProofs` |
| `Continuation` | launchers, seed locks, containers and the daemon's late commands, for the arms of one seed and their prefix | `ContinuationProofs` |
| `AgentSession` | one phase after another as a solver is metered: the SDK's messages, `AgentSession` with its `TokenUsage`, and the loop that consumes their events | `AgentSessionProofs` |
| `MeteredPhase` | the abstract promise: what the phase loop counts on of a phase | refined by `AgentSession`: `AgentSessionProofs` |
| `SupervisedRun` | the abstract promise: what `Recovery` counts on of its connections | refined by `Connection`: `ConnectionProofs` |
| `Connection` | `ConnectionManager`: client, reader task, queue, shutdown, and cancellation of the owner | `ConnectionProofs` |
| `JudgedTexts` | the abstract promise: what the verdicts of an experiment may do | refined by `Audit`: `AuditProofs` |
| `Audit` | audits of one experiment: launchers with their consumers, seed locks, the record of each seed, judges in their containers, and the compiled export | `AuditProofs` |
| `MCAudit` | seeds and texts of the TLC instance of `Audit` | |
| `AccountSlots` | the abstract promise: what the logins, gateways and reports of account slots may do | refined by `Gateway`: `GatewayProofs` |
| `Gateway` | the commands of `codex.main` and the setup script, the volumes and containers of the account slots, and what Docker does of what it is asked | `GatewayProofs` |
| `MCGateway` | the hosts that the commands of the TLC instance find | |
| `Estimators` | the four estimators as operators in exact fractions: SG, DE, R-SG, R-DE | |
| `Frameworks` | runs that load observations, fit and predict with `Estimators`, and save, while audits are compiled | `FrameworksProofs` |
| `MCFrameworks` | compiled audits and priors of the TLC instance | |

The systems meet at narrow places, and at each the abstract specification of one is
what another relies on. `SelfRefine` sees one worker at a time because of what
`Continuation` proves (`OneWriter`); `Continuation` sees of a worker only that it
replaces the archive phase by phase from its own memory and stops, which is what
`DurableRun` says of it. `Credentials` sees a worker only as something that makes
requests and exits for a reason, and `Continuation` the credential loop only as
another container for the same seed. `SelfRefine` assumes of a phase what
`MeteredPhase` says: usage that never goes back, one terminal event, a cost of at
least one token when it completes, no cut before the limit was reported; and, what no
abstract specification can promise without fairness, that it ends (`RunEnds` of
`AgentSession`). `AgentSession` assumes of its transport what `SupervisedRun` says: the
messages of this connection in order, then one reason for its end. `Audit` sees of a
solver only that its archive is missing, running or stopped, and that stopped work has
every label (`StoppedHasEveryLabel`) and does not change (`ContinuedWork`); of a
sandbox that it replaces what an earlier launcher left in its directory, which is
`OneWriter` of `Continuation` with the directory of a stage for the seed. `Frameworks`
sees of the audit that what is compiled only grows, which is what `JudgedTexts` says:
verdicts are given once, and for good. Of `RunLock` it sees that it does not wait and
goes with its holder. `Gateway` shares nothing with the others but Docker: a proxy sees a
gateway as one more provider. They are checked apart because a product of them would
add states and no interaction.

### Refinement

The record `s` has the fields of `RefinementState`. Three abstractions:

* The problem text is dropped. A solution is the number of output tokens the
  attempt had spent when the phase that wrote it ended. That identifies it
  (a completed reply costs at least one token, which `EndPhase` has as a guard
  because `_has_fresh_result` of `AgentSession` requires it) and orders solutions by age, which is what
  "the last complete solution within the budget" needs.
* `None` is `0` for `pause_at_tokens` and for a missing solution.
* The verdict line of a critique is the Boolean `noGaps`.

`Crossed` replaces the counting loop of `_capture_solution_checkpoints`: the
loop walks open labels in order and breaks at the first boundary beyond the
tokens spent, so it freezes the labels all of whose open predecessors are
within them.

### SelfRefine

`pc` is where the process is, named for what it does next:

    idle -> create -> connect -> begin -> phase -> save -> write -> saved -+
      |                 ^                   |                             |
      +-> restored -----+<------------------|-----------------------------+
             ^  |                           +-> rollback -> rolled_back -> save
    retry ---+  +-> continue -> continued -> closing -> idle
                +-> forked -> idle

`live` is the `SessionState` in memory, `archive` what `session.zip` holds (its
record and the files compressed with it), `files` the conversation and
workspace in `.runtime`, `exports` the `solution_k.md` files. `files` is reduced
to what must agree with the record: tokens of conversation, notices delivered,
and whose transcripts exist (`own`, or `source` in a fork).

A step is atomic exactly when it makes one durable change. So a save is
`CloseForSave`, `WriteArchive`, one `WriteSolution` per file and `SaveDone`, with
`Crash` possible between any two; replacing `.runtime` is one step because every
open that uses it replaces it again first. `atomic_write` is modelled as atomic:
it writes a temporary file, syncs and renames.

`LoseTransport` is the `except (ConnectionError, TimeoutError)` of
`Recovery.run`, possible at every await that reaches the SDK; `Abort` is every
other exception and cancellation; `Crash` is the kill of the process. `OpenNew`,
`OpenSaved`, `OpenRefused` and `ContinueRun`, `Fork` are what a launcher or an
operator starts. After `Fork` the model follows the fork: its directory is
fresh, so the source does not change any more.

The `status != RUNNING` branch at the head of the loop in `_run_phases` never
runs, because a phase is only entered with allowance left; `BeginPhase` has that
as its guard, for the reason `ResumableHasAllowance` states (in no run: were it
false, a run would stay at `begin` and `RunEnds` would fail).

### DurableRun

`Create`, `CommitPhase`, `Pause` and `Reopen` on the saved record alone. A phase
is committed whole and costs tokens; it writes one solution, or adds one
critique, or is dropped because the budget was reached; each label it newly
freezes holds the latest solution finished within that label's boundary. The
statuses say why they were reached. The three ways for progress to move are
operators on an old and a new record (`Advances`, `HaltsAtPause`, `Reopens`), so
that `SelfRefine` can say of the record in memory by which of them it follows from
the saved one. `SelfRefine` implements `DurableRun` under the mapping
`exists <- published`, `progress <- archive.saved.refinement`, `fork <- branch`:
crashes, retries, rollbacks and the order of file writes are stuttering.

### Credentials

`pool` is `CredentialPool`, `provider[r]` the `_provider` of the proxy of run `r`,
`requests[r]` what that proxy forwards, `seen[r]` the failures the worker has
been told of, and `pc[r]` where the loop of `Sandbox._run_with_credentials` is.
`spent` belongs to the providers: the credentials that are out of money.

The pool has no lock. Everything runs on one event loop, so a step is the code
between two awaits, and what is read before an await (the credential of a
request) is a field of the request. `requests` is a set of records, so two
requests of one run at the same stage, for the same credential and worker, are
one: the proxy does the same for both.

Time is relative. `cooling` and `sleep` are the ticks that are left, `Tick`
takes one from each, and `0` stands for any time that is past. `N` is the
`None` of `_provider` before the first acquisition and after the last.
`WorkerExits` chooses a reason the worker may have: a failure it was told of, an
error of its own, or success; `Spend`, resets and answers are the provider's.

Authentication of the run token and the request policy change nothing that is
shared; a rejected request ends like a dropped one.

### Continuation

A launcher is a host process with one attempt at a time; several of them, and
the several attempts of one process, are the same thing to the locks, because
`flock` also excludes two descriptors of one process. `owner` is the flock of
each seed, `archive` what its `session.zip` says, `base` a history variable: the
prefix an arm was forked from. `pc[p]` names the next step, `target[p]` the seed
whose sandbox runs:

    idle -> ready -> await_prefix -> inspect -+-------> open -> fork -> close -+
              |                               v          ^                     |
              |        +---------> list -> remove_old -> create -> creating    |
              |        |                                   ^         |         |
              +--------+<--------------------------------- | ------- | --------+
                                                           |         v
         idle <- completed <- remove_done <- attached <----|----- start
                                  remove_retry <-+---------+

`_run_attempt` of the arm and of the prefix are the same steps with another
`target`. Every `await` between them can raise, be cancelled, or be the last
thing the process does (`HostFails`, `CreateFails`, `Interrupt`, `RemoveFails`,
`Kill`). A Docker client asks and the daemon does: `daemon` holds the creates
and starts it has not carried out, which it may do after the client is gone, or
never (`Lose`). `docker rm --force` that returns success has removed the
container.

The container's worker opens the archive, publishes phase after phase from its
own `memory` and exits. A second worker on the same seed would publish from an
older memory, which `ContinuedWork` excludes.

What an abandoned directory holds is part of `archive`: `torn` is a seed whose
`.runtime` exists and whose first archive does not.

`ContinuedWork` is what is left without launchers: `work` is `archive` where
something is saved and absent elsewhere, `base` is itself. Three steps change it:
the first archive that a worker publishes is `BeginPrefix`, `Fork` is `ForkArm`, and
every later archive of a worker is `SavePhase`. A torn directory, locks, attempts,
containers and kills are stuttering.

### AgentSession

`stream` is what the SDK has written and `AgentSession` has not taken; the SDK may
be any number of messages ahead. `responses` is what the provider really made:
each response has a lane (the solver, `Main`, or a helper it started), tokens, and
the text envelopes sent for it. The messages report it as the SDK's protocol
allows: counts that come early, late or not at all, blocks one by one, texts and
starts of earlier phases once more (`ReplayStart`, `ReplayEnvelope`), results that
quote no text, name no usage, fail, or belong to a turn without a response. The
sequences the tests of `tests/session` play are among them. An input is its
number, and its echo names it. The SDK reads an input either as a turn of its own
or into the turn in progress.

`ledger` is the `TokenUsage` of the run; `sealed` is `completed_message_ids`, which
the run shares with the archive. `saved` is the checkpoint, to which `Restore`
goes back. One step takes one message and yields what it yields; if that is a
usage event, `React` (the body of the loop in `_run_phase`) comes before the next
message, and `rest` says where the generator goes on: after an ordinary message,
or in the second half of `_resolve_turn_result`. `spent` is
`state.output_tokens`. The history variables `billed`, `exact`, `dropped` and
`answer` are read by no action.

`interrupt()` is a flag here: its round trip is in `Connection`.

`MeteredPhase` is what is left without the SDK: `kept` is the `spent` of the
checkpoint, and `state` says whether a phase is ready, open, or how it ended.
Messages that are taken without a usage event, and everything the SDK and the
provider do, are stuttering.

### Connection

Owner and reader are two tasks of one event loop. `pc` is the await the owner is
at:

    idle -> connecting -> receiving <-> interrupting
     ^          |             |              |
     |          +-------------+--------------+
     |                        v
     |                  disconnecting -> reaping | reaped -+-> ended
     +---------------------------------------------------- +-> waiting -> idle

`close` runs `disconnect`, which returns when the SDK's output is drained, then
cancels the reader if it still runs and waits for it (`reaping`). `failure` is the
exception under way, by its kind: `transport` is what `Recovery` retries. The
reader puts messages into the queue and, on the way out, its error and an end
marker. `SpendLine` is the stderr callback, which writes into the queue from the
side. `pipe` is the SDK's output, of limited size: when it is full the process
blocks, which is why it must be drained while the owner waits for an answer.
Queue items carry the connection they come from as a history variable.

`Cancel` is SIGTERM at whatever await the owner is at; `CancelUnheard` is the
same at the one await where the code does not hear it.

stderr that arrives after `disconnect` has returned is not modelled: whether the
SDK calls back then is a matter of its implementation.

`SupervisedRun` is what is left without tasks: `stage` is `pc` with the awaits of one
talk joined (connecting, receiving and interrupting are *talking*; disconnecting,
reaping and reaped are *hanging up*), `outcome` is `failure`, `line` is `client`, and
`inbox` is the queue. The reader, the pipe, the acknowledgement of an interrupt and
the steps of a shutdown are stuttering.

### Audit

One launcher is one process with its own judge model. `pc[p]` is where
`AuditLauncher.run` is, with `at[p]` the seed its loop has reached:

    idle -> prepare -> setup -> run -> compile -> collect -> done
               |                          ^
               +------ (nothing to do) ---+

While it is at `run`, its tasks draw from one list (`attempts[p]`); which task has
which seed makes no difference, so they are told apart by the seed (`job[p][s]`)
and limited in number (`MaxConcurrency`). `job[p][s].memory` is the record that
`AuditRunner.run` read when it had the lock, and writes back whole. `owner[s]` is
the flock of a seed, `record[s]` its `audit.json`, `worker[t]` the container in the
directory of stage `t` (a seed, a checkpoint and a kind of audit), `compiler` the
flock of the experiment, `export` the rows of `audit.jsonl`.

What a judge says is not modelled. A verdict names instead what it must agree
with: the text it is about, its kind, the judge it is attributed to (`by` is the
launcher whose judge gave it; `judge` is whose name `AuditRunner.run` puts beside
it). A judge that a killed launcher left behind works on under its own name until
a sandbox replaces it.

`Prepare` of a seed is one step, because nothing between lock and unlock awaits.
The lock of a seed is released before `run`, so `Take` finds the world as it is
then. `StartStage` and `Publish` are the two ends of `Sandbox.run`: removal of
what was abandoned with the new container, and removal of the container with the
reading of its verdict and the replacement of `audit.json`. Between them the
launcher only awaits. A worker that does not end well leaves no verdict that
anyone reads, since the next one removes `result.json` first; leftovers in
`.audit` are therefore not modelled.

Every mishap counts against one bound (`MaxFaults`): a failed preparation, a lost
connection, an invalid verdict, a limit, a failure on the host, of Docker or of
the export, a kill or a cancellation. A launcher that stops may have removed any
subset of its containers: none when it is killed, all when it is cancelled and
every removal succeeds.

The experiment's lock is waited for without a timeout, which is a guard of
`BeginCompile`. Records are read seed by seed without their locks, while other
launchers may write them.

`JudgedTexts` is what is left without launchers: `verdict` is the records at the
checkpoints that have a solution (`Shown`), and judges are called by the launchers they
are attributed to. Its one step is a publication with the reuse that follows.

### Gateway

A command is a process with a `plan`: the tasks that are left to it, the current one
first (`build`, `volume` and the import that follows, `identify` and `pin` and
`inspect` for a start, `find` for a stop, `dataset` and `save` of the setup). `pc` is
the call to Docker, or to the host, that it makes next, so a step is one call with
what the code does until the next:

    start:  identify* -> pin -> (inspect -> create -> copy -> launch -> poll)*
                                    |         |        |                ^
                                    |         +--------+--> cleanup     |
                                    +-- exists already -----------------+
    add:    volume -> import -> link          stop:  (find -> stop)*
    setup:  dataset [-> publish], build, add*, start, save*

`memory` is what the command knows: the identities it read, the image it pinned, and
the accounts that answered it. `container[a]` is the container with the account's
name: who made it, the key of its configuration (`None` until that was copied in), its
image, and whether it runs; `Foreign` has the name and not the label. `volume[a]` holds
a subscription's credentials, nothing, or a truncated file.

Nothing keeps two commands apart, so every call is modelled by what Docker does with
it in the state it finds: `create` is refused when the name is taken, `rm` (without
`--force`) when the container runs, `start` when it is gone. `os.link` refuses a name
that exists. `_create_account` runs under `finish_before_cancelling`: `HoldSignal` is
the first interruption, which waits for the end of the creation; a second one
(`CancelCreate`, `CancelCopy`, `CancelCleanup`) cancels what is under way, at once or
by way of the cleanup. `abandoned`, a history variable, has the accounts for which a
kill, a second interruption or a refused removal left a half-made gateway.

`CutImport` is an import whose client dies while it sends the login: the helper takes
the end of its input for the end of the content, and links what it has.

Ports, the restart policy and the text of the configuration are left out; `Key` is
the key a command has. `Increasing` stands for the order in which the setup sorts
accounts, and spares the model the orders of a stop, whose accounts do not meet.

`AccountSlots` is what is left without commands: `login` is `volume`, `file` is
`dataset`, `reported[p]` the accounts that `memory[p]` has as ready, and `gateway` the
containers as `docker inspect` would show them to an account (`Seen`): nobody's, a
stranger's, or the slot's, without saying which command made it. What a command plans,
reads, asks in vain or fails at is stuttering.

### Estimators and Frameworks

`Estimators` has one operator per formula of the code, in fractions in lowest terms
(`Gcd` and the arithmetic are functions and folds). Where the code takes logarithms of
gamma and beta functions, the model has their exponentials: rising factorials, which
are exact for priors with whole-number shapes. `RDESuccess` averages
`ConditionalSuccess` over the hidden number `h` of short failures after discovery with
the weights `CaseWeight`, and `ExpectedSuccessPower` sums over ordered selections of
paths, as `regularized_discovery_execution.py` does.

`Frameworks` has the steps that a run shares with others: it reads one export, then the
next (`ReadShort`, `ReadOracle`), fits and predicts in memory (`Fit`, one step for each
of the four frameworks, in the code's order) or is refused (`Refuse`, the `ValueError`
of R-DE, which ends the run), and saves dataset by dataset: `Claim` is
the lock, which is not waited for, with the staging of both files; `ReplaceFit` and
`ReplacePredictions` are the two `os.replace`. `BreakOff` is any failure, interruption
or kill. A file stands for the parameters it was computed from. The optimiser of a
prior is a nondeterministic choice of shapes (`Priors`): what is shown holds for
whatever it returns, and says nothing of whether it converges.

The rollback in `BaseRegularized.fit` is not modelled: `FrameworkRunner` makes the
frameworks anew for every run, and a failed fit ends it.

## 3. Hazards and properties

`PROJECT.json` lists every hazard at its line. The properties, by what they
guard against:

* **Torn state.** `ArchiveConsistent`: tokens, notice and transcript of an
  archive match its record; a retry or rollback that restored only part of them
  breaks it. `SavesWhileClosed` (proved, in no run): nothing is archived, restored
  or released under a live SDK process.
* **Exports.** `ExportsFollowArchive`: never ahead of, or different from, the
  archive, whatever is killed. `ReturnedExportsComplete`: a run that returned has
  written all of them, also after a kill between archive and files.
* **Accounting.** `LabelsFrozen` (proved, in no run): no step loses or changes a
  saved label.
  `StoppedHasEveryLabel`: stopped work has them all. `PrefixStaysWithinPause`.
  `ImplementsDurableRun` covers the exact values, and that work is resumed only
  with tokens left.
* **At most once.** `NoticeOncePerAllowance`. `ForkIntentSurvives`: the intent
  to fork is neither lost nor repeated when a branch crashes before its first
  own checkpoint.
* **Progress.** `RunEnds`: every process ends, although the retry allowance is
  renewed at each checkpoint.
* **Late reports.** `OnlySpentDisabled`: a report of a request that began under
  another credential never disables one that has money. `CredentialInv` (proved, in no run)
  has the reason: a worker's exit is held against the credential it was about.
  `CooldownsOnlyExtend` (proved, in no run): reports out of order never shorten a cooldown nor
  revive a disabled credential.
* **Waiting for credentials.** `NobodyOversleeps`: no run sleeps on when a
  credential is back, or when none will be. `NoFalseExhaustion`: a run gives up
  only when every credential is out of money. `WaitersAreServed` is the liveness of
  the same.
* **Charging.** `NeverOvercharged`: repeated and growing reports charge each
  message once. `ExactWhenSaved`: a saved phase is charged what its results name.
  `UsageGrows` (proved, in no run): what the loop is told never goes back.
  `ImplementsMeteredPhase` says all of what the loop in `SelfRefine` counts on.
* **Whose answer.** `AllInputsAnswered`: a phase completes only when the SDK has
  read all that was queued for it, the late notice too. `AnswerIsFresh`: its text
  is the last response of the solver in that phase, not of a helper, of an
  earlier phase, or one block of several. `RunEnds` of `AgentSession`: no input
  is waited for twice.
* **Reader and queue.** `ReceiveIsAnswered`: nobody sleeps on a queue that nobody
  fills. `OwnMessages` (proved, in no run): no message or error of an earlier connection.
  `ImplementsSupervisedRun` covers it, and that messages are taken in order, that the
  end of a talk decides what follows, and that no failure of a shutdown changes it.
  `CallsReturn`: neither an interrupt nor a close needs the consumer to take
  messages. `NothingLeftBehind` (proved, in no run): no task, client or status
  outlives its connection.
  `CancellationIsKept`: no later error hides a cancellation.
* **Two writers.** `OneWriter`, with `OwnershipInv` (proved) as the reason; `ProgressKept`
  (proved, in no run): saved work never goes back, and stopped work never changes.
  `ImplementsContinuedWork` covers it, and that work goes on phase by phase from what
  is saved.
* **Shared prefix.** `ArmsSharePrefix`: every arm starts from the same stopped
  prefix, which nothing changes afterwards. `LaunchEnds`: waiting for the prefix
  while holding the arm is no deadlock. `CompletedHasStopped` (proved, in no run):
  what is counted as completed has stopped.
* **Verdicts.** `ImplementsJudgedTexts`: each text of a seed is judged in its turn and
  once in each stage. It covers three properties that are proved and in no run:
  `RecordsAreConsistent` (checkpoints with one text never differ in a verdict,
  wherever an audit was broken off), `VerdictsKept` (no retry, other judge or other
  launcher replaces one) and `VerdictsWereGiven` (each is about the text it is saved for
  and by the judge it names, whatever abandoned judges do). `OneJudge`: no
  seed is judged twice at a time, and nothing that has a verdict is judged.
* **Batches.** `AllAccounted`: every seed of a batch is counted once.
  `ReportedIsExported`: a batch that reports every seed completed finds all their
  verdicts in the export, whoever compiles at the same time. `BatchEnds`: no launch
  waits for ever, although the locks' holders may be killed.
* **Gateways.** `GatewaysKept`: names are all Docker is given, and still a container is
  removed only by the command that is creating it, never while it runs, and configured
  only by that command, once. It may run by then: see the remarks in section 4.
  `CancellationIsClean`: one interruption, or a copy that fails, leaves no gateway
  without configuration. `ReadyAreDistinct`: what a start reports ready serves
  different subscriptions, whole credentials, and goes on to. `PublishedKept`
  (proved, in no run): credentials and problem files are published once.
  `ImplementsAccountSlots` covers it, and the life of a gateway: only what is new is
  configured or taken away, and what is reported ready runs with its key at that moment.
  `CommandsEnd`: nobody waits for ever for a gateway that another command stopped.
* **Estimates.** `EstimatesAreSound`: SG, DE and R-SG accept every problem that the
  loader passes on, and R-DE refuses a selection exactly when none of its oracle runs
  completed in the first block, or all did; predictions are probabilities and grow with arms and blocks; SG is the
  counted share of samples with a success, and DE reproduces the short rate that it is
  fitted to, also at the boundary, where it lies between the two measurements.
  `PredictionsFollowBayes`: a regularised prediction is the ratio of two likelihoods,
  so that prediction and fit are of one model. For R-SG that is stated at every depth;
  for R-DE at depth 1, which is what its likelihood of short runs speaks of, and deeper
  predictions are held by the comparison with independent arms. `PairsAgree`: predictions lie beside the
  parameters they were made of.

## 4. Runs

| Run | Shows | Bounds |
| --- | --- | --- |
| `fresh` | ordinary attempt, reopened once | `Block 2`, `Budget 7` (not a multiple: the last label takes the allowance), `WarningTokens 2`, 2 rounds and 2 clean critiques to converge, one retry, reports of up to 3 tokens, 2 of overshoot |
| `prefix` | shared prefix, rollback, one-block branch; every process ends | the same with `Budget 8`, `PauseAt 6` |
| `blocks` | finding: missing final label | as `fresh`, with extra allowances of one and two blocks |
| `stranded` | finding: seed refused for ever | as `fresh` |
| `shared` | two runs, two credentials, announced resets shorter and longer than the default; waiting ends | `N 2`, `Cooldown 1`, `MaxReset 2`, one request at a time per proxy |
| `arms` | launchers, locks and containers, with kills at every step; `ContinuedWork` is implemented; no launcher is stuck | two launchers, two arms, 3 containers, 2 phases, one launch each |
| `session` | charging, matching of inputs, rollback, solver and helper interleaved; `MeteredPhase` is implemented; every phase ends | two lanes, limit 4, notice at 2, 2 responses of up to 2 tokens, one buffered message, 2 phases, one retry |
| `lifecycle` | connections, safety and liveness; `SupervisedRun` is implemented | pipe of one message, 2 messages, 2 phases, one retry |
| `sigterm` | finding: a cancellation that is lost | the same |
| `batches` | audits: judges, export, counts; `JudgedTexts` is implemented; every launch ends | two launchers with two tasks each, seeds with the texts `A, none, A` and `B`, one retry, two mishaps, one launch each |
| `slots` | gateways: concurrent commands, failures, interruptions; `AccountSlots` is implemented; every command ends | two commands, two slots, two subscriptions, 2 keys, 2 images, six hosts to begin with, 16 units of work (a setup of two slots and a command for one, or two starts) |
| `results` | what is fitted and saved; soundness of the estimators | two runs, two datasets, 2 short runs and 2 oracle runs with every outcome, budget 2, one prior |

Why these bounds are enough: a report may jump over a label, land on its
boundary, or stop short of it, and two labels can be crossed at once
(`MaxReport > Block`); converging takes two critiques, so an attempt finishes
early, exactly at, or beyond each kind of boundary; one retry already
distinguishes the first loss, a loss after a renewed allowance and giving up;
one reopening gives each label set a before and an after. `MaxReport`,
`MaxOvershoot` and `MaxReopened` are bounds of the model only; the proofs hold
for all their values.

For credentials: two is the least number for which rotation, the last one and
the last but one differ; with two runs, the credential of a request, of a run's last
worker and of its next one can all differ in time. A cooldown of one tick with
resets of up to two has reports that extend, repeat and would shorten it.
For launchers: two are enough for any conflict over a lock; three containers
give the abandoned one, the prefix's and the arm's, or a retry; with two phases an
archive has a later and an earlier running state and a stopped one. Each launcher
starts once, so an arm is launched again by the other.
`MaxContainers` is met by cancelling the run, which the code may do at any time.

For a session: two responses are an earlier and a later one in one turn, in two
turns, or in two phases; two tokens give a count that grows; a buffered message lets
the SDK be ahead of an interrupt and of the notice, whose echoes and results pass in
any order. Two connections and one
retry have a before and an after of each kind. A pipe of one message is full as
soon as anything is in it.

For audits: the first seed has a text that returns after a checkpoint without a
solution, so verdicts are reused and not only from the checkpoint before; the
second gives the two tasks of a launcher something to do at once, and the two
launchers something to disagree about. Two mishaps are a kill and one more: a kill
leaves a judge, and whoever replaces it can fail, be limited, or be killed too. A
seed is audited again by the other launcher. The run visits some 280,000 states.

For gateways: two commands meet in every pair of calls; two slots have an identity
twice or once; the hosts have a fresh machine, both slots with one subscription, a
stranger's container, gateways of another key or an older image, and an import that
was given up. A task counts one unit and its command three more, so the bound admits a
whole setup beside a start, stop or import, and not two setups of two slots.

For frameworks: every table of outcomes of one problem is an initial state, next to a
complete one that the prior is shared with; two runs meet while the audits are compiled
once. A budget of two has a later block and a power above one, which is where paths,
powers and shares differ. TLC counts in 32 bits, which bounds the products.

Deadlock is not checked: an idle seed may rest for ever,
and one that is reopened `MaxReopened` times stays stopped.

**Fairness.** `FairSpec` has weak fairness of `Progress`, the steps the process
takes by itself. That is what an event loop that is scheduled gives, plus one
fact about the outside: a turn of the SDK ends (`PROVIDER_TIMEOUT_SECONDS` and
the stream watchdog bound it). Nothing is assumed about usage reports, failures,
cancellations, kills or operators. `FairSpec` of `Credentials` has `Tick` (time
passes) and `Wake` of each run (a task whose timeout has run out is resumed); no
worker, request or provider has to do anything. `FairSpec` of `Continuation` has
the steps of each launcher, of the daemon for each container, and of each worker:
a process that runs goes on, a daemon does or drops what it is asked, and a worker
ends (`RunEnds` of `SelfRefine` is the reason). Polling for a lock that becomes free again and again
gets it in the end, because each launcher starts only so often. A container that
fails is not owed: `CreateFails` and `Interrupt`, which stand for timeouts, get
no fairness, so nothing rests on them. `FairSpec` of `AgentSession` has the steps of
the session and of the loop, and the SDK reading an input and ending a turn; those
two are strongly fair, because the model's bounded stream disables them where the
code's stream has no bound. `FairSpec` of `Connection` has the steps of both tasks
on the event loop, the SDK acknowledging an interrupt, and the failure of a call
once the process is broken. `disconnect` needs no consumer but the reader.
`FairSpec` of `Audit` has, for each launcher, that it takes some step of its batch
or of its attempts while it can, and that some judge answers while one works (the
turn of a judge ends as a solver's does). Neither is promised for a particular
attempt or judge. No launch, mishap or solver has to happen. `FairSpec` of `Gateway`
has, for each command, that it takes some step while it can: the event loop runs,
Docker answers, and the startup timeout expires. Nothing is assumed of other commands,
failures or signals.

### Findings

1. `blocks`: `SessionManager._continue_state` counts labels from those already
   frozen, while boundaries are multiples of the block from zero. Work that
   finished before its allowance and is continued by several blocks owes a label
   whose boundary lies above its allowance; capturing stops there and the final
   label is never frozen, against the docstring of
   `_capture_solution_checkpoints`. The audit then refuses the attempt. The
   launchers only ever continue by one block, for which `prefix` and `fresh`
   show that every label is frozen; `continue_run` and `fork` accept any budget.
2. `stranded`: a kill between `create_runtime` and the first archive in
   `SessionManager.open` leaves a directory that every later `open` refuses.
   `fork` is written to avoid exactly this; `open` is not.
3. `sigterm`: `suppress(CancelledError)` around the wait for the reader also takes
   a SIGTERM that arrives in that very wait. `close` returns as if nothing had
   happened, and the run opens its next connection, against the docstring of
   `Recovery.run`. A second SIGTERM is heard. `CancellationIsKept` shows that
   every cancellation that is heard is kept.

Six remarks that are not findings of a run:

* A worker that exits for a limit is handled after its container was removed. If
  the cooldown that the proxy set has run out by then, `recover_credential`
  (`proxy.py:103`) cools the credential again although its provider limits it no
  longer. The model has this; it costs waiting only.
* When the prefix has stopped, `_prepare_fork` skips the sandbox, and with it the
  removal of abandoned containers, and lets `source.open` restore `.runtime` on
  the host. A worker that a killed launcher left behind between its last
  checkpoint and its exit may be removing the same `.runtime`. The model has this
  too. Only the archive is forked, so `ArmsSharePrefix` and `ContinuedWork`
  hold all the same; the attempt can fail, and succeeds when it is launched again.
* `_resolve_turn_result` returns before `finalize_turn_usage` when the result has no
  fresh text and an input is pending. What that result reports is lost, and output
  that was not streamed is charged to nobody, although the docstring of `run`
  promises "cumulative output usage". The history variable `dropped` marks such
  phases; `ExactWhenSaved` holds for all others.
* The same early return also leaves the observed tokens of the turn in the ledger,
  where they serve as the "positive output" that `_has_fresh_result` requires of
  the next turn: a result that only repeats an earlier phase's text is then
  accepted. Hence the `~dropped` in `AnswerIsFresh` and `NeverOvercharged`; without
  it TLC refutes both.
* A second `start` can find a gateway that another command has created and not yet
  configured, and start it (`gateway.py:103`) before its maker copies the
  configuration (`gateway.py:118`). The copy then goes into a running container. The
  model has this; the second command waits for an answer, or for its startup timeout.
* `DataLoader` asks for enough short and oracle runs, and R-DE also for an early and a
  late oracle run among them. A run over a single problem that nobody solves in the
  first block saves SG, DE and R-SG and then ends with the `ValueError` of R-DE
  (asserted for one fit by `test_unsupported_oracle_data_preserves_previous_fit`): what
  an earlier run saved of R-DE stays beside the newer files. `Refuse` is that step.

## 5. Proofs

Every theorem is proved for all values of the constants that satisfy the named
assumptions, which TLC evaluates on every run; none has another hypothesis unless
the table says so. The lemmas at the head of `SelfRefineProofs` say, for every
record of the right type, what each operator of `Refinement` returns and preserves:
types, tokens, notice flag, and that frozen labels are kept (`Extends`).

| Module and its assumptions | Theorem | States |
| --- | --- | --- |
| `SelfRefineProofs`: any allowance, block, retries and bounds (`AllowanceAssumption`, `ConvergenceAssumption`, `RecoveryAssumption`) | `Invariance` | `Spec => []IInv` |
| | `TypeCorrect` | `Spec => []TypeOK` |
| | `ArchiveIsConsistent` | `Spec => []ArchiveConsistent` |
| | `ExportsAreSound` | `Spec => []ExportsFollowArchive` |
| | `ClosedWhileSaving` | `Spec => []SavesWhileClosed` |
| | `ForkIntentIsKept` | `Spec => []ForkIntentSurvives` |
| | `LabelsStayFrozen` | `Spec => LabelsFrozen` |
| | `HistoryInvariance` | `Spec => [](IInv /\ HInv)` |
| | `NoticesAreLimited` | `Spec => []NoticeOncePerAllowance` |
| | `ReturnedWorkIsExported` | `Spec => []ReturnedExportsComplete` |
| | `PrefixesStayWithinPause` | `Spec => []PrefixStaysWithinPause` |
| | `RunningHasAllowance` | `Spec => []ResumableHasAllowance` |
| | `UnstrandedStopsWithEveryLabel` | `Spec => [](Unstranded => StoppedHasEveryLabel)` |
| | `StopsWithEveryLabel` | `Spec => []StoppedHasEveryLabel`, if `OneBlock` |
| | `UnstrandedRefinesDurableRun` | `Spec /\ []Unstranded => ImplementsDurableRun` |
| | `RefinesDurableRun` | `Spec => ImplementsDurableRun`, if `OneBlock` |
| `CredentialsProofs`: any credentials, runs, requests, cooldown and resets (`PoolAssumption`, `BoundAssumption`) | `CredentialInvariance` | `Spec => []CredentialInv` |
| | `DisabledAreSpent` | `Spec => []OnlySpentDisabled` |
| | `SleepIsSound` | `Spec => []NobodyOversleeps` |
| | `ExhaustionIsReal` | `Spec => []NoFalseExhaustion` |
| | `CooldownsExtend` | `Spec => CooldownsOnlyExtend` |
| `ContinuationProofs`: any launchers, arms, containers, phases and launches (`SeedAssumption`, `OwnerAssumption`, `BoundAssumption`) | `OwnershipInvariance` | `Spec => []OwnershipInv` |
| | `WritersAreExclusive` | `Spec => []OneWriter` |
| | `KeptInvariance` | `Spec => [](OwnershipInv /\ KeptInv)` |
| | `ProgressIsKept` | `Spec => ProgressKept` |
| | `ArmsShareOnePrefix` | `Spec => []ArmsSharePrefix` |
| | `CompletedIsStopped` | `Spec => []CompletedHasStopped` |
| | `RefinesContinuedWork` | `Spec => ImplementsContinuedWork` |
| `AgentSessionProofs`: any lanes, allowance, notice and bounds (`LaneAssumption`, `LimitAssumption`, `BoundAssumption`) | `EveryInputIsAnswered` | `Spec => []AllInputsAnswered` |
| | `ChargeInvariance` | `Spec => [](InputInv /\ ChargeInv)` |
| | `PhasesAreNotOvercharged` | `Spec => []NeverOvercharged` |
| | `SavedChargeIsExact` | `Spec => []ExactWhenSaved` |
| | `CompletedTextIsFresh` | `Spec => []AnswerIsFresh` |
| | `UsageNeverShrinks` | `Spec => UsageGrows` |
| | `RefinesMeteredPhase` | `Spec => ImplementsMeteredPhase` |
| `ConnectionProofs`: any pipe, messages, phases and retries (`SizeAssumption`) | `TypeCorrect` | `Spec => []TypeOK` |
| | `ConnectionsAreReleased` | `Spec => []NothingLeftBehind` |
| | `QueueIsOwn` | `Spec => []OwnMessages` |
| | `ConsumerIsServed` | `Spec => []ReceiveIsAnswered` |
| | `CancellationSurvives` | `Spec => []CancellationIsKept` |
| | `RefinesSupervisedRun` | `Spec => ImplementsSupervisedRun` |
| `AuditProofs`: any launchers, seeds, texts and bounds (`SolutionsAssumption`, `BoundAssumption`, `NoneAssumption`) | `Invariance` | `Spec => []AuditInv` |
| | `TypeCorrect` | `Spec => []TypeOK` |
| | `RecordsStayConsistent` | `Spec => []RecordsAreConsistent` |
| | `VerdictsBelong` | `Spec => []VerdictsWereGiven` |
| | `JudgesAreExclusive` | `Spec => []OneJudge` |
| | `VerdictsAreKept` | `Spec => VerdictsKept` |
| | `ReportInvariance` | `Spec => [](AuditInv /\ ReportInv)` |
| | `EverySeedIsAccounted` | `Spec => []AllAccounted` |
| | `ReportedSeedsAreExported` | `Spec => []ReportedIsExported` |
| | `RefinesJudgedTexts` | `Spec => ImplementsJudgedTexts` |
| `GatewayProofs`: any commands, accounts, subscriptions, keys, hosts and bounds (`ConstantsAssumption`, `HostsAssumption`) | `GatewayInvariant` | `Spec => []GatewayInv` |
| | `TypeCorrect` | `Spec => []TypeOK` |
| | `CleanCancellation` | `Spec => []CancellationIsClean` |
| | `DistinctGateways` | `Spec => []ReadyAreDistinct` |
| | `NothingPublishedIsReplaced` | `Spec => PublishedKept` |
| | `OthersContainersAreKept` | `Spec => GatewaysKept` |
| | `RefinesAccountSlots` | `Spec => ImplementsAccountSlots` |
| `FrameworksProofs`: any processes, finite datasets and seeds, thresholds, audits and priors (`ConstantsAssumption`) | `SaveInvariance` | `Spec => []SaveInv` |
| | `FilesAgree` | `Spec => []PairsAgree` |
| | `LoadedProblemsAreAccepted` | `Spec => []FitsAreAccepted` |

For `SelfRefine`: none of its theorems is inductive alone. An archive is written
from memory and runtime files, so its consistency needs that those two agree wherever a checkpoint can
be taken (`FilesMatchLive`), which after a failure holds only because both come
from the archive again (`LiveIsSaved`, `ArchiveMatches`). That labels are never
lost needs that memory is always ahead of the archive between checkpoints
(`LiveExtendsSaved`). That an export is never ahead needs that files are written
only where memory and archive are equal. `IInv` is the conjunction of these
parts by control point; TLC checked it too, and the runs check what it is for. `TypeStep` and
`CoherentStep` have one step per action.

Each of the six refinements has one lemma that sums up every step: it is one action of
the abstract specification, under the mapping, or leaves alone what the mapping names.

The refinement of `DurableRun`, and what counts over a seed's history, need more:
that the record in memory follows from the saved one. `HInv` says by which step,
at each control point: during a phase memory has only grown tokens (`InPhase`), at a
save it is one whole phase ahead (`Advances`) or the prefix halts (`HaltsAtPause`),
at a continuation it is `_continue_state` of what is saved (`RecordsSound`). Then
`WriteArchive` is `CommitPhase` or `Pause` of `DurableRun`, the write of a continued
or forked record is `Reopen`, and every other action leaves what the mapping names
alone (`DurableStep`, one step per action). `HInv` also counts the notices in the
conversation against reopenings (`NoticesCounted`), and says of whoever returned that
no solution file is missing (`ReturnsExported`).

The labels are the part that is not unconditional. `LabelsSound` says that the open
labels are in order and that whatever is owed is frozen; a continuation by more than
one block breaks it, which is finding 1. Hence `Unstranded`: every extra allowance is
one block at most (`OneBlock`, a fact about the constant `ExtraBudgets`, true of the
launchers), or nothing was reopened yet. The run `prefix` has `OneBlock`, the
run `blocks` does not.

`CredentialInv` joins those properties with two about what is in flight: requests
of the present worker go out on the present credential
(`LiveRequestsAreCurrent`), so what the worker is told, and later exits with, is
about that credential (`BlameIsDeserved`).

`OneWriter` speaks of containers that run, but a container may be started long
after its launcher died. `OwnershipInv` therefore speaks of containers that are
*alive*: that run, or have a start waiting in the daemon. No step but
`IssueStart` makes one alive (`AliveStep`). A launcher past the removal of
abandoned containers knows that whatever is alive on its seed is its own
(`AliveOnlyFor`), since it listed every container under the lock (a create that
arrives after that yields a container nobody starts: `InOrder`) and since
two launchers in their sandboxes are on different seeds (`TargetsDiffer`).

`KeptInv` adds what a single writer makes true: a worker's memory is the archive of
its seed (`MemoryFollows`), although the archive may be written by others over the
life of a container. Whoever could write it is alive, and `OneWriter` leaves only the
worker itself. Its exit with success therefore means a stopped archive
(`SuccessMeansStopped`), which the launcher relies on without reading it, and which
nobody opens for writing again.
`ContinuedWork` needs one fact more, of locks and forks together: wherever a launcher
works on an arm, and wherever a container of an arm exists, the arm has been forked
(`ArmsAreForked`). Otherwise a worker could find nothing on an arm and begin it as an
ordinary attempt. With it, a worker that begins anything begins the prefix.

`AllInputsAnswered` rests on the order of the stream: what `AgentSession` knows is
that the echo of its latest input has passed. The invariant therefore speaks of
every message on its way: a result that will be taken with nothing pending,
because nothing is now or because that echo is ahead of it, was written when all
inputs had been read (`ResultsFollowInputs`).

Charging compares two things that never meet in one state: what the provider made,
and what the ledger holds after the messages about it were taken, some of them twice.
`ChargeInv` therefore also speaks of every message on its way. What it says is true of
the response it names, and it comes before the result of that response's turn unless
the response is sealed (`Spoken`, `NotLater`); so when a result seals the turn at the
head of the stream, nothing of that turn is left to be charged to another. Counts
without an ID are those of the response their lane is at (`Owns`); responses are heard
of in the order they were made (`InOrder`), which makes the latest text the last one;
and each text is retained, on its way, or overtaken (`Texts`). With these, `Books` bounds
the ledger by the sum over the responses of the phase, and equates the two when every
result named its tokens. Sums over finite sets are a fold of the community modules. The
lemmas on them (`SumStep`, `SumJoin`, `SumGrows`) are proved from the definition of the
fold, by taking a finite set of least cardinality for which it fails.

For `MeteredPhase` the charge gives that usage grows; the rest is about where the loop is.
A completed phase cost something (`PaidFor`) because the text it completed with is fresh
only beside a positive output, and nobody interrupts before the limit was reported, which
is a conjunct of the invariant for each control point.

The theorems of `ConnectionProofs` come from one invariant. `Shape` gives
status, client and reader at each await; a reader that is done has left an end
marker, or an error, that the consumer has not taken yet (`EndIsAnnounced`); and
a cancellation that was heard is at a point from which the owner can only end
(`Heard`). `SupervisedRun` also needs that nothing has gone wrong while the owner talks,
and that no process is there while it does not (`Orderly`): what the queue holds when a
line is hung up is then all it will ever hold. `Counted` bounds phases and retries where
the run goes on.

The theorems of `AuditProofs` come from `AuditInv`. Reuse makes a record consistent
only if it is applied to the whole of it after every verdict, so a record is either
untouched or settled (`RecordsSettled`: checkpoints without a solution have their
empty verdicts); whoever is at a seed owns it and has in memory what is saved
(`JobsOwn`), so writing the memory back undoes nothing; and whatever is judged,
also by a judge nobody waits for any more, is the first stage that has no verdict
(`JudgedIsNext`). The last is why judges are exclusive: there is at most one first
stage, abandoned or not, and a launcher that goes on judges that one first. It is
also why verdicts belong: a container that reports to a launcher was started by it
(the last conjunct of `JobsOwn`). `Reuse` takes the verdict of the first checkpoint
with the same text; that there is a first is the well-foundedness of the naturals
(`MinExists`).

`JudgedTexts` follows from the same parts. A verdict that is published is for the first
stage without one (`JudgedIsNext`), which is its turn; the record it is written into is
the one on disk (`JobsOwn`); and `Reuse` on a settled record gives it to every checkpoint
with that text and changes no other. Preparing a record therefore shows nothing new.

`ReportInv` follows a launch through its seeds. Those it has passed are counted, waiting
in its list, or worked on by a task, and those are three disjoint numbers (`Tallied`);
while none was skipped or failed, all others are complete (`Worked`). When the export
begins only the count is left, so a clean launch has a complete experiment
(`ReportsAreTrue`). A compiler that runs then, or later, has collected whatever such a
launch finished with, seed by seed, because records only gain verdicts (`Collected`):
the export cannot lose a row to a compiler that began reading earlier, since the lock of
the experiment is held from the first record read to the export.

The theorems of `GatewayProofs` come from `GatewayInv`. A command inspects an
account only when it has read its identity before it pinned the image, the identities
it then has are distinct, and each is what the volume holds, since nothing published
is replaced (`Controlled`). Whoever stands at the copy or cleanup of a container
made it, and a container without its configuration has a maker (`ContainersOwned`):
the names they give to Docker still mean their own container. Of the steps that change a
container, the maker and the key decide which of `AccountSlots` they are: a container
that some command made has no key but the commands' (`NewKeys`). `NewKeys` and
`KeysBeginNew` are also why a container is configured once. A report is `Report`
because a gateway that answers runs at that moment, with the key that was checked, and
because the identities of `Controlled` are those of the volumes still.

The theorems of `FrameworksProofs` come from `SaveInv`. A run that is between its two
files holds the lock of that dataset, so no two such runs have the same one
(`SavesAreApart`), and finds its own fit there (`Stage`); the second file then agrees with
the first. That SG, DE and R-SG accept every problem needs of the loader that the runs which pass
are among those that ended, that solved runs only accumulate over the blocks, and that
`MIN_SHORT_SEEDS` is no smaller than the budget (`EnoughIsAProblem`,
`ProblemsSuitSG`). When R-DE refuses is an argument about categories: it looks for some
category after the first that has outcomes, and the theorem speaks of the first block
only. Solved runs accumulate, so there is such a category exactly when not all runs
were solved in the first block (`RisesSomewhere`, by the least block at which the count
has risen; `CategoriesOfAProblem`, `WhenRDEAccepts`). `LoadedProblemsAreAccepted` is the
first conjunct of `EstimatesAreSound`.

Only model-checked:

* Liveness, which is beyond the prover: `RunEnds` of `SelfRefine` and of
  `AgentSession`, `WaitersAreServed`, `LaunchEnds`, `CallsReturn`, `BatchEnds`,
  `CommandsEnd`.
* What the estimators compute: the rest of `EstimatesAreSound`, and
  `PredictionsFollowBayes`. They are identities between sums and products built by
  recursion over the data (`Gcd`, `Poch`, folds), for which no induction theorem can be
  instantiated here; TLC evaluates them exactly on every bounded input.

Every other property of a passing run is a theorem. `BlameIsDeserved` is a
conjunct of `CredentialInv`. The properties that section 3 calls "in no run" are
theorems too, and are implied by an abstract specification that a run checks, or are
the reason for a property that it checks.

## 6. Not modelled

* Of the estimators: the rounding of doubles and of `lgamma`, and whether the
  optimiser converges; `Estimators` computes the same formulas exactly, on
  fractions. A failed refit that restores the previous coefficients cannot be
  observed in one process, which ends with it.
* Prompts, argument parsing, dataset loading and validation, Docker images,
  firewall commands, the request schema of the proxy.
* Two `start` commands that are given different accounts with one subscription
  both succeed, as `ReadyAreDistinct` is about one start; the code compares no
  further. Gateways of several hosts. Two commands that rewrite `.env` at a time.
* The zip format, symlinks, permissions, and the identity check of
  `_validate_requested_state`: a seed is always reopened with its own problem.
* `fork(target, None)`, which only an integration check uses.
* Delays: retries wait, but nothing that is checked depends on how long.
* Prompts and schemas of the audit and how its records are worded; a record that
  cannot be read is a failed preparation.
* A directory that is edited by hand between runs.

## 7. Plan

1. Done: `Refinement`, `SelfRefine`, `DurableRun` and their proofs.
2. Done: `Credentials` and its proofs.
3. Done: `Continuation`, and the proofs that a seed has one writer, that saved work is
   kept and that arms share their prefix.
4. Done: `AgentSession`, and the proofs of what is charged, answered and returned.
5. Done: `Connection` and its safety proofs.
6. Done: `Audit`, with the preparation, scheduling and accounting of a batch, and
   its safety proofs.
7. Done: `Gateway` and its safety proofs.
8. Done: `Frameworks`, the results of the runner, with its proofs, and `Estimators`.
   Left: `launcher/` configuration: which attempts of which directories a selection
   names, and the preparation of ordinary attempts.
9. Done: the proofs of what a seed's history promises and of the refinement of
   `DurableRun`.
10. Done: `ContinuedWork`, `MeteredPhase`, `SupervisedRun`, `JudgedTexts` and
    `AccountSlots`, which `Continuation`, `AgentSession`, `Connection`, `Audit` and
    `Gateway` are proved to implement as `SelfRefine` implements `DurableRun`.
    `Credentials` has none: its invariants are as short as a specification of what it
    promises would be.
