------------------------------ MODULE SelfRefine ------------------------------
(***************************************************************************)
(* One seed directory and the processes that work on it, one at a time:    *)
(* the phase loop of SelfRefine, the retries and checkpoints of Recovery,  *)
(* the archive, runtime and solution files of SessionManager, and the      *)
(* reopening of stopped work (continue_run, fork).                         *)
(*                                                                         *)
(* A process may lose its transport, be cancelled or fail permanently, or  *)
(* be killed between any two steps.  What survives a kill is what is on    *)
(* disk: archive, runtime files, solution files.  A step is atomic exactly *)
(* when it makes at most one durable change, or changes only runtime files *)
(* that the next open replaces anyway.                                     *)
(*                                                                         *)
(* The native conversation and workspace are reduced to what they must     *)
(* agree on with the progress record: how many tokens of conversation they *)
(* hold, how many notices were delivered, and whose transcripts exist.     *)
(***************************************************************************)
EXTENDS Refinement

CONSTANTS
  MaxRetries,     \* RECOVERY_MAX_RETRIES
  ExtraBudgets,   \* allowances beyond the spent tokens offered on reopening
  MaxReport,      \* bound: most tokens one usage report adds
  MaxOvershoot,   \* bound: tokens reported beyond the stopping allowance
  MaxReopened     \* bound: how often stopped work is reopened or forked

ASSUME RecoveryAssumption ==
  /\ MaxRetries \in Nat
  /\ ExtraBudgets \subseteq Nat \ {0}
  /\ MaxReport \in Nat \ {0}
  /\ MaxOvershoot \in Nat
  /\ MaxReopened \in Nat

VARIABLES
  pc,           \* where the process working on the seed is; "idle" if none
  connection,   \* the SDK connection of that process
  live,         \* its SessionState: progress, session ID, fork intent
  retries,      \* Recovery._retries
  interrupted,  \* interrupt_requested of the phase
  outcome,      \* how the last process ended: "none", "returned", "raised"
  published,    \* whether session.zip exists
  archive,      \* its SessionState and the files compressed with it
  runtime,      \* whether .runtime exists
  files,        \* the conversation and workspace in it
  exports,      \* solution files: label -> solution
  branch,       \* whether this seed is a continuation arm's fork
  reopened      \* bound: reopenings so far

vars == << pc, connection, live, retries, interrupted, outcome, published,
           archive, runtime, files, exports, branch, reopened >>

disk == << published, archive, runtime, files, exports, branch, reopened >>

NoFiles == [transcripts |-> {}, tokens |-> 0, notices |-> 0]
NoExports == [m \in {} |-> NoSolution]

NewSession ==
  [refinement |-> NewProgress, session_id |-> "none", fork_session |-> FALSE]

\* Continuation arms run with no round floor.
RoundFloor == IF branch THEN 0 ELSE MinRounds

Tokens   == live.refinement.output_tokens
TokenCap == ActiveLimit(live.refinement) + MaxOvershoot

Init ==
  /\ pc = "idle" /\ connection = "closed" /\ live = NewSession
  /\ retries = 0 /\ interrupted = FALSE /\ outcome = "none"
  /\ published = FALSE /\ archive = [saved |-> NewSession, files |-> NoFiles]
  /\ runtime = FALSE /\ files = NoFiles /\ exports = NoExports
  /\ branch = FALSE /\ reopened = 0

-----------------------------------------------------------------------------
(* Opening the seed.                                                       *)

\* A fresh seed: the lock is taken, state bound, the runtime created.
OpenNew ==
  /\ pc = "idle" /\ ~published
  /\ ~runtime /\ DOMAIN exports = {}
  /\ live' = NewSession /\ runtime' = TRUE /\ files' = NoFiles
  /\ retries' = 0 /\ outcome' = "none" /\ pc' = "create"
  /\ UNCHANGED << connection, interrupted, published, archive, exports,
                  branch, reopened >>

\* Runtime or solution files without an archive: open raises.
OpenRefused ==
  /\ pc = "idle" /\ ~published
  /\ runtime \/ DOMAIN exports # {}
  /\ outcome' = "raised"
  /\ UNCHANGED << pc, connection, live, retries, interrupted, disk >>

\* The first checkpoint; a new record has no solution files to write.
PublishNew ==
  /\ pc = "create"
  /\ published' = TRUE /\ archive' = [saved |-> live, files |-> files]
  /\ pc' = "connect"
  /\ UNCHANGED << connection, live, retries, interrupted, outcome, runtime,
                  files, exports, branch, reopened >>

\* Replace the runtime files by those of the archive, whatever was left there.
RestoreRuntime == runtime' = TRUE /\ files' = archive.files

\* Load the archive; finished and exhausted work needs no runtime files.
OpenSaved ==
  /\ pc = "idle" /\ published
  /\ live' = archive.saved
  /\ IF archive.saved.refinement.status \in {"finished", "exhausted"}
     THEN UNCHANGED << runtime, files >>
     ELSE RestoreRuntime
  /\ retries' = 0 /\ outcome' = "none" /\ pc' = "restored"
  /\ UNCHANGED << connection, interrupted, published, archive, exports,
                  branch, reopened >>

-----------------------------------------------------------------------------
(* Solution files, one atomic write each, in label order.                  *)

Unwritten(s) ==
  {m \in DOMAIN s.solution_checkpoints :
     m \notin DOMAIN exports \/ exports[m] # s.solution_checkpoints[m]}

\* Fault: solutions are exported ahead of the archive.
WriteSolutionEarly ==
  /\ pc \in {"restored", "rolled_back", "write", "saved", "continued", "forked"}
  /\ \E m \in Unwritten(live.refinement) :
       exports' = [j \in DOMAIN exports \cup {m} |->
                     IF j = m
                     THEN live.refinement.solution_checkpoints[m]
                     ELSE exports[j]]
  /\ UNCHANGED << pc, connection, live, retries, interrupted, outcome,
                  published, archive, runtime, files, branch, reopened >>

WriteSolution ==
  /\ pc \in {"restored", "rolled_back", "saved", "continued", "forked"}
  /\ \E m \in Unwritten(live.refinement) :
       /\ \A j \in Unwritten(live.refinement) : m <= j
       /\ exports' = [j \in DOMAIN exports \cup {m} |->
                        IF j = m
                        THEN live.refinement.solution_checkpoints[m]
                        ELSE exports[j]]
  /\ UNCHANGED << pc, connection, live, retries, interrupted, outcome,
                  published, archive, runtime, files, branch, reopened >>

\* Running work goes on to connect; stopped work is returned at once.
GoOn ==
  IF live.refinement.status = "running"
  THEN pc' = "connect" /\ UNCHANGED outcome
  ELSE pc' = "closing" /\ outcome' = "returned"

\* Fault: opening does not repair the solution files.
RestoreWithoutExports ==
  /\ pc = "restored"
  /\ GoOn
  /\ UNCHANGED << connection, live, retries, interrupted, disk >>

RestoreDone ==
  /\ pc = "restored" /\ Unwritten(live.refinement) = {}
  /\ GoOn
  /\ UNCHANGED << connection, live, retries, interrupted, disk >>

-----------------------------------------------------------------------------
(* The connection and one phase.                                           *)

\* Fault: a forked session is resumed under its source's session ID.
ConnectForgetsFork ==
  /\ pc = "connect"
  /\ live.session_id # "none" => live.session_id \in files.transcripts
  /\ connection' = "open" /\ pc' = "begin"
  /\ live' = [live EXCEPT
       !.session_id = IF @ = "none" THEN "own" ELSE @,
       !.fork_session = FALSE]
  /\ UNCHANGED << retries, interrupted, outcome, disk >>

\* Resume the saved transcript, or take a new session ID when there is none
\* or the saved one belongs to the seed this one was forked from.
Connect ==
  /\ pc = "connect"
  /\ live.session_id # "none" => live.session_id \in files.transcripts
  /\ connection' = "open" /\ pc' = "begin"
  /\ live' = [live EXCEPT
       !.session_id = IF @ = "none" \/ live.fork_session THEN "own" ELSE @,
       !.fork_session = FALSE]
  /\ UNCHANGED << retries, interrupted, outcome, disk >>

\* Notices that this much progress adds to the conversation.
Notices(s) == IF NeedsWarning(s) THEN 1 ELSE 0

\* A notice already due is queued ahead of the instruction; the phase makes
\* the transcript exist.  No work starts on a spent allowance.
BeginPhase ==
  /\ pc = "begin" /\ BudgetStatus(live.refinement) = "running"
  /\ LET s == [live.refinement EXCEPT !.status = "running"]
     IN  /\ live' = [live EXCEPT !.refinement = WarnIfNeeded(s)]
         /\ files' = [files EXCEPT
              !.transcripts = @ \cup {live.session_id},
              !.notices = @ + Notices(s)]
  /\ interrupted' = FALSE /\ pc' = "phase"
  /\ UNCHANGED << connection, retries, outcome, published, archive, runtime,
                  exports, branch, reopened >>

\* A usage report: count it, freeze crossed labels, ask for one interrupt at
\* the allowance, and queue the notice if it is due.
Usage(n) ==
  /\ pc = "phase" /\ Tokens + n <= TokenCap
  /\ LET s == UpdateTokenUsage(live.refinement, Tokens + n)
     IN  /\ live' = [live EXCEPT !.refinement = WarnIfNeeded(s)]
         /\ files' = [files EXCEPT !.tokens = @ + n,
                                   !.notices = @ + Notices(s)]
         /\ interrupted' = (interrupted \/ BudgetStatus(s) # "running")
  /\ UNCHANGED << pc, connection, retries, outcome, published, archive,
                  runtime, exports, branch, reopened >>

\* The reply that ends the phase, completed or cut off.  It is kept and
\* settled, or the phase must be rolled back to the last checkpoint.
EndPhase(kind, n, noGaps) ==
  /\ pc = "phase" /\ Tokens + n <= TokenCap
  /\ kind = "interrupted" => interrupted
  /\ Tokens + n > archive.saved.refinement.output_tokens
  /\ files' = [files EXCEPT !.tokens = @ + n]
  /\ LET s == UpdateTokenUsage(live.refinement, Tokens + n)
     IN  IF MustRollBack(s, kind)
         THEN /\ live' = [live EXCEPT !.refinement = s]
              /\ pc' = "rollback"
         ELSE /\ live' = [live EXCEPT !.refinement =
                   Settle(ResolvePhaseOutcome(s, kind, noGaps, RoundFloor))]
              /\ pc' = "save"
  /\ interrupted' = FALSE
  /\ UNCHANGED << connection, retries, outcome, published, archive, runtime,
                  exports, branch, reopened >>

-----------------------------------------------------------------------------
(* Rolling a prefix back to its last checkpoint and pausing it.            *)

\* restore(): close, then replace progress and runtime files by the archive's.
RollBack ==
  /\ pc = "rollback"
  /\ connection' = "closed" /\ pc' = "rolled_back"
  /\ live' = archive.saved /\ RestoreRuntime
  /\ UNCHANGED << retries, interrupted, outcome, published, archive, exports,
                  branch, reopened >>

PausePrefix ==
  /\ pc = "rolled_back" /\ Unwritten(live.refinement) = {}
  /\ live' = [live EXCEPT !.refinement = Settle([@ EXCEPT !.status = "paused"])]
  /\ pc' = "save"
  /\ UNCHANGED << connection, retries, interrupted, outcome, disk >>

-----------------------------------------------------------------------------
(* Checkpointing: close, replace the archive, write solutions, go on.      *)

CloseForSave ==
  /\ pc = "save" /\ Valid(live.refinement)
  /\ connection' = "closed" /\ pc' = "write"
  /\ UNCHANGED << live, retries, interrupted, outcome, disk >>

WriteArchive ==
  /\ pc = "write"
  /\ live.session_id # "none" => live.session_id \in files.transcripts
  /\ archive' = [saved |-> live, files |-> files]
  /\ pc' = "saved"
  /\ UNCHANGED << connection, live, retries, interrupted, outcome, published,
                  runtime, files, exports, branch, reopened >>

SaveDone ==
  /\ pc = "saved" /\ Unwritten(live.refinement) = {}
  /\ retries' = 0
  /\ GoOn
  /\ UNCHANGED << connection, live, interrupted, disk >>

-----------------------------------------------------------------------------
(* Failures: transport loss is retried from the archive a bounded number   *)
(* of times; anything else, and cancellation, ends the run.                *)

\* Connecting, the notice and instruction, the stream, an interrupt, or the
\* close before a save or a rollback fails with a connection error.
LoseTransport ==
  /\ pc \in {"connect", "begin", "phase", "rollback", "save"}
  /\ connection' = "closed" /\ interrupted' = FALSE /\ pc' = "retry"
  /\ UNCHANGED << live, retries, outcome, disk >>

\* Fault: retries are not counted.
RetryUncounted ==
  /\ pc = "retry" /\ retries < MaxRetries
  /\ live' = archive.saved /\ RestoreRuntime
  /\ pc' = "restored"
  /\ UNCHANGED << connection, retries, interrupted, outcome, published,
                  archive, exports, branch, reopened >>

\* Fault: a retry restores progress but not the runtime files.
RetryKeepsFiles ==
  /\ pc = "retry" /\ retries < MaxRetries
  /\ retries' = retries + 1
  /\ live' = archive.saved
  /\ pc' = "restored"
  /\ UNCHANGED << connection, interrupted, outcome, published, archive,
                  runtime, files, exports, branch, reopened >>

RetryFromArchive ==
  /\ pc = "retry" /\ retries < MaxRetries
  /\ retries' = retries + 1
  /\ live' = archive.saved /\ RestoreRuntime
  /\ pc' = "restored"
  /\ UNCHANGED << connection, interrupted, outcome, published, archive,
                  exports, branch, reopened >>

GiveUp ==
  /\ pc = "retry" /\ retries >= MaxRetries
  /\ pc' = "closing" /\ outcome' = "raised"
  /\ UNCHANGED << connection, live, retries, interrupted, disk >>

\* Cancellation, a provider limit, a storage or protocol error.
Abort ==
  /\ pc \notin {"idle", "closing", "forked"}
  /\ connection' = "closed" /\ interrupted' = FALSE
  /\ pc' = "closing" /\ outcome' = "raised"
  /\ UNCHANGED << live, retries, disk >>

\* SessionManager.close: drop the runtime and release the seed.
CloseSession ==
  /\ pc = "closing"
  /\ runtime' = FALSE /\ files' = NoFiles
  /\ live' = NewSession /\ retries' = 0
  /\ pc' = "idle"
  /\ UNCHANGED << connection, interrupted, outcome, published, archive,
                  exports, branch, reopened >>

\* The process is killed: the lock and memory go, the disk stays.
Crash ==
  /\ pc # "idle"
  /\ pc' = "idle" /\ connection' = "closed"
  /\ live' = NewSession /\ retries' = 0 /\ interrupted' = FALSE
  /\ outcome' = "none"
  /\ UNCHANGED disk

-----------------------------------------------------------------------------
(* Reopening stopped work.                                                 *)

\* continue_run on an opened seed, up to its save: progress reopened, runtime
\* restored whatever the status was.
ContinueRun(extra) ==
  /\ pc = "restored" /\ Unwritten(live.refinement) = {}
  /\ reopened < MaxReopened
  /\ MayContinue(live.refinement, Tokens + extra)
  /\ live' = [live EXCEPT !.refinement = ContinueState(@, Tokens + extra)]
  /\ RestoreRuntime /\ pc' = "continue"
  /\ UNCHANGED << connection, retries, interrupted, outcome, published,
                  archive, exports, branch, reopened >>

CommitContinuation ==
  /\ pc = "continue"
  /\ live.session_id # "none" => live.session_id \in files.transcripts
  /\ archive' = [saved |-> live, files |-> files]
  /\ reopened' = reopened + 1
  /\ pc' = "continued"
  /\ UNCHANGED << connection, live, retries, interrupted, outcome, published,
                  runtime, files, exports, branch >>

ContinueDone ==
  /\ pc = "continued" /\ Unwritten(live.refinement) = {}
  /\ outcome' = "returned" /\ pc' = "closing"
  /\ UNCHANGED << connection, live, retries, interrupted, disk >>

\* What fork publishes: the source's archive with its progress reopened at a
\* continuation phase and the intent to fork its conversation, if it has one.
Forked(extra) ==
  [ saved |->
      [ refinement   |-> [ContinueState(live.refinement, Tokens + extra)
                            EXCEPT !.phase = "continue"],
        session_id   |-> IF live.session_id = "none" THEN "none" ELSE "source",
        fork_session |-> live.session_id # "none" ],
    files |->
      [archive.files EXCEPT
         !.transcripts = IF @ = {} THEN {} ELSE {"source"}] ]

\* fork on an opened, stopped seed.  From here on the model follows the fork:
\* a fresh directory that holds the copied archive and nothing else.
Fork(extra) ==
  /\ pc = "restored" /\ Unwritten(live.refinement) = {}
  /\ reopened < MaxReopened
  /\ MayContinue(live.refinement, Tokens + extra)
  /\ archive' = Forked(extra) /\ live' = Forked(extra).saved
  /\ runtime' = FALSE /\ files' = NoFiles /\ exports' = NoExports
  /\ branch' = TRUE /\ reopened' = reopened + 1 /\ pc' = "forked"
  /\ UNCHANGED << connection, retries, interrupted, outcome, published >>

ForkDone ==
  /\ pc = "forked" /\ Unwritten(live.refinement) = {}
  /\ pc' = "idle" /\ live' = NewSession
  /\ UNCHANGED << connection, retries, interrupted, outcome, disk >>
-----------------------------------------------------------------------------
(* The specification.                                                      *)

Kinds == {"completed", "interrupted"}

\* What the process does by itself, given that every turn of the SDK ends.
Progress ==
  \/ PublishNew \/ WriteSolution \/ RestoreDone
  \/ Connect \/ BeginPhase
  \/ \E kind \in Kinds, n \in 0 .. MaxReport, noGaps \in BOOLEAN :
       EndPhase(kind, n, noGaps)
  \/ RollBack \/ PausePrefix
  \/ CloseForSave \/ WriteArchive \/ SaveDone
  \/ RetryFromArchive \/ GiveUp \/ CloseSession
  \/ CommitContinuation \/ ContinueDone \/ ForkDone

\* What an operator, the SDK or the machine may do.
Environment ==
  \/ OpenNew \/ OpenRefused \/ OpenSaved
  \/ \E n \in 1 .. MaxReport : Usage(n)
  \/ LoseTransport \/ Abort \/ Crash
  \/ \E extra \in ExtraBudgets : ContinueRun(extra) \/ Fork(extra)

Next == Progress \/ Environment

Spec == Init /\ [][Next]_vars

FairSpec == Spec /\ WF_vars(Progress)

-----------------------------------------------------------------------------
(* Types and safety.                                                       *)

ProgramCounters ==
  {"idle", "create", "restored", "connect", "begin", "phase", "rollback",
   "rolled_back", "save", "write", "saved", "retry", "closing", "continue",
   "continued", "forked"}

IsSession(session) ==
  /\ session \in [ refinement   : {session.refinement},
                   session_id   : {"none", "own", "source"},
                   fork_session : BOOLEAN ]
  /\ IsProgress(session.refinement)

TranscriptSets == SUBSET {"own", "source"}

FileStates ==
  [transcripts : TranscriptSets, tokens : Nat, notices : Nat]

\* Every variable has its type.
TypeOK ==
  /\ pc \in ProgramCounters
  /\ connection \in {"open", "closed"}
  /\ IsSession(live)
  /\ retries \in 0 .. MaxRetries
  /\ interrupted \in BOOLEAN
  /\ outcome \in {"none", "returned", "raised"}
  /\ published \in BOOLEAN /\ runtime \in BOOLEAN /\ branch \in BOOLEAN
  /\ archive \in [saved : {archive.saved}, files : FileStates]
  /\ IsSession(archive.saved)
  /\ files \in FileStates
  /\ exports \in [DOMAIN exports -> Nat]
  /\ reopened \in Nat

Saved == archive.saved.refinement

\* Progress, conversation and workspace are saved and rolled back together
\* (session_manager.py restore: "Roll back runtime files and accounting to
\* the last durable phase boundary"): an archive holds exactly the tokens it
\* accounts for, a notice it remembers sending, and its own transcript.
ArchiveConsistent ==
  published =>
    /\ archive.files.tokens = Saved.output_tokens
    /\ Saved.warning_sent => archive.files.notices > 0
    /\ archive.saved.session_id # "none" =>
         archive.saved.session_id \in archive.files.transcripts

\* One notice per allowance: a retried or rolled back phase takes its notice
\* and the memory of it away together, so the saved conversation never holds
\* a second one for the same allowance.
NoticeOncePerAllowance ==
  published => archive.files.notices <= 1 + reopened

\* A branch forks the source's conversation exactly until its first own
\* checkpoint: no crash or retry in between loses the intent, and none can
\* make a branch append to the source's session ID or fork its own.
ForkIntentSurvives ==
  published =>
    (archive.saved.fork_session <=> archive.saved.session_id = "source")

\* Whatever is resumed as running has tokens left to spend (connect rejects a
\* spent allowance), and every archive passes RefinementState.validate.
ResumableHasAllowance ==
  published =>
    /\ Valid(Saved)
    /\ Saved.status = "running" => BudgetStatus(Saved) = "running"

\* A prefix keeps no work beyond its pause, whatever the SDK overshoots, and
\* never exhausts the advertised budget it cannot reach.
PrefixStaysWithinPause ==
  published /\ Saved.pause_at_tokens # NoPause =>
    /\ Saved.output_tokens <= Saved.pause_at_tokens
    /\ Saved.status # "exhausted"

\* Every label of stopped work is frozen: audit_launcher.py refuses completed
\* work with a missing one.
StoppedHasEveryLabel ==
  published /\ Saved.status # "running" =>
    DOMAIN Saved.solution_checkpoints = 1 .. Saved.checkpoint_count

\* No solution file shows what the archive does not: files are regenerated
\* "from authoritative checkpoint state" (session_manager.py _write_solutions).
ExportsFollowArchive ==
  \A m \in DOMAIN exports :
    /\ published /\ m \in DOMAIN Saved.solution_checkpoints
    /\ exports[m] = Saved.solution_checkpoints[m]

\* A run that returned leaves a solution file for every frozen label.
ReturnedExportsComplete ==
  pc = "idle" /\ outcome = "returned" =>
    exports = Saved.solution_checkpoints

\* The archive is only written while no SDK process can write the runtime
\* ("Close the connection before storage operations").
SavesWhileClosed ==
  pc \in {"write", "saved", "continue", "closing", "idle"} =>
    connection = "closed"

-----------------------------------------------------------------------------
(* What no step may do, and what must happen.                              *)

\* A label once saved keeps its solution for good, through retries, crashes,
\* continuations and forks.
LabelsFrozen == [][Extends(Saved', Saved)]_vars

\* Every started process ends: transport losses cannot be retried forever,
\* since the allowance is renewed only by a checkpoint that spent tokens.
RunEnds == pc # "idle" ~> pc = "idle"

\* The archive changes as the abstract run of DurableRun does: crashes,
\* retries and rollbacks are invisible in it.
Durable == INSTANCE DurableRun WITH
  exists <- published, progress <- archive.saved.refinement, fork <- branch

ImplementsDurableRun == Durable!DurableSpec

-----------------------------------------------------------------------------
(* Why the safety properties hold, control point by control point: the     *)
(* inductive invariant of the proofs.                                      *)

\* An SDK process runs only while a phase is under way or just ended.
ConnectionOwned ==
  connection = "open" => pc \in {"begin", "phase", "rollback", "save"}

\* Before the first archive there is nothing to lose and nothing exported.
NothingBeforePublish ==
  /\ ~published =>
       /\ pc \in {"idle", "create", "closing"}
       /\ archive.saved = NewSession /\ DOMAIN exports = {}
  /\ pc = "create" => ~published /\ live = NewSession /\ files = NoFiles

\* Right after a restore, rollback or save, memory is what the archive says.
LiveIsSaved ==
  pc \in {"restored", "rolled_back", "saved", "continued", "forked"} =>
    live = archive.saved

\* Elsewhere memory is ahead of the archive, but never without its labels.
LiveExtendsSaved ==
  pc \in {"connect", "begin", "phase", "save", "write", "continue"} =>
    Extends(live.refinement, Saved)

\* Where a phase may run or a checkpoint be taken.
AtWork ==
  \/ pc \in {"connect", "begin", "phase", "save", "write", "rolled_back",
             "saved", "continue"}
  \/ pc = "restored" /\ live.refinement.status = "running"

\* There, the runtime files hold what memory accounts for.
FilesMatchLive ==
  AtWork => /\ files.tokens = Tokens
            /\ live.refinement.warning_sent => files.notices > 0

\* So do the files in the archive, and its transcript is among them.
ArchiveMatches ==
  /\ archive.files.tokens = Saved.output_tokens
  /\ Saved.warning_sent => archive.files.notices > 0
  /\ archive.saved.session_id # "none" =>
       archive.saved.session_id \in archive.files.transcripts

\* The intent to fork goes with the source's session ID, in memory and on disk.
IntentWithSource ==
  /\ live.fork_session <=> live.session_id = "source"
  /\ archive.saved.fork_session <=> archive.saved.session_id = "source"
  /\ pc = "begin" => live.session_id # "none"

Coherent ==
  /\ ConnectionOwned /\ NothingBeforePublish
  /\ LiveIsSaved /\ LiveExtendsSaved /\ FilesMatchLive
  /\ ArchiveMatches /\ IntentWithSource /\ ExportsFollowArchive

IInv == TypeOK /\ Coherent

-----------------------------------------------------------------------------
(* Why the archive moves as DurableRun does: how the record in memory      *)
(* follows from the saved one, again control point by control point.       *)

\* Every reopening adds one label at most, or there was none: then no label
\* is ever stranded beyond the allowance.
OneBlock == \A extra \in ExtraBudgets : extra <= Block
Unstranded == OneBlock \/ reopened = 0

RecordsSound ==
  /\ Valid(live.refinement) /\ Valid(Saved) /\ Affordable(Saved)
  /\ pc \in {"connect", "begin"} =>
       live.refinement = Saved /\ Saved.status = "running"
  /\ pc = "phase" =>
       /\ InPhase(Saved, live.refinement)
       /\ interrupted => BudgetStatus(live.refinement) # "running"
  /\ pc \in {"save", "write"} =>
       \/ Durable!Advances(Saved, live.refinement, RoundFloor)
       \/ Durable!HaltsAtPause(Saved, live.refinement)
  /\ pc = "continue" =>
       /\ MayContinue(Saved, live.refinement.budget_tokens)
       /\ \E extra \in ExtraBudgets :
            live.refinement = ContinueState(Saved, Saved.output_tokens + extra)
  /\ pc \in {"rollback", "rolled_back"} =>
       Saved.status = "running" /\ Saved.pause_at_tokens # NoPause

LabelsSound ==
  Unstranded =>
    /\ Ordered(Saved) /\ Durable!Owed(Saved) \subseteq DOMAIN Saved.solution_checkpoints
    /\ pc \in {"save", "write"} => Durable!FreezesLatest(Saved, live.refinement)

\* One notice per allowance, counted.
Warned(s) == IF s.warning_sent THEN 1 ELSE 0

NoticesCounted ==
  /\ archive.files.notices <= reopened + Warned(Saved)
  /\ AtWork => files.notices <= reopened + Warned(live.refinement)
                                + (IF pc = "continue" THEN 1 ELSE 0)

\* Who returns has written every solution file.
ReturnsExported ==
  outcome = "returned" =>
    pc \in {"closing", "idle"} /\ published /\ Unwritten(Saved) = {}

HInv == RecordsSound /\ LabelsSound /\ NoticesCounted /\ ReturnsExported
=============================================================================
