------------------------------- MODULE Audit -------------------------------
(***************************************************************************)
(* Audits of one experiment: launchers, each with its own judge model,     *)
(* take the seeds whose solver has stopped, judge every budget checkpoint  *)
(* in two stages, and compile what is complete into one export.            *)
(*                                                                         *)
(* A launcher is a host process whose tasks share one list of attempts.    *)
(* A seed is owned through its flock, which is released when the launcher  *)
(* dies; the container that judges a stage outlives it.  What Docker does  *)
(* meanwhile is the matter of Continuation: here the sandbox of a stage    *)
(* replaces whatever container its directory has.                          *)
(***************************************************************************)
EXTENDS Naturals, Sequences, FiniteSets, FiniteSetsExt

CONSTANTS Launchers, Texts, None,
          Solutions,       \* of each seed: the text at each checkpoint, in order
          Blank,           \* the text of a checkpoint without a solution
          MaxConcurrency,  \* attempts a launcher runs at a time
          MaxRetries,      \* connections a judge may lose
          MaxFaults,       \* losses, limits, failures and kills in all (bound)
          MaxLaunches      \* launches of each launcher (bound)

ASSUME SolutionsAssumption ==
    Solutions \in Seq(Seq(Texts) \ {<<>>}) /\ Blank \in Texts
ASSUME BoundAssumption ==
    /\ MaxConcurrency \in Nat \ {0} /\ MaxRetries \in Nat
    /\ MaxFaults \in Nat /\ MaxLaunches \in Nat

VARIABLES solver,    \* what the session archive of each seed says
          owner,     \* who holds the lock of each seed
          record,    \* audit.json of each seed
          worker,    \* the container in the directory of each stage
          faults,    \* how much has gone wrong so far
          pc, at, attempts, tally, rows, launches,  \* of each launcher
          job,       \* the attempt of each launcher at each seed
          compiler,  \* who holds the lock of the experiment
          export     \* the rows of audit.jsonl

seedVars == <<solver, owner, record>>
stageVars == <<worker, faults>>
batchVars == <<pc, at, attempts, tally, launches>>
compileVars == <<rows, compiler, export>>
vars == <<seedVars, stageVars, batchVars, job, compileVars>>

Seeds == DOMAIN Solutions
Labels(s) == DOMAIN Solutions[s]
Kinds == {"correctness", "step_recognition"}
Targets == UNION {{s} \X Labels(s) \X Kinds : s \in Seeds}

Text(t) == Solutions[t[1]][t[2]]

----------------------------------------------------------------------------
(* Records                                                                 *)

(***************************************************************************)
(* A verdict: the judge it is attributed to and, which no file says, who   *)
(* gave it, on which text and about what.                                  *)
(***************************************************************************)
Verdict(text, kind, by, judge) == [text |-> text, kind |-> kind, by |-> by, judge |-> judge]

Verdicts == [text : Texts, kind : Kinds, by : Launchers \cup {None}, judge : Launchers \cup {None}]
Records(s) == [Labels(s) -> [Kinds -> Verdicts \cup {None}]]

ASSUME NoneAssumption == None \notin Launchers \cup Targets \cup Verdicts

\* EMPTY_AUDIT_RECORD: nobody judges a checkpoint without a solution.
Skipped(kind) == Verdict(Blank, kind, None, None)

NoVerdicts(s) == [i \in Labels(s) |-> [kind \in Kinds |-> None]]

\* Fault: only the previous checkpoint is looked at for the same text.
ReuseConsecutive(s, rec) ==
    [i \in Labels(s) |-> [kind \in Kinds |->
        IF Solutions[s][i] = Blank THEN Skipped(kind)
        ELSE IF i > 1 /\ rec[i][kind] = None /\ Solutions[s][i - 1] = Solutions[s][i] THEN rec[i - 1][kind]
        ELSE rec[i][kind]]]

\* _reuse_saved_verdicts: a missing verdict is the first one saved for the same
\* text, and a checkpoint without a solution needs none.
Reuse(s, rec) ==
    LET saved(i, kind) == {j \in Labels(s) : /\ Solutions[s][j] = Solutions[s][i]
                                             /\ rec[j][kind] # None}
    IN [i \in Labels(s) |-> [kind \in Kinds |->
            IF Solutions[s][i] = Blank THEN Skipped(kind)
            ELSE IF rec[i][kind] # None \/ saved(i, kind) = {} THEN rec[i][kind]
            ELSE rec[Min(saved(i, kind))][kind]]]

\* The stages of seed s that have no verdict.
Missing(s, rec) == {t \in {s} \X Labels(s) \X Kinds : rec[t[2]][t[3]] = None}

Before(t, u) == t[2] < u[2] \/ (t[2] = u[2] /\ t[3] = "correctness")

\* Fault: the missing stages are collected in a set.
AnyStage(s, rec) == Missing(s, rec)

\* The loops of run reach the missing stages in order: at most one is next.
NextStage(s, rec) == {t \in Missing(s, rec) : \A u \in Missing(s, rec) \ {t} : Before(t, u)}

\* _collect_records: the checkpoints of a seed that have both verdicts.
CompleteRows(s, rec) ==
    {<<s, i, rec[i]>> : i \in {j \in Labels(s) : \A kind \in Kinds : rec[j][kind] # None}}

----------------------------------------------------------------------------
Gone == [step |-> "gone", by |-> None, retries |-> 0]

NoJob == [step |-> "none", target |-> None, memory |-> <<>>]

NoTally == [completed |-> 0, skipped |-> 0, failed |-> 0]

Init ==
    /\ solver \in [Seeds -> {"missing", "running", "stopped"}]
    /\ owner = [s \in Seeds |-> None]
    /\ record = [s \in Seeds |-> NoVerdicts(s)]
    /\ worker = [t \in Targets |-> Gone]
    /\ faults = 0
    /\ pc = [p \in Launchers |-> "idle"]
    /\ at = [p \in Launchers |-> 1]
    /\ attempts = [p \in Launchers |-> <<>>]
    /\ tally = [p \in Launchers |-> NoTally]
    /\ rows = [p \in Launchers |-> {}]
    /\ launches = [p \in Launchers |-> 0]
    /\ job = [p \in Launchers |-> [s \in Seeds |-> NoJob]]
    /\ compiler = None
    /\ export = {}

\* Whatever may go wrong does so within the bound.
Mishap == faults < MaxFaults /\ faults' = faults + 1

\* The solver of the seed, under its lock, comes to its end.
SolverStops(s) ==
    /\ solver[s] = "running"
    /\ owner[s] = None
    /\ solver' = [solver EXCEPT ![s] = "stopped"]
    /\ UNCHANGED <<owner, record, stageVars, batchVars, job, compileVars>>

----------------------------------------------------------------------------
(* BaseLauncher.run, AuditLauncher._prepare_attempts                       *)

Goto(p, step) == pc' = [pc EXCEPT ![p] = step]

\* Fault: an attempt that another launcher has taken meanwhile is not counted.
TallyUncontended(p, outcome) ==
    tally' = IF pc[p] = "run" /\ outcome = "skipped" THEN tally ELSE [tally EXCEPT ![p][outcome] = @ + 1]

Tally(p, outcome) == tally' = [tally EXCEPT ![p][outcome] = @ + 1]

Launch(p) ==
    /\ pc[p] \in {"idle", "done"}
    /\ launches[p] < MaxLaunches
    /\ launches' = [launches EXCEPT ![p] = @ + 1]
    /\ at' = [at EXCEPT ![p] = 1]
    /\ attempts' = [attempts EXCEPT ![p] = <<>>]
    /\ tally' = [tally EXCEPT ![p] = NoTally]
    /\ Goto(p, "prepare")
    /\ UNCHANGED <<seedVars, stageVars, job, compileVars>>

Stopped(s) == owner[s] = None /\ solver[s] = "stopped"

\* Under its lock, which no await interrupts: the record of a stopped seed is
\* completed as far as no judge is needed.
PrepareSeed(p) ==
    LET s == at[p]
        prepared == Reuse(s, record[s])
    IN
    /\ pc[p] = "prepare"
    /\ s \in Seeds
    /\ at' = [at EXCEPT ![p] = @ + 1]
    /\ \/ /\ solver[s] = "missing"
          /\ Tally(p, "failed")
          /\ UNCHANGED <<record, attempts>>
       \/ /\ solver[s] # "missing"
          /\ ~Stopped(s)
          /\ Tally(p, "skipped")
          /\ UNCHANGED <<record, attempts>>
       \/ /\ Stopped(s)
          /\ record' = [record EXCEPT ![s] = prepared]
          /\ IF Missing(s, prepared) = {}
             THEN Tally(p, "skipped") /\ UNCHANGED attempts
             ELSE attempts' = [attempts EXCEPT ![p] = Append(@, s)] /\ UNCHANGED tally
    /\ UNCHANGED <<solver, owner, worker, faults, pc, launches, job, compileVars>>

\* The archive or the record cannot be read or written, or .audit not be removed.
PrepareFails(p) ==
    LET s == at[p] IN
    /\ pc[p] = "prepare"
    /\ s \in Seeds
    /\ Mishap
    /\ at' = [at EXCEPT ![p] = @ + 1]
    /\ Tally(p, "failed")
    /\ record' \in {record} \cup
          IF Stopped(s) THEN {[record EXCEPT ![s] = Reuse(s, record[s])]} ELSE {}
    /\ UNCHANGED <<solver, owner, worker, pc, attempts, launches, job, compileVars>>

\* A batch with nothing to run needs no Docker.
EndPrepare(p) ==
    /\ pc[p] = "prepare"
    /\ at[p] \notin Seeds
    /\ Goto(p, IF attempts[p] = <<>> THEN "compile" ELSE "setup")
    /\ UNCHANGED <<seedVars, stageVars, at, attempts, tally, launches, job, compileVars>>

\* docker_environment builds the images and the network.
Setup(p) ==
    /\ pc[p] = "setup"
    /\ Goto(p, "run")
    /\ UNCHANGED <<seedVars, stageVars, at, attempts, tally, launches, job, compileVars>>

AtWork(p) == {s \in Seeds : job[p][s] # NoJob}

RunIsOver(p) == pc[p] = "run" /\ attempts[p] = <<>> /\ AtWork(p) = {}

\* Every task is over: the network is removed and the export compiled.
EndRun(p) ==
    /\ RunIsOver(p)
    /\ Goto(p, "compile")
    /\ UNCHANGED <<seedVars, stageVars, at, attempts, tally, launches, job, compileVars>>

\* Fault: the lock of the experiment is a file, which a killed launcher leaves.
KeepsCompiler(p) == compiler

\* What dies with the process of p.
CompilerWithout(p) == IF compiler = p THEN None ELSE compiler

Abort(p) ==
    /\ Goto(p, "idle")
    /\ at' = [at EXCEPT ![p] = 1]
    /\ attempts' = [attempts EXCEPT ![p] = <<>>]
    /\ tally' = [tally EXCEPT ![p] = NoTally]
    /\ job' = [job EXCEPT ![p] = [s \in Seeds |-> NoJob]]
    /\ owner' = [s \in Seeds |-> IF owner[s] = p THEN None ELSE owner[s]]
    /\ rows' = [rows EXCEPT ![p] = {}]
    /\ compiler' = CompilerWithout(p)
    /\ UNCHANGED <<solver, record, launches, export>>

\* Docker or the export fails: the error is not that of an attempt.
LaunchFails(p) ==
    /\ pc[p] \in {"setup", "collect"} \/ RunIsOver(p)
    /\ Mishap
    /\ Abort(p)
    /\ UNCHANGED worker

\* The launcher is killed, or cancelled, which stops its containers.
Stop(p) ==
    /\ pc[p] \notin {"idle", "done"}
    /\ Mishap
    /\ Abort(p)
    /\ \E removed \in SUBSET {job[p][s].target : s \in AtWork(p)} :
          worker' = [t \in Targets |-> IF t \in removed THEN Gone ELSE worker[t]]

----------------------------------------------------------------------------
(* consume_attempts, AuditRunner.run                                       *)

At(p, s, step) == pc[p] = "run" /\ job[p][s].step = step

Becomes(p, s, next) == job' = [job EXCEPT ![p][s] = next]

Contended(s) == owner[s] # None

\* A task that is free takes the next attempt and locks its seed, unless another
\* launcher has it.
Take(p) ==
    LET s == Head(attempts[p])
        prepared == Reuse(s, record[s])
    IN
    /\ pc[p] = "run"
    /\ attempts[p] # <<>>
    /\ Cardinality(AtWork(p)) < MaxConcurrency
    /\ attempts' = [attempts EXCEPT ![p] = Tail(@)]
    /\ IF Contended(s)
       THEN /\ Tally(p, "skipped")
            /\ UNCHANGED <<owner, record, job>>
       ELSE /\ owner' = [owner EXCEPT ![s] = p]
            /\ record' = [record EXCEPT ![s] = prepared]
            /\ Becomes(p, s, [step |-> "stage", target |-> None, memory |-> prepared])
            /\ UNCHANGED tally
    /\ UNCHANGED <<solver, stageVars, pc, at, launches, compileVars>>

\* Fault: a container that is still there is attached to.
AdoptedWorker(p, t) ==
    IF worker[t] = Gone THEN [step |-> "judging", by |-> p, retries |-> 0] ELSE worker[t]

\* Sandbox.run: a fresh container in place of any that was abandoned.
FreshWorker(p, t) == [step |-> "judging", by |-> p, retries |-> 0]

StartWorker(p, t) == worker' = [worker EXCEPT ![t] = FreshWorker(p, t)]

StartStage(p, s) ==
    /\ At(p, s, "stage")
    /\ \E t \in NextStage(s, job[p][s].memory) :
          /\ StartWorker(p, t)
          /\ Becomes(p, s, [job[p][s] EXCEPT !.step = "judge", !.target = t])
    /\ UNCHANGED <<seedVars, faults, batchVars, compileVars>>

\* _run_with_credentials: the judge met a limit, another one is started.
RestartStage(p, s) ==
    /\ At(p, s, "judge")
    /\ worker[job[p][s].target].step = "limited"
    /\ StartWorker(p, job[p][s].target)
    /\ UNCHANGED <<seedVars, faults, batchVars, job, compileVars>>

\* The container is removed, its verdict read, attributed, reused and saved, and
\* the directory of the stage removed.
Publish(p, s) ==
    LET t == job[p][s].target
        verdict == Verdict(Text(t), t[3], worker[t].by, p)
        updated == Reuse(s, [job[p][s].memory EXCEPT ![t[2]][t[3]] = verdict])
    IN
    /\ At(p, s, "judge")
    /\ worker[t].step = "ok"
    /\ worker' = [worker EXCEPT ![t] = Gone]
    /\ record' = [record EXCEPT ![s] = updated]
    /\ Becomes(p, s, [step |-> "stage", target |-> None, memory |-> updated])
    /\ UNCHANGED <<solver, owner, faults, batchVars, compileVars>>

\* The attempt at seed s is over, its lock released and its outcome counted.
Leave(p, s, outcome) ==
    /\ owner' = [owner EXCEPT ![s] = None]
    /\ Becomes(p, s, NoJob)
    /\ Tally(p, outcome)
    /\ UNCHANGED <<solver, record, pc, at, attempts, launches, compileVars>>

\* Every stage has its verdict: .audit is removed.
FinishSeed(p, s) ==
    /\ At(p, s, "stage")
    /\ Missing(s, job[p][s].memory) = {}
    /\ Leave(p, s, "completed")
    /\ UNCHANGED stageVars

\* The worker failed: its container is removed and the error counted.
StageFails(p, s) ==
    LET t == job[p][s].target IN
    /\ At(p, s, "judge")
    /\ worker[t].step = "error"
    /\ worker' = [worker EXCEPT ![t] = Gone]
    /\ Leave(p, s, "failed")
    /\ UNCHANGED faults

\* A step on the host failed, and perhaps the removal of the container too.
HostFails(p, s) ==
    LET t == job[p][s].target IN
    /\ \E step \in {"stage", "judge"} : At(p, s, step)
    /\ Mishap
    /\ worker' \in {worker} \cup IF t # None THEN {[worker EXCEPT ![t] = Gone]} ELSE {}
    /\ Leave(p, s, "failed")

----------------------------------------------------------------------------
(* AuditCompiler.compile                                                   *)

\* Fault: the experiment is compiled without a lock.
NoCompiler(p) == TRUE

CompilerIsFree(p) == compiler = None

BeginCompile(p) ==
    /\ pc[p] = "compile"
    /\ CompilerIsFree(p)
    /\ compiler' = p
    /\ at' = [at EXCEPT ![p] = 1]
    /\ Goto(p, "collect")
    /\ UNCHANGED <<seedVars, stageVars, attempts, tally, launches, job, rows, export>>

\* The record of one more seed is read, without the lock of the seed.
CollectSeed(p) ==
    /\ pc[p] = "collect"
    /\ at[p] \in Seeds
    /\ rows' = [rows EXCEPT ![p] = @ \cup CompleteRows(at[p], record[at[p]])]
    /\ at' = [at EXCEPT ![p] = @ + 1]
    /\ UNCHANGED <<seedVars, stageVars, pc, attempts, tally, launches, job, compiler, export>>

PublishExport(p) ==
    /\ pc[p] = "collect"
    /\ at[p] \notin Seeds
    /\ export' = rows[p]
    /\ rows' = [rows EXCEPT ![p] = {}]
    /\ compiler' = None
    /\ Goto(p, "done")
    /\ UNCHANGED <<seedVars, stageVars, at, attempts, tally, launches, job>>

----------------------------------------------------------------------------
(* BaseAudit.run, in the container of stage t                              *)

WorkerAt(t, step) == worker[t].step = step

WorkerGoes(t, step) == worker' = [worker EXCEPT ![t].step = step]

WorkerUnchanged == UNCHANGED <<seedVars, batchVars, job, compileVars>>

\* A completed turn with a valid verdict, saved once the connection is closed.
Judge(t) ==
    /\ WorkerAt(t, "judging")
    /\ WorkerGoes(t, "ok")
    /\ UNCHANGED faults
    /\ WorkerUnchanged

OutOfRetries(t) == worker[t].retries = MaxRetries

\* The connection or its turn ends without a verdict: judge again, from scratch.
LoseConnection(t) ==
    /\ WorkerAt(t, "judging")
    /\ Mishap
    /\ IF OutOfRetries(t)
       THEN WorkerGoes(t, "error")
       ELSE worker' = [worker EXCEPT ![t].retries = @ + 1]
    /\ WorkerUnchanged

\* Interrupted, an invalid verdict, a full disk, the container dies, or the
\* credential meets a limit.
WorkerFails(t) ==
    /\ WorkerAt(t, "judging")
    /\ Mishap
    /\ \E step \in {"error", "limited"} : WorkerGoes(t, step)
    /\ WorkerUnchanged

----------------------------------------------------------------------------
BatchStep(p) ==
    \/ PrepareSeed(p) \/ EndPrepare(p) \/ Setup(p) \/ Take(p) \/ EndRun(p)
    \/ BeginCompile(p) \/ CollectSeed(p) \/ PublishExport(p)

AttemptStep(p, s) ==
    \/ StartStage(p, s) \/ RestartStage(p, s) \/ Publish(p, s)
    \/ FinishSeed(p, s) \/ StageFails(p, s)

Next ==
    \/ \E s \in Seeds : SolverStops(s)
    \/ \E p \in Launchers : \/ BatchStep(p)
                            \/ Launch(p) \/ PrepareFails(p) \/ LaunchFails(p) \/ Stop(p)
                            \/ \E s \in Seeds : AttemptStep(p, s) \/ HostFails(p, s)
    \/ \E t \in Targets : \/ Judge(t) \/ LoseConnection(t) \/ WorkerFails(t)

Spec == Init /\ [][Next]_vars

\* A launcher that is not disturbed takes some step of its batch or of its attempts,
\* and some judge answers: none of them is promised to be served first.
FairSpec ==
    /\ Spec
    /\ \A p \in Launchers : WF_vars(BatchStep(p) \/ \E s \in Seeds : AttemptStep(p, s))
    /\ WF_vars(\E t \in Targets : Judge(t))

----------------------------------------------------------------------------
(* Properties                                                              *)

Workers == [step : {"gone", "judging", "ok", "error", "limited"},
            by : Launchers \cup {None}, retries : 0 .. MaxRetries]

Jobs(s) == {NoJob} \cup
    [step : {"stage", "judge"}, target : Targets \cup {None}, memory : Records(s)]

SeedTypes ==
    /\ solver \in [Seeds -> {"missing", "running", "stopped"}]
    /\ owner \in [Seeds -> Launchers \cup {None}]
    /\ DOMAIN record = Seeds
    /\ \A s \in Seeds : record[s] \in Records(s)

StageTypes == worker \in [Targets -> Workers] /\ faults \in 0 .. MaxFaults

BatchTypes ==
    /\ pc \in [Launchers -> {"idle", "prepare", "setup", "run", "compile", "collect", "done"}]
    /\ at \in [Launchers -> 1 .. Len(Solutions) + 1]
    /\ attempts \in [Launchers -> Seq(Seeds)]
    /\ tally \in [Launchers -> [completed : Nat, skipped : Nat, failed : Nat]]
    /\ launches \in [Launchers -> 0 .. MaxLaunches]

JobTypes ==
    /\ DOMAIN job = Launchers
    /\ \A p \in Launchers : DOMAIN job[p] = Seeds /\ \A s \in Seeds : job[p][s] \in Jobs(s)

CompileTypes ==
    /\ compiler \in Launchers \cup {None}
    /\ DOMAIN rows = Launchers
    /\ \A p \in Launchers : \A row \in export \cup rows[p] :
          row[1] \in Seeds /\ row[2] \in Labels(row[1]) /\ row[3] \in [Kinds -> Verdicts]

TypeOK == SeedTypes /\ StageTypes /\ BatchTypes /\ JobTypes /\ CompileTypes

Consistent(s, rec) ==
    /\ \A i, j \in Labels(s) : Solutions[s][i] = Solutions[s][j] => rec[i] = rec[j]
    /\ \A i \in Labels(s) :
          rec[i]["step_recognition"] # None => rec[i]["correctness"] # None

\* Checkpoints with the same text never differ in a verdict, and no step
\* recognition is saved for a text whose correctness is not, whoever judged
\* which of them and wherever an audit was broken off.
RecordsAreConsistent == \A s \in Seeds : Consistent(s, record[s])

\* A saved verdict is kept: no retry, other judge or other launcher replaces it.
VerdictsKept ==
    [][\A s \in Seeds : \A i \in Labels(s) : \A kind \in Kinds :
          record[s][i][kind] # None => record'[s][i][kind] = record[s][i][kind]]_record

Given(s, rec) ==
    \A i \in Labels(s), kind \in Kinds :
        rec[i][kind] # None => /\ rec[i][kind].text = Solutions[s][i]
                               /\ rec[i][kind].kind = kind
                               /\ rec[i][kind].judge = rec[i][kind].by

\* A saved verdict is about the text and the stage it is saved for, and was given
\* by the judge it is attributed to, although judges of earlier launches may
\* still be at work.
VerdictsWereGiven == \A s \in Seeds : Given(s, record[s])

Judging(s) == {t \in Targets : t[1] = s /\ worker[t].step = "judging"}

\* No seed is judged twice at a time, and what is judged has no verdict yet: a
\* worker that a killed launcher left is replaced before anything else is judged.
OneJudge == \A s \in Seeds : /\ Cardinality(Judging(s)) <= 1
                             /\ Judging(s) \subseteq Missing(s, record[s])

(***************************************************************************)
(* Why: the parts of the inductive invariant.  A record is as it was, or   *)
(* nothing in it is left to reuse; whoever is at a seed owns it and holds  *)
(* what is saved; and what is judged is the first stage that is missing.   *)
(***************************************************************************)
Settled(s, rec) ==
    \A i \in Labels(s) : Solutions[s][i] = Blank => rec[i] = [kind \in Kinds |-> Skipped(kind)]

RecordsSettled == \A s \in Seeds : record[s] = NoVerdicts(s) \/ Settled(s, record[s])

JobsOwn ==
    \A p \in Launchers, s \in Seeds : job[p][s] # NoJob =>
        /\ pc[p] = "run"
        /\ owner[s] = p
        /\ job[p][s].memory = record[s]
        /\ Settled(s, record[s])
        /\ job[p][s].step = "stage" => job[p][s].target = None
        /\ job[p][s].step = "judge" =>
              /\ job[p][s].target \in NextStage(s, record[s])
              /\ worker[job[p][s].target].by = p

JudgedIsNext ==
    \A t \in Targets : worker[t].step = "judging" =>
        /\ Settled(t[1], record[t[1]])
        /\ t \in NextStage(t[1], record[t[1]])

AuditInv ==
    /\ TypeOK
    /\ RecordsAreConsistent
    /\ RecordsSettled
    /\ VerdictsWereGiven
    /\ JobsOwn
    /\ JudgedIsNext

\* A launch that ends and reports every seed completed finds all its verdicts in
\* the export, whatever others compile at the same time.
ReportedIsExported ==
    \A p \in Launchers : pc[p] = "done" /\ tally[p].completed = Len(Solutions) =>
        \A s \in Seeds : /\ Missing(s, record[s]) = {}
                         /\ CompleteRows(s, record[s]) \subseteq export

\* A launch that gets as far as the export has counted every seed exactly once.
AllAccounted ==
    \A p \in Launchers : pc[p] \in {"compile", "collect", "done"} =>
        tally[p].completed + tally[p].skipped + tally[p].failed = Len(Solutions)

\* Every launch ends, though others that it waits for may be killed.
BatchEnds == \A p \in Launchers : pc[p] \notin {"idle", "done"} ~> pc[p] \in {"idle", "done"}

----------------------------------------------------------------------------
(* Why every seed is accounted for, and what is reported is exported.      *)

Counted(p) == tally[p].completed + tally[p].skipped + tally[p].failed

\* The seeds that a launch has passed are counted, waiting or worked on.
Tallied(p) ==
    pc[p] \in {"prepare", "setup", "run"} =>
        Counted(p) + Len(attempts[p]) + Cardinality(AtWork(p)) =
            IF pc[p] = "prepare" THEN at[p] - 1 ELSE Len(Solutions)

Clean(p) == tally[p].skipped = 0 /\ tally[p].failed = 0

Complete(s) == Missing(s, record[s]) = {}

Waiting(p, s) == \E k \in DOMAIN attempts[p] : attempts[p][k] = s

\* If none was skipped or failed, whatever is behind the launch is complete.
Worked(p) ==
    pc[p] \in {"prepare", "setup", "run"} /\ Clean(p) =>
        \A s \in Seeds : \/ Complete(s) \/ Waiting(p, s) \/ s \in AtWork(p)
                         \/ pc[p] = "prepare" /\ at[p] <= s

Reports(p) == pc[p] \in {"compile", "collect", "done"} /\ Clean(p)

ReportsAreTrue == \A p \in Launchers : Reports(p) => \A s \in Seeds : Complete(s)

\* Who collects holds the lock of the experiment, and has read every complete row
\* of those who have reported before.
Collected ==
    \A q \in Launchers : pc[q] = "collect" =>
        /\ compiler = q
        /\ \A p \in Launchers : Reports(p) /\ (p = q \/ pc[p] = "done") =>
              \A s \in Seeds : s < at[q] => CompleteRows(s, record[s]) \subseteq rows[q]

Exported ==
    \A p \in Launchers : Reports(p) /\ pc[p] = "done" =>
        \A s \in Seeds : CompleteRows(s, record[s]) \subseteq export

ReportInv ==
    /\ \A p \in Launchers : Tallied(p) /\ Worked(p)
    /\ AllAccounted
    /\ ReportsAreTrue
    /\ Collected
    /\ Exported

----------------------------------------------------------------------------
(* What the verdicts look like from outside: the abstract specification.   *)

\* The verdicts at the checkpoints that have a solution.
Shown == [s \in Seeds |-> [i \in {j \in Labels(s) : Solutions[s][j] # Blank} |-> record[s][i]]]

Judged == INSTANCE JudgedTexts WITH Judges <- Launchers, verdict <- Shown

\* Whatever launchers, judges and crashes do, each text of a seed is judged in its
\* turn, once in each stage, and all its checkpoints get that verdict at once.
ImplementsJudgedTexts == Judged!JudgedSpec

=============================================================================
