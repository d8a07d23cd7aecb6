---------------------------- MODULE Continuation ----------------------------
(***************************************************************************)
(* Launchers, their sandboxes and the containers of one problem and seed:  *)
(* the arms of a continuation experiment and the prefix they share.        *)
(*                                                                         *)
(* A launcher is a host process.  It owns a seed directory through an      *)
(* flock, which is released when it dies; the containers it started and    *)
(* the commands it gave to Docker outlive it.  The worker in a container   *)
(* writes the seed and is seen here as SelfRefine shows it: it opens the   *)
(* archive, replaces it phase by phase from its own memory, and stops.     *)
(***************************************************************************)
EXTENDS Naturals, FiniteSets

CONSTANTS Launchers, Arms, Prefix, NoOne,
          MaxContainers,  \* containers that are ever created (bound)
          MaxPhases,      \* checkpoints of a seed (bound)
          MaxLaunches     \* launches of each launcher (bound)

ASSUME SeedAssumption == Prefix \notin Arms
ASSUME OwnerAssumption == NoOne \notin Launchers
ASSUME BoundAssumption == MaxContainers \in Nat /\ MaxPhases \in Nat /\ MaxLaunches \in Nat

VARIABLES owner,      \* who holds the lock of each seed
          archive,    \* what session.zip of each seed says
          base,       \* the prefix archive an arm was forked from
          pc, arm, target, listed, container, launches,  \* of each launcher
          box,        \* containers
          made,       \* how many have been named
          daemon      \* commands Docker has not carried out

launcherVars == <<pc, arm, target, listed, container, launches>>
dockerVars == <<box, made, daemon>>
vars == <<owner, archive, base, launcherVars, dockerVars>>

Seeds == Arms \cup {Prefix}
Ids == 1 .. MaxContainers

(***************************************************************************)
(* An archive is absent, or running or stopped after some phases.  `torn`  *)
(* is a seed whose .runtime was created and whose first archive was not.   *)
(***************************************************************************)
Archives == [status : {"absent", "torn", "running", "stopped"}, phases : 0 .. MaxPhases]
Absent == [status |-> "absent", phases |-> 0]
Saved(s) == archive[s].status \in {"running", "stopped"}

(***************************************************************************)
(* `state` is Docker's view of a container; `step` what its worker does    *)
(* next, `memory` the phases of the progress it holds, `code` how it ended.*)
(***************************************************************************)
Containers == [seed : Seeds,
               state : {"unborn", "created", "running", "exited", "removed"},
               step : {"open", "publish", "work", "close"},
               memory : 0 .. MaxPhases,
               code : {"ok", "credential", "error"}]

Running(s) == {i \in Ids : box[i].state = "running" /\ box[i].seed = s}

Owns(p, s) == owner[s] = p

Goto(p, step) == pc' = [pc EXCEPT ![p] = step]

Init ==
    /\ owner = [s \in Seeds |-> NoOne]
    /\ archive = [s \in Seeds |-> Absent]
    /\ base = [a \in Arms |-> Absent]
    /\ pc = [p \in Launchers |-> "idle"]
    /\ arm \in [Launchers -> Arms]
    /\ target = arm
    /\ listed = [p \in Launchers |-> {}]
    /\ container = [p \in Launchers |-> 0]
    /\ launches = [p \in Launchers |-> 0]
    /\ box = [i \in Ids |-> [seed |-> Prefix, state |-> "unborn", step |-> "open",
                             memory |-> 0, code |-> "error"]]
    /\ made = 0
    /\ daemon = {}

----------------------------------------------------------------------------
(* ContinuationLauncher                                                    *)

\* _prepare_attempts, under the lock of the arm, which no await interrupts:
\* contended and stopped arms are skipped.
Prepare(p) ==
    /\ pc[p] = "idle"
    /\ launches[p] < MaxLaunches
    /\ launches' = [launches EXCEPT ![p] = @ + 1]
    /\ IF owner[arm[p]] = NoOne /\ archive[arm[p]].status # "stopped"
       THEN Goto(p, "ready")
       ELSE UNCHANGED pc
    /\ UNCHANGED <<owner, archive, base, arm, target, listed, container, dockerVars>>

\* _run_attempt takes the lock again; meanwhile others may have run the arm.
RunAttempt(p) ==
    /\ pc[p] = "ready"
    /\ target' = [target EXCEPT ![p] = arm[p]]
    /\ IF owner[arm[p]] = NoOne
       THEN /\ owner' = [owner EXCEPT ![arm[p]] = p]
            /\ Goto(p, IF Saved(arm[p]) THEN "list" ELSE "await_prefix")
       ELSE Goto(p, "idle") /\ UNCHANGED owner
    /\ UNCHANGED <<archive, base, arm, listed, container, launches, dockerVars>>

\* _wait_for_prefix_lock: one poll that succeeds.
LockPrefix(p) ==
    /\ pc[p] = "await_prefix"
    /\ owner[Prefix] = NoOne
    /\ owner' = [owner EXCEPT ![Prefix] = p]
    /\ Goto(p, "inspect")
    /\ UNCHANGED <<archive, base, arm, target, listed, container, launches, dockerVars>>

\* _prepare_fork: run the prefix unless it has stopped.
Inspect(p) ==
    /\ pc[p] = "inspect"
    /\ target' = [target EXCEPT ![p] = Prefix]
    /\ Goto(p, IF archive[Prefix].status = "stopped" THEN "open" ELSE "list")
    /\ UNCHANGED <<owner, archive, base, arm, listed, container, launches, dockerVars>>

\* source.open restores .runtime of the prefix on the host.
OpenPrefix(p) ==
    /\ pc[p] = "open"
    /\ Saved(Prefix)
    /\ Goto(p, "fork")
    /\ UNCHANGED <<owner, archive, base, arm, target, listed, container, launches, dockerVars>>

\* source.fork publishes the archive of the arm from the stopped prefix.
Fork(p) ==
    /\ pc[p] = "fork"
    /\ archive[Prefix].status = "stopped"
    /\ archive[arm[p]] = Absent
    /\ archive' = [archive EXCEPT ![arm[p]] = [status |-> "running", phases |-> 0]]
    /\ base' = [base EXCEPT ![arm[p]] = archive[Prefix]]
    /\ Goto(p, "close")
    /\ UNCHANGED <<owner, arm, target, listed, container, launches, dockerVars>>

\* source.close removes .runtime; the prefix is free and the arm runs.
ClosePrefix(p) ==
    /\ pc[p] = "close"
    /\ owner' = [owner EXCEPT ![Prefix] = NoOne]
    /\ target' = [target EXCEPT ![p] = arm[p]]
    /\ Goto(p, "list")
    /\ UNCHANGED <<archive, base, arm, listed, container, launches, dockerVars>>

Released(p) == [s \in Seeds |-> IF owner[s] = p THEN NoOne ELSE owner[s]]

\* Fault: the lock of the prefix is not released on the error path.
LeaveArm(p, step) ==
    /\ owner' = [owner EXCEPT ![arm[p]] = IF owner[arm[p]] = p THEN NoOne ELSE @]
    /\ Goto(p, step)
    /\ target' = [target EXCEPT ![p] = arm[p]]
    /\ listed' = [listed EXCEPT ![p] = {}]
    /\ container' = [container EXCEPT ![p] = 0]

\* The attempt of p is over: every lock it held is released.
Leave(p, step) ==
    /\ owner' = Released(p)
    /\ Goto(p, step)
    /\ target' = [target EXCEPT ![p] = arm[p]]
    /\ listed' = [listed EXCEPT ![p] = {}]
    /\ container' = [container EXCEPT ![p] = 0]

\* A step raised: the attempt counts as failed.
Raise(p) ==
    /\ Leave(p, "idle")
    /\ UNCHANGED <<archive, base, arm, launches>>

HostFails(p) ==
    /\ pc[p] \in {"await_prefix", "inspect", "open", "fork", "close", "list", "remove_old", "create"}
    /\ Raise(p)
    /\ UNCHANGED dockerVars

\* The launcher is killed: its locks are released, Docker goes on.
Kill(p) ==
    /\ pc[p] # "idle"
    /\ Raise(p)
    /\ UNCHANGED dockerVars

----------------------------------------------------------------------------
(* Sandbox                                                                 *)

\* docker ps --all: every container of this directory, running or not.
Listing(s) == {i \in Ids : box[i].seed = s /\ box[i].state \in {"created", "running", "exited"}}

ListAbandoned(p) ==
    /\ pc[p] = "list"
    /\ listed' = [listed EXCEPT ![p] = Listing(target[p])]
    /\ Goto(p, "remove_old")
    /\ UNCHANGED <<owner, archive, base, arm, target, container, launches, dockerVars>>

\* rm --force of container i: its worker is killed where it stands.
Ended(i, state, code) ==
    box' = [box EXCEPT ![i] = [seed |-> box[i].seed, state |-> state, step |-> "open",
                               memory |-> 0, code |-> code]]

Removed(i) == Ended(i, "removed", "error")

RemoveAbandoned(p) ==
    /\ pc[p] = "remove_old"
    /\ \E i \in listed[p] : /\ Removed(i)
                            /\ listed' = [listed EXCEPT ![p] = @ \ {i}]
    /\ UNCHANGED <<owner, archive, base, pc, arm, target, container, launches, made, daemon>>

\* Fault: removal is best effort, and the run goes on when it fails.
AbandonedLeft(p) ==
    /\ pc[p] = "remove_old"
    /\ Goto(p, "create")
    /\ UNCHANGED <<owner, archive, base, arm, target, listed, container, launches, dockerVars>>

AbandonedGone(p) ==
    /\ pc[p] = "remove_old"
    /\ listed[p] = {}
    /\ Goto(p, "create")
    /\ UNCHANGED <<owner, archive, base, arm, target, listed, container, launches, dockerVars>>

\* docker create under a new unique name.
BeginCreate(p) ==
    /\ pc[p] = "create"
    /\ made < MaxContainers
    /\ made' = made + 1
    /\ container' = [container EXCEPT ![p] = made + 1]
    /\ box' = [box EXCEPT ![made + 1].seed = target[p]]
    /\ daemon' = daemon \cup {<<"create", made + 1>>}
    /\ Goto(p, "creating")
    /\ UNCHANGED <<owner, archive, base, arm, target, listed, launches>>

\* The bound: instead of one more container the run is cancelled.
OutOfContainers(p) ==
    /\ pc[p] = "create"
    /\ made = MaxContainers
    /\ Raise(p)
    /\ UNCHANGED dockerVars

CreateReturns(p) ==
    /\ pc[p] = "creating"
    /\ box[container[p]].state = "created"
    /\ Goto(p, "start")
    /\ UNCHANGED <<owner, archive, base, arm, target, listed, container, launches, dockerVars>>

\* The command timed out or failed; Docker may still carry it out.
CreateFails(p) ==
    /\ pc[p] = "creating"
    /\ Goto(p, "clean_up")
    /\ UNCHANGED <<owner, archive, base, arm, target, listed, container, launches, dockerVars>>

\* docker start --attach --interactive
IssueStart(p) ==
    /\ pc[p] = "start"
    /\ daemon' = daemon \cup {<<"start", container[p]>>}
    /\ Goto(p, "attached")
    /\ UNCHANGED <<owner, archive, base, arm, target, listed, container, launches, box, made>>

\* Cancelled, or the client failed: what it asked for may still happen.
Interrupt(p) ==
    /\ pc[p] \in {"start", "attached"}
    /\ Goto(p, "clean_up")
    /\ UNCHANGED <<owner, archive, base, arm, target, listed, container, launches, dockerVars>>

\* The client returns with the code of the container.
WorkerReturns(p) ==
    /\ pc[p] = "attached"
    /\ box[container[p]].state = "exited"
    /\ Goto(p, CASE box[container[p]].code = "ok" -> "remove_done"
                 [] box[container[p]].code = "credential" -> "remove_retry"
                 [] box[container[p]].code = "error" -> "clean_up")
    /\ UNCHANGED <<owner, archive, base, arm, target, listed, container, launches, dockerVars>>

\* The worker was short of a credential: remove it and start another one.
RemoveForRetry(p) ==
    /\ pc[p] = "remove_retry"
    /\ Removed(container[p])
    /\ Goto(p, "create")
    /\ UNCHANGED <<owner, archive, base, arm, target, listed, container, launches, made, daemon>>

\* The worker of the prefix is done: fork it.  The worker of the arm is done: the
\* attempt is completed and its lock released.
RemoveDone(p) ==
    /\ pc[p] = "remove_done"
    /\ Removed(container[p])
    /\ IF target[p] = Prefix
       THEN Goto(p, "open") /\ UNCHANGED <<owner, target, listed, container>>
       ELSE Leave(p, "completed")
    /\ UNCHANGED <<archive, base, arm, launches, made, daemon>>

Count(p) ==
    /\ pc[p] = "completed"
    /\ Goto(p, "idle")
    /\ UNCHANGED <<owner, archive, base, arm, target, listed, container, launches, dockerVars>>

\* The error path: remove the container if that works, and raise.
CleanUp(p) ==
    /\ pc[p] = "clean_up"
    /\ Removed(container[p])
    /\ Raise(p)
    /\ UNCHANGED <<made, daemon>>

\* docker rm failed or timed out, on either path.
RemoveFails(p) ==
    /\ pc[p] \in {"clean_up", "remove_done", "remove_retry"}
    /\ Raise(p)
    /\ UNCHANGED dockerVars

----------------------------------------------------------------------------
(* Docker                                                                  *)

Create(i) ==
    /\ <<"create", i>> \in daemon
    /\ daemon' = daemon \ {<<"create", i>>}
    /\ box' = [box EXCEPT ![i].state = "created"]
    /\ UNCHANGED <<owner, archive, base, launcherVars, made>>

\* A container that was removed cannot be started: the client reports an error.
Start(i) ==
    /\ <<"start", i>> \in daemon
    /\ daemon' = daemon \ {<<"start", i>>}
    /\ IF box[i].state = "created"
       THEN box' = [box EXCEPT ![i].state = "running"]
       ELSE UNCHANGED box
    /\ UNCHANGED <<owner, archive, base, launcherVars, made>>

\* A command whose client was killed before Docker took it is lost.
Lose(c) ==
    /\ \A p \in Launchers :
          pc[p] = "creating" \/ pc[p] = "attached" => container[p] # c[2]
    /\ daemon' = daemon \ {c}
    /\ UNCHANGED <<owner, archive, base, launcherVars, box, made>>

----------------------------------------------------------------------------
(* The worker in container i                                               *)

Exit(i, code) == Ended(i, "exited", code)

At(i, step) == box[i].state = "running" /\ box[i].step = step

WorkerUnchanged == UNCHANGED <<owner, base, launcherVars, made, daemon>>

\* SessionManager.open: restore what is saved, or create .runtime.
WorkerOpens(i) ==
    LET s == box[i].seed IN
    /\ At(i, "open")
    /\ \/ /\ Saved(s)
          /\ box' = [box EXCEPT
                ![i].memory = archive[s].phases,
                ![i].step = IF archive[s].status = "stopped" THEN "close" ELSE "work"]
          /\ UNCHANGED archive
       \/ /\ archive[s] = Absent
          /\ archive' = [archive EXCEPT ![s].status = "torn"]
          /\ box' = [box EXCEPT ![i].step = "publish"]
       \/ /\ archive[s].status = "torn"
          /\ Exit(i, "error")
          /\ UNCHANGED archive
    /\ WorkerUnchanged

WorkerPublishes(i) ==
    /\ At(i, "publish")
    /\ archive' = [archive EXCEPT ![box[i].seed] = [status |-> "running", phases |-> 0]]
    /\ box' = [box EXCEPT ![i].memory = 0, ![i].step = "work"]
    /\ WorkerUnchanged

\* SessionManager.checkpoint: the archive is replaced from the worker's memory.
WorkerSaves(i) ==
    /\ At(i, "work")
    /\ box[i].memory < MaxPhases
    /\ \E status \in {"running", "stopped"} :
          /\ box[i].memory + 1 = MaxPhases => status = "stopped"
          /\ archive' = [archive EXCEPT ![box[i].seed] =
                [status |-> status, phases |-> box[i].memory + 1]]
          /\ box' = [box EXCEPT
                ![i].memory = box[i].memory + 1,
                ![i].step = IF status = "stopped" THEN "close" ELSE "work"]
    /\ WorkerUnchanged

\* SessionManager.close removes .runtime; the worker returns success.
WorkerCloses(i) ==
    /\ At(i, "close")
    /\ Exit(i, "ok")
    /\ UNCHANGED archive
    /\ WorkerUnchanged

\* Any error, a credential failure, or the container dies.  An error before the
\* first archive removes .runtime again, unless the worker dies of it.
WorkerFails(i) ==
    /\ box[i].state = "running"
    /\ \E code \in {"credential", "error"} : Exit(i, code)
    /\ archive' \in IF box[i].step = "publish"
                    THEN {archive, [archive EXCEPT ![box[i].seed] = Absent]}
                    ELSE {archive}
    /\ WorkerUnchanged

----------------------------------------------------------------------------
LauncherStep(p) ==
    \/ RunAttempt(p) \/ LockPrefix(p) \/ Inspect(p) \/ OpenPrefix(p) \/ Fork(p) \/ ClosePrefix(p)
    \/ ListAbandoned(p) \/ RemoveAbandoned(p) \/ AbandonedGone(p)
    \/ BeginCreate(p) \/ OutOfContainers(p) \/ CreateReturns(p) \/ IssueStart(p) \/ WorkerReturns(p)
    \/ RemoveForRetry(p) \/ RemoveDone(p) \/ Count(p) \/ CleanUp(p)

Disturbance(p) ==
    Prepare(p) \/ HostFails(p) \/ Kill(p) \/ CreateFails(p) \/ Interrupt(p) \/ RemoveFails(p)

DockerStep(i) == Create(i) \/ Start(i)

WorkerStep(i) == WorkerOpens(i) \/ WorkerPublishes(i) \/ WorkerSaves(i) \/ WorkerCloses(i)

Next ==
    \/ \E p \in Launchers : LauncherStep(p) \/ Disturbance(p)
    \/ \E i \in Ids : DockerStep(i) \/ WorkerStep(i) \/ WorkerFails(i)
    \/ \E c \in daemon : Lose(c)

Spec == Init /\ [][Next]_vars

\* Processes, Docker and workers that are not disturbed go on.
FairSpec ==
    /\ Spec
    /\ \A p \in Launchers : WF_vars(LauncherStep(p))
    /\ \A i \in Ids : WF_vars(DockerStep(i)) /\ WF_vars(WorkerStep(i))

----------------------------------------------------------------------------
(* Properties                                                              *)

PrefixSteps == {"inspect", "open", "fork", "close"}
OwnSteps == {"creating", "start", "attached", "remove_retry", "remove_done", "clean_up"}
SandboxSteps == {"list", "remove_old", "create"} \cup OwnSteps

Steps == {"idle", "ready", "await_prefix", "completed"} \cup PrefixSteps \cup SandboxSteps

TypeOK ==
    /\ owner \in [Seeds -> Launchers \cup {NoOne}]
    /\ archive \in [Seeds -> Archives]
    /\ base \in [Arms -> Archives]
    /\ pc \in [Launchers -> Steps]
    /\ arm \in [Launchers -> Arms]
    /\ target \in [Launchers -> Seeds]
    /\ listed \in [Launchers -> SUBSET Ids]
    /\ container \in [Launchers -> 0 .. MaxContainers]
    /\ launches \in [Launchers -> 0 .. MaxLaunches]
    /\ box \in [Ids -> Containers]
    /\ made \in 0 .. MaxContainers
    /\ daemon \subseteq {"create", "start"} \X Ids

\* At most one worker writes a seed, whatever launchers are killed and however
\* late Docker carries out what they asked for.
OneWriter == \A s \in Seeds : \A i, j \in Running(s) : i = j

(***************************************************************************)
(* Why: the parts of the inductive invariant.  A container is alive when   *)
(* its worker runs or may still be started.                                *)
(***************************************************************************)
Creating(i) == <<"create", i>> \in daemon
Started(i) == <<"start", i>> \in daemon
Alive(i) == box[i].state = "running" \/ (Started(i) /\ box[i].state # "removed")

LocksHeld ==
    \A p \in Launchers :
        /\ pc[p] \in SandboxSteps \cup PrefixSteps \cup {"await_prefix"} => owner[arm[p]] = p
        /\ pc[p] \in PrefixSteps => owner[Prefix] = p
        /\ pc[p] \in SandboxSteps => owner[target[p]] = p

\* What Docker has been asked, of container i.
InOrder(i) ==
    /\ i > made => box[i].state = "unborn" /\ ~Creating(i) /\ ~Started(i)
    /\ Creating(i) => box[i].state \in {"unborn", "removed"}
    /\ Started(i) => box[i].state \in {"created", "removed"} /\ ~Creating(i)

CommandsInOrder == \A i \in Ids : InOrder(i)

\* The container p is at work on.
OwnOf(p) ==
    /\ container[p] \in 1 .. made
    /\ box[container[p]].seed = target[p]
    /\ pc[p] \in {"creating", "start"} => ~Started(container[p])
    /\ pc[p] = "start" => box[container[p]].state = "created"

OwnContainer == \A p \in Launchers : pc[p] \in OwnSteps => OwnOf(p)

ListedHere ==
    \A p \in Launchers : pc[p] = "remove_old" =>
        \A i \in listed[p] : i <= made /\ box[i].seed = target[p]

\* What p has yet to remove, or nothing, or its own container, is alive.
AliveOnlyFor(p) ==
    \A i \in Ids : box[i].seed = target[p] /\ Alive(i) =>
        /\ pc[p] = "remove_old" => i \in listed[p]
        /\ pc[p] # "create"
        /\ pc[p] \in OwnSteps => i = container[p]

OthersDead == \A p \in Launchers : AliveOnlyFor(p)

OneAlive ==
    \A i, j \in Ids : Alive(i) /\ Alive(j) /\ box[i].seed = box[j].seed => i = j

OwnershipInv ==
    /\ TypeOK
    /\ LocksHeld
    /\ CommandsInOrder
    /\ OwnContainer
    /\ ListedHere
    /\ OthersDead
    /\ OneAlive

\* What is saved is not lost: no worker replaces an archive by an older one, no
\* fork by a fresh one, and stopped work stays as it stopped.
ProgressKept ==
    [][\A s \in Seeds : Saved(s) =>
          /\ Saved(s)'
          /\ archive'[s].phases >= archive[s].phases
          /\ archive[s].status = "stopped" => archive'[s] = archive[s]]_archive

\* Every arm was forked from the same, finished prefix, which is still as it was.
ArmsSharePrefix ==
    \A a \in Arms : base[a] # Absent => base[a] = archive[Prefix] /\ base[a].status = "stopped"

\* An attempt that is counted as completed has stopped.
CompletedHasStopped ==
    \A p \in Launchers : pc[p] = "completed" => archive[arm[p]].status = "stopped"

\* Every launch ends: a launcher that waits for the prefix gets it, as the one
\* that has it never waits for a lock.
LaunchEnds == \A p \in Launchers : pc[p] # "idle" ~> pc[p] = "idle"

----------------------------------------------------------------------------
(* Why progress is kept: with one worker to a seed, the progress a worker  *)
(* holds is the one that is saved, and success means that the seed stopped.*)

\* A container and the archive of its seed.
Agrees(b, saved) ==
    /\ b.state # "running" => b.step = "open"
    /\ b.step = "publish" => saved.status = "torn"
    /\ b.step = "work" => saved.status = "running" /\ saved.phases = b.memory
    /\ b.step = "close" => saved.status = "stopped"

MemoryFollows == \A i \in Ids : Agrees(box[i], archive[box[i].seed])

SuccessMeansStopped ==
    /\ \A i \in Ids : box[i].state = "exited" /\ box[i].code = "ok" =>
          archive[box[i].seed].status = "stopped"
    /\ \A p \in Launchers :
          /\ target[p] \in {arm[p], Prefix}
          /\ pc[p] = "remove_done" => archive[target[p]].status = "stopped"

KeptInv == MemoryFollows /\ SuccessMeansStopped /\ ArmsSharePrefix /\ CompletedHasStopped

\* An arm is run only when it has been forked: whatever works on it, or is to,
\* finds an archive.
ArmsAreForked ==
    /\ \A p \in Launchers :
          pc[p] = "close" \/ (pc[p] \in SandboxSteps /\ target[p] # Prefix) => Saved(arm[p])
    /\ \A i \in Ids : box[i].seed # Prefix => Saved(box[i].seed)

\* With all of its processes, an experiment does to what is saved no more than
\* ContinuedWork says.
Work == INSTANCE ContinuedWork WITH
    work <- [s \in Seeds |-> IF Saved(s) THEN archive[s] ELSE Absent]

ImplementsContinuedWork == Work!WorkSpec

=============================================================================
