------------------------- MODULE ContinuationProofs -------------------------
(***************************************************************************)
(* Proofs about Continuation for any launchers, arms and containers: at    *)
(* most one worker writes a seed, and so what is saved of it is not lost.  *)
(***************************************************************************)
EXTENDS Continuation, TLAPS

LEMMA StepFacts ==
    /\ \A s \in SandboxSteps : s \notin PrefixSteps /\ s \notin {"idle", "ready", "await_prefix", "completed"}
    /\ \A s \in PrefixSteps : s \notin {"idle", "ready", "await_prefix", "completed"}
    /\ OwnSteps \subseteq SandboxSteps
BY DEF SandboxSteps, OwnSteps, PrefixSteps

LEMMA InitHolds == Init => OwnershipInv
<1> SUFFICES ASSUME Init PROVE OwnershipInv
  OBVIOUS
<1>1. TypeOK
  BY BoundAssumption DEF Init, TypeOK, Seeds, Archives, Absent, Containers, Steps, Ids
<1>2. LocksHeld /\ OwnContainer /\ ListedHere
  BY DEF Init, LocksHeld, OwnContainer, OwnOf, ListedHere, SandboxSteps, PrefixSteps, OwnSteps
<1>3. \A i \in Ids : ~Creating(i) /\ ~Started(i) /\ box[i].state = "unborn"
  BY DEF Init, Creating, Started
<1>4. CommandsInOrder /\ OthersDead /\ OneAlive
  BY <1>3 DEF CommandsInOrder, InOrder, OthersDead, AliveOnlyFor, OneAlive, Alive
<1>5. QED
  BY <1>1, <1>2, <1>4 DEF OwnershipInv

\* Two launchers at work in their sandboxes work on different seeds.
LEMMA TargetsDiffer ==
    ASSUME LocksHeld, NEW p \in Launchers, NEW q \in Launchers,
           pc[p] \in SandboxSteps, pc[q] \in SandboxSteps, target[p] = target[q]
    PROVE  p = q
BY DEF LocksHeld

----------------------------------------------------------------------------
(* What a step does to the locks.                                          *)

LEMMA LeaveKeepsLocks ==
    ASSUME OwnershipInv, NEW p \in Launchers, NEW step \in {"idle", "completed"},
           Leave(p, step), arm' = arm
    PROVE  LocksHeld'
BY StepFacts, OwnerAssumption
DEF OwnershipInv, TypeOK, LocksHeld, Leave, Released, Goto, Seeds, SandboxSteps, PrefixSteps, OwnSteps

LEMMA GotoKeepsLocks ==
    ASSUME OwnershipInv, NEW p \in Launchers, NEW step \in Steps, Goto(p, step),
           pc[p] \in SandboxSteps, step \in SandboxSteps \/ (target[p] = Prefix /\ step \in PrefixSteps),
           owner' = owner, target' = target, arm' = arm
    PROVE  LocksHeld'
BY StepFacts DEF OwnershipInv, TypeOK, LocksHeld, Goto

----------------------------------------------------------------------------
(* Types.                                                                  *)

LEMMA RecordTypes ==
    /\ \A b \in Containers : b.seed \in Seeds /\ b.memory \in 0 .. MaxPhases
    /\ \A b \in Containers : \A s \in Seeds : [b EXCEPT !.seed = s] \in Containers
    /\ \A b \in Containers : [b EXCEPT !.state = "created"] \in Containers
    /\ \A b \in Containers : [b EXCEPT !.state = "running"] \in Containers
    /\ \A b \in Containers : [b EXCEPT !.step = "publish"] \in Containers
    /\ \A b \in Containers : \A n \in 0 .. MaxPhases : \A step \in {"work", "close"} :
          [b EXCEPT !.memory = n, !.step = step] \in Containers
BY DEF Containers

LEMMA ArchiveTypes ==
    /\ \A a \in Archives : a.phases \in 0 .. MaxPhases
    /\ \A a \in Archives : [a EXCEPT !.status = "torn"] \in Archives
    /\ \A status \in {"running", "stopped"} : \A n \in 0 .. MaxPhases :
          [status |-> status, phases |-> n] \in Archives
BY DEF Archives

LEMMA EndedType ==
    ASSUME TypeOK, NEW i \in Ids, NEW state \in {"exited", "removed"},
           NEW code \in {"ok", "credential", "error"}, Ended(i, state, code)
    PROVE  box' \in [Ids -> Containers]
<1>1. box[i].seed \in Seeds
  BY RecordTypes DEF TypeOK
<1>2. [seed |-> box[i].seed, state |-> state, step |-> "open", memory |-> 0, code |-> code] \in Containers
  BY <1>1, BoundAssumption DEF Containers
<1>3. QED
  BY <1>2 DEF TypeOK, Ended

LEMMA SeedTypes == Arms \subseteq Seeds /\ Prefix \in Seeds
BY DEF Seeds

LEMMA GotoType ==
    ASSUME TypeOK, NEW p \in Launchers, NEW step \in Steps, Goto(p, step)
    PROVE  pc' \in [Launchers -> Steps]
BY DEF TypeOK, Goto

LEMMA LeaveType ==
    ASSUME TypeOK, NEW p \in Launchers, NEW step \in {"idle", "completed"}, Leave(p, step)
    PROVE  /\ owner' \in [Seeds -> Launchers \cup {NoOne}]
           /\ pc' \in [Launchers -> Steps]
           /\ target' \in [Launchers -> Seeds]
           /\ listed' \in [Launchers -> SUBSET Ids]
           /\ container' \in [Launchers -> 0 .. MaxContainers]
<1>1. step \in Steps
  BY DEF Steps
<1>2. pc' \in [Launchers -> Steps]
  BY <1>1, GotoType DEF Leave
<1>3. owner' \in [Seeds -> Launchers \cup {NoOne}]
  BY DEF TypeOK, Leave, Released
<1>4. arm[p] \in Seeds /\ 0 \in 0 .. MaxContainers
  BY SeedTypes, BoundAssumption DEF TypeOK
<1>5. QED
  BY <1>2, <1>3, <1>4 DEF TypeOK, Leave

LEMMA RaiseType ==
    ASSUME TypeOK, NEW p \in Launchers, Raise(p), UNCHANGED <<made, daemon>>,
           box' \in [Ids -> Containers]
    PROVE  TypeOK'
<1>1. /\ owner' \in [Seeds -> Launchers \cup {NoOne}]
      /\ pc' \in [Launchers -> Steps]
      /\ target' \in [Launchers -> Seeds]
      /\ listed' \in [Launchers -> SUBSET Ids]
      /\ container' \in [Launchers -> 0 .. MaxContainers]
  BY LeaveType DEF Raise
<1>2. QED
  BY <1>1 DEF TypeOK, Raise

LEMMA WorkerTypes ==
    ASSUME TypeOK, NEW i \in Ids,
           WorkerOpens(i) \/ WorkerPublishes(i) \/ WorkerSaves(i) \/ WorkerCloses(i) \/ WorkerFails(i)
    PROVE  box' \in [Ids -> Containers] /\ archive' \in [Seeds -> Archives]
<1>a. box[i] \in Containers /\ box[i].seed \in Seeds /\ box[i].memory \in 0 .. MaxPhases
  BY RecordTypes DEF TypeOK
<1>b. archive[box[i].seed] \in Archives /\ archive[box[i].seed].phases \in 0 .. MaxPhases
  BY <1>a, ArchiveTypes DEF TypeOK
<1>c. 0 \in 0 .. MaxPhases
  BY BoundAssumption
<1>1. CASE WorkerOpens(i)
  <2>1. CASE box' = [box EXCEPT ![i].memory = archive[box[i].seed].phases,
                ![i].step = IF archive[box[i].seed].status = "stopped" THEN "close" ELSE "work"]
             /\ UNCHANGED archive
    <3>1. CASE archive[box[i].seed].status = "stopped"
      BY <1>a, <1>b, <2>1, <3>1, RecordTypes DEF TypeOK
    <3>2. CASE archive[box[i].seed].status # "stopped"
      BY <1>a, <1>b, <2>1, <3>2, RecordTypes DEF TypeOK
    <3>3. QED
      BY <3>1, <3>2
  <2>2. CASE archive' = [archive EXCEPT ![box[i].seed].status = "torn"]
             /\ box' = [box EXCEPT ![i].step = "publish"]
    BY <1>a, <1>b, <2>2, RecordTypes, ArchiveTypes DEF TypeOK
  <2>3. CASE Exit(i, "error") /\ UNCHANGED archive
    BY <2>3, EndedType DEF TypeOK, Exit
  <2>4. QED
    BY <1>1, <2>1, <2>2, <2>3 DEF WorkerOpens
<1>2. CASE WorkerPublishes(i)
  BY <1>a, <1>b, <1>c, <1>2, RecordTypes, ArchiveTypes DEF WorkerPublishes, TypeOK
<1>3. CASE WorkerSaves(i)
  <2>1. PICK status \in {"running", "stopped"} :
          /\ archive' = [archive EXCEPT ![box[i].seed] =
                [status |-> status, phases |-> box[i].memory + 1]]
          /\ box' = [box EXCEPT
                ![i].memory = box[i].memory + 1,
                ![i].step = IF status = "stopped" THEN "close" ELSE "work"]
    BY <1>3 DEF WorkerSaves
  <2>2. box[i].memory + 1 \in 0 .. MaxPhases
    BY <1>a, <1>3, BoundAssumption DEF WorkerSaves
  <2>3. CASE status = "stopped"
    BY <1>a, <2>1, <2>2, <2>3, RecordTypes, ArchiveTypes DEF TypeOK
  <2>4. CASE status = "running"
    BY <1>a, <2>1, <2>2, <2>4, RecordTypes, ArchiveTypes DEF TypeOK
  <2>5. QED
    BY <2>3, <2>4
<1>4. CASE WorkerCloses(i) \/ WorkerFails(i)
  <2>1. box' \in [Ids -> Containers]
    BY <1>4, EndedType DEF WorkerCloses, WorkerFails, Exit
  <2>2. Absent \in Archives
    BY <1>c DEF Absent, Archives
  <2>3. archive' = archive \/ archive' = [archive EXCEPT ![box[i].seed] = Absent]
    BY <1>4 DEF WorkerCloses, WorkerFails
  <2>4. QED
    BY <1>a, <2>1, <2>2, <2>3 DEF TypeOK
<1>5. QED
  BY <1>1, <1>2, <1>3, <1>4

LEMMA TypeStep ==
    ASSUME TypeOK, OwnContainer, [Next]_vars
    PROVE  TypeOK'
<1>own. \A p \in Launchers : pc[p] \in OwnSteps => container[p] \in Ids
  BY BoundAssumption DEF OwnContainer, OwnOf, TypeOK, Ids
<1> USE BoundAssumption DEF launcherVars, dockerVars
<1>a. {"idle", "ready", "await_prefix", "completed", "inspect", "open", "fork", "close", "list",
       "remove_old", "create", "creating", "start", "attached", "remove_retry", "remove_done",
       "clean_up"} \subseteq Steps
  BY DEF Steps, SandboxSteps, PrefixSteps, OwnSteps
<1>1. ASSUME NEW p \in Launchers, Prepare(p) PROVE TypeOK'
  <2>1. launches' \in [Launchers -> 0 .. MaxLaunches]
    BY <1>1 DEF Prepare, TypeOK
  <2>2. pc' \in [Launchers -> Steps]
    BY <1>1, <1>a DEF Prepare, TypeOK, Goto
  <2>3. QED
    BY <1>1, <2>1, <2>2 DEF Prepare, TypeOK
<1>2. ASSUME NEW p \in Launchers, RunAttempt(p) PROVE TypeOK'
  BY <1>2, <1>a, SeedTypes DEF RunAttempt, TypeOK, Goto
<1>3. ASSUME NEW p \in Launchers, LockPrefix(p) PROVE TypeOK'
  BY <1>3, <1>a, SeedTypes DEF LockPrefix, TypeOK, Goto
<1>4. ASSUME NEW p \in Launchers, Inspect(p) PROVE TypeOK'
  BY <1>4, <1>a, SeedTypes DEF Inspect, TypeOK, Goto
<1>5. ASSUME NEW p \in Launchers, OpenPrefix(p) PROVE TypeOK'
  BY <1>5, <1>a, SeedTypes DEF OpenPrefix, TypeOK, Goto
<1>6. ASSUME NEW p \in Launchers, Fork(p) PROVE TypeOK'
  <2>1. [status |-> "running", phases |-> 0] \in Archives
    BY ArchiveTypes
  <2>2. archive' \in [Seeds -> Archives] /\ base' \in [Arms -> Archives]
    BY <1>6, <2>1, SeedTypes DEF Fork, TypeOK
  <2>3. QED
    BY <1>6, <1>a, <2>2 DEF Fork, TypeOK, Goto
<1>7. ASSUME NEW p \in Launchers, ClosePrefix(p) PROVE TypeOK'
  BY <1>7, <1>a, SeedTypes DEF ClosePrefix, TypeOK, Goto
<1>8. ASSUME NEW p \in Launchers, ListAbandoned(p) PROVE TypeOK'
  BY <1>8, <1>a, SeedTypes DEF ListAbandoned, Listing, TypeOK, Goto
<1>9. ASSUME NEW p \in Launchers, AbandonedGone(p) PROVE TypeOK'
  BY <1>9, <1>a, SeedTypes DEF AbandonedGone, TypeOK, Goto
<1>10. ASSUME NEW p \in Launchers, CreateReturns(p) PROVE TypeOK'
  BY <1>10, <1>a, SeedTypes DEF CreateReturns, TypeOK, Goto
<1>11. ASSUME NEW p \in Launchers, CreateFails(p) PROVE TypeOK'
  BY <1>11, <1>a, SeedTypes DEF CreateFails, TypeOK, Goto
<1>12. ASSUME NEW p \in Launchers, Interrupt(p) PROVE TypeOK'
  BY <1>12, <1>a, SeedTypes DEF Interrupt, TypeOK, Goto
<1>13. ASSUME NEW p \in Launchers, Count(p) PROVE TypeOK'
  BY <1>13, <1>a, SeedTypes DEF Count, TypeOK, Goto
<1>14. ASSUME NEW p \in Launchers, RemoveAbandoned(p) PROVE TypeOK'
  <2>1. box' \in [Ids -> Containers]
    BY <1>14, EndedType DEF RemoveAbandoned, Removed, TypeOK
  <2>2. listed' \in [Launchers -> SUBSET Ids]
    BY <1>14 DEF RemoveAbandoned, TypeOK
  <2>3. QED
    BY <1>14, <2>1, <2>2 DEF RemoveAbandoned, TypeOK
<1>15. ASSUME NEW p \in Launchers, BeginCreate(p) PROVE TypeOK'
  <2>1. made + 1 \in Ids /\ made + 1 \in 0 .. MaxContainers
    BY <1>15 DEF BeginCreate, TypeOK, Ids
  <2>2. box' \in [Ids -> Containers]
    BY <1>15, <2>1, RecordTypes DEF BeginCreate, TypeOK
  <2>3. daemon' \subseteq {"create", "start"} \X Ids
    BY <1>15, <2>1 DEF BeginCreate, TypeOK
  <2>4. pc' \in [Launchers -> Steps] /\ container' \in [Launchers -> 0 .. MaxContainers]
    BY <1>15, <2>1, <1>a DEF BeginCreate, TypeOK, Goto
  <2>5. QED
    BY <1>15, <2>1, <2>2, <2>3, <2>4 DEF BeginCreate, TypeOK
<1>16. ASSUME NEW p \in Launchers, IssueStart(p), container[p] \in Ids PROVE TypeOK'
  <2>1. daemon' \subseteq {"create", "start"} \X Ids
    BY <1>16 DEF IssueStart, TypeOK
  <2>2. QED
    BY <1>16, <1>a, <2>1 DEF IssueStart, TypeOK, Goto
<1>17. ASSUME NEW p \in Launchers, WorkerReturns(p), container[p] \in Ids PROVE TypeOK'
  <2>1. box[container[p]].code \in {"ok", "credential", "error"}
    BY <1>17 DEF TypeOK, Containers
  <2>2. pc' \in [Launchers -> Steps]
    BY <1>17, <1>a, <2>1 DEF WorkerReturns, TypeOK, Goto
  <2>3. QED
    BY <1>17, <2>2 DEF WorkerReturns, TypeOK
<1>18. ASSUME NEW p \in Launchers, RemoveForRetry(p), container[p] \in Ids PROVE TypeOK'
  <2>1. box' \in [Ids -> Containers]
    BY <1>18, EndedType DEF RemoveForRetry, Removed
  <2>2. QED
    BY <1>18, <1>a, <2>1 DEF RemoveForRetry, TypeOK, Goto
<1>19. ASSUME NEW p \in Launchers, RemoveDone(p), container[p] \in Ids PROVE TypeOK'
  <2>1. box' \in [Ids -> Containers]
    BY <1>19, EndedType DEF RemoveDone, Removed
  <2>2. CASE target[p] = Prefix
    BY <1>19, <1>a, <2>1, <2>2 DEF RemoveDone, TypeOK, Goto
  <2>3. CASE target[p] # Prefix
    <3>1. Leave(p, "completed") /\ UNCHANGED <<archive, base, arm, launches, made, daemon>>
      BY <1>19, <2>3 DEF RemoveDone
    <3>2. QED
      BY <2>1, <3>1, LeaveType DEF TypeOK
  <2>4. QED
    BY <2>2, <2>3
<1>20. ASSUME NEW p \in Launchers, CleanUp(p), container[p] \in Ids PROVE TypeOK'
  <2>1. box' \in [Ids -> Containers]
    BY <1>20, EndedType DEF CleanUp, Removed
  <2>2. QED
    BY <1>20, <2>1, RaiseType DEF CleanUp
<1>21. ASSUME NEW p \in Launchers, HostFails(p) PROVE TypeOK'
  <2>1. box' \in [Ids -> Containers]
    BY <1>21 DEF HostFails, TypeOK
  <2>2. QED
    BY <1>21, <2>1, RaiseType DEF HostFails
<1>22. ASSUME NEW p \in Launchers, Kill(p) PROVE TypeOK'
  <2>1. box' \in [Ids -> Containers]
    BY <1>22 DEF Kill, TypeOK
  <2>2. QED
    BY <1>22, <2>1, RaiseType DEF Kill
<1>23. ASSUME NEW p \in Launchers, OutOfContainers(p) PROVE TypeOK'
  <2>1. box' \in [Ids -> Containers]
    BY <1>23 DEF OutOfContainers, TypeOK
  <2>2. QED
    BY <1>23, <2>1, RaiseType DEF OutOfContainers
<1>24. ASSUME NEW p \in Launchers, RemoveFails(p) PROVE TypeOK'
  <2>1. box' \in [Ids -> Containers]
    BY <1>24 DEF RemoveFails, TypeOK
  <2>2. QED
    BY <1>24, <2>1, RaiseType DEF RemoveFails
<1>25. ASSUME NEW i \in Ids, Create(i) PROVE TypeOK'
  <2>1. box' \in [Ids -> Containers]
    BY <1>25, RecordTypes DEF Create, TypeOK
  <2>2. QED
    BY <1>25, <2>1 DEF Create, TypeOK
<1>26. ASSUME NEW i \in Ids, Start(i) PROVE TypeOK'
  <2>1. box' \in [Ids -> Containers]
    <3>1. CASE box[i].state = "created"
      <4>1. box' = [box EXCEPT ![i] = [box[i] EXCEPT !.state = "running"]]
        BY <1>26, <3>1 DEF Start
      <4>2. QED
        BY <4>1, RecordTypes DEF TypeOK
    <3>2. CASE box[i].state # "created"
      BY <1>26, <3>2 DEF Start, TypeOK
    <3>3. QED
      BY <3>1, <3>2
  <2>2. QED
    BY <1>26, <2>1 DEF Start, TypeOK
<1>27. ASSUME NEW i \in Ids, WorkerOpens(i) PROVE TypeOK'
  <2>1. box' \in [Ids -> Containers] /\ archive' \in [Seeds -> Archives]
    BY <1>27, WorkerTypes
  <2>2. QED
    BY <1>27, <2>1 DEF WorkerOpens, WorkerUnchanged, TypeOK
<1>28. ASSUME NEW i \in Ids, WorkerPublishes(i) PROVE TypeOK'
  <2>1. box' \in [Ids -> Containers] /\ archive' \in [Seeds -> Archives]
    BY <1>28, WorkerTypes
  <2>2. QED
    BY <1>28, <2>1 DEF WorkerPublishes, WorkerUnchanged, TypeOK
<1>29. ASSUME NEW i \in Ids, WorkerSaves(i) PROVE TypeOK'
  <2>1. box' \in [Ids -> Containers] /\ archive' \in [Seeds -> Archives]
    BY <1>29, WorkerTypes
  <2>2. QED
    BY <1>29, <2>1 DEF WorkerSaves, WorkerUnchanged, TypeOK
<1>30. ASSUME NEW i \in Ids, WorkerCloses(i) PROVE TypeOK'
  <2>1. box' \in [Ids -> Containers] /\ archive' \in [Seeds -> Archives]
    BY <1>30, WorkerTypes
  <2>2. QED
    BY <1>30, <2>1 DEF WorkerCloses, WorkerUnchanged, TypeOK
<1>31. ASSUME NEW i \in Ids, WorkerFails(i) PROVE TypeOK'
  <2>1. box' \in [Ids -> Containers] /\ archive' \in [Seeds -> Archives]
    BY <1>31, WorkerTypes
  <2>2. QED
    BY <1>31, <2>1 DEF WorkerFails, WorkerUnchanged, TypeOK
<1>32. ASSUME NEW c \in daemon, Lose(c) PROVE TypeOK'
  BY <1>32 DEF Lose, TypeOK
<1>33. CASE UNCHANGED vars
  BY <1>33 DEF vars, TypeOK
<1>34. QED
  BY <1>own, <1>1, <1>2, <1>3, <1>4, <1>5, <1>6, <1>7, <1>8, <1>9, <1>10, <1>11, <1>12, <1>13, <1>14,
     <1>15, <1>16, <1>17, <1>18, <1>19, <1>20, <1>21, <1>22, <1>23, <1>24, <1>25, <1>26, <1>27, <1>28,
     <1>29, <1>30, <1>31, <1>32, <1>33
  DEF Next, LauncherStep, Disturbance, DockerStep, WorkerStep, IssueStart, WorkerReturns, RemoveForRetry,
      RemoveDone, CleanUp, OwnSteps

----------------------------------------------------------------------------
(* Preservation *)

LEMMA LocksStep ==
    ASSUME OwnershipInv, [Next]_vars
    PROVE  LocksHeld'
<1> USE StepFacts, OwnerAssumption
    DEF OwnershipInv, TypeOK, LocksHeld, Goto, SandboxSteps, PrefixSteps, OwnSteps, launcherVars, dockerVars
<1>1. ASSUME NEW p \in Launchers, Prepare(p) PROVE LocksHeld'
  BY <1>1 DEF Prepare
<1>2. ASSUME NEW p \in Launchers, RunAttempt(p) PROVE LocksHeld'
  <2>1. arm[p] \in Seeds /\ p \in Launchers
    BY <1>2, SeedTypes
  <2>2. CASE owner[arm[p]] = NoOne
    <3>1. /\ owner' = [owner EXCEPT ![arm[p]] = p]
          /\ pc' = [pc EXCEPT ![p] = IF Saved(arm[p]) THEN "list" ELSE "await_prefix"]
          /\ target' = [target EXCEPT ![p] = arm[p]]
          /\ arm' = arm
      BY <1>2, <2>2 DEF RunAttempt
    <3>2. QED
      BY <2>1, <2>2, <3>1
  <2>3. CASE owner[arm[p]] # NoOne
    BY <1>2, <2>1, <2>3 DEF RunAttempt
  <2>4. QED
    BY <2>2, <2>3
<1>3. ASSUME NEW p \in Launchers, LockPrefix(p) PROVE LocksHeld'
  BY <1>3, SeedTypes DEF LockPrefix
<1>4. ASSUME NEW p \in Launchers, Inspect(p) PROVE LocksHeld'
  BY <1>4 DEF Inspect
<1>5. ASSUME NEW p \in Launchers, OpenPrefix(p) PROVE LocksHeld'
  BY <1>5 DEF OpenPrefix
<1>6. ASSUME NEW p \in Launchers, Fork(p) PROVE LocksHeld'
  BY <1>6 DEF Fork
<1>7. ASSUME NEW p \in Launchers, ClosePrefix(p) PROVE LocksHeld'
  BY <1>7, SeedTypes, SeedAssumption DEF ClosePrefix
<1>8. ASSUME NEW p \in Launchers, ListAbandoned(p) PROVE LocksHeld'
  BY <1>8 DEF ListAbandoned, Listing
<1>9. ASSUME NEW p \in Launchers, RemoveAbandoned(p) PROVE LocksHeld'
  BY <1>9 DEF RemoveAbandoned, Removed, Ended
<1>10. ASSUME NEW p \in Launchers, AbandonedGone(p) PROVE LocksHeld'
  BY <1>10 DEF AbandonedGone
<1>11. ASSUME NEW p \in Launchers, BeginCreate(p) PROVE LocksHeld'
  BY <1>11 DEF BeginCreate
<1>12. ASSUME NEW p \in Launchers, CreateReturns(p) PROVE LocksHeld'
  BY <1>12 DEF CreateReturns
<1>13. ASSUME NEW p \in Launchers, CreateFails(p) PROVE LocksHeld'
  BY <1>13 DEF CreateFails
<1>14. ASSUME NEW p \in Launchers, IssueStart(p) PROVE LocksHeld'
  BY <1>14 DEF IssueStart
<1>15. ASSUME NEW p \in Launchers, Interrupt(p) PROVE LocksHeld'
  BY <1>15 DEF Interrupt
<1>16. ASSUME NEW p \in Launchers, WorkerReturns(p) PROVE LocksHeld'
  <2>a. box[container[p]].code \in {"ok", "credential", "error"}
    BY <1>16, BoundAssumption DEF WorkerReturns, OwnContainer, OwnOf, Containers, Ids
  <2>1. PICK step \in {"remove_done", "remove_retry", "clean_up"} : Goto(p, step)
    BY <1>16, <2>a DEF WorkerReturns
  <2>2. QED
    BY ZenonT(40), <1>16, <2>1, GotoKeepsLocks DEF WorkerReturns, Steps
<1>17. ASSUME NEW p \in Launchers, RemoveForRetry(p) PROVE LocksHeld'
  BY <1>17 DEF RemoveForRetry, Removed, Ended
<1>18. ASSUME NEW p \in Launchers, RemoveDone(p) PROVE LocksHeld'
  <2>1. CASE target[p] = Prefix
    BY <1>18, <2>1 DEF RemoveDone
  <2>2. CASE target[p] # Prefix
    BY <1>18, <2>2, LeaveKeepsLocks DEF RemoveDone
  <2>3. QED
    BY <2>1, <2>2
<1>19. ASSUME NEW p \in Launchers, Count(p) PROVE LocksHeld'
  BY <1>19 DEF Count
<1>20. ASSUME NEW p \in Launchers, HostFails(p) PROVE LocksHeld'
  BY <1>20, LeaveKeepsLocks DEF HostFails, Raise
<1>21. ASSUME NEW p \in Launchers, Kill(p) PROVE LocksHeld'
  BY <1>21, LeaveKeepsLocks DEF Kill, Raise
<1>22. ASSUME NEW p \in Launchers, OutOfContainers(p) PROVE LocksHeld'
  BY <1>22, LeaveKeepsLocks DEF OutOfContainers, Raise
<1>23. ASSUME NEW p \in Launchers, CleanUp(p) PROVE LocksHeld'
  BY <1>23, LeaveKeepsLocks DEF CleanUp, Raise
<1>24. ASSUME NEW p \in Launchers, RemoveFails(p) PROVE LocksHeld'
  BY <1>24, LeaveKeepsLocks DEF RemoveFails, Raise
<1>25. ASSUME NEW i \in Ids, Create(i) PROVE LocksHeld'
  BY <1>25 DEF Create
<1>26. ASSUME NEW i \in Ids, Start(i) PROVE LocksHeld'
  BY <1>26 DEF Start
<1>27. ASSUME NEW i \in Ids, WorkerOpens(i) PROVE LocksHeld'
  BY <1>27 DEF WorkerOpens, WorkerUnchanged, At, Exit, Ended
<1>28. ASSUME NEW i \in Ids, WorkerPublishes(i) PROVE LocksHeld'
  BY <1>28 DEF WorkerPublishes, WorkerUnchanged, At, Exit, Ended
<1>29. ASSUME NEW i \in Ids, WorkerSaves(i) PROVE LocksHeld'
  BY <1>29 DEF WorkerSaves, WorkerUnchanged, At, Exit, Ended
<1>30. ASSUME NEW i \in Ids, WorkerCloses(i) PROVE LocksHeld'
  BY <1>30 DEF WorkerCloses, WorkerUnchanged, At, Exit, Ended
<1>31. ASSUME NEW i \in Ids, WorkerFails(i) PROVE LocksHeld'
  BY <1>31 DEF WorkerFails, WorkerUnchanged, At, Exit, Ended
<1>32. ASSUME NEW c \in daemon, Lose(c) PROVE LocksHeld'
  BY <1>32 DEF Lose
<1>33. CASE UNCHANGED vars
  BY <1>33 DEF vars
<1>34. QED
  BY <1>1, <1>2, <1>3, <1>4, <1>5, <1>6, <1>7, <1>8, <1>9, <1>10, <1>11, <1>12, <1>13, <1>14, <1>15,
     <1>16, <1>17, <1>18, <1>19, <1>20, <1>21, <1>22, <1>23, <1>24, <1>25, <1>26, <1>27, <1>28, <1>29,
     <1>30, <1>31, <1>32, <1>33
  DEF Next, LauncherStep, Disturbance, DockerStep, WorkerStep

LEMMA CommandsDiffer ==
    \A i, j \in Ids : /\ <<"create", i>> # <<"start", j>>
                      /\ <<"create", i>> = <<"create", j>> => i = j
                      /\ <<"start", i>> = <<"start", j>> => i = j
OBVIOUS

LEMMA OwnIds ==
    ASSUME OwnershipInv, NEW p \in Launchers, pc[p] \in OwnSteps
    PROVE  container[p] \in Ids /\ container[p] <= made /\ box[container[p]].seed = target[p]
BY BoundAssumption DEF OwnershipInv, TypeOK, OwnContainer, OwnOf, Ids

LEMMA RemovalKeepsCommands ==
    ASSUME OwnershipInv, NEW i \in Ids, i <= made, Removed(i), UNCHANGED <<made, daemon>>
    PROVE  CommandsInOrder'
<1>1. box'[i].state = "removed" /\ \A j \in Ids : j # i => box'[j] = box[j]
  BY DEF OwnershipInv, TypeOK, Removed, Ended
<1>2. \A j \in Ids : Creating(j)' = Creating(j) /\ Started(j)' = Started(j)
  BY DEF Creating, Started
<1>3. made \in Nat /\ made' = made /\ i \in Nat
  BY BoundAssumption DEF OwnershipInv, TypeOK, Ids
<1>4. QED
  BY <1>1, <1>2, <1>3 DEF OwnershipInv, CommandsInOrder, InOrder

LEMMA CreateKeepsCommands ==
    ASSUME OwnershipInv, NEW p \in Launchers, BeginCreate(p)
    PROVE  CommandsInOrder'
<1>1. made + 1 \in Ids /\ made \in Nat /\ made' = made + 1 /\ Ids \subseteq Nat
  BY BoundAssumption DEF OwnershipInv, TypeOK, BeginCreate, Ids
<1>2. box \in [Ids -> Containers] /\ daemon' = daemon \cup {<<"create", made + 1>>}
  BY DEF OwnershipInv, TypeOK, BeginCreate
<1>3. ASSUME NEW j \in Ids PROVE box'[j].state = box[j].state
  BY <1>1, <1>2 DEF BeginCreate, Containers
<1>4. ASSUME NEW j \in Ids PROVE InOrder(j)'
  <2>1. InOrder(j) /\ InOrder(made + 1)
    BY <1>1 DEF OwnershipInv, CommandsInOrder
  <2>2. Started(j)' = Started(j)
    BY <1>1, <1>2, CommandsDiffer DEF Started
  <2>3. CASE j = made + 1
    <3>1. box[j].state = "unborn" /\ ~Started(j)
      BY <1>1, <2>1, <2>3 DEF InOrder
    <3>2. QED
      BY <1>1, <1>3, <2>2, <2>3, <3>1 DEF InOrder
  <2>4. CASE j # made + 1
    <3>1. Creating(j)' = Creating(j)
      BY <1>1, <1>2, <2>4, CommandsDiffer DEF Creating
    <3>2. QED
      BY <1>1, <1>3, <2>1, <2>2, <2>4, <3>1 DEF InOrder
  <2>5. QED
    BY <2>3, <2>4
<1>5. QED
  BY <1>4 DEF CommandsInOrder

LEMMA CommandsStep ==
    ASSUME OwnershipInv, [Next]_vars
    PROVE  CommandsInOrder'
<1> USE BoundAssumption
    DEF OwnershipInv, TypeOK, CommandsInOrder, InOrder, Creating, Started, Ids, launcherVars,
        dockerVars
<1>1. ASSUME NEW p \in Launchers, Prepare(p) PROVE CommandsInOrder'
  BY <1>1 DEF Prepare
<1>2. ASSUME NEW p \in Launchers, RunAttempt(p) PROVE CommandsInOrder'
  BY <1>2 DEF RunAttempt
<1>3. ASSUME NEW p \in Launchers, LockPrefix(p) PROVE CommandsInOrder'
  BY <1>3 DEF LockPrefix
<1>4. ASSUME NEW p \in Launchers, Inspect(p) PROVE CommandsInOrder'
  BY <1>4 DEF Inspect
<1>5. ASSUME NEW p \in Launchers, OpenPrefix(p) PROVE CommandsInOrder'
  BY <1>5 DEF OpenPrefix
<1>6. ASSUME NEW p \in Launchers, Fork(p) PROVE CommandsInOrder'
  BY <1>6 DEF Fork
<1>7. ASSUME NEW p \in Launchers, ClosePrefix(p) PROVE CommandsInOrder'
  BY <1>7 DEF ClosePrefix
<1>8. ASSUME NEW p \in Launchers, ListAbandoned(p) PROVE CommandsInOrder'
  BY <1>8 DEF ListAbandoned, Listing
<1>9. ASSUME NEW p \in Launchers, RemoveAbandoned(p) PROVE CommandsInOrder'
  <2>1. PICK i \in listed[p] : Removed(i)
    BY <1>9 DEF RemoveAbandoned
  <2>2. i \in Ids /\ i <= made
    BY <1>9 DEF RemoveAbandoned, ListedHere
  <2>3. QED
    BY <1>9, <2>1, <2>2, RemovalKeepsCommands DEF RemoveAbandoned
<1>10. ASSUME NEW p \in Launchers, AbandonedGone(p) PROVE CommandsInOrder'
  BY <1>10 DEF AbandonedGone
<1>11. ASSUME NEW p \in Launchers, BeginCreate(p) PROVE CommandsInOrder'
  BY <1>11, CreateKeepsCommands
<1>12. ASSUME NEW p \in Launchers, CreateReturns(p) PROVE CommandsInOrder'
  BY <1>12 DEF CreateReturns
<1>13. ASSUME NEW p \in Launchers, CreateFails(p) PROVE CommandsInOrder'
  BY <1>13 DEF CreateFails
<1>14. ASSUME NEW p \in Launchers, IssueStart(p) PROVE CommandsInOrder'
  BY ZenonT(40), <1>14 DEF IssueStart, OwnContainer, OwnOf, OwnSteps
<1>15. ASSUME NEW p \in Launchers, Interrupt(p) PROVE CommandsInOrder'
  BY <1>15 DEF Interrupt
<1>16. ASSUME NEW p \in Launchers, WorkerReturns(p) PROVE CommandsInOrder'
  BY <1>16 DEF WorkerReturns
<1>17. ASSUME NEW p \in Launchers, RemoveForRetry(p) PROVE CommandsInOrder'
  BY <1>17, OwnIds, RemovalKeepsCommands DEF RemoveForRetry, OwnSteps
<1>18. ASSUME NEW p \in Launchers, RemoveDone(p) PROVE CommandsInOrder'
  BY <1>18, OwnIds, RemovalKeepsCommands DEF RemoveDone, OwnSteps
<1>19. ASSUME NEW p \in Launchers, Count(p) PROVE CommandsInOrder'
  BY <1>19 DEF Count
<1>20. ASSUME NEW p \in Launchers, HostFails(p) PROVE CommandsInOrder'
  BY <1>20 DEF HostFails, Raise
<1>21. ASSUME NEW p \in Launchers, Kill(p) PROVE CommandsInOrder'
  BY <1>21 DEF Kill, Raise
<1>22. ASSUME NEW p \in Launchers, OutOfContainers(p) PROVE CommandsInOrder'
  BY <1>22 DEF OutOfContainers, Raise
<1>23. ASSUME NEW p \in Launchers, CleanUp(p) PROVE CommandsInOrder'
  BY <1>23, OwnIds, RemovalKeepsCommands DEF CleanUp, OwnSteps
<1>24. ASSUME NEW p \in Launchers, RemoveFails(p) PROVE CommandsInOrder'
  BY <1>24 DEF RemoveFails, Raise
<1>25. ASSUME NEW i \in Ids, Create(i) PROVE CommandsInOrder'
  BY <1>25 DEF Create
<1>26. ASSUME NEW i \in Ids, Start(i) PROVE CommandsInOrder'
  BY <1>26 DEF Start
<1>27. ASSUME NEW i \in Ids, WorkerOpens(i) PROVE CommandsInOrder'
  BY <1>27 DEF WorkerOpens, WorkerUnchanged, At, Exit, Ended
<1>28. ASSUME NEW i \in Ids, WorkerPublishes(i) PROVE CommandsInOrder'
  BY <1>28 DEF WorkerPublishes, WorkerUnchanged, At, Exit, Ended
<1>29. ASSUME NEW i \in Ids, WorkerSaves(i) PROVE CommandsInOrder'
  BY <1>29 DEF WorkerSaves, WorkerUnchanged, At, Exit, Ended
<1>30. ASSUME NEW i \in Ids, WorkerCloses(i) PROVE CommandsInOrder'
  BY <1>30 DEF WorkerCloses, WorkerUnchanged, At, Exit, Ended
<1>31. ASSUME NEW i \in Ids, WorkerFails(i) PROVE CommandsInOrder'
  BY <1>31 DEF WorkerFails, WorkerUnchanged, At, Exit, Ended
<1>32. ASSUME NEW c \in daemon, Lose(c) PROVE CommandsInOrder'
  BY <1>32 DEF Lose
<1>33. CASE UNCHANGED vars
  BY <1>33 DEF vars
<1>34. QED
  BY <1>1, <1>2, <1>3, <1>4, <1>5, <1>6, <1>7, <1>8, <1>9, <1>10, <1>11, <1>12, <1>13, <1>14, <1>15,
     <1>16, <1>17, <1>18, <1>19, <1>20, <1>21, <1>22, <1>23, <1>24, <1>25, <1>26, <1>27, <1>28, <1>29,
     <1>30, <1>31, <1>32, <1>33
  DEF Next, LauncherStep, Disturbance, DockerStep, WorkerStep

----------------------------------------------------------------------------
(* What lives.  Only docker start gives life to a container.               *)

NoNewAlive == \A j \in Ids : Alive(j)' => Alive(j) /\ box'[j].seed = box[j].seed

LEMMA SameDocker ==
    ASSUME UNCHANGED dockerVars
    PROVE  NoNewAlive /\ \A j \in Ids : Alive(j)' = Alive(j)
BY DEF dockerVars, NoNewAlive, Alive, Started

LEMMA EndedIsDead ==
    ASSUME OwnershipInv, NEW i \in Ids, NEW state \in {"exited", "removed"}, NEW code,
           Ended(i, state, code), state = "exited" => box[i].state = "running",
           daemon' = daemon
    PROVE  NoNewAlive /\ ~Alive(i)' /\ box'[i].seed = box[i].seed
           /\ \A j \in Ids : j # i => box'[j] = box[j]
<1>1. box \in [Ids -> Containers]
  BY DEF OwnershipInv, TypeOK
<1>2. box'[i].state = state /\ box'[i].seed = box[i].seed /\ \A j \in Ids : j # i => box'[j] = box[j]
  BY <1>1 DEF Ended
<1>3. \A j \in Ids : Started(j)' = Started(j)
  BY DEF Started
<1>4. state = "exited" => ~Started(i)
  BY DEF OwnershipInv, CommandsInOrder, InOrder
<1>5. ~Alive(i)'
  BY <1>2, <1>3, <1>4 DEF Alive
<1>6. QED
  BY <1>2, <1>3, <1>5 DEF NoNewAlive, Alive

\* A step that leaves seeds, states and commands alone.
LEMMA SameStates ==
    ASSUME \A j \in Ids : box'[j].seed = box[j].seed /\ box'[j].state = box[j].state,
           daemon' = daemon
    PROVE  NoNewAlive
BY DEF NoNewAlive, Alive, Started

LEMMA WorkerKeeps ==
    ASSUME OwnershipInv, NEW i \in Ids,
           WorkerOpens(i) \/ WorkerPublishes(i) \/ WorkerSaves(i) \/ WorkerCloses(i) \/ WorkerFails(i)
    PROVE  /\ NoNewAlive
           /\ \A j \in Ids : box'[j].seed = box[j].seed
           /\ \A j \in Ids : box[j].state # "running" => box'[j].state = box[j].state
<1>1. box \in [Ids -> Containers] /\ daemon' = daemon /\ box[i].state = "running"
  BY DEF OwnershipInv, TypeOK, WorkerOpens, WorkerPublishes, WorkerSaves, WorkerCloses, WorkerFails,
         WorkerUnchanged, At
<1>2. ASSUME NEW code, Exit(i, code)
      PROVE  /\ NoNewAlive
             /\ \A j \in Ids : box'[j].seed = box[j].seed
             /\ \A j \in Ids : box[j].state # "running" => box'[j].state = box[j].state
  BY <1>1, <1>2, EndedIsDead DEF Exit
<1>3. ASSUME \A j \in Ids : box'[j].seed = box[j].seed /\ box'[j].state = box[j].state
      PROVE  /\ NoNewAlive
             /\ \A j \in Ids : box'[j].seed = box[j].seed
             /\ \A j \in Ids : box[j].state # "running" => box'[j].state = box[j].state
  BY <1>1, <1>3, SameStates
<1>4. CASE WorkerOpens(i)
  <2>1. CASE Exit(i, "error")
    BY <1>2, <2>1
  <2>2. CASE ~Exit(i, "error")
    <3>1. \A j \in Ids : box'[j].seed = box[j].seed /\ box'[j].state = box[j].state
      BY <1>1, <1>4, <2>2 DEF WorkerOpens, Containers
    <3>2. QED
      BY <1>3, <3>1
  <2>3. QED
    BY <2>1, <2>2
<1>5. CASE WorkerPublishes(i) \/ WorkerSaves(i)
  <2>1. \A j \in Ids : box'[j].seed = box[j].seed /\ box'[j].state = box[j].state
    BY <1>1, <1>5 DEF WorkerPublishes, WorkerSaves, Containers
  <2>2. QED
    BY <1>3, <2>1
<1>6. CASE WorkerCloses(i) \/ WorkerFails(i)
  BY <1>2, <1>6 DEF WorkerCloses, WorkerFails
<1>7. QED
  BY <1>4, <1>5, <1>6

LEMMA CreateKeeps ==
    ASSUME OwnershipInv, NEW i \in Ids, Create(i)
    PROVE  /\ NoNewAlive
           /\ \A j \in Ids : box'[j].seed = box[j].seed
           /\ \A j \in Ids : box[j].state = "created" => box'[j].state = "created"
           /\ \A j \in Ids : Started(j)' = Started(j)
<1>1. box \in [Ids -> Containers] /\ daemon' = daemon \ {<<"create", i>>}
  BY DEF OwnershipInv, TypeOK, Create
<1>2. /\ \A j \in Ids : box'[j].seed = box[j].seed
      /\ \A j \in Ids : j # i => box'[j].state = box[j].state
      /\ box'[i].state = "created"
  BY <1>1 DEF Create, Containers
<1>3. \A j \in Ids : Started(j)' = Started(j)
  BY <1>1, CommandsDiffer DEF Started
<1>4. ~Started(i)
  BY DEF OwnershipInv, CommandsInOrder, InOrder, Create, Creating
<1>5. QED
  BY <1>2, <1>3, <1>4 DEF NoNewAlive, Alive

LEMMA StartKeeps ==
    ASSUME OwnershipInv, NEW i \in Ids, Start(i)
    PROVE  /\ NoNewAlive
           /\ \A j \in Ids : box'[j].seed = box[j].seed
           /\ \A j \in Ids : ~Started(j) => box'[j].state = box[j].state
           /\ \A j \in Ids : Started(j)' => Started(j)
<1>1. box \in [Ids -> Containers] /\ daemon' = daemon \ {<<"start", i>>} /\ Started(i)
  BY DEF OwnershipInv, TypeOK, Start, Started
<1>2. \A j \in Ids : Started(j)' = (Started(j) /\ j # i)
  BY <1>1, CommandsDiffer DEF Started
<1>3. CASE box[i].state = "created"
  <2>1. box' = [box EXCEPT ![i] = [box[i] EXCEPT !.state = "running"]]
    BY <1>3 DEF Start
  <2>2. /\ \A j \in Ids : box'[j].seed = box[j].seed
        /\ \A j \in Ids : j # i => box'[j].state = box[j].state
    BY <1>1, <2>1 DEF Containers
  <2>3. Alive(i)
    BY <1>1, <1>3 DEF Alive
  <2>4. QED
    BY <1>1, <1>2, <2>2, <2>3 DEF NoNewAlive, Alive
<1>4. CASE box[i].state # "created"
  <2>1. box' = box
    BY <1>4 DEF Start
  <2>2. QED
    BY <1>1, <1>2, <2>1 DEF NoNewAlive, Alive
<1>5. QED
  BY <1>3, <1>4

LEMMA LoseKeeps ==
    ASSUME OwnershipInv, NEW c \in daemon, Lose(c)
    PROVE  NoNewAlive /\ box' = box /\ \A j \in Ids : Started(j)' => Started(j)
BY DEF Lose, NoNewAlive, Alive, Started

LEMMA BeginCreateKeeps ==
    ASSUME OwnershipInv, NEW p \in Launchers, BeginCreate(p)
    PROVE  /\ NoNewAlive
           /\ \A j \in Ids : j # made + 1 => box'[j] = box[j]
           /\ box'[made + 1].seed = target[p] /\ made + 1 \in Ids
           /\ \A j \in Ids : Started(j)' = Started(j)
           /\ ~Started(made + 1)
<1>1. box \in [Ids -> Containers] /\ daemon' = daemon \cup {<<"create", made + 1>>}
      /\ made + 1 \in Ids
  BY BoundAssumption DEF OwnershipInv, TypeOK, BeginCreate, Ids
<1>2. /\ \A j \in Ids : j # made + 1 => box'[j] = box[j]
      /\ box'[made + 1].seed = target[p]
      /\ \A j \in Ids : box'[j].state = box[j].state
  BY <1>1 DEF BeginCreate, Containers
<1>3. \A j \in Ids : Started(j)' = Started(j)
  BY <1>1, CommandsDiffer DEF Started
<1>4. made + 1 > made
  BY BoundAssumption DEF OwnershipInv, TypeOK
<1>5. box[made + 1].state = "unborn" /\ ~Started(made + 1)
  BY <1>1, <1>4 DEF OwnershipInv, CommandsInOrder, InOrder
<1>6. QED
  BY <1>1, <1>2, <1>3, <1>5 DEF NoNewAlive, Alive

LEMMA IssueStartKeeps ==
    ASSUME OwnershipInv, NEW p \in Launchers, IssueStart(p)
    PROVE  /\ box' = box
           /\ \A j \in Ids : j # container[p] => Started(j)' = Started(j) /\ Alive(j)' = Alive(j)
<1>1. container[p] \in Ids
  BY OwnIds DEF IssueStart, OwnSteps
<1>2. box' = box /\ daemon' = daemon \cup {<<"start", container[p]>>}
  BY DEF IssueStart
<1>3. ASSUME NEW j \in Ids, j # container[p] PROVE Started(j)' = Started(j)
  BY <1>1, <1>2, <1>3, CommandsDiffer DEF Started
<1>4. QED
  BY <1>2, <1>3 DEF Alive

LEMMA RemovedKeeps ==
    ASSUME OwnershipInv, NEW p \in Launchers,
           RemoveAbandoned(p) \/ RemoveForRetry(p) \/ RemoveDone(p) \/ CleanUp(p)
    PROVE  /\ NoNewAlive
           /\ \A j \in Ids : box'[j].seed = box[j].seed
           /\ \A j \in Ids : box[j].seed # target[p] => box'[j] = box[j]
           /\ \A j \in Ids : Started(j)' = Started(j)
<1>1. ASSUME NEW i \in Ids, Removed(i), box[i].seed = target[p], daemon' = daemon
      PROVE  /\ NoNewAlive
             /\ \A j \in Ids : box'[j].seed = box[j].seed
             /\ \A j \in Ids : box[j].seed # target[p] => box'[j] = box[j]
             /\ \A j \in Ids : Started(j)' = Started(j)
  <2>1. /\ NoNewAlive /\ box'[i].seed = box[i].seed
        /\ \A j \in Ids : j # i => box'[j] = box[j]
    BY <1>1, EndedIsDead DEF Removed
  <2>2. QED
    BY <1>1, <2>1 DEF Started
<1>2. CASE RemoveAbandoned(p)
  <2>1. PICK i \in listed[p] : Removed(i)
    BY <1>2 DEF RemoveAbandoned
  <2>2. i \in Ids /\ box[i].seed = target[p]
    BY <1>2 DEF RemoveAbandoned, OwnershipInv, TypeOK, ListedHere
  <2>3. QED
    BY <1>1, <1>2, <2>1, <2>2 DEF RemoveAbandoned
<1>3. CASE RemoveForRetry(p) \/ RemoveDone(p) \/ CleanUp(p)
  <2>1. /\ pc[p] \in OwnSteps /\ daemon' = daemon /\ Removed(container[p])
    BY <1>3 DEF RemoveForRetry, RemoveDone, CleanUp, OwnSteps
  <2>2. QED
    BY <1>1, <2>1, OwnIds
<1>4. QED
  BY <1>2, <1>3

LEMMA AliveStep ==
    ASSUME OwnershipInv, [Next]_vars
    PROVE  NoNewAlive \/ \E p \in Launchers : IssueStart(p)
<1>1. ASSUME UNCHANGED dockerVars PROVE NoNewAlive
  BY <1>1, SameDocker
<1>2. ASSUME NEW p \in Launchers, LauncherStep(p), ~IssueStart(p) PROVE NoNewAlive
  <2>1. CASE RemoveAbandoned(p) \/ RemoveForRetry(p) \/ RemoveDone(p) \/ CleanUp(p)
    BY <2>1, RemovedKeeps
  <2>2. CASE BeginCreate(p)
    BY <2>2, BeginCreateKeeps
  <2>3. QED
    BY <1>1, <1>2, <2>1, <2>2
    DEF LauncherStep, RunAttempt, LockPrefix, Inspect, OpenPrefix, Fork, ClosePrefix, ListAbandoned,
        AbandonedGone, OutOfContainers, CreateReturns, WorkerReturns, Count
<1>3. ASSUME NEW p \in Launchers, Disturbance(p) PROVE NoNewAlive
  BY <1>1, <1>3 DEF Disturbance, Prepare, HostFails, Kill, CreateFails, Interrupt, RemoveFails
<1>4. ASSUME NEW i \in Ids, DockerStep(i) \/ WorkerStep(i) \/ WorkerFails(i) PROVE NoNewAlive
  BY <1>4, CreateKeeps, StartKeeps, WorkerKeeps DEF DockerStep, WorkerStep
<1>5. ASSUME NEW c \in daemon, Lose(c) PROVE NoNewAlive
  BY <1>5, LoseKeeps
<1>6. CASE UNCHANGED vars
  BY <1>1, <1>6 DEF vars
<1>7. QED
  BY <1>2, <1>3, <1>4, <1>5, <1>6 DEF Next

LEMMA OneAliveStep ==
    ASSUME OwnershipInv, [Next]_vars
    PROVE  OneAlive'
<1>1. CASE NoNewAlive
  BY <1>1 DEF NoNewAlive, OwnershipInv, OneAlive
<1>2. ASSUME NEW p \in Launchers, IssueStart(p) PROVE OneAlive'
  <2>1. /\ container[p] \in Ids /\ box[container[p]].seed = target[p] /\ pc[p] \in OwnSteps
    BY <1>2, OwnIds DEF IssueStart, OwnSteps
  <2>2. \A j \in Ids : Alive(j) /\ box[j].seed = target[p] => j = container[p]
    BY <2>1 DEF OwnershipInv, OthersDead, AliveOnlyFor
  <2>3. /\ box' = box
        /\ \A j \in Ids : j # container[p] => Alive(j)' = Alive(j)
    BY <1>2, IssueStartKeeps
  <2>4. QED
    BY <2>1, <2>2, <2>3 DEF OwnershipInv, OneAlive
<1>3. QED
  BY <1>1, <1>2, AliveStep

----------------------------------------------------------------------------
(* What is alive belongs to whoever owns the seed.                         *)

Untouched(q) ==
    pc'[q] = pc[q] /\ target'[q] = target[q] /\ container'[q] = container[q] /\ listed'[q] = listed[q]

Busy == {"remove_old", "create"} \cup OwnSteps

LEMMA UntouchedAlive ==
    ASSUME OwnershipInv, NoNewAlive, NEW q \in Launchers, Untouched(q)
    PROVE  AliveOnlyFor(q)'
BY DEF OwnershipInv, OthersDead, AliveOnlyFor, NoNewAlive, Untouched

LEMMA RestingAlive ==
    ASSUME NEW q \in Launchers, pc'[q] \notin Busy
    PROVE  AliveOnlyFor(q)'
BY DEF AliveOnlyFor, Busy

LEMMA OwnAlive ==
    ASSUME OwnershipInv, NoNewAlive, NEW q \in Launchers, pc[q] \in OwnSteps, pc'[q] \in OwnSteps,
           target'[q] = target[q], container'[q] = container[q]
    PROVE  AliveOnlyFor(q)'
BY DEF OwnershipInv, OthersDead, AliveOnlyFor, NoNewAlive, OwnSteps

LEMMA OthersUntouched ==
    ASSUME OwnershipInv, NEW p \in Launchers, LauncherStep(p) \/ Disturbance(p),
           NEW q \in Launchers, q # p
    PROVE  Untouched(q)
BY DEF LauncherStep, Disturbance, Untouched, OwnershipInv, TypeOK, Goto, Raise, Leave, launcherVars,
       RunAttempt, LockPrefix, Inspect, OpenPrefix, Fork, ClosePrefix, ListAbandoned, RemoveAbandoned,
       AbandonedGone, BeginCreate, OutOfContainers, CreateReturns, IssueStart, WorkerReturns,
       RemoveForRetry, RemoveDone, Count, CleanUp, Prepare, HostFails, Kill, CreateFails, Interrupt,
       RemoveFails

LEMMA ReturnsTo ==
    ASSUME OwnershipInv, NEW p \in Launchers, WorkerReturns(p)
    PROVE  \E step \in {"remove_done", "remove_retry", "clean_up"} : Goto(p, step)
<1>1. container[p] \in Ids
  BY OwnIds DEF WorkerReturns, OwnSteps
<1>2. box[container[p]].code \in {"ok", "credential", "error"}
  BY <1>1 DEF OwnershipInv, TypeOK, Containers
<1>3. QED
  BY <1>2 DEF WorkerReturns

LEMMA LauncherUnchanged ==
    ASSUME [Next]_vars, ~\E p \in Launchers : LauncherStep(p) \/ Disturbance(p)
    PROVE  UNCHANGED launcherVars
BY DEF Next, vars, DockerStep, Create, Start, Lose, WorkerStep, WorkerOpens, WorkerPublishes, WorkerSaves,
       WorkerCloses, WorkerFails, WorkerUnchanged

\* What the step of p leaves alive of its own.
LEMMA MoverAlive ==
    ASSUME OwnershipInv, NEW p \in Launchers, LauncherStep(p) \/ Disturbance(p)
    PROVE  AliveOnlyFor(p)'
<1>1. pc \in [Launchers -> Steps] /\ container \in [Launchers -> 0 .. MaxContainers]
      /\ listed \in [Launchers -> SUBSET Ids] /\ box \in [Ids -> Containers]
      /\ target \in [Launchers -> Seeds]
  BY DEF OwnershipInv, TypeOK
<1>2. CASE \/ Prepare(p) \/ RunAttempt(p) \/ LockPrefix(p) \/ Inspect(p) \/ OpenPrefix(p) \/ Fork(p)
           \/ ClosePrefix(p) \/ Count(p) \/ HostFails(p) \/ Kill(p) \/ OutOfContainers(p)
           \/ CleanUp(p) \/ RemoveFails(p) \/ RemoveDone(p)
  <2>1. pc'[p] \notin Busy
    BY <1>1, <1>2
    DEF Prepare, RunAttempt, LockPrefix, Inspect, OpenPrefix, Fork, ClosePrefix, Count, HostFails, Kill,
        OutOfContainers, CleanUp, RemoveFails, RemoveDone, Raise, Leave, Goto, Busy, OwnSteps
  <2>2. QED
    BY <2>1, RestingAlive
<1>3. CASE CreateReturns(p) \/ CreateFails(p) \/ Interrupt(p) \/ WorkerReturns(p)
  <2>1. pc[p] \in OwnSteps /\ target' = target /\ container' = container /\ UNCHANGED dockerVars
    BY <1>3 DEF CreateReturns, CreateFails, Interrupt, WorkerReturns, OwnSteps
  <2>2. pc'[p] \in {"start", "clean_up", "remove_done", "remove_retry"}
    <3>1. CASE ~WorkerReturns(p)
      BY <1>1, <1>3, <3>1 DEF CreateReturns, CreateFails, Interrupt, Goto
    <3>2. CASE WorkerReturns(p)
      BY <1>1, <3>2, ReturnsTo DEF Goto
    <3>3. QED
      BY <3>1, <3>2
  <2>3. QED
    BY <2>1, <2>2, OwnAlive, SameDocker DEF OwnSteps
<1>4. CASE ListAbandoned(p)
  <2>1. \A i \in Ids : Alive(i) => box[i].state \in {"created", "running", "exited"}
    BY DEF Alive, OwnershipInv, CommandsInOrder, InOrder
  <2>2. pc'[p] = "remove_old" /\ listed'[p] = Listing(target[p]) /\ target' = target /\ box' = box
        /\ UNCHANGED dockerVars
    BY <1>1, <1>4 DEF ListAbandoned, Goto, dockerVars
  <2>3. QED
    BY <2>1, <2>2, SameDocker DEF AliveOnlyFor, Listing, OwnSteps
<1>5. CASE RemoveAbandoned(p)
  <2>1. PICK i \in listed[p] : Removed(i) /\ listed' = [listed EXCEPT ![p] = @ \ {i}]
    BY <1>5 DEF RemoveAbandoned
  <2>2. i \in Ids /\ pc[p] = "remove_old" /\ UNCHANGED <<pc, target, container, daemon>>
    BY <1>1, <1>5 DEF RemoveAbandoned
  <2>3. NoNewAlive /\ ~Alive(i)'
    BY <2>1, <2>2, EndedIsDead DEF Removed
  <2>4. \A j \in Ids : box[j].seed = target[p] /\ Alive(j) => j \in listed[p]
    BY <2>2 DEF OwnershipInv, OthersDead, AliveOnlyFor
  <2>5. \A j \in Ids : box'[j].seed = target'[p] /\ Alive(j)' => j \in listed'[p]
    BY <1>1, <2>1, <2>2, <2>3, <2>4 DEF NoNewAlive
  <2>6. QED
    BY <2>2, <2>5 DEF AliveOnlyFor, OwnSteps
<1>6. CASE AbandonedGone(p) \/ RemoveForRetry(p) \/ BeginCreate(p)
  <2>1. ASSUME \A j \in Ids : ~(box'[j].seed = target'[p] /\ Alive(j)') PROVE AliveOnlyFor(p)'
    BY <2>1 DEF AliveOnlyFor
  <2>2. CASE AbandonedGone(p)
    <3>1. \A j \in Ids : ~(box[j].seed = target[p] /\ Alive(j))
      BY <2>2 DEF AbandonedGone, OwnershipInv, OthersDead, AliveOnlyFor
    <3>2. box' = box /\ target' = target /\ UNCHANGED dockerVars
      BY <2>2 DEF AbandonedGone, dockerVars
    <3>3. QED
      BY <2>1, <3>1, <3>2, SameDocker
  <2>3. CASE RemoveForRetry(p)
    <3>1. pc[p] \in OwnSteps /\ Removed(container[p]) /\ daemon' = daemon /\ target' = target
      BY <2>3 DEF RemoveForRetry, OwnSteps
    <3>2. PICK i \in Ids : i = container[p]
      BY <3>1, OwnIds
    <3>3. NoNewAlive /\ ~Alive(i)'
      BY <3>1, <3>2, EndedIsDead DEF Removed
    <3>4. \A j \in Ids : box[j].seed = target[p] /\ Alive(j) => j = i
      BY <3>1, <3>2 DEF OwnershipInv, OthersDead, AliveOnlyFor
    <3>5. QED
      BY <2>1, <3>1, <3>3, <3>4 DEF NoNewAlive
  <2>4. CASE BeginCreate(p)
    <3>1. \A j \in Ids : ~(box[j].seed = target[p] /\ Alive(j))
      BY <2>4 DEF BeginCreate, OwnershipInv, OthersDead, AliveOnlyFor
    <3>2. NoNewAlive /\ target' = target
      BY <2>4, BeginCreateKeeps DEF BeginCreate
    <3>3. QED
      BY <2>1, <3>1, <3>2 DEF NoNewAlive
  <2>5. QED
    BY <1>6, <2>2, <2>3, <2>4
<1>7. CASE IssueStart(p)
  <2>1. pc[p] \in OwnSteps /\ target' = target /\ container' = container /\ pc'[p] = "attached"
    BY <1>1, <1>7 DEF IssueStart, OwnSteps, Goto
  <2>2. \A j \in Ids : box[j].seed = target[p] /\ Alive(j) => j = container[p]
    BY <2>1 DEF OwnershipInv, OthersDead, AliveOnlyFor
  <2>3. QED
    BY <1>7, <2>1, <2>2, IssueStartKeeps DEF AliveOnlyFor
<1>8. QED
  BY <1>2, <1>3, <1>4, <1>5, <1>6, <1>7 DEF LauncherStep, Disturbance

LEMMA OthersDeadStep ==
    ASSUME OwnershipInv, [Next]_vars
    PROVE  OthersDead'
<1>1. ASSUME UNCHANGED launcherVars, NoNewAlive PROVE OthersDead'
  <2>1. \A q \in Launchers : Untouched(q)
    BY <1>1 DEF Untouched, launcherVars
  <2>2. QED
    BY <1>1, <2>1, UntouchedAlive DEF OthersDead
<1>2. ASSUME NEW p \in Launchers, LauncherStep(p) \/ Disturbance(p) PROVE OthersDead'
  <2>1. ASSUME NEW q \in Launchers, q # p PROVE AliveOnlyFor(q)'
    <3>1. Untouched(q)
      BY <1>2, <2>1, OthersUntouched
    <3>2. CASE NoNewAlive
      BY <3>1, <3>2, UntouchedAlive
    <3>3. CASE IssueStart(p)
      <4>1. container[p] \in Ids /\ box[container[p]].seed = target[p] /\ pc[p] \in OwnSteps
        BY <3>3, OwnIds DEF IssueStart, OwnSteps
      <4>2. CASE pc[q] \notin Busy
        BY <3>1, <4>2, RestingAlive DEF Untouched
      <4>3. CASE pc[q] \in Busy
        <5>1. target[q] # target[p]
          BY <2>1, <4>1, <4>3, TargetsDiffer, StepFacts DEF OwnershipInv, Busy, SandboxSteps
        <5>2. QED
          BY <3>1, <3>3, <4>1, <5>1, IssueStartKeeps
          DEF OwnershipInv, OthersDead, AliveOnlyFor, Untouched
      <4>4. QED
        BY <4>2, <4>3
    <3>4. CASE \E r \in Launchers : IssueStart(r)
      <4>1. PICK r \in Launchers : IssueStart(r)
        BY <3>4
      <4>2. r = p
        <5>1. pc'[r] = "attached" /\ pc[r] = "start"
          BY <4>1 DEF IssueStart, Goto, OwnershipInv, TypeOK
        <5>2. QED
          BY <1>2, <5>1, OthersUntouched DEF Untouched
      <4>3. QED
        BY <3>3, <4>1, <4>2
    <3>5. QED
      BY <3>2, <3>4, AliveStep
  <2>2. QED
    BY <1>2, <2>1, MoverAlive DEF OthersDead
<1>3. ASSUME NEW i \in Ids, DockerStep(i) \/ WorkerStep(i) \/ WorkerFails(i) PROVE OthersDead'
  <2>1. NoNewAlive
    BY <1>3, CreateKeeps, StartKeeps, WorkerKeeps DEF DockerStep, WorkerStep
  <2>2. UNCHANGED launcherVars
    BY <1>3 DEF DockerStep, Create, Start, WorkerStep, WorkerOpens, WorkerPublishes, WorkerSaves,
                WorkerCloses, WorkerFails, WorkerUnchanged
  <2>3. QED
    BY <1>1, <2>1, <2>2
<1>4. ASSUME NEW c \in daemon, Lose(c) PROVE OthersDead'
  BY <1>1, <1>4, LoseKeeps DEF Lose
<1>5. CASE UNCHANGED vars
  BY <1>1, <1>5, SameDocker DEF vars
<1>6. QED
  BY <1>2, <1>3, <1>4, <1>5 DEF Next

----------------------------------------------------------------------------
(* What a launcher has listed and what it works on.                        *)

\* Names and seeds of containers that exist do not change.
Steady == made \in Nat /\ made' \in Nat /\ made' >= made
          /\ \A j \in Ids : j <= made => box'[j].seed = box[j].seed

LEMMA SteadyStep ==
    ASSUME OwnershipInv, [Next]_vars
    PROVE  Steady
<1>1. made \in Nat /\ Ids \subseteq Nat
  BY BoundAssumption DEF OwnershipInv, TypeOK, Ids
<1>2. ASSUME UNCHANGED dockerVars PROVE Steady
  BY <1>1, <1>2 DEF Steady, dockerVars
<1>3. ASSUME NEW p \in Launchers, LauncherStep(p) PROVE Steady
  <2>1. CASE RemoveAbandoned(p) \/ RemoveForRetry(p) \/ RemoveDone(p) \/ CleanUp(p)
    <3>1. made' = made
      BY <2>1 DEF RemoveAbandoned, RemoveForRetry, RemoveDone, CleanUp
    <3>2. QED
      BY <1>1, <2>1, <3>1, RemovedKeeps DEF Steady
  <2>2. CASE BeginCreate(p)
    <3>1. made' = made + 1 /\ \A j \in Ids : j # made + 1 => box'[j] = box[j]
      BY <2>2, BeginCreateKeeps DEF BeginCreate
    <3>2. QED
      BY <1>1, <3>1 DEF Steady
  <2>3. CASE IssueStart(p)
    <3>1. made' = made /\ box' = box
      BY <2>3 DEF IssueStart
    <3>2. QED
      BY <1>1, <3>1 DEF Steady
  <2>4. QED
    BY <1>2, <1>3, <2>1, <2>2, <2>3
    DEF LauncherStep, RunAttempt, LockPrefix, Inspect, OpenPrefix, Fork, ClosePrefix, ListAbandoned,
        AbandonedGone, OutOfContainers, CreateReturns, WorkerReturns, Count
<1>4. ASSUME NEW p \in Launchers, Disturbance(p) PROVE Steady
  BY <1>2, <1>4 DEF Disturbance, Prepare, HostFails, Kill, CreateFails, Interrupt, RemoveFails
<1>5. ASSUME NEW i \in Ids, DockerStep(i) \/ WorkerStep(i) \/ WorkerFails(i) PROVE Steady
  <2>1. made' = made
    BY <1>5 DEF DockerStep, Create, Start, WorkerStep, WorkerOpens, WorkerPublishes, WorkerSaves,
                WorkerCloses, WorkerFails, WorkerUnchanged
  <2>2. \A j \in Ids : box'[j].seed = box[j].seed
    BY <1>5, CreateKeeps, StartKeeps, WorkerKeeps DEF DockerStep, WorkerStep
  <2>3. QED
    BY <1>1, <2>1, <2>2 DEF Steady
<1>6. ASSUME NEW c \in daemon, Lose(c) PROVE Steady
  BY <1>1, <1>6 DEF Lose, Steady
<1>7. CASE UNCHANGED vars
  BY <1>2, <1>7 DEF vars
<1>8. QED
  BY <1>3, <1>4, <1>5, <1>6, <1>7 DEF Next

LEMMA ListedStep ==
    ASSUME OwnershipInv, [Next]_vars
    PROVE  ListedHere'
<1> DEFINE Good(q) == pc[q] = "remove_old" => \A i \in listed[q] : i <= made /\ box[i].seed = target[q]
<1>1. Steady /\ Ids \subseteq Nat /\ listed \in [Launchers -> SUBSET Ids] /\ TypeOK
  BY SteadyStep, BoundAssumption DEF OwnershipInv, TypeOK, Ids
<1>2. ASSUME NEW q \in Launchers, Untouched(q) PROVE Good(q)'
  <2>1. CASE pc[q] # "remove_old"
    BY <1>2, <2>1 DEF Untouched
  <2>2. CASE pc[q] = "remove_old"
    <3>1. \A i \in listed[q] : i \in Ids /\ i <= made /\ box[i].seed = target[q]
      BY <1>1, <2>2 DEF OwnershipInv, ListedHere
    <3>2. \A i \in listed[q] : i <= made' /\ box'[i].seed = target[q]
      BY <1>1, <3>1 DEF Steady
    <3>3. QED
      BY <1>2, <3>2 DEF Untouched
  <2>3. QED
    BY <2>1, <2>2
<1>3. ASSUME NEW p \in Launchers, LauncherStep(p) \/ Disturbance(p) PROVE Good(p)'
  <2>1. CASE pc'[p] # "remove_old"
    BY <2>1
  <2>2. CASE ListAbandoned(p)
    <3>1. /\ box' = box /\ made' = made /\ target' = target
          /\ listed'[p] = Listing(target[p])
      BY <1>1, <2>2 DEF ListAbandoned, dockerVars, TypeOK
    <3>2. \A i \in Ids : box[i].state \in {"created", "running", "exited"} => i <= made
      BY <1>1 DEF OwnershipInv, CommandsInOrder, InOrder, Steady
    <3>3. QED
      BY <3>1, <3>2 DEF Listing
  <2>3. CASE RemoveAbandoned(p)
    <3>1. pc[p] = "remove_old" /\ target' = target /\ made' = made /\ listed'[p] \subseteq listed[p]
      BY <1>1, <2>3 DEF RemoveAbandoned
    <3>2. QED
      BY <1>1, <3>1 DEF Steady, OwnershipInv, ListedHere
  <2>4. CASE ~ListAbandoned(p) /\ ~RemoveAbandoned(p)
    <3>1. CASE WorkerReturns(p)
      BY <1>1, <3>1, ReturnsTo DEF TypeOK, Goto
    <3>2. CASE ~WorkerReturns(p)
      BY <1>1, <1>3, <2>4, <3>2
      DEF LauncherStep, Disturbance, TypeOK, Goto, Raise, Leave,
          RunAttempt, LockPrefix, Inspect, OpenPrefix, Fork, ClosePrefix, AbandonedGone, BeginCreate,
          OutOfContainers, CreateReturns, IssueStart, RemoveForRetry, RemoveDone, Count,
          CleanUp, Prepare, HostFails, Kill, CreateFails, Interrupt, RemoveFails
    <3>3. QED
      BY <3>1, <3>2
  <2>5. QED
    BY <2>2, <2>3, <2>4
<1>4. ASSUME UNCHANGED launcherVars PROVE \A q \in Launchers : Good(q)'
  BY <1>2, <1>4 DEF Untouched, launcherVars
<1>5. ASSUME NEW p \in Launchers, LauncherStep(p) \/ Disturbance(p) PROVE \A q \in Launchers : Good(q)'
  BY <1>2, <1>3, <1>5, OthersUntouched
<1>6. \A q \in Launchers : Good(q)'
  BY <1>4, <1>5, LauncherUnchanged
<1>7. QED
  BY <1>6 DEF ListedHere

\* A created container that was not started stays so, unless its owner acts.
LEMMA UnstartedStays ==
    ASSUME OwnershipInv, [Next]_vars, NEW c \in Ids, c <= made, ~Started(c),
           \A p \in Launchers : LauncherStep(p) /\ pc[p] \in Busy => target[p] # box[c].seed
    PROVE  ~Started(c)' /\ (box[c].state = "created" => box'[c].state = "created")
<1> DEFINE Goal == ~Started(c)' /\ (box[c].state = "created" => box'[c].state = "created")
<1>1. ASSUME UNCHANGED dockerVars PROVE Goal
  BY <1>1 DEF dockerVars, Started
<1>2. ASSUME NEW p \in Launchers, LauncherStep(p) PROVE Goal
  <2>1. CASE RemoveAbandoned(p) \/ RemoveForRetry(p) \/ RemoveDone(p) \/ CleanUp(p)
    <3>1. pc[p] \in Busy
      BY <2>1 DEF RemoveAbandoned, RemoveForRetry, RemoveDone, CleanUp, Busy, OwnSteps
    <3>2. target[p] # box[c].seed
      BY <1>2, <3>1
    <3>3. box'[c] = box[c] /\ Started(c)' = Started(c)
      BY <2>1, <3>2, RemovedKeeps
    <3>4. QED
      BY <3>3
  <2>2. CASE BeginCreate(p)
    <3>1. c # made + 1
      BY BoundAssumption DEF OwnershipInv, TypeOK, Ids
    <3>2. QED
      BY <2>2, <3>1, BeginCreateKeeps
  <2>3. CASE IssueStart(p)
    <3>1. pc[p] \in OwnSteps
      BY <2>3 DEF IssueStart, OwnSteps
    <3>2. container[p] # c
      BY <1>2, <3>1, OwnIds DEF Busy
    <3>3. QED
      BY <2>3, <3>2, IssueStartKeeps
  <2>4. QED
    BY <1>1, <1>2, <2>1, <2>2, <2>3
    DEF LauncherStep, RunAttempt, LockPrefix, Inspect, OpenPrefix, Fork, ClosePrefix, ListAbandoned,
        AbandonedGone, OutOfContainers, CreateReturns, WorkerReturns, Count
<1>3. ASSUME NEW p \in Launchers, Disturbance(p) PROVE Goal
  BY <1>1, <1>3 DEF Disturbance, Prepare, HostFails, Kill, CreateFails, Interrupt, RemoveFails
<1>4. ASSUME NEW i \in Ids, DockerStep(i) PROVE Goal
  BY <1>4, CreateKeeps, StartKeeps DEF DockerStep
<1>5. ASSUME NEW i \in Ids, WorkerStep(i) \/ WorkerFails(i) PROVE Goal
  <2>1. Started(c)' = Started(c)
    BY <1>5 DEF Started, WorkerStep, WorkerOpens, WorkerPublishes, WorkerSaves,
                WorkerCloses, WorkerFails, WorkerUnchanged
  <2>2. box[c].state # "running" => box'[c].state = box[c].state
    BY <1>5, WorkerKeeps DEF WorkerStep
  <2>3. QED
    BY <2>1, <2>2
<1>6. ASSUME NEW d \in daemon, Lose(d) PROVE Goal
  BY <1>6, LoseKeeps
<1>7. CASE UNCHANGED vars
  BY <1>1, <1>7 DEF vars
<1>8. QED
  BY <1>2, <1>3, <1>4, <1>5, <1>6, <1>7 DEF Next

LEMMA UntouchedOwn ==
    ASSUME OwnershipInv, [Next]_vars, NEW q \in Launchers, Untouched(q), pc[q] \in OwnSteps,
           \A p \in Launchers : LauncherStep(p) => p # q
    PROVE  OwnOf(q)'
<1>1. PICK c \in Ids : c = container[q]
  BY OwnIds
<1>2. c <= made /\ box[c].seed = target[q] /\ OwnOf(q)
  BY <1>1, OwnIds DEF OwnershipInv, OwnContainer
<1>3. \A p \in Launchers : LauncherStep(p) /\ pc[p] \in Busy => target[p] # box[c].seed
  BY <1>2, TargetsDiffer, StepFacts DEF OwnershipInv, Busy, SandboxSteps
<1>4. box'[c].seed = box[c].seed /\ c \in 1 .. made'
  BY <1>2, SteadyStep, BoundAssumption DEF Steady, Ids
<1>5. container'[q] = c /\ pc'[q] = pc[q] /\ target'[q] = target[q]
  BY <1>1 DEF Untouched
<1>6. CASE pc[q] \in {"creating", "start"}
  <2>1. ~Started(c) /\ (pc[q] = "start" => box[c].state = "created")
    BY <1>1, <1>2, <1>6 DEF OwnOf
  <2>2. ~Started(c)' /\ (pc[q] = "start" => box'[c].state = "created")
    BY <1>2, <1>3, <2>1, UnstartedStays
  <2>3. QED
    BY <1>2, <1>4, <1>5, <2>2 DEF OwnOf, Started
<1>7. CASE pc[q] \notin {"creating", "start"}
  BY <1>2, <1>4, <1>5, <1>7 DEF OwnOf
<1>8. QED
  BY <1>6, <1>7

LEMMA MoverOwn ==
    ASSUME OwnershipInv, NEW p \in Launchers, LauncherStep(p) \/ Disturbance(p), Steady,
           pc'[p] \in OwnSteps
    PROVE  OwnOf(p)'
<1>1. TypeOK
  BY DEF OwnershipInv
<1>2. CASE BeginCreate(p)
  <2>1. PICK n \in Ids : n = made + 1
    BY <1>2, BeginCreateKeeps
  <2>2. box'[n].seed = target[p] /\ ~Started(n)'
    BY <1>2, <2>1, BeginCreateKeeps
  <2>3. pc'[p] = "creating" /\ container'[p] = n /\ target'[p] = target[p] /\ made' = n
    BY <1>1, <1>2, <2>1 DEF BeginCreate, TypeOK, Goto
  <2>4. n \in 1 .. made'
    BY <2>3, BoundAssumption DEF Ids
  <2>5. QED
    BY <2>2, <2>3, <2>4 DEF OwnOf, Started
<1>3. CASE IssueStart(p) \/ CreateReturns(p) \/ CreateFails(p) \/ Interrupt(p) \/ WorkerReturns(p)
  <2>1. pc[p] \in OwnSteps /\ container' = container /\ target' = target /\ made' = made /\ box' = box
    BY <1>3 DEF IssueStart, CreateReturns, CreateFails, Interrupt, WorkerReturns, OwnSteps, dockerVars
  <2>2. OwnOf(p)
    BY <2>1 DEF OwnershipInv, OwnContainer
  <2>3. CASE CreateReturns(p)
    <3>1. pc[p] = "creating" /\ box[container[p]].state = "created" /\ daemon' = daemon
      BY <2>3 DEF CreateReturns, dockerVars
    <3>2. QED
      BY <2>1, <2>2, <3>1 DEF OwnOf, Started
  <2>4. CASE ~CreateReturns(p)
    <3>1. pc'[p] \notin {"creating", "start"}
      BY <1>1, <1>3, <2>4, ReturnsTo DEF IssueStart, CreateFails, Interrupt, Goto, TypeOK
    <3>2. QED
      BY <2>1, <2>2, <3>1 DEF OwnOf
  <2>5. QED
    BY <2>3, <2>4
<1>4. CASE ~(BeginCreate(p) \/ IssueStart(p) \/ CreateReturns(p) \/ CreateFails(p) \/ Interrupt(p)
             \/ WorkerReturns(p))
  <2>1. pc'[p] \notin OwnSteps
    BY <1>1, <1>4
    DEF LauncherStep, Disturbance, TypeOK, Goto, Raise, Leave, OwnSteps,
        RunAttempt, LockPrefix, Inspect, OpenPrefix, Fork, ClosePrefix, ListAbandoned, RemoveAbandoned,
        AbandonedGone, OutOfContainers, RemoveForRetry, RemoveDone, Count,
        CleanUp, Prepare, HostFails, Kill, RemoveFails
  <2>2. QED
    BY <2>1
<1>5. QED
  BY <1>2, <1>3, <1>4

LEMMA OwnContainerStep ==
    ASSUME OwnershipInv, [Next]_vars
    PROVE  OwnContainer'
<1>1. Steady
  BY SteadyStep
<1>2. ASSUME NEW q \in Launchers, pc'[q] \in OwnSteps PROVE OwnOf(q)'
  <2>1. CASE LauncherStep(q) \/ Disturbance(q)
    BY <1>1, <1>2, <2>1, MoverOwn
  <2>2. CASE ~(LauncherStep(q) \/ Disturbance(q))
    <3>1. Untouched(q)
      <4>1. CASE \E p \in Launchers : LauncherStep(p) \/ Disturbance(p)
        BY <2>2, <4>1, OthersUntouched
      <4>2. CASE ~\E p \in Launchers : LauncherStep(p) \/ Disturbance(p)
        BY <4>2, LauncherUnchanged DEF Untouched, launcherVars
      <4>3. QED
        BY <4>1, <4>2
    <3>2. QED
      BY <1>2, <2>2, <3>1, UntouchedOwn DEF Untouched
  <2>3. QED
    BY <2>1, <2>2
<1>3. QED
  BY <1>2 DEF OwnContainer

----------------------------------------------------------------------------
(* What a step does to the archives.                                       *)

\* From one archive of a seed to the next: nothing that is saved is lost.
Builds(before, after) ==
    before.status \in {"running", "stopped"} =>
        /\ after.status \in {"running", "stopped"}
        /\ after.phases >= before.phases
        /\ before.status = "stopped" => after = before

BuildsAll == \A s \in Seeds : Builds(archive[s], archive'[s])

LEMMA SameBuilds ==
    ASSUME TypeOK, archive' = archive
    PROVE  BuildsAll
<1>1. \A s \in Seeds : archive[s].phases \in Nat
  BY ArchiveTypes, BoundAssumption DEF TypeOK
<1>2. QED
  BY <1>1 DEF BuildsAll, Builds

\* The worker in container i moves, and its seed with it.
Moves(i) ==
    /\ box[i].state = "running" /\ box'[i].seed = box[i].seed
    /\ \A j \in Ids : j # i => box'[j] = box[j]
    /\ \A s \in Seeds : s # box[i].seed => archive'[s] = archive[s]
    /\ Builds(archive[box[i].seed], archive'[box[i].seed])
    /\ Agrees(box'[i], archive'[box[i].seed])
    /\ box'[i].state = "exited" /\ box'[i].code = "ok" => archive'[box[i].seed].status = "stopped"

LEMMA EndedAgrees ==
    ASSUME TypeOK, NEW i \in Ids, NEW code \in {"ok", "credential", "error"}, Exit(i, code)
    PROVE  /\ box'[i].seed = box[i].seed /\ box'[i].code = code
           /\ \A j \in Ids : j # i => box'[j] = box[j]
           /\ \A saved : Agrees(box'[i], saved)
<1>1. box'[i] = [seed |-> box[i].seed, state |-> "exited", step |-> "open", memory |-> 0, code |-> code]
      /\ \A j \in Ids : j # i => box'[j] = box[j]
  BY DEF TypeOK, Exit, Ended
<1>2. box'[i].seed = box[i].seed /\ box'[i].code = code /\ box'[i].step = "open"
  BY <1>1
<1>3. QED
  BY <1>1, <1>2 DEF Agrees

LEMMA WorkerMoves ==
    ASSUME TypeOK, MemoryFollows, NEW i \in Ids, WorkerStep(i) \/ WorkerFails(i)
    PROVE  Moves(i)
<1> DEFINE s == box[i].seed
<1>0. /\ box[i] \in Containers /\ s \in Seeds /\ box[i].memory \in Nat
      /\ archive \in [Seeds -> Archives] /\ box \in [Ids -> Containers]
  <2>1. box[i] \in Containers
    BY DEF TypeOK
  <2>2. box[i].seed \in Seeds /\ box[i].memory \in 0 .. MaxPhases
    BY <2>1, RecordTypes
  <2>3. QED
    BY <2>1, <2>2, BoundAssumption DEF TypeOK
<1>a. /\ box[i] \in Containers /\ s \in Seeds /\ archive \in [Seeds -> Archives]
      /\ archive[s].phases \in Nat /\ box[i].memory \in Nat
      /\ box \in [Ids -> Containers] /\ Agrees(box[i], archive[s])
  <2>1. archive[s] \in Archives
    BY <1>0
  <2>2. archive[s].phases \in Nat
    BY <2>1, ArchiveTypes, BoundAssumption
  <2>3. Agrees(box[i], archive[s])
    BY DEF MemoryFollows
  <2>4. QED
    BY <1>0, <2>2, <2>3
<1> HIDE DEF s
<1>b. archive' = archive => Builds(archive[s], archive'[s])
  BY <1>a DEF Builds
<1>1. CASE WorkerOpens(i)
  <2>1. CASE Saved(s) /\ UNCHANGED archive
             /\ box' = [box EXCEPT ![i].memory = archive[s].phases,
                    ![i].step = IF archive[s].status = "stopped" THEN "close" ELSE "work"]
    <3>1. box'[i] = [box[i] EXCEPT !.memory = archive[s].phases,
                     !.step = IF archive[s].status = "stopped" THEN "close" ELSE "work"]
          /\ \A j \in Ids : j # i => box'[j] = box[j]
      BY <1>a, <2>1
    <3>2. /\ box'[i].seed = s /\ box'[i].state = "running" /\ box'[i].memory = archive[s].phases
          /\ box'[i].step = IF archive[s].status = "stopped" THEN "close" ELSE "work"
      BY <1>1, <1>a, <3>1 DEF WorkerOpens, At, Containers, s
    <3>3. Agrees(box'[i], archive'[s])
      BY <2>1, <3>2 DEF Agrees, Saved
    <3>4. QED
      BY <1>1, <1>b, <2>1, <3>1, <3>2, <3>3 DEF Moves, WorkerOpens, At, s
  <2>2. CASE archive[s] = Absent /\ archive' = [archive EXCEPT ![s].status = "torn"]
             /\ box' = [box EXCEPT ![i].step = "publish"]
    <3>1. /\ box'[i] = [box[i] EXCEPT !.step = "publish"]
          /\ \A j \in Ids : j # i => box'[j] = box[j]
          /\ \A t \in Seeds : t # s => archive'[t] = archive[t]
          /\ archive'[s].status = "torn"
      BY <1>a, <2>2 DEF Archives
    <3>2. box'[i].seed = s /\ box'[i].state = "running" /\ box'[i].step = "publish"
      BY <1>1, <1>a, <3>1 DEF WorkerOpens, At, Containers, s
    <3>3. Builds(archive[s], archive'[s]) /\ Agrees(box'[i], archive'[s])
      BY <2>2, <3>1, <3>2 DEF Builds, Agrees, Absent
    <3>4. QED
      BY <1>1, <3>1, <3>2, <3>3 DEF Moves, WorkerOpens, At, s
  <2>3. CASE Exit(i, "error") /\ UNCHANGED archive
    BY <1>1, <1>b, <2>3, EndedAgrees DEF Moves, WorkerOpens, At, s
  <2>4. QED
    BY <1>1, <2>1, <2>2, <2>3 DEF WorkerOpens, s
<1>2. CASE WorkerPublishes(i)
  <2>1. /\ archive' = [archive EXCEPT ![s] = [status |-> "running", phases |-> 0]]
        /\ box' = [box EXCEPT ![i].memory = 0, ![i].step = "work"]
        /\ box[i].state = "running" /\ archive[s].status = "torn"
    BY <1>2, <1>a DEF WorkerPublishes, At, Agrees, s
  <2>2. /\ box'[i] = [box[i] EXCEPT !.memory = 0, !.step = "work"]
        /\ \A j \in Ids : j # i => box'[j] = box[j]
        /\ \A t \in Seeds : t # s => archive'[t] = archive[t]
        /\ archive'[s].status = "running" /\ archive'[s].phases = 0
    BY <1>a, <2>1
  <2>3. box'[i].seed = s /\ box'[i].state = "running" /\ box'[i].step = "work" /\ box'[i].memory = 0
    BY <1>a, <2>1, <2>2 DEF Containers, s
  <2>4. Builds(archive[s], archive'[s]) /\ Agrees(box'[i], archive'[s])
    BY <2>1, <2>2, <2>3 DEF Builds, Agrees
  <2>5. QED
    BY <2>1, <2>2, <2>3, <2>4 DEF Moves, s
<1>3. CASE WorkerSaves(i)
  <2>1. PICK status \in {"running", "stopped"} :
          /\ archive' = [archive EXCEPT ![s] = [status |-> status, phases |-> box[i].memory + 1]]
          /\ box' = [box EXCEPT ![i].memory = box[i].memory + 1,
                                ![i].step = IF status = "stopped" THEN "close" ELSE "work"]
    BY <1>3 DEF WorkerSaves, s
  <2>2. box[i].state = "running" /\ archive[s].status = "running" /\ archive[s].phases = box[i].memory
    BY <1>3, <1>a DEF WorkerSaves, At, Agrees
  <2>3. /\ box'[i] = [box[i] EXCEPT !.memory = box[i].memory + 1,
                                    !.step = IF status = "stopped" THEN "close" ELSE "work"]
        /\ \A j \in Ids : j # i => box'[j] = box[j]
        /\ \A t \in Seeds : t # s => archive'[t] = archive[t]
        /\ archive'[s].status = status /\ archive'[s].phases = box[i].memory + 1
    BY <1>a, <2>1
  <2>4. /\ box'[i].seed = s /\ box'[i].state = "running" /\ box'[i].memory = box[i].memory + 1
        /\ box'[i].step = IF status = "stopped" THEN "close" ELSE "work"
    BY <1>a, <2>2, <2>3 DEF Containers, s
  <2>5. Builds(archive[s], archive'[s])
    BY <1>a, <2>2, <2>3 DEF Builds
  <2>6. Agrees(box'[i], archive'[s])
    BY <2>3, <2>4 DEF Agrees
  <2>7. QED
    BY <2>2, <2>3, <2>4, <2>5, <2>6 DEF Moves, s
<1>4. CASE WorkerCloses(i)
  <2>1. box[i].state = "running" /\ archive[s].status = "stopped" /\ archive' = archive /\ Exit(i, "ok")
    BY <1>4, <1>a DEF WorkerCloses, At, Agrees
  <2>2. QED
    BY <1>b, <2>1, EndedAgrees DEF Moves, s
<1>5. CASE WorkerFails(i)
  <2>1. PICK code \in {"credential", "error"} : Exit(i, code)
    BY <1>5 DEF WorkerFails
  <2>2. /\ \A j \in Ids : j # i => box'[j] = box[j]
        /\ box'[i].seed = s /\ box'[i].code # "ok" /\ Agrees(box'[i], archive'[s])
    BY <2>1, EndedAgrees DEF s
  <2>3. /\ \A t \in Seeds : t # s => archive'[t] = archive[t]
        /\ Builds(archive[s], archive'[s])
    <3>1. CASE archive' = archive
      BY <1>b, <3>1
    <3>2. CASE archive' # archive
      <4>1. box[i].step = "publish" /\ archive' = [archive EXCEPT ![s] = Absent]
        BY <1>5, <3>2 DEF WorkerFails, s
      <4>2. archive[s].status = "torn"
        BY <1>a, <4>1 DEF Agrees
      <4>3. QED
        BY <1>a, <4>1, <4>2 DEF Builds
    <3>3. QED
      BY <3>1, <3>2
  <2>4. QED
    BY <1>5, <2>2, <2>3 DEF Moves, WorkerFails, s
<1>6. QED
  BY <1>1, <1>2, <1>3, <1>4, <1>5 DEF WorkerStep

\* Any other step leaves the archives, but for a fork, and a container as it was or at its
\* beginning.
Rests == \A j \in Ids : box'[j] = box[j] \/ (box'[j].step = "open" /\ box'[j].state # "exited")

LEMMA EndedRests ==
    ASSUME TypeOK, NEW i \in Ids, Removed(i)
    PROVE  Rests
BY DEF TypeOK, Removed, Ended, Rests

LEMMA LauncherRests ==
    ASSUME OwnershipInv, MemoryFollows, NEW p \in Launchers, LauncherStep(p) \/ Disturbance(p)
    PROVE  Rests
<1>1. ASSUME box' = box PROVE Rests
  BY <1>1 DEF Rests
<1>2. CASE RemoveAbandoned(p)
  <2>1. PICK i \in listed[p] : Removed(i)
    BY <1>2 DEF RemoveAbandoned
  <2>2. QED
    BY <2>1, EndedRests DEF OwnershipInv, TypeOK
<1>3. CASE RemoveForRetry(p) \/ RemoveDone(p) \/ CleanUp(p)
  BY <1>3, OwnIds, EndedRests DEF RemoveForRetry, RemoveDone, CleanUp, OwnSteps, OwnershipInv
<1>4. CASE BeginCreate(p)
  <2>1. PICK n \in Ids : n = made + 1
    BY <1>4, BeginCreateKeeps
  <2>2. box'[n] = [box[n] EXCEPT !.seed = target[p]] /\ \A j \in Ids : j # n => box'[j] = box[j]
    BY <1>4, <2>1 DEF BeginCreate, OwnershipInv, TypeOK
  <2>3. box[n].state = "unborn" /\ box[n].step = "open" /\ box[n] \in Containers
    <3>1. n > made
      BY <2>1, BoundAssumption DEF OwnershipInv, TypeOK
    <3>2. QED
      BY <3>1 DEF OwnershipInv, CommandsInOrder, InOrder, MemoryFollows, Agrees, TypeOK
  <2>4. box'[n].step = "open" /\ box'[n].state = "unborn"
    BY <2>2, <2>3 DEF Containers
  <2>5. QED
    BY <2>2, <2>4 DEF Rests
<1>5. QED
  BY <1>1, <1>2, <1>3, <1>4
  DEF LauncherStep, Disturbance, Raise, dockerVars, RunAttempt, LockPrefix, Inspect, OpenPrefix, Fork,
      ClosePrefix, ListAbandoned, AbandonedGone, OutOfContainers, CreateReturns, IssueStart,
      WorkerReturns, Count, Prepare, HostFails, Kill, CreateFails, Interrupt, RemoveFails

LEMMA DockerRests ==
    ASSUME OwnershipInv, MemoryFollows, NEW i \in Ids, DockerStep(i)
    PROVE  Rests
<1>1. /\ box[i] \in Containers /\ box \in [Ids -> Containers]
      /\ box[i].state # "running" => box[i].step = "open"
  BY DEF OwnershipInv, TypeOK, MemoryFollows, Agrees
<1>2. CASE Create(i)
  <2>1. box[i].state \in {"unborn", "removed"}
    BY <1>2 DEF Create, Creating, OwnershipInv, CommandsInOrder, InOrder
  <2>2. box'[i] = [box[i] EXCEPT !.state = "created"] /\ \A j \in Ids : j # i => box'[j] = box[j]
    BY <1>1, <1>2 DEF Create
  <2>3. box'[i].step = "open" /\ box'[i].state = "created"
    BY <1>1, <2>1, <2>2 DEF Containers
  <2>4. QED
    BY <2>2, <2>3 DEF Rests
<1>3. CASE Start(i)
  <2>1. CASE box[i].state = "created"
    <3>1. box'[i] = [box[i] EXCEPT !.state = "running"] /\ \A j \in Ids : j # i => box'[j] = box[j]
      BY <1>1, <1>3, <2>1 DEF Start
    <3>2. box'[i].step = "open" /\ box'[i].state = "running"
      BY <1>1, <2>1, <3>1 DEF Containers
    <3>3. QED
      BY <3>1, <3>2 DEF Rests
  <2>2. CASE box[i].state # "created"
    BY <1>3, <2>2 DEF Start, Rests
  <2>3. QED
    BY <2>1, <2>2
<1>4. QED
  BY <1>2, <1>3 DEF DockerStep

----------------------------------------------------------------------------
(* Progress is kept.                                                       *)

Forks == \E p \in Launchers : Fork(p)
WorkerActs == \E i \in Ids : (WorkerStep(i) \/ WorkerFails(i)) /\ UNCHANGED <<base, launcherVars>>
Other == Rests /\ archive' = archive /\ base' = base

LEMMA StepKinds ==
    ASSUME OwnershipInv, KeptInv, [Next]_vars
    PROVE  Forks \/ WorkerActs \/ Other
<1>1. ASSUME box' = box, archive' = archive, base' = base PROVE Other
  BY <1>1 DEF Other, Rests
<1>2. ASSUME NEW p \in Launchers, LauncherStep(p) \/ Disturbance(p), ~Fork(p) PROVE Other
  <2>1. Rests
    BY <1>2, LauncherRests DEF KeptInv
  <2>2. archive' = archive /\ base' = base
    BY <1>2
    DEF LauncherStep, Disturbance, Raise, RunAttempt, LockPrefix, Inspect, OpenPrefix, ClosePrefix,
        ListAbandoned, RemoveAbandoned, AbandonedGone, BeginCreate, OutOfContainers, CreateReturns,
        IssueStart, WorkerReturns, RemoveForRetry, RemoveDone, Count, CleanUp, Prepare, HostFails, Kill,
        CreateFails, Interrupt, RemoveFails
  <2>3. QED
    BY <2>1, <2>2 DEF Other
<1>3. ASSUME NEW i \in Ids, DockerStep(i) PROVE Other
  <2>1. archive' = archive /\ base' = base
    BY <1>3 DEF DockerStep, Create, Start
  <2>2. QED
    BY <1>3, <2>1, DockerRests DEF Other, KeptInv
<1>4. ASSUME NEW i \in Ids, WorkerStep(i) \/ WorkerFails(i) PROVE WorkerActs
  BY <1>4 DEF WorkerActs, WorkerStep, WorkerOpens, WorkerPublishes, WorkerSaves, WorkerCloses,
              WorkerFails, WorkerUnchanged
<1>5. ASSUME NEW c \in daemon, Lose(c) PROVE Other
  BY <1>1, <1>5 DEF Lose
<1>6. CASE UNCHANGED vars
  BY <1>1, <1>6 DEF vars, dockerVars
<1>7. QED
  BY <1>2, <1>3, <1>4, <1>5, <1>6 DEF Next, Forks

\* A fork publishes where nothing was saved, and no worker is past opening.
LEMMA ForkBuilds ==
    ASSUME OwnershipInv, NEW p \in Launchers, Fork(p)
    PROVE  /\ BuildsAll /\ box' = box /\ arm[p] \in Arms
           /\ archive[arm[p]] = Absent /\ archive'[Prefix] = archive[Prefix]
           /\ archive[Prefix].status = "stopped"
           /\ \A s \in Seeds : s # arm[p] => archive'[s] = archive[s]
<1>1. /\ archive[arm[p]] = Absent /\ arm[p] \in Arms /\ arm[p] # Prefix
      /\ archive' = [archive EXCEPT ![arm[p]] = [status |-> "running", phases |-> 0]]
      /\ archive \in [Seeds -> Archives] /\ box' = box /\ archive[Prefix].status = "stopped"
  BY SeedAssumption DEF Fork, OwnershipInv, TypeOK, dockerVars
<1>2. \A s \in Seeds : s # arm[p] => archive'[s] = archive[s]
  BY <1>1
<1>3. \A s \in Seeds : archive[s].phases \in Nat
  BY <1>1, ArchiveTypes, BoundAssumption
<1>4. BuildsAll
  BY <1>1, <1>2, <1>3 DEF BuildsAll, Builds, Absent
<1>5. QED
  BY <1>1, <1>2, <1>4, SeedTypes

LEMMA ArchivesBuild ==
    ASSUME OwnershipInv, KeptInv, [Next]_vars
    PROVE  BuildsAll
<1>1. TypeOK /\ \A s \in Seeds : archive[s].phases \in Nat
  BY ArchiveTypes, BoundAssumption DEF OwnershipInv, TypeOK
<1>2. CASE Forks
  BY <1>2, ForkBuilds DEF Forks
<1>3. CASE WorkerActs
  <2>1. PICK i \in Ids : Moves(i)
    BY <1>1, <1>3, WorkerMoves DEF WorkerActs, KeptInv
  <2>2. ASSUME NEW s \in Seeds PROVE Builds(archive[s], archive'[s])
    BY <1>1, <2>1 DEF Moves, Builds
  <2>3. QED
    BY <2>2 DEF BuildsAll
<1>4. CASE Other
  BY <1>1, <1>4, SameBuilds DEF Other
<1>5. QED
  BY <1>2, <1>3, <1>4, StepKinds

LEMMA MemoryStep ==
    ASSUME OwnershipInv, KeptInv, [Next]_vars
    PROVE  MemoryFollows'
<1>1. TypeOK /\ \A j \in Ids : Agrees(box[j], archive[box[j].seed]) /\ box[j].seed \in Seeds
  BY RecordTypes DEF OwnershipInv, TypeOK, KeptInv, MemoryFollows
<1>2. CASE Forks
  <2>1. PICK p \in Launchers : Fork(p)
    BY <1>2 DEF Forks
  <2>2. box' = box /\ archive[arm[p]] = Absent /\ \A s \in Seeds : s # arm[p] => archive'[s] = archive[s]
    BY <2>1, ForkBuilds
  <2>3. ASSUME NEW j \in Ids PROVE Agrees(box'[j], archive'[box'[j].seed])
    <3>1. CASE box[j].seed = arm[p]
      <4>1. box[j].step \notin {"publish", "work", "close"}
        BY <1>1, <2>2, <3>1 DEF Agrees, Absent
      <4>2. QED
        BY <1>1, <2>2, <4>1 DEF Agrees
    <3>2. CASE box[j].seed # arm[p]
      BY <1>1, <2>2, <3>2
    <3>3. QED
      BY <3>1, <3>2
  <2>4. QED
    BY <2>3 DEF MemoryFollows
<1>3. CASE WorkerActs
  <2>1. PICK i \in Ids : Moves(i)
    BY <1>1, <1>3, WorkerMoves DEF WorkerActs, KeptInv
  <2>2. ASSUME NEW j \in Ids PROVE Agrees(box'[j], archive'[box'[j].seed])
    <3>1. CASE j = i
      BY <2>1, <3>1 DEF Moves
    <3>2. CASE j # i /\ box[j].seed # box[i].seed
      BY <1>1, <2>1, <3>2 DEF Moves
    <3>3. CASE j # i /\ box[j].seed = box[i].seed
      <4>1. box'[j] = box[j] /\ box[j].state # "running"
        BY <2>1, <3>3 DEF Moves, OwnershipInv, OneAlive, Alive
      <4>2. QED
        BY <1>1, <4>1 DEF Agrees
    <3>4. QED
      BY <3>1, <3>2, <3>3
  <2>3. QED
    BY <2>2 DEF MemoryFollows
<1>4. CASE Other
  <2>1. ASSUME NEW j \in Ids PROVE Agrees(box'[j], archive'[box'[j].seed])
    <3>1. CASE box'[j] = box[j]
      BY <1>1, <1>4, <3>1 DEF Other
    <3>2. CASE box'[j].step = "open"
      BY <3>2 DEF Agrees
    <3>3. QED
      BY <1>4, <3>1, <3>2 DEF Other, Rests
  <2>2. QED
    BY <2>1 DEF MemoryFollows
<1>5. QED
  BY <1>2, <1>3, <1>4, StepKinds

\* Stopped seeds stay as they are.
LEMMA StoppedStays ==
    ASSUME BuildsAll, NEW s \in Seeds, archive[s].status = "stopped"
    PROVE  archive'[s] = archive[s] /\ archive'[s].status = "stopped"
BY DEF BuildsAll, Builds

Succeeded(b) == b.state = "exited" /\ b.code = "ok"

LEMMA SucceededStep ==
    ASSUME OwnershipInv, KeptInv, [Next]_vars, NEW j \in Ids, Succeeded(box'[j])
    PROVE  archive'[box'[j].seed].status = "stopped"
<1>1. TypeOK /\ box[j].seed \in Seeds /\ BuildsAll
  BY RecordTypes, ArchivesBuild DEF OwnershipInv, TypeOK
<1>2. ASSUME box'[j] = box[j] PROVE archive'[box'[j].seed].status = "stopped"
  BY <1>1, <1>2, StoppedStays DEF KeptInv, SuccessMeansStopped, Succeeded
<1>3. CASE Forks
  BY <1>2, <1>3, ForkBuilds DEF Forks
<1>4. CASE WorkerActs
  <2>1. PICK i \in Ids : Moves(i)
    BY <1>1, <1>4, WorkerMoves DEF WorkerActs, KeptInv
  <2>2. QED
    BY <1>2, <2>1 DEF Moves, Succeeded
<1>5. CASE Other
  BY <1>2, <1>5 DEF Other, Rests, Succeeded
<1>6. QED
  BY <1>3, <1>4, <1>5, StepKinds

\* What a launcher believes of its seed.
Believes(p) ==
    /\ target[p] \in {arm[p], Prefix}
    /\ pc[p] = "remove_done" => archive[target[p]].status = "stopped"
    /\ pc[p] = "completed" => archive[arm[p]].status = "stopped"

LEMMA MoverBelieves ==
    ASSUME OwnershipInv, KeptInv, BuildsAll, NEW p \in Launchers, LauncherStep(p) \/ Disturbance(p)
    PROVE  Believes(p)'
<1>1. /\ arm' = arm /\ target \in [Launchers -> Seeds] /\ pc \in [Launchers -> Steps]
      /\ target[p] \in {arm[p], Prefix} /\ arm[p] \in Seeds /\ target[p] \in Seeds
  <2>1. arm' = arm
    BY DEF LauncherStep, Disturbance, Raise, Leave, RunAttempt, LockPrefix, Inspect, OpenPrefix, Fork,
           ClosePrefix, ListAbandoned, RemoveAbandoned, AbandonedGone, BeginCreate, OutOfContainers,
           CreateReturns, IssueStart, WorkerReturns, RemoveForRetry, RemoveDone, Count, CleanUp,
           Prepare, HostFails, Kill, CreateFails, Interrupt, RemoveFails, launcherVars
  <2>2. QED
    BY <2>1, SeedTypes DEF OwnershipInv, TypeOK, KeptInv, SuccessMeansStopped
<1>2. target'[p] \in {arm[p], Prefix}
  <2>1. target' = target \/ target' = [target EXCEPT ![p] = arm[p]]
        \/ target' = [target EXCEPT ![p] = Prefix]
    BY DEF LauncherStep, Disturbance, Raise, Leave, RunAttempt, LockPrefix, Inspect, OpenPrefix, Fork,
           ClosePrefix, ListAbandoned, RemoveAbandoned, AbandonedGone, BeginCreate, OutOfContainers,
           CreateReturns, IssueStart, WorkerReturns, RemoveForRetry, RemoveDone, Count, CleanUp,
           Prepare, HostFails, Kill, CreateFails, Interrupt, RemoveFails, launcherVars
  <2>2. QED
    BY <1>1, <2>1
<1>3. CASE WorkerReturns(p)
  <2>1. /\ pc[p] \in OwnSteps /\ target' = target /\ archive' = archive
        /\ box[container[p]].state = "exited"
    BY <1>3 DEF WorkerReturns, OwnSteps
  <2>2. container[p] \in Ids /\ box[container[p]].seed = target[p]
    BY <2>1, OwnIds
  <2>3. pc'[p] \in {"remove_done", "remove_retry", "clean_up"}
        /\ (pc'[p] = "remove_done" => box[container[p]].code = "ok")
    <3>1. box[container[p]].code \in {"ok", "credential", "error"}
      BY <2>2 DEF OwnershipInv, TypeOK, Containers
    <3>2. QED
      BY <1>1, <1>3, <3>1 DEF WorkerReturns, Goto
  <2>4. pc'[p] = "remove_done" => archive'[target[p]].status = "stopped"
    BY <2>1, <2>2, <2>3 DEF KeptInv, SuccessMeansStopped
  <2>5. QED
    BY <1>1, <1>2, <2>1, <2>3, <2>4 DEF Believes
<1>4. CASE RemoveDone(p)
  <2>1. pc[p] = "remove_done" /\ archive' = archive /\ archive[target[p]].status = "stopped"
    BY <1>4 DEF RemoveDone, KeptInv, SuccessMeansStopped
  <2>2. CASE target[p] = Prefix
    BY <1>1, <1>2, <1>4, <2>2 DEF RemoveDone, Goto, Believes
  <2>3. CASE target[p] # Prefix
    <3>1. pc'[p] = "completed" /\ target[p] = arm[p]
      BY <1>1, <1>4, <2>3 DEF RemoveDone, Leave, Goto
    <3>2. QED
      BY <1>1, <1>2, <2>1, <3>1 DEF Believes
  <2>4. QED
    BY <2>2, <2>3
<1>5. CASE ~WorkerReturns(p) /\ ~RemoveDone(p)
  <2>1. pc'[p] \notin {"remove_done", "completed"} \/ (pc'[p] = pc[p] /\ pc[p] \notin {"remove_done", "completed"})
    BY <1>1, <1>5
    DEF LauncherStep, Disturbance, Goto, Raise, Leave, RunAttempt, LockPrefix, Inspect, OpenPrefix, Fork,
        ClosePrefix, ListAbandoned, RemoveAbandoned, AbandonedGone, BeginCreate, OutOfContainers,
        CreateReturns, IssueStart, RemoveForRetry, Count, CleanUp, Prepare, HostFails, Kill,
        CreateFails, Interrupt, RemoveFails
  <2>2. QED
    BY <1>1, <1>2, <2>1 DEF Believes
<1>6. QED
  BY <1>3, <1>4, <1>5

LEMMA BelievesStep ==
    ASSUME OwnershipInv, KeptInv, [Next]_vars, NEW q \in Launchers
    PROVE  Believes(q)'
<1>1. BuildsAll
  BY ArchivesBuild
<1>2. ASSUME Untouched(q), arm' = arm PROVE Believes(q)'
  <2>1. arm[q] \in Seeds /\ target[q] \in Seeds
    BY SeedTypes DEF OwnershipInv, TypeOK
  <2>2. Believes(q)
    BY DEF Believes, KeptInv, SuccessMeansStopped, CompletedHasStopped
  <2>3. QED
    BY <1>1, <1>2, <2>1, <2>2, StoppedStays DEF Believes, Untouched
<1>3. ASSUME NEW p \in Launchers, LauncherStep(p) \/ Disturbance(p) PROVE Believes(q)'
  <2>1. arm' = arm
    BY <1>3
    DEF LauncherStep, Disturbance, Raise, Leave, RunAttempt, LockPrefix, Inspect, OpenPrefix, Fork,
        ClosePrefix, ListAbandoned, RemoveAbandoned, AbandonedGone, BeginCreate, OutOfContainers,
        CreateReturns, IssueStart, WorkerReturns, RemoveForRetry, RemoveDone, Count, CleanUp,
        Prepare, HostFails, Kill, CreateFails, Interrupt, RemoveFails, launcherVars
  <2>2. CASE p = q
    BY <1>1, <1>3, <2>2, MoverBelieves
  <2>3. CASE p # q
    BY <1>2, <1>3, <2>1, <2>3, OthersUntouched
  <2>4. QED
    BY <2>2, <2>3
<1>4. CASE ~\E p \in Launchers : LauncherStep(p) \/ Disturbance(p)
  BY <1>2, <1>4, LauncherUnchanged DEF Untouched, launcherVars
<1>5. QED
  BY <1>3, <1>4

LEMMA ForkedStep ==
    ASSUME OwnershipInv, KeptInv, [Next]_vars
    PROVE  ArmsSharePrefix'
<1>1. ASSUME base' = base PROVE ArmsSharePrefix'
  <2>1. ASSUME NEW a \in Arms, base[a] # Absent
        PROVE  base[a] = archive'[Prefix] /\ base[a].status = "stopped"
    BY <2>1, ArchivesBuild, StoppedStays, SeedTypes DEF KeptInv, ArmsSharePrefix
  <2>2. QED
    BY <1>1, <2>1 DEF ArmsSharePrefix
<1>2. ASSUME NEW p \in Launchers, Fork(p) PROVE ArmsSharePrefix'
  <2>1. archive'[Prefix] = archive[Prefix] /\ archive[Prefix].status = "stopped"
    BY <1>2, ForkBuilds
  <2>2. \A a \in Arms : base'[a] = base[a] \/ base'[a] = archive[Prefix]
    BY <1>2 DEF Fork, OwnershipInv, TypeOK
  <2>3. QED
    BY <2>1, <2>2 DEF KeptInv, ArmsSharePrefix
<1>3. QED
  BY <1>1, <1>2, StepKinds DEF Forks, WorkerActs, Other

LEMMA KeptInit == Init => KeptInv
BY DEF Init, KeptInv, MemoryFollows, Agrees, SuccessMeansStopped, ArmsSharePrefix, CompletedHasStopped

LEMMA KeptStep ==
    ASSUME OwnershipInv, KeptInv, [Next]_vars
    PROVE  KeptInv'
<1>1. \A j \in Ids : Succeeded(box'[j]) => archive'[box'[j].seed].status = "stopped"
  BY SucceededStep
<1>2. \A q \in Launchers : Believes(q)'
  BY BelievesStep
<1>3. SuccessMeansStopped' /\ CompletedHasStopped'
  BY <1>1, <1>2 DEF SuccessMeansStopped, CompletedHasStopped, Succeeded, Believes
<1>4. QED
  BY <1>3, MemoryStep, ForkedStep DEF KeptInv

----------------------------------------------------------------------------
(* What is saved is what ContinuedWork lets be saved.                      *)

LEMMA SavedStays ==
    ASSUME BuildsAll, NEW s \in Seeds, Saved(s)
    PROVE  archive'[s].status \in {"running", "stopped"}
BY DEF BuildsAll, Builds, Saved

\* A container is of one seed for as long as it is known.
LEMMA SeedsStay ==
    ASSUME OwnershipInv, KeptInv, [Next]_vars, NEW j \in Ids
    PROVE  \/ box'[j].seed = box[j].seed
           \/ \E p \in Launchers : BeginCreate(p) /\ box'[j].seed = target[p] /\ archive' = archive
<1>1. /\ TypeOK /\ box \in [Ids -> Containers]
      /\ \A i \in Ids : [box[i] EXCEPT !.state = "created"].seed = box[i].seed
      /\ \A i \in Ids : [box[i] EXCEPT !.state = "running"].seed = box[i].seed
  BY DEF OwnershipInv, TypeOK, Containers
<1>2. CASE box' = box
  BY <1>2
<1>3. ASSUME NEW p \in Launchers, LauncherStep(p) \/ Disturbance(p), box' # box
      PROVE  \/ box'[j].seed = box[j].seed
             \/ BeginCreate(p) /\ box'[j].seed = target[p] /\ archive' = archive
  <2>1. CASE RemoveAbandoned(p) \/ RemoveForRetry(p) \/ RemoveDone(p) \/ CleanUp(p)
    BY <2>1, RemovedKeeps
  <2>2. CASE BeginCreate(p)
    BY <2>2, BeginCreateKeeps DEF BeginCreate
  <2>3. QED
    BY <1>3, <2>1, <2>2
    DEF LauncherStep, Disturbance, Raise, dockerVars, RunAttempt, LockPrefix, Inspect, OpenPrefix, Fork,
        ClosePrefix, ListAbandoned, AbandonedGone, OutOfContainers, CreateReturns, IssueStart,
        WorkerReturns, Count, Prepare, HostFails, Kill, CreateFails, Interrupt, RemoveFails
<1>4. ASSUME NEW i \in Ids, Create(i) \/ Start(i) PROVE box'[j].seed = box[j].seed
  BY <1>1, <1>4 DEF Create, Start
<1>5. ASSUME NEW i \in Ids, WorkerStep(i) \/ WorkerFails(i) PROVE box'[j].seed = box[j].seed
  BY <1>1, <1>5, WorkerMoves DEF Moves, KeptInv
<1>6. QED
  BY <1>2, <1>3, <1>4, <1>5 DEF Next, DockerStep, Lose, vars, dockerVars

\* Who works on an arm, or is about to, has been through its fork.
WorksOn(p) == pc[p] = "close" \/ (pc[p] \in SandboxSteps /\ target[p] # Prefix)

LEMMA MoverWorksOn ==
    ASSUME OwnershipInv, KeptInv, NEW p \in Launchers, LauncherStep(p) \/ Disturbance(p), WorksOn(p)'
    PROVE  \/ WorksOn(p) \/ Saved(arm[p])
           \/ archive'[arm[p]] = [status |-> "running", phases |-> 0]
<1>1. /\ target \in [Launchers -> Seeds] /\ pc \in [Launchers -> Steps] /\ arm[p] \in Arms
      /\ archive \in [Seeds -> Archives] /\ arm[p] \in Seeds
  BY SeedTypes DEF OwnershipInv, TypeOK
<1>2. CASE Fork(p)
  BY <1>1, <1>2 DEF Fork
<1>3. CASE RunAttempt(p)
  BY <1>1, <1>3 DEF RunAttempt, Goto, WorksOn, SandboxSteps, OwnSteps
<1>4. CASE Inspect(p)
  BY <1>1, <1>4 DEF Inspect, Goto, WorksOn, SandboxSteps, OwnSteps
<1>5. CASE ClosePrefix(p)
  BY <1>5 DEF ClosePrefix, WorksOn
<1>6. CASE Raise(p) \/ RemoveDone(p)
  BY <1>1, <1>6 DEF Raise, RemoveDone, Leave, Goto, WorksOn, SandboxSteps, OwnSteps
<1>7. CASE WorkerReturns(p)
  BY <1>1, <1>7, ReturnsTo DEF WorkerReturns, Goto, WorksOn, SandboxSteps, OwnSteps
<1>8. CASE \/ ListAbandoned(p) \/ RemoveAbandoned(p) \/ AbandonedGone(p) \/ BeginCreate(p)
           \/ CreateReturns(p) \/ IssueStart(p) \/ RemoveForRetry(p) \/ CreateFails(p) \/ Interrupt(p)
  BY <1>1, <1>8
  DEF ListAbandoned, RemoveAbandoned, AbandonedGone, BeginCreate, CreateReturns, IssueStart,
      RemoveForRetry, CreateFails, Interrupt, Goto, WorksOn, SandboxSteps, OwnSteps
<1>9. CASE LockPrefix(p) \/ OpenPrefix(p) \/ Count(p) \/ Prepare(p)
  BY <1>1, <1>9 DEF LockPrefix, OpenPrefix, Count, Prepare, Goto, WorksOn, SandboxSteps, OwnSteps
<1>10. QED
  BY <1>2, <1>3, <1>4, <1>5, <1>6, <1>7, <1>8, <1>9
  DEF LauncherStep, Disturbance, OutOfContainers, CleanUp, HostFails, Kill, RemoveFails

LEMMA ForkedFirst ==
    ASSUME OwnershipInv, KeptInv, ArmsAreForked, [Next]_vars
    PROVE  ArmsAreForked'
<1>1. /\ BuildsAll /\ \A p \in Launchers : arm[p] \in Seeds /\ target[p] \in Seeds
      /\ \A i \in Ids : box[i].seed \in Seeds
  BY ArchivesBuild, SeedTypes, RecordTypes DEF OwnershipInv, TypeOK
<1>2. \A p \in Launchers : WorksOn(p) => Saved(arm[p])
  BY DEF ArmsAreForked, WorksOn
<1>3. arm' = arm
  BY DEF Next, vars, launcherVars, LauncherStep, Disturbance, Raise, RunAttempt, LockPrefix, Inspect,
         OpenPrefix, Fork, ClosePrefix, ListAbandoned, RemoveAbandoned, AbandonedGone, BeginCreate,
         OutOfContainers, CreateReturns, IssueStart, WorkerReturns, RemoveForRetry, RemoveDone, Count,
         CleanUp, Prepare, HostFails, Kill, CreateFails, Interrupt, RemoveFails, DockerStep, Create,
         Start, Lose, WorkerStep, WorkerOpens, WorkerPublishes, WorkerSaves, WorkerCloses, WorkerFails,
         WorkerUnchanged
<1>4. ASSUME NEW q \in Launchers, WorksOn(q)'
      PROVE  archive'[arm'[q]].status \in {"running", "stopped"}
  <2>1. CASE Untouched(q)
    BY <1>1, <1>2, <1>3, <1>4, <2>1, SavedStays DEF Untouched, WorksOn
  <2>2. CASE LauncherStep(q) \/ Disturbance(q)
    BY <1>1, <1>2, <1>3, <1>4, <2>2, MoverWorksOn, SavedStays
  <2>3. ASSUME NEW p \in Launchers, LauncherStep(p) \/ Disturbance(p), p # q PROVE Untouched(q)
    BY <2>3, OthersUntouched
  <2>4. CASE ~\E p \in Launchers : LauncherStep(p) \/ Disturbance(p)
    BY <2>1, <2>4, LauncherUnchanged DEF Untouched, launcherVars
  <2>5. QED
    BY <2>1, <2>2, <2>3, <2>4
<1>5. ASSUME NEW j \in Ids, box'[j].seed # Prefix
      PROVE  archive'[box'[j].seed].status \in {"running", "stopped"}
  <2>1. CASE box'[j].seed = box[j].seed
    BY <1>1, <1>5, <2>1, SavedStays DEF ArmsAreForked
  <2>2. ASSUME NEW p \in Launchers, BeginCreate(p), box'[j].seed = target[p], archive' = archive
        PROVE  archive'[box'[j].seed].status \in {"running", "stopped"}
    <3>1. WorksOn(p) /\ target[p] = arm[p]
      BY <1>5, <2>2 DEF BeginCreate, WorksOn, SandboxSteps, KeptInv, SuccessMeansStopped
    <3>2. QED
      BY <1>2, <2>2, <3>1 DEF Saved
  <2>3. QED
    BY <2>1, <2>2, SeedsStay
<1>6. QED
  BY <1>4, <1>5 DEF ArmsAreForked, WorksOn, Saved

\* What a worker does to the archive of its seed.
LEMMA WorkerSavesOnly ==
    ASSUME OwnershipInv, KeptInv, NEW i \in Ids, WorkerStep(i) \/ WorkerFails(i), archive' # archive
    PROVE  LET s == box[i].seed IN
           \/ /\ ~Saved(s) /\ archive'[s].status \in {"absent", "torn"}
              /\ archive' = [archive EXCEPT ![s] = archive'[s]]
           \/ /\ archive[s].status = "torn"
              /\ archive' = [archive EXCEPT ![s] = [status |-> "running", phases |-> 0]]
           \/ /\ archive[s].status = "running"
              /\ \E status \in {"running", "stopped"} :
                    archive' = [archive EXCEPT ![s] =
                                  [status |-> status, phases |-> archive[s].phases + 1]]
<1> DEFINE s == box[i].seed
<1>1. /\ s \in Seeds /\ archive \in [Seeds -> Archives] /\ Agrees(box[i], archive[s])
      /\ archive[s] \in Archives
  BY RecordTypes DEF OwnershipInv, TypeOK, KeptInv, MemoryFollows
<1> HIDE DEF s
<1>2. CASE WorkerOpens(i)
  <2>1. archive[s] = Absent /\ archive' = [archive EXCEPT ![s].status = "torn"]
    BY <1>2 DEF WorkerOpens, s
  <2>2. archive'[s].status = "torn" /\ archive' = [archive EXCEPT ![s] = archive'[s]]
    BY <1>1, <2>1 DEF Archives
  <2>3. QED
    BY <2>1, <2>2 DEF Absent, Saved, s
<1>3. CASE WorkerPublishes(i)
  BY <1>1, <1>3 DEF WorkerPublishes, At, Agrees, s
<1>4. CASE WorkerSaves(i)
  BY <1>1, <1>4 DEF WorkerSaves, At, Agrees, s
<1>5. CASE WorkerFails(i)
  <2>1. box[i].step = "publish" /\ archive' = [archive EXCEPT ![s] = Absent]
    BY <1>5 DEF WorkerFails, s
  <2>2. ~Saved(s) /\ archive'[s].status = "absent" /\ archive' = [archive EXCEPT ![s] = archive'[s]]
    BY <1>1, <2>1 DEF Agrees, Saved, Absent
  <2>3. QED
    BY <2>2 DEF s
<1>6. QED
  BY <1>2, <1>3, <1>4, <1>5 DEF WorkerStep, WorkerCloses

\* The mapping, at one step.
Shown == [s \in Seeds |-> IF Saved(s) THEN archive[s] ELSE Absent]

LEMMA ShownStep ==
    ASSUME TypeOK, NEW s \in Seeds, NEW saved, archive' = [archive EXCEPT ![s] = saved]
    PROVE  Shown' = [Shown EXCEPT ![s] = IF saved.status \in {"running", "stopped"} THEN saved
                                         ELSE Absent]
<1>1. \A r \in Seeds : archive'[r] = IF r = s THEN saved ELSE archive[r]
  BY DEF TypeOK
<1>2. QED
  BY <1>1 DEF Shown, Saved

\* Every step saves nothing, or what one action of ContinuedWork saves.
LEMMA ContinuedStep ==
    ASSUME OwnershipInv, KeptInv, ArmsAreForked, [Next]_vars
    PROVE  \/ \E a \in Arms : /\ archive[Prefix].status = "stopped" /\ Shown[Prefix] = archive[Prefix]
                              /\ Shown[a] = Absent
                              /\ Shown' = [Shown EXCEPT ![a] = [status |-> "running", phases |-> 0]]
                              /\ base' = [base EXCEPT ![a] = archive[Prefix]]
           \/ /\ Shown[Prefix] = Absent
              /\ Shown' = [Shown EXCEPT ![Prefix] = [status |-> "running", phases |-> 0]]
              /\ base' = base
           \/ \E s \in Seeds, status \in {"running", "stopped"} :
                 /\ Shown[s].status = "running"
                 /\ Shown' = [Shown EXCEPT ![s] = [status |-> status, phases |-> Shown[s].phases + 1]]
                 /\ base' = base
           \/ Shown' = Shown /\ base' = base
<1>1. /\ TypeOK /\ Prefix \in Seeds /\ \A i \in Ids : box[i].seed \in Seeds
      /\ \A s \in Seeds : Shown[s] = IF Saved(s) THEN archive[s] ELSE Absent
  BY SeedTypes, RecordTypes DEF OwnershipInv, TypeOK, Shown
<1>2. ASSUME archive' = archive PROVE Shown' = Shown
  BY <1>2 DEF Shown, Saved
<1>3. CASE Forks
  <2>1. PICK p \in Launchers : Fork(p)
    BY <1>3 DEF Forks
  <2>2. /\ arm[p] \in Arms /\ archive[arm[p]] = Absent /\ archive[Prefix].status = "stopped"
        /\ archive' = [archive EXCEPT ![arm[p]] = [status |-> "running", phases |-> 0]]
        /\ base' = [base EXCEPT ![arm[p]] = archive[Prefix]]
    BY <2>1, ForkBuilds DEF Fork
  <2>3. PICK a \in Arms : a = arm[p]
    BY <2>2
  <2>4. Shown' = [Shown EXCEPT ![a] = [status |-> "running", phases |-> 0]]
    <3>1. PICK saved : saved = [status |-> "running", phases |-> 0]
      OBVIOUS
    <3>2. a \in Seeds /\ archive' = [archive EXCEPT ![a] = saved]
      BY <2>2, <2>3, <3>1, SeedTypes
    <3>3. Shown' = [Shown EXCEPT ![a] = saved]
      BY <1>1, <3>1, <3>2, ShownStep
    <3>4. QED
      BY <3>1, <3>3
  <2>5. Shown[a] = Absent /\ Shown[Prefix] = archive[Prefix]
    BY <1>1, <2>2, <2>3, SeedTypes DEF Saved
  <2>6. QED
    BY <2>2, <2>3, <2>4, <2>5
<1>4. CASE WorkerActs /\ archive' # archive
  <2>1. PICK i \in Ids : WorkerStep(i) \/ WorkerFails(i)
    BY <1>4 DEF WorkerActs
  <2>2. PICK s \in Seeds : s = box[i].seed
    BY <1>1
  <2>3. base' = base
    BY <1>4 DEF WorkerActs
  <2>4. CASE ~Saved(s) /\ archive'[s].status \in {"absent", "torn"}
             /\ archive' = [archive EXCEPT ![s] = archive'[s]]
    <3>1. PICK saved : saved = archive'[s]
      OBVIOUS
    <3>2. Shown' = [Shown EXCEPT ![s] = Absent]
      BY <1>1, <2>4, <3>1, ShownStep
    <3>3. Shown[s] = Absent
      BY <1>1, <2>4
    <3>4. Shown' = Shown
      BY <3>2, <3>3 DEF Shown
    <3>5. QED
      BY <2>3, <3>4
  <2>5. CASE /\ archive[s].status = "torn"
             /\ archive' = [archive EXCEPT ![s] = [status |-> "running", phases |-> 0]]
    <3>1. s = Prefix
      BY <2>2, <2>5 DEF ArmsAreForked, Saved
    <3>2. QED
      BY <1>1, <2>3, <2>5, <3>1, ShownStep DEF Saved
  <2>6. ASSUME archive[s].status = "running", NEW status \in {"running", "stopped"},
               archive' = [archive EXCEPT ![s] = [status |-> status, phases |-> archive[s].phases + 1]]
        PROVE  /\ Shown[s].status = "running"
               /\ Shown' = [Shown EXCEPT ![s] = [status |-> status, phases |-> Shown[s].phases + 1]]
    <3>1. Shown[s] = archive[s]
      BY <1>1, <2>6 DEF Saved
    <3>2. PICK saved : saved = [status |-> status, phases |-> archive[s].phases + 1]
      OBVIOUS
    <3>3. archive' = [archive EXCEPT ![s] = saved] /\ saved.status \in {"running", "stopped"}
      BY <2>6, <3>2
    <3>4. Shown' = [Shown EXCEPT ![s] = saved]
      BY <1>1, <3>3, ShownStep
    <3>5. QED
      BY <2>6, <3>1, <3>2, <3>4
  <2>7. QED
    BY <1>4, <2>1, <2>2, <2>3, <2>4, <2>5, <2>6, WorkerSavesOnly
<1>5. CASE WorkerActs /\ archive' = archive
  BY <1>2, <1>5 DEF WorkerActs
<1>6. CASE Other
  BY <1>2, <1>6 DEF Other
<1>7. QED
  BY <1>3, <1>4, <1>5, <1>6, StepKinds

----------------------------------------------------------------------------
(* The theorems.                                                           *)

\* Launchers own what they work on, only what they own is alive, and commands
\* that outlive them come too late to matter: what run_lock.py, the removal of
\* abandoned containers in sandbox.py and unique container names give together.
THEOREM OwnershipInvariance == Spec => []OwnershipInv
<1>1. OwnershipInv /\ [Next]_vars => OwnershipInv'
  <2> SUFFICES ASSUME OwnershipInv, [Next]_vars PROVE OwnershipInv'
    OBVIOUS
  <2>1. TypeOK'
    BY TypeStep DEF OwnershipInv
  <2>2. QED
    BY <2>1, LocksStep, CommandsStep, OwnContainerStep, ListedStep, OthersDeadStep, OneAliveStep
    DEF OwnershipInv
<1>2. QED
  BY <1>1, InitHolds, PTL DEF Spec

\* One seed, one worker: no two containers ever write the same session.zip.
THEOREM WritersAreExclusive == Spec => []OneWriter
<1>1. OwnershipInv => OneWriter
  BY DEF OwnershipInv, OneAlive, OneWriter, Alive, Running
<1>2. QED
  BY <1>1, OwnershipInvariance, PTL

\* With one worker to a seed, what it remembers is what session.zip says, a worker that
\* reports success has stopped its seed, and an attempt is completed on that report alone.
THEOREM KeptInvariance == Spec => [](OwnershipInv /\ KeptInv)
<1>1. Init => OwnershipInv /\ KeptInv
  BY InitHolds, KeptInit
<1>2. KeptInv /\ OwnershipInv /\ [Next]_vars => KeptInv'
  BY KeptStep
<1>3. QED
  BY <1>1, <1>2, OwnershipInvariance, PTL DEF Spec

\* Progress is kept: no worker of session_manager.py replaces an archive by an older one, no
\* fork by a fresh one, and a seed that stopped stays as it stopped, whatever is killed.
THEOREM ProgressIsKept == Spec => ProgressKept
<1>1. OwnershipInv /\ KeptInv /\ [Next]_vars =>
        [\A s \in Seeds : Saved(s) =>
          /\ Saved(s)'
          /\ archive'[s].phases >= archive[s].phases
          /\ archive[s].status = "stopped" => archive'[s] = archive[s]]_archive
  BY ArchivesBuild DEF BuildsAll, Builds, Saved
<1>2. QED
  BY <1>1, KeptInvariance, PTL DEF Spec, ProgressKept

\* Every arm of an experiment continues one and the same finished prefix, which is still as it
\* was when the arm was forked from it: what the comparison of arms rests on.
THEOREM ArmsShareOnePrefix == Spec => []ArmsSharePrefix
<1>1. KeptInv => ArmsSharePrefix
  BY DEF KeptInv
<1>2. QED
  BY <1>1, KeptInvariance, PTL

\* What the launcher counts as completed has stopped.
THEOREM CompletedIsStopped == Spec => []CompletedHasStopped
<1>1. KeptInv => CompletedHasStopped
  BY DEF KeptInv
<1>2. QED
  BY <1>1, KeptInvariance, PTL

\* An experiment saves what ContinuedWork lets it save: a prefix is begun once and grows phase
\* by phase, an arm comes into being only by a fork of the stopped prefix and grows on its own.
\* No launcher of continuation_launcher.py, container or late command of Docker adds to that.
THEOREM RefinesContinuedWork == Spec => ImplementsContinuedWork
<1>1. Init => ArmsAreForked
  BY StepFacts DEF Init, ArmsAreForked
<1>2. ArmsAreForked /\ OwnershipInv /\ KeptInv /\ [Next]_vars => ArmsAreForked'
  BY ForkedFirst
<1>3. Init => Work!WorkInit
  BY DEF Init, Work!WorkInit, Work!Nothing, Absent, Saved, Seeds
<1>4. OwnershipInv /\ KeptInv /\ ArmsAreForked /\ [Next]_vars => [Work!WorkNext]_(Work!workVars)
  <2> SUFFICES ASSUME OwnershipInv, KeptInv, ArmsAreForked, [Next]_vars
               PROVE  [Work!WorkNext]_(Work!workVars)
    OBVIOUS
  <2>1. QED
    BY ContinuedStep
    DEF Work!WorkNext, Work!workVars, Work!BeginPrefix, Work!ForkArm, Work!SavePhase, Work!Nothing,
        Work!Begun, Shown, Absent, Seeds
<1>5. QED
  BY <1>1, <1>2, <1>3, <1>4, KeptInvariance, PTL DEF Spec, ImplementsContinuedWork, Work!WorkSpec

=============================================================================
