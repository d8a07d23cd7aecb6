------------------------------- MODULE Gateway -------------------------------
(***************************************************************************)
(* The Codex gateways of one host: for each account slot a Docker volume   *)
(* with one subscription's credentials and a named container that serves   *)
(* it.  Both outlive the commands that make them.                          *)
(*                                                                         *)
(* Several commands (build, add, start, stop, setup) may run at a time, and*)
(* no lock keeps them apart: what each of them knows of Docker is what its *)
(* last call returned.  Docker itself is modelled by what each call does.  *)
(***************************************************************************)
EXTENDS Naturals, Sequences, FiniteSets

CONSTANTS Commands,      \* host processes, each running a command at a time
          MaxAccount,    \* account slots are numbered from 1
          Identities,    \* subscriptions
          Keys, Key,     \* values of LITELLM_API_KEY; the one that is set
          None,
          Hosts,         \* what the commands may find: images, volumes, containers
          MaxImages,     \* different builds of the gateway image (bound)
          MaxWork        \* tasks of all commands started, and three for each (bound)

Accounts == 1 .. MaxAccount

Contents == {"valid", "another"}  \* problem files that pass validation

\* A credential file that ends early: nobody's login.
Cut == "cut"

ASSUME ConstantsAssumption ==
    /\ MaxAccount \in Nat /\ MaxImages \in Nat /\ MaxWork \in Nat
    /\ Key \in Keys /\ None \notin Accounts \cup Commands \cup Identities \cup Keys
    /\ {Cut, "no volume", "empty"} \cap Identities = {}

VARIABLES image,      \* the image that the tag names, 0 before the first build
          volume,     \* of each account: the credentials in its volume
          container,  \* of each account: the container with its name
          dataset,    \* a problem file of the repository
          urls,       \* the accounts whose endpoint .env records
          work,       \* what was started so far (bound)
          pc,         \* of each command: the call it makes next
          plan,       \* what it has left to do, the current task first
          memory,     \* what it knows; of a start that is done, who answered
          signals,    \* interruptions it holds back while it creates
          abandoned   \* history: accounts whose half-made gateway was left

dockerVars == <<image, volume, container, abandoned>>
hostVars == <<dataset, urls>>
controlVars == <<plan, pc, signals, memory>>
vars == <<dockerVars, hostVars, controlVars, work>>

----------------------------------------------------------------------------
(* What a command is asked to do                                           *)

Steps == {"dataset", "build", "volume", "identify", "pin", "inspect", "find", "save"}

\* The rest of the steps are about one account.
Global == {"dataset", "build", "pin"}

Tasks == {t \in [do : Steps, account : Accounts \cup {None}, identity : Identities \cup {None}] :
            /\ t.do \notin Global => t.account # None
            /\ t.do = "volume" => t.identity # None}

Task(do, a) == [do |-> do, account |-> a, identity |-> None]

ForEach(do, s) == [i \in DOMAIN s |-> Task(do, s[i])]

\* The accounts named on a command line: in any order, each once.
Selections ==
    {s \in UNION {[1 .. n -> Accounts] : n \in Accounts} :
        \A i, j \in DOMAIN s : s[i] = s[j] => i = j}

Increasing(s) == \A i, j \in DOMAIN s : i < j => s[i] < s[j]

AddTask(a, i) == [do |-> "volume", account |-> a, identity |-> i]

\* Every identity is read before any container is looked at.
StartPlan(s) == ForEach("identify", s) \o <<Task("pin", None)>> \o ForEach("inspect", s)

\* Setup.run with the accounts s, whose logins are distinct subscriptions.
SetupPlan(s, login) ==
    <<Task("dataset", None), Task("build", None)>>
        \o [i \in DOMAIN s |-> AddTask(s[i], login[i])] \o StartPlan(s) \o ForEach("save", s)

Logins(s) == {login \in [DOMAIN s -> Identities] :
                \A i, j \in DOMAIN s : login[i] = login[j] => i = j}

Plans ==
    {<<Task("build", None)>>, <<Task("dataset", None)>>}
        \cup {<<AddTask(a, i)>> : a \in Accounts, i \in Identities}
        \cup {StartPlan(s) : s \in Selections}
        \cup {ForEach("find", s) : s \in {t \in Selections : Increasing(t)}}
        \cup UNION {{SetupPlan(s, login) : login \in Logins(s)} : s \in {t \in Selections : Increasing(t)}}

----------------------------------------------------------------------------
\* key is None until the configuration has been copied in.
Made(p) == [maker |-> p, key |-> None, image |-> image, running |-> FALSE]

Containers == [maker : Commands \cup {None}, key : Keys \cup {None},
               image : 0 .. MaxImages, running : BOOLEAN]

\* A container that carries the name but not the label of the account.
Foreign == [maker |-> None, key |-> None, image |-> 0, running |-> TRUE]

NoContainer == [maker |-> None, key |-> None, image |-> 0, running |-> FALSE]

\* The identities a command has read, the image that its containers must have
\* (0 before it is known), and the accounts that have answered it.
Memories == [known : SUBSET (Accounts \X Identities), pinned : 0 .. MaxImages, ready : SUBSET Accounts]

Nothing == [known |-> {}, pinned |-> 0, ready |-> {}]

Volumes == {"no volume", "empty", Cut} \cup Identities

\* Commands before those followed here have finished what they made.
ASSUME HostsAssumption ==
    /\ Hosts \subseteq [image : 0 .. MaxImages, volume : [Accounts -> Volumes], container : [Accounts -> Containers]]
    /\ \A h \in Hosts, a \in Accounts :
          LET c == h.container[a]
          IN c.maker = None /\ (c \in {NoContainer, Foreign} \/ c.key # None)

Init ==
    /\ \E h \in Hosts : image = h.image /\ volume = h.volume /\ container = h.container
    /\ dataset = None
    /\ urls = {}
    /\ work = 0
    /\ pc = [p \in Commands |-> "idle"]
    /\ plan = [p \in Commands |-> <<>>]
    /\ memory = [p \in Commands |-> Nothing]
    /\ signals = [p \in Commands |-> 0]
    /\ abandoned = {}

Here(p) == Head(plan[p]).account

Goto(p, step) == pc' = [pc EXCEPT ![p] = step] /\ UNCHANGED <<plan, signals, memory>>

\* The command is over, by an exception or a signal.
End(p) ==
    /\ pc' = [pc EXCEPT ![p] = "idle"]
    /\ plan' = [plan EXCEPT ![p] = <<>>]
    /\ signals' = [signals EXCEPT ![p] = 0]
    /\ memory' = [memory EXCEPT ![p] = Nothing]

\* The current task is done, with which the command knows m.
Learn(p, m) ==
    /\ plan' = [plan EXCEPT ![p] = Tail(@)]
    /\ IF Len(plan[p]) = 1
       THEN /\ pc' = [pc EXCEPT ![p] = "idle"]
            /\ memory' = [memory EXCEPT ![p] = [Nothing EXCEPT !.ready = m.ready]]
       ELSE /\ pc' = [pc EXCEPT ![p] = plan[p][2].do]
            /\ memory' = [memory EXCEPT ![p] = m]
    /\ UNCHANGED signals

Advance(p) == Learn(p, memory[p])

Launch(p) ==
    /\ pc[p] = "idle"
    /\ \E tasks \in Plans :
        /\ work' = work + Len(tasks) + 3
        /\ work' <= MaxWork
        /\ plan' = [plan EXCEPT ![p] = tasks]
        /\ pc' = [pc EXCEPT ![p] = tasks[1].do]
        /\ memory' = [memory EXCEPT ![p] = Nothing]
    /\ UNCHANGED <<dockerVars, hostVars, signals>>

----------------------------------------------------------------------------
(* Setup: problem files, endpoints; Gateway.build                          *)

\* A local file is validated and kept; a missing one is downloaded, or left
\* missing without a repository or when the repository does not have it.
LookForDataset(p) ==
    /\ pc[p] = "dataset"
    /\ \/ Advance(p)
       \/ dataset = None /\ Goto(p, "publish")
    /\ UNCHANGED <<dockerVars, hostVars, work>>

\* The download was valid; os.link refuses a name that meanwhile exists.
PublishDataset(p) ==
    /\ pc[p] = "publish"
    /\ \/ dataset = None /\ dataset' \in Contents /\ Advance(p)
       \/ dataset # None /\ UNCHANGED dataset /\ End(p)
    /\ UNCHANGED <<dockerVars, urls, work>>

Build(p) ==
    /\ pc[p] = "build"
    /\ image' \in ({image, image + 1} \cap 1 .. MaxImages)
    /\ Advance(p)
    /\ UNCHANGED <<volume, container, abandoned, hostVars, work>>

SaveUrl(p) ==
    /\ pc[p] = "save"
    /\ urls' = urls \cup {Here(p)}
    /\ Advance(p)
    /\ UNCHANGED <<dockerVars, dataset, work>>

----------------------------------------------------------------------------
(* Gateway.add and codex.auth                                              *)

CreateVolume(p) ==
    /\ pc[p] = "volume"
    /\ \/ /\ image # 0
          /\ volume' = [volume EXCEPT ![Here(p)] = IF @ = "no volume" THEN "empty" ELSE @]
          /\ Goto(p, "import")
       \/ image = 0 /\ UNCHANGED volume /\ End(p)
    /\ UNCHANGED <<image, container, abandoned, hostVars, work>>

\* The same account keeps its refreshed credentials; another one's, or what
\* cannot be read, ends the command.
Import(p) ==
    /\ pc[p] = "import"
    /\ CASE volume[Here(p)] = "empty" -> Goto(p, "link")
         [] volume[Here(p)] = Head(plan[p]).identity -> Advance(p)
         [] OTHER -> End(p)
    /\ UNCHANGED <<dockerVars, hostVars, work>>

Store(a, content) == volume' = [volume EXCEPT ![a] = content]

\* Fault: the finished file is renamed into place.
LinkOver(p) ==
    /\ pc[p] = "link"
    /\ Store(Here(p), Head(plan[p]).identity)
    /\ Advance(p)
    /\ UNCHANGED <<image, container, abandoned, hostVars, work>>

\* os.link publishes a finished file once: a second link fails.
Link(p) ==
    /\ pc[p] = "link"
    /\ \/ volume[Here(p)] = "empty" /\ Store(Here(p), Head(plan[p]).identity) /\ Advance(p)
       \/ volume[Here(p)] # "empty" /\ UNCHANGED volume /\ End(p)
    /\ UNCHANGED <<image, container, abandoned, hostVars, work>>

----------------------------------------------------------------------------
(* Gateway.start                                                           *)

ReadIdentity(p) ==
    /\ pc[p] = "identify"
    /\ \/ /\ image # 0 /\ volume[Here(p)] \in Identities
          /\ Learn(p, [memory[p] EXCEPT !.known = @ \cup {<<Here(p), volume[Here(p)]>>}])
       \/ (image = 0 \/ volume[Here(p)] \notin Identities) /\ End(p)
    /\ UNCHANGED <<dockerVars, hostVars, work>>

\* Fault: any two slots will do.
AnyAccounts(pairs) == \A x, y \in pairs : x[1] = y[1] => x = y

Distinct(pairs) == \A x, y \in pairs : x[2] = y[2] => x = y

\* One gateway per subscription, all of the image that is current now.
PinImage(p) ==
    /\ pc[p] = "pin"
    /\ IF Distinct(memory[p].known) /\ image # 0
       THEN Learn(p, [memory[p] EXCEPT !.pinned = image])
       ELSE End(p)
    /\ UNCHANGED <<dockerVars, hostVars, work>>

\* _inspect_account: the label, not the name, makes a container the account's.
Owned(a) == container[a] \notin {NoContainer, Foreign}

\* _start_account up to its first change.
Inspect(p) ==
    /\ pc[p] = "inspect"
    /\ LET found == container[Here(p)]
       IN CASE found = NoContainer -> Goto(p, "create")
            [] found = Foreign -> End(p)
            [] Owned(Here(p)) /\ found.image # memory[p].pinned -> End(p)
            [] OTHER -> Goto(p, IF found.running THEN "poll" ELSE "launch")
    /\ UNCHANGED <<dockerVars, hostVars, work>>

Put(a, value) == container' = [container EXCEPT ![a] = value]

\* Fault: the whole of the creation is cleaned up after.
NameTakenCleansUp(p) ==
    /\ pc[p] = "create"
    /\ container[Here(p)] # NoContainer
    /\ Goto(p, "cleanup")
    /\ UNCHANGED <<dockerVars, hostVars, work>>

\* The name is taken: nothing was created, so nothing is cleaned up.
NameTaken(p) ==
    /\ pc[p] = "create"
    /\ container[Here(p)] # NoContainer
    /\ End(p)
    /\ UNCHANGED <<dockerVars, hostVars, work>>

Create(p) ==
    /\ pc[p] = "create"
    /\ container[Here(p)] = NoContainer
    /\ Put(Here(p), Made(p))
    /\ Goto(p, "copy")
    /\ UNCHANGED <<image, volume, abandoned, hostVars, work>>

\* An interruption held back during the creation takes effect after it.
CopyConfiguration(p) ==
    /\ pc[p] = "copy"
    /\ Put(Here(p), [container[Here(p)] EXCEPT !.key = Key])
    /\ IF signals[p] = 0 THEN Goto(p, "launch") ELSE End(p)
    /\ UNCHANGED <<image, volume, abandoned, hostVars, work>>

CopyFails(p) ==
    /\ pc[p] = "copy"
    /\ Goto(p, "cleanup")
    /\ UNCHANGED <<dockerVars, hostVars, work>>

\* docker rm without force: a running container stays.
RemoveContainer(p) ==
    /\ pc[p] = "cleanup"
    /\ container[Here(p)] # NoContainer
    /\ ~container[Here(p)].running
    /\ Put(Here(p), NoContainer)
    /\ End(p)
    /\ UNCHANGED <<image, volume, abandoned, hostVars, work>>

Abandon(a) == abandoned' = abandoned \cup {a}

RemoveFails(p) ==
    /\ pc[p] = "cleanup"
    /\ Abandon(Here(p))
    /\ End(p)
    /\ UNCHANGED <<image, volume, container, hostVars, work>>

\* A container that is gone cannot be started.
StartContainer(p) ==
    /\ pc[p] = "launch"
    /\ IF container[Here(p)] = NoContainer THEN UNCHANGED container /\ End(p)
       ELSE /\ Put(Here(p), [container[Here(p)] EXCEPT !.running = TRUE])
            /\ Goto(p, "poll")
    /\ UNCHANGED <<image, volume, abandoned, hostVars, work>>

\* A gateway without its configuration never answers, one that starts up may
\* not do so yet: then the loop goes round.
Serving(a) == Owned(a) /\ container[a].running /\ container[a].key # None

Answered(p) ==
    /\ pc[p] = "poll"
    /\ Serving(Here(p))
    /\ IF container[Here(p)].key = Key
       THEN Learn(p, [memory[p] EXCEPT !.ready = @ \cup {Here(p)}])
       ELSE End(p)
    /\ UNCHANGED <<dockerVars, hostVars, work>>

\* Fault: only a container that is gone or stopped ends the loop.
WaitForever(p) ==
    /\ pc[p] = "poll"
    /\ Owned(Here(p)) => ~container[Here(p)].running
    /\ End(p)
    /\ UNCHANGED <<dockerVars, hostVars, work>>

\* It stopped, lost its label's owner, or did not answer in time.
StartupFails(p) ==
    /\ pc[p] = "poll"
    /\ End(p)
    /\ UNCHANGED <<dockerVars, hostVars, work>>

----------------------------------------------------------------------------
(* Gateway.stop                                                            *)

FindRunning(p) ==
    /\ pc[p] = "find"
    /\ CASE container[Here(p)] = Foreign -> End(p)
         [] Owned(Here(p)) /\ container[Here(p)].running -> Goto(p, "stop")
         [] OTHER -> Advance(p)
    /\ UNCHANGED <<dockerVars, hostVars, work>>

StopContainer(p) ==
    /\ pc[p] = "stop"
    /\ IF container[Here(p)] = NoContainer THEN UNCHANGED container /\ End(p)
       ELSE /\ Put(Here(p), [container[Here(p)] EXCEPT !.running = FALSE])
            /\ Advance(p)
    /\ UNCHANGED <<image, volume, abandoned, hostVars, work>>

----------------------------------------------------------------------------
(* Failures, signals and kills                                             *)

Creating == {"create", "copy", "cleanup"}
Importing == {"import", "link"}

\* A Docker call, a download or a file fails.
CallFails(p) ==
    /\ pc[p] \notin {"idle", "copy", "cleanup"}
    /\ End(p)
    /\ UNCHANGED <<dockerVars, hostVars, work>>

\* The helper reads the login from the client that died: when the volume is
\* empty, what had arrived becomes the credential file.
CutImport(p) ==
    /\ pc[p] \in Importing
    /\ volume[Here(p)] = "empty"
    /\ Store(Here(p), Cut)
    /\ End(p)
    /\ UNCHANGED <<image, container, abandoned, hostVars, work>>

\* Fault: the creation is cancelled like any other call, and a cancellation
\* is not an Exception that the cleanup handles.
CancelAtOnce(p) ==
    /\ pc[p] \in Creating
    /\ signals[p] = 0
    /\ End(p)
    /\ UNCHANGED <<dockerVars, hostVars, work>>

\* finish_before_cancelling: the first signal waits for the creation.
HoldSignal(p) ==
    /\ pc[p] \in Creating
    /\ signals[p] = 0
    /\ signals' = [signals EXCEPT ![p] = 1]
    /\ UNCHANGED <<plan, pc, memory, dockerVars, hostVars, work>>

Signal(p) ==
    /\ pc[p] \notin {"idle"} \cup Creating
    /\ End(p)
    /\ UNCHANGED <<dockerVars, hostVars, work>>

\* A further signal cancels the creation itself: Docker may have created the
\* container, which nobody cleans up.
CancelCreate(p) ==
    /\ pc[p] = "create"
    /\ signals[p] # 0
    /\ \/ /\ container[Here(p)] = NoContainer
          /\ Put(Here(p), Made(p))
          /\ Abandon(Here(p))
       \/ UNCHANGED <<container, abandoned>>
    /\ End(p)
    /\ UNCHANGED <<image, volume, hostVars, work>>

\* A copy that is cancelled may have been made; it is cleaned up after.
CancelCopy(p) ==
    /\ pc[p] = "copy"
    /\ signals[p] # 0
    /\ \/ Put(Here(p), [container[Here(p)] EXCEPT !.key = Key])
       \/ UNCHANGED container
    /\ Goto(p, "cleanup")
    /\ UNCHANGED <<image, volume, abandoned, hostVars, work>>

\* One more cancels the cleanup.
CancelCleanup(p) ==
    /\ pc[p] = "cleanup"
    /\ signals[p] # 0
    /\ Abandon(Here(p))
    /\ End(p)
    /\ UNCHANGED <<image, volume, container, hostVars, work>>

\* A kill leaves what the command was creating as it is.
Kill(p) ==
    /\ pc[p] # "idle"
    /\ End(p)
    /\ abandoned' = abandoned \cup (IF pc[p] \in {"copy", "cleanup"} THEN {Here(p)} ELSE {})
    /\ UNCHANGED <<image, volume, container, hostVars, work>>

----------------------------------------------------------------------------
Progress(p) ==
    \/ LookForDataset(p) \/ PublishDataset(p) \/ Build(p) \/ SaveUrl(p)
    \/ CreateVolume(p) \/ Import(p) \/ Link(p)
    \/ ReadIdentity(p) \/ PinImage(p) \/ Inspect(p)
    \/ NameTaken(p) \/ Create(p) \/ CopyConfiguration(p) \/ RemoveContainer(p)
    \/ RemoveFails(p) \/ StartContainer(p) \/ Answered(p) \/ StartupFails(p)
    \/ FindRunning(p) \/ StopContainer(p)

Disturbance(p) ==
    \/ CallFails(p) \/ CopyFails(p) \/ CutImport(p) \/ HoldSignal(p) \/ Signal(p)
    \/ CancelCreate(p) \/ CancelCopy(p) \/ CancelCleanup(p) \/ Kill(p)

Next == \E p \in Commands : Launch(p) \/ Progress(p) \/ Disturbance(p)

Spec == Init /\ [][Next]_vars

\* The event loop runs, Docker answers, and the startup timeout expires.
Fairness == \A p \in Commands : WF_vars(Progress(p))

FairSpec == Spec /\ Fairness

----------------------------------------------------------------------------
(* Properties                                                              *)

Calls == {"idle", "dataset", "publish", "build", "volume", "import", "link", "identify", "pin", "save",
          "inspect", "create", "copy", "cleanup", "launch", "poll", "find", "stop"}

\* The type invariant: no command ever holds a value outside its range.
TypeOK ==
    /\ pc \in [Commands -> Calls]
    /\ image \in 0 .. MaxImages
    /\ volume \in [Accounts -> Volumes]
    /\ container \in [Accounts -> Containers]
    /\ dataset \in Contents \cup {None}
    /\ urls \subseteq Accounts
    /\ work \in 0 .. MaxWork
    /\ plan \in [Commands -> Seq(Tasks)]
    /\ memory \in [Commands -> Memories]
    /\ signals \in [Commands -> {0, 1}]
    /\ abandoned \subseteq Accounts

\* What is published stays: no command replaces or removes the credentials of
\* a volume or a problem file, whichever other command imports or downloads at
\* the same time (os.link in write_credentials and in _download_dataset).
PublishedKept ==
    [][/\ \A a \in Accounts : volume[a] \in Identities => volume'[a] = volume[a]
       /\ dataset # None => dataset' = dataset]_vars

\* The maker of the container of a is at one of the calls.
AtWork(a, calls) == \E p \in Commands : container[a].maker = p /\ pc[p] \in calls /\ Here(p) = a

\* The maker of the container of a makes this call, and no one else does.
ByMaker(a, call) ==
    \E p \in Commands : container[a].maker = p /\ Here(p) = a /\ pc[p] = call /\ pc'[p] # call

\* Only the command that is creating a container removes it, and only while it
\* does not run; only that command configures it, and once.  By then another
\* start may have found it half-made and started it (_start_account).  A
\* stranger's container is left alone, although names are all that Docker is
\* given (_create_account and its cleanup).
GatewaysKept ==
    [][\A a \in Accounts : container[a] # NoContainer =>
        /\ container'[a] = NoContainer =>
            ~container[a].running /\ ByMaker(a, "cleanup")
        /\ container'[a] # NoContainer =>
            /\ container'[a].maker = container[a].maker /\ container'[a].image = container[a].image
            /\ container'[a].key # container[a].key =>
                container[a].key = None /\ ByMaker(a, "copy")
        /\ container[a] = Foreign => container'[a] = Foreign]_vars

\* The gateways that one start reports ready serve different subscriptions,
\* and go on to, whatever is added to the volumes while it runs.
ReadyAreDistinct ==
    \A p \in Commands : \A a, b \in memory[p].ready :
        /\ volume[a] \in Identities
        /\ a # b => volume[a] # volume[b]

HalfMade(a) == Owned(a) /\ container[a].key = None

\* A single interruption, or a configuration that cannot be copied, leaves no
\* gateway without its configuration: unless a kill, a second interruption or
\* a refused removal comes on top, somebody is still at work on it
\* (finish_before_cancelling in _start_account).
CancellationIsClean ==
    \A a \in Accounts : HalfMade(a) =>
        \/ a \in abandoned
        \/ AtWork(a, {"copy", "cleanup"})

\* Every command ends, also one that waits for a gateway that another command
\* stopped, removed or never configured (STARTUP_TIMEOUT_SECONDS).
CommandsEnd == \A p \in Commands : pc[p] # "idle" ~> pc[p] = "idle"

\* All commands and calls apart, a slot does what its users rely on: one login
\* for good, a gateway that is nobody else's and is configured once, and a start
\* that names it only while it serves.
Seen(c) == [owner |-> IF c = NoContainer THEN "nobody" ELSE IF c = Foreign THEN "stranger" ELSE "slot",
            new |-> c.maker # None, key |-> c.key, image |-> c.image, running |-> c.running]

Slot == INSTANCE AccountSlots WITH
    Slots <- Accounts, Files <- Contents, Images <- 0 .. MaxImages,
    login <- volume, file <- dataset,
    gateway <- [a \in Accounts |-> Seen(container[a])],
    reported <- [p \in Commands |-> memory[p].ready]

ImplementsAccountSlots == Slot!SlotsSpec
=============================================================================
