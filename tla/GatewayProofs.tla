---------------------------- MODULE GatewayProofs ----------------------------
(***************************************************************************)
(* What concurrent commands on the gateways can never do to each other's   *)
(* credentials and containers, for any commands, accounts, subscriptions,  *)
(* hosts and bounds.                                                       *)
(*                                                                         *)
(* `CommandOK` says what a command knows and still has to do, `Containers- *)
(* Owned` whose container it is working on.                                *)
(***************************************************************************)
EXTENDS Gateway, TLAPS

\* The calls that a task is made of.
CallsOf(do) ==
    CASE do = "dataset" -> {"dataset", "publish"}
      [] do = "volume" -> {"volume", "import", "link"}
      [] do = "inspect" -> {"inspect", "create", "copy", "cleanup", "launch", "poll"}
      [] do = "find" -> {"find", "stop"}
      [] OTHER -> {do}

IsKnown(a, known) == \E x \in known : x[1] = a

\* Identities are read before the image is pinned, that is done before any
\* account is inspected, and none is inspected whose identity was not read.
Ordered(tasks, m) ==
    /\ m.pinned # 0 => /\ Distinct(m.known)
                       /\ \A n \in 1 .. Len(tasks) : tasks[n].do # "identify"
    /\ \A n, o \in 1 .. Len(tasks) : tasks[n].do = "identify" /\ tasks[o].do = "pin" => n < o
    /\ \A n \in 1 .. Len(tasks) : tasks[n].do = "inspect" =>
         /\ m.pinned # 0 \/ \E o \in 1 .. n - 1 : tasks[o].do = "pin"
         /\ \/ IsKnown(tasks[n].account, m.known)
            \/ \E o \in 1 .. n - 1 : tasks[o].do = "identify" /\ tasks[o].account = tasks[n].account

\* The accounts in ready hold different subscriptions.
ServeDistinct(ready) ==
    \A a, b \in ready : volume[a] \in Identities /\ (a # b => volume[a] # volume[b])

CommandOK(p) ==
    /\ pc[p] = "idle" => plan[p] = <<>>
    /\ pc[p] # "idle" => /\ plan[p] # <<>>
                         /\ pc[p] \in CallsOf(plan[p][1].do)
                         /\ Ordered(plan[p], memory[p])
                         /\ \A a \in memory[p].ready : IsKnown(a, memory[p].known)
    /\ \A x \in memory[p].known : volume[x[1]] = x[2]
    /\ ServeDistinct(memory[p].ready)

Controlled == pc \in [Commands -> Calls] /\ \A p \in Commands : CommandOK(p)

\* Only what the commands make here has a maker; what they do not finish has.
ContainersOwned ==
    /\ \A a \in Accounts : container[a].maker = None =>
         container[a] \in {NoContainer, Foreign} \/ container[a].key # None
    /\ \A p \in Commands :
         /\ pc[p] \in {"copy", "cleanup"} => container[Here(p)].maker = p
         /\ pc[p] = "stop" => container[Here(p)] # Foreign

\* Of the variables other than pc.
ValuesTyped ==
    /\ image \in 0 .. MaxImages
    /\ volume \in [Accounts -> Volumes]
    /\ container \in [Accounts -> Containers]
    /\ dataset \in Contents \cup {None}
    /\ urls \subseteq Accounts
    /\ work \in 0 .. MaxWork
    /\ plan \in [Commands -> Seq(Tasks)]
    /\ memory \in [Commands -> Memories]
    /\ signals \in [Commands -> {0, 1}]
    /\ abandoned \subseteq Accounts

GatewayInv == ValuesTyped /\ Controlled /\ ContainersOwned /\ CancellationIsClean

-----------------------------------------------------------------------------
(* Plans                                                                   *)

\* What makes a plan one that can be started.
Startable(tasks) == tasks \in Seq(Tasks) /\ tasks # <<>> /\ Ordered(tasks, Nothing)

LEMMA Joined ==
    ASSUME NEW s \in Seq(Tasks), NEW t \in Seq(Tasks)
    PROVE  /\ s \o t \in Seq(Tasks)
           /\ Len(s \o t) = Len(s) + Len(t)
           /\ \A n \in 1 .. Len(s) : (s \o t)[n] = s[n]
           /\ \A n \in 1 .. Len(t) : (s \o t)[Len(s) + n] = t[n]
OBVIOUS

LEMMA TaskTypes ==
    /\ \A do \in Global : Task(do, None) \in Tasks
    /\ \A do \in Steps \ {"volume"}, a \in Accounts : Task(do, a) \in Tasks
    /\ \A a \in Accounts, x \in Identities : AddTask(a, x) \in Tasks
BY ConstantsAssumption DEF Tasks, Task, AddTask, Steps, Global

LEMMA TaskDoes == \A do, a : Task(do, a).do = do /\ Task(do, a).account = a
BY DEF Task

LEMMA SelectionsAreSequences ==
    \A s \in Selections : s \in Seq(Accounts) /\ Len(s) \in Nat \ {0} /\ DOMAIN s = 1 .. Len(s)
<1> TAKE s \in Selections
<1>1. PICK n \in Accounts : s \in [1 .. n -> Accounts]
  BY DEF Selections
<1>2. MaxAccount \in Nat
  BY ConstantsAssumption
<1>3. n \in Nat /\ n >= 1
  BY <1>1, <1>2 DEF Accounts
<1> QED
  BY <1>1, <1>3

\* The tasks that Gateway.start adds after others.
LEMMA StartShape ==
    ASSUME NEW s \in Selections
    PROVE  /\ StartPlan(s) \in Seq(Tasks)
           /\ Len(StartPlan(s)) = 2 * Len(s) + 1
           /\ \A n \in 1 .. Len(s) : StartPlan(s)[n] = Task("identify", s[n])
           /\ StartPlan(s)[Len(s) + 1] = Task("pin", None)
           /\ \A n \in 1 .. Len(s) : StartPlan(s)[Len(s) + 1 + n] = Task("inspect", s[n])
<1>1. s \in Seq(Accounts) /\ Len(s) \in Nat \ {0} /\ DOMAIN s = 1 .. Len(s)
  BY SelectionsAreSequences
<1> DEFINE first == ForEach("identify", s)
           pin == <<Task("pin", None)>>
           last == ForEach("inspect", s)
<1>2. /\ first \in Seq(Tasks) /\ Len(first) = Len(s)
      /\ \A n \in 1 .. Len(s) : first[n] = Task("identify", s[n])
  BY <1>1, TaskTypes DEF ForEach, Steps
<1>3. /\ last \in Seq(Tasks) /\ Len(last) = Len(s)
      /\ \A n \in 1 .. Len(s) : last[n] = Task("inspect", s[n])
  BY <1>1, TaskTypes DEF ForEach, Steps
<1>4. pin \in Seq(Tasks) /\ Len(pin) = 1 /\ pin[1] = Task("pin", None)
  BY TaskTypes DEF Global
<1>5. StartPlan(s) = (first \o pin) \o last
  BY DEF StartPlan
<1> HIDE DEF first, pin, last
<1> DEFINE head == first \o pin
<1>6. /\ head \in Seq(Tasks) /\ Len(head) = Len(first) + Len(pin)
      /\ \A n \in 1 .. Len(first) : head[n] = first[n]
      /\ \A n \in 1 .. Len(pin) : head[Len(first) + n] = pin[n]
  BY <1>2, <1>4, Joined
<1>7. /\ head \in Seq(Tasks) /\ Len(head) = Len(s) + 1
      /\ \A n \in 1 .. Len(s) : head[n] = Task("identify", s[n])
      /\ head[Len(s) + 1] = Task("pin", None)
  <2>1. 1 \in 1 .. Len(pin) /\ head[Len(first) + 1] = pin[1]
    BY <1>4, <1>6
  <2> QED
    BY <1>1, <1>2, <1>4, <1>6, <2>1
<1> HIDE DEF head
<1>8. /\ head \o last \in Seq(Tasks) /\ Len(head \o last) = Len(head) + Len(last)
      /\ \A n \in 1 .. Len(head) : (head \o last)[n] = head[n]
      /\ \A n \in 1 .. Len(last) : (head \o last)[Len(head) + n] = last[n]
  BY <1>3, <1>7, Joined
<1>9. StartPlan(s) = head \o last
  BY <1>5 DEF head
<1> HIDE DEF StartPlan
<1>10. /\ StartPlan(s) \in Seq(Tasks) /\ Len(StartPlan(s)) = 2 * Len(s) + 1
  BY <1>1, <1>3, <1>7, <1>8, <1>9
<1>11. ASSUME NEW n \in 1 .. Len(s) PROVE StartPlan(s)[n] = Task("identify", s[n])
  <2>1. n \in 1 .. Len(head)
    BY <1>1, <1>7
  <2> QED
    BY <2>1, <1>7, <1>8, <1>9
<1>12. StartPlan(s)[Len(s) + 1] = Task("pin", None)
  <2>1. Len(s) + 1 \in 1 .. Len(head)
    BY <1>1, <1>7
  <2> QED
    BY <2>1, <1>7, <1>8, <1>9
<1>13. ASSUME NEW n \in 1 .. Len(s) PROVE StartPlan(s)[Len(s) + 1 + n] = Task("inspect", s[n])
  <2>1. n \in 1 .. Len(last) /\ Len(head) + n = Len(s) + 1 + n
    BY <1>1, <1>3, <1>7
  <2> QED
    BY <2>1, <1>3, <1>8, <1>9
<1> QED
  BY <1>10, <1>11, <1>12, <1>13

LEMMA StartIsOrdered ==
    ASSUME NEW s \in Selections, NEW before \in Nat, NEW tasks,
           Len(tasks) \in Nat, Len(tasks) >= before + 2 * Len(s) + 1,
           \A n \in 1 .. Len(tasks) :
               tasks[n].do \in {"identify", "pin", "inspect"} => n \in before + 1 .. before + 2 * Len(s) + 1,
           \A n \in 1 .. 2 * Len(s) + 1 : tasks[before + n] = StartPlan(s)[n]
    PROVE  Ordered(tasks, Nothing)
<1> DEFINE k == Len(s)
<1>1. k \in Nat \ {0}
  BY SelectionsAreSequences
<1>2. /\ \A n \in 1 .. k : tasks[before + n].do = "identify" /\ tasks[before + n].account = s[n]
      /\ tasks[before + k + 1].do = "pin"
      /\ \A n \in 1 .. k : tasks[before + k + 1 + n].do = "inspect" /\ tasks[before + k + 1 + n].account = s[n]
  <2>1. /\ \A n \in 1 .. k : tasks[before + n] = Task("identify", s[n])
        /\ tasks[before + k + 1] = Task("pin", None)
    <3>1. k + 1 \in 1 .. 2 * k + 1 /\ before + (k + 1) = before + k + 1
          /\ \A n \in 1 .. k : n \in 1 .. 2 * k + 1
      BY <1>1
    <3> QED
      BY <3>1, StartShape
  <2>2. ASSUME NEW n \in 1 .. k PROVE tasks[before + k + 1 + n] = Task("inspect", s[n])
    <3>1. k + 1 + n \in 1 .. 2 * k + 1 /\ before + (k + 1 + n) = before + k + 1 + n
      BY <1>1
    <3> QED
      BY <3>1, StartShape
  <2> QED
    BY SMTT(30), <2>1, <2>2, TaskDoes
<1> HIDE DEF k
<1>3. ASSUME NEW n \in 1 .. Len(tasks)
      PROVE  /\ tasks[n].do = "identify" => n \in before + 1 .. before + k
             /\ tasks[n].do = "pin" => n = before + k + 1
             /\ tasks[n].do = "inspect" => n \in before + k + 2 .. before + 2 * k + 1
  <2>1. CASE n \notin before + 1 .. before + 2 * k + 1
    BY <2>1 DEF k
  <2>2. CASE n \in before + 1 .. before + k
    <3>1. n - before \in 1 .. k /\ before + (n - before) = n
      BY <1>1, <2>2
    <3> QED
      BY <1>2, <2>2, <3>1
  <2>3. CASE n = before + k + 1
    BY <1>2, <2>3
  <2>4. CASE n \in before + k + 2 .. before + 2 * k + 1
    <3>1. n - before - k - 1 \in 1 .. k /\ before + k + 1 + (n - before - k - 1) = n
      BY <1>1, <2>4
    <3> QED
      BY <1>2, <2>4, <3>1
  <2>5. \/ n \notin before + 1 .. before + 2 * k + 1
        \/ n \in before + 1 .. before + k
        \/ n = before + k + 1
        \/ n \in before + k + 2 .. before + 2 * k + 1
    BY <1>1
  <2> QED
    BY <2>1, <2>2, <2>3, <2>4, <2>5
<1>4. ASSUME NEW n \in 1 .. Len(tasks), NEW o \in 1 .. Len(tasks),
             tasks[n].do = "identify", tasks[o].do = "pin"
      PROVE  n < o
  BY <1>1, <1>3, <1>4
<1>5. ASSUME NEW n \in 1 .. Len(tasks), tasks[n].do = "inspect"
      PROVE  /\ \E o \in 1 .. n - 1 : tasks[o].do = "pin"
             /\ \E o \in 1 .. n - 1 : tasks[o].do = "identify" /\ tasks[o].account = tasks[n].account
  <2>1. n \in before + k + 2 .. before + 2 * k + 1
    BY <1>3, <1>5
  <2> DEFINE r == n - before - k - 1
  <2>2. r \in 1 .. k /\ before + k + 1 + r = n
    BY <1>1, <2>1
  <2>3. before + k + 1 \in 1 .. n - 1 /\ before + r \in 1 .. n - 1
    BY <1>1, <2>1, <2>2
  <2> QED
    BY <1>2, <2>2, <2>3
<1> QED
  BY <1>4, <1>5 DEF Ordered, Nothing

LEMMA OneTaskIsStartable ==
    ASSUME NEW t \in Tasks, t.do \in {"build", "dataset", "volume"}
    PROVE  Startable(<<t>>)
BY DEF Startable, Ordered, Nothing

LEMMA FindIsStartable ==
    ASSUME NEW s \in Selections
    PROVE  Startable(ForEach("find", s))
<1>1. s \in Seq(Accounts) /\ Len(s) \in Nat \ {0} /\ DOMAIN s = 1 .. Len(s)
  BY SelectionsAreSequences
<1>2. /\ ForEach("find", s) \in Seq(Tasks) /\ Len(ForEach("find", s)) = Len(s)
      /\ \A n \in 1 .. Len(s) : ForEach("find", s)[n] = Task("find", s[n])
  BY <1>1, TaskTypes DEF ForEach, Steps
<1> HIDE DEF ForEach
<1>3. \A n \in 1 .. Len(s) : ForEach("find", s)[n].do = "find"
  BY <1>2, TaskDoes
<1> QED
  BY <1>1, <1>2, <1>3 DEF Startable, Ordered, Nothing

LEMMA StartIsStartable ==
    ASSUME NEW s \in Selections
    PROVE  Startable(StartPlan(s))
<1> DEFINE tasks == StartPlan(s)
<1>1. Len(s) \in Nat \ {0}
  BY SelectionsAreSequences
<1>2. tasks \in Seq(Tasks) /\ Len(tasks) = 2 * Len(s) + 1
  BY StartShape
<1> HIDE DEF tasks
<1>3. /\ \A n \in 1 .. Len(tasks) : n \in 0 + 1 .. 0 + 2 * Len(s) + 1
      /\ \A n \in 1 .. 2 * Len(s) + 1 : tasks[0 + n] = tasks[n]
      /\ Len(tasks) >= 0 + 2 * Len(s) + 1 /\ tasks # <<>>
  BY <1>1, <1>2
<1>4. Ordered(tasks, Nothing)
  <2>1. \A n \in 1 .. 2 * Len(s) + 1 : tasks[0 + n] = StartPlan(s)[n]
    BY <1>3 DEF tasks
  <2>2. \A n \in 1 .. Len(tasks) :
          tasks[n].do \in {"identify", "pin", "inspect"} => n \in 0 + 1 .. 0 + 2 * Len(s) + 1
    BY <1>3
  <2>3. Len(tasks) \in Nat /\ 0 \in Nat
    BY <1>1, <1>2
  <2> DEFINE before == 0
  <2> HIDE DEF before
  <2>4. /\ before \in Nat /\ Len(tasks) >= before + 2 * Len(s) + 1
        /\ \A n \in 1 .. 2 * Len(s) + 1 : tasks[before + n] = StartPlan(s)[n]
        /\ \A n \in 1 .. Len(tasks) :
             tasks[n].do \in {"identify", "pin", "inspect"} => n \in before + 1 .. before + 2 * Len(s) + 1
    BY <1>3, <2>1, <2>2 DEF before
  <2> QED
    BY <2>3, <2>4, StartIsOrdered
<1> QED
  BY <1>2, <1>3, <1>4 DEF Startable, tasks

LEMMA SetupIsStartable ==
    ASSUME NEW s \in Selections, NEW login \in Logins(s)
    PROVE  Startable(SetupPlan(s, login))
<1>1. s \in Seq(Accounts) /\ Len(s) \in Nat \ {0} /\ DOMAIN s = 1 .. Len(s)
  BY SelectionsAreSequences
<1>2. login \in [1 .. Len(s) -> Identities]
  BY <1>1 DEF Logins
<1> DEFINE first == <<Task("dataset", None), Task("build", None)>>
           adds == [n \in DOMAIN s |-> AddTask(s[n], login[n])]
           start == StartPlan(s)
           save == ForEach("save", s)
<1>3. /\ first \in Seq(Tasks) /\ Len(first) = 2
      /\ \A n \in 1 .. 2 : first[n].do \in {"dataset", "build"}
  <2>1. Task("dataset", None) \in Tasks /\ Task("build", None) \in Tasks
    BY TaskTypes DEF Global
  <2> QED
    BY <2>1 DEF Task
<1>4. /\ adds \in Seq(Tasks) /\ Len(adds) = Len(s)
      /\ \A n \in 1 .. Len(s) : adds[n].do = "volume"
  <2>1. \A n \in 1 .. Len(s) : AddTask(s[n], login[n]) \in Tasks
    BY <1>1, <1>2, TaskTypes
  <2> QED
    BY <1>1, <2>1 DEF AddTask
<1>5. /\ save \in Seq(Tasks) /\ Len(save) = Len(s)
      /\ \A n \in 1 .. Len(s) : save[n].do = "save"
  <2>1. /\ save \in Seq(Tasks) /\ Len(save) = Len(s)
        /\ \A n \in 1 .. Len(s) : save[n] = Task("save", s[n])
    BY <1>1, TaskTypes DEF ForEach, Steps
  <2> HIDE DEF save
  <2> QED
    BY <2>1, TaskDoes
<1>6. start \in Seq(Tasks) /\ Len(start) = 2 * Len(s) + 1
  BY StartShape
<1>7. SetupPlan(s, login) = ((first \o adds) \o start) \o save
  BY DEF SetupPlan
<1> HIDE DEF first, adds, start, save
<1> DEFINE head == first \o adds
           body == head \o start
           tasks == body \o save
<1>8. /\ head \in Seq(Tasks) /\ Len(head) = Len(s) + 2
      /\ \A n \in 1 .. Len(head) : head[n].do \in {"dataset", "build", "volume"}
  <2>1. /\ head \in Seq(Tasks) /\ Len(head) = Len(first) + Len(adds)
        /\ \A n \in 1 .. Len(first) : head[n] = first[n]
        /\ \A n \in 1 .. Len(adds) : head[Len(first) + n] = adds[n]
    BY ZenonT(40), <1>3, <1>4, Joined
  <2> HIDE DEF head
  <2>2. ASSUME NEW n \in 1 .. Len(head), n > 2 PROVE head[n].do = "volume"
    <3>1. n - 2 \in 1 .. Len(adds) /\ Len(first) + (n - 2) = n
      BY <1>1, <1>3, <1>4, <2>1, <2>2
    <3>2. head[n] = adds[n - 2]
      BY <2>1, <3>1
    <3> QED
      BY <1>4, <3>1, <3>2
  <2> QED
    BY <1>1, <1>3, <1>4, <2>1, <2>2
<1> HIDE DEF head
<1>9. /\ body \in Seq(Tasks) /\ Len(body) = Len(head) + Len(start)
      /\ \A n \in 1 .. Len(head) : body[n] = head[n]
      /\ \A n \in 1 .. Len(start) : body[Len(head) + n] = start[n]
  BY <1>6, <1>8, Joined
<1> HIDE DEF body
<1>10. /\ tasks \in Seq(Tasks) /\ Len(tasks) = Len(body) + Len(save)
       /\ \A n \in 1 .. Len(body) : tasks[n] = body[n]
       /\ \A n \in 1 .. Len(save) : tasks[Len(body) + n] = save[n]
  BY <1>5, <1>9, Joined
<1> HIDE DEF tasks
<1> DEFINE before == Len(s) + 2
<1>11. ASSUME NEW n \in 1 .. Len(tasks), tasks[n].do \in {"identify", "pin", "inspect"}
       PROVE  n \in before + 1 .. before + 2 * Len(s) + 1
  <2>1. CASE n \in 1 .. before
    <3>1. n \in 1 .. Len(head) /\ n \in 1 .. Len(body)
      BY <1>1, <1>6, <1>8, <1>9, <2>1
    <3> QED
      BY <1>8, <1>9, <1>10, <1>11, <3>1
  <2>2. CASE n > before + 2 * Len(s) + 1
    <3>1. n - Len(body) \in 1 .. Len(save) /\ Len(body) + (n - Len(body)) = n
      BY <1>1, <1>5, <1>6, <1>8, <1>9, <1>10, <2>2
    <3> QED
      BY <1>5, <1>10, <1>11, <3>1
  <2> QED
    BY <1>1, <2>1, <2>2
<1>12. \A n \in 1 .. 2 * Len(s) + 1 : tasks[before + n] = StartPlan(s)[n]
  <2> TAKE n \in 1 .. 2 * Len(s) + 1
  <2>1. n \in 1 .. Len(start) /\ before + n = Len(head) + n /\ before + n \in 1 .. Len(body)
    BY <1>1, <1>6, <1>8, <1>9
  <2> QED
    BY <1>9, <1>10, <2>1 DEF start
<1>13. Len(tasks) \in Nat /\ Len(tasks) >= before + 2 * Len(s) + 1 /\ before \in Nat /\ tasks # <<>>
  BY <1>1, <1>5, <1>6, <1>8, <1>9, <1>10
<1>14. Ordered(tasks, Nothing)
  <2> HIDE DEF before
  <2> QED
    BY <1>11, <1>12, <1>13, StartIsOrdered
<1> QED
  BY <1>7, <1>10, <1>13, <1>14 DEF Startable, tasks, body, head

LEMMA PlansAreStartable == \A tasks \in Plans : Startable(tasks)
<1> TAKE tasks \in Plans
<1>1. CASE tasks \in {<<Task("build", None)>>, <<Task("dataset", None)>>}
  <2>1. /\ Task("build", None) \in Tasks /\ Task("build", None).do = "build"
        /\ Task("dataset", None) \in Tasks /\ Task("dataset", None).do = "dataset"
    BY TaskTypes DEF Global, Task
  <2> QED
    BY <1>1, <2>1, OneTaskIsStartable
<1>2. ASSUME NEW a \in Accounts, NEW x \in Identities, tasks = <<AddTask(a, x)>>
      PROVE  Startable(tasks)
  <2>1. AddTask(a, x) \in Tasks /\ AddTask(a, x).do = "volume"
    BY TaskTypes DEF AddTask
  <2> QED
    BY <1>2, <2>1, OneTaskIsStartable
<1> QED
  BY <1>1, <1>2, FindIsStartable, StartIsStartable, SetupIsStartable DEF Plans

-----------------------------------------------------------------------------
(* Control: what a command knows and has to do                             *)

VolumesKept == \A a \in Accounts : volume[a] \in Identities => volume'[a] = volume[a]

ControlTyped ==
    /\ plan \in [Commands -> Seq(Tasks)]
    /\ memory \in [Commands -> Memories]
    /\ signals \in [Commands -> {0, 1}]

LEMMA MemoryTypes ==
    ASSUME NEW m \in Memories
    PROVE  /\ m.known \subseteq Accounts \X Identities /\ m.ready \subseteq Accounts
           /\ m.pinned \in 0 .. MaxImages
           /\ \A x \in m.known : x[1] \in Accounts /\ x[2] \in Identities
BY DEF Memories

LEMMA NothingIsMemory == Nothing \in Memories
<1>1. MaxImages \in Nat
  BY ConstantsAssumption
<1> QED
  BY <1>1 DEF Memories, Nothing

\* A command that does nothing goes on knowing what it knows.
LEMMA OtherKeeps ==
    ASSUME NEW p, CommandOK(p), memory[p] \in Memories, VolumesKept,
           pc'[p] = pc[p], plan'[p] = plan[p], memory'[p] = memory[p]
    PROVE  CommandOK(p)'
<1>1. \A x \in memory[p].known : volume'[x[1]] = x[2]
  BY MemoryTypes DEF CommandOK, VolumesKept
<1>2. \A a, b \in memory[p].ready : volume'[a] \in Identities /\ (a # b => volume'[a] # volume'[b])
  BY MemoryTypes DEF CommandOK, VolumesKept, ServeDistinct
<1> QED
  BY <1>1, <1>2 DEF CommandOK, ServeDistinct

LEMMA EndKeeps ==
    ASSUME ControlTyped, Controlled, VolumesKept, NEW p \in Commands, End(p)
    PROVE  ControlTyped' /\ Controlled'
<1>1. ControlTyped' /\ pc' \in [Commands -> Calls]
  BY NothingIsMemory DEF ControlTyped, Controlled, End, Calls
<1>2. CommandOK(p)'
  BY DEF ControlTyped, Controlled, End, CommandOK, Nothing, ServeDistinct
<1>3. \A q \in Commands \ {p} : CommandOK(q)'
  BY OtherKeeps DEF ControlTyped, Controlled, End
<1> QED
  BY <1>1, <1>2, <1>3 DEF Controlled

LEMMA HoldKeeps ==
    ASSUME ControlTyped, Controlled, VolumesKept, UNCHANGED <<pc, plan, memory>>
    PROVE  Controlled'
<1>1. \A q \in Commands : CommandOK(q)'
  BY OtherKeeps DEF ControlTyped, Controlled
<1> QED
  BY <1>1 DEF Controlled

LEMMA GotoKeeps ==
    ASSUME ControlTyped, Controlled, VolumesKept, NEW p \in Commands, pc[p] # "idle",
           NEW step \in CallsOf(plan[p][1].do) \cap Calls, step # "idle", Goto(p, step)
    PROVE  ControlTyped' /\ Controlled'
<1>1. ControlTyped' /\ pc' \in [Commands -> Calls]
  BY DEF ControlTyped, Controlled, Goto
<1>2. CommandOK(p)'
  <2>1. memory'[p].ready = memory[p].ready /\ memory[p] \in Memories
    BY DEF ControlTyped, Goto
  <2>2. \A a, b \in memory[p].ready : volume'[a] \in Identities /\ (a # b => volume'[a] # volume'[b])
    BY <2>1, MemoryTypes DEF Controlled, CommandOK, VolumesKept, ServeDistinct
  <2>3. \A x \in memory[p].known : volume'[x[1]] = x[2]
    BY <2>1, MemoryTypes DEF Controlled, CommandOK, VolumesKept
  <2> QED
    BY <2>2, <2>3 DEF ControlTyped, Controlled, Goto, CommandOK, ServeDistinct
<1>3. \A q \in Commands \ {p} : CommandOK(q)'
  BY OtherKeeps DEF ControlTyped, Controlled, Goto
<1> QED
  BY <1>1, <1>2, <1>3 DEF Controlled

LEMMA TailTasks ==
    ASSUME NEW s \in Seq(Tasks), s # <<>>
    PROVE  /\ Len(s) \in Nat \ {0} /\ s[1] \in Tasks
           /\ Tail(s) \in Seq(Tasks) /\ Len(Tail(s)) = Len(s) - 1
           /\ \A n \in 1 .. Len(s) - 1 : Tail(s)[n] = s[n + 1]
OBVIOUS

\* What is left of an ordered plan is ordered, if the task that is done gave
\* the command what it was there for.
LEMMA TailIsOrdered ==
    ASSUME NEW s \in Seq(Tasks), Len(s) > 1, NEW m \in Memories, NEW n \in Memories, Ordered(s, m),
           m.known \subseteq n.known,
           n.pinned # 0 => Distinct(n.known),
           IF s[1].do = "pin" THEN n.pinned # 0 ELSE n.pinned = m.pinned,
           s[1].do = "identify" => IsKnown(s[1].account, n.known)
    PROVE  Ordered(Tail(s), n)
<1>1. /\ Len(s) \in Nat \ {0} /\ Tail(s) \in Seq(Tasks) /\ Len(Tail(s)) = Len(s) - 1
      /\ \A i \in 1 .. Len(s) - 1 : Tail(s)[i] = s[i + 1]
  <2>1. s # <<>>
    OBVIOUS
  <2> QED
    BY <2>1, TailTasks
<1> DEFINE t == Tail(s)
<1>2. Len(t) = Len(s) - 1 /\ \A i \in 1 .. Len(t) : t[i] = s[i + 1] /\ i + 1 \in 1 .. Len(s)
  BY <1>1
<1> HIDE DEF t
<1>3. ASSUME n.pinned # 0
      PROVE  Distinct(n.known) /\ \A i \in 1 .. Len(t) : t[i].do # "identify"
  <2>1. CASE s[1].do = "pin"
    <3>1. 1 \in 1 .. Len(s) /\ \A i \in 1 .. Len(t) : ~(i + 1 < 1)
      BY <1>1, <1>2
    <3>2. \A i \in 1 .. Len(t) : s[i + 1].do = "identify" => i + 1 < 1
      BY <1>2, <2>1, <3>1 DEF Ordered
    <3> QED
      BY <1>2, <1>3, <3>1, <3>2
  <2>2. CASE s[1].do # "pin"
    BY <1>2, <1>3, <2>2 DEF Ordered
  <2> QED
    BY <2>1, <2>2
<1>4. ASSUME NEW i \in 1 .. Len(t), NEW j \in 1 .. Len(t), t[i].do = "identify", t[j].do = "pin"
      PROVE  i < j
  <2>1. i + 1 < j + 1
    <3>1. i + 1 \in 1 .. Len(s) /\ j + 1 \in 1 .. Len(s) /\ s[i + 1].do = "identify" /\ s[j + 1].do = "pin"
      BY <1>2, <1>4
    <3> QED
      BY <3>1 DEF Ordered
  <2> QED
    BY <2>1, <1>1, <1>2
<1>5. ASSUME NEW i \in 1 .. Len(t), t[i].do = "inspect"
      PROVE  n.pinned # 0 \/ \E o \in 1 .. i - 1 : t[o].do = "pin"
  <2>1. m.pinned # 0 \/ \E o \in 1 .. (i + 1) - 1 : s[o].do = "pin"
    BY <1>2, <1>5 DEF Ordered
  <2>2. CASE m.pinned # 0
    BY <2>2
  <2>3. ASSUME NEW o \in 1 .. (i + 1) - 1, s[o].do = "pin", o # 1
        PROVE  \E r \in 1 .. i - 1 : t[r].do = "pin"
    <3>1. o - 1 \in 1 .. i - 1 /\ o - 1 \in 1 .. Len(t) /\ (o - 1) + 1 = o
      BY <1>1, <1>2, <2>3
    <3>2. t[o - 1] = s[o]
      BY <1>2, <3>1
    <3> QED
      BY <2>3, <3>1, <3>2
  <2> QED
    BY <2>1, <2>2, <2>3
<1>6. ASSUME NEW i \in 1 .. Len(t), t[i].do = "inspect"
      PROVE  \/ IsKnown(t[i].account, n.known)
             \/ \E o \in 1 .. i - 1 : t[o].do = "identify" /\ t[o].account = t[i].account
  <2>1. \/ IsKnown(t[i].account, m.known)
        \/ \E o \in 1 .. (i + 1) - 1 : s[o].do = "identify" /\ s[o].account = t[i].account
    BY <1>2, <1>6 DEF Ordered
  <2>2. CASE IsKnown(t[i].account, m.known)
    BY <2>2 DEF IsKnown
  <2>3. ASSUME NEW o \in 1 .. (i + 1) - 1, s[o].do = "identify", s[o].account = t[i].account
        PROVE  \/ IsKnown(t[i].account, n.known)
               \/ \E r \in 1 .. i - 1 : t[r].do = "identify" /\ t[r].account = t[i].account
    <3>1. CASE o = 1
      BY <2>3, <3>1
    <3>2. CASE o # 1
      <4>1. o - 1 \in 1 .. i - 1 /\ o - 1 \in 1 .. Len(t) /\ (o - 1) + 1 = o
        BY <1>1, <1>2, <3>2
      <4>2. t[o - 1] = s[o]
        BY <1>2, <4>1
      <4> QED
        BY <2>3, <4>1, <4>2
    <3> QED
      BY <3>1, <3>2
  <2> QED
    BY <2>1, <2>2, <2>3
<1> QED
  BY <1>3, <1>4, <1>5, <1>6 DEF Ordered, t

LEMMA NextTask ==
    ASSUME NEW s \in Seq(Tasks), s # <<>>, Len(s) # 1
    PROVE  Len(s) > 1 /\ s[2] \in Tasks /\ Tail(s) # <<>> /\ Tail(s)[1] = s[2]
<1>1. Len(s) \in Nat \ {0} /\ Len(Tail(s)) = Len(s) - 1 /\ \A n \in 1 .. Len(s) - 1 : Tail(s)[n] = s[n + 1]
  BY TailTasks
<1>2. Len(s) > 1 /\ 2 \in 1 .. Len(s) /\ 1 \in 1 .. Len(s) - 1
  BY <1>1
<1>3. s[2] \in Tasks
  BY <1>2
<1>4. Tail(s)[1] = s[1 + 1]
  BY <1>1, <1>2
<1>5. Len(Tail(s)) # 0
  BY <1>1, <1>2
<1>6. Tail(s) # <<>>
  <2> DEFINE t == Tail(s)
  <2>1. Len(t) # 0
    BY <1>5
  <2> HIDE DEF t
  <2>2. t # <<>>
    BY <2>1
  <2> QED
    BY <2>2 DEF t
<1> QED
  BY <1>2, <1>3, <1>4, <1>6

LEMMA StepsAreCalls ==
    \A t \in Tasks : t.do \in Calls /\ t.do # "idle" /\ t.do \in CallsOf(t.do)
BY DEF Tasks, Steps, Calls, CallsOf

LEMMA LearnKeeps ==
    ASSUME ControlTyped, Controlled, VolumesKept, NEW p \in Commands, pc[p] # "idle",
           NEW m \in Memories, Learn(p, m),
           memory[p].known \subseteq m.known,
           m.pinned # 0 => Distinct(m.known),
           IF plan[p][1].do = "pin" THEN m.pinned # 0 ELSE m.pinned = memory[p].pinned,
           plan[p][1].do = "identify" => IsKnown(plan[p][1].account, m.known),
           \A a \in m.ready : IsKnown(a, m.known),
           \A x \in m.known : volume[x[1]] = x[2],
           ServeDistinct(m.ready)
    PROVE  ControlTyped' /\ Controlled'
<1>1. /\ plan[p] \in Seq(Tasks) /\ plan[p] # <<>> /\ memory[p] \in Memories
      /\ Ordered(plan[p], memory[p])
  BY DEF ControlTyped, Controlled, CommandOK
<1>2. /\ Len(plan[p]) \in Nat \ {0} /\ Tail(plan[p]) \in Seq(Tasks)
      /\ Len(Tail(plan[p])) = Len(plan[p]) - 1
      /\ \A n \in 1 .. Len(plan[p]) - 1 : Tail(plan[p])[n] = plan[p][n + 1]
  BY <1>1, TailTasks
<1>3. plan' = [plan EXCEPT ![p] = Tail(plan[p])] /\ UNCHANGED signals
  BY DEF Learn
<1>4. plan' \in [Commands -> Seq(Tasks)] /\ plan'[p] = Tail(plan[p])
  BY <1>2, <1>3 DEF ControlTyped
<1>5. \A x \in m.known : volume'[x[1]] = x[2]
  BY MemoryTypes DEF VolumesKept
<1>6. \A a, b \in m.ready : volume'[a] \in Identities /\ (a # b => volume'[a] # volume'[b])
  BY MemoryTypes DEF VolumesKept, ServeDistinct
<1>7. CASE Len(plan[p]) = 1
  <2> DEFINE done == [Nothing EXCEPT !.ready = m.ready]
  <2>1. done \in Memories /\ done.known = {} /\ done.ready = m.ready
    BY NothingIsMemory, MemoryTypes DEF Memories, Nothing
  <2>2. pc' = [pc EXCEPT ![p] = "idle"] /\ memory' = [memory EXCEPT ![p] = done]
    BY <1>7 DEF Learn
  <2> HIDE DEF done
  <2>3. pc' \in [Commands -> Calls] /\ memory' \in [Commands -> Memories]
        /\ pc'[p] = "idle" /\ memory'[p] = done
    BY <2>1, <2>2 DEF ControlTyped, Controlled, Calls
  <2>4. plan'[p] = <<>>
    BY <1>2, <1>4, <1>7
  <2>5. CommandOK(p)'
    BY <1>6, <2>1, <2>3, <2>4 DEF CommandOK, ServeDistinct
  <2>6. \A q \in Commands \ {p} : CommandOK(q)'
    BY <1>3, <2>2, OtherKeeps DEF ControlTyped, Controlled
  <2> QED
    BY <1>3, <1>4, <2>3, <2>5, <2>6 DEF ControlTyped, Controlled
<1>8. CASE Len(plan[p]) # 1
  <2>1. pc' = [pc EXCEPT ![p] = plan[p][2].do] /\ memory' = [memory EXCEPT ![p] = m]
    BY <1>8 DEF Learn
  <2>2. Len(plan[p]) > 1 /\ plan[p][2] \in Tasks /\ Tail(plan[p]) # <<>> /\ Tail(plan[p])[1] = plan[p][2]
    BY <1>1, <1>8, NextTask
  <2>3. /\ plan[p][2].do \in Calls /\ plan[p][2].do # "idle"
        /\ plan[p][2].do \in CallsOf(plan[p][2].do)
    BY <2>2, StepsAreCalls
  <2>4. /\ pc' \in [Commands -> Calls] /\ memory' \in [Commands -> Memories]
        /\ pc'[p] = plan[p][2].do /\ memory'[p] = m
    BY <2>1, <2>3 DEF ControlTyped, Controlled
  <2>5. Ordered(Tail(plan[p]), m)
    BY <1>1, <2>2, TailIsOrdered
  <2>6. CommandOK(p)'
    BY <1>4, <1>5, <1>6, <2>2, <2>3, <2>4, <2>5 DEF CommandOK, ServeDistinct
  <2>7. \A q \in Commands \ {p} : CommandOK(q)'
    BY <1>3, <2>1, OtherKeeps DEF ControlTyped, Controlled
  <2> QED
    BY <1>3, <1>4, <2>4, <2>6, <2>7 DEF ControlTyped, Controlled
<1> QED
  BY <1>7, <1>8

LEMMA AdvanceKeeps ==
    ASSUME ControlTyped, Controlled, VolumesKept, NEW p \in Commands, pc[p] # "idle",
           plan[p][1].do \notin {"pin", "identify"}, Advance(p)
    PROVE  ControlTyped' /\ Controlled'
<1>1. /\ memory[p] \in Memories
      /\ memory[p].pinned # 0 => Distinct(memory[p].known)
      /\ \A a \in memory[p].ready : IsKnown(a, memory[p].known)
      /\ \A x \in memory[p].known : volume[x[1]] = x[2]
      /\ ServeDistinct(memory[p].ready)
  BY DEF ControlTyped, Controlled, CommandOK, Ordered
<1> QED
  BY <1>1, LearnKeeps DEF Advance

LEMMA LaunchKeeps ==
    ASSUME ControlTyped, Controlled, VolumesKept, NEW p \in Commands, NEW tasks \in Plans,
           plan' = [plan EXCEPT ![p] = tasks], pc' = [pc EXCEPT ![p] = tasks[1].do],
           memory' = [memory EXCEPT ![p] = Nothing], UNCHANGED signals
    PROVE  ControlTyped' /\ Controlled'
<1>1. tasks \in Seq(Tasks) /\ tasks # <<>> /\ Ordered(tasks, Nothing)
  BY PlansAreStartable DEF Startable
<1>2. tasks[1] \in Tasks
  BY <1>1, TailTasks
<1>3. tasks[1].do \in Calls /\ tasks[1].do # "idle" /\ tasks[1].do \in CallsOf(tasks[1].do)
  BY <1>2, StepsAreCalls
<1>4. ControlTyped' /\ pc' \in [Commands -> Calls]
  BY <1>1, <1>3, NothingIsMemory DEF ControlTyped, Controlled
<1>5. CommandOK(p)'
  <2>1. pc'[p] = tasks[1].do /\ plan'[p] = tasks /\ memory'[p] = Nothing
    BY DEF ControlTyped, Controlled
  <2>2. Nothing.known = {} /\ Nothing.ready = {}
    BY DEF Nothing
  <2> QED
    BY <1>1, <1>3, <2>1, <2>2 DEF CommandOK, ServeDistinct
<1>6. \A q \in Commands \ {p} : CommandOK(q)'
  BY OtherKeeps DEF ControlTyped, Controlled
<1> QED
  BY <1>4, <1>5, <1>6 DEF Controlled

-----------------------------------------------------------------------------
(* Containers: who works on them                                           *)

DockerTyped ==
    /\ image \in 0 .. MaxImages
    /\ volume \in [Accounts -> Volumes]
    /\ container \in [Accounts -> Containers]
    /\ dataset \in Contents \cup {None}
    /\ urls \subseteq Accounts
    /\ work \in 0 .. MaxWork
    /\ abandoned \subseteq Accounts

LEMMA TypesSplit == ValuesTyped <=> DockerTyped /\ ControlTyped
BY DEF ValuesTyped, DockerTyped, ControlTyped

\* What is known of the task that a call belongs to.
LEMMA CallFacts ==
    ASSUME ControlTyped, Controlled, NEW p \in Commands, pc[p] # "idle"
    PROVE  /\ plan[p] \in Seq(Tasks) /\ plan[p] # <<>>
           /\ plan[p][1] \in Tasks /\ Head(plan[p]) = plan[p][1]
           /\ pc[p] \in CallsOf(plan[p][1].do)
           /\ plan[p][1].do \notin Global => Here(p) \in Accounts
           /\ plan[p][1].do = "volume" => plan[p][1].identity \in Identities
<1>1. plan[p] \in Seq(Tasks) /\ plan[p] # <<>> /\ pc[p] \in CallsOf(plan[p][1].do)
  BY DEF ControlTyped, Controlled, CommandOK
<1>2. plan[p][1] \in Tasks /\ Head(plan[p]) = plan[p][1]
  BY <1>1, TailTasks
<1> QED
  BY <1>1, <1>2 DEF Tasks, Here

LEMMA CallOfTask ==
    ASSUME NEW call, NEW t \in Tasks, call \in CallsOf(t.do)
    PROVE  /\ call \in {"dataset", "publish"} => t.do = "dataset"
           /\ call \in {"volume", "import", "link"} => t.do = "volume"
           /\ call \in {"inspect", "create", "copy", "cleanup", "launch", "poll"} => t.do = "inspect"
           /\ call \in {"find", "stop"} => t.do = "find"
           /\ call \in {"build", "identify", "pin", "save"} => t.do = call
BY DEF CallsOf, Tasks, Steps

\* The same of a command, whose task CallOfTask would otherwise have to name.
LEMMA Doing ==
    ASSUME ControlTyped, Controlled, NEW p \in Commands, pc[p] # "idle"
    PROVE  /\ memory[p] \in Memories /\ Ordered(plan[p], memory[p])
           /\ 1 \in 1 .. Len(plan[p]) /\ Here(p) = plan[p][1].account
           /\ pc[p] \in {"dataset", "publish"} => plan[p][1].do = "dataset"
           /\ pc[p] \in {"volume", "import", "link"} =>
                plan[p][1].do = "volume" /\ Head(plan[p]).identity \in Identities
           /\ pc[p] \in {"inspect", "create", "copy", "cleanup", "launch", "poll"} => plan[p][1].do = "inspect"
           /\ pc[p] \in {"find", "stop"} => plan[p][1].do = "find"
           /\ pc[p] \in {"build", "identify", "pin", "save"} => plan[p][1].do = pc[p]
           /\ pc[p] \notin {"dataset", "publish", "build", "pin"} => Here(p) \in Accounts
<1> DEFINE t == plan[p][1]
<1>1. /\ t \in Tasks /\ pc[p] \in CallsOf(t.do) /\ Head(plan[p]) = t
      /\ t.do \notin Global => Here(p) \in Accounts
      /\ t.do = "volume" => t.identity \in Identities
  BY CallFacts
<1>2. memory[p] \in Memories /\ Ordered(plan[p], memory[p])
  BY DEF ControlTyped, Controlled, CommandOK
<1>3. 1 \in 1 .. Len(plan[p])
  <2>1. plan[p] \in Seq(Tasks) /\ plan[p] # <<>>
    BY CallFacts
  <2> QED
    BY <2>1, TailTasks
<1>4. Here(p) = t.account
  BY <1>1 DEF Here
<1> HIDE DEF t
<1>5. /\ pc[p] \in {"dataset", "publish"} => t.do = "dataset"
      /\ pc[p] \in {"volume", "import", "link"} => t.do = "volume"
      /\ pc[p] \in {"inspect", "create", "copy", "cleanup", "launch", "poll"} => t.do = "inspect"
      /\ pc[p] \in {"find", "stop"} => t.do = "find"
      /\ pc[p] \in {"build", "identify", "pin", "save"} => t.do = pc[p]
  BY <1>1, CallOfTask
<1>6. pc[p] \notin {"dataset", "publish", "build", "pin"} => t.do \notin Global
  BY <1>1 DEF CallsOf, Global, Tasks, Steps
<1> QED
  BY <1>1, <1>2, <1>3, <1>4, <1>5, <1>6 DEF t

LEMMA ContainerTypes ==
    /\ NoContainer \in Containers /\ Foreign \in Containers
    /\ NoContainer.maker = None /\ Foreign.maker = None /\ NoContainer # Foreign
    /\ NoContainer.key = None /\ Foreign.key = None
    /\ ~NoContainer.running /\ Foreign.running
    /\ None \notin Commands /\ None \notin Keys /\ Key \in Keys
<1>1. MaxImages \in Nat /\ Key \in Keys /\ None \notin Accounts \cup Commands \cup Identities \cup Keys
  BY ConstantsAssumption
<1> QED
  BY <1>1 DEF NoContainer, Foreign, Containers

\* What p does leaves what the other commands do.
Only(p) == \A q \in Commands \ {p} : pc'[q] = pc[q] /\ plan'[q] = plan[q]

Making == {"copy", "cleanup"}

\* A step that touches no container.
LEMMA QuietKeeps ==
    ASSUME ControlTyped, Controlled, ContainersOwned, CancellationIsClean, NEW p \in Commands,
           UNCHANGED <<container, abandoned>>, Only(p),
           pc[p] \in Making <=> pc'[p] \in Making,
           pc[p] \in Making => plan'[p] = plan[p],
           pc'[p] = "stop" => plan'[p] = plan[p] /\ container[Here(p)] # Foreign
    PROVE  ContainersOwned' /\ CancellationIsClean'
<1>1. /\ \A q \in Commands \ {p} : Here(q)' = Here(q)
      /\ pc[p] \in Making \/ pc'[p] = "stop" => Here(p)' = Here(p)
  BY DEF Here, Only
<1>2. ContainersOwned'
  <2>1. container' = container
    OBVIOUS
  <2>2. \A q \in Commands : pc'[q] \in Making => pc[q] \in Making /\ Here(q)' = Here(q)
    BY <1>1 DEF Only
  <2>3. \A q \in Commands : pc'[q] = "stop" => container[Here(q)'] # Foreign
    BY <1>1 DEF Only, ContainersOwned
  <2> QED
    BY <2>1, <2>2, <2>3 DEF ContainersOwned, NoContainer, Foreign, Making
<1>3. ASSUME NEW a \in Accounts, AtWork(a, Making)
      PROVE  AtWork(a, Making)'
  BY <1>1, <1>3 DEF AtWork, Only
<1>4. \A a \in Accounts : HalfMade(a)' => HalfMade(a)
  BY DEF HalfMade, Owned, NoContainer, Foreign
<1> QED
  BY <1>2, <1>3, <1>4 DEF CancellationIsClean, Making

\* A step that leaves a half-made container and says so.
LEMMA AbandonKeeps ==
    ASSUME Controlled, ContainersOwned, CancellationIsClean, NEW p \in Commands,
           UNCHANGED container, abandoned' = abandoned \cup {Here(p)}, Only(p),
           pc'[p] \notin Making \cup {"stop"}
    PROVE  ContainersOwned' /\ CancellationIsClean'
<1>1. \A q \in Commands \ {p} : Here(q)' = Here(q)
  BY DEF Here, Only
<1>2. ContainersOwned'
  <2>1. container' = container
    OBVIOUS
  <2>2. \A q \in Commands : pc'[q] \in {"copy", "cleanup", "stop"} => pc'[q] = pc[q] /\ Here(q)' = Here(q)
    BY <1>1 DEF Only, Making
  <2> QED
    BY <2>1, <2>2 DEF ContainersOwned, NoContainer, Foreign
<1>3. ASSUME NEW a \in Accounts, AtWork(a, {"copy", "cleanup"})
      PROVE  a \in abandoned' \/ AtWork(a, {"copy", "cleanup"})'
  BY <1>1, <1>3 DEF AtWork, Only
<1>4. \A a \in Accounts : HalfMade(a)' => HalfMade(a)
  BY DEF HalfMade, Owned, NoContainer, Foreign
<1> QED
  BY <1>2, <1>3, <1>4 DEF CancellationIsClean

\* A step that puts the container c where p is working.
LEMMA PutKeeps ==
    ASSUME DockerTyped, Controlled, ContainersOwned, CancellationIsClean, NEW p \in Commands, NEW c,
           Here(p) \in Accounts, Put(Here(p), c), Only(p), abandoned \subseteq abandoned',
           c # Foreign,
           c.maker = None => c = NoContainer \/ c.key # None,
           c.maker = container[Here(p)].maker \/ container[Here(p)].maker \in {None, p},
           pc'[p] # "stop",
           pc'[p] \in Making => c.maker = p /\ plan'[p] = plan[p],
           \/ c = NoContainer
           \/ c.key # None
           \/ Here(p) \in abandoned'
           \/ pc'[p] \in Making
           \/ /\ Owned(Here(p)) /\ c.maker = container[Here(p)].maker /\ c.key = container[Here(p)].key
              /\ pc[p] \notin Making
    PROVE  ContainersOwned' /\ CancellationIsClean'
<1> DEFINE a == Here(p)
<1>1. /\ \A q \in Commands \ {p} : Here(q)' = Here(q)
      /\ pc'[p] \in Making => Here(p)' = a
  BY DEF Here, Only
<1>2. None \notin Commands
  BY ContainerTypes
<1>3. container'[a] = c /\ \A b \in Accounts \ {a} : container'[b] = container[b]
  BY DEF DockerTyped, Put
<1>4. ASSUME NEW q \in Commands, pc'[q] \in Making
      PROVE  container'[Here(q)'].maker = q
  <2>1. CASE q = p
    BY <1>1, <1>3, <1>4, <2>1
  <2>2. CASE q # p
    <3>1. pc[q] \in Making /\ Here(q)' = Here(q) /\ container[Here(q)].maker = q
      BY <1>1, <1>4, <2>2 DEF Only, ContainersOwned, Making
    <3>2. CASE Here(q) = a
      BY <1>2, <1>3, <2>2, <3>1, <3>2
    <3>3. CASE Here(q) # a
      <4>1. pc[q] # "idle"
        BY <3>1 DEF Making
      <4>2. container'[Here(q)] = container[Here(q)]
        BY <3>3 DEF Put, DockerTyped
      <4> QED
        BY <3>1, <4>2
    <3> QED
      BY <3>2, <3>3
  <2> QED
    BY <2>1, <2>2
<1>5. ASSUME NEW q \in Commands, pc'[q] = "stop"
      PROVE  container'[Here(q)'] # Foreign
  <2>1. q # p /\ pc[q] = "stop" /\ Here(q)' = Here(q) /\ container[Here(q)] # Foreign
    BY <1>1, <1>5 DEF Only, ContainersOwned
  <2>2. CASE Here(q) = a
    BY <1>3, <2>1, <2>2
  <2>3. CASE Here(q) # a
    BY <2>1, <2>3 DEF Put, DockerTyped
  <2> QED
    BY <2>2, <2>3
<1>6. ASSUME NEW b \in Accounts, container'[b].maker = None
      PROVE  container'[b] \in {NoContainer, Foreign} \/ container'[b].key # None
  BY <1>3, <1>6 DEF ContainersOwned
<1>7. ASSUME NEW b \in Accounts, HalfMade(b)'
      PROVE  b \in abandoned' \/ AtWork(b, Making)'
  <2>0. container'[b] \notin {NoContainer, Foreign} /\ container'[b].key = None
    BY <1>7 DEF HalfMade, Owned, NoContainer, Foreign
  <2>1. ASSUME NEW q \in Commands, q # p, pc[q] \in Making, Here(q) = b, container'[b].maker = q
        PROVE  AtWork(b, Making)'
    BY <1>1, <2>1 DEF AtWork, Only
  <2>2. CASE b # a
    <3>1. HalfMade(b)
      BY <1>3, <2>0, <2>2 DEF HalfMade, Owned
    <3>2. CASE b \in abandoned
      BY <3>2
    <3>3. CASE AtWork(b, Making)
      BY <1>3, <2>1, <2>2, <3>3 DEF AtWork
    <3> QED
      BY <3>1, <3>2, <3>3 DEF CancellationIsClean, Making
  <2>3. CASE b = a /\ pc'[p] \in Making
    BY <1>1, <1>3, <2>3 DEF AtWork
  <2>4. CASE /\ b = a /\ Owned(a) /\ c.maker = container[a].maker /\ c.key = container[a].key
             /\ pc[p] \notin Making
    <3>1. HalfMade(b)
      BY <1>3, <2>0, <2>4 DEF HalfMade
    <3>2. CASE b \in abandoned
      BY <3>2
    <3>3. CASE AtWork(b, Making)
      BY <1>3, <2>1, <2>4, <3>3 DEF AtWork
    <3> QED
      BY <3>1, <3>2, <3>3 DEF CancellationIsClean, Making
  <2> QED
    BY <1>3, <2>0, <2>2, <2>3, <2>4
<1>8. ContainersOwned'
  BY <1>4, <1>5, <1>6 DEF ContainersOwned, Making, NoContainer, Foreign
<1> QED
  BY <1>7, <1>8 DEF CancellationIsClean, Making

-----------------------------------------------------------------------------
(* The steps: types and what is published                                  *)

Act(p) == Launch(p) \/ Progress(p) \/ Disturbance(p)

LEMMA ActionTypes ==
    /\ MaxImages \in Nat /\ MaxWork \in Nat
    /\ "empty" \in Volumes /\ Cut \in Volumes /\ Identities \subseteq Volumes
    /\ "no volume" \notin Identities /\ "empty" \notin Identities /\ Cut \notin Identities
BY ConstantsAssumption DEF Volumes

\* What every step leaves of the credentials and the problem file.
PublishedStep ==
    /\ VolumesKept
    /\ dataset # None => dataset' = dataset
    /\ volume' \in [Accounts -> Volumes]
    /\ dataset' \in Contents \cup {None}

LEMMA StoreKeeps ==
    ASSUME ValuesTyped, NEW a \in Accounts, NEW content \in Volumes, volume[a] \notin Identities,
           volume' = [volume EXCEPT ![a] = content], dataset' = dataset
    PROVE  PublishedStep
BY DEF ValuesTyped, PublishedStep, VolumesKept

LEMMA UntouchedKeeps ==
    ASSUME ValuesTyped, UNCHANGED <<volume, dataset>>
    PROVE  PublishedStep
BY DEF ValuesTyped, PublishedStep, VolumesKept

LEMMA Published ==
    ASSUME ValuesTyped, Controlled, NEW p \in Commands, Act(p)
    PROVE  PublishedStep
<1> USE DEF hostVars, dockerVars
<1>1. ControlTyped
  BY TypesSplit
<1>2. CASE CreateVolume(p)
  <2>1. CASE UNCHANGED volume
    BY <1>2, <2>1, UntouchedKeeps DEF CreateVolume
  <2>2. CASE volume' = [volume EXCEPT ![Here(p)] = IF @ = "no volume" THEN "empty" ELSE @]
    <3>1. pc[p] = "volume"
      BY <1>2 DEF CreateVolume
    <3>2. Here(p) \in Accounts
      BY <1>1, <3>1, Doing
    <3>3. CASE volume[Here(p)] = "no volume"
      <4>1. volume' = [volume EXCEPT ![Here(p)] = "empty"]
        BY <2>2, <3>3
      <4> QED
        BY <1>2, <3>2, <3>3, <4>1, ActionTypes, StoreKeeps DEF CreateVolume
    <3>4. CASE volume[Here(p)] # "no volume"
      <4>1. volume' = volume
        BY <2>2, <3>2, <3>4 DEF ValuesTyped
      <4> QED
        BY <1>2, <4>1, UntouchedKeeps DEF CreateVolume
    <3> QED
      BY <3>3, <3>4
  <2> QED
    BY <1>2, <2>1, <2>2 DEF CreateVolume
<1>3. CASE Link(p)
  <2>1. CASE UNCHANGED volume
    BY <1>3, <2>1, UntouchedKeeps DEF Link
  <2>2. CASE volume[Here(p)] = "empty" /\ Store(Here(p), Head(plan[p]).identity)
    <3>1. pc[p] = "link"
      BY <1>3 DEF Link
    <3>2. Here(p) \in Accounts /\ Head(plan[p]).identity \in Identities
      BY <1>1, <3>1, Doing
    <3> QED
      BY <1>3, <2>2, <3>2, ActionTypes, StoreKeeps DEF Link, Store
  <2> QED
    BY <1>3, <2>1, <2>2 DEF Link
<1>4. CASE CutImport(p)
  <2>1. pc[p] \in Importing /\ volume[Here(p)] = "empty" /\ Store(Here(p), Cut)
    BY <1>4 DEF CutImport
  <2>2. Here(p) \in Accounts
    BY <1>1, <2>1, Doing DEF Importing
  <2> QED
    BY <1>4, <2>1, <2>2, ActionTypes, StoreKeeps DEF CutImport, Store
<1>5. CASE PublishDataset(p)
  BY <1>5 DEF PublishDataset, PublishedStep, VolumesKept, ValuesTyped
<1>6. CASE Launch(p)
  BY <1>6, UntouchedKeeps DEF Launch
<1>7. CASE LookForDataset(p) \/ Build(p) \/ SaveUrl(p) \/ Import(p)
  BY <1>7, UntouchedKeeps DEF LookForDataset, Build, SaveUrl, Import
<1>8. CASE ReadIdentity(p) \/ PinImage(p) \/ Inspect(p) \/ NameTaken(p) \/ Create(p)
  BY <1>8, UntouchedKeeps DEF ReadIdentity, PinImage, Inspect, NameTaken, Create
<1>9. CASE CopyConfiguration(p) \/ RemoveContainer(p) \/ RemoveFails(p) \/ StartContainer(p) \/ Answered(p)
  BY <1>9, UntouchedKeeps DEF CopyConfiguration, RemoveContainer, RemoveFails, StartContainer, Answered
<1>10. CASE StartupFails(p) \/ FindRunning(p) \/ StopContainer(p) \/ CallFails(p) \/ CopyFails(p)
  BY <1>10, UntouchedKeeps DEF StartupFails, FindRunning, StopContainer, CallFails, CopyFails
<1>11. CASE HoldSignal(p) \/ Signal(p) \/ CancelCreate(p) \/ CancelCopy(p) \/ CancelCleanup(p) \/ Kill(p)
  BY <1>11, UntouchedKeeps DEF HoldSignal, Signal, CancelCreate, CancelCopy, CancelCleanup, Kill
<1> QED
  BY <1>2, <1>3, <1>4, <1>5, <1>6, <1>7, <1>8, <1>9, <1>10, <1>11 DEF Act, Progress, Disturbance

-----------------------------------------------------------------------------
(* The steps: what the commands know                                       *)

LEMMA ReadKeeps ==
    ASSUME ValuesTyped, Controlled, VolumesKept, NEW p \in Commands, ReadIdentity(p)
    PROVE  ControlTyped' /\ Controlled'
<1>1. ControlTyped /\ pc[p] = "identify"
  BY TypesSplit DEF ReadIdentity
<1>2. CASE End(p)
  BY <1>1, <1>2, EndKeeps
<1>3. CASE /\ volume[Here(p)] \in Identities
           /\ Learn(p, [memory[p] EXCEPT !.known = @ \cup {<<Here(p), volume[Here(p)]>>}])
  <2> DEFINE m == [memory[p] EXCEPT !.known = @ \cup {<<Here(p), volume[Here(p)]>>}]
  <2>1. /\ plan[p][1].do = "identify" /\ Here(p) \in Accounts /\ Here(p) = plan[p][1].account
        /\ memory[p] \in Memories /\ 1 \in 1 .. Len(plan[p])
    BY <1>1, Doing
  <2>2. memory[p].pinned = 0
    BY <1>1, <2>1 DEF Controlled, CommandOK, Ordered
  <2>3. /\ m \in Memories /\ m.pinned = memory[p].pinned /\ m.ready = memory[p].ready
        /\ m.known = memory[p].known \cup {<<Here(p), volume[Here(p)]>>}
    BY <1>3, <2>1 DEF Memories
  <2> HIDE DEF m
  <2>4. IsKnown(plan[p][1].account, m.known) /\ \A a \in m.ready : IsKnown(a, m.known)
    <3>1. <<Here(p), volume[Here(p)]>>[1] = plan[p][1].account
      BY <2>1
    <3>2. \A a \in memory[p].ready : IsKnown(a, memory[p].known)
      BY <1>1 DEF Controlled, CommandOK
    <3> QED
      BY <2>3, <3>1, <3>2 DEF IsKnown
  <2>5. /\ \A x \in m.known : volume[x[1]] = x[2]
        /\ ServeDistinct(m.ready)
    BY <2>3 DEF Controlled, CommandOK
  <2>6. Learn(p, m)
    BY <1>3 DEF m
  <2> QED
    BY <1>1, <2>1, <2>2, <2>3, <2>4, <2>5, <2>6, LearnKeeps
<1> QED
  BY <1>2, <1>3 DEF ReadIdentity

LEMMA PinKeeps ==
    ASSUME ValuesTyped, Controlled, VolumesKept, NEW p \in Commands, PinImage(p)
    PROVE  ControlTyped' /\ Controlled'
<1>1. ControlTyped /\ pc[p] = "pin"
  BY TypesSplit DEF PinImage
<1>2. CASE End(p)
  BY <1>1, <1>2, EndKeeps
<1>3. CASE Distinct(memory[p].known) /\ image # 0 /\ Learn(p, [memory[p] EXCEPT !.pinned = image])
  <2> DEFINE m == [memory[p] EXCEPT !.pinned = image]
  <2>1. plan[p][1].do = "pin" /\ memory[p] \in Memories
    BY <1>1, Doing
  <2>2. m \in Memories /\ m.pinned = image /\ m.ready = memory[p].ready /\ m.known = memory[p].known
    BY <2>1 DEF Memories, ValuesTyped
  <2>3. Learn(p, m)
    BY <1>3
  <2> HIDE DEF m
  <2>4. /\ \A a \in m.ready : IsKnown(a, m.known)
        /\ \A x \in m.known : volume[x[1]] = x[2]
        /\ ServeDistinct(m.ready)
    BY <1>1, <2>2 DEF Controlled, CommandOK
  <2> QED
    BY <1>1, <1>3, <2>1, <2>2, <2>3, <2>4, LearnKeeps
<1> QED
  BY <1>2, <1>3 DEF PinImage

\* A gateway answers that holds a subscription no other one holds which this
\* command knows.
LEMMA AnswerKeeps ==
    ASSUME ValuesTyped, Controlled, VolumesKept, NEW p \in Commands, Answered(p)
    PROVE  ControlTyped' /\ Controlled'
<1>1. ControlTyped /\ pc[p] = "poll"
  BY TypesSplit DEF Answered
<1>2. CASE End(p)
  BY <1>1, <1>2, EndKeeps
<1>3. CASE Learn(p, [memory[p] EXCEPT !.ready = @ \cup {Here(p)}])
  <2> DEFINE m == [memory[p] EXCEPT !.ready = @ \cup {Here(p)}]
  <2>1. /\ plan[p][1].do = "inspect" /\ Here(p) \in Accounts /\ Here(p) = plan[p][1].account
        /\ memory[p] \in Memories /\ 1 \in 1 .. Len(plan[p])
    BY <1>1, Doing
  <2>2. Ordered(plan[p], memory[p])
    BY <1>1 DEF Controlled, CommandOK
  <2>3. memory[p].pinned # 0 /\ Distinct(memory[p].known) /\ IsKnown(Here(p), memory[p].known)
    <3>1. 1 .. 1 - 1 = {}
      OBVIOUS
    <3> QED
      BY <2>1, <2>2, <3>1 DEF Ordered
  <2>4. /\ m \in Memories /\ m.pinned = memory[p].pinned /\ m.known = memory[p].known
        /\ m.ready = memory[p].ready \cup {Here(p)}
    BY <2>1 DEF Memories
  <2>5. Learn(p, m)
    BY <1>3
  <2> HIDE DEF m
  <2>6. /\ \A a \in m.ready : IsKnown(a, m.known)
        /\ \A x \in m.known : volume[x[1]] = x[2] /\ x[1] \in Accounts /\ x[2] \in Identities
    BY <1>1, <2>1, <2>3, <2>4, MemoryTypes DEF Controlled, CommandOK
  <2>7. ASSUME NEW a \in m.ready, NEW b \in m.ready
        PROVE  volume[a] \in Identities /\ (a # b => volume[a] # volume[b])
    <3>1. PICK x \in m.known : x[1] = a
      BY <2>6, <2>7 DEF IsKnown
    <3>2. PICK y \in m.known : y[1] = b
      BY <2>6, <2>7 DEF IsKnown
    <3>3. x[2] = y[2] => x = y
      BY <2>3, <2>4 DEF Distinct
    <3> QED
      BY <2>6, <3>1, <3>2, <3>3
  <2> QED
    BY <1>1, <2>1, <2>3, <2>4, <2>5, <2>6, <2>7, LearnKeeps DEF ServeDistinct
<1> QED
  BY <1>2, <1>3 DEF Answered

\* A command goes on with another call of the same task.
LEMMA WithinTask ==
    ASSUME ControlTyped, Controlled, VolumesKept, NEW p \in Commands, pc[p] # "idle", NEW step,
           Goto(p, step),
           \/ pc[p] = "dataset" /\ step = "publish"
           \/ pc[p] \in {"volume", "import"} /\ step \in {"import", "link"}
           \/ /\ pc[p] \in {"inspect", "create", "copy", "launch"}
              /\ step \in {"create", "copy", "cleanup", "launch", "poll"}
           \/ pc[p] = "find" /\ step = "stop"
    PROVE  ControlTyped' /\ Controlled'
<1>1. step \in CallsOf(plan[p][1].do) \cap Calls /\ step # "idle"
  BY Doing DEF CallsOf, Calls
<1> QED
  BY <1>1, GotoKeeps

\* A task is done that the command learns nothing from.
LEMMA AfterTask ==
    ASSUME ControlTyped, Controlled, VolumesKept, NEW p \in Commands, pc[p] \notin {"idle", "pin", "identify"},
           Advance(p)
    PROVE  ControlTyped' /\ Controlled'
<1>1. plan[p][1].do \notin {"pin", "identify"}
  BY CallFacts, Doing DEF Controlled, Calls
<1> QED
  BY <1>1, AdvanceKeeps

LEMMA ControlStep ==
    ASSUME ValuesTyped, Controlled, VolumesKept, NEW p \in Commands, Act(p)
    PROVE  ControlTyped' /\ Controlled'
<1>0. ControlTyped
  BY TypesSplit
<1>1. CASE Launch(p)
  BY <1>0, <1>1, LaunchKeeps DEF Launch
<1>2. CASE LookForDataset(p) \/ PublishDataset(p) \/ Build(p) \/ SaveUrl(p)
  BY <1>0, <1>2, EndKeeps, AfterTask, WithinTask DEF LookForDataset, PublishDataset, Build, SaveUrl
<1>3. CASE CreateVolume(p) \/ Import(p) \/ Link(p)
  BY <1>0, <1>3, EndKeeps, AfterTask, WithinTask DEF CreateVolume, Import, Link
<1>4. CASE ReadIdentity(p) \/ PinImage(p) \/ Answered(p)
  BY <1>4, ReadKeeps, PinKeeps, AnswerKeeps
<1>5. CASE Inspect(p)
  BY <1>0, <1>5, EndKeeps, WithinTask DEF Inspect
<1>6. CASE NameTaken(p) \/ Create(p) \/ CopyConfiguration(p) \/ RemoveContainer(p) \/ RemoveFails(p)
  BY <1>0, <1>6, EndKeeps, WithinTask DEF NameTaken, Create, CopyConfiguration, RemoveContainer, RemoveFails
<1>7. CASE StartContainer(p) \/ StartupFails(p)
  BY <1>0, <1>7, EndKeeps, WithinTask DEF StartContainer, StartupFails
<1>8. CASE FindRunning(p) \/ StopContainer(p)
  BY <1>0, <1>8, EndKeeps, AfterTask, WithinTask DEF FindRunning, StopContainer
<1>9. CASE CallFails(p) \/ CopyFails(p) \/ CutImport(p) \/ Signal(p) \/ Kill(p)
  BY <1>0, <1>9, EndKeeps, WithinTask DEF CallFails, CopyFails, CutImport, Signal, Kill
<1>10. CASE CancelCreate(p) \/ CancelCopy(p) \/ CancelCleanup(p)
  BY <1>0, <1>10, EndKeeps, WithinTask DEF CancelCreate, CancelCopy, CancelCleanup
<1>11. CASE HoldSignal(p)
  <2>1. Controlled'
    BY <1>0, <1>11, HoldKeeps DEF HoldSignal
  <2> QED
    BY <1>0, <1>11, <2>1 DEF HoldSignal, ControlTyped
<1> QED
  BY <1>1, <1>2, <1>3, <1>4, <1>5, <1>6, <1>7, <1>8, <1>9, <1>10, <1>11 DEF Act, Progress, Disturbance

-----------------------------------------------------------------------------
(* The steps: containers                                                   *)

\* Where a command is that is over, or done with a task.
LEMMA Moves ==
    ASSUME ControlTyped, Controlled, NEW p \in Commands
    PROVE  /\ End(p) => Only(p) /\ pc'[p] = "idle"
           /\ pc[p] # "idle" => \A m : Learn(p, m) => Only(p) /\ pc'[p] \notin Making \cup {"stop"}
           /\ \A step : Goto(p, step) => Only(p) /\ pc'[p] = step /\ plan'[p] = plan[p]
<1>1. End(p) => Only(p) /\ pc'[p] = "idle"
  BY DEF End, Only, ControlTyped, Controlled
<1>2. ASSUME pc[p] # "idle", NEW m, Learn(p, m) PROVE Only(p) /\ pc'[p] \notin Making \cup {"stop"}
  <2>1. Only(p)
    BY <1>2 DEF Learn, Only, ControlTyped, Controlled
  <2>2. pc'[p] = "idle" \/ (Len(plan[p]) # 1 /\ pc'[p] = plan[p][2].do)
    BY <1>2 DEF Learn, Controlled
  <2>3. plan[p] \in Seq(Tasks) /\ plan[p] # <<>>
    BY <1>2, CallFacts
  <2>4. Len(plan[p]) # 1 => plan[p][2].do \in Steps
    BY <2>3, NextTask DEF Tasks
  <2> QED
    BY <2>1, <2>2, <2>4 DEF Steps, Making
<1>3. ASSUME NEW step, Goto(p, step) PROVE Only(p) /\ pc'[p] = step /\ plan'[p] = plan[p]
  BY <1>3 DEF Goto, Only, Controlled
<1> QED
  BY <1>1, <1>2, <1>3

\* The calls that touch no container.
LEMMA QuietMove ==
    ASSUME ControlTyped, Controlled, ContainersOwned, CancellationIsClean, NEW p \in Commands,
           UNCHANGED <<container, abandoned>>, pc[p] \notin {"idle"} \cup Making,
           End(p) \/ (\E m : Learn(p, m)) \/ (\E step : step \notin Making \cup {"stop"} /\ Goto(p, step))
    PROVE  ContainersOwned' /\ CancellationIsClean'
<1>1. Only(p) /\ pc'[p] \notin Making \cup {"stop"}
  BY Moves DEF Making
<1> QED
  BY <1>1, QuietKeeps

LEMMA QuietStep ==
    ASSUME ValuesTyped, Controlled, ContainersOwned, CancellationIsClean, NEW p \in Commands,
           \/ Launch(p) \/ LookForDataset(p) \/ PublishDataset(p) \/ Build(p) \/ SaveUrl(p)
           \/ CreateVolume(p) \/ Import(p) \/ Link(p) \/ ReadIdentity(p) \/ PinImage(p) \/ Inspect(p)
           \/ NameTaken(p) \/ Answered(p) \/ StartupFails(p) \/ FindRunning(p)
           \/ CallFails(p) \/ CutImport(p) \/ Signal(p) \/ HoldSignal(p) \/ CopyFails(p)
    PROVE  ContainersOwned' /\ CancellationIsClean'
<1> USE DEF dockerVars
<1>0. ControlTyped
  BY TypesSplit
<1>1. CASE Launch(p)
  <2>1. PICK tasks \in Plans : plan' = [plan EXCEPT ![p] = tasks] /\ pc' = [pc EXCEPT ![p] = tasks[1].do]
    BY <1>1 DEF Launch
  <2>2. tasks[1] \in Tasks
    BY PlansAreStartable, TailTasks DEF Startable
  <2>3. pc'[p] \notin Making \cup {"stop"} /\ Only(p)
    BY <1>0, <2>1, <2>2 DEF Tasks, Steps, Making, Only, ControlTyped, Controlled
  <2> QED
    BY <1>0, <1>1, <2>3, QuietKeeps DEF Launch, Making
<1>2. CASE LookForDataset(p) \/ PublishDataset(p) \/ Build(p) \/ SaveUrl(p)
  BY <1>0, <1>2, QuietMove DEF LookForDataset, PublishDataset, Build, SaveUrl, Advance, Making
<1>3. CASE CreateVolume(p) \/ Import(p) \/ Link(p) \/ ReadIdentity(p) \/ PinImage(p)
  BY <1>0, <1>3, QuietMove DEF CreateVolume, Import, Link, ReadIdentity, PinImage, Advance, Making
<1>4. CASE Inspect(p)
  BY <1>0, <1>4, QuietMove DEF Inspect, Making
<1>5. CASE NameTaken(p) \/ Answered(p) \/ StartupFails(p)
  BY <1>0, <1>5, QuietMove DEF NameTaken, Answered, StartupFails, Making
<1>6. CASE FindRunning(p)
  <2>1. CASE Goto(p, "stop") /\ Owned(Here(p))
    <3>1. Only(p) /\ pc'[p] = "stop" /\ plan'[p] = plan[p]
      BY <1>0, <2>1, Moves
    <3> QED
      BY <1>0, <1>6, <2>1, <3>1, QuietKeeps DEF FindRunning, Owned, Making
  <2>2. CASE End(p) \/ Advance(p)
    BY <1>0, <1>6, <2>2, QuietMove DEF FindRunning, Advance, Making
  <2> QED
    BY <1>6, <2>1, <2>2 DEF FindRunning
<1>7. CASE CallFails(p) \/ CutImport(p)
  BY <1>0, <1>7, QuietMove DEF CallFails, CutImport, Making, Importing
<1>8. CASE Signal(p)
  BY <1>0, <1>8, QuietMove DEF Signal, Making, Creating
<1>9. CASE HoldSignal(p)
  BY <1>0, <1>9, QuietKeeps DEF HoldSignal, Only, Making, Creating
<1>10. CASE CopyFails(p)
  <2>1. Only(p) /\ pc'[p] = "cleanup" /\ plan'[p] = plan[p]
    BY <1>0, <1>10, Moves DEF CopyFails
  <2> QED
    BY <1>0, <1>10, <2>1, QuietKeeps DEF CopyFails, Making
<1> QED
  BY <1>1, <1>2, <1>3, <1>4, <1>5, <1>6, <1>7, <1>8, <1>9, <1>10

\* What a step changes of the containers, and what becomes of the others.
ContainerStep ==
    /\ container' \in [Accounts -> Containers]
    /\ \A a \in Accounts : container[a] # NoContainer =>
        /\ container'[a] = NoContainer => ~container[a].running /\ ByMaker(a, "cleanup")
        /\ container'[a] # NoContainer =>
            /\ container'[a].maker = container[a].maker /\ container'[a].image = container[a].image
            /\ container'[a].key # container[a].key => container'[a].key = Key /\ ByMaker(a, "copy")
        /\ container[a] = Foreign => container'[a] = Foreign

LEMMA SameContainers ==
    ASSUME ValuesTyped, UNCHANGED container
    PROVE  ContainerStep
BY DEF ValuesTyped, ContainerStep

LEMMA PutStep ==
    ASSUME ValuesTyped, NEW p, Here(p) \in Accounts, NEW c \in Containers, Put(Here(p), c),
           container[Here(p)] # NoContainer =>
               /\ c = NoContainer => ~container[Here(p)].running /\ ByMaker(Here(p), "cleanup")
               /\ c # NoContainer =>
                   /\ c.maker = container[Here(p)].maker /\ c.image = container[Here(p)].image
                   /\ c.key # container[Here(p)].key => c.key = Key /\ ByMaker(Here(p), "copy")
               /\ container[Here(p)] = Foreign => c = Foreign
    PROVE  ContainerStep
<1> DEFINE a == Here(p)
<1>1. container'[a] = c /\ \A b \in Accounts \ {a} : container'[b] = container[b]
  BY DEF ValuesTyped, Put
<1>2. container' \in [Accounts -> Containers]
  BY DEF ValuesTyped, Put
<1> QED
  BY <1>1, <1>2 DEF ContainerStep

-----------------------------------------------------------------------------
(* The steps: containers that are made, configured, started and removed    *)

ContainersKeep == ContainerStep /\ ContainersOwned' /\ CancellationIsClean'

LEMMA LeaveStep ==
    ASSUME ValuesTyped, Controlled, ContainersOwned, CancellationIsClean, NEW p \in Commands,
           RemoveFails(p) \/ CancelCleanup(p) \/ Kill(p)
    PROVE  ContainersKeep
<1>0. ControlTyped
  BY TypesSplit
<1>1. Only(p) /\ pc'[p] = "idle" /\ UNCHANGED container
  BY <1>0, Moves DEF RemoveFails, CancelCleanup, Kill
<1>2. ContainerStep
  BY <1>1, SameContainers
<1>3. CASE abandoned' = abandoned \cup {Here(p)}
  BY <1>1, <1>2, <1>3, AbandonKeeps DEF ContainersKeep, Making
<1>4. CASE Kill(p) /\ pc[p] \notin Making
  <2>1. abandoned' = abandoned
    BY <1>4 DEF Kill, Making
  <2> QED
    BY <1>0, <1>1, <1>2, <1>4, <2>1, QuietKeeps DEF ContainersKeep, Making
<1> QED
  BY <1>3, <1>4 DEF RemoveFails, CancelCleanup, Kill, Abandon, Making

LEMMA MadeTypes ==
    ASSUME ValuesTyped, NEW p \in Commands
    PROVE  /\ Made(p) \in Containers /\ Made(p).maker = p /\ Made(p).key = None
           /\ Made(p) \notin {NoContainer, Foreign}
<1>1. MaxImages \in Nat /\ image \in 0 .. MaxImages
  BY ConstantsAssumption DEF ValuesTyped
<1>2. Made(p) \in Containers /\ Made(p).maker = p /\ Made(p).key = None
  BY <1>1 DEF Made, Containers
<1> QED
  BY <1>2, ContainerTypes

LEMMA CreateStep ==
    ASSUME ValuesTyped, Controlled, ContainersOwned, CancellationIsClean, NEW p \in Commands,
           Create(p) \/ CancelCreate(p)
    PROVE  ContainersKeep
<1>0. ControlTyped /\ DockerTyped
  BY TypesSplit
<1>1. pc[p] = "create" /\ Here(p) \in Accounts
  BY <1>0, Doing DEF Create, CancelCreate
<1>2. CASE UNCHANGED <<container, abandoned>> /\ CancelCreate(p)
  BY <1>0, <1>1, <1>2, QuietMove, SameContainers DEF CancelCreate, ContainersKeep, Making
<1>3. CASE /\ container[Here(p)] = NoContainer /\ Put(Here(p), Made(p))
           /\ \/ Goto(p, "copy") /\ UNCHANGED abandoned
              \/ End(p) /\ Abandon(Here(p))
  <2>1. ContainerStep
    BY <1>1, <1>3, MadeTypes, PutStep
  <2>2. /\ Only(p) /\ pc'[p] # "stop" /\ abandoned \subseteq abandoned'
        /\ pc'[p] \in Making => plan'[p] = plan[p]
        /\ pc'[p] \in Making \/ Here(p) \in abandoned'
    BY <1>0, <1>3, Moves DEF Making, Abandon
  <2>3. container[Here(p)].maker = None
    BY <1>3, ContainerTypes
  <2>4. p # None
    BY ContainerTypes
  <2> QED
    BY <1>0, <1>1, <1>3, <2>1, <2>2, <2>3, <2>4, MadeTypes, PutKeeps DEF ContainersKeep
<1> QED
  BY <1>2, <1>3 DEF Create, CancelCreate, dockerVars

LEMMA CopyStep ==
    ASSUME ValuesTyped, Controlled, ContainersOwned, CancellationIsClean, NEW p \in Commands,
           CopyConfiguration(p) \/ CancelCopy(p)
    PROVE  ContainersKeep
<1>0. ControlTyped /\ DockerTyped
  BY TypesSplit
<1>1. pc[p] = "copy" /\ Here(p) \in Accounts /\ container[Here(p)] \in Containers /\ UNCHANGED abandoned
  BY <1>0, Doing DEF CopyConfiguration, CancelCopy, DockerTyped
<1>2. container[Here(p)].maker = p
  BY <1>1 DEF ContainersOwned
<1>3. /\ Only(p) /\ pc'[p] # "stop"
      /\ pc'[p] \in Making => plan'[p] = plan[p]
  BY <1>0, Moves DEF CopyConfiguration, CancelCopy, Making
<1>6. pc'[p] # "copy"
  BY <1>0, Moves DEF CopyConfiguration, CancelCopy
<1>4. CASE UNCHANGED container /\ CancelCopy(p)
  <2>1. pc'[p] \in Making
    BY <1>0, <1>4, Moves DEF CancelCopy, Making
  <2> QED
    BY <1>0, <1>1, <1>3, <1>4, <2>1, QuietKeeps, SameContainers DEF ContainersKeep, Making
<1>5. CASE Put(Here(p), [container[Here(p)] EXCEPT !.key = Key])
  <2> DEFINE c == [container[Here(p)] EXCEPT !.key = Key]
  <2>1. /\ c \in Containers /\ c.maker = p /\ c.key = Key /\ c.image = container[Here(p)].image
        /\ c \notin {NoContainer, Foreign} /\ Key # None /\ container[Here(p)] # Foreign
    BY <1>1, <1>2, ContainerTypes DEF Containers
  <2>2. ByMaker(Here(p), "copy")
    BY <1>1, <1>2, <1>6 DEF ByMaker
  <2> HIDE DEF c
  <2>3. Put(Here(p), c)
    BY <1>5 DEF c
  <2>4. ContainerStep
    BY <1>1, <1>2, <2>1, <2>2, <2>3, PutStep
  <2> QED
    BY <1>0, <1>1, <1>2, <1>3, <2>1, <2>3, <2>4, PutKeeps DEF ContainersKeep
<1> QED
  BY <1>4, <1>5 DEF CopyConfiguration, CancelCopy

LEMMA RemoveStep ==
    ASSUME ValuesTyped, Controlled, ContainersOwned, CancellationIsClean, NEW p \in Commands, RemoveContainer(p)
    PROVE  ContainersKeep
<1>0. ControlTyped /\ DockerTyped
  BY TypesSplit
<1>1. /\ pc[p] = "cleanup" /\ Here(p) \in Accounts /\ UNCHANGED abandoned
      /\ ~container[Here(p)].running /\ Put(Here(p), NoContainer) /\ End(p)
  BY <1>0, Doing DEF RemoveContainer
<1>2. container[Here(p)].maker = p
  BY <1>1 DEF ContainersOwned
<1>3. Only(p) /\ pc'[p] = "idle"
  BY <1>0, <1>1, Moves
<1>4. ByMaker(Here(p), "cleanup") /\ container[Here(p)] # Foreign
  BY <1>1, <1>2, <1>3, ContainerTypes DEF ByMaker
<1>5. ContainerStep
  BY <1>1, <1>4, ContainerTypes, PutStep
<1> QED
  BY <1>0, <1>1, <1>2, <1>3, <1>5, ContainerTypes, PutKeeps DEF ContainersKeep, Making

LEMMA SameRunning == \A c \in Containers : [c EXCEPT !.running = c.running] = c
BY DEF Containers

\* A stranger's container runs, and goes on running.
LEMMA RunStep ==
    ASSUME ValuesTyped, Controlled, ContainersOwned, CancellationIsClean, NEW p \in Commands,
           StartContainer(p) \/ StopContainer(p)
    PROVE  ContainersKeep
<1>0. ControlTyped /\ DockerTyped
  BY TypesSplit
<1>1. /\ pc[p] \in {"launch", "stop"} /\ Here(p) \in Accounts /\ container[Here(p)] \in Containers
      /\ UNCHANGED abandoned
  BY <1>0, Doing DEF StartContainer, StopContainer, DockerTyped
<1>2. Only(p) /\ pc'[p] \notin Making \cup {"stop"}
  BY <1>0, <1>1, Moves DEF StartContainer, StopContainer, Advance, Making
<1>3. CASE UNCHANGED container
  BY <1>0, <1>1, <1>2, <1>3, QuietKeeps, SameContainers DEF ContainersKeep, Making
<1>4. ASSUME NEW on \in BOOLEAN, container[Here(p)] # NoContainer,
             Put(Here(p), [container[Here(p)] EXCEPT !.running = on]),
             (pc[p] = "launch" /\ on) \/ pc[p] = "stop"
      PROVE  ContainersKeep
  <2> DEFINE c == [container[Here(p)] EXCEPT !.running = on]
  <2>1. CASE container[Here(p)] = Foreign
    <3>1. pc[p] # "stop"
      BY <2>1 DEF ContainersOwned
    <3>2. c = Foreign
      <4>1. on = TRUE
        BY <1>4, <3>1
      <4>2. on = Foreign.running
        BY <4>1 DEF Foreign
      <4>3. c = [Foreign EXCEPT !.running = Foreign.running]
        BY <2>1, <4>2
      <4> QED
        BY <4>3, SameRunning, ContainerTypes
    <3>3. container' = container
      <4>1. container' = [container EXCEPT ![Here(p)] = container[Here(p)]]
        BY <1>4, <2>1, <3>2 DEF Put
      <4> QED
        BY <1>0, <1>1, <4>1 DEF DockerTyped
    <3> QED
      BY <1>3, <3>3
  <2>2. CASE container[Here(p)] # Foreign
    <3>1. /\ c \in Containers /\ c.maker = container[Here(p)].maker /\ c.key = container[Here(p)].key
          /\ c.image = container[Here(p)].image
      BY <1>1 DEF Containers
    <3>2. container[Here(p)].maker # None \/ container[Here(p)].key # None
      BY <1>1, <1>4, <2>2 DEF ContainersOwned
    <3>3. c \notin {NoContainer, Foreign} /\ Owned(Here(p))
      BY <1>4, <2>2, <3>1, <3>2, ContainerTypes DEF Owned
    <3> HIDE DEF c
    <3>4. Put(Here(p), c)
      BY <1>4 DEF c
    <3>5. ContainerStep
      BY <1>1, <2>2, <3>1, <3>3, <3>4, PutStep
    <3> QED
      BY <1>0, <1>1, <1>2, <3>1, <3>2, <3>3, <3>4, <3>5, PutKeeps DEF ContainersKeep, Making
  <2> QED
    BY <2>1, <2>2
<1> QED
  BY <1>3, <1>4 DEF StartContainer, StopContainer

LEMMA ContainersStep ==
    ASSUME ValuesTyped, Controlled, ContainersOwned, CancellationIsClean, NEW p \in Commands, Act(p)
    PROVE  ContainersKeep
<1>1. CASE \/ Launch(p) \/ LookForDataset(p) \/ PublishDataset(p) \/ Build(p) \/ SaveUrl(p)
           \/ CreateVolume(p) \/ Import(p) \/ Link(p) \/ ReadIdentity(p) \/ PinImage(p) \/ Inspect(p)
           \/ NameTaken(p) \/ Answered(p) \/ StartupFails(p) \/ FindRunning(p)
           \/ CallFails(p) \/ CutImport(p) \/ Signal(p) \/ HoldSignal(p) \/ CopyFails(p)
  <2>1. ContainersOwned' /\ CancellationIsClean'
    BY <1>1, QuietStep
  <2>2. UNCHANGED container
    BY <1>1 DEF dockerVars, Launch, LookForDataset, PublishDataset, Build, SaveUrl, CreateVolume, Import, Link,
                ReadIdentity, PinImage, Inspect, NameTaken, Answered, StartupFails, FindRunning,
                CallFails, CutImport, Signal, HoldSignal, CopyFails
  <2> QED
    BY <2>1, <2>2, SameContainers DEF ContainersKeep
<1> QED
  BY <1>1, LeaveStep, CreateStep, CopyStep, RemoveStep, RunStep DEF Act, Progress, Disturbance

-----------------------------------------------------------------------------
(* The inductive invariant                                                 *)

\* The counters and the sets that no other step relies on.
LEMMA RestTyped ==
    ASSUME ValuesTyped, Controlled, NEW p \in Commands, Act(p)
    PROVE  /\ image' \in 0 .. MaxImages /\ urls' \subseteq Accounts
           /\ work' \in 0 .. MaxWork /\ abandoned' \subseteq Accounts
<1> USE DEF hostVars, dockerVars
<1>0. /\ ControlTyped /\ MaxImages \in Nat /\ MaxWork \in Nat
      /\ image \in 0 .. MaxImages /\ urls \subseteq Accounts /\ work \in 0 .. MaxWork /\ abandoned \subseteq Accounts
  BY TypesSplit, ConstantsAssumption DEF ValuesTyped
<1>1. CASE Launch(p)
  <2>1. PICK tasks \in Plans : work' = work + Len(tasks) + 3 /\ work' <= MaxWork
    BY <1>1 DEF Launch
  <2>2. Len(tasks) \in Nat
    BY PlansAreStartable, TailTasks DEF Startable
  <2> QED
    BY <1>0, <1>1, <2>1, <2>2 DEF Launch
<1>2. CASE Build(p)
  BY <1>0, <1>2 DEF Build
<1>3. CASE SaveUrl(p)
  <2>1. Here(p) \in Accounts
    BY <1>0, <1>3, Doing DEF SaveUrl
  <2> QED
    BY <1>0, <1>3, <2>1 DEF SaveUrl
<1>4. CASE RemoveFails(p) \/ CancelCleanup(p) \/ Kill(p) \/ CancelCreate(p)
  <2>1. pc[p] \in {"copy", "cleanup", "create"} => Here(p) \in Accounts
    BY <1>0, Doing
  <2>2. abandoned' = abandoned \/ (abandoned' = abandoned \cup {Here(p)} /\ Here(p) \in Accounts)
    BY <1>4, <2>1 DEF RemoveFails, CancelCleanup, Kill, CancelCreate, Abandon
  <2> QED
    BY <1>0, <1>4, <2>2 DEF RemoveFails, CancelCleanup, Kill, CancelCreate
<1>5. CASE LookForDataset(p) \/ PublishDataset(p) \/ CreateVolume(p) \/ Import(p) \/ Link(p) \/ CutImport(p)
  BY <1>0, <1>5 DEF LookForDataset, PublishDataset, CreateVolume, Import, Link, CutImport
<1>6. CASE ReadIdentity(p) \/ PinImage(p) \/ Inspect(p) \/ NameTaken(p) \/ Create(p)
  BY <1>0, <1>6 DEF ReadIdentity, PinImage, Inspect, NameTaken, Create
<1>7. CASE CopyConfiguration(p) \/ RemoveContainer(p) \/ StartContainer(p) \/ Answered(p) \/ StartupFails(p)
  BY <1>0, <1>7 DEF CopyConfiguration, RemoveContainer, StartContainer, Answered, StartupFails
<1>8. CASE FindRunning(p) \/ StopContainer(p) \/ CallFails(p) \/ CopyFails(p) \/ HoldSignal(p) \/ Signal(p) \/ CancelCopy(p)
  BY <1>0, <1>8 DEF FindRunning, StopContainer, CallFails, CopyFails, HoldSignal, Signal, CancelCopy
<1> QED
  BY <1>1, <1>2, <1>3, <1>4, <1>5, <1>6, <1>7, <1>8 DEF Act, Progress, Disturbance

LEMMA InitHolds == Init => GatewayInv
<1> SUFFICES ASSUME Init PROVE GatewayInv
  OBVIOUS
<1>1. PICK h \in Hosts : image = h.image /\ volume = h.volume /\ container = h.container
  BY DEF Init
<1>2. /\ image \in 0 .. MaxImages /\ volume \in [Accounts -> Volumes] /\ container \in [Accounts -> Containers]
      /\ \A a \in Accounts : /\ container[a].maker = None
                             /\ container[a] \in {NoContainer, Foreign} \/ container[a].key # None
  BY <1>1, HostsAssumption
<1>3. ValuesTyped
  <2>0. MaxWork \in Nat
    BY ConstantsAssumption
  <2>1. work \in 0 .. MaxWork
    BY <2>0 DEF Init
  <2> QED
    BY <1>2, <2>1, NothingIsMemory DEF Init, ValuesTyped
<1>4. Controlled
  BY DEF Init, Controlled, CommandOK, Calls, Nothing, ServeDistinct
<1>5. ContainersOwned
  BY <1>2 DEF Init, ContainersOwned
<1>6. CancellationIsClean
  BY <1>2 DEF CancellationIsClean, HalfMade, Owned
<1> QED
  BY <1>3, <1>4, <1>5, <1>6 DEF GatewayInv

LEMMA StepHolds ==
    ASSUME GatewayInv, NEW p \in Commands, Act(p)
    PROVE  GatewayInv' /\ PublishedStep /\ ContainerStep
<1>1. ValuesTyped /\ Controlled /\ ContainersOwned /\ CancellationIsClean
  BY DEF GatewayInv
<1>2. PublishedStep
  BY <1>1, Published
<1>3. ControlTyped' /\ Controlled'
  BY <1>1, <1>2, ControlStep DEF PublishedStep
<1>4. ContainerStep /\ ContainersOwned' /\ CancellationIsClean'
  BY <1>1, ContainersStep DEF ContainersKeep
<1>5. ValuesTyped'
  <2>1. /\ image' \in 0 .. MaxImages /\ urls' \subseteq Accounts
        /\ work' \in 0 .. MaxWork /\ abandoned' \subseteq Accounts
    BY <1>1, RestTyped
  <2> QED
    BY <1>2, <1>3, <1>4, <2>1 DEF ValuesTyped, ControlTyped, PublishedStep, ContainerStep
<1> QED
  BY <1>2, <1>3, <1>4, <1>5 DEF GatewayInv

LEMMA StutterHolds ==
    ASSUME GatewayInv, UNCHANGED vars
    PROVE  GatewayInv' /\ PublishedStep /\ ContainerStep
<1> USE DEF vars, dockerVars, hostVars, controlVars
<1>0. ValuesTyped /\ Controlled /\ ContainersOwned /\ CancellationIsClean
  BY DEF GatewayInv
<1>1. ValuesTyped'
  BY <1>0 DEF ValuesTyped
<1>2. Controlled'
  BY <1>0 DEF Controlled, CommandOK, ServeDistinct
<1>3. ContainersOwned'
  BY <1>0 DEF ContainersOwned, NoContainer, Foreign, Here
<1>4. CancellationIsClean'
  BY <1>0 DEF CancellationIsClean, HalfMade, Owned, NoContainer, Foreign, AtWork, Here
<1>5. PublishedStep /\ ContainerStep
  BY <1>0, UntouchedKeeps, SameContainers
<1> QED
  BY <1>1, <1>2, <1>3, <1>4, <1>5 DEF GatewayInv

LEMMA Invariance == GatewayInv /\ [Next]_vars => GatewayInv' /\ PublishedStep /\ ContainerStep
BY StepHolds, StutterHolds DEF Next, Act

-----------------------------------------------------------------------------
(* Theorems                                                                *)

\* The inductive invariant: what commands know is still so, and whoever makes
\* a container is the one that configures it or cleans it up.
THEOREM GatewayInvariant == Spec => []GatewayInv
BY InitHolds, Invariance, PTL DEF Spec

\* No command ever holds a value outside its range.
THEOREM TypeCorrect == Spec => []TypeOK
<1>1. GatewayInv => TypeOK
  BY DEF GatewayInv, Controlled, ValuesTyped, TypeOK
<1> QED
  BY <1>1, GatewayInvariant, PTL

\* An interruption or a configuration that cannot be copied leaves no
\* half-made gateway that nobody is at work on (_create_account under
\* finish_before_cancelling).
THEOREM CleanCancellation == Spec => []CancellationIsClean
<1>1. GatewayInv => CancellationIsClean
  BY DEF GatewayInv
<1> QED
  BY <1>1, GatewayInvariant, PTL

\* The gateways one start reports ready serve different subscriptions, and go
\* on to: the identities were read before, and credentials are never replaced.
THEOREM DistinctGateways == Spec => []ReadyAreDistinct
<1>1. GatewayInv => ReadyAreDistinct
  BY DEF GatewayInv, Controlled, CommandOK, ServeDistinct, ReadyAreDistinct
<1> QED
  BY <1>1, GatewayInvariant, PTL

\* No step replaces or removes published credentials or a published problem
\* file (os.link in write_credentials and in _download_dataset).
THEOREM NothingPublishedIsReplaced == Spec => PublishedKept
<1>1. PublishedStep =>
        /\ \A a \in Accounts : volume[a] \in Identities => volume'[a] = volume[a]
        /\ dataset # None => dataset' = dataset
  BY DEF PublishedStep, VolumesKept
<1> QED
  BY <1>1, InitHolds, Invariance, PTL DEF Spec, PublishedKept

-----------------------------------------------------------------------------
(* Containers and their keys                                               *)

\* What the commands create has no key but theirs.
NewKeys == \A a \in Accounts : container[a].maker # None => container[a].key \in {None, Key}

LEMMA PutKeys ==
    ASSUME DockerTyped, NewKeys, NEW a \in Accounts, NEW c, Put(a, c), c.maker # None => c.key \in {None, Key}
    PROVE  NewKeys'
<1>1. container' = [container EXCEPT ![a] = c] /\ container \in [Accounts -> Containers]
  BY DEF Put, DockerTyped
<1> QED
  BY <1>1 DEF NewKeys

LEMMA NewKeysStep ==
    ASSUME ValuesTyped, Controlled, NewKeys, NEW p \in Commands, Act(p)
    PROVE  NewKeys'
<1>0. ControlTyped /\ DockerTyped /\ container \in [Accounts -> Containers]
  BY TypesSplit DEF DockerTyped
<1>1. CASE UNCHANGED container
  BY <1>1 DEF NewKeys
<1>2. CASE Create(p) \/ CancelCreate(p)
  <2>1. Here(p) \in Accounts /\ Made(p).key = None
    BY <1>0, <1>2, Doing, MadeTypes DEF Create, CancelCreate
  <2> QED
    BY <1>0, <1>1, <1>2, <2>1, PutKeys DEF Create, CancelCreate
<1>3. CASE CopyConfiguration(p) \/ CancelCopy(p)
  <2>1. Here(p) \in Accounts
    BY <1>0, <1>3, Doing DEF CopyConfiguration, CancelCopy
  <2>2. [container[Here(p)] EXCEPT !.key = Key].key = Key
    BY <1>0, <2>1 DEF Containers
  <2> QED
    BY <1>0, <1>1, <1>3, <2>1, <2>2, PutKeys DEF CopyConfiguration, CancelCopy
<1>4. CASE RemoveContainer(p)
  <2>1. Here(p) \in Accounts
    BY <1>0, <1>4, Doing DEF RemoveContainer
  <2> QED
    BY <1>0, <1>4, <2>1, ContainerTypes, PutKeys DEF RemoveContainer
<1>5. CASE StartContainer(p) \/ StopContainer(p)
  <2>1. Here(p) \in Accounts
    BY <1>0, <1>5, Doing DEF StartContainer, StopContainer
  <2>2. \A on : LET c == [container[Here(p)] EXCEPT !.running = on]
                IN c.maker = container[Here(p)].maker /\ c.key = container[Here(p)].key
    BY <1>0, <2>1 DEF Containers
  <2>3. container[Here(p)].maker # None => container[Here(p)].key \in {None, Key}
    BY <2>1 DEF NewKeys
  <2>4. CASE Put(Here(p), [container[Here(p)] EXCEPT !.running = TRUE])
    BY <1>0, <2>1, <2>2, <2>3, <2>4, PutKeys
  <2>5. CASE Put(Here(p), [container[Here(p)] EXCEPT !.running = FALSE])
    BY <1>0, <2>1, <2>2, <2>3, <2>5, PutKeys
  <2> QED
    BY <1>1, <1>5, <2>4, <2>5 DEF StartContainer, StopContainer
<1>6. CASE RemoveFails(p) \/ CancelCleanup(p) \/ Kill(p)
  BY <1>1, <1>6 DEF RemoveFails, CancelCleanup, Kill
<1>7. CASE \/ Launch(p) \/ LookForDataset(p) \/ PublishDataset(p) \/ Build(p) \/ SaveUrl(p)
           \/ CreateVolume(p) \/ Import(p) \/ Link(p) \/ ReadIdentity(p) \/ PinImage(p) \/ Inspect(p)
           \/ NameTaken(p) \/ Answered(p) \/ StartupFails(p) \/ FindRunning(p)
           \/ CallFails(p) \/ CutImport(p) \/ Signal(p) \/ HoldSignal(p) \/ CopyFails(p)
  BY <1>1, <1>7 DEF dockerVars, Launch, LookForDataset, PublishDataset, Build, SaveUrl, CreateVolume, Import, Link,
     ReadIdentity, PinImage, Inspect, NameTaken, Answered, StartupFails, FindRunning,
     CallFails, CutImport, Signal, HoldSignal, CopyFails
<1> QED
  BY <1>2, <1>3, <1>4, <1>5, <1>6, <1>7 DEF Act, Progress, Disturbance

LEMMA KeysStayNew == GatewayInv /\ NewKeys /\ [Next]_vars => NewKeys'
<1>1. ASSUME GatewayInv, NewKeys, Next PROVE NewKeys'
  BY <1>1, NewKeysStep DEF Next, Act, GatewayInv
<1>2. ASSUME NewKeys, UNCHANGED vars PROVE NewKeys'
  BY <1>2 DEF NewKeys, vars, dockerVars
<1> QED
  BY <1>1, <1>2

LEMMA KeysBeginNew == Init => NewKeys
<1>1. ASSUME Init PROVE \A a \in Accounts : container[a].maker = None
  BY <1>1, HostsAssumption DEF Init
<1> QED
  BY <1>1 DEF NewKeys

\* Whoever removes or configures a container made it, is still creating it, and
\* configures it once: with the cleanup in _create_account, which gives Docker
\* only a name, no command reaches what another one made or put in its place.
THEOREM OthersContainersAreKept == Spec => GatewaysKept
<1>1. ASSUME NEW a \in Accounts, NewKeys, ContainerStep,
             container[a] # NoContainer, container'[a] # NoContainer, container'[a].key # container[a].key
      PROVE  container[a].key = None
  <2>1. container'[a].key = Key /\ container[a].maker # None
    BY <1>1, ContainerTypes DEF ContainerStep, ByMaker
  <2> QED
    BY <1>1, <2>1 DEF NewKeys
<1>2. NewKeys /\ ContainerStep =>
        \A a \in Accounts : container[a] # NoContainer =>
            /\ container'[a] = NoContainer =>
                ~container[a].running /\ ByMaker(a, "cleanup")
            /\ container'[a] # NoContainer =>
                /\ container'[a].maker = container[a].maker /\ container'[a].image = container[a].image
                /\ container'[a].key # container[a].key =>
                    container[a].key = None /\ ByMaker(a, "copy")
            /\ container[a] = Foreign => container'[a] = Foreign
  BY <1>1 DEF ContainerStep
<1> QED
  BY <1>2, InitHolds, Invariance, KeysBeginNew, KeysStayNew, PTL DEF Spec, GatewaysKept

-----------------------------------------------------------------------------
(* The refinement of AccountSlots                                          *)

\* A command that ends forgets what it reported; nothing else but an answer
\* changes that.
LEMMA MemoryQuits ==
    ASSUME ControlTyped, ControlTyped', NEW p \in Commands, NEW m,
           memory' = [memory EXCEPT ![p] = m], m.ready \in {memory[p].ready, {}}
    PROVE  Slot!Quit
<1>1. \A q \in Commands : memory'[q].ready \in {memory[q].ready, {}}
  BY DEF ControlTyped
<1>2. \A q \in Commands : memory'[q].ready \in SUBSET Accounts
  BY MemoryTypes DEF ControlTyped
<1> QED
  BY <1>1, <1>2 DEF Slot!Quit

LEMMA CommandQuits ==
    ASSUME ControlTyped, ControlTyped', NEW p \in Commands,
           \/ End(p) \/ \E step : Goto(p, step)
           \/ UNCHANGED memory
           \/ memory' = [memory EXCEPT ![p] = Nothing]
           \/ \E m \in Memories : m.ready = memory[p].ready /\ Learn(p, m)
    PROVE  Slot!Quit
<1>1. CASE UNCHANGED memory
  <2>1. memory' = [memory EXCEPT ![p] = memory[p]]
    BY <1>1 DEF ControlTyped
  <2> QED
    BY <2>1, MemoryQuits
<1>2. CASE memory' = [memory EXCEPT ![p] = Nothing]
  BY <1>2, MemoryQuits DEF Nothing
<1>3. ASSUME NEW m \in Memories, m.ready = memory[p].ready, Learn(p, m)
      PROVE  Slot!Quit
  <2>1. [Nothing EXCEPT !.ready = m.ready].ready = m.ready
    BY DEF Nothing
  <2>2. \E n : n.ready = memory[p].ready /\ memory' = [memory EXCEPT ![p] = n]
    BY <1>3, <2>1 DEF Learn
  <2> QED
    BY <2>2, MemoryQuits
<1> QED
  BY <1>1, <1>2, <1>3 DEF End, Goto

LEMMA GoesOn ==
    ASSUME UNCHANGED <<volume, container, dataset>>, Slot!Quit
    PROVE  Slot!SlotsNext
BY DEF Slot!SlotsNext, Slot!GoOn

LEMMA Turns ==
    ASSUME DockerTyped, NEW a \in Accounts, NEW c, Put(a, c), UNCHANGED <<volume, dataset>>, Slot!Quit
    PROVE  Slot!Turn(a, Seen(c))
<1>1. container' = [container EXCEPT ![a] = c]
  BY DEF Put
<1>2. [b \in Accounts |-> Seen(container'[b])]
        = [[b \in Accounts |-> Seen(container[b])] EXCEPT ![a] = Seen(c)]
  BY <1>1 DEF DockerTyped
<1> QED
  BY <1>2 DEF Slot!Turn

LEMMA SeenTypes ==
    /\ \A c : /\ Seen(c).new = (c.maker # None) /\ Seen(c).key = c.key
             /\ Seen(c).image = c.image /\ Seen(c).running = c.running
             /\ Seen(c).owner = "slot" <=> c \notin {NoContainer, Foreign}
    /\ Seen(NoContainer) = Slot!Nobody
<1>1. \A c : Seen(c).owner = "slot" <=> c \notin {NoContainer, Foreign}
  BY DEF Seen
<1> QED
  BY <1>1, ContainerTypes DEF Seen, NoContainer, Slot!Nobody

LEMMA CreateMoves ==
    ASSUME ValuesTyped, Controlled, ControlTyped', NEW p \in Commands, Create(p) \/ CancelCreate(p)
    PROVE  Slot!SlotsNext
<1>0. ControlTyped /\ DockerTyped
  BY TypesSplit
<1>1. Here(p) \in Accounts /\ UNCHANGED <<volume, dataset>> /\ Slot!Quit
  BY <1>0, Doing, CommandQuits DEF Create, CancelCreate, hostVars
<1>2. CASE UNCHANGED container
  BY <1>1, <1>2, GoesOn
<1>3. CASE container[Here(p)] = NoContainer /\ Put(Here(p), Made(p))
  <2>1. Slot!Turn(Here(p), Seen(Made(p)))
    BY <1>0, <1>1, <1>3, Turns
  <2>2. Seen(Made(p)) = [owner |-> "slot", new |-> TRUE, key |-> None, image |-> image, running |-> FALSE]
    <3>1. p # None /\ Made(p) \notin {NoContainer, Foreign}
      BY MadeTypes, ContainerTypes
    <3> QED
      BY <3>1 DEF Seen, Made
  <2>3. image \in 0 .. MaxImages
    BY <1>0 DEF DockerTyped
  <2>4. Slot!Absent(Here(p))
    BY <1>1, <1>3, SeenTypes DEF Slot!Absent
  <2>5. Slot!Create(Here(p))
    BY <2>1, <2>2, <2>3, <2>4 DEF Slot!Create
  <2> QED
    BY <1>1, <2>5 DEF Slot!SlotsNext
<1> QED
  BY <1>2, <1>3 DEF Create, CancelCreate

LEMMA CopyMoves ==
    ASSUME ValuesTyped, Controlled, ContainersOwned, NewKeys, ControlTyped', NEW p \in Commands,
           CopyConfiguration(p) \/ CancelCopy(p)
    PROVE  Slot!SlotsNext
<1>0. ControlTyped /\ DockerTyped
  BY TypesSplit
<1>1. /\ pc[p] = "copy" /\ Here(p) \in Accounts /\ container[Here(p)] \in Containers
      /\ UNCHANGED <<volume, dataset>> /\ Slot!Quit
  BY <1>0, Doing, CommandQuits DEF CopyConfiguration, CancelCopy, hostVars, DockerTyped
<1>2. /\ container[Here(p)].maker = p /\ p # None
      /\ container[Here(p)] \notin {NoContainer, Foreign}
  BY <1>1, ContainerTypes DEF ContainersOwned
<1>3. CASE UNCHANGED container
  BY <1>1, <1>3, GoesOn
<1>4. CASE Put(Here(p), [container[Here(p)] EXCEPT !.key = Key])
  <2> DEFINE a == Here(p)
             old == container[a]
             c == [old EXCEPT !.key = Key]
  <2>1. /\ c \in Containers /\ c.maker = p /\ c.key = Key /\ c.image = old.image /\ c.running = old.running
        /\ c \notin {NoContainer, Foreign}
    BY <1>1, <1>2, ContainerTypes DEF Containers
  <2>2. CASE old.key = Key
    <3>1. c = old
      BY <1>1, <2>2 DEF Containers
    <3>2. UNCHANGED container
      BY <1>0, <1>1, <1>4, <3>1 DEF Put, DockerTyped
    <3> QED
      BY <1>3, <3>2
  <2>3. CASE old.key = None
    <3>1. Slot!Turn(a, Seen(c))
      BY <1>0, <1>1, <1>4, Turns
    <3>2. Seen(c) = [Seen(old) EXCEPT !.key = Key]
      BY <1>2, <2>1 DEF Seen
    <3>3. Slot!Own(a) /\ Seen(old).new /\ Seen(old).key = None
      BY <1>1, <1>2, <2>3, SeenTypes DEF Slot!Own
    <3>4. Slot!Configure(a)
      BY <1>1, <3>1, <3>2, <3>3 DEF Slot!Configure
    <3> QED
      BY <1>1, <3>4 DEF Slot!SlotsNext
  <2>4. old.key \in {None, Key}
    BY <1>1, <1>2 DEF NewKeys
  <2> QED
    BY <2>2, <2>3, <2>4
<1> QED
  BY <1>3, <1>4 DEF CopyConfiguration, CancelCopy

LEMMA RemoveMoves ==
    ASSUME ValuesTyped, Controlled, ContainersOwned, ControlTyped', NEW p \in Commands, RemoveContainer(p)
    PROVE  Slot!SlotsNext
<1>0. ControlTyped /\ DockerTyped
  BY TypesSplit
<1>1. /\ pc[p] = "cleanup" /\ Here(p) \in Accounts /\ ~container[Here(p)].running
      /\ Put(Here(p), NoContainer)
      /\ UNCHANGED <<volume, dataset>> /\ Slot!Quit
  BY <1>0, Doing, CommandQuits DEF RemoveContainer, hostVars
<1>2. /\ container[Here(p)].maker # None
      /\ container[Here(p)] \notin {NoContainer, Foreign}
  BY <1>1, ContainerTypes DEF ContainersOwned
<1>3. Slot!Turn(Here(p), Slot!Nobody)
  BY <1>0, <1>1, Turns, SeenTypes
<1>4. Slot!TakeAway(Here(p))
  BY <1>1, <1>2, <1>3, SeenTypes DEF Slot!TakeAway, Slot!Own
<1> QED
  BY <1>1, <1>4 DEF Slot!SlotsNext

LEMMA RunMoves ==
    ASSUME ValuesTyped, Controlled, ContainersOwned, ControlTyped', NEW p \in Commands,
           StartContainer(p) \/ StopContainer(p)
    PROVE  Slot!SlotsNext
<1>0. ControlTyped /\ DockerTyped
  BY TypesSplit
<1>1. /\ Here(p) \in Accounts /\ container[Here(p)] \in Containers /\ pc[p] # "idle"
      /\ UNCHANGED <<volume, dataset>> /\ memory[p] \in Memories
  BY <1>0, Doing DEF StartContainer, StopContainer, hostVars, DockerTyped
<1>2. Slot!Quit
  <2>1. End(p) \/ Goto(p, "poll") \/ Learn(p, memory[p])
    BY DEF StartContainer, StopContainer, Advance
  <2> QED
    BY <1>0, <1>1, <2>1, CommandQuits
<1>3. CASE UNCHANGED container
  BY <1>1, <1>2, <1>3, GoesOn
<1>4. ASSUME NEW on \in BOOLEAN, container[Here(p)] # NoContainer,
             Put(Here(p), [container[Here(p)] EXCEPT !.running = on]),
             (pc[p] = "launch" /\ on) \/ pc[p] = "stop"
      PROVE  Slot!SlotsNext
  <2> DEFINE a == Here(p)
             old == container[a]
             c == [old EXCEPT !.running = on]
  <2>1. CASE on = old.running
    <3>1. c = old
      BY <1>1, <2>1, SameRunning
    <3>2. UNCHANGED container
      BY <1>0, <1>1, <1>4, <3>1 DEF Put, DockerTyped
    <3> QED
      BY <1>3, <3>2
  <2>2. CASE on # old.running
    <3>1. old # Foreign
      BY <1>4, <2>2, ContainerTypes DEF ContainersOwned
    <3>2. /\ c.maker = old.maker /\ c.key = old.key /\ c.image = old.image /\ c.running = on
          /\ Foreign \in Containers /\ NoContainer \in Containers
      BY <1>1, ContainerTypes DEF Containers
    <3>3. c \notin {NoContainer, Foreign}
      <4>1. old.maker # None \/ old.key # None
        BY <1>1, <1>4, <3>1 DEF ContainersOwned
      <4> QED
        BY <3>2, <4>1, ContainerTypes
    <3>4. Slot!Turn(a, Seen(c))
      BY <1>0, <1>1, <1>2, <1>4, Turns
    <3>5. Seen(c) = [Seen(old) EXCEPT !.running = on]
      BY <1>4, <3>1, <3>2, <3>3 DEF Seen
    <3>6. Slot!Own(a)
      BY <1>1, <1>4, <3>1, SeenTypes DEF Slot!Own
    <3>7. Slot!StartOrStop(a)
      BY <1>1, <3>4, <3>5, <3>6 DEF Slot!StartOrStop
    <3> QED
      BY <1>1, <3>7 DEF Slot!SlotsNext
  <2> QED
    BY <2>1, <2>2
<1> QED
  BY <1>3, <1>4 DEF StartContainer, StopContainer

LEMMA LoginMoves ==
    ASSUME ValuesTyped, Controlled, ControlTyped', NEW p \in Commands,
           CreateVolume(p) \/ Link(p) \/ CutImport(p)
    PROVE  Slot!SlotsNext
<1>0. ControlTyped /\ DockerTyped
  BY TypesSplit
<1>1. /\ Here(p) \in Accounts /\ pc[p] # "idle" /\ Head(plan[p]).identity \in Identities
      /\ UNCHANGED <<container, dataset>> /\ memory[p] \in Memories
  <2>1. pc[p] \in {"volume", "import", "link"}
    BY DEF CreateVolume, Link, CutImport, Importing
  <2> QED
    BY <1>0, <2>1, Doing DEF CreateVolume, Link, CutImport, hostVars
<1>2. Slot!Quit
  <2>1. End(p) \/ Goto(p, "import") \/ Learn(p, memory[p])
    BY DEF CreateVolume, Link, CutImport, Advance
  <2> QED
    BY <1>0, <1>1, <2>1, CommandQuits
<1>3. CASE UNCHANGED volume
  BY <1>1, <1>2, <1>3, GoesOn
<1>4. ASSUME volume[Here(p)] = "no volume" /\ volume' = [volume EXCEPT ![Here(p)] = "empty"]
      PROVE  Slot!SlotsNext
  <2>1. Slot!LogIn(Here(p))
    BY <1>1, <1>2, <1>4 DEF Slot!LogIn
  <2> QED
    BY <1>1, <2>1 DEF Slot!SlotsNext
<1>5. ASSUME NEW given \in Identities \cup {Cut}, volume[Here(p)] = "empty",
             volume' = [volume EXCEPT ![Here(p)] = given]
      PROVE  Slot!SlotsNext
  <2>1. Slot!LogIn(Here(p))
    BY <1>1, <1>2, <1>5 DEF Slot!LogIn
  <2> QED
    BY <1>1, <2>1 DEF Slot!SlotsNext
<1>6. CASE CreateVolume(p)
  <2>1. CASE volume[Here(p)] = "no volume"
    BY <1>3, <1>4, <1>6, <2>1 DEF CreateVolume
  <2>2. CASE volume[Here(p)] # "no volume"
    <3>1. UNCHANGED volume
      BY <1>0, <1>1, <1>6, <2>2 DEF CreateVolume, DockerTyped
    <3> QED
      BY <1>3, <3>1
  <2> QED
    BY <2>1, <2>2
<1>7. CASE Link(p) \/ CutImport(p)
  BY <1>1, <1>3, <1>5, <1>7 DEF Link, CutImport, Store
<1> QED
  BY <1>6, <1>7

\* Identities were read before, the volumes still hold them, and they differ.
LEMMA AnswerMoves ==
    ASSUME GatewayInv, GatewayInv', NEW p \in Commands, Answered(p)
    PROVE  Slot!SlotsNext
<1>0. ValuesTyped /\ Controlled /\ ControlTyped /\ DockerTyped /\ ControlTyped' /\ Controlled'
  BY TypesSplit DEF GatewayInv, ValuesTyped, ControlTyped
<1>1. /\ Here(p) \in Accounts /\ memory[p] \in Memories
      /\ UNCHANGED <<volume, container, dataset>>
  BY <1>0, Doing DEF Answered, dockerVars, hostVars
<1>2. CASE End(p)
  BY <1>0, <1>1, <1>2, CommandQuits, GoesOn
<1>3. CASE /\ container[Here(p)].key = Key
           /\ Learn(p, [memory[p] EXCEPT !.ready = @ \cup {Here(p)}])
  <2>0. PICK a \in Accounts : a = Here(p)
    BY <1>1
  <2> DEFINE ready == memory[p].ready \cup {a}
             m == [memory[p] EXCEPT !.ready = ready]
  <2>1. \E n : n.ready = ready /\ memory' = [memory EXCEPT ![p] = n]
    <3>1. m.ready = ready /\ [Nothing EXCEPT !.ready = m.ready].ready = ready
      BY <1>1 DEF Memories, Nothing
    <3>2. Learn(p, m)
      BY <1>3, <2>0
    <3> QED
      BY <3>1, <3>2 DEF Learn
  <2>2. [q \in Commands |-> memory'[q].ready]
          = [[q \in Commands |-> memory[q].ready] EXCEPT ![p] = ready]
    BY <1>0, <2>1 DEF ControlTyped
  <2>3. memory'[p].ready = ready
    BY <1>0, <2>1 DEF ControlTyped
  <2>4. /\ volume[a] \in Identities
        /\ \A b \in memory[p].ready \ {a} : volume[b] # volume[a]
    <3>1. ServeDistinct(memory[p].ready)'
      BY <1>0 DEF Controlled, CommandOK
    <3>2. \A x, y \in ready : volume[x] \in Identities /\ (x # y => volume[x] # volume[y])
      BY <1>1, <2>3, <3>1 DEF ServeDistinct
    <3> QED
      BY <3>2
  <2>5. Slot!Own(a) /\ Seen(container[a]).running /\ Seen(container[a]).key = Key
    BY <1>1, <1>3, <2>0, SeenTypes DEF Answered, Serving, Owned, Slot!Own
  <2>6. Slot!Report(p, a)
    BY <1>1, <2>2, <2>4, <2>5 DEF Slot!Report
  <2> QED
    BY <2>6 DEF Slot!SlotsNext
<1> QED
  BY <1>2, <1>3 DEF Answered

LEMMA SlotsStep ==
    ASSUME GatewayInv, GatewayInv', NewKeys, NEW p \in Commands, Act(p)
    PROVE  Slot!SlotsNext
<1>0. /\ ValuesTyped /\ Controlled /\ ContainersOwned /\ ControlTyped /\ ControlTyped'
  BY TypesSplit DEF GatewayInv, ValuesTyped, ControlTyped
<1>1. CASE Create(p) \/ CancelCreate(p)
  BY <1>0, <1>1, CreateMoves
<1>2. CASE CopyConfiguration(p) \/ CancelCopy(p)
  BY <1>0, <1>2, CopyMoves
<1>3. CASE RemoveContainer(p)
  BY <1>0, <1>3, RemoveMoves
<1>4. CASE StartContainer(p) \/ StopContainer(p)
  BY <1>0, <1>4, RunMoves
<1>5. CASE CreateVolume(p) \/ Link(p) \/ CutImport(p)
  BY <1>0, <1>5, LoginMoves
<1>6. CASE Answered(p)
  BY <1>6, AnswerMoves
<1>7. CASE PublishDataset(p) \/ LookForDataset(p)
  <2>1. pc[p] # "idle" /\ memory[p] \in Memories
    BY <1>0, <1>7, Doing DEF PublishDataset, LookForDataset
  <2>2. End(p) \/ Goto(p, "publish") \/ Learn(p, memory[p])
    BY <1>7 DEF PublishDataset, LookForDataset, Advance
  <2>3. Slot!Quit
    BY <1>0, <2>1, <2>2, CommandQuits
  <2>4. CASE UNCHANGED dataset
    BY <1>7, <2>3, <2>4, GoesOn DEF PublishDataset, LookForDataset, dockerVars, hostVars
  <2>5. CASE dataset = None /\ dataset' \in Contents
    <3>1. Slot!Publish
      BY <1>7, <2>3, <2>5 DEF PublishDataset, LookForDataset, dockerVars, hostVars, Slot!Publish
    <3> QED
      BY <3>1 DEF Slot!SlotsNext
  <2> QED
    BY <1>7, <2>4, <2>5 DEF PublishDataset, LookForDataset, hostVars
<1>8. CASE ReadIdentity(p) \/ PinImage(p)
  <2>1. memory[p] \in Memories /\ pc[p] \notin {"idle"} /\ (pc[p] = "identify" => Here(p) \in Accounts)
    BY <1>0, <1>8, Doing DEF ReadIdentity, PinImage
  <2>2. \/ End(p)
        \/ \E m \in Memories : m.ready = memory[p].ready /\ Learn(p, m)
    <3>1. CASE ReadIdentity(p) /\ ~End(p)
      <4> DEFINE m == [memory[p] EXCEPT !.known = @ \cup {<<Here(p), volume[Here(p)]>>}]
      <4>1. Learn(p, m) /\ <<Here(p), volume[Here(p)]>> \in Accounts \X Identities
        BY <2>1, <3>1 DEF ReadIdentity
      <4>2. m \in Memories /\ m.ready = memory[p].ready
        BY <2>1, <4>1 DEF Memories
      <4> QED
        BY <4>1, <4>2
    <3>2. CASE PinImage(p) /\ ~End(p)
      <4> DEFINE m == [memory[p] EXCEPT !.pinned = image]
      <4>1. Learn(p, m) /\ image \in 0 .. MaxImages
        BY <1>0, <3>2 DEF PinImage, ValuesTyped
      <4>2. m \in Memories /\ m.ready = memory[p].ready
        BY <2>1, <4>1 DEF Memories
      <4> QED
        BY <4>1, <4>2
    <3> QED
      BY <1>8, <3>1, <3>2
  <2>3. Slot!Quit
    BY <1>0, <2>2, CommandQuits
  <2> QED
    BY <1>8, <2>3, GoesOn DEF ReadIdentity, PinImage, dockerVars, hostVars
<1>9. CASE Build(p) \/ SaveUrl(p) \/ Import(p) \/ Inspect(p) \/ FindRunning(p)
  <2>1. pc[p] # "idle" /\ memory[p] \in Memories
    BY <1>0, <1>9, Doing DEF Build, SaveUrl, Import, Inspect, FindRunning
  <2>2. End(p) \/ (\E step : Goto(p, step)) \/ Learn(p, memory[p])
    <3>1. CASE Build(p) \/ SaveUrl(p) \/ Import(p) \/ FindRunning(p)
      BY <3>1 DEF Build, SaveUrl, Import, FindRunning, Advance
    <3>2. CASE Inspect(p)
      BY <3>2 DEF Inspect
    <3> QED
      BY <1>9, <3>1, <3>2
  <2>3. Slot!Quit
    BY <1>0, <2>1, <2>2, CommandQuits
  <2> QED
    BY <1>9, <2>3, GoesOn DEF Build, SaveUrl, Import, Inspect, FindRunning, dockerVars, hostVars
<1>10. CASE NameTaken(p) \/ StartupFails(p) \/ CallFails(p) \/ Signal(p) \/ RemoveFails(p) \/ CancelCleanup(p) \/ Kill(p)
  <2>1. End(p)
    BY <1>10 DEF NameTaken, StartupFails, CallFails, Signal, RemoveFails, CancelCleanup, Kill
  <2>2. Slot!Quit
    BY <1>0, <2>1, CommandQuits
  <2> QED
    BY <1>10, <2>2, GoesOn
    DEF NameTaken, StartupFails, CallFails, Signal, RemoveFails, CancelCleanup, Kill, dockerVars, hostVars
<1>11. CASE Launch(p) \/ CopyFails(p) \/ HoldSignal(p)
  <2>1. (\E step : Goto(p, step)) \/ UNCHANGED memory \/ memory' = [memory EXCEPT ![p] = Nothing]
    BY <1>11 DEF Launch, CopyFails, HoldSignal
  <2>2. Slot!Quit
    BY <1>0, <2>1, CommandQuits
  <2> QED
    BY <1>11, <2>2, GoesOn DEF Launch, CopyFails, HoldSignal, dockerVars, hostVars
<1> QED
  BY <1>1, <1>2, <1>3, <1>4, <1>5, <1>6, <1>7, <1>8, <1>9, <1>10, <1>11 DEF Act, Progress, Disturbance

\* Whatever commands run, fail or are interrupted at a time, a slot takes one
\* login for good, its gateway is new, configured, started, stopped or taken away
\* by the rules, and a start names it only while it serves a subscription of its
\* own: for any commands, slots, subscriptions, keys, builds and hosts.
THEOREM RefinesAccountSlots == Spec => ImplementsAccountSlots
<1>1. Init => NewKeys /\ Slot!SlotsInit
  <2> SUFFICES ASSUME Init PROVE NewKeys /\ Slot!SlotsInit
    OBVIOUS
  <2>1. PICK h \in Hosts : image = h.image /\ volume = h.volume /\ container = h.container
    BY DEF Init
  <2>2. /\ volume \in [Accounts -> Volumes]
        /\ \A a \in Accounts : /\ container[a].maker = None
                               /\ container[a] \in {NoContainer, Foreign} \/ container[a].key # None
    BY <2>1, HostsAssumption
  <2>3. ASSUME NEW a \in Accounts
        PROVE  ~Seen(container[a]).new /\ (Seen(container[a]).owner = "slot" => Seen(container[a]).key # None)
    <3> DEFINE c == container[a]
    <3>1. c.maker = None /\ (c \in {NoContainer, Foreign} \/ c.key # None)
      BY <2>2
    <3> HIDE DEF c
    <3>2. ~Seen(c).new
      BY <3>1 DEF Seen
    <3>3. ASSUME Seen(c).owner = "slot" PROVE Seen(c).key # None
      <4>1. c \notin {NoContainer, Foreign}
        BY <3>3 DEF Seen
      <4> QED
        BY <3>1, <4>1 DEF Seen
    <3> QED
      BY <3>2, <3>3 DEF c
  <2>4. [p \in Commands |-> memory[p].ready] = [p \in Commands |-> {}]
    BY DEF Init, Nothing
  <2>5. Slot!SlotsInit
    <3>1. volume \in [Accounts -> {"no volume", "empty", Cut} \cup Identities] /\ dataset = None
      BY <2>2 DEF Init, Volumes
    <3>2. [p \in Commands |-> memory[p].ready] = [p \in Commands |-> {}]
      BY <2>4
    <3> DEFINE g == [b \in Accounts |-> Seen(container[b])]
    <3>3. ASSUME NEW a \in Accounts PROVE ~g[a].new /\ (g[a].owner = "slot" => g[a].key # None)
      <4>1. g[a] = Seen(container[a])
        OBVIOUS
      <4> HIDE DEF g
      <4> QED
        BY <2>3, <4>1, Zenon
    <3> QED
      BY <3>1, <3>2, <3>3 DEF Slot!SlotsInit, Slot!Own
  <2> QED
    BY <2>2, <2>5 DEF NewKeys
<1>3. GatewayInv /\ GatewayInv' /\ NewKeys /\ [Next]_vars => [Slot!SlotsNext]_(Slot!slotVars)
  <2>1. ASSUME GatewayInv, GatewayInv', NewKeys, Next PROVE Slot!SlotsNext
    BY <2>1, SlotsStep DEF Next, Act
  <2>2. ASSUME UNCHANGED vars PROVE UNCHANGED Slot!slotVars
    BY <2>2 DEF vars, dockerVars, hostVars, controlVars, Slot!slotVars
  <2> QED
    BY <2>1, <2>2
<1> QED
  BY <1>1, <1>3, KeysStayNew, GatewayInvariant, PTL DEF Spec, ImplementsAccountSlots, Slot!SlotsSpec

=============================================================================
