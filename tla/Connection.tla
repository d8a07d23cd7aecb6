----------------------------- MODULE Connection -----------------------------
(***************************************************************************)
(* ConnectionManager: the SDK client of a worker, the reader task that     *)
(* drains it, and the owner (Recovery, or the audit) that connects,        *)
(* consumes and closes while SIGTERM may cancel it at any await.           *)
(*                                                                         *)
(* Owner and reader are tasks of one event loop: a step is the code        *)
(* between two awaits, and `pc` names the await the owner is at (it is at  *)
(* none when idle or reaped, and is not cancelled there).  The SDK         *)
(* (external) writes to a pipe of limited size; control replies and the    *)
(* end of output come behind the messages that are in it.                  *)
(***************************************************************************)
EXTENDS Integers, Sequences

CONSTANTS PipeSize,     \* output the SDK holds before its process blocks
          MaxMessages,  \* messages of one connection (bound)
          MaxPhases,    \* phases of the run, each with its connection (bound)
          MaxRetries    \* RECOVERY_MAX_RETRIES

ASSUME SizeAssumption == {PipeSize, MaxMessages, MaxPhases} \subseteq Nat \ {0}
                         /\ MaxRetries \in Nat

VARIABLES
  \* ConnectionManager
  status,     \* _status
  client,     \* _client: the number of the connection, or None
  reader,     \* _reader, by what the task is doing
  messages,   \* _messages
  spend,      \* _spend_limit_error is set
  \* the owner
  pc,         \* the await it is at
  failure,    \* the error it is handling
  phases, retries,
  \* the SDK
  sdk,        \* the state of its process
  pipe,       \* its output
  written,    \* messages it wrote on this connection
  asked,      \* an interrupt is to be acknowledged
  \* history
  connection, \* connections so far
  cancelled,  \* the owner was cancelled
  unheard     \* ... where nobody listens

managerVars == <<status, client, reader, messages, spend>>
ownerVars   == <<pc, failure, phases, retries>>
sdkVars     == <<sdk, pipe, written, asked>>
historyVars == <<connection, cancelled, unheard>>
vars == <<managerVars, ownerVars, sdkVars, historyVars>>

None == 0
Errors == {"transport", "fatal"}

\* A known spend limit replaces whatever else the SDK reports.
Normalized(e) == IF spend THEN "spend" ELSE e

Put(kind) == messages' = Append(messages, [kind |-> kind, of |-> client])

----------------------------------------------------------------------------
(* The reader task.                                                        *)

\* Fault: the queue holds one message at a time.
RoomForOne == messages = <<>>

\* The queue has no limit.
RoomInQueue == TRUE

\* Everything the SDK wrote is moved on at once: replies to whoever waits
\* for them, messages to the queue.
ReadMessage ==
    /\ reader = "reading" /\ pipe # <<>> /\ RoomInQueue
    /\ pipe' = Tail(pipe)
    /\ IF Head(pipe) = "message"
       THEN Put("message") /\ UNCHANGED pc
       ELSE /\ pc' = IF pc = "interrupting" THEN "receiving" ELSE pc
            /\ UNCHANGED messages
    /\ UNCHANGED <<status, client, reader, spend, failure, phases, retries>>
    /\ UNCHANGED <<sdk, written, asked>> /\ UNCHANGED historyVars

\* Fault: a stream that ends without an error is not announced.
OnlyErrors(e) == IF e = "none" THEN <<>> ELSE <<[kind |-> e, of |-> client]>>

\* What the reader leaves in the queue: its error, if any, and the end.
LastWords(e) == (IF e = "none" THEN <<>> ELSE <<[kind |-> e, of |-> client]>>)
                  \o <<[kind |-> "end", of |-> client]>>

\* The stream ends: the process closed it, or it broke.
ReaderEnds ==
    /\ reader = "reading" /\ pipe = <<>>
    /\ \/ sdk = "off" /\ messages' = messages \o LastWords("none")
       \/ sdk = "broken" /\ \E e \in Errors \cup {"none"} :
             messages' = messages \o LastWords(IF e = "none" THEN e ELSE Normalized(e))
    /\ reader' = "done"
    /\ UNCHANGED <<status, client, spend>>
    /\ UNCHANGED ownerVars /\ UNCHANGED sdkVars /\ UNCHANGED historyVars

ReaderCancelled ==
    /\ reader = "cancelled"
    /\ reader' = "done"
    /\ messages' = messages \o LastWords("none")
    /\ UNCHANGED <<status, client, spend>>
    /\ UNCHANGED ownerVars /\ UNCHANGED sdkVars /\ UNCHANGED historyVars

----------------------------------------------------------------------------
(* connect                                                                 *)

\* Fault: the queue of the connection before is used on.
KeepQueue == messages

FreshQueue == <<>>

Connect ==
    /\ pc = "idle" /\ status = "disconnected"
    /\ status' = "connecting"
    /\ messages' = FreshQueue
    /\ spend' = FALSE
    /\ client' = connection + 1 /\ connection' = connection + 1
    /\ pc' = "connecting"
    /\ sdk' = "starting" /\ pipe' = <<>> /\ written' = 0 /\ asked' = FALSE
    /\ UNCHANGED <<reader, failure, phases, retries, cancelled, unheard>>

Connected ==
    /\ pc = "connecting"
    /\ reader' = "reading"
    /\ status' = "connected"
    /\ pc' = "receiving"
    /\ sdk' = "on"
    /\ UNCHANGED <<client, messages, spend, failure, phases, retries>>
    /\ UNCHANGED <<pipe, written, asked>> /\ UNCHANGED historyVars

----------------------------------------------------------------------------
(* close and close_after_failure                                           *)

\* The head of close: from here other callers are refused.
BeginClose(e) ==
    /\ status' = "closing"
    /\ failure' = e
    /\ pc' = "disconnecting"
    /\ sdk' = IF sdk = "on" THEN "stopping" ELSE sdk
    /\ UNCHANGED <<client, reader, spend, phases, retries>>

\* A failed startup, a failed write or control request.
CallFails ==
    /\ pc \in {"connecting", "receiving", "interrupting"}
    /\ \E e \in Errors : BeginClose(Normalized(e))
    /\ UNCHANGED <<messages, pipe, written, asked>> /\ UNCHANGED historyVars

\* The phase ends after some message; Recovery closes to save.
EndPhase ==
    /\ pc = "receiving" /\ messages # <<>> /\ Head(messages).kind = "message"
    /\ messages' = Tail(messages)
    /\ BeginClose("none")
    /\ UNCHANGED <<pipe, written, asked>> /\ UNCHANGED historyVars

\* An error of the shutdown is only noted when another is being handled.
KeepFirst(e) == IF failure = "none" THEN e ELSE failure

\* disconnect is over: a reader that still runs is cancelled and awaited.
Reap(e) ==
    /\ failure' = e
    /\ pc' = IF reader = "reading" THEN "reaping" ELSE "reaped"
    /\ reader' = IF reader = "reading" THEN "cancelled" ELSE reader
    /\ UNCHANGED <<status, client, spend, messages, phases, retries>>

\* The process is gone once its output is drained.
Disconnected ==
    /\ pc = "disconnecting" /\ pipe = <<>>
    /\ Reap(failure)
    /\ sdk' = "off"
    /\ UNCHANGED <<pipe, written, asked>> /\ UNCHANGED historyVars

DisconnectFails ==
    /\ pc = "disconnecting"
    /\ \E e \in Errors : Reap(KeepFirst(Normalized(e)))
    /\ sdk' = "off"
    /\ UNCHANGED <<pipe, written, asked>> /\ UNCHANGED historyVars

\* What Recovery does next: save and go on, wait and try again, or stop.
AfterClose ==
    /\ pc' = CASE failure = "none" /\ phases + 1 < MaxPhases  -> "idle"
               [] failure = "transport" /\ retries < MaxRetries -> "waiting"
               [] OTHER                                         -> "ended"
    /\ phases' = IF failure = "none" THEN phases + 1 ELSE phases
    /\ retries' = IF failure = "none" THEN 0 ELSE retries
    /\ failure' = IF pc' = "ended" THEN failure ELSE "none"

Release == reader' = "none" /\ client' = None /\ status' = "disconnected"

\* close returns when the reader has.
Closed ==
    /\ pc = "reaped" \/ (pc = "reaping" /\ reader = "done")
    /\ Release
    /\ AfterClose
    /\ UNCHANGED <<messages, spend>> /\ UNCHANGED sdkVars /\ UNCHANGED historyVars

Retry ==
    /\ pc = "waiting"
    /\ pc' = "idle"
    /\ retries' = retries + 1
    /\ UNCHANGED <<failure, phases>>
    /\ UNCHANGED managerVars /\ UNCHANGED sdkVars /\ UNCHANGED historyVars

----------------------------------------------------------------------------
(* receive and interrupt                                                   *)

Receive ==
    /\ pc = "receiving" /\ messages # <<>> /\ Head(messages).kind = "message"
    /\ messages' = Tail(messages)
    /\ UNCHANGED <<status, client, reader, spend>>
    /\ UNCHANGED ownerVars /\ UNCHANGED sdkVars /\ UNCHANGED historyVars

ReceiveFailure ==
    /\ pc = "receiving" /\ messages # <<>> /\ Head(messages).kind # "message"
    /\ messages' = Tail(messages)
    /\ BeginClose(IF Head(messages).kind = "end" THEN "transport" ELSE Head(messages).kind)
    /\ UNCHANGED <<pipe, written, asked>> /\ UNCHANGED historyVars

Interrupt ==
    /\ pc = "receiving" /\ ~asked /\ sdk = "on"
    /\ pc' = "interrupting"
    /\ asked' = TRUE
    /\ UNCHANGED <<failure, phases, retries, sdk, pipe, written>>
    /\ UNCHANGED managerVars /\ UNCHANGED historyVars

----------------------------------------------------------------------------
(* SIGTERM cancels the owner's task at the await it is at.                 *)

CancelledAt(e) ==
    \/ /\ pc \in {"connecting", "receiving", "interrupting"}
       /\ BeginClose(e)
       /\ UNCHANGED messages
       /\ UNCHANGED <<pipe, written, asked>>
    \/ /\ pc = "disconnecting"
       /\ Reap(e)
       /\ sdk' = "off"
       /\ UNCHANGED <<pipe, written, asked>>
    \/ /\ pc = "waiting"
       /\ pc' = "ended" /\ failure' = e
       /\ UNCHANGED <<phases, retries>>
       /\ UNCHANGED managerVars /\ UNCHANGED sdkVars

\* Fault: while it closes, a cancellation is an error like another.
LateError == IF pc = "disconnecting" THEN KeepFirst("cancelled") ELSE "cancelled"

Cancellation == "cancelled"

Cancel ==
    /\ CancelledAt(Cancellation)
    /\ cancelled' = TRUE
    /\ UNCHANGED <<connection, unheard>>

\* While close awaits the reader, suppress(CancelledError) takes the
\* cancellation of the owner for that of the reader.
CancelUnheard ==
    /\ pc = "reaping"
    /\ cancelled' = TRUE
    /\ unheard' = (unheard \/ failure # "cancelled")
    /\ UNCHANGED connection
    /\ UNCHANGED managerVars /\ UNCHANGED ownerVars /\ UNCHANGED sdkVars

----------------------------------------------------------------------------
(* The SDK process.                                                        *)

Write ==
    /\ sdk \in {"on", "stopping"} /\ written < MaxMessages /\ Len(pipe) < PipeSize
    /\ pipe' = Append(pipe, "message")
    /\ written' = written + 1
    /\ UNCHANGED <<sdk, asked>>

Acknowledge ==
    /\ sdk = "on" /\ asked /\ pc = "interrupting"
    /\ \A i \in DOMAIN pipe : pipe[i] # "ack"
    /\ Len(pipe) < PipeSize
    /\ pipe' = Append(pipe, "ack")
    /\ UNCHANGED <<sdk, written, asked>>

Break ==
    /\ sdk = "on"
    /\ sdk' = "broken"
    /\ UNCHANGED <<pipe, written, asked>>

\* A line on stderr that names an exhausted budget.
SpendLine ==
    /\ sdk # "off" /\ ~spend
    /\ spend' = TRUE
    /\ Put("spend")
    /\ UNCHANGED <<status, client, reader>> /\ UNCHANGED sdkVars

Sdk == /\ \/ (Write \/ Acknowledge \/ Break) /\ UNCHANGED managerVars
          \/ SpendLine
       /\ UNCHANGED ownerVars /\ UNCHANGED historyVars

----------------------------------------------------------------------------
Init ==
    /\ status = "disconnected" /\ client = None /\ reader = "none"
    /\ messages = <<>> /\ spend = FALSE
    /\ pc = "idle" /\ failure = "none" /\ phases = 0 /\ retries = 0
    /\ sdk = "off" /\ pipe = <<>> /\ written = 0 /\ asked = FALSE
    /\ connection = 0 /\ cancelled = FALSE /\ unheard = FALSE

Reader == ReadMessage \/ ReaderEnds \/ ReaderCancelled
Owner == \/ Connect \/ Connected \/ CallFails \/ EndPhase \/ Disconnected
         \/ DisconnectFails \/ Closed \/ Retry \/ Receive \/ ReceiveFailure \/ Interrupt

Next == Reader \/ Owner \/ Cancel \/ CancelUnheard \/ Sdk
Spec == Init /\ [][Next]_vars

\* The event loop runs what is ready.  The SDK acknowledges when it has room,
\* and fails a control request once its process is broken.
FairSpec == /\ Spec
            /\ WF_vars(Reader)
            /\ WF_vars(Connected) /\ WF_vars(Disconnected) /\ WF_vars(Closed)
            /\ WF_vars(Retry) /\ WF_vars(Connect) /\ WF_vars(Acknowledge /\ Sdk)
            /\ WF_vars(sdk = "broken" /\ CallFails)

----------------------------------------------------------------------------
\* The type invariant: every variable keeps to its range.
TypeOK ==
    /\ status \in {"disconnected", "connecting", "connected", "closing"}
    /\ reader \in {"none", "reading", "cancelled", "done"}
    /\ client \in {None, connection} /\ connection \in Nat
    /\ pc \in {"idle", "connecting", "receiving", "interrupting", "disconnecting",
               "reaping", "reaped", "waiting", "ended"}
    /\ failure \in Errors \cup {"none", "spend", "cancelled"}
    /\ sdk \in {"off", "starting", "on", "stopping", "broken"}
    /\ written \in 0 .. MaxMessages /\ Len(pipe) <= PipeSize
    /\ phases \in 0 .. MaxPhases /\ retries \in 0 .. MaxRetries
    /\ {spend, asked, cancelled, unheard} \subseteq BOOLEAN

\* Between connections nothing of the last one is left: no task that reads,
\* no client, and a status that lets the next connection begin.
NothingLeftBehind ==
    pc \in {"idle", "waiting", "ended"} =>
        status = "disconnected" /\ client = None /\ reader = "none"

\* Whatever a consumer takes from the queue is of its own connection.
OwnMessages ==
    status \in {"connecting", "connected"} =>
        \A i \in DOMAIN messages : messages[i].of = client

\* A consumer never waits on a queue that nobody will write to again.
ReceiveIsAnswered == pc = "receiving" /\ messages = <<>> => reader = "reading"

\* A cancellation outlives errors that come up before the run has stopped.
CancellationIsKept == cancelled /\ ~unheard => failure = "cancelled"

\* Recovery.run: "propagate rate limits, cancellation, and storage errors".
NoConnectionAfterCancel ==
    [][status # "connecting" /\ status' = "connecting" => ~cancelled]_vars

\* An interrupt is answered although the consumer takes no message meanwhile,
\* and closing ends, however much output the SDK still had.
CallsReturn ==
    /\ pc = "interrupting" ~> pc # "interrupting"
    /\ status = "closing" ~> status = "disconnected"

\* All tasks and shutdowns apart, the run keeps to what Recovery relies on: the
\* queue it takes from is of its own connection and in order, and how a talk
\* ended, a cancellation before anything else, decides what comes next.
Run == INSTANCE SupervisedRun WITH
    stage <- IF pc = "idle" THEN "ready"
             ELSE IF pc \in {"connecting", "receiving", "interrupting"} THEN "talking"
             ELSE IF pc = "waiting" THEN "waiting"
             ELSE IF pc = "ended" THEN "over" ELSE "hanging_up",
    outcome <- failure, lines <- connection, line <- client, inbox <- messages

ImplementsSupervisedRun == Run!RunSpec
=============================================================================
