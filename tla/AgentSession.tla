---------------------------- MODULE AgentSession ----------------------------
(***************************************************************************)
(* One phase of an attempt, as the solver sees it through AgentSession:    *)
(* what it is charged for, and when the phase is over.                     *)
(*                                                                         *)
(* Three parties.  The SDK (external) reads inputs in order, answers each  *)
(* in a turn of one or more model responses, and writes messages to        *)
(* `stream`; it may also repeat what it said before.  AgentSession takes   *)
(* the messages one at a time, keeps the TokenUsage ledger of the run and  *)
(* yields events.  Its consumer, SelfRefine._run_phase under Recovery,     *)
(* reacts to an event before the next message is taken: it interrupts at   *)
(* the limit, or queues the one notice.  Recovery replaces the SDK and the *)
(* AgentSession between phases, and rolls both back after a failure.       *)
(*                                                                         *)
(* A text is identified by the model response that wrote it.               *)
(***************************************************************************)
EXTENDS Integers, Sequences, FiniteSets, Functions

CONSTANTS Lanes,         \* parent_tool_use_id of messages; Main is None
          Main,
          Limit,         \* tokens at which the consumer interrupts
          NoticeAt,      \* tokens at which it queues the notice
          MaxResponses,  \* model responses over all phases (bound)
          MaxTokens,     \* tokens of one response (bound)
          MaxBuffered,   \* messages in the stream (bound)
          MaxPhases,     \* phases of the attempt (bound)
          MaxRetries     \* retries of a phase (bound)

ASSUME LaneAssumption == Main \in Lanes
ASSUME LimitAssumption == Limit \in Nat \ {0} /\ NoticeAt \in Nat
ASSUME BoundAssumption ==
    /\ {MaxResponses, MaxTokens, MaxBuffered, MaxPhases} \subseteq Nat \ {0}
    /\ MaxRetries \in Nat

VARIABLES
  \* the SDK
  read,        \* inputs of this connection it has read
  busy,        \* a turn is in progress
  turn,        \* responses of the turn
  current,     \* the response each lane is producing
  responses,   \* every response so far: tokens made, text envelopes sent
  lost,        \* responses of phases that were rolled back
  stream,      \* messages on their way to AgentSession
  \* AgentSession and the TokenUsage of its run
  sent,        \* inputs of this connection that were queued
  pending,     \* _pending_message_id
  interrupted, \* _interrupted
  latest,      \* _last_assistant_message
  split,       \* _has_multiple_text_envelopes
  streamIds,   \* _stream_ids
  ledger,      \* the TokenUsage of the run
  \* the consumer
  pc,          \* what it does next
  rest,        \* the result whose usage event was yielded, if any
  spent,       \* state.output_tokens
  start,       \* starting_tokens of the phase
  warned,      \* state.warning_sent
  phases,      \* phases saved
  retries,     \* retries since the last save
  saved,       \* the checkpoint
  \* history
  billed,      \* tokens of the turns whose result this run has taken
  exact,       \* each of those results named its tokens
  dropped,     \* one of them had output, and was ignored
  answer       \* the result that completed the phase

sdkVars      == <<read, busy, turn, current, responses, lost>>
sessionVars  == <<sent, pending, interrupted, latest, split, streamIds, ledger>>
consumerVars == <<pc, rest, spent, start, warned, phases, retries, saved>>
historyVars  == <<billed, exact, dropped, answer>>
vars == <<sdkVars, stream, sessionVars, consumerVars, historyVars>>

None == 0                 \* no response, no text, no pending input
Absent == -1              \* a result or envelope that reports no usage
NoMessage == [id |-> None, text |-> FALSE]
NoAnswer == [text |-> None, quoted |-> FALSE, own |-> None, inputs |-> 0]

Ids == 1 .. Len(responses)
TokensOf(ids) == SumFunctionOnSet([i \in Ids |-> responses[i].tokens], ids)

----------------------------------------------------------------------------
(* TokenUsage                                                              *)

NewLedger(sealed) == [tokens |-> <<>>, completed |-> 0, sealed |-> sealed]

TurnTokens(l) == SumFunction(l.tokens)
Output(l) == l.completed + TurnTokens(l)
MessageTokens(l, id) == IF id \in DOMAIN l.tokens THEN l.tokens[id] ELSE 0
Larger(a, b) == IF a > b THEN a ELSE b

\* Fault: messages of earlier phases are charged again.
UpdateUnsealed(l, id, n) ==
    [l EXCEPT !.tokens = [i \in DOMAIN l.tokens \cup {id} |->
       IF i = id THEN Larger(n, MessageTokens(l, id)) ELSE l.tokens[i]]]

UpdateMessageTokens(l, id, n) ==
    IF id \in l.sealed THEN l
    ELSE [l EXCEPT !.tokens = [i \in DOMAIN l.tokens \cup {id} |->
            IF i = id THEN Larger(n, MessageTokens(l, id)) ELSE l.tokens[i]]]

\* Fault: output that was not streamed is not charged.
FinalizeObserved(l, n) ==
    [tokens |-> <<>>, completed |-> Output(l), sealed |-> l.sealed \cup DOMAIN l.tokens]

FinalizeTurnUsage(l, n) ==
    [tokens |-> <<>>, completed |-> l.completed + Larger(TurnTokens(l), n),
     sealed |-> l.sealed \cup DOMAIN l.tokens]

----------------------------------------------------------------------------
(* The SDK and the provider behind it.  Modelled from the protocol the     *)
(* tests of the session play: echoes of inputs in the order they are read, *)
(* stream events before the result of their turn, cumulative counts.       *)

Room == Len(stream) < MaxBuffered
Emit(m) == stream' = Append(stream, m)

\* A queued input starts a turn, or joins the one in progress.
ReadInput ==
    /\ read < sent /\ Room
    /\ read' = read + 1
    /\ busy' = TRUE
    /\ turn' = IF busy THEN turn ELSE {}
    /\ Emit([kind |-> "echo", input |-> read + 1])
    /\ UNCHANGED <<current, responses, lost>>

StartResponse(lane, n) ==
    /\ busy /\ Room /\ Len(responses) < MaxResponses
    /\ responses' = Append(responses, [tokens |-> n, texts |-> 0, lane |-> lane])
    /\ turn' = turn \cup {Len(responses) + 1}
    /\ current' = [current EXCEPT ![lane] = Len(responses) + 1]
    /\ Emit([kind |-> "start", lane |-> lane, id |-> Len(responses) + 1, tokens |-> n])
    /\ UNCHANGED <<read, busy, lost>>

\* More output; it is not always streamed.
Generate(lane, streamed) ==
    LET id == current[lane] IN
    /\ id # None /\ responses[id].tokens < MaxTokens
    /\ responses' = [responses EXCEPT ![id].tokens = @ + 1]
    /\ \/ streamed /\ Room
          /\ Emit([kind |-> "delta", lane |-> lane, tokens |-> responses[id].tokens + 1])
       \/ ~streamed /\ UNCHANGED stream
    /\ UNCHANGED <<read, busy, turn, current, lost>>

\* A block of a response: thinking or text, its usage missing or early.
SendEnvelope(lane, text, n) ==
    LET id == current[lane] IN
    /\ id # None /\ Room
    /\ n \in {Absent, 0, responses[id].tokens}
    /\ text => responses[id].texts < 2
    /\ responses' = [responses EXCEPT ![id].texts = IF text THEN @ + 1 ELSE @]
    /\ Emit([kind |-> "envelope", lane |-> lane, id |-> id, text |-> text, tokens |-> n])
    /\ UNCHANGED <<read, busy, turn, current, lost>>

\* What the conversation held before this phase can be sent again.
Earlier == (1 .. saved.responses) \ lost

ReplayStart(id) ==
    /\ busy /\ Room /\ current[Main] = None
    /\ Emit([kind |-> "start", lane |-> Main, id |-> id, tokens |-> responses[id].tokens])
    /\ UNCHANGED sdkVars

ReplayEnvelope(id) ==
    /\ busy /\ Room
    /\ Emit([kind |-> "envelope", lane |-> Main, id |-> id, text |-> TRUE,
             tokens |-> responses[id].tokens])
    /\ UNCHANGED sdkVars

\* The last of some responses to the solver itself.
LastOwn(ids) == LET own == {i \in ids : responses[i].lane = Main}
                IN  IF own = {} THEN None ELSE CHOOSE i \in own : \A j \in own : j <= i

Result(text, n, worked, failed) ==
    [kind |-> "result", text |-> text, tokens |-> n, failed |-> failed,
     worked |-> worked, turn |-> turn, inputs |-> read]

\* The end of a turn that produced something.
EndTurn(quoted, metered, failed) ==
    /\ busy /\ Room /\ turn # {}
    /\ Emit(Result(IF quoted THEN LastOwn(turn) ELSE None,
                   IF metered THEN TokensOf(turn) ELSE Absent, TRUE, failed))
    /\ busy' = FALSE
    /\ current' = [l \in Lanes |-> None]
    /\ UNCHANGED <<read, turn, responses, lost>>

\* The end of one that did not: nothing, or an earlier result once more.
EndEmptyTurn(text, n, worked) ==
    /\ busy /\ Room /\ turn = {}
    /\ Emit(Result(text, n, worked, FALSE))
    /\ busy' = FALSE
    /\ UNCHANGED <<read, turn, current, responses, lost>>

\* The stream breaks, the provider rejects, or a response is an API error.
Break ==
    /\ pc = "receive" /\ Room
    /\ \A i \in DOMAIN stream : stream[i].kind # "failure"
    /\ Emit([kind |-> "failure"])
    /\ UNCHANGED sdkVars

----------------------------------------------------------------------------
(* AgentSession                                                            *)

\* queue: an input of its own identity; the latest one is waited for.
Queue == /\ sent' = sent + 1
         /\ pending' = sent + 1

\* The event of a changed total reaches the consumer, which counts it.
Report(l, r) ==
    /\ ledger' = l
    /\ IF Output(l) = Output(ledger)
       THEN UNCHANGED <<pc, rest, spent>>
       ELSE /\ pc' = "react"
            /\ rest' = r
            /\ spent' = start + Output(l)

Take(kind) == /\ pc = "receive" /\ stream # <<>>
              /\ Head(stream).kind = kind
              /\ stream' = Tail(stream)

\* Fault: any echo counts as the one that is waited for.
IsAnyEcho(m) == TRUE

\* Fault: only the instruction that opens the run is waited for.
IsFirstEcho(m) == m.input = 1

IsPendingEcho(m) == m.input = pending

ClearPendingMessage ==
    /\ Take("echo")
    /\ pending' = IF IsPendingEcho(Head(stream)) THEN None ELSE pending
    /\ UNCHANGED <<sent, interrupted, latest, split, streamIds, ledger>>
    /\ UNCHANGED consumerVars /\ UNCHANGED sdkVars /\ UNCHANGED historyVars

\* A new response of the solver makes the text of the one before obsolete.
ForgetText(m) ==
    IF m.lane = Main /\ m.id \notin ledger.sealed
    THEN latest' = NoMessage /\ split' = FALSE
    ELSE UNCHANGED <<latest, split>>

TakeStart ==
    LET m == Head(stream) IN
    /\ Take("start")
    /\ streamIds' = [streamIds EXCEPT ![m.lane] = m.id]
    /\ ForgetText(m)
    /\ Report(UpdateMessageTokens(ledger, m.id, m.tokens), "none")
    /\ UNCHANGED <<sent, pending, interrupted, start, warned, phases, retries, saved>>
    /\ UNCHANGED sdkVars /\ UNCHANGED historyVars

\* The message of the lane a count belongs to.
StreamOwner(m) == streamIds[m.lane]

TakeDelta ==
    LET m == Head(stream) IN
    /\ Take("delta")
    /\ Report(UpdateMessageTokens(ledger, StreamOwner(m), m.tokens), "none")
    /\ UNCHANGED <<sent, pending, interrupted, latest, split, streamIds>>
    /\ UNCHANGED <<start, warned, phases, retries, saved>>
    /\ UNCHANGED sdkVars /\ UNCHANGED historyVars

\* One text envelope for each response; a second makes it ambiguous.
RetainResponseText(m) ==
    IF latest.id # m.id
    THEN latest' = [id |-> m.id, text |-> m.text] /\ split' = FALSE
    ELSE IF m.text
    THEN latest' = [id |-> m.id, text |-> TRUE] /\ split' = (split \/ latest.text)
    ELSE UNCHANGED <<latest, split>>

\* Fault: text of an earlier phase, or of a helper, is kept like any other.
IsAnyText(m) == TRUE

IsFreshText(m) == m.lane = Main /\ m.id \notin ledger.sealed

TakeEnvelope ==
    LET m == Head(stream) IN
    /\ Take("envelope")
    /\ IF IsFreshText(m) THEN RetainResponseText(m) ELSE UNCHANGED <<latest, split>>
    /\ Report(IF m.tokens = Absent THEN ledger
              ELSE UpdateMessageTokens(ledger, m.id, m.tokens), "none")
    /\ UNCHANGED <<sent, pending, interrupted, streamIds>>
    /\ UNCHANGED <<start, warned, phases, retries, saved>>
    /\ UNCHANGED sdkVars /\ UNCHANGED historyVars

\* Terminal text, or else the one envelope of a message that was metered.
ResponseText(m) ==
    IF m.text # None THEN m.text
    ELSE IF latest.text /\ ~split /\ MessageTokens(ledger, latest.id) > 0
    THEN latest.id ELSE None

\* Fault: a result is fresh whether or not its turn cost anything.
HasAnyResult(m) == m.worked /\ ResponseText(m) # None

HasFreshResult(m) ==
    m.worked /\ TurnTokens(ledger) > 0 /\ ResponseText(m) # None

IsStale(m) == ~m.failed /\ ~interrupted /\ ~HasFreshResult(m)

Bill(m) ==
    /\ billed' = billed + TokensOf(m.turn)
    /\ exact' = (exact /\ (m.tokens # Absent \/ TokensOf(m.turn) = 0))

\* A result without fresh output belongs to an earlier input, if any waits.
IgnoreStaleResult ==
    LET m == Head(stream) IN
    /\ Take("result") /\ IsStale(m) /\ pending # None
    /\ Bill(m)
    /\ dropped' = (dropped \/ TokensOf(m.turn) > 0)
    /\ UNCHANGED answer
    /\ UNCHANGED sessionVars /\ UNCHANGED consumerVars /\ UNCHANGED sdkVars

RejectStaleResult ==
    LET m == Head(stream) IN
    /\ Take("result") /\ IsStale(m) /\ pending = None
    /\ pc' = "failed"
    /\ UNCHANGED <<rest, spent, start, warned, phases, retries, saved>>
    /\ UNCHANGED sessionVars /\ UNCHANGED historyVars /\ UNCHANGED sdkVars

\* Where a result leaves the run once its usage is accounted for.
AfterResult(failed, waiting, cut) ==
    IF cut THEN "interrupted"
    ELSE IF failed THEN "failed"
    ELSE IF waiting THEN "receive" ELSE "completed"

\* The usage event of a result comes before what the result decides.
TakeResult ==
    LET m == Head(stream)
        l == FinalizeTurnUsage(ledger,
               IF m.tokens = Absent THEN TurnTokens(ledger) ELSE m.tokens)
    IN
    /\ Take("result") /\ ~IsStale(m)
    /\ ledger' = l
    /\ latest' = NoMessage /\ split' = FALSE
    /\ spent' = start + Output(l)
    /\ IF (m.failed \/ pending # None) /\ Output(l) # Output(ledger)
       THEN pc' = "react" /\ rest' = IF m.failed THEN "failed" ELSE "pending"
       ELSE pc' = AfterResult(m.failed, pending # None, interrupted) /\ UNCHANGED rest
    /\ answer' = IF pc' = "completed"
                 THEN [text |-> ResponseText(m), quoted |-> m.text # None,
                       own |-> LastOwn(m.turn), inputs |-> m.inputs]
                 ELSE answer
    /\ Bill(m)
    /\ UNCHANGED <<dropped, sent, pending, interrupted, streamIds>>
    /\ UNCHANGED <<start, warned, phases, retries, saved>>
    /\ UNCHANGED sdkVars

TakeFailure ==
    /\ Take("failure")
    /\ pc' = "failed"
    /\ UNCHANGED <<rest, spent, start, warned, phases, retries, saved>>
    /\ UNCHANGED sessionVars /\ UNCHANGED historyVars /\ UNCHANGED sdkVars

----------------------------------------------------------------------------
(* The consumer: SelfRefine._run_phase and Recovery.                       *)

NoticeDue == ~warned /\ spent < Limit /\ spent >= NoticeAt

\* A new connection and AgentSession on what is saved.
Connect ==
    /\ pc = "connect"
    /\ pc' = "begin"
    /\ read' = 0 /\ busy' = FALSE /\ turn' = {}
    /\ current' = [l \in Lanes |-> None]
    /\ stream' = <<>>
    /\ sent' = 0 /\ pending' = None /\ interrupted' = FALSE
    /\ ledger' = NewLedger(saved.sealed)
    /\ latest' = NoMessage /\ split' = FALSE
    /\ streamIds' = [l \in Lanes |-> None]
    /\ billed' = 0 /\ exact' = TRUE /\ dropped' = FALSE /\ answer' = NoAnswer
    /\ UNCHANGED <<responses, lost, rest, spent, start, warned, phases, retries, saved>>

\* The notice may be due before the phase begins.
WarnFirst ==
    /\ pc = "begin" /\ NoticeDue
    /\ Queue
    /\ warned' = TRUE
    /\ UNCHANGED <<interrupted, latest, split, streamIds, ledger, stream>>
    /\ UNCHANGED <<pc, rest, spent, start, phases, retries, saved>>
    /\ UNCHANGED sdkVars /\ UNCHANGED historyVars

\* The head of run, up to its first message.
Run ==
    /\ pc = "begin" /\ ~NoticeDue
    /\ Queue
    /\ pc' = "receive"
    /\ start' = spent
    /\ UNCHANGED <<interrupted, latest, split, streamIds, ledger, stream>>
    /\ UNCHANGED <<rest, spent, warned, phases, retries, saved>>
    /\ UNCHANGED sdkVars /\ UNCHANGED historyVars

\* After a usage event: cut off at the limit, or give the notice; then the
\* run goes on where the event was yielded.
React ==
    /\ pc = "react"
    /\ interrupted' = (interrupted \/ spent >= Limit)
    /\ IF NoticeDue THEN Queue /\ warned' = TRUE
                    ELSE UNCHANGED <<sent, pending, warned>>
    /\ pc' = IF rest = "none" THEN "receive"
             ELSE AfterResult(rest = "failed", TRUE, interrupted')
    /\ rest' = "none"
    /\ UNCHANGED <<latest, split, streamIds, ledger, stream>>
    /\ UNCHANGED <<spent, start, phases, retries, saved>>
    /\ UNCHANGED sdkVars /\ UNCHANGED historyVars

\* Close, save, and go on while there is allowance.
Checkpoint ==
    /\ pc \in {"completed", "interrupted"}
    /\ saved' = [sealed |-> ledger.sealed, spent |-> spent, warned |-> warned,
                 responses |-> Len(responses)]
    /\ phases' = phases + 1
    /\ retries' = 0
    /\ pc' = IF spent < Limit /\ phases + 1 < MaxPhases THEN "connect" ELSE "stopped"
    /\ UNCHANGED <<rest, spent, start, warned, stream>>
    /\ UNCHANGED sdkVars /\ UNCHANGED sessionVars /\ UNCHANGED historyVars

\* Close and restore: progress and conversation are those of the checkpoint.
Restore ==
    /\ pc = "failed" /\ retries < MaxRetries
    /\ retries' = retries + 1
    /\ spent' = saved.spent /\ warned' = saved.warned
    /\ lost' = lost \cup (saved.responses + 1 .. Len(responses))
    /\ pc' = "connect"
    /\ UNCHANGED <<read, busy, turn, current, responses, stream>>
    /\ UNCHANGED <<rest, start, phases, saved>>
    /\ UNCHANGED sessionVars /\ UNCHANGED historyVars

----------------------------------------------------------------------------
Init ==
    /\ read = 0 /\ busy = FALSE /\ turn = {} /\ responses = <<>> /\ lost = {}
    /\ current = [l \in Lanes |-> None] /\ stream = <<>>
    /\ sent = 0 /\ pending = None /\ interrupted = FALSE
    /\ latest = NoMessage /\ split = FALSE
    /\ streamIds = [l \in Lanes |-> None] /\ ledger = NewLedger({})
    /\ pc = "connect" /\ rest = "none" /\ spent = 0 /\ start = 0
    /\ warned = FALSE /\ phases = 0 /\ retries = 0
    /\ saved = [sealed |-> {}, spent |-> 0, warned |-> FALSE, responses |-> 0]
    /\ billed = 0 /\ exact = TRUE /\ dropped = FALSE /\ answer = NoAnswer

Sdk ==
    /\ pc \in {"begin", "receive", "react"}
    /\ \/ ReadInput
       \/ \E lane \in Lanes : \/ \E n \in {0, 1} : StartResponse(lane, n)
                              \/ \E streamed \in BOOLEAN : Generate(lane, streamed)
                              \/ \E text \in BOOLEAN, n \in Absent .. MaxTokens :
                                    SendEnvelope(lane, text, n)
       \/ \E id \in Earlier : ReplayStart(id) \/ ReplayEnvelope(id)
       \/ \E quoted, metered, failed \in BOOLEAN : EndTurn(quoted, metered, failed)
       \/ \E text \in Earlier \cup {None}, n \in Absent .. MaxTokens, worked \in BOOLEAN :
             EndEmptyTurn(text, n, worked)
       \/ Break
    /\ UNCHANGED sessionVars /\ UNCHANGED consumerVars /\ UNCHANGED historyVars

Session ==
    \/ ClearPendingMessage \/ TakeStart \/ TakeDelta \/ TakeEnvelope
    \/ IgnoreStaleResult \/ RejectStaleResult \/ TakeResult \/ TakeFailure

Consumer == Connect \/ WarnFirst \/ Run \/ React \/ Checkpoint \/ Restore

Next == Sdk \/ Session \/ Consumer
Spec == Init /\ [][Next]_vars

\* The stream has no bound in the code, so that the buffer fills is not a
\* reason for the SDK to leave an input unread or a turn open: hence SF.
FairSpec ==
    /\ Spec
    /\ WF_vars(Session) /\ WF_vars(Consumer)
    /\ SF_vars(ReadInput /\ Sdk)
    /\ SF_vars(Sdk /\ busy /\ ~busy')

----------------------------------------------------------------------------
\* A phase is never charged for more than the provider made in it: whatever
\* is repeated, reported early or reported twice, each message is charged once.
\* Not so once a result with output was ignored (see AnswerIsFresh).
NeverOvercharged ==
    ~dropped => spent - saved.spent
                  <= TokensOf((saved.responses + 1 .. Len(responses)) \ lost)

\* When a phase is saved, its charge is what its turns cost, also the output
\* that was never streamed, provided that each result named its tokens and
\* that none with output was ignored.
ExactWhenSaved ==
    pc \in {"completed", "interrupted"} /\ exact /\ ~dropped
      => spent = saved.spent + billed

\* No phase ends before the SDK has read everything queued for it: a notice
\* is part of the conversation that is saved as having had it.
AllInputsAnswered == pc = "completed" => answer.inputs = sent

\* The text of a phase is by the last response of the turn that ended it, and
\* where it had to be pieced together, it is the whole of that response.  Not
\* so after an ignored result with output: its tokens stay in the ledger as
\* evidence for the next one, which may repeat an earlier text.
AnswerIsFresh ==
    pc = "completed" /\ ~dropped =>
        /\ answer.text = answer.own
        /\ answer.text > saved.responses
        /\ ~answer.quoted => responses[answer.text].texts = 1

\* Cumulative usage never decreases within a run, which SelfRefine insists on.
UsageGrows == [][pc # "failed" => spent' >= spent]_vars

\* Every phase ends, also with inputs that join a turn, that wait for the
\* next one, or that are cut off.
RunEnds == pc = "receive" ~> pc \in {"completed", "interrupted", "failed"}

\* All messages and inputs apart, the session keeps the promise on which the
\* phase loop counts tokens, resumes and ends.
Phase == INSTANCE MeteredPhase WITH
    state <- IF pc \in {"connect", "begin"} THEN "ready"
             ELSE IF pc \in {"receive", "react"} THEN "open" ELSE pc,
    kept <- saved.spent

ImplementsMeteredPhase == Phase!PhaseSpec
=============================================================================
