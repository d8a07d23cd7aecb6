------------------------- MODULE AgentSessionProofs -------------------------
(***************************************************************************)
(* What a phase is charged, what text completes it, and that it does not   *)
(* complete before the SDK has read every input: for any limits, any       *)
(* number of responses and lanes, and any length of the stream.            *)
(*                                                                         *)
(* AgentSession decides each of these from the messages it has taken, so   *)
(* the invariants are about every message still on its way.                *)
(*                                                                         *)
(* InputInv: a result that will be taken with nothing pending, because     *)
(* nothing is now or because the echo is ahead of it, was written after    *)
(* all inputs were read.                                                   *)
(*                                                                         *)
(* ChargeInv: what a message says is true of the response it is about, and *)
(* is said before the result of the response's turn (Spoken); a lane's     *)
(* counts are those of the response the lane is at (Owns); responses are   *)
(* heard of in the order they were made (InOrder); no result follows the   *)
(* one that answered the last input (LastResult); what the ledger holds is *)
(* of the turn at the head of the stream (Metered); and a response's text  *)
(* is retained, on its way or obsolete (Texts).  Books draws the balance.  *)
(***************************************************************************)
EXTENDS AgentSession, FiniteSetTheorems, WellFoundedInduction, TLAPS

Sequence == \E S : stream \in Seq(S)

Counters ==
    /\ sent \in Nat /\ read \in Nat /\ read <= sent
    /\ pending \in {None, sent}
    /\ pending = None => read = sent

IsEcho(i) == stream[i].kind = "echo"
IsResult(i) == stream[i].kind = "result"

EchoesWereRead ==
    \A i \in 1 .. Len(stream) :
        IsEcho(i) => stream[i].input \in Nat \ {0} /\ stream[i].input <= read

LastEchoAhead(i) == \E j \in 1 .. i - 1 : IsEcho(j) /\ stream[j].input = sent

ResultsFollowInputs ==
    \A i \in 1 .. Len(stream) :
        IsResult(i) /\ (pending = None \/ LastEchoAhead(i)) => stream[i].inputs = sent

InputInv == Sequence /\ Counters /\ EchoesWereRead /\ ResultsFollowInputs

inputVars == <<stream, sent, read, pending>>

-----------------------------------------------------------------------------
(* The kinds of step the invariant tells apart.                            *)

\* Writing to the end of the stream.
LEMMA AppendedMessage ==
    ASSUME NEW m, Sequence, stream' = Append(stream, m)
    PROVE  /\ Sequence'
           /\ Len(stream) \in Nat /\ Len(stream') = Len(stream) + 1
           /\ \A i \in 1 .. Len(stream) : stream'[i] = stream[i]
           /\ stream'[Len(stream) + 1] = m
<1>1. PICK S : stream \in Seq(S)
  BY DEF Sequence
<1>2. stream \in Seq(S \cup {m})
  BY <1>1
<1>3. stream' \in Seq(S \cup {m})
  BY <1>2
<1>4. Sequence'
  BY <1>3 DEF Sequence
<1> QED
  BY <1>1, <1>2, <1>4

\* Taking the message at the head.
LEMMA TakenMessage ==
    ASSUME Sequence, stream # <<>>, stream' = Tail(stream)
    PROVE  /\ Sequence'
           /\ Len(stream) \in Nat \ {0} /\ Len(stream') = Len(stream) - 1
           /\ \A i \in 1 .. Len(stream) - 1 : stream'[i] = stream[i + 1]
           /\ Head(stream) = stream[1]
<1>1. PICK S : stream \in Seq(S)
  BY DEF Sequence
<1>2. stream' \in Seq(S)
  BY <1>1
<1>3. Sequence'
  BY <1>2 DEF Sequence
<1> QED
  BY <1>1, <1>3

\* Messages that are neither echo nor result leave the order of inputs alone.
LEMMA EmitOther ==
    ASSUME NEW m, InputInv, stream' = Append(stream, m),
           m.kind \notin {"echo", "result"}, UNCHANGED <<sent, read, pending>>
    PROVE  InputInv'
<1>1. /\ Sequence'
      /\ Len(stream) \in Nat /\ Len(stream') = Len(stream) + 1
      /\ \A i \in 1 .. Len(stream) : stream'[i] = stream[i]
      /\ stream'[Len(stream) + 1] = m
  BY AppendedMessage DEF InputInv
<1>2. Counters'
  BY DEF InputInv, Counters
<1>3. EchoesWereRead'
  BY <1>1 DEF InputInv, EchoesWereRead, IsEcho
<1>4. ASSUME NEW i \in 1 .. Len(stream'), IsResult(i)', pending = None \/ LastEchoAhead(i)'
      PROVE  stream'[i].inputs = sent
  <2>1. i \in 1 .. Len(stream) /\ IsResult(i)
    BY <1>1, <1>4 DEF IsResult
  <2>2. pending = None \/ LastEchoAhead(i)
    BY <1>1, <1>4, <2>1 DEF LastEchoAhead, IsEcho
  <2> QED
    BY <1>1, <2>1, <2>2 DEF InputInv, ResultsFollowInputs
<1> QED
  BY <1>1, <1>2, <1>3, <1>4 DEF InputInv, ResultsFollowInputs

\* A result names the inputs that were read: all of them, when nothing is
\* pending or the echo of the last one is in the stream.
LEMMA EmitResult ==
    ASSUME NEW m, InputInv, stream' = Append(stream, m),
           m.kind = "result", m.inputs = read, UNCHANGED <<sent, read, pending>>
    PROVE  InputInv'
<1>1. /\ Sequence'
      /\ Len(stream) \in Nat /\ Len(stream') = Len(stream) + 1
      /\ \A i \in 1 .. Len(stream) : stream'[i] = stream[i]
      /\ stream'[Len(stream) + 1] = m
  BY AppendedMessage DEF InputInv
<1>2. Counters'
  BY DEF InputInv, Counters
<1>3. EchoesWereRead'
  BY <1>1 DEF InputInv, EchoesWereRead, IsEcho
<1>4. ASSUME NEW i \in 1 .. Len(stream'), IsResult(i)', pending = None \/ LastEchoAhead(i)'
      PROVE  stream'[i].inputs = sent
  <2>1. pending = None \/ LastEchoAhead(i)
    BY <1>1, <1>4 DEF LastEchoAhead, IsEcho
  <2>2. CASE i \in 1 .. Len(stream)
    BY <1>1, <1>4, <2>1, <2>2 DEF InputInv, ResultsFollowInputs, IsResult
  <2>3. CASE i = Len(stream) + 1
    <3>1. read = sent
      BY <1>1, <2>1, <2>3 DEF InputInv, Counters, EchoesWereRead, LastEchoAhead
    <3> QED
      BY <1>1, <2>3, <3>1
  <2> QED
    BY <1>1, <2>2, <2>3
<1> QED
  BY <1>1, <1>2, <1>3, <1>4 DEF InputInv, ResultsFollowInputs

\* Taking a message moves the others one place forward.
LEMMA TakeOther ==
    ASSUME InputInv, stream # <<>>, stream' = Tail(stream),
           UNCHANGED <<sent, read, pending>>
    PROVE  InputInv'
<1>1. /\ Sequence'
      /\ Len(stream) \in Nat \ {0} /\ Len(stream') = Len(stream) - 1
      /\ \A i \in 1 .. Len(stream) - 1 : stream'[i] = stream[i + 1]
  BY TakenMessage DEF InputInv
<1>2. Counters'
  BY DEF InputInv, Counters
<1>3. EchoesWereRead'
  BY <1>1 DEF InputInv, EchoesWereRead, IsEcho
<1>4. ASSUME NEW i \in 1 .. Len(stream'), IsResult(i)', pending = None \/ LastEchoAhead(i)'
      PROVE  stream'[i].inputs = sent
  <2>1. i + 1 \in 1 .. Len(stream) /\ IsResult(i + 1)
    BY <1>1, <1>4 DEF IsResult
  <2>2. pending = None \/ LastEchoAhead(i + 1)
    <3>1. ASSUME NEW j \in 1 .. i - 1, IsEcho(j)', stream'[j].input = sent
          PROVE  LastEchoAhead(i + 1)
      <4>1. j + 1 \in 1 .. (i + 1) - 1 /\ IsEcho(j + 1) /\ stream[j + 1].input = sent
        BY <1>1, <3>1 DEF IsEcho
      <4> QED
        BY <4>1 DEF LastEchoAhead
    <3> QED
      BY <1>4, <3>1 DEF LastEchoAhead
  <2> QED
    BY <1>1, <2>1, <2>2 DEF InputInv, ResultsFollowInputs
<1> QED
  BY <1>1, <1>2, <1>3, <1>4 DEF InputInv, ResultsFollowInputs

\* The echo that is waited for was ahead of every result behind it.
LEMMA TakePendingEcho ==
    ASSUME InputInv, stream # <<>>, stream' = Tail(stream), Head(stream).kind = "echo",
           Head(stream).input = pending, pending' = None, UNCHANGED <<sent, read>>
    PROVE  InputInv'
<1>1. /\ Sequence'
      /\ Len(stream) \in Nat \ {0} /\ Len(stream') = Len(stream) - 1
      /\ \A i \in 1 .. Len(stream) - 1 : stream'[i] = stream[i + 1]
      /\ Head(stream) = stream[1]
  BY TakenMessage DEF InputInv
<1>2. stream[1].input = sent /\ IsEcho(1) /\ read = sent
  BY <1>1 DEF InputInv, Counters, EchoesWereRead, IsEcho, None
<1>3. Counters'
  BY <1>2 DEF InputInv, Counters
<1>4. EchoesWereRead'
  BY <1>1 DEF InputInv, EchoesWereRead, IsEcho
<1>5. ASSUME NEW i \in 1 .. Len(stream'), IsResult(i)'
      PROVE  stream'[i].inputs = sent
  <2>1. i + 1 \in 1 .. Len(stream) /\ IsResult(i + 1)
    BY <1>1, <1>5 DEF IsResult
  <2>2. LastEchoAhead(i + 1)
    BY <1>1, <1>2 DEF LastEchoAhead
  <2> QED
    BY <1>1, <2>1, <2>2 DEF InputInv, ResultsFollowInputs
<1> QED
  BY <1>1, <1>3, <1>4, <1>5 DEF InputInv, ResultsFollowInputs

\* A new input has no echo yet, so no result on its way counts.
LEMMA QueueInput ==
    ASSUME InputInv, Queue, UNCHANGED <<stream, read>>
    PROVE  InputInv'
<1>1. Sequence' /\ Counters' /\ EchoesWereRead'
  BY DEF InputInv, Sequence, Counters, EchoesWereRead, IsEcho, Queue, None
<1>2. ASSUME NEW i \in 1 .. Len(stream'), pending' = None \/ LastEchoAhead(i)'
      PROVE  FALSE
  BY <1>2 DEF InputInv, Sequence, Counters, EchoesWereRead, LastEchoAhead, IsEcho, Queue, None
<1> QED
  BY <1>1, <1>2 DEF InputInv, ResultsFollowInputs

\* The order of inputs is about the stream and the counters only.
LEMMA InputsUntouched ==
    ASSUME InputInv, UNCHANGED inputVars
    PROVE  InputInv'
BY DEF InputInv, inputVars, Sequence, Counters, EchoesWereRead, ResultsFollowInputs,
       IsEcho, IsResult, LastEchoAhead

-----------------------------------------------------------------------------
\* The SDK echoes an input as it reads it, and closes a turn with what it read.
LEMMA SdkKeepsInputs ==
    ASSUME InputInv, Sdk
    PROVE  InputInv'
<1>1. UNCHANGED <<sent, pending>>
  BY DEF Sdk, sessionVars
<1>2. CASE ReadInput
  <2>1. /\ Sequence'
        /\ Len(stream) \in Nat /\ Len(stream') = Len(stream) + 1
        /\ \A i \in 1 .. Len(stream) : stream'[i] = stream[i]
        /\ stream'[Len(stream) + 1] = [kind |-> "echo", input |-> read + 1]
    BY <1>2, AppendedMessage DEF InputInv, ReadInput, Emit
  <2>2. Counters'
    BY <1>1, <1>2 DEF InputInv, Counters, ReadInput
  <2>3. EchoesWereRead'
    BY <1>2, <2>1 DEF InputInv, Counters, EchoesWereRead, IsEcho, ReadInput
  <2>4. ASSUME NEW i \in 1 .. Len(stream'), IsResult(i)',
               pending = None \/ LastEchoAhead(i)'
        PROVE  stream'[i].inputs = sent
    <3>1. i \in 1 .. Len(stream) /\ IsResult(i)
      BY <2>1, <2>4 DEF IsResult
    <3>2. pending = None \/ LastEchoAhead(i)
      BY <1>1, <2>1, <2>4, <3>1 DEF LastEchoAhead, IsEcho
    <3> QED
      BY <2>1, <3>1, <3>2 DEF InputInv, ResultsFollowInputs
  <2> QED
    BY <1>1, <2>1, <2>2, <2>3, <2>4 DEF InputInv, ResultsFollowInputs
<1>3. ASSUME NEW lane \in Lanes, NEW n \in {0, 1}, StartResponse(lane, n)
      PROVE  InputInv'
  BY <1>1, <1>3, EmitOther DEF StartResponse, Emit
<1>4. ASSUME NEW lane \in Lanes, NEW streamed \in BOOLEAN, Generate(lane, streamed)
      PROVE  InputInv'
  <2>1. CASE UNCHANGED stream
    BY <1>1, <1>4, <2>1, InputsUntouched DEF Generate, inputVars
  <2>2. CASE Emit([kind |-> "delta", lane |-> lane,
                   tokens |-> responses[current[lane]].tokens + 1])
    BY <1>1, <1>4, <2>2, EmitOther DEF Generate, Emit
  <2> QED
    BY <1>4, <2>1, <2>2 DEF Generate
<1>5. ASSUME NEW lane \in Lanes, NEW text \in BOOLEAN, NEW n \in Absent .. MaxTokens,
             SendEnvelope(lane, text, n)
      PROVE  InputInv'
  BY <1>1, <1>5, EmitOther DEF SendEnvelope, Emit
<1>6. ASSUME NEW id \in Earlier, ReplayStart(id) \/ ReplayEnvelope(id)
      PROVE  InputInv'
  BY <1>1, <1>6, EmitOther DEF ReplayStart, ReplayEnvelope, Emit, sdkVars
<1>7. ASSUME NEW quoted \in BOOLEAN, NEW metered \in BOOLEAN, NEW failed \in BOOLEAN,
             EndTurn(quoted, metered, failed)
      PROVE  InputInv'
  <2> DEFINE m == Result(IF quoted THEN LastOwn(turn) ELSE None,
                         IF metered THEN TokensOf(turn) ELSE Absent, TRUE, failed)
  <2>1. m.kind = "result" /\ m.inputs = read
    BY DEF Result
  <2>2. stream' = Append(stream, m) /\ UNCHANGED read
    BY <1>7 DEF EndTurn, Emit
  <2> HIDE DEF m
  <2> QED
    BY <1>1, <2>1, <2>2, EmitResult
<1>8. ASSUME NEW text \in Earlier \cup {None}, NEW n \in Absent .. MaxTokens,
             NEW worked \in BOOLEAN, EndEmptyTurn(text, n, worked)
      PROVE  InputInv'
  <2> DEFINE m == Result(text, n, worked, FALSE)
  <2>1. m.kind = "result" /\ m.inputs = read
    BY DEF Result
  <2>2. stream' = Append(stream, m) /\ UNCHANGED read
    BY <1>8 DEF EndEmptyTurn, Emit
  <2> HIDE DEF m
  <2> QED
    BY <1>1, <2>1, <2>2, EmitResult
<1>9. CASE Break
  BY <1>1, <1>9, EmitOther DEF Break, Emit, sdkVars
<1> QED
  BY <1>2, <1>3, <1>4, <1>5, <1>6, <1>7, <1>8, <1>9 DEF Sdk

\* AgentSession takes from the head, and forgets only the echo it waits for.
LEMMA SessionKeepsInputs ==
    ASSUME InputInv, Session
    PROVE  InputInv'
<1>1. CASE ClearPendingMessage
  <2>1. CASE IsPendingEcho(Head(stream))
    BY <1>1, <2>1, TakePendingEcho
       DEF ClearPendingMessage, Take, IsPendingEcho, sdkVars
  <2>2. CASE ~IsPendingEcho(Head(stream))
    BY <1>1, <2>2, TakeOther DEF ClearPendingMessage, Take, sdkVars
  <2> QED
    BY <2>1, <2>2
<1>2. CASE TakeStart
  BY <1>2, TakeOther DEF TakeStart, Take, sdkVars
<1>3. CASE TakeDelta
  BY <1>3, TakeOther DEF TakeDelta, Take, sdkVars
<1>4. CASE TakeEnvelope
  BY <1>4, TakeOther DEF TakeEnvelope, Take, sdkVars
<1>5. CASE IgnoreStaleResult
  BY <1>5, TakeOther DEF IgnoreStaleResult, Take, sdkVars, sessionVars
<1>6. CASE RejectStaleResult
  BY <1>6, TakeOther DEF RejectStaleResult, Take, sdkVars, sessionVars
<1>7. CASE TakeResult
  BY <1>7, TakeOther DEF TakeResult, Take, sdkVars
<1>8. CASE TakeFailure
  BY <1>8, TakeOther DEF TakeFailure, Take, sdkVars, sessionVars
<1> QED
  BY <1>1, <1>2, <1>3, <1>4, <1>5, <1>6, <1>7, <1>8 DEF Session

\* The consumer queues inputs, or replaces the connection.
LEMMA ConsumerKeepsInputs ==
    ASSUME InputInv, Consumer
    PROVE  InputInv'
<1>1. CASE Connect
  <2>1. stream' = <<>> /\ Len(stream') = 0
    BY <1>1 DEF Connect
  <2>2. Sequence'
    BY <2>1 DEF Sequence
  <2> QED
    BY <1>1, <2>1, <2>2
       DEF Connect, InputInv, Counters, EchoesWereRead, ResultsFollowInputs, None
<1>2. CASE WarnFirst
  BY <1>2, QueueInput DEF WarnFirst, sdkVars
<1>3. CASE Run
  BY <1>3, QueueInput DEF Run, sdkVars
<1>4. CASE React
  <2>1. CASE NoticeDue
    BY <1>4, <2>1, QueueInput DEF React, sdkVars
  <2>2. CASE ~NoticeDue
    BY <1>4, <2>2, InputsUntouched DEF React, sdkVars, inputVars
  <2> QED
    BY <2>1, <2>2
<1>5. CASE Checkpoint
  BY <1>5, InputsUntouched DEF Checkpoint, sdkVars, sessionVars, inputVars
<1>6. CASE Restore
  BY <1>6, InputsUntouched DEF Restore, sessionVars, inputVars
<1> QED
  BY <1>1, <1>2, <1>3, <1>4, <1>5, <1>6 DEF Consumer

-----------------------------------------------------------------------------
\* Nothing but a result completes a phase.
LEMMA CompletedByResult ==
    ASSUME [Next]_vars, pc' = "completed"
    PROVE  TakeResult \/ UNCHANGED vars
<1>1. CASE Sdk
  BY <1>1 DEF Sdk, consumerVars
<1>2. CASE ClearPendingMessage
  BY <1>2 DEF ClearPendingMessage, Take, consumerVars
<1>3. ASSUME NEW l, NEW r, pc = "receive", Report(l, r)
      PROVE  pc' # "completed"
  BY <1>3 DEF Report
<1>4. CASE TakeStart
  BY <1>3, <1>4 DEF TakeStart, Take
<1>5. CASE TakeDelta
  BY <1>3, <1>5 DEF TakeDelta, Take
<1>6. CASE TakeEnvelope
  BY <1>3, <1>6 DEF TakeEnvelope, Take
<1>7. CASE IgnoreStaleResult
  BY <1>7 DEF IgnoreStaleResult, Take, consumerVars
<1>8. CASE RejectStaleResult \/ TakeFailure
  BY <1>8 DEF RejectStaleResult, TakeFailure
<1>9. CASE Connect \/ WarnFirst \/ Run \/ React \/ Checkpoint \/ Restore
  BY <1>9 DEF Connect, WarnFirst, Run, React, AfterResult, Checkpoint, Restore
<1> QED
  BY <1>1, <1>2, <1>4, <1>5, <1>6, <1>7, <1>8, <1>9 DEF Next, Session, Consumer

\* Only a result taken with nothing pending completes a run, and nothing is
\* queued afterwards.
LEMMA CompletionHasAllInputs ==
    ASSUME InputInv, AllInputsAnswered, [Next]_vars
    PROVE  AllInputsAnswered'
<1>1. SUFFICES ASSUME pc' = "completed"
               PROVE  answer'.inputs = sent'
  BY DEF AllInputsAnswered
<1>2. CASE TakeResult
  <2>1. pending = None
    BY <1>1, <1>2 DEF TakeResult, AfterResult
  <2>2. answer'.inputs = Head(stream).inputs /\ sent' = sent
    BY <1>1, <1>2 DEF TakeResult
  <2>3. stream # <<>> /\ stream' = Tail(stream) /\ Head(stream).kind = "result"
    BY <1>2 DEF TakeResult, Take
  <2>4. Head(stream) = stream[1] /\ 1 \in 1 .. Len(stream)
    BY <2>3, TakenMessage DEF InputInv
  <2> QED
    BY <2>1, <2>2, <2>3, <2>4 DEF InputInv, ResultsFollowInputs, IsResult
<1>3. CASE UNCHANGED vars
  BY <1>1, <1>3 DEF vars, consumerVars, historyVars, sessionVars, AllInputsAnswered
<1> QED
  BY <1>1, <1>2, <1>3, CompletedByResult

\* InputInv is inductive.
LEMMA NextKeepsInputs ==
    ASSUME InputInv, [Next]_vars
    PROVE  InputInv'
<1>1. CASE UNCHANGED vars
  BY <1>1, InputsUntouched DEF vars, sdkVars, sessionVars, inputVars
<1> QED
  BY <1>1, SdkKeepsInputs, SessionKeepsInputs, ConsumerKeepsInputs DEF Next

\* Before the first connection nothing is queued.
LEMMA InitialInputs ==
    ASSUME Init
    PROVE  InputInv
<1>1. stream = <<>> /\ Len(stream) = 0
  BY DEF Init
<1>2. Sequence
  BY <1>1 DEF Sequence
<1> QED
  BY <1>1, <1>2 DEF Init, InputInv, Counters, EchoesWereRead, ResultsFollowInputs, None

\* No phase is saved as completed while an input that was queued for it, be
\* it the instruction or the notice, is still unread.
THEOREM EveryInputIsAnswered == Spec => []AllInputsAnswered
<1>1. Init => InputInv /\ AllInputsAnswered
  BY InitialInputs DEF Init, AllInputsAnswered
<1>2. InputInv /\ AllInputsAnswered /\ [Next]_vars => (InputInv /\ AllInputsAnswered)'
  BY NextKeepsInputs, CompletionHasAllInputs
<1> QED
  BY <1>1, <1>2, PTL DEF Spec

-----------------------------------------------------------------------------

-----------------------------------------------------------------------------
(* Sums over finite sets: the fold of the community modules, by the minimal *)
(* subset for which a claim about it would fail.                           *)

\* Induction on the subsets of a finite set, for a set of good subsets G.
LEMMA SubsetsByInclusion ==
    ASSUME NEW S, IsFiniteSet(S), NEW G,
           \A T \in SUBSET S : (\A U \in SUBSET T : U # T => U \in G) => T \in G
    PROVE  \A T \in SUBSET S : T \in G
<1> DEFINE R == StrictSubsetOrdering(S)
           B == {T \in SUBSET S : T \notin G}
<1>1. IsWellFoundedOn(R, FiniteSubsetsOf(S))
  BY FS_StrictSubsetOrderingWellFounded
<1>2. B \subseteq FiniteSubsetsOf(S)
  BY FS_Subset DEF FiniteSubsetsOf
<1>3. SUFFICES ASSUME B # {} PROVE FALSE
  OBVIOUS
<1>4. PICK T \in B : \A U \in B : ~ (<<U, T>> \in R)
  <2> HIDE DEF R, B
  <2> QED
    BY <1>1, <1>2, <1>3, WFMin
<1>5. ASSUME NEW U \in SUBSET T, U # T PROVE U \in G
  <2>1. <<U, T>> \in R
    BY <1>5 DEF StrictSubsetOrdering
  <2> QED
    BY <1>4, <2>1
<1> QED
  BY <1>4, <1>5

Chosen(s) == CHOOSE x \in s : TRUE

IsFolding(f, S, iter) ==
    iter = [s \in SUBSET S |->
              IF s = {} THEN 0
              ELSE LET x == CHOOSE x \in s : TRUE IN f[x] + iter[s \ {x}]]
Folding(f, S) == CHOOSE iter : IsFolding(f, S, iter)

\* The community modules' sum is the value of a recursive function on subsets.
LEMMA SumIsFolding ==
    ASSUME NEW f, NEW S
    PROVE  SumFunctionOnSet(f, S) = Folding(f, S)[S]
BY DEF SumFunctionOnSet, FoldFunctionOnSet, MapThenFoldSet, Folding, IsFolding

\* One step of that function.
LEMMA FoldingStep ==
    ASSUME NEW f, NEW S, NEW g, IsFolding(f, S, g), NEW s \in SUBSET S
    PROVE  g[s] = IF s = {} THEN 0 ELSE f[Chosen(s)] + g[s \ {Chosen(s)}]
BY DEF IsFolding, Chosen

\* Two such functions agree where both are defined.
LEMMA FoldingsAgree ==
    ASSUME NEW f, NEW S, IsFiniteSet(S), NEW T, NEW g, NEW h,
           IsFolding(f, S, g), IsFolding(f, T, h)
    PROVE  \A s \in SUBSET S : s \subseteq T => g[s] = h[s]
<1> DEFINE G == {s \in SUBSET S : s \subseteq T => g[s] = h[s]}
<1>1. ASSUME NEW s \in SUBSET S, \A u \in SUBSET s : u # s => u \in G
      PROVE  s \in G
  <2>1. SUFFICES ASSUME s \subseteq T PROVE g[s] = h[s]
    OBVIOUS
  <2>2. /\ g[s] = IF s = {} THEN 0 ELSE f[Chosen(s)] + g[s \ {Chosen(s)}]
        /\ h[s] = IF s = {} THEN 0 ELSE f[Chosen(s)] + h[s \ {Chosen(s)}]
    BY <2>1, FoldingStep
  <2>3. s # {} => s \ {Chosen(s)} \in SUBSET s /\ s \ {Chosen(s)} # s
    BY DEF Chosen
  <2>4. s # {} => s \ {Chosen(s)} \in G
    BY <1>1, <2>3
  <2> QED
    BY <2>1, <2>2, <2>4
<1> HIDE DEF G
<1>2. \A s \in SUBSET S : s \in G
  BY <1>1, SubsetsByInclusion
<1> QED
  BY <1>2 DEF G

\* There is such a function.
LEMMA FoldingExists ==
    ASSUME NEW f, NEW S, IsFiniteSet(S)
    PROVE  IsFolding(f, S, Folding(f, S))
<1> DEFINE G == {T \in SUBSET S : IsFolding(f, T, Folding(f, T))}
           Sum(s) == Folding(f, s)[s]
           Value(s) == IF s = {} THEN 0 ELSE f[Chosen(s)] + Sum(s \ {Chosen(s)})
<1>1. ASSUME NEW T \in SUBSET S, \A U \in SUBSET T : U # T => U \in G
      PROVE  T \in G
  <2> DEFINE g == [s \in SUBSET T |-> Value(s)]
  <2>1. ASSUME NEW u \in SUBSET T, u # T PROVE Sum(u) = Value(u)
    <3>1. u \in G
      BY <1>1, <2>1
    <3>2. CASE u = {}
      BY <3>1, <3>2, FoldingStep
    <3>3. CASE u # {}
      <4> DEFINE v == u \ {Chosen(u)}
      <4>1. Chosen(u) \in u
        BY <3>3 DEF Chosen
      <4>2. v \in SUBSET T /\ v # T /\ v \in SUBSET u
        BY <4>1
      <4>3. v \in G
        BY <1>1, <4>2
      <4>4. Sum(u) = f[Chosen(u)] + Folding(f, u)[v]
        BY <3>1, <3>3, FoldingStep
      <4>5. IsFiniteSet(v) /\ IsFiniteSet(u)
        BY FS_Subset
      <4>6. Folding(f, u)[v] = Folding(f, v)[v]
        BY SMTT(30), <3>1, <4>2, <4>3, <4>5, FoldingsAgree
      <4> QED
        BY <3>3, <4>4, <4>6
    <3> QED
      BY <3>2, <3>3
  <2>2. ASSUME NEW s \in SUBSET T, s # {} PROVE g[s \ {Chosen(s)}] = Sum(s \ {Chosen(s)})
    <3>1. Chosen(s) \in s
      BY <2>2 DEF Chosen
    <3> QED
      BY <2>1, <3>1
  <2>3. \A s \in SUBSET T : g[s] = IF s = {} THEN 0 ELSE f[Chosen(s)] + g[s \ {Chosen(s)}]
    <3> TAKE s \in SUBSET T
    <3>1. g[s] = Value(s)
      OBVIOUS
    <3> HIDE DEF g, Sum
    <3> QED
      BY <2>2, <3>1
  <2>4. g = [s \in SUBSET T |-> IF s = {} THEN 0 ELSE f[Chosen(s)] + g[s \ {Chosen(s)}]]
    <3>1. g = [s \in SUBSET T |-> g[s]]
      OBVIOUS
    <3> HIDE DEF g
    <3> QED
      BY <2>3, <3>1
  <2>5. IsFolding(f, T, g)
    <3> HIDE DEF g
    <3> QED
      BY <2>4 DEF IsFolding, Chosen
  <2>6. IsFolding(f, T, Folding(f, T))
    <3> HIDE DEF g
    <3> QED
      BY <2>5 DEF Folding
  <2> QED
    BY <2>6
<1> HIDE DEF G
<1>2. \A T \in SUBSET S : T \in G
  BY <1>1, SubsetsByInclusion
<1> QED
  BY <1>2 DEF G

\* A sum of nothing is 0.
LEMMA SumEmpty == ASSUME NEW f PROVE SumFunctionOnSet(f, {}) = 0
BY FS_EmptySet, FoldingExists, FoldingStep, SumIsFolding

\* A sum is its chosen term and the sum of the rest.
LEMMA SumStep ==
    ASSUME NEW f, NEW S, IsFiniteSet(S), S # {}
    PROVE  /\ Chosen(S) \in S
           /\ SumFunctionOnSet(f, S)
                = f[Chosen(S)] + SumFunctionOnSet(f, S \ {Chosen(S)})
<1> DEFINE T == S \ {Chosen(S)}
<1>1. Chosen(S) \in S
  BY DEF Chosen
<1>2. IsFiniteSet(T) /\ T \in SUBSET S
  BY FS_Subset
<1>3. IsFolding(f, S, Folding(f, S)) /\ IsFolding(f, T, Folding(f, T))
  BY <1>2, FoldingExists
<1>4. Folding(f, S)[S] = f[Chosen(S)] + Folding(f, S)[T]
  BY <1>3, FoldingStep
<1>5. Folding(f, S)[T] = Folding(f, T)[T]
  <2> HIDE DEF T
  <2> QED
    BY <1>2, <1>3, FoldingsAgree
<1> QED
  BY <1>1, <1>4, <1>5, SumIsFolding

\* A sum of naturals is one.
LEMMA SumNat ==
    ASSUME NEW f, NEW S, IsFiniteSet(S), \A x \in S : f[x] \in Nat
    PROVE  SumFunctionOnSet(f, S) \in Nat
<1> DEFINE G == {s \in SUBSET S : SumFunctionOnSet(f, s) \in Nat}
<1>1. ASSUME NEW s \in SUBSET S, \A u \in SUBSET s : u # s => u \in G
      PROVE  s \in G
  <2>1. CASE s = {}
    BY <2>1, SumEmpty
  <2>2. CASE s # {}
    <3>1. IsFiniteSet(s)
      BY FS_Subset
    <3>2. /\ Chosen(s) \in s
          /\ SumFunctionOnSet(f, s) = f[Chosen(s)] + SumFunctionOnSet(f, s \ {Chosen(s)})
      BY <2>2, <3>1, SumStep
    <3>3. SumFunctionOnSet(f, s \ {Chosen(s)}) \in Nat
      BY <1>1, <3>2
    <3> QED
      BY <3>2, <3>3
  <2> QED
    BY <2>1, <2>2
<1> HIDE DEF G
<1>2. \A s \in SUBSET S : s \in G
  BY <1>1, SubsetsByInclusion
<1> QED
  BY <1>2 DEF G

\* The order in which the members are taken does not matter.
LEMMA SumRemove ==
    ASSUME NEW f, NEW S, IsFiniteSet(S), \A x \in S : f[x] \in Nat, NEW x \in S
    PROVE  SumFunctionOnSet(f, S) = f[x] + SumFunctionOnSet(f, S \ {x})
<1> DEFINE G == {s \in SUBSET S : \A y \in s :
                   SumFunctionOnSet(f, s) = f[y] + SumFunctionOnSet(f, s \ {y})}
<1>1. ASSUME NEW s \in SUBSET S, \A u \in SUBSET s : u # s => u \in G
      PROVE  s \in G
  <2> SUFFICES ASSUME NEW y \in s
               PROVE  SumFunctionOnSet(f, s) = f[y] + SumFunctionOnSet(f, s \ {y})
    OBVIOUS
  <2> DEFINE c == Chosen(s)
             r == s \ {c, y}
  <2>1. IsFiniteSet(s) /\ IsFiniteSet(r) /\ IsFiniteSet(s \ {c}) /\ IsFiniteSet(s \ {y})
    BY FS_Subset
  <2>2. c \in s /\ SumFunctionOnSet(f, s) = f[c] + SumFunctionOnSet(f, s \ {c})
    BY <2>1, SumStep
  <2> HIDE DEF c
  <2>3. CASE c = y
    BY <2>2, <2>3
  <2>4. CASE c # y
    <3>1. s \ {c} \in G /\ s \ {y} \in G
      BY <1>1, <2>2
    <3>2. /\ SumFunctionOnSet(f, s \ {c}) = f[y] + SumFunctionOnSet(f, (s \ {c}) \ {y})
          /\ SumFunctionOnSet(f, s \ {y}) = f[c] + SumFunctionOnSet(f, (s \ {y}) \ {c})
      BY <2>2, <2>4, <3>1
    <3>3. (s \ {c}) \ {y} = r /\ (s \ {y}) \ {c} = r
      OBVIOUS
    <3>4. SumFunctionOnSet(f, r) \in Nat /\ f[c] \in Nat /\ f[y] \in Nat
      BY <2>1, <2>2, SumNat
    <3> HIDE DEF r
    <3> QED
      BY <2>2, <3>2, <3>3, <3>4
  <2> QED
    BY <2>3, <2>4
<1> HIDE DEF G
<1>2. \A s \in SUBSET S : s \in G
  BY <1>1, SubsetsByInclusion
<1> QED
  BY <1>2 DEF G

\* Smaller terms, a smaller sum.
LEMMA SumBounded ==
    ASSUME NEW f, NEW g, NEW S, IsFiniteSet(S),
           \A x \in S : f[x] \in Nat /\ g[x] \in Nat /\ f[x] <= g[x]
    PROVE  SumFunctionOnSet(f, S) <= SumFunctionOnSet(g, S)
<1> DEFINE G == {s \in SUBSET S : SumFunctionOnSet(f, s) <= SumFunctionOnSet(g, s)}
<1>1. ASSUME NEW s \in SUBSET S, \A u \in SUBSET s : u # s => u \in G
      PROVE  s \in G
  <2>1. CASE s = {}
    BY <2>1, SumEmpty
  <2>2. CASE s # {}
    <3> DEFINE c == Chosen(s)
               r == s \ {c}
    <3>1. IsFiniteSet(s) /\ IsFiniteSet(r)
      BY FS_Subset
    <3>2. /\ c \in s
          /\ SumFunctionOnSet(f, s) = f[c] + SumFunctionOnSet(f, r)
          /\ SumFunctionOnSet(g, s) = g[c] + SumFunctionOnSet(g, r)
      BY <2>2, <3>1, SumStep
    <3>3. SumFunctionOnSet(f, r) <= SumFunctionOnSet(g, r)
      BY <1>1, <3>2
    <3>4. SumFunctionOnSet(f, r) \in Nat /\ SumFunctionOnSet(g, r) \in Nat
      BY <3>1, SumNat
    <3>5. f[c] \in Nat /\ g[c] \in Nat /\ f[c] <= g[c]
      BY <3>2
    <3> HIDE DEF c, r
    <3> QED
      BY <3>2, <3>3, <3>4, <3>5
  <2> QED
    BY <2>1, <2>2
<1> HIDE DEF G
<1>2. \A s \in SUBSET S : s \in G
  BY <1>1, SubsetsByInclusion
<1> QED
  BY <1>2 DEF G

\* Equal terms, an equal sum.
LEMMA SumAgree ==
    ASSUME NEW f, NEW g, NEW S, IsFiniteSet(S), \A x \in S : f[x] \in Nat /\ f[x] = g[x]
    PROVE  SumFunctionOnSet(f, S) = SumFunctionOnSet(g, S)
<1>1. SumFunctionOnSet(f, S) \in Nat /\ SumFunctionOnSet(g, S) \in Nat
  BY SumNat
<1>2. SumFunctionOnSet(f, S) <= SumFunctionOnSet(g, S)
  BY SumBounded
<1>3. SumFunctionOnSet(g, S) <= SumFunctionOnSet(f, S)
  BY SumBounded
<1> QED
  BY <1>1, <1>2, <1>3

\* The sum over a disjoint union.
LEMMA SumJoin ==
    ASSUME NEW f, NEW A, NEW B, IsFiniteSet(A), IsFiniteSet(B), A \cap B = {},
           \A x \in A \cup B : f[x] \in Nat
    PROVE  SumFunctionOnSet(f, A \cup B) = SumFunctionOnSet(f, A) + SumFunctionOnSet(f, B)
<1> DEFINE G == {s \in SUBSET A : SumFunctionOnSet(f, s \cup B)
                                    = SumFunctionOnSet(f, s) + SumFunctionOnSet(f, B)}
<1>1. ASSUME NEW s \in SUBSET A, \A u \in SUBSET s : u # s => u \in G
      PROVE  s \in G
  <2>1. SumFunctionOnSet(f, B) \in Nat
    BY SumNat
  <2>2. CASE s = {}
    <3>1. s \cup B = B
      BY <2>2
    <3> QED
      BY <2>1, <2>2, <3>1, SumEmpty
  <2>3. CASE s # {}
    <3>1. PICK c \in s : TRUE
      BY <2>3
    <3> DEFINE r == s \ {c}
               t == s \cup B
    <3>2. IsFiniteSet(s) /\ IsFiniteSet(r) /\ IsFiniteSet(t)
      BY FS_Subset, FS_Union
    <3>3. SumFunctionOnSet(f, s) = f[c] + SumFunctionOnSet(f, r)
      BY <3>2, SumRemove
    <3>4. t \ {c} = r \cup B
      OBVIOUS
    <3>5. c \in t /\ \A x \in t : f[x] \in Nat
      OBVIOUS
    <3>6. SumFunctionOnSet(f, t) = f[c] + SumFunctionOnSet(f, t \ {c})
      <4> HIDE DEF t
      <4> QED
        BY <3>2, <3>5, SumRemove
    <3>7. SumFunctionOnSet(f, r \cup B) = SumFunctionOnSet(f, r) + SumFunctionOnSet(f, B)
      BY <1>1
    <3>8. SumFunctionOnSet(f, r) \in Nat /\ f[c] \in Nat
      BY <3>2, SumNat
    <3>9. SumFunctionOnSet(f, t) = SumFunctionOnSet(f, s) + SumFunctionOnSet(f, B)
      <4>1. SumFunctionOnSet(f, t)
              = f[c] + (SumFunctionOnSet(f, r) + SumFunctionOnSet(f, B))
        BY <3>4, <3>6, <3>7
      <4> HIDE DEF r, t
      <4> QED
        BY <2>1, <3>3, <3>8, <4>1
    <3> QED
      BY <3>9
  <2> QED
    BY <2>2, <2>3
<1> HIDE DEF G
<1>2. \A s \in SUBSET A : s \in G
  BY <1>1, SubsetsByInclusion
<1> QED
  BY <1>2 DEF G

\* More terms, a larger sum.
LEMMA SumGrows ==
    ASSUME NEW f, NEW A, NEW B, IsFiniteSet(B), A \subseteq B, \A x \in B : f[x] \in Nat
    PROVE  SumFunctionOnSet(f, A) <= SumFunctionOnSet(f, B)
<1>1. IsFiniteSet(A) /\ IsFiniteSet(B \ A) /\ A \cup (B \ A) = B
  BY FS_Subset
<1>2. SumFunctionOnSet(f, A \cup (B \ A))
        = SumFunctionOnSet(f, A) + SumFunctionOnSet(f, B \ A)
  BY <1>1, SumJoin
<1>3. SumFunctionOnSet(f, A) \in Nat /\ SumFunctionOnSet(f, B \ A) \in Nat
  BY <1>1, SumNat
<1>4. SumFunctionOnSet(f, B) = SumFunctionOnSet(f, A) + SumFunctionOnSet(f, B \ A)
  BY <1>1, <1>2
<1> QED
  BY <1>3, <1>4

\* A sum is zero exactly when every term is.
LEMMA SumOfNothing ==
    ASSUME NEW f, NEW S, IsFiniteSet(S), \A x \in S : f[x] \in Nat
    PROVE  SumFunctionOnSet(f, S) = 0 <=> \A x \in S : f[x] = 0
<1>1. ASSUME NEW x \in S, SumFunctionOnSet(f, S) = 0 PROVE f[x] = 0
  <2>1. SumFunctionOnSet(f, S) = f[x] + SumFunctionOnSet(f, S \ {x})
    BY SumRemove
  <2>2. IsFiniteSet(S \ {x})
    BY FS_Subset
  <2>3. SumFunctionOnSet(f, S \ {x}) \in Nat
    BY <2>2, SumNat
  <2> QED
    BY <1>1, <2>1, <2>3
<1>2. ASSUME \A x \in S : f[x] = 0 PROVE SumFunctionOnSet(f, S) = 0
  <2> DEFINE z == [x \in S |-> 0]
             G == {s \in SUBSET S : SumFunctionOnSet(f, s) = 0}
  <2>1. ASSUME NEW s \in SUBSET S, \A u \in SUBSET s : u # s => u \in G
        PROVE  s \in G
    <3>1. CASE s = {}
      BY <3>1, SumEmpty
    <3>2. CASE s # {}
      <4>1. IsFiniteSet(s)
        BY FS_Subset
      <4>2. /\ Chosen(s) \in s
            /\ SumFunctionOnSet(f, s) = f[Chosen(s)] + SumFunctionOnSet(f, s \ {Chosen(s)})
        BY <3>2, <4>1, SumStep
      <4>3. SumFunctionOnSet(f, s \ {Chosen(s)}) = 0 /\ f[Chosen(s)] = 0
        BY <1>2, <2>1, <4>2
      <4> QED
        BY <4>2, <4>3
    <3> QED
      BY <3>1, <3>2
  <2> HIDE DEF G
  <2>2. \A s \in SUBSET S : s \in G
    BY <2>1, SubsetsByInclusion
  <2> QED
    BY <2>2 DEF G
<1> QED
  BY <1>1, <1>2

\* A set of numbers with a member has a least one: its initial segments are
\* finite, and strict inclusion is well-founded on finite sets.
LEMMA LeastNatural ==
  ASSUME NEW S \in SUBSET Nat, NEW n \in S
  PROVE  \E x \in S : \A y \in S : x <= y
<1> DEFINE R == StrictSubsetOrdering(Nat)
           T == {0 .. x : x \in S}
<1>1. IsWellFoundedOn(R, FiniteSubsetsOf(Nat))
  BY FS_StrictSubsetOrderingWellFounded
<1>2. T \subseteq FiniteSubsetsOf(Nat) /\ T # {}
  <2>1. ASSUME NEW x \in S PROVE 0 .. x \in FiniteSubsetsOf(Nat)
    <3>1. IsFiniteSet(0 .. x) /\ 0 .. x \subseteq Nat
      BY FS_Interval
    <3>2. QED
      BY <3>1 DEF FiniteSubsetsOf
  <2>2. QED
    BY <2>1
<1>3. PICK t \in T : \A u \in T : ~ (<<u, t>> \in R)
  <2> HIDE DEF R, T
  <2>1. QED
    BY <1>1, <1>2, WFMin
<1>4. PICK x \in S : t = 0 .. x
  OBVIOUS
<1>5. ASSUME NEW y \in S PROVE x <= y
  <2>1. SUFFICES ASSUME y < x PROVE FALSE
    OBVIOUS
  <2>2. 0 .. y \in T /\ 0 .. y \subseteq 0 .. x /\ x \notin 0 .. y /\ x \in 0 .. x
    BY <2>1
  <2>3. <<0 .. y, t>> \in R
    BY <1>4, <2>2 DEF StrictSubsetOrdering
  <2>4. QED
    BY <1>3, <2>2, <2>3
<1>6. QED
  BY <1>5
-----------------------------------------------------------------------------
(* What a phase is charged.                                                *)

Running == pc \in {"begin", "receive", "react"}

\* The responses of the phase, as far as they were not rolled back.
New == (saved.responses + 1 .. Len(responses)) \ lost

\* The responses AgentSession has heard of.
Known == DOMAIN ledger.tokens \cup ledger.sealed

IsOwn(id) == responses[id].lane = Main

Positions == 1 .. Len(stream)
IsStart(i) == stream[i].kind = "start"
IsDelta(i) == stream[i].kind = "delta"
IsEnvelope(i) == stream[i].kind = "envelope"
Names(i) == IsStart(i) \/ IsEnvelope(i)

NoResult(i, j) == \A k \in i .. j : ~IsResult(k)

\* What is said at position i of the stream is said in the turn of id.
Belongs(id, i) ==
    /\ \A j \in i .. Len(stream) :
          IsResult(j) /\ NoResult(i, j - 1) => id \in stream[j].turn
    /\ NoResult(i, Len(stream)) => busy /\ id \in turn

\* The counts of the lane at position i of the stream are those of id.
StartsLane(l, i) == IsStart(i) /\ stream[i].lane = l
Owns(l, id, i) ==
    \/ /\ streamIds[l] = id
       /\ \A k \in 1 .. i - 1 : ~StartsLane(l, k)
    \/ \E j \in 1 .. i - 1 :
          /\ StartsLane(l, j) /\ stream[j].id = id
          /\ \A k \in j + 1 .. i - 1 : ~StartsLane(l, k)

Typed ==
    /\ responses \in Seq([tokens : Nat, texts : Nat, lane : Lanes])
    /\ saved = [sealed |-> saved.sealed, spent |-> saved.spent,
                warned |-> saved.warned, responses |-> saved.responses]
    /\ saved.responses \in 0 .. Len(responses)
    /\ saved.spent \in Nat /\ spent \in Nat /\ start \in Nat
    /\ saved.sealed \subseteq Ids
    /\ lost \subseteq Ids
    /\ ledger = [tokens |-> ledger.tokens, completed |-> ledger.completed,
                 sealed |-> ledger.sealed]
    /\ ledger.completed \in Nat
    /\ ledger.sealed \subseteq Ids
    /\ DOMAIN ledger.tokens \subseteq Ids
    /\ ledger.tokens \in [DOMAIN ledger.tokens -> Nat]
    /\ streamIds \in [Lanes -> Ids \cup {None}]

\* The turn in progress, and the response each lane is at.
Speaking ==
    /\ turn \subseteq New
    /\ busy \in BOOLEAN
    /\ current = [l \in Lanes |-> current[l]]
    /\ \A l \in Lanes :
          current[l] # None =>
             /\ busy
             /\ current[l] \in turn
             /\ responses[current[l]].lane = l
             /\ Owns(l, current[l], Len(stream) + 1)
             /\ \A id \in New : responses[id].lane = l => id <= current[l]

\* What a message says is true of the response it is about.
Named(i) ==
    /\ stream[i].lane \in Lanes
    /\ stream[i].id \in New \cup Earlier
    /\ stream[i].tokens \in Nat \cup {Absent}
    /\ IsStart(i) => stream[i].tokens # Absent
    /\ stream[i].id \in New =>
          /\ stream[i].tokens <= responses[stream[i].id].tokens
          /\ stream[i].lane = responses[stream[i].id].lane
          /\ Belongs(stream[i].id, i)

Counted(i) ==
    /\ stream[i].lane \in Lanes
    /\ stream[i].tokens \in Nat
    /\ \E id \in New :
          /\ Owns(stream[i].lane, id, i)
          /\ stream[i].tokens <= responses[id].tokens
          /\ Belongs(id, i)

Resulted(i) ==
    /\ stream[i].turn \subseteq New
    /\ stream[i].tokens \in Nat \cup {Absent}
    /\ stream[i].failed => stream[i].turn # {}
    /\ stream[i].turn # {} =>
          /\ stream[i].tokens \in {Absent, TokensOf(stream[i].turn)}
          /\ stream[i].text \in {None, LastOwn(stream[i].turn)}
    /\ stream[i].turn \cap ledger.sealed = {}
    /\ busy => stream[i].turn \cap turn = {}
    /\ \A j \in Positions : IsResult(j) /\ i # j => stream[i].turn \cap stream[j].turn = {}

Spoken ==
    \A i \in Positions :
        /\ Names(i) => Named(i)
        /\ IsDelta(i) => Counted(i)
        /\ IsResult(i) => Resulted(i)

\* A response is known before anything else is said of it, and in order.
StartedBefore(id, i) == id \in Known \/ \E j \in 1 .. i - 1 : IsStart(j) /\ stream[j].id = id

OrderedAt(i) ==
    /\ IsResult(i) => \A id \in stream[i].turn : StartedBefore(id, i)
    /\ IsEnvelope(i) /\ stream[i].id \in New => StartedBefore(stream[i].id, i)
    /\ Names(i) /\ stream[i].id \in New /\ IsOwn(stream[i].id) =>
          /\ \A id \in Known \cap New :
                IsOwn(id) => id < stream[i].id \/ (id = stream[i].id /\ ~IsStart(i))
          /\ \A j \in 1 .. i - 1 :
                Names(j) /\ stream[j].id \in New /\ IsOwn(stream[j].id) =>
                   stream[j].id < stream[i].id \/ (stream[j].id = stream[i].id /\ ~IsStart(i))

InOrder ==
    /\ \A id \in New : StartedBefore(id, Len(stream) + 1)
    /\ \A i \in Positions : OrderedAt(i)
    /\ \A l \in Lanes : streamIds[l] \in New => streamIds[l] \in Known

\* Nothing follows the result of the last input.
LastResult ==
    \A i \in Positions :
        IsResult(i) => /\ stream[i].inputs \in Nat /\ stream[i].inputs <= read
                       /\ stream[i].inputs = sent =>
                             /\ ~busy
                             /\ \A j \in i + 1 .. Len(stream) : stream[j].kind = "failure"

\* What is said of id later is not said in another turn than the first.
NotLater(id) ==
    /\ \A j \in Positions : IsResult(j) /\ id \in stream[j].turn => NoResult(1, j - 1)
    /\ busy /\ id \in turn => NoResult(1, Len(stream))

HasTokens == \E id \in DOMAIN ledger.tokens : ledger.tokens[id] > 0

\* The ledger of the turn.
Metered ==
    /\ saved.sealed \subseteq ledger.sealed
    /\ DOMAIN ledger.tokens \subseteq New \ ledger.sealed
    /\ busy => turn \cap ledger.sealed = {}
    /\ \A id \in DOMAIN ledger.tokens :
          /\ NotLater(id)
          /\ ledger.tokens[id] <= responses[id].tokens
          /\ ~dropped /\ ledger.tokens[id] > 0 => Belongs(id, 1)
    /\ pc = "receive" /\ interrupted => HasTokens
    /\ pc = "react" /\ rest = "none" => HasTokens
    /\ pc = "react" /\ rest # "none" => DOMAIN ledger.tokens = {}
    /\ pc = "begin" => DOMAIN ledger.tokens = {} /\ ~interrupted

TextOf(id, i) == IsEnvelope(i) /\ stream[i].id = id /\ stream[i].text
Retained(id) == latest.id = id /\ latest.text

\* The text of the response is obsolete.
Outdated(id) ==
    id \in ledger.sealed \/ \E y \in Known \cap New : IsOwn(y) /\ id < y

Texts ==
    /\ latest.id # None =>
          /\ latest.id \in Known \cap New /\ IsOwn(latest.id)
          /\ \A id \in Known \cap New : IsOwn(id) => id <= latest.id
    /\ \A id \in New :
          IsOwn(id) =>
             /\ responses[id].texts <= 2
             /\ responses[id].texts = 0 =>
                   /\ ~Retained(id)
                   /\ \A i \in Positions : ~TextOf(id, i)
             /\ responses[id].texts = 1 =>
                   \/ Outdated(id)
                   \/ Retained(id)
                   \/ \E i \in Positions : TextOf(id, i)
             /\ responses[id].texts = 2 =>
                   \/ Outdated(id)
                   \/ Retained(id) /\ split
                   \/ Retained(id) /\ \E i \in Positions : TextOf(id, i)
                   \/ \E i, j \in Positions : i # j /\ TextOf(id, i) /\ TextOf(id, j)

RunInv == Speaking /\ Spoken /\ InOrder /\ LastResult /\ Metered /\ Texts

\* What has been charged so far, and what the turns taken so far cost.
Books ==
    /\ pc # "react" => rest = "none"
    /\ rest \in {"none", "failed", "pending"}
    /\ pc # "stopped" => Earlier \subseteq saved.sealed /\ saved.spent < Limit
    /\ pc = "connect" => New = {}
    /\ pc \notin {"receive", "react", "failed", "completed", "interrupted"} =>
          spent = saved.spent
    /\ pc = "begin" => Output(ledger) = 0
    /\ pc \in {"receive", "react", "failed", "completed", "interrupted"} =>
          /\ start = saved.spent
          /\ spent = start + Output(ledger)
    /\ pc \in {"begin", "receive", "react", "failed", "completed", "interrupted"} /\ ~dropped =>
          /\ Output(ledger) <= TokensOf(New)
    /\ Running /\ ~dropped => ledger.completed <= TokensOf(New \cap ledger.sealed)
    /\ Running \/ pc \in {"completed", "interrupted"} =>
          (exact /\ ~dropped => ledger.completed = billed)
    /\ pc \in {"completed", "interrupted"} => DOMAIN ledger.tokens = {}
    /\ pc = "interrupted" \/ (interrupted /\ Running) => spent >= Limit
    /\ pc = "completed" => New \cup saved.sealed \subseteq ledger.sealed
    /\ pc = "stopped" => New = {}

ChargeInv == Typed /\ (Running => RunInv) /\ Books

-----------------------------------------------------------------------------
(* Steps of the SDK: at most one message more, at most one response grows  *)
(* or begins, and a turn ends with its result.                             *)

Extended ==
    /\ Sequence'
    /\ Len(stream) \in Nat /\ Len(stream') \in {Len(stream), Len(stream) + 1}
    /\ \A i \in 1 .. Len(stream) : stream'[i] = stream[i]

Grown ==
    /\ responses' \in Seq([tokens : Nat, texts : Nat, lane : Lanes])
    /\ Len(responses) \in Nat /\ Len(responses') \in Nat
    /\ Len(responses) <= Len(responses')
    /\ \A id \in Ids :
          /\ responses'[id].lane = responses[id].lane
          /\ responses'[id].tokens >= responses[id].tokens
          /\ responses'[id].tokens = responses[id].tokens \/ (busy /\ id \in turn)

Turned ==
    /\ busy' \in BOOLEAN
    /\ turn' \subseteq turn \cup (Ids' \ Ids)
    /\ busy /\ busy' => turn \subseteq turn'
    /\ ~busy /\ busy' => turn' = {}
    /\ busy /\ ~busy' => Len(stream') = Len(stream) + 1 /\ IsResult(Len(stream))'
    /\ Len(stream') = Len(stream) + 1 /\ IsResult(Len(stream))' =>
          busy /\ ~busy' /\ stream'[Len(stream')].turn = turn /\ turn' = turn

Speaks ==
    /\ Extended /\ Grown /\ Turned
    /\ UNCHANGED <<lost, sent, pending, interrupted, latest, split, streamIds, ledger>>
    /\ UNCHANGED <<pc, rest, spent, start, warned, phases, retries, saved>>
    /\ UNCHANGED <<billed, exact, dropped, answer>>

\* A message is written at the end.
LEMMA Appended ==
    ASSUME NEW m, Sequence, stream' = Append(stream, m)
    PROVE  /\ Extended /\ Len(stream') = Len(stream) + 1
           /\ stream'[Len(stream) + 1] = m /\ stream'[Len(stream')] = m
BY AppendedMessage DEF Extended

\* The fields of a response.
LEMMA TypedResponse ==
    ASSUME Typed
    PROVE  /\ Len(responses) \in Nat
           /\ \A id \in Ids : /\ responses[id] \in [tokens : Nat, texts : Nat, lane : Lanes]
                             /\ responses[id].tokens \in Nat /\ responses[id].texts \in Nat
                             /\ responses[id].lane \in Lanes
                             /\ id \in Nat \ {0}
<1> DEFINE R == [tokens : Nat, texts : Nat, lane : Lanes]
<1>1. responses \in Seq(R)
  BY DEF Typed
<1>2. /\ Len(responses) \in Nat
      /\ \A id \in 1 .. Len(responses) : responses[id] \in R
  <2> HIDE DEF R
  <2> QED
    BY <1>1
<1> QED
  BY <1>2 DEF Ids

\* The responses as a function of their identifiers.
LEMMA ResponsesByIds ==
    ASSUME Typed
    PROVE  responses = [i \in Ids |-> responses[i]]
<1> DEFINE R == [tokens : Nat, texts : Nat, lane : Lanes]
<1>1. responses \in Seq(R)
  BY DEF Typed
<1> HIDE DEF R
<1> QED
  BY <1>1 DEF Ids

\* Responses that stay have grown by nothing.
LEMMA SameResponses ==
    ASSUME Typed, responses' = responses
    PROVE  Grown
BY TypedResponse DEF Typed, Grown

\* The response at position id, one field changed.
LEMMA ChangedResponse ==
    ASSUME Typed, NEW id \in Ids, NEW r \in [tokens : Nat, texts : Nat, lane : Lanes],
           responses' = [responses EXCEPT ![id] = r],
           r.lane = responses[id].lane, r.tokens >= responses[id].tokens,
           r.tokens = responses[id].tokens \/ (busy /\ id \in turn)
    PROVE  /\ Grown /\ Len(responses') = Len(responses) /\ Ids' = Ids
           /\ responses'[id] = r
           /\ \A x \in Ids : x # id => responses'[x] = responses[x]
<1>1. responses \in Seq([tokens : Nat, texts : Nat, lane : Lanes])
  BY DEF Typed
<1>2. Len(responses') = Len(responses) /\ Len(responses) \in Nat
  BY <1>1
<1>3. responses' \in Seq([tokens : Nat, texts : Nat, lane : Lanes])
  BY <1>1 DEF Ids
<1>4. \A x \in Ids : responses'[x] = IF x = id THEN r ELSE responses[x]
  BY <1>1 DEF Ids
<1>5. \A x \in Ids : responses[x].tokens \in Nat
  BY TypedResponse
<1> QED
  BY <1>2, <1>3, <1>4, <1>5 DEF Grown, Ids

\* A new response takes the next identifier.
LEMMA AddedResponse ==
    ASSUME Typed, NEW r \in [tokens : Nat, texts : Nat, lane : Lanes],
           responses' = Append(responses, r)
    PROVE  /\ Grown /\ Len(responses') = Len(responses) + 1
           /\ Ids' = Ids \cup {Len(responses) + 1} /\ Len(responses) + 1 \notin Ids
           /\ responses'[Len(responses) + 1] = r
           /\ \A x \in Ids : responses'[x] = responses[x]
<1>1. responses \in Seq([tokens : Nat, texts : Nat, lane : Lanes])
  BY DEF Typed
<1>2. /\ Len(responses) \in Nat /\ Len(responses') = Len(responses) + 1
      /\ responses' \in Seq([tokens : Nat, texts : Nat, lane : Lanes])
      /\ \A x \in 1 .. Len(responses) : responses'[x] = responses[x]
      /\ responses'[Len(responses) + 1] = r
  BY <1>1
<1>3. \A x \in Ids : responses[x].tokens \in Nat
  BY TypedResponse
<1> QED
  BY <1>2, <1>3 DEF Grown, Ids

\* A lane's response belongs to the turn in progress.
LEMMA CurrentIsOpen ==
    ASSUME Typed, Speaking, NEW lane \in Lanes, current[lane] # None
    PROVE  /\ busy /\ current[lane] \in turn /\ current[lane] \in New
           /\ current[lane] \in Ids /\ responses[current[lane]].lane = lane
BY DEF Typed, Speaking, New, Ids

\* Every step of the SDK is one of these.
LEMMA SdkSpeaks ==
    ASSUME Typed, Sequence, Speaking, Sdk
    PROVE  Speaks
<1>1. UNCHANGED <<sent, pending, interrupted, latest, split, streamIds, ledger>>
  BY DEF Sdk, sessionVars
<1>2. UNCHANGED <<pc, rest, spent, start, warned, phases, retries, saved>>
  BY DEF Sdk, consumerVars
<1>3. UNCHANGED <<billed, exact, dropped, answer>>
  BY DEF Sdk, historyVars
<1> SUFFICES Extended /\ Grown /\ Turned /\ UNCHANGED lost
  BY <1>1, <1>2, <1>3 DEF Speaks
<1>4. CASE ReadInput
  <2>1. Extended /\ Len(stream') = Len(stream) + 1 /\ ~IsResult(Len(stream))'
    BY <1>4, Appended DEF ReadInput, Emit, IsResult
  <2> QED
    BY <1>4, <2>1, SameResponses DEF ReadInput, Turned
<1>5. ASSUME NEW lane \in Lanes, NEW n \in {0, 1}, StartResponse(lane, n)
      PROVE  Extended /\ Grown /\ Turned /\ UNCHANGED lost
  <2> DEFINE r == [tokens |-> n, texts |-> 0, lane |-> lane]
  <2>1. r \in [tokens : Nat, texts : Nat, lane : Lanes] /\ responses' = Append(responses, r)
    BY <1>5 DEF StartResponse
  <2>2. Grown /\ Ids' = Ids \cup {Len(responses) + 1} /\ Len(responses) + 1 \notin Ids
    BY <2>1, AddedResponse
  <2>3. Extended /\ Len(stream') = Len(stream) + 1 /\ ~IsResult(Len(stream))'
    BY <1>5, Appended DEF StartResponse, Emit, IsResult
  <2> QED
    BY <1>5, <2>2, <2>3 DEF StartResponse, Turned
<1>6. ASSUME NEW lane \in Lanes, NEW streamed \in BOOLEAN, Generate(lane, streamed)
      PROVE  Extended /\ Grown /\ Turned /\ UNCHANGED lost
  <2> DEFINE id == current[lane]
             r == [responses[id] EXCEPT !.tokens = @ + 1]
  <2>1. id \in Ids /\ busy /\ id \in turn
    BY <1>6, CurrentIsOpen DEF Generate
  <2>2. responses' = [responses EXCEPT ![id] = r]
    BY <1>6, <2>1 DEF Generate
  <2>3. /\ r \in [tokens : Nat, texts : Nat, lane : Lanes]
        /\ r.lane = responses[id].lane /\ r.tokens >= responses[id].tokens
    BY <2>1, TypedResponse
  <2>4. Grown
    <3> HIDE DEF id, r
    <3> QED
      BY <2>1, <2>2, <2>3, ChangedResponse
  <2>5. CASE UNCHANGED stream
    <3>1. Extended /\ Len(stream') = Len(stream)
      BY <2>5 DEF Extended, Sequence
    <3> QED
      BY <1>6, <2>4, <3>1 DEF Generate, Turned, Speaking, Extended
  <2>6. CASE Emit([kind |-> "delta", lane |-> lane, tokens |-> responses[id].tokens + 1])
    <3>1. Extended /\ Len(stream') = Len(stream) + 1 /\ ~IsResult(Len(stream))'
      BY <2>6, Appended DEF Emit, IsResult
    <3> QED
      BY <1>6, <2>4, <3>1 DEF Generate, Turned, Speaking
  <2> QED
    BY <1>6, <2>5, <2>6 DEF Generate
<1>7. ASSUME NEW lane \in Lanes, NEW text \in BOOLEAN, NEW n \in Absent .. MaxTokens,
             SendEnvelope(lane, text, n)
      PROVE  Extended /\ Grown /\ Turned /\ UNCHANGED lost
  <2> DEFINE id == current[lane]
             r == [responses[id] EXCEPT !.texts = IF text THEN @ + 1 ELSE @]
  <2>1. id \in Ids /\ busy /\ id \in turn
    BY <1>7, CurrentIsOpen DEF SendEnvelope
  <2>2. responses' = [responses EXCEPT ![id] = r]
    BY <1>7, <2>1 DEF SendEnvelope
  <2>3. /\ r \in [tokens : Nat, texts : Nat, lane : Lanes]
        /\ r.lane = responses[id].lane /\ r.tokens = responses[id].tokens
        /\ r.tokens >= responses[id].tokens
    BY <2>1, TypedResponse
  <2>4. Grown
    <3> HIDE DEF id, r
    <3> QED
      BY <2>1, <2>2, <2>3, ChangedResponse
  <2>5. Extended /\ Len(stream') = Len(stream) + 1 /\ ~IsResult(Len(stream))'
    BY <1>7, Appended DEF SendEnvelope, Emit, IsResult
  <2> QED
    BY <1>7, <2>4, <2>5 DEF SendEnvelope, Turned, Speaking
<1>8. ASSUME NEW id \in Earlier, ReplayStart(id) \/ ReplayEnvelope(id)
      PROVE  Extended /\ Grown /\ Turned /\ UNCHANGED lost
  <2>1. Extended /\ Len(stream') = Len(stream) + 1 /\ ~IsResult(Len(stream))'
    BY <1>8, Appended DEF ReplayStart, ReplayEnvelope, Emit, IsResult
  <2>2. UNCHANGED <<busy, turn, responses, lost>>
    BY <1>8 DEF ReplayStart, ReplayEnvelope, sdkVars
  <2> QED
    BY <2>1, <2>2, SameResponses DEF Turned, Speaking
<1>9. ASSUME NEW m, m.kind = "result", m.turn = turn, Emit(m), busy, busy' = FALSE,
             UNCHANGED <<turn, responses, lost>>
      PROVE  Extended /\ Grown /\ Turned /\ UNCHANGED lost
  <2>1. Extended /\ Len(stream') = Len(stream) + 1 /\ stream'[Len(stream')] = m
    BY <1>9, Appended DEF Emit
  <2> QED
    BY <1>9, <2>1, SameResponses DEF Turned, IsResult
<1>10. ASSUME NEW quoted \in BOOLEAN, NEW metered \in BOOLEAN, NEW failed \in BOOLEAN,
              EndTurn(quoted, metered, failed)
       PROVE  Extended /\ Grown /\ Turned /\ UNCHANGED lost
  <2> DEFINE m == Result(IF quoted THEN LastOwn(turn) ELSE None,
                         IF metered THEN TokensOf(turn) ELSE Absent, TRUE, failed)
  <2>1. m.kind = "result" /\ m.turn = turn
    BY DEF Result
  <2>2. Emit(m) /\ busy /\ busy' = FALSE /\ UNCHANGED <<turn, responses, lost>>
    BY <1>10 DEF EndTurn
  <2> HIDE DEF m
  <2> QED
    BY <2>1, <2>2, <1>9
<1>11. ASSUME NEW text \in Earlier \cup {None}, NEW n \in Absent .. MaxTokens,
              NEW worked \in BOOLEAN, EndEmptyTurn(text, n, worked)
       PROVE  Extended /\ Grown /\ Turned /\ UNCHANGED lost
  <2> DEFINE m == Result(text, n, worked, FALSE)
  <2>1. m.kind = "result" /\ m.turn = turn
    BY DEF Result
  <2>2. Emit(m) /\ busy /\ busy' = FALSE /\ UNCHANGED <<turn, responses, lost>>
    BY <1>11 DEF EndEmptyTurn
  <2> HIDE DEF m
  <2> QED
    BY <2>1, <2>2, <1>9
<1>12. CASE Break
  <2>1. Extended /\ Len(stream') = Len(stream) + 1 /\ ~IsResult(Len(stream))'
    BY <1>12, Appended DEF Break, Emit, IsResult
  <2> QED
    BY <1>12, <2>1, SameResponses DEF Break, sdkVars, Turned, Speaking
<1> QED
  BY <1>4, <1>5, <1>6, <1>7, <1>8, <1>10, <1>11, <1>12 DEF Sdk

\* What Speaks leaves alone.
LEMMA SpeaksKeeps ==
    ASSUME Typed, Speaks
    PROVE  /\ New \subseteq New' /\ Earlier' = Earlier /\ New' \cap Earlier = {}
           /\ New' \subseteq New \cup (Ids' \ Ids) /\ Ids \subseteq Ids'
           /\ New \subseteq Ids /\ New' \subseteq Ids' /\ Earlier \subseteq Ids
           /\ Known' = Known /\ Known \subseteq Ids
           /\ \A id \in Ids' : id \in Nat
<1>1. Len(responses) \in Nat /\ Len(responses') \in Nat /\ Len(responses) <= Len(responses')
  BY DEF Speaks, Grown
<1>2. lost' = lost /\ saved' = saved /\ ledger' = ledger
  BY DEF Speaks
<1>3. saved.responses \in 0 .. Len(responses)
  BY DEF Typed
<1>4. Known \subseteq Ids /\ Known' = Known
  BY <1>2 DEF Typed, Known
<1>5. Earlier' = Earlier /\ Earlier \subseteq Ids /\ New' \cap Earlier = {}
  BY <1>1, <1>2, <1>3 DEF New, Earlier, Ids
<1>6. Ids \subseteq Ids' /\ New \subseteq Ids /\ New' \subseteq Ids' /\ New \subseteq New'
  BY <1>1, <1>2, <1>3 DEF New, Ids
<1>7. New' \subseteq New \cup (Ids' \ Ids)
  BY <1>1, <1>2, <1>3 DEF New, Ids
<1>8. \A id \in Ids' : id \in Nat
  BY <1>1 DEF Ids
<1> QED
  BY <1>4, <1>5, <1>6, <1>7, <1>8

\* What was said in the turn of a response was, also once more is written.
LEMMA BelongsStays ==
    ASSUME Typed, Speaks, NEW i \in 1 .. Len(stream) + 1, NEW id, Belongs(id, i)
    PROVE  Belongs(id, i)'
<1>1. /\ Len(stream) \in Nat /\ Len(stream') \in {Len(stream), Len(stream) + 1}
      /\ \A k \in 1 .. Len(stream) : stream'[k] = stream[k]
      /\ \A k \in 1 .. Len(stream) : IsResult(k)' <=> IsResult(k)
  BY DEF Speaks, Extended, IsResult
<1>2. ASSUME NEW j \in i .. Len(stream'), IsResult(j)', NoResult(i, j - 1)'
      PROVE  id \in stream'[j].turn
  <2>1. CASE j \in 1 .. Len(stream)
    <3>1. IsResult(j) /\ NoResult(i, j - 1)
      BY <1>1, <1>2, <2>1 DEF NoResult
    <3> QED
      BY <1>1, <1>2, <2>1, <3>1 DEF Belongs
  <2>2. CASE j = Len(stream) + 1
    <3>1. Len(stream') = Len(stream) + 1 /\ IsResult(Len(stream))'
      BY <1>1, <1>2, <2>2
    <3>2. stream'[j].turn = turn
      BY <2>2, <3>1 DEF Speaks, Turned
    <3>3. NoResult(i, Len(stream))
      BY <1>1, <1>2, <2>2 DEF NoResult
    <3> QED
      BY <3>2, <3>3 DEF Belongs
  <2> QED
    BY <1>1, <1>2, <2>1, <2>2
<1>3. ASSUME NoResult(i, Len(stream))'
      PROVE  busy' /\ id \in turn'
  <2>1. NoResult(i, Len(stream))
    BY <1>1, <1>3 DEF NoResult
  <2>2. busy /\ id \in turn
    BY <2>1 DEF Belongs
  <2>3. busy'
    <3>1. ~ IsResult(Len(stream))' \/ Len(stream') = Len(stream)
      BY <1>1, <1>3 DEF NoResult
    <3> QED
      BY <1>1, <2>2, <3>1 DEF Speaks, Turned
  <2> QED
    BY <2>2, <2>3 DEF Speaks, Turned
<1> QED
  BY <1>2, <1>3 DEF Belongs

\* No later turn takes up a response.
LEMMA NotLaterStays ==
    ASSUME Typed, Speaks, NEW id \in Ids, NotLater(id)
    PROVE  NotLater(id)'
<1>1. /\ Len(stream) \in Nat /\ Len(stream') \in {Len(stream), Len(stream) + 1}
      /\ \A k \in 1 .. Len(stream) : stream'[k] = stream[k]
      /\ \A k \in 1 .. Len(stream) : IsResult(k)' <=> IsResult(k)
  BY DEF Speaks, Extended, IsResult
<1>2. ASSUME NEW j \in Positions', IsResult(j)', id \in stream'[j].turn
      PROVE  NoResult(1, j - 1)'
  <2>1. CASE j \in 1 .. Len(stream)
    <3>1. NoResult(1, j - 1)
      BY <1>1, <1>2, <2>1 DEF NotLater, Positions
    <3> QED
      BY <1>1, <2>1, <3>1 DEF NoResult
  <2>2. CASE j = Len(stream) + 1
    <3>1. Len(stream') = Len(stream) + 1 /\ IsResult(Len(stream))'
      BY <1>1, <1>2, <2>2 DEF Positions
    <3>2. stream'[j].turn = turn /\ busy
      BY <2>2, <3>1 DEF Speaks, Turned
    <3>3. NoResult(1, Len(stream))
      BY <1>2, <3>2 DEF NotLater
    <3> QED
      BY <1>1, <2>2, <3>3 DEF NoResult
  <2> QED
    BY <1>1, <1>2, <2>1, <2>2 DEF Positions
<1>3. ASSUME busy', id \in turn'
      PROVE  NoResult(1, Len(stream))'
  <2>1. busy /\ id \in turn
    BY <1>3 DEF Speaks, Turned
  <2>2. NoResult(1, Len(stream))
    BY <2>1 DEF NotLater
  <2>3. Len(stream') = Len(stream) \/ ~IsResult(Len(stream))'
    BY <1>1, <1>3 DEF Speaks, Turned
  <2> QED
    BY <1>1, <2>2, <2>3 DEF NoResult
<1> QED
  BY <1>2, <1>3 DEF NotLater

\* Who owns a lane at a place of the stream does not depend on what follows.
LEMMA OwnsStays ==
    ASSUME Speaks, NEW i \in 1 .. Len(stream) + 1, NEW l, NEW id
    PROVE  Owns(l, id, i) <=> Owns(l, id, i)'
<1>1. /\ Len(stream) \in Nat
      /\ \A k \in 1 .. Len(stream) : stream'[k] = stream[k]
      /\ \A k \in 1 .. Len(stream) : StartsLane(l, k)' <=> StartsLane(l, k)
      /\ streamIds' = streamIds
  BY DEF Speaks, Extended, StartsLane, IsStart
<1>2. \A k \in 1 .. i - 1 : k \in 1 .. Len(stream)
  BY <1>1
<1>3. \A j \in 1 .. i - 1 : \A k \in j + 1 .. i - 1 : k \in 1 .. Len(stream)
  BY <1>1
<1> QED
  BY <1>1, <1>2, <1>3 DEF Owns

\* The owner of a lane after one more message.
LEMMA OwnsNext ==
    ASSUME Speaks, Len(stream') = Len(stream) + 1, NEW l, NEW id,
           \/ StartsLane(l, Len(stream))' /\ stream'[Len(stream')].id = id
           \/ ~StartsLane(l, Len(stream))' /\ Owns(l, id, Len(stream) + 1)
    PROVE  Owns(l, id, Len(stream) + 1)'
<1>1. /\ Len(stream) \in Nat /\ Len(stream') = Len(stream) + 1
      /\ \A k \in 1 .. Len(stream) : stream'[k] = stream[k]
      /\ \A k \in 1 .. Len(stream) : StartsLane(l, k)' <=> StartsLane(l, k)
      /\ streamIds' = streamIds
  BY DEF Speaks, Extended, StartsLane, IsStart
<1>2. PICK n \in Nat : n = Len(stream) + 1 /\ n = Len(stream')
  BY <1>1
<1>3. CASE StartsLane(l, n)' /\ stream'[n].id = id
  <2>1. \A k \in n + 1 .. (n + 1) - 1 : FALSE
    BY <1>2
  <2>2. n \in 1 .. (n + 1) - 1
    BY <1>1, <1>2
  <2> QED
    BY <1>2, <1>3, <2>1, <2>2 DEF Owns
<1>4. CASE ~StartsLane(l, n)' /\ Owns(l, id, Len(stream) + 1)
  <2>1. CASE streamIds[l] = id /\ \A k \in 1 .. Len(stream) : ~StartsLane(l, k)
    <3>1. \A k \in 1 .. (n + 1) - 1 : k \in 1 .. Len(stream) \/ k = n
      BY <1>1, <1>2
    <3>2. \A k \in 1 .. (n + 1) - 1 : ~StartsLane(l, k)'
      BY <1>1, <1>4, <2>1, <3>1
    <3> QED
      BY <1>1, <1>2, <2>1, <3>2 DEF Owns
  <2>2. ASSUME NEW j \in 1 .. Len(stream), StartsLane(l, j), stream[j].id = id,
               \A k \in j + 1 .. Len(stream) : ~StartsLane(l, k)
        PROVE  Owns(l, id, Len(stream) + 1)'
    <3>1. \A k \in j + 1 .. (n + 1) - 1 : k \in j + 1 .. Len(stream) \/ k = n
      BY <1>1, <1>2
    <3>2. \A k \in j + 1 .. (n + 1) - 1 : ~StartsLane(l, k)'
      BY <1>1, <1>4, <2>2, <3>1
    <3>3. j \in 1 .. (n + 1) - 1 /\ StartsLane(l, j)' /\ stream'[j].id = id
      BY <1>1, <1>2, <2>2
    <3> QED
      BY <1>2, <3>2, <3>3 DEF Owns
  <2>3. (Len(stream) + 1) - 1 = Len(stream)
    BY <1>1
  <2> QED
    BY <1>4, <2>1, <2>2, <2>3 DEF Owns
<1> QED
  BY <1>2, <1>3, <1>4

-----------------------------------------------------------------------------
(* Tokens of sets of responses.                                            *)

\* There are finitely many responses.
LEMMA IdsFinite ==
    ASSUME Typed, NEW ids \in SUBSET Ids
    PROVE  IsFiniteSet(ids) /\ IsFiniteSet(Ids)
<1>1. IsFiniteSet(Ids)
  BY TypedResponse, FS_Interval DEF Ids
<1> QED
  BY <1>1, FS_Subset

Made == [i \in Ids |-> responses[i].tokens]

\* TokensOf as a sum over the responses' counts.
LEMMA MadeTokens ==
    ASSUME Typed
    PROVE  /\ \A ids : TokensOf(ids) = SumFunctionOnSet(Made, ids)
           /\ \A id \in Ids : Made[id] = responses[id].tokens /\ Made[id] \in Nat
BY TypedResponse DEF TokensOf, Made

\* Responses make a natural number of tokens.
LEMMA TokensNat ==
    ASSUME Typed, NEW ids \in SUBSET Ids
    PROVE  TokensOf(ids) \in Nat
<1>1. \A x \in ids : Made[x] \in Nat
  BY MadeTokens
<1>2. SumFunctionOnSet(Made, ids) \in Nat
  BY <1>1, IdsFinite, SumNat
<1> QED
  BY <1>2, MadeTokens

\* More responses, or longer ones, make more tokens.
LEMMA TokensGrow ==
    ASSUME Typed, Grown, NEW a \in SUBSET Ids, NEW b \in SUBSET Ids', a \subseteq b
    PROVE  TokensOf(a) <= TokensOf(b)' /\ TokensOf(a) \in Nat /\ TokensOf(b)' \in Nat
<1>1. Ids \subseteq Ids' /\ IsFiniteSet(Ids')
  BY FS_Interval DEF Grown, Ids
<1>2. IsFiniteSet(b) /\ IsFiniteSet(a)
  BY <1>1, FS_Subset
<1>3. \A x \in Ids' : Made'[x] = responses'[x].tokens /\ Made'[x] \in Nat
  <2> DEFINE R == [tokens : Nat, texts : Nat, lane : Lanes]
  <2>1. responses' \in Seq(R)
    BY DEF Grown
  <2>2. \A x \in 1 .. Len(responses') : responses'[x] \in R
    <3> HIDE DEF R
    <3> QED
      BY <2>1
  <2> QED
    BY <2>2 DEF Made, Ids
<1>4. \A x \in a : Made[x] \in Nat /\ Made'[x] \in Nat /\ Made[x] <= Made'[x]
  BY <1>1, <1>3, MadeTokens DEF Grown
<1>5. SumFunctionOnSet(Made, a) <= SumFunctionOnSet(Made', a)
  BY <1>2, <1>4, SumBounded
<1>6. SumFunctionOnSet(Made', a) <= SumFunctionOnSet(Made', b)
  BY <1>2, <1>3, SumGrows
<1>7. /\ SumFunctionOnSet(Made, a) \in Nat /\ SumFunctionOnSet(Made', a) \in Nat
      /\ SumFunctionOnSet(Made', b) \in Nat
  BY <1>2, <1>3, <1>4, SumNat
<1>8. TokensOf(a) = SumFunctionOnSet(Made, a)
  BY MadeTokens
<1>9. TokensOf(b)' = SumFunctionOnSet(Made', b)
  BY DEF TokensOf, Made
<1> QED
  BY <1>5, <1>6, <1>7, <1>8, <1>9

\* Closed responses make no more tokens.
LEMMA TokensStay ==
    ASSUME Typed, Grown, NEW ids \in SUBSET Ids,
           \A id \in ids : responses'[id].tokens = responses[id].tokens
    PROVE  TokensOf(ids)' = TokensOf(ids)
<1>1. Ids \subseteq Ids'
  BY DEF Grown, Ids
<1>2. \A x \in ids : Made[x] \in Nat /\ Made[x] = Made'[x]
  BY <1>1, MadeTokens DEF Made
<1>3. SumFunctionOnSet(Made, ids) = SumFunctionOnSet(Made', ids)
  BY <1>2, IdsFinite, SumAgree
<1>4. TokensOf(ids)' = SumFunctionOnSet(Made', ids)
  BY DEF TokensOf, Made
<1> QED
  BY <1>3, <1>4, MadeTokens

LastOf(own) == IF own = {} THEN None ELSE CHOOSE i \in own : \A j \in own : j <= i

\* The last own response of a set does not change.
LEMMA LastOwnStays ==
    ASSUME Typed, Grown, NEW ids \in SUBSET Ids
    PROVE  LastOwn(ids)' = LastOwn(ids)
<1>1. {i \in ids : responses'[i].lane = Main} = {i \in ids : responses[i].lane = Main}
  BY DEF Grown
<1>2. LastOwn(ids) = LastOf({i \in ids : responses[i].lane = Main})
  BY DEF LastOwn, LastOf
<1>3. LastOwn(ids)' = LastOf({i \in ids : responses'[i].lane = Main})
  BY DEF LastOwn, LastOf
<1> QED
  BY <1>1, <1>2, <1>3

\* The last of the turn is one of the solver, and none of its is later.
LEMMA LastOwnIs ==
    ASSUME Typed, NEW ids \in SUBSET Ids, NEW x \in ids, IsOwn(x)
    PROVE  /\ LastOwn(ids) \in ids /\ IsOwn(LastOwn(ids))
           /\ \A y \in ids : IsOwn(y) => y <= LastOwn(ids)
<1> DEFINE own == {i \in ids : responses[i].lane = Main}
<1>1. own \subseteq Nat /\ x \in own /\ \A y \in own : y <= Len(responses)
  <2>1. x \in own
    BY DEF IsOwn
  <2>2. \A y \in own : y \in 1 .. Len(responses)
    BY DEF Ids
  <2>3. Len(responses) \in Nat
    BY TypedResponse
  <2> HIDE DEF own
  <2> QED
    BY <2>1, <2>2, <2>3
<1>2. Len(responses) \in Nat
  BY TypedResponse
<1>3. \E i \in own : \A j \in own : j <= i
  <2> DEFINE S == {Len(responses) - y : y \in own}
  <2>1. S \in SUBSET Nat /\ Len(responses) - x \in S
    BY <1>1, <1>2
  <2>2. PICK s \in S : \A t \in S : s <= t
    <3> HIDE DEF S
    <3> QED
      BY <2>1, LeastNatural
  <2>3. PICK i \in own : s = Len(responses) - i
    BY <2>2
  <2>4. ASSUME NEW j \in own PROVE j <= i
    <3>1. Len(responses) - j \in S
      OBVIOUS
    <3>2. s <= Len(responses) - j
      BY <2>2, <3>1
    <3> HIDE DEF S, own
    <3> QED
      BY <1>1, <1>2, <2>3, <3>2
  <2> HIDE DEF own
  <2> QED
    BY <2>4
<1>4. LastOwn(ids) = CHOOSE i \in own : \A j \in own : j <= i
  BY <1>1 DEF LastOwn
<1>5. LastOwn(ids) \in own /\ \A j \in own : j <= LastOwn(ids)
  <2> HIDE DEF own
  <2> QED
    BY <1>3, <1>4
<1> QED
  BY <1>5 DEF IsOwn

-----------------------------------------------------------------------------
(* What the SDK says is true, and stays so.                                *)

\* A response that begins is one of the phase.
LEMMA NewOnes ==
    ASSUME Typed, Speaks
    PROVE  Ids' \ Ids \subseteq New'
BY DEF Typed, Speaks, Grown, New, Ids

\* What is written while the turn goes on belongs to it.
LEMMA BelongsLast ==
    ASSUME Speaks, Len(stream') = Len(stream) + 1, ~IsResult(Len(stream))',
           busy', NEW id \in turn'
    PROVE  Belongs(id, Len(stream))'
BY DEF Speaks, Extended, Belongs

\* Messages in the stream stay true.
LEMMA SpokenStays ==
    ASSUME Typed, Speaking, Spoken, Speaks, NEW i \in Positions
    PROVE  (/\ Names(i) => Named(i)
            /\ IsDelta(i) => Counted(i)
            /\ IsResult(i) => Resulted(i))'
<1>1. /\ Len(stream) \in Nat /\ Len(stream') \in {Len(stream), Len(stream) + 1}
      /\ \A k \in 1 .. Len(stream) : stream'[k] = stream[k]
      /\ i \in 1 .. Len(stream) + 1 /\ i \in 1 .. Len(stream) /\ stream'[i] = stream[i]
  BY DEF Speaks, Extended, Positions
<1>2. /\ New \subseteq New' /\ Earlier' = Earlier /\ New' \cap Earlier = {}
      /\ New' \subseteq New \cup (Ids' \ Ids) /\ New \subseteq Ids /\ Earlier \subseteq Ids
      /\ New \cap Earlier = {}
  BY SpeaksKeeps DEF New, Earlier
<1>3. \A id \in Ids : /\ responses'[id].lane = responses[id].lane
                      /\ responses'[id].tokens >= responses[id].tokens
                      /\ responses[id].tokens \in Nat /\ responses'[id].tokens \in Nat
  <2> DEFINE R == [tokens : Nat, texts : Nat, lane : Lanes]
  <2>1. responses' \in Seq(R) /\ Ids \subseteq Ids'
    BY DEF Speaks, Grown, Ids
  <2>2. \A x \in 1 .. Len(responses') : responses'[x] \in R
    <3> HIDE DEF R
    <3> QED
      BY <2>1
  <2> QED
    BY <2>1, <2>2, TypedResponse DEF Speaks, Grown, Ids
<1>4. ASSUME Names(i)' PROVE Named(i)'
  <2>1. Named(i)
    BY <1>1, <1>4 DEF Spoken, Names, IsStart, IsEnvelope
  <2>2. stream[i].id \in New' => stream[i].id \in New
    BY <1>2, <2>1 DEF Named
  <2>3. ASSUME stream[i].id \in New'
        PROVE  /\ stream[i].tokens <= responses'[stream[i].id].tokens
               /\ stream[i].lane = responses'[stream[i].id].lane
               /\ Belongs(stream[i].id, i)'
    <3>1. PICK id : id = stream[i].id
      OBVIOUS
    <3>2. id \in New /\ Belongs(id, i) /\ id \in Ids
      BY <1>2, <2>1, <2>2, <2>3, <3>1 DEF Named
    <3>3. Belongs(id, i)'
      BY <1>1, <3>2, BelongsStays
    <3>4. Belongs(stream[i].id, i)'
      BY <1>1, <3>1, <3>3
    <3>5. stream[i].tokens <= responses[id].tokens /\ stream[i].lane = responses[id].lane
          /\ (stream[i].tokens \in Nat \/ stream[i].tokens = Absent)
      BY <2>1, <2>2, <2>3, <3>1 DEF Named
    <3> QED
      BY <1>3, <3>1, <3>2, <3>4, <3>5 DEF Absent
  <2> QED
    BY <1>1, <1>2, <2>1, <2>3 DEF Named, IsStart
<1>5. ASSUME IsDelta(i)' PROVE Counted(i)'
  <2>1. Counted(i)
    BY <1>1, <1>5 DEF Spoken, IsDelta
  <2>2. PICK l, id : /\ id \in New /\ l = stream[i].lane /\ Owns(l, id, i)
                     /\ stream[i].tokens <= responses[id].tokens
                     /\ Belongs(id, i)
    BY <2>1 DEF Counted
  <2>3. Owns(l, id, i)' /\ Belongs(id, i)'
    BY <1>1, <2>2, OwnsStays, BelongsStays
  <2>4. id \in New' /\ stream[i].tokens <= responses'[id].tokens
    BY <1>2, <1>3, <2>1, <2>2 DEF Counted
  <2> QED
    BY <1>1, <2>1, <2>2, <2>3, <2>4 DEF Counted
<1>6. ASSUME IsResult(i)' PROVE Resulted(i)'
  <2>1. Resulted(i) /\ IsResult(i)
    BY <1>1, <1>6 DEF Spoken, IsResult
  <2>2. PICK ids : ids = stream[i].turn
    OBVIOUS
  <2>3. ids \subseteq New /\ ids \subseteq Ids /\ ids \subseteq New'
    BY <1>2, <2>1, <2>2 DEF Resulted
  <2>4. \A id \in ids : responses'[id].tokens = responses[id].tokens
    BY <2>1, <2>2, <2>3 DEF Speaks, Grown, Resulted
  <2>5. Grown
    BY DEF Speaks
  <2>6. TokensOf(ids)' = TokensOf(ids) /\ LastOwn(ids)' = LastOwn(ids)
    BY <2>3, <2>4, <2>5, TokensStay, LastOwnStays
  <2>7. busy' => ids \cap turn' = {}
    BY <2>1, <2>2, <2>3 DEF Speaks, Turned, Resulted
  <2>8. ASSUME NEW j \in Positions', IsResult(j)', i # j
        PROVE  ids \cap stream'[j].turn = {}
    <3>1. CASE j \in Positions
      BY <1>1, <2>1, <2>2, <2>8, <3>1 DEF Resulted, Positions, IsResult
    <3>2. CASE j = Len(stream) + 1
      <4>1. Len(stream') = Len(stream) + 1 /\ IsResult(Len(stream))'
        BY <1>1, <2>8, <3>2 DEF Positions
      <4> QED
        BY <2>1, <2>2, <3>2, <4>1 DEF Speaks, Turned, Resulted
    <3> QED
      BY <1>1, <3>1, <3>2 DEF Positions
  <2>9. ledger' = ledger
    BY DEF Speaks
  <2>10. /\ TokensOf(stream[i].turn)' = TokensOf(ids)' /\ LastOwn(stream[i].turn)' = LastOwn(ids)'
    BY <1>1, <2>2
  <2>11. /\ TokensOf(stream[i].turn) = TokensOf(ids) /\ LastOwn(stream[i].turn) = LastOwn(ids)
    BY <2>2
  <2> QED
    BY <1>1, <2>1, <2>2, <2>3, <2>6, <2>7, <2>8, <2>9, <2>10, <2>11 DEF Resulted
<1> QED
  BY <1>4, <1>5, <1>6

\* The message at the end of the stream, if the step wrote one.
SaidTruly == Len(stream') = Len(stream) + 1 =>
               (/\ Names(Len(stream)) => Named(Len(stream))
                /\ IsDelta(Len(stream)) => Counted(Len(stream))
                /\ IsResult(Len(stream)) => Resulted(Len(stream)))'

\* With a true message written, all are true.
LEMMA SpokenNext ==
    ASSUME Typed, Speaking, Spoken, Speaks, SaidTruly
    PROVE  Spoken'
<1> SUFFICES ASSUME NEW i \in Positions'
             PROVE  (/\ Names(i) => Named(i)
                     /\ IsDelta(i) => Counted(i)
                     /\ IsResult(i) => Resulted(i))'
  BY DEF Spoken
<1>1. i \in Positions \/ (i = Len(stream') /\ Len(stream') = Len(stream) + 1)
  BY DEF Speaks, Extended, Positions
<1>2. CASE i \in Positions
  BY <1>2, SpokenStays
<1>3. CASE i = Len(stream') /\ Len(stream') = Len(stream) + 1
  BY <1>3 DEF SaidTruly
<1> QED
  BY <1>1, <1>2, <1>3

\* The SDK writes nothing false.
LEMMA SdkSaysTruly ==
    ASSUME Typed, Sequence, Speaking, Spoken, Metered, Sdk, Speaks
    PROVE  SaidTruly
<1>0. /\ New \subseteq New' /\ Earlier' = Earlier /\ New' \cap Earlier = {}
      /\ New \subseteq Ids /\ Earlier \subseteq Ids /\ Ids' \ Ids \subseteq New'
  BY SpeaksKeeps, NewOnes
<1>1. CASE ReadInput
  <2>1. ~(Names(Len(stream)) \/ IsDelta(Len(stream)) \/ IsResult(Len(stream)))'
    BY <1>1, Appended DEF ReadInput, Emit, Names, IsStart, IsEnvelope, IsDelta, IsResult
  <2> QED
    BY <2>1 DEF SaidTruly
<1>2. ASSUME NEW lane \in Lanes, NEW n \in {0, 1}, StartResponse(lane, n)
      PROVE  SaidTruly
  <2> DEFINE id == Len(responses) + 1
             r == [tokens |-> n, texts |-> 0, lane |-> lane]
  <2>1. r \in [tokens : Nat, texts : Nat, lane : Lanes] /\ responses' = Append(responses, r)
    BY <1>2 DEF StartResponse
  <2>2. id \in New' /\ id \notin Ids /\ responses'[id] = r
    BY <1>0, <2>1, AddedResponse
  <2>3. /\ Len(stream') = Len(stream) + 1
        /\ stream'[Len(stream')] = [kind |-> "start", lane |-> lane, id |-> id, tokens |-> n]
    BY <1>2, Appended DEF StartResponse, Emit
  <2>4. busy' /\ id \in turn'
    BY <1>2 DEF StartResponse
  <2>5. ~IsResult(Len(stream))' /\ ~IsDelta(Len(stream))' /\ IsStart(Len(stream))'
    BY <2>3 DEF IsResult, IsDelta, IsStart
  <2>6. PICK x : x = id
    OBVIOUS
  <2>7. Belongs(x, Len(stream))'
    BY <2>3, <2>4, <2>5, <2>6, BelongsLast
  <2>8. Belongs(stream[Len(stream)].id, Len(stream))'
    BY <2>3, <2>6, <2>7
  <2>9. Named(Len(stream))'
    <3> HIDE DEF id
    <3> QED
      BY <2>2, <2>3, <2>8 DEF Named, Absent
  <2> QED
    BY <2>5, <2>9 DEF SaidTruly
<1>3. ASSUME NEW lane \in Lanes, NEW streamed \in BOOLEAN, Generate(lane, streamed)
      PROVE  SaidTruly
  <2>1. CASE UNCHANGED stream
    BY <2>1 DEF SaidTruly, Speaks, Extended
  <2>2. CASE Emit([kind |-> "delta", lane |-> lane,
                   tokens |-> responses[current[lane]].tokens + 1])
    <3>1. PICK id : id = current[lane]
      OBVIOUS
    <3>2. id \in New /\ id \in Ids /\ busy /\ id \in turn
      BY <1>3, <3>1, CurrentIsOpen DEF Generate
    <3>3. responses' = [responses EXCEPT ![id].tokens = @ + 1] /\ UNCHANGED <<busy, turn>>
      BY <1>3, <3>1 DEF Generate
    <3>4. responses'[id].tokens = responses[id].tokens + 1 /\ responses[id].tokens \in Nat
      BY SMTT(30), <3>2, <3>3, TypedResponse DEF Typed, Ids
    <3>5. /\ Len(stream') = Len(stream) + 1
          /\ stream'[Len(stream')] = [kind |-> "delta", lane |-> lane,
                                      tokens |-> responses[id].tokens + 1]
      BY <2>2, <3>1, Appended DEF Emit
    <3>6. ~IsResult(Len(stream))' /\ ~Names(Len(stream))'
      BY <3>5 DEF IsResult, Names, IsStart, IsEnvelope
    <3>7. Belongs(id, Len(stream))'
      BY <3>2, <3>3, <3>5, <3>6, BelongsLast
    <3>8. PICK k : k = Len(stream) + 1
      OBVIOUS
    <3>9. Owns(lane, id, k)'
      <4>1. Owns(lane, id, k) /\ k \in 1 .. Len(stream) + 1
        BY <1>3, <3>1, <3>2, <3>8 DEF Speaking, Generate, Sequence
      <4> QED
        BY <4>1, OwnsStays
    <3>10. Counted(Len(stream))'
      BY <1>0, <3>2, <3>4, <3>5, <3>7, <3>8, <3>9 DEF Counted
    <3> QED
      BY <3>6, <3>10 DEF SaidTruly
  <2> QED
    BY <1>3, <2>1, <2>2 DEF Generate
<1>4. ASSUME NEW lane \in Lanes, NEW text \in BOOLEAN, NEW n \in Absent .. MaxTokens,
             SendEnvelope(lane, text, n)
      PROVE  SaidTruly
  <2>1. PICK id : id = current[lane]
    OBVIOUS
  <2>2. id \in New /\ id \in Ids /\ busy /\ id \in turn /\ responses[id].lane = lane
    BY <1>4, <2>1, CurrentIsOpen DEF SendEnvelope
  <2>3. /\ responses' = [responses EXCEPT ![id].texts = IF text THEN @ + 1 ELSE @]
        /\ UNCHANGED <<busy, turn>>
    BY <1>4, <2>1 DEF SendEnvelope
  <2>4. /\ responses'[id].tokens = responses[id].tokens /\ responses[id].tokens \in Nat
        /\ responses'[id].lane = lane
    <3>1. /\ responses[id] \in [tokens : Nat, texts : Nat, lane : Lanes]
          /\ id \in DOMAIN responses
      BY <2>2, TypedResponse, ResponsesByIds
    <3>2. responses'[id] = [responses[id] EXCEPT !.texts = IF text THEN @ + 1 ELSE @]
      BY <2>3, <3>1
    <3> QED
      BY <2>2, <3>1, <3>2
  <2>5. /\ Len(stream') = Len(stream) + 1
        /\ stream'[Len(stream')] = [kind |-> "envelope", lane |-> lane, id |-> id,
                                    text |-> text, tokens |-> n]
    BY <1>4, <2>1, Appended DEF SendEnvelope, Emit
  <2>6. ~IsResult(Len(stream))' /\ ~IsDelta(Len(stream))' /\ ~IsStart(Len(stream))'
    BY <2>5 DEF IsResult, IsDelta, IsStart
  <2>7. Belongs(id, Len(stream))'
    BY <2>2, <2>3, <2>5, <2>6, BelongsLast
  <2>8. Belongs(stream[Len(stream)].id, Len(stream))'
    BY <2>5, <2>7
  <2>9. n \in Nat \cup {Absent} /\ n <= responses[id].tokens
    BY <1>4, <2>1, <2>4 DEF SendEnvelope, Absent
  <2>10. Named(Len(stream))'
    BY <1>0, <2>2, <2>4, <2>5, <2>6, <2>8, <2>9 DEF Named
  <2> QED
    BY <2>6, <2>10 DEF SaidTruly
<1>5. ASSUME NEW id \in Earlier, ReplayStart(id) \/ ReplayEnvelope(id)
      PROVE  SaidTruly
  <2>1. /\ Len(stream') = Len(stream) + 1
        /\ stream'[Len(stream')].lane = Main /\ stream'[Len(stream')].id = id
        /\ stream'[Len(stream')].tokens = responses[id].tokens
        /\ stream'[Len(stream')].kind \in {"start", "envelope"}
    BY <1>5, Appended DEF ReplayStart, ReplayEnvelope, Emit
  <2>2. ~IsResult(Len(stream))' /\ ~IsDelta(Len(stream))'
    BY <2>1 DEF IsResult, IsDelta
  <2>3. responses[id].tokens \in Nat
    BY <1>0, TypedResponse
  <2>4. Named(Len(stream))'
    BY <1>0, <2>1, <2>3, LaneAssumption DEF Named, Absent
  <2> QED
    BY <2>2, <2>4 DEF SaidTruly
<1>6. ASSUME NEW m, m.kind = "result", Emit(m), busy' = FALSE, m.turn = turn,
             UNCHANGED <<turn, responses>>, busy, m.tokens \in Nat \cup {Absent},
             m.failed => turn # {},
             turn # {} => /\ m.tokens \in {Absent, TokensOf(turn)}
                          /\ m.text \in {None, LastOwn(turn)}
      PROVE  SaidTruly
  <2>1. /\ Len(stream') = Len(stream) + 1 /\ stream'[Len(stream')] = m
        /\ \A k \in 1 .. Len(stream) : stream'[k] = stream[k]
        /\ Len(stream) \in Nat
    BY <1>6, Appended DEF Emit, Extended
  <2>2. ~Names(Len(stream))' /\ ~IsDelta(Len(stream))'
    BY <1>6, <2>1 DEF Names, IsStart, IsEnvelope, IsDelta
  <2>3. turn \subseteq New' /\ ledger' = ledger
    BY <1>0 DEF Speaking, Speaks
  <2>4. PICK ids : ids = turn
    OBVIOUS
  <2>5. TokensOf(ids)' = TokensOf(ids) /\ LastOwn(ids)' = LastOwn(ids)
    <3>1. ids \subseteq Ids
      BY <1>0, <2>4 DEF Speaking
    <3> QED
      BY <1>6, <2>4, <3>1, SameResponses, TokensStay, LastOwnStays
  <2>6. m.turn = ids /\ TokensOf(ids) = TokensOf(turn) /\ LastOwn(ids) = LastOwn(turn)
    BY <1>6, <2>4
  <2>7. /\ TokensOf(stream[Len(stream)].turn)' = TokensOf(ids)'
        /\ LastOwn(stream[Len(stream)].turn)' = LastOwn(ids)'
    BY <2>1, <2>6
  <2>8. ASSUME NEW j \in Positions', IsResult(j)', j # Len(stream')
        PROVE  turn \cap stream'[j].turn = {}
    <3>1. j \in Positions /\ IsResult(j)
      BY <2>1, <2>8 DEF Positions, IsResult
    <3> QED
      BY <1>6, <2>1, <3>1 DEF Spoken, Resulted, Positions
  <2>9. turn \cap ledger.sealed = {}
    BY <1>6 DEF Metered
  <2>10. Resulted(Len(stream))'
    BY <1>6, <2>1, <2>3, <2>4, <2>5, <2>6, <2>7, <2>8, <2>9 DEF Resulted
  <2> QED
    BY <2>2, <2>10 DEF SaidTruly
<1>7. ASSUME NEW quoted \in BOOLEAN, NEW metered \in BOOLEAN, NEW failed \in BOOLEAN,
             EndTurn(quoted, metered, failed)
      PROVE  SaidTruly
  <2> DEFINE m == Result(IF quoted THEN LastOwn(turn) ELSE None,
                         IF metered THEN TokensOf(turn) ELSE Absent, TRUE, failed)
  <2>1. TokensOf(turn) \in Nat
    BY <1>0, TokensNat DEF Speaking
  <2>2. /\ m.kind = "result" /\ m.turn = turn /\ m.tokens \in Nat \cup {Absent}
        /\ m.tokens \in {Absent, TokensOf(turn)}
        /\ m.text \in {None, LastOwn(turn)}
    BY <2>1 DEF Result
  <2>3. Emit(m) /\ busy /\ busy' = FALSE /\ UNCHANGED <<turn, responses>> /\ turn # {}
    BY <1>7 DEF EndTurn
  <2> HIDE DEF m
  <2> QED
    BY <2>2, <2>3, <1>6
<1>8. ASSUME NEW text \in Earlier \cup {None}, NEW n \in Absent .. MaxTokens,
             NEW worked \in BOOLEAN, EndEmptyTurn(text, n, worked)
      PROVE  SaidTruly
  <2> DEFINE m == Result(text, n, worked, FALSE)
  <2>1. m.kind = "result" /\ m.turn = turn /\ m.tokens \in Nat \cup {Absent} /\ ~m.failed
    BY DEF Result, Absent
  <2>2. Emit(m) /\ busy /\ busy' = FALSE /\ UNCHANGED <<turn, responses>> /\ turn = {}
    BY <1>8 DEF EndEmptyTurn
  <2> HIDE DEF m
  <2> QED
    BY <2>1, <2>2, <1>6
<1>9. CASE Break
  <2>1. ~(Names(Len(stream)) \/ IsDelta(Len(stream)) \/ IsResult(Len(stream)))'
    BY <1>9, Appended DEF Break, Emit, Names, IsStart, IsEnvelope, IsDelta, IsResult
  <2> QED
    BY <2>1 DEF SaidTruly
<1> QED
  BY <1>1, <1>2, <1>3, <1>4, <1>5, <1>7, <1>8, <1>9 DEF Sdk

-----------------------------------------------------------------------------
\* The turn in progress under a step of the SDK that starts no response.
LEMMA SpeakingStays ==
    ASSUME Typed, Speaking, Speaks, UNCHANGED <<current, Ids>>, busy => busy',
           \A l \in Lanes : Len(stream') = Len(stream) + 1 /\ current[l] # None
                              => ~StartsLane(l, Len(stream))'
    PROVE  Speaking'
<1>1. /\ New \subseteq New' /\ New' \subseteq New /\ New \subseteq Ids
  BY SpeaksKeeps
<1>2. turn' \subseteq New'
  BY <1>1 DEF Speaks, Turned, Speaking
<1>3. ASSUME NEW l \in Lanes, current[l] # None
      PROVE  /\ busy' /\ current[l] \in turn'
             /\ responses'[current[l]].lane = l
             /\ Owns(l, current[l], Len(stream) + 1)'
             /\ \A id \in New' : responses'[id].lane = l => id <= current[l]
  <2>1. PICK id : id = current[l]
    OBVIOUS
  <2>2. /\ busy /\ id \in turn /\ id \in New /\ responses[id].lane = l
        /\ Owns(l, id, Len(stream) + 1)
        /\ \A x \in New : responses[x].lane = l => x <= id
    BY <1>3, <2>1 DEF Speaking
  <2>3. busy' /\ id \in turn'
    BY <2>2 DEF Speaks, Turned
  <2>4. \A x \in New' : x \in New /\ responses'[x].lane = responses[x].lane
    BY <1>1 DEF Speaks, Grown
  <2>5. Owns(l, id, Len(stream) + 1)'
    <3>1. CASE Len(stream') = Len(stream) + 1
      <4>1. ~StartsLane(l, Len(stream))'
        BY <1>3, <3>1
      <4> QED
        BY <2>2, <3>1, <4>1, OwnsNext
    <3>2. CASE Len(stream') = Len(stream)
      <4>1. PICK k : k = Len(stream) + 1
        OBVIOUS
      <4>2. Owns(l, id, k) /\ k \in 1 .. Len(stream) + 1
        BY <2>2, <4>1 DEF Speaks, Extended
      <4>3. Owns(l, id, k)'
        BY <4>2, OwnsStays
      <4> QED
        BY <3>2, <4>1, <4>3
    <3> QED
      BY <3>1, <3>2 DEF Speaks, Extended
  <2>6. Owns(l, current[l], Len(stream) + 1)'
    BY <2>1, <2>5
  <2> QED
    BY <1>1, <2>1, <2>2, <2>3, <2>4, <2>6
<1>4. current' = [l \in Lanes |-> current'[l]] /\ busy' \in BOOLEAN
  BY DEF Speaking, Speaks, Turned
<1> QED
  BY <1>2, <1>3, <1>4 DEF Speaking

\* The turn in progress, under every step of the SDK.
LEMMA SdkKeepsSpeaking ==
    ASSUME Typed, Sequence, Speaking, Sdk, Speaks
    PROVE  Speaking'
<1>0. /\ New \subseteq New' /\ New' \subseteq New \cup (Ids' \ Ids) /\ New \subseteq Ids
      /\ turn' \subseteq New'
  BY SpeaksKeeps, NewOnes DEF Speaking, Speaks, Turned
<1>1. CASE ReadInput
  <2>1. UNCHANGED <<current, Ids>> /\ busy'
    BY <1>1 DEF ReadInput, Ids
  <2>2. \A l \in Lanes : ~StartsLane(l, Len(stream))'
    BY <1>1, Appended DEF ReadInput, Emit, StartsLane, IsStart
  <2> QED
    BY <2>1, <2>2, SpeakingStays
<1>2. ASSUME NEW lane \in Lanes, NEW n \in {0, 1}, StartResponse(lane, n)
      PROVE  Speaking'
  <2> DEFINE r == [tokens |-> n, texts |-> 0, lane |-> lane]
  <2>1. PICK x : x = Len(responses) + 1
    OBVIOUS
  <2>2. r \in [tokens : Nat, texts : Nat, lane : Lanes] /\ responses' = Append(responses, r)
    BY <1>2 DEF StartResponse
  <2>3. /\ Ids' = Ids \cup {x} /\ x \notin Ids /\ responses'[x] = r
        /\ \A y \in Ids : responses'[y] = responses[y]
    BY <2>1, <2>2, AddedResponse
  <2>4. /\ Len(stream') = Len(stream) + 1 /\ Len(stream) \in Nat
        /\ stream'[Len(stream')] = [kind |-> "start", lane |-> lane, id |-> x, tokens |-> n]
    BY <1>2, <2>1, Appended DEF StartResponse, Emit, Extended
  <2>5. busy /\ busy' /\ turn' = turn \cup {x} /\ current' = [current EXCEPT ![lane] = x]
    BY <1>2, <2>1 DEF StartResponse
  <2>6. \A l \in Lanes : StartsLane(l, Len(stream))' <=> l = lane
    BY <2>4 DEF StartsLane, IsStart
  <2>7. \A y \in New' : y \in New \/ y = x
    BY <1>0, <2>3
  <2>8. \A y \in New : y \in Ids /\ y \in Nat /\ y < x
    BY <1>0, <2>1, TypedResponse DEF Ids
  <2>9. x \in Nat
    BY <2>1, TypedResponse
  <2>10. current' = [l \in Lanes |-> IF l = lane THEN x ELSE current[l]]
    BY <2>5 DEF Speaking
  <2>11. ASSUME NEW l \in Lanes, NEW c, c = current'[l], c # None
         PROVE  /\ busy' /\ c \in turn' /\ responses'[c].lane = l
                /\ Owns(l, c, Len(stream) + 1)'
                /\ \A y \in New' : responses'[y].lane = l => y <= c
    <3>1. CASE l = lane
      <4>1. c = x
        BY <2>10, <2>11, <3>1
      <4>2. Owns(l, c, Len(stream) + 1)'
        BY <2>4, <2>6, <3>1, <4>1, OwnsNext
      <4>3. \A y \in New' : y <= c
        BY <2>7, <2>8, <2>9, <4>1
      <4>4. busy' /\ c \in turn' /\ responses'[c].lane = l
        BY <2>3, <2>5, <3>1, <4>1
      <4> QED
        BY <4>2, <4>3, <4>4
    <3>2. CASE l # lane
      <4>1. /\ c = current[l] /\ c \in turn /\ c \in Ids /\ responses[c].lane = l
            /\ Owns(l, c, Len(stream) + 1)
            /\ \A y \in New : responses[y].lane = l => y <= c
        BY <1>0, <2>10, <2>11, <3>2 DEF Speaking
      <4>2. Owns(l, c, Len(stream) + 1)'
        BY <2>4, <2>6, <3>2, <4>1, OwnsNext
      <4>3. \A y \in New' : responses'[y].lane = l => y <= c
        BY <2>3, <2>7, <2>8, <3>2, <4>1
      <4> QED
        BY <2>3, <2>5, <4>1, <4>2, <4>3
    <3> QED
      BY <3>1, <3>2
  <2>12. ASSUME NEW l \in Lanes, current'[l] # None
         PROVE  /\ busy' /\ current'[l] \in turn' /\ responses'[current'[l]].lane = l
                /\ Owns(l, current[l], Len(stream) + 1)'
                /\ \A y \in New' : responses'[y].lane = l => y <= current'[l]
    <3>1. PICK c : c = current'[l]
      OBVIOUS
    <3>2. Owns(l, c, Len(stream) + 1)'
      BY <2>11, <2>12, <3>1
    <3>3. Owns(l, current[l], Len(stream) + 1)'
      BY <3>1, <3>2
    <3> QED
      BY <2>11, <2>12, <3>1, <3>3
  <2>13. current' = [l \in Lanes |-> current'[l]]
    BY <2>10
  <2> QED
    BY <1>0, <2>5, <2>12, <2>13 DEF Speaking
<1>3. ASSUME NEW lane \in Lanes, NEW streamed \in BOOLEAN, Generate(lane, streamed)
      PROVE  Speaking'
  <2>1. current[lane] \in Ids
    BY <1>3, CurrentIsOpen DEF Generate
  <2>2. UNCHANGED <<current, Ids, busy>>
    BY <1>3, <2>1, ResponsesByIds, TypedResponse DEF Generate, Ids
  <2>3. Len(stream') = Len(stream) + 1 => \A l \in Lanes : ~StartsLane(l, Len(stream))'
    <3>1. CASE UNCHANGED stream
      BY <3>1, <2>1 DEF Speaks, Extended
    <3>2. CASE Emit([kind |-> "delta", lane |-> lane,
                     tokens |-> responses[current[lane]].tokens + 1])
      BY <3>2, Appended DEF Emit, StartsLane, IsStart
    <3> QED
      BY <1>3, <3>1, <3>2 DEF Generate
  <2> QED
    BY <2>2, <2>3, SpeakingStays
<1>4. ASSUME NEW lane \in Lanes, NEW text \in BOOLEAN, NEW n \in Absent .. MaxTokens,
             SendEnvelope(lane, text, n)
      PROVE  Speaking'
  <2>1. current[lane] \in Ids
    BY <1>4, CurrentIsOpen DEF SendEnvelope
  <2>2. UNCHANGED <<current, Ids, busy>>
    BY <1>4, <2>1, ResponsesByIds, TypedResponse DEF SendEnvelope, Ids
  <2>3. \A l \in Lanes : ~StartsLane(l, Len(stream))'
    BY <1>4, Appended DEF SendEnvelope, Emit, StartsLane, IsStart
  <2> QED
    BY <2>2, <2>3, SpeakingStays
<1>5. ASSUME NEW id \in Earlier, ReplayStart(id)
      PROVE  Speaking'
  <2>1. UNCHANGED <<current, Ids, busy>> /\ current[Main] = None
    BY <1>5 DEF ReplayStart, sdkVars, Ids
  <2>2. \A l \in Lanes : l # Main => ~StartsLane(l, Len(stream))'
    BY <1>5, Appended DEF ReplayStart, Emit, StartsLane, IsStart
  <2> QED
    BY <2>1, <2>2, SpeakingStays
<1>6. ASSUME NEW id \in Earlier, ReplayEnvelope(id)
      PROVE  Speaking'
  <2>1. UNCHANGED <<current, Ids, busy>>
    BY <1>6 DEF ReplayEnvelope, sdkVars, Ids
  <2>2. \A l \in Lanes : ~StartsLane(l, Len(stream))'
    BY <1>6, Appended DEF ReplayEnvelope, Emit, StartsLane, IsStart
  <2> QED
    BY <2>1, <2>2, SpeakingStays
<1>7. ASSUME NEW quoted \in BOOLEAN, NEW metered \in BOOLEAN, NEW failed \in BOOLEAN,
             EndTurn(quoted, metered, failed)
      PROVE  Speaking'
  <2>1. current' = [l \in Lanes |-> None] /\ busy' = FALSE
    BY <1>7 DEF EndTurn
  <2> QED
    BY <1>0, <2>1 DEF Speaking
<1>8. ASSUME NEW text \in Earlier \cup {None}, NEW n \in Absent .. MaxTokens,
             NEW worked \in BOOLEAN, EndEmptyTurn(text, n, worked)
      PROVE  Speaking'
  <2>1. current' = current /\ turn = {} /\ busy' = FALSE
    BY <1>8 DEF EndEmptyTurn
  <2>2. \A l \in Lanes : current[l] = None
    BY <2>1 DEF Speaking
  <2> QED
    BY <1>0, <2>1, <2>2 DEF Speaking
<1>9. CASE Break
  <2>1. UNCHANGED <<current, Ids, busy>>
    BY <1>9 DEF Break, sdkVars, Ids
  <2>2. \A l \in Lanes : ~StartsLane(l, Len(stream))'
    BY <1>9, Appended DEF Break, Emit, StartsLane, IsStart
  <2> QED
    BY <2>1, <2>2, SpeakingStays
<1> QED
  BY <1>1, <1>2, <1>3, <1>4, <1>5, <1>6, <1>7, <1>8, <1>9 DEF Sdk

-----------------------------------------------------------------------------
\* A response that was heard of stays so.
LEMMA StartedStays ==
    ASSUME Typed, Speaks, NEW id, NEW i \in 1 .. Len(stream) + 1, StartedBefore(id, i)
    PROVE  StartedBefore(id, i)'
<1>1. Known' = Known /\ Len(stream) \in Nat
  BY SpeaksKeeps DEF Speaks, Extended
<1>2. \A j \in 1 .. i - 1 : j \in 1 .. Len(stream)
  BY <1>1
<1> QED
  BY <1>1, <1>2 DEF StartedBefore, Speaks, Extended, IsStart

\* Messages keep their place among the responses.
LEMMA OrderStays ==
    ASSUME Typed, Speaking, Spoken, InOrder, Speaks, NEW i \in Positions
    PROVE  OrderedAt(i)'
<1>1. /\ Len(stream) \in Nat /\ i \in 1 .. Len(stream) /\ i \in 1 .. Len(stream) + 1
      /\ \A k \in 1 .. Len(stream) : stream'[k] = stream[k]
      /\ \A k \in 1 .. Len(stream) : (Names(k)' <=> Names(k)) /\ (IsStart(k)' <=> IsStart(k))
      /\ \A k \in 1 .. Len(stream) : IsEnvelope(k)' <=> IsEnvelope(k)
      /\ \A k \in 1 .. Len(stream) : IsResult(k)' <=> IsResult(k)
  BY DEF Speaks, Extended, Positions, Names, IsStart, IsEnvelope, IsResult
<1>2. /\ Known' = Known /\ New \subseteq Ids /\ Known \subseteq Ids
      /\ New' \subseteq New \cup (Ids' \ Ids) /\ New' \cap Earlier = {} /\ Earlier \subseteq Ids
  BY SpeaksKeeps
<1>3. \A k \in Positions : Names(k) /\ stream[k].id \in New' => stream[k].id \in New
  BY <1>2 DEF Spoken, Named
<1>4. \A id \in Ids : IsOwn(id)' <=> IsOwn(id)
  BY DEF Speaks, Grown, IsOwn
<1>5. Known \cap New' \subseteq Known \cap New
  BY <1>2
<1>6. \A id : StartedBefore(id, i) => StartedBefore(id, i)'
  BY <1>1, StartedStays
<1>7. OrderedAt(i)
  BY DEF InOrder
<1>8. IsResult(i)' => \A id \in stream'[i].turn : StartedBefore(id, i)'
  BY <1>1, <1>6, <1>7 DEF OrderedAt
<1>9. IsEnvelope(i)' /\ stream'[i].id \in New' => StartedBefore(stream[i].id, i)'
  <2>1. SUFFICES ASSUME IsEnvelope(i)', stream'[i].id \in New'
                 PROVE  StartedBefore(stream[i].id, i)'
    OBVIOUS
  <2>2. PICK id : id = stream[i].id
    OBVIOUS
  <2>3. StartedBefore(id, i)
    BY <1>1, <1>3, <1>7, <2>1, <2>2 DEF OrderedAt, Names
  <2>4. StartedBefore(id, i)'
    BY <1>6, <2>3
  <2> QED
    BY <1>1, <2>2, <2>4
<1>10. ASSUME Names(i)', stream'[i].id \in New', IsOwn(stream[i].id)'
       PROVE  /\ \A id \in Known' \cap New' :
                   IsOwn(id)' => id < stream[i].id \/ (id = stream[i].id /\ ~IsStart(i))
              /\ \A j \in 1 .. i - 1 :
                   Names(j)' /\ stream'[j].id \in New' /\ IsOwn(stream[j].id)' =>
                     stream[j].id < stream[i].id \/ (stream[j].id = stream[i].id /\ ~IsStart(i))
  <2>1. PICK x : x = stream[i].id
    OBVIOUS
  <2>2. Names(i) /\ x \in New /\ x \in Ids
    BY <1>1, <1>2, <1>3, <1>10, <2>1
  <2>3. IsOwn(x)'
    BY <1>1, <1>10, <2>1
  <2>4. IsOwn(x)
    BY <1>4, <2>2, <2>3
  <2>5. \A id \in Known' \cap New' :
          IsOwn(id)' => id < x \/ (id = x /\ ~IsStart(i))
    BY <1>2, <1>4, <1>5, <1>7, <2>1, <2>2, <2>4 DEF OrderedAt
  <2>6. ASSUME NEW j \in 1 .. i - 1, Names(j)', stream'[j].id \in New', IsOwn(stream[j].id)'
        PROVE  stream[j].id < x \/ (stream[j].id = x /\ ~IsStart(i))
    <3>1. PICK y : y = stream[j].id
      OBVIOUS
    <3>2. j \in 1 .. Len(stream) /\ stream'[j] = stream[j]
      BY <1>1
    <3>3. Names(j) /\ y \in New /\ y \in Ids
      BY <1>1, <1>2, <1>3, <2>6, <3>1, <3>2 DEF Positions
    <3>4. IsOwn(y)'
      BY <2>6, <3>1, <3>2
    <3>5. IsOwn(y)
      BY <1>4, <3>3, <3>4
    <3> QED
      BY <1>7, <2>1, <2>2, <2>4, <3>1, <3>3, <3>5 DEF OrderedAt
  <2> QED
    BY <2>1, <2>5, <2>6
<1>11. \A j \in 1 .. i - 1 : j \in 1 .. Len(stream)
  BY <1>1
<1> QED
  BY <1>1, <1>8, <1>9, <1>10, <1>11 DEF OrderedAt

\* The SDK speaks of responses in the order it makes them.
LEMMA SdkKeepsOrder ==
    ASSUME Typed, Sequence, Speaking, Spoken, InOrder, Sdk, Speaks
    PROVE  InOrder'
<1>0. /\ New \subseteq New' /\ New' \subseteq New \cup (Ids' \ Ids) /\ New \subseteq Ids
      /\ Known' = Known /\ Known \subseteq Ids /\ New' \cap Earlier = {} /\ Earlier \subseteq Ids
      /\ streamIds' = streamIds /\ Len(stream) \in Nat
  BY SpeaksKeeps DEF Speaks, Extended
<1>1. \A l \in Lanes : streamIds'[l] \in New' => streamIds'[l] \in Known'
  <2>1. \A l \in Lanes : streamIds[l] \in Ids \cup {None}
    BY DEF Typed
  <2>2. \A id \in Ids' : id # None
    BY DEF Ids, None, Speaks, Grown
  <2> QED
    BY <1>0, <2>1, <2>2, SpeaksKeeps DEF InOrder
<1>2. \A id \in New : StartedBefore(id, Len(stream) + 1)'
  <2> TAKE id \in New
  <2>1. PICK k : k = Len(stream) + 1
    OBVIOUS
  <2>2. StartedBefore(id, k)'
    BY <1>0, <2>1, StartedStays DEF InOrder
  <2>3. PICK n \in Nat : n = Len(stream')
    BY DEF Speaks, Extended
  <2>4. k <= n + 1
    BY <2>1, <2>3 DEF Speaks, Extended
  <2>5. \A j \in 1 .. k - 1 : j \in 1 .. (n + 1) - 1
    BY <1>0, <2>1, <2>3, <2>4
  <2> QED
    BY <2>2, <2>3, <2>5 DEF StartedBefore
<1>3. ASSUME NEW x, New' \subseteq New \cup {x},
             \/ x \in New
             \/ Len(stream') = Len(stream) + 1 /\ IsStart(Len(stream))' /\ stream'[Len(stream')].id = x,
             Len(stream') = Len(stream) + 1 => OrderedAt(Len(stream))'
      PROVE  InOrder'
  <2>1. \A id \in New' : StartedBefore(id, Len(stream) + 1)'
    <3> TAKE id \in New'
    <3>1. CASE id \in New
      BY <1>2, <3>1
    <3>2. CASE id = x /\ Len(stream') = Len(stream) + 1 /\ IsStart(Len(stream))'
               /\ stream'[Len(stream')].id = x
      <4>1. PICK n \in Nat \ {0} : n = Len(stream')
        BY <1>0, <3>2
      <4>2. n \in 1 .. (n + 1) - 1
        BY <4>1
      <4> QED
        BY <3>2, <4>1, <4>2 DEF StartedBefore
    <3> QED
      BY <1>3, <3>1, <3>2
  <2>2. \A i \in Positions' : OrderedAt(i)'
    <3> TAKE i \in Positions'
    <3>1. CASE i \in Positions
      BY <3>1, OrderStays
    <3>2. CASE i = Len(stream') /\ Len(stream') = Len(stream) + 1
      BY <1>3, <3>2
    <3> QED
      BY <1>0, <3>1, <3>2 DEF Positions, Speaks, Extended
  <2> QED
    BY <1>1, <2>1, <2>2 DEF InOrder
<1>4. Ids' = Ids => New' = New
  BY <1>0
<1>5. ASSUME Ids' = Ids, Len(stream') = Len(stream) + 1 => OrderedAt(Len(stream))'
      PROVE  InOrder'
  <2>1. CASE New = {}
    <3>1. \A id \in New' : StartedBefore(id, Len(stream) + 1)'
      BY <1>4, <1>5, <2>1
    <3>2. \A i \in Positions' : OrderedAt(i)'
      <4> TAKE i \in Positions'
      <4>1. CASE i \in Positions
        BY <4>1, OrderStays
      <4>2. CASE i = Len(stream') /\ Len(stream') = Len(stream) + 1
        BY <1>5, <4>2
      <4> QED
        BY <1>0, <4>1, <4>2 DEF Positions, Speaks, Extended
    <3> QED
      BY <1>1, <3>1, <3>2 DEF InOrder
  <2>2. CASE New # {}
    <3>1. PICK x \in New : TRUE
      BY <2>2
    <3> QED
      BY <1>3, <1>4, <1>5, <3>1
  <2> QED
    BY <2>1, <2>2
\* The kinds of last message.
<1>6. ASSUME Len(stream') = Len(stream) + 1, ~Names(Len(stream))', ~IsResult(Len(stream))'
      PROVE  OrderedAt(Len(stream))'
  BY <1>6 DEF OrderedAt, Names
<1>7. CASE ReadInput
  <2>1. ~(Names(Len(stream)) \/ IsResult(Len(stream)))'
    BY <1>7, Appended DEF ReadInput, Emit, Names, IsStart, IsEnvelope, IsResult
  <2>2. Ids' = Ids
    BY <1>7 DEF ReadInput, Ids
  <2> QED
    BY <1>5, <1>6, <2>1, <2>2
<1>8. ASSUME NEW lane \in Lanes, NEW n \in {0, 1}, StartResponse(lane, n)
      PROVE  InOrder'
  <2> DEFINE r == [tokens |-> n, texts |-> 0, lane |-> lane]
  <2>1. PICK x : x = Len(responses) + 1
    OBVIOUS
  <2>2. r \in [tokens : Nat, texts : Nat, lane : Lanes] /\ responses' = Append(responses, r)
    BY <1>8 DEF StartResponse
  <2>3. Ids' = Ids \cup {x} /\ x \notin Ids
    BY <2>1, <2>2, AddedResponse
  <2>4. /\ Len(stream') = Len(stream) + 1
        /\ stream'[Len(stream')] = [kind |-> "start", lane |-> lane, id |-> x, tokens |-> n]
        /\ \A k \in 1 .. Len(stream) : stream'[k] = stream[k]
    BY <1>8, <2>1, Appended DEF StartResponse, Emit, Extended
  <2>5. IsStart(Len(stream))' /\ ~IsResult(Len(stream))' /\ ~IsEnvelope(Len(stream))'
    BY <2>4 DEF IsStart, IsResult, IsEnvelope
  <2>6. \A y \in Ids : y < x
    BY <2>1, TypedResponse DEF Ids
  <2>7. ASSUME NEW j \in 1 .. Len(stream') - 1, Names(j)'
        PROVE  stream'[j].id < x
    <3>1. j \in Positions /\ stream'[j] = stream[j]
      BY <1>0, <2>4 DEF Positions
    <3>2. Names(j)
      BY <2>7, <3>1 DEF Names, IsStart, IsEnvelope
    <3>3. stream[j].id \in Ids
      BY <1>0, <3>1, <3>2 DEF Spoken, Named
    <3> QED
      BY <2>6, <3>1, <3>3
  <2>8. OrderedAt(Len(stream))'
    BY <1>0, <2>4, <2>5, <2>6, <2>7 DEF OrderedAt
  <2>9. New' \subseteq New \cup {x}
    BY <1>0, <2>3
  <2> QED
    BY <1>3, <2>4, <2>5, <2>8, <2>9
<1>9. ASSUME NEW lane \in Lanes, NEW streamed \in BOOLEAN, Generate(lane, streamed)
      PROVE  InOrder'
  <2>1. current[lane] \in Ids
    BY <1>9, CurrentIsOpen DEF Generate
  <2>2. Ids' = Ids
    BY <1>9, <2>1, ResponsesByIds, TypedResponse DEF Generate, Ids
  <2>3. CASE UNCHANGED stream
    BY <1>0, <1>5, <2>2, <2>3
  <2>4. CASE Emit([kind |-> "delta", lane |-> lane,
                   tokens |-> responses[current[lane]].tokens + 1])
    <3>1. ~(Names(Len(stream)) \/ IsResult(Len(stream)))'
      BY <2>4, Appended DEF Emit, Names, IsStart, IsEnvelope, IsResult
    <3> QED
      BY <1>5, <1>6, <2>2, <3>1
  <2> QED
    BY <1>9, <2>3, <2>4 DEF Generate
<1>10. ASSUME NEW lane \in Lanes, NEW text \in BOOLEAN, NEW n \in Absent .. MaxTokens,
              SendEnvelope(lane, text, n)
       PROVE  InOrder'
  <2>1. PICK x : x = current[lane]
    OBVIOUS
  <2>2. x \in Ids /\ x \in New /\ responses[x].lane = lane
        /\ \A id \in New : responses[id].lane = lane => id <= x
    BY <1>10, <2>1, CurrentIsOpen DEF SendEnvelope, Speaking
  <2>3. Ids' = Ids
    BY <1>10, <2>1, <2>2, ResponsesByIds, TypedResponse DEF SendEnvelope, Ids
  <2>4. /\ Len(stream') = Len(stream) + 1
        /\ stream'[Len(stream')] = [kind |-> "envelope", lane |-> lane, id |-> x,
                                    text |-> text, tokens |-> n]
        /\ \A k \in 1 .. Len(stream) : stream'[k] = stream[k]
    BY <1>10, <2>1, Appended DEF SendEnvelope, Emit, Extended
  <2>5. ~IsStart(Len(stream))' /\ ~IsResult(Len(stream))'
    BY <2>4 DEF IsStart, IsResult
  <2>6. PICK k : k = Len(stream) + 1
    OBVIOUS
  <2>7. StartedBefore(x, k)'
    BY <1>0, <2>2, <2>6, StartedStays DEF InOrder
  <2>8. StartedBefore(stream[Len(stream)].id, Len(stream))'
    BY <2>4, <2>6, <2>7
  <2>9. \A y \in Ids : IsOwn(y)' <=> IsOwn(y)
    BY DEF Speaks, Grown, IsOwn
  <2>10. ASSUME NEW y \in New, IsOwn(y)', IsOwn(x)'
         PROVE  y < x \/ y = x
    <3>1. y <= x /\ y \in Nat /\ x \in Nat
      BY <1>0, <2>2, <2>9, <2>10, TypedResponse DEF IsOwn
    <3> QED
      BY <3>1
  <2>11. ASSUME NEW j \in 1 .. Len(stream') - 1, Names(j)', stream'[j].id \in New',
                IsOwn(stream[j].id)', IsOwn(x)'
         PROVE  stream'[j].id < x \/ stream'[j].id = x
    <3>1. PICK y : y = stream'[j].id
      OBVIOUS
    <3>2. y \in New
      BY <1>4, <2>3, <2>11, <3>1
    <3>3. IsOwn(y)'
      BY <2>11, <3>1
    <3> QED
      BY <2>10, <2>11, <3>1, <3>2, <3>3
  <2>12. IsOwn(stream[Len(stream)].id)' => IsOwn(x)'
    BY <2>4
  <2>13. OrderedAt(Len(stream))'
    BY <1>0, <1>4, <2>3, <2>4, <2>5, <2>8, <2>10, <2>11, <2>12 DEF OrderedAt
  <2> QED
    BY <1>5, <2>3, <2>13
<1>11. ASSUME NEW id \in Earlier, ReplayStart(id) \/ ReplayEnvelope(id)
       PROVE  InOrder'
  <2>1. /\ Len(stream') = Len(stream) + 1 /\ stream'[Len(stream')].id = id
        /\ stream'[Len(stream')].kind \in {"start", "envelope"}
    BY <1>11, Appended DEF ReplayStart, ReplayEnvelope, Emit
  <2>2. Ids' = Ids
    BY <1>11 DEF ReplayStart, ReplayEnvelope, sdkVars, Ids
  <2>3. ~IsResult(Len(stream))' /\ stream'[Len(stream')].id \notin New'
    BY <1>0, <2>1 DEF IsResult
  <2>4. OrderedAt(Len(stream))'
    BY <2>3 DEF OrderedAt
  <2> QED
    BY <1>5, <2>2, <2>4
<1>12. ASSUME NEW m, m.kind = "result", m.turn = turn, Emit(m), UNCHANGED responses
       PROVE  InOrder'
  <2>1. Len(stream') = Len(stream) + 1 /\ stream'[Len(stream')] = m
    BY <1>12, Appended DEF Emit
  <2>2. ~Names(Len(stream))'
    BY <1>12, <2>1 DEF Names, IsStart, IsEnvelope
  <2>3. \A id \in turn : StartedBefore(id, Len(stream))'
    <3> TAKE id \in turn
    <3>1. PICK k : k = Len(stream) + 1
      OBVIOUS
    <3>2. StartedBefore(id, k)'
      BY <1>0, <3>1, StartedStays DEF InOrder, Speaking
    <3> QED
      BY <2>1, <3>1, <3>2
  <2>4. OrderedAt(Len(stream))'
    BY <1>12, <2>1, <2>2, <2>3 DEF OrderedAt, Names
  <2> QED
    BY <1>5, <1>12, <2>4 DEF Ids
<1>13. ASSUME NEW quoted \in BOOLEAN, NEW metered \in BOOLEAN, NEW failed \in BOOLEAN,
              EndTurn(quoted, metered, failed)
       PROVE  InOrder'
  <2> DEFINE m == Result(IF quoted THEN LastOwn(turn) ELSE None,
                         IF metered THEN TokensOf(turn) ELSE Absent, TRUE, failed)
  <2>1. m.kind = "result" /\ m.turn = turn
    BY DEF Result
  <2>2. Emit(m) /\ UNCHANGED responses
    BY <1>13 DEF EndTurn
  <2> HIDE DEF m
  <2> QED
    BY <2>1, <2>2, <1>12
<1>14. ASSUME NEW text \in Earlier \cup {None}, NEW n \in Absent .. MaxTokens,
              NEW worked \in BOOLEAN, EndEmptyTurn(text, n, worked)
       PROVE  InOrder'
  <2> DEFINE m == Result(text, n, worked, FALSE)
  <2>1. m.kind = "result" /\ m.turn = turn
    BY DEF Result
  <2>2. Emit(m) /\ UNCHANGED responses
    BY <1>14 DEF EndEmptyTurn
  <2> HIDE DEF m
  <2> QED
    BY <2>1, <2>2, <1>12
<1>15. CASE Break
  <2>1. ~(Names(Len(stream)) \/ IsResult(Len(stream)))'
    BY <1>15, Appended DEF Break, Emit, Names, IsStart, IsEnvelope, IsResult
  <2>2. Ids' = Ids
    BY <1>15 DEF Break, sdkVars, Ids
  <2> QED
    BY <1>5, <1>6, <2>1, <2>2
<1> QED
  BY <1>7, <1>8, <1>9, <1>10, <1>11, <1>13, <1>14, <1>15 DEF Sdk

-----------------------------------------------------------------------------
\* After the result of the last input only the stream's failure follows.
LEMMA SdkKeepsLast ==
    ASSUME Typed, InputInv, Speaking, LastResult, Sdk, Speaks
    PROVE  LastResult'
<1>0. /\ Len(stream) \in Nat /\ Len(stream') \in {Len(stream), Len(stream) + 1}
      /\ \A k \in 1 .. Len(stream) : stream'[k] = stream[k]
      /\ \A k \in 1 .. Len(stream) : IsResult(k)' <=> IsResult(k)
      /\ sent' = sent /\ read \in Nat /\ sent \in Nat /\ read <= sent
  BY DEF Speaks, Extended, IsResult, InputInv, Counters
\* What may still be written when the turn is over and every input was read.
<1>1. ASSUME ~busy, read = sent
      PROVE  ~busy' /\ Len(stream') = Len(stream) + 1 /\ stream'[Len(stream')].kind = "failure"
  <2>1. CASE ReadInput
    BY <1>0, <1>1, <2>1 DEF ReadInput
  <2>2. ASSUME NEW lane \in Lanes, NEW n \in {0, 1}, StartResponse(lane, n) PROVE FALSE
    BY <1>1, <2>2 DEF StartResponse
  <2>3. ASSUME NEW lane \in Lanes, NEW streamed \in BOOLEAN, Generate(lane, streamed) PROVE FALSE
    BY <1>1, <2>3, CurrentIsOpen DEF Generate
  <2>4. ASSUME NEW lane \in Lanes, NEW text \in BOOLEAN, NEW n \in Absent .. MaxTokens,
               SendEnvelope(lane, text, n)
        PROVE  FALSE
    BY <1>1, <2>4, CurrentIsOpen DEF SendEnvelope
  <2>5. ASSUME NEW id \in Earlier, ReplayStart(id) \/ ReplayEnvelope(id) PROVE FALSE
    BY <1>1, <2>5 DEF ReplayStart, ReplayEnvelope
  <2>6. ASSUME NEW quoted \in BOOLEAN, NEW metered \in BOOLEAN, NEW failed \in BOOLEAN,
               EndTurn(quoted, metered, failed)
        PROVE  FALSE
    BY <1>1, <2>6 DEF EndTurn
  <2>7. ASSUME NEW text \in Earlier \cup {None}, NEW n \in Absent .. MaxTokens,
               NEW worked \in BOOLEAN, EndEmptyTurn(text, n, worked)
        PROVE  FALSE
    BY <1>1, <2>7 DEF EndEmptyTurn
  <2>8. CASE Break
    BY <1>1, <2>8, Appended DEF Break, Emit, sdkVars, InputInv
  <2> QED
    BY <2>1, <2>2, <2>3, <2>4, <2>5, <2>6, <2>7, <2>8 DEF Sdk
<1>2. read' \in Nat /\ read <= read'
  <2>1. read' = read \/ read' = read + 1
    BY DEF Sdk, ReadInput, StartResponse, Generate, SendEnvelope, ReplayStart, ReplayEnvelope,
           EndTurn, EndEmptyTurn, Break, sdkVars
  <2> QED
    BY <1>0, <2>1
<1>3. ASSUME NEW i \in Positions, IsResult(i)'
      PROVE  /\ stream'[i].inputs \in Nat /\ stream'[i].inputs <= read'
             /\ stream'[i].inputs = sent' =>
                   /\ ~busy'
                   /\ \A j \in i + 1 .. Len(stream') : stream'[j].kind = "failure"
  <2>1. i \in 1 .. Len(stream) /\ IsResult(i)
    BY <1>0, <1>3 DEF Positions
  <2>2. /\ stream[i].inputs \in Nat /\ stream[i].inputs <= read
        /\ stream[i].inputs = sent =>
              /\ ~busy
              /\ \A j \in i + 1 .. Len(stream) : stream[j].kind = "failure"
    BY <2>1 DEF LastResult, Positions
  <2>3. ASSUME stream[i].inputs = sent
        PROVE  ~busy' /\ \A j \in i + 1 .. Len(stream') : stream'[j].kind = "failure"
    <3>1. ~busy /\ read = sent
      BY <1>0, <2>2, <2>3
    <3>2. ~busy' /\ Len(stream') = Len(stream) + 1 /\ stream'[Len(stream')].kind = "failure"
      BY <1>1, <3>1
    <3>3. \A j \in i + 1 .. Len(stream') : j \in i + 1 .. Len(stream) \/ j = Len(stream')
      BY <1>0, <3>2
    <3>4. \A j \in i + 1 .. Len(stream) : stream'[j].kind = "failure"
      BY <1>0, <2>1, <2>2, <2>3
    <3> QED
      BY <3>2, <3>3, <3>4
  <2> QED
    BY <1>0, <1>2, <2>1, <2>2, <2>3
<1>4. ASSUME Len(stream') = Len(stream) + 1, IsResult(Len(stream))'
      PROVE  stream'[Len(stream')].inputs = read /\ read' = read /\ ~busy'
  <2>1. ~busy'
    BY <1>4 DEF Speaks, Turned
  <2>2. CASE ReadInput
    BY <1>4, <2>2, Appended DEF ReadInput, Emit, IsResult, InputInv
  <2>3. ASSUME NEW lane \in Lanes, NEW n \in {0, 1}, StartResponse(lane, n) PROVE FALSE
    BY <1>4, <2>3, Appended DEF StartResponse, Emit, IsResult, InputInv
  <2>4. ASSUME NEW lane \in Lanes, NEW streamed \in BOOLEAN, Generate(lane, streamed) PROVE FALSE
    <3>1. CASE UNCHANGED stream
      BY <1>0, <1>4, <3>1
    <3>2. CASE Emit([kind |-> "delta", lane |-> lane,
                     tokens |-> responses[current[lane]].tokens + 1])
      BY <1>4, <3>2, Appended DEF Emit, IsResult, InputInv
    <3> QED
      BY <2>4, <3>1, <3>2 DEF Generate
  <2>5. ASSUME NEW lane \in Lanes, NEW text \in BOOLEAN, NEW n \in Absent .. MaxTokens,
               SendEnvelope(lane, text, n)
        PROVE  FALSE
    BY <1>4, <2>5, Appended DEF SendEnvelope, Emit, IsResult, InputInv
  <2>6. ASSUME NEW id \in Earlier, ReplayStart(id) \/ ReplayEnvelope(id) PROVE FALSE
    BY <1>4, <2>6, Appended DEF ReplayStart, ReplayEnvelope, Emit, IsResult, InputInv
  <2>7. ASSUME NEW m, m.inputs = read, Emit(m), UNCHANGED read
        PROVE  stream'[Len(stream')].inputs = read /\ read' = read
    BY <2>7, Appended DEF Emit, InputInv
  <2>8. ASSUME NEW quoted \in BOOLEAN, NEW metered \in BOOLEAN, NEW failed \in BOOLEAN,
               EndTurn(quoted, metered, failed)
        PROVE  stream'[Len(stream')].inputs = read /\ read' = read
    <3> DEFINE m == Result(IF quoted THEN LastOwn(turn) ELSE None,
                           IF metered THEN TokensOf(turn) ELSE Absent, TRUE, failed)
    <3>1. m.inputs = read /\ Emit(m) /\ UNCHANGED read
      BY <2>8 DEF EndTurn, Result
    <3> HIDE DEF m
    <3> QED
      BY <2>7, <3>1
  <2>9. ASSUME NEW text \in Earlier \cup {None}, NEW n \in Absent .. MaxTokens,
               NEW worked \in BOOLEAN, EndEmptyTurn(text, n, worked)
        PROVE  stream'[Len(stream')].inputs = read /\ read' = read
    <3> DEFINE m == Result(text, n, worked, FALSE)
    <3>1. m.inputs = read /\ Emit(m) /\ UNCHANGED read
      BY <2>9 DEF EndEmptyTurn, Result
    <3> HIDE DEF m
    <3> QED
      BY <2>7, <3>1
  <2>10. CASE Break
    BY <1>4, <2>10, Appended DEF Break, Emit, IsResult, InputInv
  <2> QED
    BY <2>1, <2>2, <2>3, <2>4, <2>5, <2>6, <2>8, <2>9, <2>10 DEF Sdk
<1>5. ASSUME NEW i \in Positions', IsResult(i)'
      PROVE  /\ stream'[i].inputs \in Nat /\ stream'[i].inputs <= read'
             /\ stream'[i].inputs = sent' =>
                   /\ ~busy'
                   /\ \A j \in i + 1 .. Len(stream') : stream'[j].kind = "failure"
  <2>1. CASE i \in Positions
    BY <1>3, <1>5, <2>1
  <2>2. CASE i = Len(stream') /\ Len(stream') = Len(stream) + 1
    <3>1. stream'[i].inputs = read /\ read' = read /\ ~busy'
      BY <1>4, <1>5, <2>2
    <3>2. \A j \in i + 1 .. Len(stream') : FALSE
      BY <1>0, <2>2
    <3> QED
      BY <1>0, <3>1, <3>2
  <2> QED
    BY <1>0, <2>1, <2>2 DEF Positions
<1> QED
  BY <1>5 DEF LastResult

\* The ledger's counts stay below what the responses make.
LEMMA SdkKeepsMetered ==
    ASSUME Typed, Speaking, Metered, Speaks
    PROVE  Metered'
<1>0. /\ New \subseteq New' /\ New \subseteq Ids /\ Known \subseteq Ids
      /\ UNCHANGED <<ledger, saved, pc, rest, interrupted, dropped>> /\ Len(stream) \in Nat
  BY SpeaksKeeps DEF Speaks, Extended
<1>1. busy' => turn' \cap ledger.sealed = {}
  BY DEF Speaks, Turned, Metered, Typed
<1>2. ASSUME NEW id \in DOMAIN ledger.tokens
      PROVE  /\ NotLater(id)'
             /\ ledger.tokens[id] <= responses'[id].tokens
             /\ ~dropped /\ ledger.tokens[id] > 0 => Belongs(id, 1)'
  <2>1. id \in Ids
    BY DEF Typed
  <2>2. NotLater(id)'
    BY <2>1, NotLaterStays DEF Metered
  <2>3. ledger.tokens[id] <= responses'[id].tokens
    <3>1. responses'[id].tokens \in Nat
      <4> DEFINE R == [tokens : Nat, texts : Nat, lane : Lanes]
      <4>1. responses' \in Seq(R) /\ id \in 1 .. Len(responses')
        BY <2>1 DEF Speaks, Grown, Ids
      <4>2. responses'[id] \in R
        <5> HIDE DEF R
        <5> QED
          BY <4>1
      <4> QED
        BY <4>2
    <3>2. responses[id].tokens \in Nat /\ ledger.tokens[id] \in Nat
      BY <2>1, TypedResponse DEF Typed
    <3>3. ledger.tokens[id] <= responses[id].tokens /\ responses'[id].tokens >= responses[id].tokens
      BY <2>1 DEF Metered, Speaks, Grown
    <3> QED
      BY <3>1, <3>2, <3>3
  <2>4. ~dropped /\ ledger.tokens[id] > 0 => Belongs(id, 1)'
    <3>1. 1 \in 1 .. Len(stream) + 1
      BY <1>0
    <3> QED
      BY <3>1, BelongsStays DEF Metered
  <2> QED
    BY <2>2, <2>3, <2>4
<1>3. DOMAIN ledger.tokens \subseteq New' \ ledger.sealed
  BY <1>0 DEF Metered
<1> QED
  BY <1>0, <1>1, <1>2, <1>3 DEF Metered, HasTokens

-----------------------------------------------------------------------------
\* One text more of a response, or none.
NoText(id) ==
    /\ responses'[id].texts = responses[id].texts
    /\ Len(stream') = Len(stream) + 1 => ~TextOf(id, Len(stream))'
OneText(id) ==
    /\ responses[id].texts < 2 /\ responses'[id].texts = responses[id].texts + 1
    /\ Len(stream') = Len(stream) + 1 /\ TextOf(id, Len(stream))'

\* A text that is written is on its way.
LEMMA TextsGrow ==
    ASSUME Typed, Spoken, Texts, Speaks,
           \A id \in New : NoText(id) \/ OneText(id),
           \A id \in New' \ New :
              /\ responses'[id].texts = 0
              /\ Len(stream') = Len(stream) + 1 => ~TextOf(id, Len(stream))'
    PROVE  Texts'
<1>0. /\ New \subseteq New' /\ New' \subseteq New \cup (Ids' \ Ids) /\ New \subseteq Ids
      /\ Known' = Known /\ Known \subseteq Ids /\ Earlier \subseteq Ids
      /\ UNCHANGED <<ledger, latest, split>>
      /\ Len(stream) \in Nat /\ Len(stream') \in {Len(stream), Len(stream) + 1}
      /\ \A k \in 1 .. Len(stream) : stream'[k] = stream[k]
      /\ \A id \in Ids' : id \in Nat /\ id # None
  BY SpeaksKeeps DEF Speaks, Extended, Ids, None
<1>1. \A id \in Ids : IsOwn(id)' <=> IsOwn(id)
  BY DEF Speaks, Grown, IsOwn
<1>2. Known \cap New' = Known \cap New
  BY <1>0
<1>3. \A id, k : k \in Positions => (TextOf(id, k)' <=> TextOf(id, k)) /\ k \in Positions'
  BY <1>0 DEF TextOf, IsEnvelope, Positions
<1>4. \A k \in Positions' : k \in Positions \/ (k = Len(stream') /\ Len(stream') = Len(stream) + 1)
  BY <1>0 DEF Positions
<1>5. \A id \in New : (Outdated(id)' <=> Outdated(id)) /\ (Retained(id)' <=> Retained(id))
  BY <1>0, <1>1, <1>2 DEF Outdated, Retained
<1>6. latest.id # None =>
        /\ latest.id \in Known' \cap New' /\ IsOwn(latest.id)'
        /\ \A id \in Known' \cap New' : IsOwn(id)' => id <= latest.id
  <2>1. SUFFICES ASSUME latest.id # None
                 PROVE  /\ latest.id \in Known' \cap New' /\ IsOwn(latest.id)'
                        /\ \A id \in Known' \cap New' : IsOwn(id)' => id <= latest.id
    OBVIOUS
  <2>2. PICK x : x = latest.id
    OBVIOUS
  <2>3. x \in Known \cap New /\ IsOwn(x) /\ \A id \in Known \cap New : IsOwn(id) => id <= x
    BY <2>1, <2>2 DEF Texts
  <2>4. IsOwn(x)'
    BY <1>0, <1>1, <2>3
  <2>5. \A id \in Known' \cap New' : IsOwn(id)' => id <= x
    BY <1>0, <1>1, <1>2, <2>3
  <2>6. IsOwn(latest.id)'
    BY <1>0, <2>2, <2>4
  <2> QED
    BY <1>0, <2>2, <2>3, <2>5, <2>6
<1>7. ASSUME NEW id \in New', IsOwn(id)'
      PROVE  (/\ responses[id].texts <= 2
              /\ responses[id].texts = 0 =>
                    /\ ~Retained(id)
                    /\ \A i \in Positions : ~TextOf(id, i)
              /\ responses[id].texts = 1 =>
                    \/ Outdated(id)
                    \/ Retained(id)
                    \/ \E i \in Positions : TextOf(id, i)
              /\ responses[id].texts = 2 =>
                    \/ Outdated(id)
                    \/ Retained(id) /\ split
                    \/ Retained(id) /\ \E i \in Positions : TextOf(id, i)
                    \/ \E i, j \in Positions : i # j /\ TextOf(id, i) /\ TextOf(id, j))'
  <2>1. CASE id \notin New
    <3>1. id \in Nat /\ id # None /\ id \notin Ids
      BY <1>0, <2>1
    <3>2. ~Retained(id)'
      BY <1>0, <3>1 DEF Retained, Texts
    <3>3. \A i \in Positions : ~TextOf(id, i)
      BY <1>0, <3>1 DEF Spoken, Named, Names, TextOf
    <3>4. responses'[id].texts = 0 /\ (Len(stream') = Len(stream) + 1 => ~TextOf(id, Len(stream))')
      BY <2>1
    <3>5. \A i \in Positions' : ~TextOf(id, i)'
      BY <1>3, <1>4, <3>3, <3>4
    <3> QED
      BY <3>2, <3>4, <3>5
  <2>2. CASE id \in New
    <3>1. IsOwn(id) /\ responses[id].texts \in Nat
      BY <1>0, <1>1, <1>7, <2>2, TypedResponse
    <3>2. /\ responses[id].texts <= 2
          /\ responses[id].texts = 0 =>
                /\ ~Retained(id)
                /\ \A i \in Positions : ~TextOf(id, i)
          /\ responses[id].texts = 1 =>
                \/ Outdated(id)
                \/ Retained(id)
                \/ \E i \in Positions : TextOf(id, i)
          /\ responses[id].texts = 2 =>
                \/ Outdated(id)
                \/ Retained(id) /\ split
                \/ Retained(id) /\ \E i \in Positions : TextOf(id, i)
                \/ \E i, j \in Positions : i # j /\ TextOf(id, i) /\ TextOf(id, j)
      BY <2>2, <3>1 DEF Texts
    <3>3. /\ Outdated(id)' <=> Outdated(id)
          /\ Retained(id)' <=> Retained(id)
          /\ split' = split
      BY <1>0, <1>5, <2>2
    <3>4. (\E i \in Positions : TextOf(id, i)) => \E i \in Positions' : TextOf(id, i)'
      BY <1>3
    <3>5. (\E i, j \in Positions : i # j /\ TextOf(id, i) /\ TextOf(id, j))
             => \E i, j \in Positions' : i # j /\ TextOf(id, i)' /\ TextOf(id, j)'
      BY <1>3
    <3>6. CASE NoText(id)
      <4>1. responses'[id].texts = responses[id].texts
        BY <3>6 DEF NoText
      <4>2. (\A i \in Positions : ~TextOf(id, i)) => \A i \in Positions' : ~TextOf(id, i)'
        BY <1>3, <1>4, <3>6 DEF NoText
      <4> QED
        BY <3>2, <3>3, <3>4, <3>5, <4>1, <4>2
    <3>7. CASE OneText(id)
      <4>1. /\ responses[id].texts < 2 /\ responses'[id].texts = responses[id].texts + 1
        BY <3>7 DEF OneText
      <4>2. PICK n : n = Len(stream')
        OBVIOUS
      <4>3. n \in Positions' /\ n \notin Positions /\ TextOf(id, n)'
        BY <1>0, <3>7, <4>2 DEF OneText, Positions
      <4>4. CASE responses[id].texts = 0
        <5>1. responses'[id].texts = 1 /\ \E i \in Positions' : TextOf(id, i)'
          BY <4>1, <4>3, <4>4
        <5> QED
          BY <5>1
      <4>5. CASE responses[id].texts = 1
        <5>1. responses'[id].texts = 2
          BY <4>1, <4>5
        <5>2. CASE Outdated(id)
          BY <3>3, <5>1, <5>2
        <5>3. CASE Retained(id)
          BY <3>3, <4>3, <5>1, <5>3
        <5>4. CASE \E i \in Positions : TextOf(id, i)
          <6>1. PICK i \in Positions : TextOf(id, i)
            BY <5>4
          <6>2. i \in Positions' /\ i # n /\ TextOf(id, i)'
            BY <1>3, <4>3, <6>1
          <6> QED
            BY <4>3, <5>1, <6>2
        <5> QED
          BY <3>2, <4>5, <5>2, <5>3, <5>4
      <4> QED
        BY <3>1, <4>1, <4>4, <4>5
    <3> QED
      BY <2>2, <3>6, <3>7
  <2> QED
    BY <2>1, <2>2
<1> QED
  BY <1>0, <1>6, <1>7 DEF Texts

\* Texts, under every step of the SDK.
LEMMA SdkKeepsTexts ==
    ASSUME Typed, Sequence, Speaking, Spoken, Texts, Sdk, Speaks
    PROVE  Texts'
<1>0. /\ New' \subseteq New \cup (Ids' \ Ids) /\ New \subseteq Ids
      /\ Earlier \subseteq Ids /\ New \cap Earlier = {}
  BY SpeaksKeeps DEF New, Earlier
<1>1. ASSUME UNCHANGED responses, ~IsEnvelope(Len(stream))'
      PROVE  Texts'
  <2>1. New' = New
    BY <1>0, <1>1 DEF Ids, New, Speaks
  <2>2. \A id \in New : NoText(id)
    BY <1>1 DEF NoText, TextOf
  <2> QED
    BY <2>1, <2>2, TextsGrow
<1>2. CASE ReadInput
  BY <1>1, <1>2, Appended DEF ReadInput, Emit, IsEnvelope
<1>3. ASSUME NEW lane \in Lanes, NEW n \in {0, 1}, StartResponse(lane, n)
      PROVE  Texts'
  <2> DEFINE r == [tokens |-> n, texts |-> 0, lane |-> lane]
  <2>1. PICK x : x = Len(responses) + 1
    OBVIOUS
  <2>2. r \in [tokens : Nat, texts : Nat, lane : Lanes] /\ responses' = Append(responses, r)
    BY <1>3 DEF StartResponse
  <2>3. /\ Ids' = Ids \cup {x} /\ x \notin Ids /\ responses'[x] = r
        /\ \A y \in Ids : responses'[y] = responses[y]
    BY <2>1, <2>2, AddedResponse
  <2>4. ~IsEnvelope(Len(stream))'
    BY <1>3, Appended DEF StartResponse, Emit, IsEnvelope
  <2>5. \A id \in New : NoText(id)
    BY <1>0, <2>3, <2>4 DEF NoText, TextOf
  <2>6. \A id \in New' \ New : responses'[id].texts = 0 /\ ~TextOf(id, Len(stream))'
    BY <1>0, <2>3, <2>4 DEF TextOf
  <2> QED
    BY <2>5, <2>6, TextsGrow
<1>4. ASSUME NEW lane \in Lanes, NEW streamed \in BOOLEAN, Generate(lane, streamed)
      PROVE  Texts'
  <2>1. PICK x : x = current[lane]
    OBVIOUS
  <2>2. x \in Ids
    BY <1>4, <2>1, CurrentIsOpen DEF Generate
  <2>3. responses' = [responses EXCEPT ![x].tokens = @ + 1]
    BY <1>4, <2>1 DEF Generate
  <2>4. Ids' = Ids /\ \A y \in Ids : responses'[y].texts = responses[y].texts
    <3>1. responses = [i \in Ids |-> responses[i]] /\ Len(responses') = Len(responses)
      BY <2>2, <2>3, ResponsesByIds, TypedResponse DEF Ids
    <3>2. responses[x] \in [tokens : Nat, texts : Nat, lane : Lanes]
      BY <2>2, TypedResponse
    <3>3. \A y \in Ids : responses'[y] = IF y = x THEN [responses[x] EXCEPT !.tokens = @ + 1]
                                         ELSE responses[y]
      BY <2>2, <2>3, <3>1
    <3>4. [responses[x] EXCEPT !.tokens = @ + 1].texts = responses[x].texts
      BY <3>2
    <3> QED
      BY <3>1, <3>3, <3>4 DEF Ids
  <2>5. Len(stream') = Len(stream) + 1 => ~IsEnvelope(Len(stream))'
    <3>1. CASE UNCHANGED stream
      BY <3>1 DEF Sequence
    <3>2. CASE Emit([kind |-> "delta", lane |-> lane,
                     tokens |-> responses[current[lane]].tokens + 1])
      BY <3>2, Appended DEF Emit, IsEnvelope
    <3> QED
      BY <1>4, <3>1, <3>2 DEF Generate
  <2>6. \A id \in New : NoText(id)
    BY <1>0, <2>4, <2>5 DEF NoText, TextOf
  <2>7. New' \ New = {}
    BY <1>0, <2>4
  <2> QED
    BY <2>6, <2>7, TextsGrow
<1>5. ASSUME NEW lane \in Lanes, NEW text \in BOOLEAN, NEW n \in Absent .. MaxTokens,
             SendEnvelope(lane, text, n)
      PROVE  Texts'
  <2>1. PICK x : x = current[lane]
    OBVIOUS
  <2>2. x \in Ids
    BY <1>5, <2>1, CurrentIsOpen DEF SendEnvelope
  <2>3. /\ responses' = [responses EXCEPT ![x].texts = IF text THEN @ + 1 ELSE @]
        /\ text => responses[x].texts < 2
    BY <1>5, <2>1 DEF SendEnvelope
  <2>4. /\ Ids' = Ids
        /\ \A y \in Ids : y # x => responses'[y] = responses[y]
        /\ responses'[x].texts = IF text THEN responses[x].texts + 1 ELSE responses[x].texts
    <3>1. responses = [i \in Ids |-> responses[i]] /\ Len(responses') = Len(responses)
      BY <2>2, <2>3, ResponsesByIds, TypedResponse DEF Ids
    <3>2. responses[x] \in [tokens : Nat, texts : Nat, lane : Lanes]
      BY <2>2, TypedResponse
    <3>3. \A y \in Ids : responses'[y] =
                           IF y = x THEN [responses[x] EXCEPT !.texts = IF text THEN @ + 1 ELSE @]
                           ELSE responses[y]
      BY <2>2, <2>3, <3>1
    <3>4. [responses[x] EXCEPT !.texts = IF text THEN @ + 1 ELSE @].texts
            = IF text THEN responses[x].texts + 1 ELSE responses[x].texts
      BY <3>2
    <3>5. responses'[x].texts = IF text THEN responses[x].texts + 1 ELSE responses[x].texts
      <4>1. responses'[x] = [responses[x] EXCEPT !.texts = IF text THEN @ + 1 ELSE @]
        BY <2>2, <3>3
      <4> QED
        BY <3>4, <4>1
    <3>6. Ids' = Ids
      BY <3>1 DEF Ids
    <3>7. \A y \in Ids : y # x => responses'[y] = responses[y]
      BY <3>3
    <3> QED
      BY <3>5, <3>6, <3>7
  <2>5. /\ Len(stream') = Len(stream) + 1
        /\ stream'[Len(stream')] = [kind |-> "envelope", lane |-> lane, id |-> x,
                                    text |-> text, tokens |-> n]
    BY <1>5, <2>1, Appended DEF SendEnvelope, Emit
  <2>6. \A id : TextOf(id, Len(stream))' <=> id = x /\ text
    BY <2>5 DEF TextOf, IsEnvelope
  <2>7. \A id \in New : NoText(id) \/ OneText(id)
    <3> TAKE id \in New
    <3>1. CASE id = x /\ text
      BY <2>3, <2>4, <2>5, <2>6, <3>1 DEF OneText
    <3>2. CASE id # x \/ ~text
      BY <1>0, <2>4, <2>6, <3>2 DEF NoText
    <3> QED
      BY <3>1, <3>2
  <2>8. New' \ New = {}
    BY <1>0, <2>4
  <2> QED
    BY <2>7, <2>8, TextsGrow
<1>6. ASSUME NEW id \in Earlier, ReplayStart(id)
      PROVE  Texts'
  BY <1>1, <1>6, Appended DEF ReplayStart, Emit, IsEnvelope, sdkVars
<1>7. ASSUME NEW id \in Earlier, ReplayEnvelope(id)
      PROVE  Texts'
  <2>1. UNCHANGED responses
    BY <1>7 DEF ReplayEnvelope, sdkVars
  <2>2. New' = New
    BY <1>0, <2>1 DEF Ids, New, Speaks
  <2>3. stream'[Len(stream')].id = id
    BY <1>7, Appended DEF ReplayEnvelope, Emit
  <2>4. \A x \in New : NoText(x)
    BY <1>0, <2>1, <2>3 DEF NoText, TextOf
  <2> QED
    BY <2>2, <2>4, TextsGrow
<1>8. ASSUME NEW m, m.kind = "result", Emit(m), UNCHANGED responses
      PROVE  Texts'
  BY <1>1, <1>8, Appended DEF Emit, IsEnvelope
<1>9. ASSUME NEW quoted \in BOOLEAN, NEW metered \in BOOLEAN, NEW failed \in BOOLEAN,
             EndTurn(quoted, metered, failed)
      PROVE  Texts'
  <2> DEFINE m == Result(IF quoted THEN LastOwn(turn) ELSE None,
                         IF metered THEN TokensOf(turn) ELSE Absent, TRUE, failed)
  <2>1. m.kind = "result" /\ Emit(m) /\ UNCHANGED responses
    BY <1>9 DEF EndTurn, Result
  <2> HIDE DEF m
  <2> QED
    BY <2>1, <1>8
<1>10. ASSUME NEW text \in Earlier \cup {None}, NEW n \in Absent .. MaxTokens,
              NEW worked \in BOOLEAN, EndEmptyTurn(text, n, worked)
       PROVE  Texts'
  <2> DEFINE m == Result(text, n, worked, FALSE)
  <2>1. m.kind = "result" /\ Emit(m) /\ UNCHANGED responses
    BY <1>10 DEF EndEmptyTurn, Result
  <2> HIDE DEF m
  <2> QED
    BY <2>1, <1>8
<1>11. CASE Break
  BY <1>1, <1>11, Appended DEF Break, Emit, IsEnvelope, sdkVars
<1> QED
  BY <1>2, <1>3, <1>4, <1>5, <1>6, <1>7, <1>9, <1>10, <1>11 DEF Sdk

-----------------------------------------------------------------------------
\* The ledger's totals are naturals.
LEMMA OutputNat ==
    ASSUME Typed
    PROVE  TurnTokens(ledger) \in Nat /\ Output(ledger) \in Nat /\ ledger.completed \in Nat
<1>1. IsFiniteSet(DOMAIN ledger.tokens)
  BY IdsFinite DEF Typed
<1>2. \A x \in DOMAIN ledger.tokens : ledger.tokens[x] \in Nat
  BY DEF Typed
<1>3. SumFunctionOnSet(ledger.tokens, DOMAIN ledger.tokens) \in Nat
  BY <1>1, <1>2, SumNat
<1> QED
  BY <1>3 DEF TurnTokens, SumFunction, Output, Typed

\* Types, under every step of the SDK.
LEMMA SdkKeepsTyped ==
    ASSUME Typed, Speaks
    PROVE  Typed'
<1>1. UNCHANGED <<lost, saved, spent, start, ledger, streamIds>>
  BY DEF Speaks
<1>2. Ids \subseteq Ids' /\ Len(responses) <= Len(responses')
      /\ Len(responses) \in Nat /\ Len(responses') \in Nat
  BY DEF Speaks, Grown, Ids
<1>3. responses' \in Seq([tokens : Nat, texts : Nat, lane : Lanes])
  BY DEF Speaks, Grown
<1>4. saved'.responses \in 0 .. Len(responses')
  BY <1>1, <1>2 DEF Typed
<1>5. streamIds' \in [Lanes -> Ids' \cup {None}]
  <2>1. streamIds \in [Lanes -> Ids \cup {None}]
    BY DEF Typed
  <2> QED
    BY <1>1, <1>2, <2>1
<1> QED
  BY <1>1, <1>2, <1>3, <1>4, <1>5 DEF Typed

\* The charge is at most what the provider made, also when it makes more.
LEMMA SdkKeepsBooks ==
    ASSUME Typed, Running, Books, Speaks
    PROVE  Books'
<1>1. /\ UNCHANGED <<pc, rest, spent, start, saved, ledger, dropped, exact, billed, interrupted>>
      /\ Earlier' = Earlier /\ New \subseteq Ids /\ New' \subseteq Ids' /\ New \subseteq New'
      /\ Grown
  BY SpeaksKeeps DEF Speaks
<1>2. PICK a, b : a = New /\ b = New'
  OBVIOUS
<1>3. TokensOf(a) <= TokensOf(b)' /\ TokensOf(a) \in Nat
  BY <1>1, <1>2, TokensGrow, TokensNat
<1>4. TokensOf(New) <= TokensOf(New)' /\ TokensOf(New) \in Nat
  BY <1>2, <1>3
<1>5. PICK c, d : c = New \cap ledger.sealed /\ d = New' \cap ledger'.sealed
  OBVIOUS
<1>6. TokensOf(c) <= TokensOf(d)' /\ TokensOf(c) \in Nat
  BY <1>1, <1>5, TokensGrow, TokensNat
<1>7. TokensOf(New \cap ledger.sealed) <= TokensOf(New \cap ledger.sealed)'
      /\ TokensOf(New \cap ledger.sealed) \in Nat
  BY <1>5, <1>6
<1>8. TokensOf(New)' \in Nat /\ TokensOf(New \cap ledger.sealed)' \in Nat
  <2>1. TokensOf(b)' \in Nat /\ TokensOf(d)' \in Nat
    BY <1>1, <1>2, <1>5, TokensGrow
  <2> QED
    BY <1>2, <1>5, <2>1
<1>9. Output(ledger) \in Nat /\ ledger.completed \in Nat
  BY OutputNat
<1>10. pc \in {"begin", "receive", "react"}
  BY DEF Running
<1>11. (~dropped => Output(ledger) <= TokensOf(New))
       => (~dropped => Output(ledger) <= TokensOf(New)')
  BY <1>4, <1>8, <1>9
<1>12. (~dropped => ledger.completed <= TokensOf(New \cap ledger.sealed))
       => (~dropped => ledger.completed <= TokensOf(New \cap ledger.sealed)')
  BY <1>7, <1>8, <1>9
<1>13. Output(ledger)' = Output(ledger)
  BY <1>1
<1> QED
  BY <1>1, <1>10, <1>11, <1>12, <1>13 DEF Books, Running

-----------------------------------------------------------------------------
(* Steps of AgentSession: it takes the message at the head, and hears of   *)
(* at most one response it did not know.                                   *)

Hears ==
    /\ pc = "receive" /\ Sequence /\ stream # <<>> /\ stream' = Tail(stream)
    /\ UNCHANGED sdkVars /\ UNCHANGED <<saved, start, interrupted, sent>>

\* The lane of a start is at that response.
LanesHeard ==
    \A l \in Lanes : streamIds'[l] = IF StartsLane(l, 1) THEN stream[1].id ELSE streamIds[l]

KnownHeard ==
    /\ Known \subseteq Known'
    /\ IsStart(1) => stream[1].id \in Known'
    /\ \A id \in Known' \ Known : IsStart(1) /\ id = stream[1].id

\* The stream without its head.
LEMMA Heard ==
    ASSUME Hears
    PROVE  /\ Sequence'
           /\ Len(stream) \in Nat \ {0} /\ Len(stream') = Len(stream) - 1
           /\ \A i \in 1 .. Len(stream') : i + 1 \in Positions /\ stream'[i] = stream[i + 1]
           /\ Head(stream) = stream[1] /\ 1 \in Positions
           /\ New' = New /\ Earlier' = Earlier /\ Ids' = Ids
<1>1. /\ Sequence'
      /\ Len(stream) \in Nat \ {0} /\ Len(stream') = Len(stream) - 1
      /\ \A i \in 1 .. Len(stream) - 1 : stream'[i] = stream[i + 1]
      /\ Head(stream) = stream[1]
  BY TakenMessage DEF Hears
<1>2. New' = New /\ Earlier' = Earlier /\ Ids' = Ids
  BY DEF Hears, sdkVars, New, Earlier, Ids
<1> QED
  BY <1>1, <1>2 DEF Positions

\* Turns, once the head is taken.
LEMMA BelongsShift ==
    ASSUME Hears, NEW id, NEW i \in 1 .. Len(stream), Belongs(id, i + 1)
    PROVE  Belongs(id, i)'
<1>1. UNCHANGED <<busy, turn>>
  BY DEF Hears, sdkVars
<1>2. ASSUME NEW j \in i .. Len(stream'), IsResult(j)', NoResult(i, j - 1)'
      PROVE  id \in stream'[j].turn
  <2>1. j + 1 \in i + 1 .. Len(stream) /\ IsResult(j + 1) /\ stream'[j] = stream[j + 1]
    BY <1>2, Heard DEF IsResult
  <2>2. NoResult(i + 1, j)
    <3> SUFFICES ASSUME NEW k \in i + 1 .. j, IsResult(k) PROVE FALSE
      BY DEF NoResult
    <3>1. k - 1 \in i .. j - 1 /\ k - 1 \in 1 .. Len(stream') /\ (k - 1) + 1 = k
      BY <1>2, Heard
    <3>2. IsResult(k - 1)'
      BY <3>1, Heard DEF IsResult
    <3> QED
      BY <1>2, <3>1, <3>2 DEF NoResult
  <2>3. (j + 1) - 1 = j
    BY <2>1
  <2> QED
    BY <2>1, <2>2, <2>3 DEF Belongs
<1>3. ASSUME NoResult(i, Len(stream))'
      PROVE  busy /\ id \in turn
  <2>1. NoResult(i + 1, Len(stream))
    <3> SUFFICES ASSUME NEW k \in i + 1 .. Len(stream), IsResult(k) PROVE FALSE
      BY DEF NoResult
    <3>1. k - 1 \in i .. Len(stream') /\ k - 1 \in 1 .. Len(stream') /\ (k - 1) + 1 = k
      BY Heard
    <3>2. IsResult(k - 1)'
      BY <3>1, Heard DEF IsResult
    <3> QED
      BY <1>3, <3>1, <3>2 DEF NoResult
  <2> QED
    BY <2>1 DEF Belongs
<1> QED
  BY <1>1, <1>2, <1>3 DEF Belongs

\* The turn of a response is the same before and after a message that is no result.
LEMMA BelongsHead ==
    ASSUME Hears, NEW id, ~IsResult(1), Belongs(id, 1)
    PROVE  Belongs(id, 1)'
<1>1. \A j : NoResult(2, j) => NoResult(1, j)
  BY DEF NoResult
<1>2. Belongs(id, 1 + 1)
  <2>1. ASSUME NEW j \in 1 + 1 .. Len(stream), IsResult(j), NoResult(1 + 1, j - 1)
        PROVE  id \in stream[j].turn
    <3>1. j \in 1 .. Len(stream) /\ NoResult(1, j - 1)
      BY <1>1, <2>1, Heard
    <3> QED
      BY <2>1, <3>1 DEF Belongs
  <2>2. NoResult(1 + 1, Len(stream)) => NoResult(1, Len(stream))
    BY <1>1
  <2> QED
    BY <2>1, <2>2 DEF Belongs
<1>3. 1 \in 1 .. Len(stream)
  BY Heard
<1> QED
  BY <1>2, <1>3, BelongsShift

\* No later turn, once the head is taken.
LEMMA NotLaterShift ==
    ASSUME Hears, NEW id, NotLater(id)
    PROVE  NotLater(id)'
<1>1. UNCHANGED <<busy, turn>>
  BY DEF Hears, sdkVars
<1>2. ASSUME NEW j \in 1 .. Len(stream'), IsResult(j)', id \in stream'[j].turn
      PROVE  NoResult(1, j - 1)'
  <2>1. j + 1 \in Positions /\ IsResult(j + 1) /\ id \in stream[j + 1].turn /\ (j + 1) - 1 = j
    BY <1>2, Heard DEF IsResult
  <2>2. NoResult(1, j)
    BY <2>1 DEF NotLater
  <2> SUFFICES ASSUME NEW k \in 1 .. j - 1, IsResult(k)' PROVE FALSE
    BY DEF NoResult
  <2>3. k + 1 \in 1 .. j /\ IsResult(k + 1)
    BY <2>1, Heard DEF IsResult, Positions
  <2> QED
    BY <2>2, <2>3 DEF NoResult
<1>3. ASSUME NoResult(1, Len(stream))
      PROVE  NoResult(1, Len(stream))'
  BY <1>3, Heard DEF NoResult, IsResult
<1> QED
  BY <1>1, <1>2, <1>3 DEF NotLater, Positions

\* Lanes, once a start at the head is heard.
LEMMA OwnsShift ==
    ASSUME Hears, LanesHeard, NEW l \in Lanes, NEW id, NEW i \in 1 .. Len(stream),
           Owns(l, id, i + 1)
    PROVE  Owns(l, id, i)'
<1>0. ASSUME NEW k \in 1 .. i - 1
      PROVE  /\ k + 1 \in 1 .. i /\ stream'[k] = stream[k + 1]
             /\ StartsLane(l, k)' <=> StartsLane(l, k + 1)
  BY Heard DEF StartsLane, IsStart
<1>1. CASE /\ streamIds[l] = id
           /\ \A k \in 1 .. (i + 1) - 1 : ~StartsLane(l, k)
  <2>1. ~StartsLane(l, 1)
    BY <1>1
  <2>2. \A k \in 1 .. i - 1 : ~StartsLane(l, k)'
    BY <1>0, <1>1
  <2> QED
    BY <1>1, <2>1, <2>2 DEF Owns, LanesHeard
<1>2. ASSUME NEW j \in 1 .. (i + 1) - 1, StartsLane(l, j), stream[j].id = id,
             \A k \in j + 1 .. (i + 1) - 1 : ~StartsLane(l, k)
      PROVE  Owns(l, id, i)'
  <2>1. CASE j = 1
    <3>1. \A k \in 1 .. i - 1 : ~StartsLane(l, k)'
      <4> TAKE k \in 1 .. i - 1
      <4>1. k + 1 \in j + 1 .. (i + 1) - 1
        BY <2>1
      <4> QED
        BY <1>0, <1>2, <4>1
    <3> QED
      BY <1>2, <2>1, <3>1 DEF Owns, LanesHeard
  <2>2. CASE j # 1
    <3>1. j - 1 \in 1 .. i - 1 /\ (j - 1) + 1 = j
      BY <2>2
    <3>2. StartsLane(l, j - 1)' /\ stream'[j - 1].id = id
      BY <1>0, <1>2, <3>1
    <3>3. \A k \in (j - 1) + 1 .. i - 1 : ~StartsLane(l, k)'
      <4> TAKE k \in (j - 1) + 1 .. i - 1
      <4>1. k + 1 \in j + 1 .. (i + 1) - 1 /\ k \in 1 .. i - 1
        BY <3>1
      <4> QED
        BY <1>0, <1>2, <4>1
    <3> QED
      BY <3>1, <3>2, <3>3 DEF Owns
  <2> QED
    BY <2>1, <2>2
<1> QED
  BY <1>1, <1>2 DEF Owns

\* Heard of, once the head is taken.
LEMMA StartedShift ==
    ASSUME Hears, KnownHeard, NEW id, NEW i \in 1 .. Len(stream), StartedBefore(id, i + 1)
    PROVE  StartedBefore(id, i)'
<1>1. CASE id \in Known
  BY <1>1 DEF StartedBefore, KnownHeard
<1>2. ASSUME NEW j \in 1 .. (i + 1) - 1, IsStart(j), stream[j].id = id
      PROVE  StartedBefore(id, i)'
  <2>1. CASE j = 1
    BY <1>2, <2>1 DEF StartedBefore, KnownHeard
  <2>2. CASE j # 1
    <3>1. j - 1 \in 1 .. i - 1 /\ j - 1 \in 1 .. Len(stream') /\ (j - 1) + 1 = j
      BY <2>2, Heard
    <3>2. IsStart(j - 1)' /\ stream'[j - 1].id = id
      BY <1>2, <3>1, Heard DEF IsStart
    <3> QED
      BY <3>1, <3>2 DEF StartedBefore
  <2> QED
    BY <2>1, <2>2
<1> QED
  BY <1>1, <1>2 DEF StartedBefore

\* Taking a message does not change the turn in progress.
LEMMA HeardSpeaking ==
    ASSUME Hears, LanesHeard, Speaking
    PROVE  Speaking'
<1>1. UNCHANGED <<busy, turn, current, responses>> /\ New' = New
  BY Heard DEF Hears, sdkVars
<1>2. ASSUME NEW l \in Lanes, NEW c, c = current[l], c # None
      PROVE  Owns(l, c, Len(stream) + 1)'
  <2>1. Owns(l, c, Len(stream) + 1)
    BY <1>2 DEF Speaking
  <2>2. PICK n : n = Len(stream)
    OBVIOUS
  <2>3. Owns(l, c, n)' /\ n = Len(stream') + 1
    BY <2>1, <2>2, OwnsShift, Heard
  <2> QED
    BY <2>3
<1>3. ASSUME NEW l \in Lanes, current[l] # None
      PROVE  Owns(l, current[l], Len(stream) + 1)'
  <2>1. PICK c : c = current[l]
    OBVIOUS
  <2>2. Owns(l, c, Len(stream) + 1)'
    BY <1>2, <1>3, <2>1
  <2> QED
    BY <1>1, <2>1, <2>2
<1> QED
  BY <1>1, <1>3 DEF Speaking

\* Taking a message leaves the others true.
LEMMA HeardSpoken ==
    ASSUME Hears, LanesHeard, Typed, Spoken,
           \A i \in 2 .. Len(stream) : IsResult(i) => stream[i].turn \cap ledger'.sealed = {}
    PROVE  Spoken'
<1>1. UNCHANGED <<busy, turn, responses>> /\ New' = New /\ Earlier' = Earlier
  BY Heard DEF Hears, sdkVars
<1> SUFFICES ASSUME NEW i \in 1 .. Len(stream')
             PROVE  (/\ Names(i) => Named(i)
                     /\ IsDelta(i) => Counted(i)
                     /\ IsResult(i) => Resulted(i))'
  BY DEF Spoken, Positions
<1>2. PICK s : s = stream[i + 1]
  OBVIOUS
<1>3. /\ stream'[i] = s /\ i + 1 \in Positions /\ i \in 1 .. Len(stream)
      /\ i + 1 \in 2 .. Len(stream)
  BY <1>2, Heard
<1>4. /\ Names(i)' = Names(i + 1) /\ IsDelta(i)' = IsDelta(i + 1)
      /\ IsResult(i)' = IsResult(i + 1) /\ IsStart(i)' = IsStart(i + 1)
  BY <1>2, <1>3 DEF Names, IsStart, IsEnvelope, IsDelta, IsResult
<1>5. ASSUME Names(i + 1) PROVE Named(i)'
  <2>1. Named(i + 1)
    BY <1>3, <1>5 DEF Spoken
  <2>2. s.id \in New => Belongs(s.id, i)'
    <3> SUFFICES ASSUME s.id \in New PROVE Belongs(s.id, i)'
      OBVIOUS
    <3>1. Belongs(s.id, i + 1)
      BY <1>2, <2>1 DEF Named
    <3> QED
      BY <1>3, <3>1, BelongsShift
  <2>3. stream'[i].id \in New => Belongs(stream[i].id, i)'
    BY <1>3, <2>2
  <2> QED
    BY <1>1, <1>2, <1>3, <1>4, <2>1, <2>3 DEF Named
<1>6. ASSUME IsDelta(i + 1) PROVE Counted(i)'
  <2>1. Counted(i + 1)
    BY <1>3, <1>6 DEF Spoken
  <2>2. PICK id \in New : /\ Owns(s.lane, id, i + 1)
                          /\ s.tokens <= responses[id].tokens
                          /\ Belongs(id, i + 1)
    BY <1>2, <2>1 DEF Counted
  <2>3. s.lane \in Lanes /\ s.tokens \in Nat
    BY <1>2, <2>1 DEF Counted
  <2>4. Owns(s.lane, id, i)' /\ Belongs(id, i)'
    BY <1>3, <2>2, <2>3, OwnsShift, BelongsShift
  <2>5. Owns(stream[i].lane, id, i)'
    BY <1>3, <2>4
  <2> QED
    BY <1>1, <1>3, <2>2, <2>3, <2>4, <2>5 DEF Counted
<1>7. ASSUME IsResult(i + 1) PROVE Resulted(i)'
  <2>1. Resulted(i + 1)
    BY <1>3, <1>7 DEF Spoken
  <2>2. s.turn \cap ledger'.sealed = {}
    BY <1>2, <1>3, <1>7
  <2>3. PICK T, F : T = TokensOf(s.turn) /\ F = LastOwn(s.turn)
    OBVIOUS
  <2>4. TokensOf(s.turn)' = T /\ LastOwn(s.turn)' = F
    BY <1>1, <2>3 DEF TokensOf, Ids, LastOwn
  <2>5. TokensOf(stream[i].turn)' = T /\ LastOwn(stream[i].turn)' = F
    BY <1>3, <2>4
  <2>6. /\ s.turn \subseteq New
        /\ s.tokens \in Nat \cup {Absent}
        /\ s.failed => s.turn # {}
        /\ s.turn # {} => s.tokens \in {Absent, T} /\ s.text \in {None, F}
        /\ busy => s.turn \cap turn = {}
    BY <1>2, <2>1, <2>3 DEF Resulted
  <2>7. \A j \in 1 .. Len(stream') :
          IsResult(j)' /\ i # j => s.turn \cap stream'[j].turn = {}
    <3> SUFFICES ASSUME NEW j \in 1 .. Len(stream'), IsResult(j)', i # j
                 PROVE  s.turn \cap stream'[j].turn = {}
      OBVIOUS
    <3>1. j + 1 \in Positions /\ IsResult(j + 1) /\ i + 1 # j + 1
          /\ stream'[j] = stream[j + 1]
      BY Heard DEF IsResult
    <3> QED
      BY <1>2, <2>1, <3>1 DEF Resulted
  <2> QED
    BY <1>1, <1>3, <2>2, <2>5, <2>6, <2>7 DEF Resulted, Positions
<1> QED
  BY <1>4, <1>5, <1>6, <1>7

\* Taking a message leaves the others in order.
LEMMA HeardOrder ==
    ASSUME Hears, Typed, LanesHeard, KnownHeard, InOrder
    PROVE  InOrder'
<1>1. UNCHANGED responses /\ New' = New
  BY Heard DEF Hears, sdkVars
<1>2. \A id \in New : StartedBefore(id, Len(stream) + 1)'
  <2> SUFFICES ASSUME NEW id \in New PROVE StartedBefore(id, Len(stream) + 1)'
    OBVIOUS
  <2>1. PICK n : n = Len(stream)
    OBVIOUS
  <2>2. StartedBefore(id, n + 1) /\ n \in 1 .. Len(stream)
    BY <2>1, Heard DEF InOrder
  <2>3. StartedBefore(id, n)' /\ n = Len(stream') + 1
    BY <2>1, <2>2, StartedShift, Heard
  <2> QED
    BY <2>3
<1>3. ASSUME NEW l \in Lanes, streamIds'[l] \in New
      PROVE  streamIds'[l] \in Known'
  BY <1>3 DEF LanesHeard, KnownHeard, InOrder, StartsLane
<1>4. ASSUME NEW i \in 1 .. Len(stream') PROVE OrderedAt(i)'
  <2>1. /\ stream'[i] = stream[i + 1] /\ i + 1 \in Positions /\ i \in 1 .. Len(stream)
        /\ OrderedAt(i + 1)
    BY Heard DEF InOrder
  <2>2. /\ Names(i)' = Names(i + 1) /\ IsEnvelope(i)' = IsEnvelope(i + 1)
        /\ IsResult(i)' = IsResult(i + 1) /\ IsStart(i)' = IsStart(i + 1)
    BY <2>1 DEF Names, IsStart, IsEnvelope, IsResult
  <2>3. ASSUME IsResult(i)', NEW id \in stream'[i].turn PROVE StartedBefore(id, i)'
    <3>1. StartedBefore(id, i + 1)
      BY <2>1, <2>2, <2>3 DEF OrderedAt
    <3> QED
      BY <2>1, <3>1, StartedShift
  <2>4. ASSUME IsEnvelope(i)', stream'[i].id \in New PROVE StartedBefore(stream[i].id, i)'
    <3>1. PICK id : id = stream[i + 1].id
      OBVIOUS
    <3>2. StartedBefore(id, i + 1)
      BY <2>1, <2>2, <2>4, <3>1 DEF OrderedAt
    <3>3. StartedBefore(id, i)'
      BY <2>1, <3>2, StartedShift
    <3> QED
      BY <2>1, <3>1, <3>3
  <2>5. ASSUME Names(i)', stream'[i].id \in New, responses[stream'[i].id].lane = Main,
               NEW id \in Known' \cap New, responses[id].lane = Main
        PROVE  id < stream'[i].id \/ (id = stream'[i].id /\ ~IsStart(i)')
    <3>1. CASE id \in Known
      BY <2>1, <2>2, <2>5, <3>1 DEF OrderedAt, IsOwn
    <3>2. CASE id \notin Known
      <4>1. IsStart(1) /\ id = stream[1].id /\ 1 \in 1 .. (i + 1) - 1 /\ Names(1)
        BY <2>5, <3>2 DEF KnownHeard, Names
      <4> QED
        BY <2>1, <2>2, <2>5, <4>1 DEF OrderedAt, IsOwn
    <3> QED
      BY <3>1, <3>2
  <2>6. ASSUME Names(i)', stream'[i].id \in New, responses[stream'[i].id].lane = Main,
               NEW j \in 1 .. i - 1, Names(j)', stream'[j].id \in New,
               responses[stream'[j].id].lane = Main
        PROVE  stream'[j].id < stream'[i].id \/ (stream'[j].id = stream'[i].id /\ ~IsStart(i)')
    <3>1. j + 1 \in 1 .. (i + 1) - 1 /\ stream'[j] = stream[j + 1] /\ Names(j + 1)
      <4>1. j \in 1 .. Len(stream') /\ j + 1 \in 1 .. (i + 1) - 1
        BY <2>1
      <4>2. stream'[j] = stream[j + 1]
        BY <4>1, Heard
      <4> QED
        BY <2>6, <4>1, <4>2 DEF Names, IsStart, IsEnvelope
    <3> QED
      BY <2>1, <2>2, <2>6, <3>1 DEF OrderedAt, IsOwn
  <2> QED
    BY <1>1, <2>3, <2>4, <2>5, <2>6 DEF OrderedAt, IsOwn
<1> QED
  BY <1>1, <1>2, <1>3, <1>4 DEF InOrder, Positions

\* Taking a message leaves the last result last.
LEMMA HeardLast ==
    ASSUME Hears, LastResult
    PROVE  LastResult'
<1>1. UNCHANGED <<read, sent, busy>>
  BY DEF Hears, sdkVars
<1> SUFFICES ASSUME NEW i \in 1 .. Len(stream'), IsResult(i)'
             PROVE  /\ stream'[i].inputs \in Nat /\ stream'[i].inputs <= read
                    /\ stream'[i].inputs = sent =>
                          /\ ~busy
                          /\ \A j \in i + 1 .. Len(stream') : stream'[j].kind = "failure"
  BY <1>1 DEF LastResult, Positions
<1>2. i + 1 \in Positions /\ IsResult(i + 1) /\ stream'[i] = stream[i + 1]
  BY Heard DEF IsResult
<1>3. ASSUME NEW j \in i + 1 .. Len(stream')
      PROVE  j + 1 \in (i + 1) + 1 .. Len(stream) /\ stream'[j] = stream[j + 1]
  <2>1. j \in 1 .. Len(stream') /\ j + 1 \in (i + 1) + 1 .. Len(stream)
    BY Heard
  <2> QED
    BY <2>1, Heard
<1> QED
  BY <1>2, <1>3 DEF LastResult

-----------------------------------------------------------------------------
(* A count of a response changes the ledger of its turn.                   *)

LedgerGrew ==
    /\ ledger' = [tokens |-> ledger'.tokens, completed |-> ledger.completed,
                  sealed |-> ledger.sealed]
    /\ ledger'.tokens \in [DOMAIN ledger'.tokens -> Nat]
    /\ \A x \in DOMAIN ledger.tokens :
          x \in DOMAIN ledger'.tokens /\ ledger.tokens[x] <= ledger'.tokens[x]
    /\ \A x \in DOMAIN ledger'.tokens :
          \/ x \in DOMAIN ledger.tokens /\ ledger'.tokens[x] = ledger.tokens[x]
          \/ /\ x \in New /\ x \notin ledger.sealed
             /\ ledger'.tokens[x] <= responses[x].tokens
             /\ Belongs(x, 1)

Reported ==
    IF Output(ledger') = Output(ledger)
    THEN UNCHANGED <<pc, rest, spent>>
    ELSE /\ pc' = "react"
         /\ rest' = "none"
         /\ spent' = start + Output(ledger')

\* update_message_tokens keeps the larger count of a message that is not sealed.
LEMMA UpdateGrows ==
    ASSUME Typed, Metered, NEW id, NEW n \in Nat,
           id \in New \/ id \in ledger.sealed,
           id \in New => n <= responses[id].tokens /\ Belongs(id, 1),
           ledger' = UpdateMessageTokens(ledger, id, n)
    PROVE  /\ LedgerGrew
           /\ id \in Known' /\ Known' = Known \cup {id}
<1>1. /\ ledger = [tokens |-> ledger.tokens, completed |-> ledger.completed,
                   sealed |-> ledger.sealed]
      /\ ledger.tokens \in [DOMAIN ledger.tokens -> Nat]
  BY DEF Typed
<1>2. CASE id \in ledger.sealed
  <2>1. ledger' = ledger
    BY <1>2 DEF UpdateMessageTokens
  <2> QED
    BY <1>1, <1>2, <2>1 DEF LedgerGrew, Known
<1>3. CASE id \notin ledger.sealed
  <2> DEFINE t == [i \in DOMAIN ledger.tokens \cup {id} |->
                     IF i = id THEN Larger(n, MessageTokens(ledger, id)) ELSE ledger.tokens[i]]
  <2>1. ledger' = [ledger EXCEPT !.tokens = t]
    BY <1>3 DEF UpdateMessageTokens
  <2>2. ledger' = [tokens |-> t, completed |-> ledger.completed, sealed |-> ledger.sealed]
    BY <1>1, <2>1
  <2>3. MessageTokens(ledger, id) \in Nat
    BY <1>1 DEF MessageTokens
  <2>4. Larger(n, MessageTokens(ledger, id)) \in Nat
        /\ Larger(n, MessageTokens(ledger, id)) >= MessageTokens(ledger, id)
        /\ (Larger(n, MessageTokens(ledger, id)) = n
              \/ Larger(n, MessageTokens(ledger, id)) = MessageTokens(ledger, id))
    BY <2>3 DEF Larger
  <2>5. /\ DOMAIN t = DOMAIN ledger.tokens \cup {id}
        /\ t[id] = Larger(n, MessageTokens(ledger, id))
        /\ \A x \in DOMAIN ledger.tokens : x # id => t[x] = ledger.tokens[x]
        /\ t \in [DOMAIN ledger.tokens \cup {id} -> Nat]
    BY <1>1, <2>4
  <2>6. id \in New /\ n <= responses[id].tokens /\ Belongs(id, 1) /\ responses[id].tokens \in Nat
    <3>1. id \in New
      BY <1>3
    <3>2. id \in Ids
      BY <3>1 DEF New, Ids, Typed
    <3> QED
      BY <3>1, <3>2, TypedResponse
  <2>7. id \in DOMAIN ledger.tokens =>
          MessageTokens(ledger, id) = ledger.tokens[id] /\ ledger.tokens[id] <= responses[id].tokens
    BY DEF MessageTokens, Metered
  <2>8. id \notin DOMAIN ledger.tokens => MessageTokens(ledger, id) = 0
    BY DEF MessageTokens
  <2>9. t[id] <= responses[id].tokens
    BY <2>3, <2>4, <2>5, <2>6, <2>7, <2>8
  <2>10. \A x \in DOMAIN ledger.tokens : x \in DOMAIN t /\ ledger.tokens[x] <= t[x]
    <3> TAKE x \in DOMAIN ledger.tokens
    <3>1. ledger.tokens[x] \in Nat
      BY <1>1
    <3> QED
      BY <2>4, <2>5, <2>7, <3>1
  <2>11. ledger'.tokens = t /\ ledger'.sealed = ledger.sealed
    BY <2>2
  <2> HIDE DEF t
  <2>12. LedgerGrew
    BY <1>3, <2>2, <2>5, <2>6, <2>9, <2>10, <2>11 DEF LedgerGrew
  <2>13. id \in Known' /\ Known' = Known \cup {id}
    BY <2>5, <2>11 DEF Known
  <2> QED
    BY <2>12, <2>13
<1> QED
  BY <1>2, <1>3

\* No count is a count too.
LEMMA SameLedgerGrows ==
    ASSUME Typed, ledger' = ledger
    PROVE  LedgerGrew /\ Known' = Known
<1>1. \A x \in DOMAIN ledger.tokens : ledger.tokens[x] \in Nat
  BY DEF Typed
<1> QED
  BY <1>1 DEF Typed, LedgerGrew, Known

\* The charge is at most what was made by the responses it is about.
LEMMA OutputBound ==
    ASSUME Typed, NEW l, NEW N \in SUBSET Ids, l.completed \in Nat,
           \A x \in DOMAIN l.tokens : /\ x \in N /\ x \notin l.sealed
                                      /\ l.tokens[x] \in Nat
                                      /\ l.tokens[x] <= responses[x].tokens,
           l.completed <= TokensOf(N \cap l.sealed)
    PROVE  Output(l) <= TokensOf(N)
<1> DEFINE D == DOMAIN l.tokens
           S == N \cap l.sealed
<1>1. D \subseteq N /\ S \subseteq N /\ D \cap S = {} /\ D \cup S \subseteq N
  OBVIOUS
<1>2. IsFiniteSet(D) /\ IsFiniteSet(S) /\ IsFiniteSet(N)
  BY <1>1, IdsFinite
<1>3. \A x \in N : Made[x] \in Nat
  BY MadeTokens
<1>4. \A x \in D : l.tokens[x] \in Nat /\ Made[x] \in Nat /\ l.tokens[x] <= Made[x]
  BY <1>1, <1>3, MadeTokens
<1> HIDE DEF D, S
<1>5. SumFunctionOnSet(l.tokens, D) <= SumFunctionOnSet(Made, D)
  BY <1>2, <1>4, SumBounded
<1>6. SumFunctionOnSet(Made, D \cup S) = SumFunctionOnSet(Made, D) + SumFunctionOnSet(Made, S)
  BY <1>1, <1>2, <1>3, SumJoin
<1>7. SumFunctionOnSet(Made, D \cup S) <= SumFunctionOnSet(Made, N)
  BY <1>1, <1>2, <1>3, SumGrows
<1>8. /\ SumFunctionOnSet(l.tokens, D) \in Nat /\ SumFunctionOnSet(Made, D) \in Nat
      /\ SumFunctionOnSet(Made, S) \in Nat /\ SumFunctionOnSet(Made, N) \in Nat
  BY <1>1, <1>2, <1>3, <1>4, SumNat
<1>9. Output(l) = l.completed + SumFunctionOnSet(l.tokens, D)
  BY DEF Output, TurnTokens, SumFunction, D
<1>10. l.completed <= SumFunctionOnSet(Made, S) /\ TokensOf(N) = SumFunctionOnSet(Made, N)
  BY MadeTokens DEF S
<1> QED
  BY <1>5, <1>6, <1>7, <1>8, <1>9, <1>10

\* More counts, a larger output; a different output, a count above zero.
LEMMA OutputGrows ==
    ASSUME Typed, LedgerGrew, DOMAIN ledger'.tokens \subseteq Ids
    PROVE  /\ Output(ledger) <= Output(ledger') /\ Output(ledger') \in Nat
           /\ Output(ledger) # Output(ledger') => HasTokens'
           /\ HasTokens => HasTokens'
<1> DEFINE f == ledger.tokens
           g == ledger'.tokens
           A == DOMAIN f
           B == DOMAIN g
<1>1. A \subseteq B /\ B \subseteq Ids /\ A \subseteq Ids
  BY DEF LedgerGrew
<1>2. IsFiniteSet(A) /\ IsFiniteSet(B)
  BY <1>1, IdsFinite
<1>3. \A x \in A : f[x] \in Nat /\ g[x] \in Nat /\ f[x] <= g[x]
  BY DEF Typed, LedgerGrew
<1>4. \A x \in B : g[x] \in Nat
  BY DEF LedgerGrew
<1>5. /\ Output(ledger) = ledger.completed + SumFunctionOnSet(f, A)
      /\ Output(ledger') = ledger.completed + SumFunctionOnSet(g, B)
      /\ ledger.completed \in Nat
  BY DEF Output, TurnTokens, SumFunction, LedgerGrew, Typed
<1>6. HasTokens <=> \E x \in A : f[x] > 0
  BY DEF HasTokens
<1>7. HasTokens' <=> \E x \in B : g[x] > 0
  BY DEF HasTokens
<1> HIDE DEF f, g, A, B
<1>8. SumFunctionOnSet(f, A) <= SumFunctionOnSet(g, A)
  BY <1>2, <1>3, SumBounded
<1>9. SumFunctionOnSet(g, A) <= SumFunctionOnSet(g, B)
  BY <1>1, <1>2, <1>4, SumGrows
<1>10. /\ SumFunctionOnSet(f, A) \in Nat /\ SumFunctionOnSet(g, A) \in Nat
       /\ SumFunctionOnSet(g, B) \in Nat
  BY <1>2, <1>3, <1>4, SumNat
<1>11. ASSUME ~\E x \in B : g[x] > 0
       PROVE  SumFunctionOnSet(g, B) = 0
  <2>1. \A x \in B : g[x] = 0
    BY <1>4, <1>11
  <2> QED
    BY <1>2, <1>4, <2>1, SumOfNothing
<1>12. Output(ledger) # Output(ledger') => HasTokens'
  BY <1>5, <1>7, <1>8, <1>9, <1>10, <1>11
<1>13. HasTokens => HasTokens'
  BY <1>1, <1>3, <1>6, <1>7
<1> QED
  BY <1>5, <1>8, <1>9, <1>10, <1>12, <1>13

\* Turns share no response, so what is said in one is not said in a later one.
LEMMA BelongsNotLater ==
    ASSUME Spoken, Sequence, NEW id, Belongs(id, 1)
    PROVE  NotLater(id)
<1>0. Len(stream) \in Nat
  BY DEF Sequence
<1>1. ASSUME NEW n \in 0 .. Len(stream), ~NoResult(1, n)
      PROVE  \E k \in 1 .. n : IsResult(k) /\ id \in stream[k].turn
  <2> DEFINE R == {k \in 1 .. n : IsResult(k)}
  <2>1. PICK r : r \in R
    BY <1>1 DEF NoResult
  <2>2. R \in SUBSET Nat
    BY <1>0
  <2>3. PICK k \in R : \A y \in R : k <= y
    BY <2>1, <2>2, LeastNatural
  <2>4. NoResult(1, k - 1)
    <3> SUFFICES ASSUME NEW y \in 1 .. k - 1, IsResult(y) PROVE FALSE
      BY DEF NoResult
    <3>1. y \in R
      BY <2>3, <1>0
    <3> QED
      BY <2>2, <2>3, <3>1
  <2>5. k \in 1 .. Len(stream) /\ IsResult(k)
    BY <1>0, <2>3
  <2> QED
    BY <2>3, <2>4, <2>5 DEF Belongs
<1>2. ASSUME NEW j \in Positions, IsResult(j), id \in stream[j].turn
      PROVE  NoResult(1, j - 1)
  <2> SUFFICES ASSUME ~NoResult(1, j - 1) PROVE FALSE
    OBVIOUS
  <2>1. j - 1 \in 0 .. Len(stream)
    BY <1>0 DEF Positions
  <2>2. PICK k \in 1 .. j - 1 : IsResult(k) /\ id \in stream[k].turn
    BY <1>1, <2>1
  <2>3. k \in Positions /\ k # j
    BY <1>0, <2>2 DEF Positions
  <2> QED
    BY <1>2, <2>2, <2>3 DEF Spoken, Resulted
<1>3. ASSUME busy, id \in turn
      PROVE  NoResult(1, Len(stream))
  <2> SUFFICES ASSUME ~NoResult(1, Len(stream)) PROVE FALSE
    OBVIOUS
  <2>1. PICK k \in 1 .. Len(stream) : IsResult(k) /\ id \in stream[k].turn
    BY <1>0, <1>1
  <2>2. k \in Positions
    BY DEF Positions
  <2> QED
    BY <1>3, <2>1, <2>2 DEF Spoken, Resulted
<1> QED
  BY <1>2, <1>3 DEF NotLater

\* A true count leaves the ledger about the turn at the head.
LEMMA GrewKeepsMetered ==
    ASSUME Hears, ~IsResult(1), Typed, Spoken, Metered, Books, LedgerGrew, Reported,
           UNCHANGED dropped
    PROVE  Metered'
<1>1. /\ UNCHANGED <<busy, turn, responses, saved, interrupted, dropped>> /\ New' = New
      /\ ledger'.sealed = ledger.sealed
      /\ pc = "receive" /\ rest = "none"
  <2>1. ledger'.sealed = ledger.sealed
    BY DEF LedgerGrew
  <2> QED
    BY <2>1, Heard DEF Hears, sdkVars, Books
<1>2. DOMAIN ledger'.tokens \subseteq New \ ledger.sealed
  BY DEF LedgerGrew, Metered
<1>3. ASSUME NEW x \in DOMAIN ledger'.tokens
      PROVE  /\ NotLater(x)'
             /\ ledger'.tokens[x] <= responses[x].tokens
             /\ ~dropped /\ ledger'.tokens[x] > 0 => Belongs(x, 1)'
  <2>1. CASE x \in DOMAIN ledger.tokens /\ ledger'.tokens[x] = ledger.tokens[x]
    <3>1. NotLater(x) /\ ledger.tokens[x] <= responses[x].tokens
          /\ (~dropped /\ ledger.tokens[x] > 0 => Belongs(x, 1))
      BY <2>1 DEF Metered
    <3> QED
      BY <2>1, <3>1, NotLaterShift, BelongsHead
  <2>2. CASE x \in New /\ ledger'.tokens[x] <= responses[x].tokens /\ Belongs(x, 1)
    <3>1. NotLater(x)
      BY <2>2, BelongsNotLater DEF Hears
    <3> QED
      BY <2>2, <3>1, NotLaterShift, BelongsHead
  <2> QED
    BY <2>1, <2>2 DEF LedgerGrew
<1>4. DOMAIN ledger'.tokens \subseteq Ids
  BY <1>2 DEF New, Ids, Typed
<1>5. HasTokens => HasTokens'
  BY <1>4, OutputGrows
<1>6. Output(ledger) # Output(ledger') => HasTokens'
  BY <1>4, OutputGrows
<1>7. /\ pc' = "receive" /\ interrupted' => HasTokens'
      /\ pc' = "react" /\ rest' = "none" => HasTokens'
      /\ ~(pc' = "react" /\ rest' # "none")
      /\ pc' # "begin"
  BY <1>1, <1>5, <1>6 DEF Reported, Metered
<1> QED
  BY <1>1, <1>2, <1>3, <1>7 DEF Metered

\* A true count keeps the charge below what was made, and never lowers it.
LEMMA GrewKeepsBooks ==
    ASSUME Hears, Typed, Metered, Books, LedgerGrew, Reported,
           UNCHANGED <<billed, exact, dropped>>, Metered'
    PROVE  Books' /\ spent <= spent' /\ spent' \in Nat
<1>1. /\ UNCHANGED <<responses, saved, interrupted, start, dropped, exact, billed>>
      /\ New' = New /\ Earlier' = Earlier /\ Ids' = Ids
      /\ ledger'.sealed = ledger.sealed /\ ledger'.completed = ledger.completed
      /\ pc = "receive" /\ rest = "none"
      /\ pc' \in {"receive", "react"} /\ rest' = "none"
  <2>1. ledger'.sealed = ledger.sealed /\ ledger'.completed = ledger.completed
    BY DEF LedgerGrew
  <2> QED
    BY <2>1, Heard DEF Hears, sdkVars, Books, Reported
<1>2. DOMAIN ledger'.tokens \subseteq New \ ledger.sealed /\ New \subseteq Ids
  BY <1>1 DEF New, Ids, Typed, Metered
<1>3. Output(ledger) <= Output(ledger') /\ Output(ledger') \in Nat /\ Output(ledger) \in Nat
  BY <1>2, OutputGrows, OutputNat
<1>4. spent = start + Output(ledger) /\ start = saved.spent /\ start \in Nat
  BY <1>1 DEF Books, Typed
<1>5. spent' = start + Output(ledger')
  BY <1>4 DEF Reported
<1>6. spent <= spent' /\ spent' \in Nat
  BY <1>3, <1>4, <1>5
<1>7. UNCHANGED <<TokensOf(New), TokensOf(New \cap ledger.sealed)>>
  BY <1>1 DEF TokensOf, Ids
<1>8. ~dropped => Output(ledger') <= TokensOf(New)
  <2> SUFFICES ASSUME ~dropped PROVE Output(ledger') <= TokensOf(New)
    OBVIOUS
  <2>1. ledger'.completed <= TokensOf(New \cap ledger'.sealed)
    BY <1>1 DEF Books, Running
  <2>2. ledger'.completed \in Nat
    BY <1>1 DEF Typed
  <2>3. \A x \in DOMAIN ledger'.tokens :
           /\ x \in New /\ x \notin ledger'.sealed
           /\ ledger'.tokens[x] \in Nat
           /\ ledger'.tokens[x] <= responses[x].tokens
    BY <1>1, <1>2 DEF LedgerGrew, Metered
  <2> QED
    BY <1>2, <2>1, <2>2, <2>3, OutputBound
<1>9. interrupted => spent' >= Limit
  <2> SUFFICES ASSUME interrupted PROVE spent' >= Limit
    OBVIOUS
  <2>1. spent >= Limit
    BY <1>1 DEF Books, Running
  <2> QED
    BY <1>3, <1>4, <1>6, <2>1, LimitAssumption
<1>10. /\ (exact /\ ~dropped => ledger.completed = billed)
       /\ Earlier \subseteq saved.sealed /\ saved.spent < Limit
       /\ (~dropped => ledger.completed <= TokensOf(New \cap ledger.sealed))
  BY <1>1 DEF Books, Running
<1>11. Books'
  BY <1>1, <1>4, <1>5, <1>7, <1>8, <1>9, <1>10 DEF Books, Running
<1> QED
  BY <1>6, <1>11

\* Types, under a count.
LEMMA GrewKeepsTyped ==
    ASSUME Hears, Typed, Metered, LedgerGrew, Metered', spent' \in Nat,
           streamIds' \in [Lanes -> Ids \cup {None}]
    PROVE  Typed'
<1>1. UNCHANGED <<responses, saved, start, lost>> /\ Ids' = Ids /\ New' = New
  BY Heard DEF Hears, sdkVars
<1>2. /\ ledger'.sealed = ledger.sealed /\ ledger'.completed = ledger.completed
  BY DEF LedgerGrew
<1>3. /\ DOMAIN ledger'.tokens \subseteq Ids
      /\ ledger'.tokens \in [DOMAIN ledger'.tokens -> Nat]
      /\ ledger' = [tokens |-> ledger'.tokens, completed |-> ledger'.completed,
                    sealed |-> ledger'.sealed]
  <2>1. DOMAIN ledger'.tokens \subseteq New
    BY <1>1 DEF Metered
  <2>2. New \subseteq Ids
    BY DEF New, Ids, Typed
  <2> QED
    BY <1>2, <2>1, <2>2 DEF LedgerGrew
<1>4. /\ responses \in Seq([tokens : Nat, texts : Nat, lane : Lanes])
      /\ saved = [sealed |-> saved.sealed, spent |-> saved.spent,
                warned |-> saved.warned, responses |-> saved.responses]
      /\ saved.responses \in 0 .. Len(responses)
      /\ saved.spent \in Nat /\ spent \in Nat /\ start \in Nat
      /\ saved.sealed \subseteq Ids
      /\ lost \subseteq Ids
      /\ ledger.completed \in Nat
      /\ ledger.sealed \subseteq Ids
  BY DEF Typed
<1> HIDE DEF Typed
<1> QED
  BY <1>1, <1>2, <1>3, <1>4 DEF Typed

\* An obsolete text stays obsolete.
LEMMA OutdatedStays ==
    ASSUME Hears, Known \subseteq Known', ledger.sealed \subseteq ledger'.sealed,
           NEW id, Outdated(id)
    PROVE  Outdated(id)'
<1>1. New' = New /\ UNCHANGED responses
  BY Heard DEF Hears, sdkVars
<1> QED
  BY <1>1 DEF Outdated, IsOwn

\* A text behind the head moves one place forward.
LEMMA TextShift ==
    ASSUME Hears, NEW id, NEW i \in Positions, i # 1, TextOf(id, i)
    PROVE  i - 1 \in 1 .. Len(stream') /\ TextOf(id, i - 1)'
<1>1. i - 1 \in 1 .. Len(stream') /\ (i - 1) + 1 = i
  BY Heard DEF Positions
<1>2. stream'[i - 1] = stream[i]
  BY <1>1, Heard
<1> QED
  BY <1>1, <1>2 DEF TextOf, IsEnvelope

\* A text in the stream was in it one place later.
LEMMA TextShiftBack ==
    ASSUME Hears, NEW id, NEW i \in 1 .. Len(stream'), TextOf(id, i)'
    PROVE  i + 1 \in Positions /\ TextOf(id, i + 1)
BY Heard DEF TextOf, IsEnvelope

\* A message without a fresh text.
LEMMA TextsShift ==
    ASSUME Hears, Texts, Known \subseteq Known', ledger.sealed \subseteq ledger'.sealed,
           \A x \in Known' \ Known : x \notin New \/ ~IsOwn(x),
           \A x \in New : IsOwn(x) /\ TextOf(x, 1) => x \in ledger.sealed,
           UNCHANGED <<latest, split>>
    PROVE  Texts'
<1>1. New' = New /\ UNCHANGED responses
  BY Heard DEF Hears, sdkVars
<1>2. latest.id # None =>
         /\ latest.id \in Known' \cap New /\ IsOwn(latest.id)
         /\ \A id \in Known' \cap New : IsOwn(id) => id <= latest.id
  BY DEF Texts
<1>3. ASSUME NEW id \in New, IsOwn(id)
      PROVE  /\ responses[id].texts <= 2
             /\ responses[id].texts = 0 =>
                   /\ ~Retained(id)
                   /\ \A i \in 1 .. Len(stream') : ~TextOf(id, i)'
             /\ responses[id].texts = 1 =>
                   \/ Outdated(id)'
                   \/ Retained(id)
                   \/ \E i \in 1 .. Len(stream') : TextOf(id, i)'
             /\ responses[id].texts = 2 =>
                   \/ Outdated(id)'
                   \/ Retained(id) /\ split
                   \/ Retained(id) /\ \E i \in 1 .. Len(stream') : TextOf(id, i)'
                   \/ \E i, j \in 1 .. Len(stream') : i # j /\ TextOf(id, i)' /\ TextOf(id, j)'
  <2>1. Outdated(id) => Outdated(id)'
    BY OutdatedStays
  <2>2. CASE id \in ledger.sealed
    <3>1. Outdated(id)'
      BY <2>1, <2>2 DEF Outdated
    <3> QED
      BY <1>3, <3>1, TextShiftBack DEF Texts
  <2>3. CASE id \notin ledger.sealed
    <3>1. \A i \in Positions : TextOf(id, i) =>
             i # 1 /\ i - 1 \in 1 .. Len(stream') /\ TextOf(id, i - 1)'
      BY <1>3, <2>3, TextShift
    <3>2. ASSUME NEW i \in Positions, NEW j \in Positions, i # j, TextOf(id, i), TextOf(id, j)
          PROVE  \E a, b \in 1 .. Len(stream') : a # b /\ TextOf(id, a)' /\ TextOf(id, b)'
      <4>1. i - 1 # j - 1
        BY <3>2, Heard DEF Positions
      <4> QED
        BY <3>1, <3>2, <4>1
    <3>3. (\E i \in Positions : TextOf(id, i)) => \E i \in 1 .. Len(stream') : TextOf(id, i)'
      BY <3>1
    <3> QED
      BY <1>3, <2>1, <3>2, <3>3, TextShiftBack DEF Texts
  <2> QED
    BY <2>2, <2>3
<1> QED
  BY <1>1, <1>2, <1>3 DEF Texts, Positions, Retained, IsOwn

\* The text so far becomes obsolete.
LEMMA TextsReset ==
    ASSUME Hears, Typed, Texts, Known \subseteq Known', ledger.sealed \subseteq ledger'.sealed,
           \A x \in New : ~TextOf(x, 1),
           \A x \in New : IsOwn(x) /\ Retained(x) => Outdated(x)',
           latest' = NoMessage
    PROVE  Texts'
<1>1. New' = New /\ UNCHANGED responses
  BY Heard DEF Hears, sdkVars
<1>2. latest'.id = None /\ ~latest'.text
  BY DEF NoMessage
<1>3. ASSUME NEW id \in New, IsOwn(id)
      PROVE  /\ responses[id].texts <= 2
             /\ responses[id].texts = 0 =>
                   \A i \in 1 .. Len(stream') : ~TextOf(id, i)'
             /\ responses[id].texts = 1 =>
                   \/ Outdated(id)'
                   \/ \E i \in 1 .. Len(stream') : TextOf(id, i)'
             /\ responses[id].texts = 2 =>
                   \/ Outdated(id)'
                   \/ \E i, j \in 1 .. Len(stream') : i # j /\ TextOf(id, i)' /\ TextOf(id, j)'
  <2>1. Outdated(id) => Outdated(id)'
    BY OutdatedStays
  <2>2. \A i \in Positions : TextOf(id, i) =>
           i # 1 /\ i - 1 \in 1 .. Len(stream') /\ TextOf(id, i - 1)'
    BY <1>3, TextShift
  <2>3. ASSUME NEW i \in Positions, NEW j \in Positions, i # j, TextOf(id, i), TextOf(id, j)
        PROVE  \E a, b \in 1 .. Len(stream') : a # b /\ TextOf(id, a)' /\ TextOf(id, b)'
    <3>1. i - 1 # j - 1
      BY <2>3, Heard DEF Positions
    <3> QED
      BY <2>2, <2>3, <3>1
  <2>4. (\E i \in Positions : TextOf(id, i)) => \E i \in 1 .. Len(stream') : TextOf(id, i)'
    BY <2>2
  <2> QED
    BY <1>3, <2>1, <2>3, <2>4, TextShiftBack DEF Texts
<1> QED
  BY <1>1, <1>2, <1>3 DEF Texts, Positions, Retained, IsOwn

\* Responses are numbers, and none of them is 0.
LEMMA NewAreNumbers ==
    ASSUME Typed PROVE \A id \in New : id > saved.responses /\ id \in Nat /\ id # None
<1>1. saved.responses \in Nat
  BY DEF Typed
<1>2. Len(responses) \in Nat
  BY TypedResponse
<1> QED
  BY <1>1, <1>2 DEF New, None

\* A fresh text envelope.
LEMMA TextsRetained ==
    ASSUME Hears, Typed, Texts, Known' = Known, ledger'.sealed = ledger.sealed,
           NEW y \in New \cap Known, IsOwn(y), IsEnvelope(1), stream[1].id = y,
           \A x \in Known \cap New : IsOwn(x) => x <= y,
           \/ /\ latest.id # y
              /\ latest' = [id |-> y, text |-> stream[1].text] /\ split' = FALSE
           \/ /\ latest.id = y /\ stream[1].text
              /\ latest' = [id |-> y, text |-> TRUE] /\ split' = (split \/ latest.text)
    PROVE  Texts'
<1>1. New' = New /\ UNCHANGED responses
  BY Heard DEF Hears, sdkVars
<1>2. latest'.id = y /\ (latest'.text <=> stream[1].text)
  OBVIOUS
<1>3. \A id \in New : id \in Nat /\ id # None
  BY NewAreNumbers
<1>4. \A x \in New : TextOf(x, 1) <=> x = y /\ stream[1].text
  BY DEF TextOf
<1>5. ASSUME NEW id \in New, IsOwn(id)
      PROVE  /\ responses[id].texts <= 2
             /\ responses[id].texts = 0 =>
                   /\ ~Retained(id)'
                   /\ \A i \in 1 .. Len(stream') : ~TextOf(id, i)'
             /\ responses[id].texts = 1 =>
                   \/ Outdated(id)'
                   \/ Retained(id)'
                   \/ \E i \in 1 .. Len(stream') : TextOf(id, i)'
             /\ responses[id].texts = 2 =>
                   \/ Outdated(id)'
                   \/ Retained(id)' /\ split'
                   \/ Retained(id)' /\ \E i \in 1 .. Len(stream') : TextOf(id, i)'
                   \/ \E i, j \in 1 .. Len(stream') : i # j /\ TextOf(id, i)' /\ TextOf(id, j)'
  <2>1. Outdated(id) => Outdated(id)'
    BY OutdatedStays
  <2>2. \A i \in Positions : TextOf(id, i) /\ i # 1 =>
           i - 1 \in 1 .. Len(stream') /\ TextOf(id, i - 1)'
    BY TextShift
  <2>3. ASSUME NEW i \in Positions, NEW j \in Positions, i # j, TextOf(id, i), TextOf(id, j),
               i # 1, j # 1
        PROVE  \E a, b \in 1 .. Len(stream') : a # b /\ TextOf(id, a)' /\ TextOf(id, b)'
    <3>1. i - 1 # j - 1
      BY <2>3, Heard DEF Positions
    <3> QED
      BY <2>2, <2>3, <3>1
  <2>4. ASSUME NEW i \in Positions, TextOf(id, i), i # 1
        PROVE  \E a \in 1 .. Len(stream') : TextOf(id, a)'
    BY <2>2, <2>4
  <2>5. CASE id # y
    <3>1. Retained(id) => Outdated(id)
      <4> SUFFICES ASSUME Retained(id) PROVE Outdated(id)
        OBVIOUS
      <4>1. id \in Known \cap New
        BY <1>3 DEF Retained, Texts
      <4>2. id <= y /\ y \in Nat
        BY <1>3, <1>5, <4>1
      <4>3. id < y
        BY <1>3, <2>5, <4>2
      <4> QED
        BY <4>3 DEF Outdated
    <3>2. ~Retained(id)'
      BY <1>2, <2>5 DEF Retained
    <3>3. \A i \in Positions : TextOf(id, i) => i # 1
      BY <1>4, <2>5
    <3> QED
      BY <1>5, <2>1, <2>3, <2>4, <3>1, <3>2, <3>3, TextShiftBack DEF Texts
  <2>6. CASE id = y
    <3>1. Retained(id)' <=> stream[1].text
      BY <1>2, <2>6 DEF Retained
    <3>2. TextOf(id, 1) <=> stream[1].text
      BY <1>4, <2>6
    <3>3. 1 \in Positions
      BY Heard
    <3>4. responses[id].texts <= 2
      BY <1>5 DEF Texts
    <3>5. responses[id].texts = 0 =>
                   /\ ~Retained(id)'
                   /\ \A i \in 1 .. Len(stream') : ~TextOf(id, i)'
      BY <1>5, <3>1, <3>2, <3>3, TextShiftBack DEF Texts
    <3>6. CASE /\ latest.id # y
               /\ latest' = [id |-> y, text |-> stream[1].text] /\ split' = FALSE
      <4>1. ~Retained(id)
        BY <2>6, <3>6 DEF Retained
      <4>2. responses[id].texts = 1 =>
                   \/ Outdated(id)'
                   \/ Retained(id)'
                   \/ \E i \in 1 .. Len(stream') : TextOf(id, i)'
        BY <1>5, <2>1, <2>4, <3>1, <3>2, <4>1 DEF Texts
      <4>3. ASSUME NEW i \in Positions, NEW j \in Positions, i # j, TextOf(id, i), TextOf(id, j)
            PROVE  \/ Retained(id)' /\ \E a \in 1 .. Len(stream') : TextOf(id, a)'
                   \/ \E a, b \in 1 .. Len(stream') : a # b /\ TextOf(id, a)' /\ TextOf(id, b)'
        <5>1. CASE i = 1
          BY <2>4, <3>1, <3>2, <4>3, <5>1
        <5>2. CASE j = 1
          BY <2>4, <3>1, <3>2, <4>3, <5>2
        <5>3. CASE i # 1 /\ j # 1
          BY <2>3, <4>3, <5>3
        <5> QED
          BY <5>1, <5>2, <5>3
      <4>4. responses[id].texts = 2 =>
                   \/ Outdated(id)'
                   \/ Retained(id)' /\ \E i \in 1 .. Len(stream') : TextOf(id, i)'
                   \/ \E i, j \in 1 .. Len(stream') : i # j /\ TextOf(id, i)' /\ TextOf(id, j)'
        BY <1>5, <2>1, <4>1, <4>3 DEF Texts
      <4> QED
        BY <3>4, <3>5, <4>2, <4>4
    <3>7. CASE /\ latest.id = y /\ stream[1].text
               /\ latest' = [id |-> y, text |-> TRUE] /\ split' = (split \/ latest.text)
      <4>1. Retained(id)'
        BY <3>1, <3>7
      <4>2. Retained(id) => split'
        BY <3>7 DEF Retained
      <4>3. ASSUME NEW i \in Positions, NEW j \in Positions, i # j, TextOf(id, i), TextOf(id, j)
            PROVE  \E a \in 1 .. Len(stream') : TextOf(id, a)'
        BY <2>4, <4>3
      <4>4. responses[id].texts = 2 =>
                   \/ Outdated(id)'
                   \/ Retained(id)' /\ split'
                   \/ Retained(id)' /\ \E i \in 1 .. Len(stream') : TextOf(id, i)'
        BY <1>5, <2>1, <4>1, <4>2, <4>3 DEF Texts
      <4> QED
        BY <3>4, <3>5, <4>1, <4>4
    <3> QED
      BY <3>6, <3>7
  <2> QED
    BY <2>5, <2>6
<1>6. latest'.id \in Known' \cap New /\ IsOwn(latest'.id)
      /\ \A id \in Known' \cap New : IsOwn(id) => id <= latest'.id
  BY <1>2
<1> QED
  BY <1>1, <1>5, <1>6 DEF Texts, Positions, IsOwn

\* Every message but a result keeps the invariant.
LEMMA CountedStep ==
    ASSUME Hears, ~IsResult(1), ChargeInv, LanesHeard, KnownHeard, LedgerGrew, Reported,
           UNCHANGED <<billed, exact, dropped>>,
           streamIds' \in [Lanes -> Ids \cup {None}], Texts'
    PROVE  ChargeInv' /\ spent <= spent'
<1>1. Typed /\ Books /\ RunInv
  BY DEF ChargeInv, Running, Hears
<1>2. Metered'
  BY <1>1, GrewKeepsMetered DEF RunInv
<1>3. Books' /\ spent <= spent' /\ spent' \in Nat
  BY <1>1, <1>2, GrewKeepsBooks DEF RunInv
<1>4. Typed'
  BY <1>1, <1>2, <1>3, GrewKeepsTyped DEF RunInv
<1>5. Speaking' /\ InOrder' /\ LastResult'
  BY <1>1, HeardSpeaking, HeardOrder, HeardLast DEF RunInv
<1>6. Spoken'
  <2>1. ledger'.sealed = ledger.sealed
    BY DEF LedgerGrew
  <2>2. ASSUME NEW i \in 2 .. Len(stream), IsResult(i)
        PROVE  stream[i].turn \cap ledger'.sealed = {}
    <3>1. i \in Positions
      BY DEF Positions
    <3> QED
      BY <1>1, <2>1, <2>2, <3>1 DEF RunInv, Spoken, Resulted
  <2> QED
    BY <1>1, <2>2, HeardSpoken DEF RunInv
<1> QED
  BY <1>2, <1>3, <1>4, <1>5, <1>6 DEF ChargeInv, RunInv

\* What a start or an envelope at the head is about.
LEMMA HeadNamed ==
    ASSUME ChargeInv, Hears, Names(1)
    PROVE  /\ Named(1) /\ stream[1].lane \in Lanes
           /\ stream[1].id \in New \/ stream[1].id \in ledger.sealed
           /\ stream[1].id \in Ids
           /\ ~IsResult(1)
           /\ stream[1].id \in New =>
                 stream[1].tokens <= responses[stream[1].id].tokens /\ Belongs(stream[1].id, 1)
<1>1. Named(1)
  BY Heard DEF ChargeInv, RunInv, Spoken, Running, Hears
<1>2. Earlier \subseteq saved.sealed /\ saved.sealed \subseteq ledger.sealed
  BY DEF ChargeInv, RunInv, Books, Metered, Running, Hears
<1>3. New \subseteq Ids /\ Earlier \subseteq Ids
  BY DEF ChargeInv, Typed, New, Earlier, Ids
<1>4. ~IsResult(1)
  BY DEF Names, IsStart, IsEnvelope, IsResult
<1> QED
  BY <1>1, <1>2, <1>3, <1>4 DEF Named

\* A start: a count, a lane's owner, and the end of the text before.
LEMMA TakeStartKeeps ==
    ASSUME InputInv, ChargeInv, TakeStart
    PROVE  ChargeInv' /\ spent <= spent'
<1> DEFINE m == stream[1]
<1>1. Hears /\ Head(stream) = m /\ IsStart(1) /\ pc = "receive"
  <2>1. Hears
    BY DEF TakeStart, Take, Hears, InputInv
  <2>2. Head(stream) = m
    BY <2>1, Heard
  <2> QED
    BY <2>1, <2>2 DEF TakeStart, Take, IsStart
<1>2. /\ streamIds' = [streamIds EXCEPT ![m.lane] = m.id]
      /\ ForgetText(m)
      /\ Report(UpdateMessageTokens(ledger, m.id, m.tokens), "none")
      /\ UNCHANGED historyVars
  BY <1>1 DEF TakeStart
<1>3. Typed /\ Spoken /\ Metered /\ InOrder /\ Texts
  BY <1>1 DEF ChargeInv, RunInv, Running
<1>4. /\ m.lane \in Lanes /\ m.id \in Ids /\ Named(1) /\ ~IsResult(1)
      /\ m.id \in New \/ m.id \in ledger.sealed
      /\ m.id \in New => m.tokens <= responses[m.id].tokens /\ Belongs(m.id, 1)
      /\ m.tokens \in Nat
  <2>1. Names(1)
    BY <1>1 DEF Names
  <2>2. m.tokens \in Nat
    BY <1>1, <2>1, HeadNamed DEF Named
  <2> QED
    BY <1>1, <2>1, <2>2, HeadNamed
<1>5. LedgerGrew /\ m.id \in Known' /\ Known' = Known \cup {m.id}
  BY <1>2, <1>3, <1>4, UpdateGrows DEF Report
<1>6. Reported
  BY <1>2 DEF Report, Reported
<1>7. UNCHANGED <<billed, exact, dropped>>
  BY <1>2 DEF historyVars
<1>8. LanesHeard /\ streamIds' \in [Lanes -> Ids \cup {None}]
  BY <1>1, <1>2, <1>3, <1>4 DEF LanesHeard, StartsLane, Typed
<1>9. KnownHeard
  BY <1>1, <1>5 DEF KnownHeard
<1>10. ledger'.sealed = ledger.sealed
  BY <1>5 DEF LedgerGrew
<1>11. \A x \in New : ~TextOf(x, 1)
  BY <1>1 DEF TextOf, IsEnvelope, IsStart
<1>12. Texts'
  <2>1. CASE m.lane = Main /\ m.id \notin ledger.sealed
    <3>1. latest' = NoMessage
      BY <1>2, <2>1 DEF ForgetText
    <3>2. m.id \in New /\ IsOwn(m.id)
      BY <1>4, <2>1 DEF Named, IsOwn
    <3>3. ASSUME NEW x \in New, IsOwn(x), Retained(x)
          PROVE  Outdated(x)'
      <4>1. x \in Known
        <5>1. x # None
          BY <1>3 DEF New, Typed, None
        <5> QED
          BY <1>3, <3>3, <5>1 DEF Retained, Texts
      <4>2. x < m.id
        BY <1>1, <1>3, <3>2, <3>3, <4>1, Heard DEF InOrder, OrderedAt, Names
      <4>3. New' = New /\ UNCHANGED responses
        BY <1>1, Heard DEF Hears, sdkVars
      <4> QED
        BY <1>5, <3>2, <4>2, <4>3 DEF Outdated, IsOwn
    <3> QED
      BY <1>1, <1>3, <1>5, <1>10, <1>11, <3>1, <3>3, TextsReset
  <2>2. CASE ~(m.lane = Main /\ m.id \notin ledger.sealed)
    <3>1. UNCHANGED <<latest, split>>
      BY <1>2, <2>2 DEF ForgetText
    <3>2. \A x \in Known' \ Known : x \notin New \/ ~IsOwn(x)
      BY <1>4, <1>5, <2>2 DEF Named, IsOwn, Known
    <3> QED
      BY <1>1, <1>3, <1>5, <1>10, <1>11, <3>1, <3>2, TextsShift
  <2> QED
    BY <2>1, <2>2
<1> QED
  BY <1>1, <1>4, <1>5, <1>6, <1>7, <1>8, <1>9, <1>12, CountedStep

\* A count of the lane's response.
LEMMA TakeDeltaKeeps ==
    ASSUME InputInv, ChargeInv, TakeDelta
    PROVE  ChargeInv' /\ spent <= spent'
<1> DEFINE m == stream[1]
<1>1. Hears /\ Head(stream) = m /\ IsDelta(1) /\ pc = "receive"
  <2>1. Hears
    BY DEF TakeDelta, Take, Hears, InputInv
  <2>2. Head(stream) = m
    BY <2>1, Heard
  <2> QED
    BY <2>1, <2>2 DEF TakeDelta, Take, IsDelta
<1>2. /\ Report(UpdateMessageTokens(ledger, streamIds[m.lane], m.tokens), "none")
      /\ UNCHANGED historyVars /\ UNCHANGED <<latest, split, streamIds>>
  BY <1>1 DEF TakeDelta, StreamOwner
<1>3. Typed /\ Spoken /\ Metered /\ InOrder /\ Texts
  BY <1>1 DEF ChargeInv, RunInv, Running
<1>4. ~IsStart(1) /\ ~IsResult(1) /\ ~IsEnvelope(1)
  BY <1>1 DEF IsDelta, IsStart, IsResult, IsEnvelope
<1>5. m.lane \in Lanes /\ m.tokens \in Nat /\ Counted(1)
  BY <1>1, <1>3, Heard DEF Spoken, Counted
<1>6. PICK id \in New : /\ Owns(m.lane, id, 1)
                        /\ m.tokens <= responses[id].tokens
                        /\ Belongs(id, 1)
  BY <1>5 DEF Counted
<1>7. streamIds[m.lane] = id /\ id \in Known
  <2>1. streamIds[m.lane] = id
    BY <1>6 DEF Owns
  <2> QED
    BY <1>3, <1>5, <2>1 DEF InOrder
<1>8. LedgerGrew /\ Known' = Known
  <2>1. ledger' = UpdateMessageTokens(ledger, id, m.tokens)
    BY <1>2, <1>7 DEF Report
  <2>2. LedgerGrew /\ Known' = Known \cup {id}
    BY <1>3, <1>5, <1>6, <2>1, UpdateGrows
  <2> QED
    BY <1>7, <2>2
<1>9. Reported
  BY <1>2 DEF Report, Reported
<1>10. UNCHANGED <<billed, exact, dropped>>
  BY <1>2 DEF historyVars
<1>11. LanesHeard /\ streamIds' \in [Lanes -> Ids \cup {None}]
  BY <1>2, <1>3, <1>4 DEF LanesHeard, StartsLane, Typed
<1>12. KnownHeard
  BY <1>4, <1>8 DEF KnownHeard
<1>13. Texts'
  <2>1. ledger'.sealed = ledger.sealed
    BY <1>8 DEF LedgerGrew
  <2>2. \A x \in New : ~TextOf(x, 1)
    BY <1>4 DEF TextOf
  <2> QED
    BY <1>1, <1>2, <1>3, <1>8, <2>1, <2>2, TextsShift
<1> QED
  BY <1>1, <1>4, <1>8, <1>9, <1>10, <1>11, <1>12, <1>13, CountedStep

\* An echo.
LEMMA ClearPendingKeeps ==
    ASSUME InputInv, ChargeInv, ClearPendingMessage
    PROVE  ChargeInv' /\ spent <= spent'
<1>1. Hears /\ Head(stream) = stream[1] /\ pc = "receive"
  <2>1. Hears
    BY DEF ClearPendingMessage, Take, Hears, InputInv, consumerVars
  <2> QED
    BY <2>1, Heard DEF Hears
<1>2. ~IsStart(1) /\ ~IsResult(1) /\ ~IsEnvelope(1)
  BY <1>1 DEF ClearPendingMessage, Take, IsStart, IsResult, IsEnvelope
<1>3. /\ UNCHANGED <<latest, split, streamIds, ledger, pc, rest, spent>>
      /\ UNCHANGED <<billed, exact, dropped>>
  BY DEF ClearPendingMessage, consumerVars, historyVars
<1>4. Typed /\ Texts
  BY <1>1 DEF ChargeInv, RunInv, Running
<1>5. LedgerGrew /\ Known' = Known
  BY <1>3, <1>4, SameLedgerGrows
<1>6. Reported
  BY <1>3 DEF Reported
<1>7. LanesHeard /\ streamIds' \in [Lanes -> Ids \cup {None}]
  BY <1>2, <1>3, <1>4 DEF LanesHeard, StartsLane, Typed
<1>8. KnownHeard
  BY <1>2, <1>5 DEF KnownHeard
<1>9. Texts'
  <2>1. \A x \in New : ~TextOf(x, 1)
    BY <1>2 DEF TextOf
  <2> QED
    BY <1>1, <1>3, <1>4, <1>5, <2>1, TextsShift
<1> QED
  BY <1>1, <1>2, <1>3, <1>5, <1>6, <1>7, <1>8, <1>9, CountedStep

\* An envelope: a count, if it has one, and a text, if it is fresh.
LEMMA TakeEnvelopeKeeps ==
    ASSUME InputInv, ChargeInv, TakeEnvelope
    PROVE  ChargeInv' /\ spent <= spent'
<1> DEFINE m == stream[1]
<1>1. Hears /\ Head(stream) = m /\ IsEnvelope(1) /\ pc = "receive"
  <2>1. Hears
    BY DEF TakeEnvelope, Take, Hears, InputInv
  <2>2. Head(stream) = m
    BY <2>1, Heard
  <2> QED
    BY <2>1, <2>2 DEF TakeEnvelope, Take, IsEnvelope
<1>2. /\ IF IsFreshText(m) THEN RetainResponseText(m) ELSE UNCHANGED <<latest, split>>
      /\ Report(IF m.tokens = Absent THEN ledger
                ELSE UpdateMessageTokens(ledger, m.id, m.tokens), "none")
      /\ UNCHANGED historyVars /\ UNCHANGED streamIds
  BY <1>1 DEF TakeEnvelope
<1>3. Typed /\ Spoken /\ Metered /\ InOrder /\ Texts
  BY <1>1 DEF ChargeInv, RunInv, Running
<1>4. ~IsStart(1) /\ ~IsResult(1) /\ Names(1)
  BY <1>1 DEF IsStart, IsResult, IsEnvelope, Names
<1>5. /\ m.lane \in Lanes /\ m.id \in Ids /\ Named(1)
      /\ m.id \in New \/ m.id \in ledger.sealed
      /\ m.id \in New => m.tokens <= responses[m.id].tokens /\ Belongs(m.id, 1)
      /\ m.tokens \in Nat \cup {Absent}
  <2>1. Named(1) /\ m.lane \in Lanes /\ m.id \in Ids
    BY <1>1, <1>4, HeadNamed
  <2> QED
    BY <1>1, <1>4, <2>1, HeadNamed DEF Named
<1>6. m.id \in Known
  BY <1>1, <1>3, <1>5, Heard DEF InOrder, OrderedAt, StartedBefore, Known
<1>7. LedgerGrew /\ Known' = Known
  <2>1. CASE m.tokens = Absent
    <3>1. ledger' = ledger
      BY <1>2, <2>1 DEF Report
    <3> QED
      BY <1>3, <3>1, SameLedgerGrows
  <2>2. CASE m.tokens # Absent
    <3>1. m.tokens \in Nat /\ ledger' = UpdateMessageTokens(ledger, m.id, m.tokens)
      BY <1>2, <1>5, <2>2 DEF Report
    <3>2. LedgerGrew /\ Known' = Known \cup {m.id}
      BY <1>3, <1>5, <3>1, UpdateGrows
    <3> QED
      BY <1>6, <3>2
  <2> QED
    BY <2>1, <2>2
<1>8. Reported
  BY <1>2 DEF Report, Reported
<1>9. UNCHANGED <<billed, exact, dropped>>
  BY <1>2 DEF historyVars
<1>10. LanesHeard /\ streamIds' \in [Lanes -> Ids \cup {None}]
  BY <1>2, <1>3, <1>4 DEF LanesHeard, StartsLane, Typed
<1>11. KnownHeard
  BY <1>4, <1>7 DEF KnownHeard
<1>12. ledger'.sealed = ledger.sealed
  BY <1>7 DEF LedgerGrew
<1>13. \A x \in New : TextOf(x, 1) => x = m.id /\ m.text
  BY DEF TextOf
<1>14. m.id \in New => (IsOwn(m.id) <=> m.lane = Main)
  BY <1>5 DEF Named, IsOwn
<1>15. Texts'
  <2>1. CASE IsFreshText(m)
    <3>1. m.id \in New /\ IsOwn(m.id)
      BY <1>5, <1>14, <2>1 DEF IsFreshText
    <3>2. \A x \in Known \cap New : IsOwn(x) => x <= m.id
      <4>1. \A x \in Known \cap New : IsOwn(x) => x < m.id \/ x = m.id
        BY <1>1, <1>3, <1>4, <3>1, Heard DEF InOrder, OrderedAt
      <4>2. \A x \in New : x \in Nat
        BY <1>3 DEF New, Typed
      <4> QED
        BY <3>1, <4>1, <4>2
    <3>3. RetainResponseText(m)
      BY <1>2, <2>1
    <3>4. CASE latest.id # m.id \/ m.text
      BY <1>1, <1>3, <1>6, <1>7, <1>12, <3>1, <3>2, <3>3, <3>4, TextsRetained
         DEF RetainResponseText
    <3>5. CASE latest.id = m.id /\ ~m.text
      <4>1. UNCHANGED <<latest, split>>
        BY <3>3, <3>5 DEF RetainResponseText
      <4> QED
        BY <1>1, <1>3, <1>7, <1>12, <1>13, <3>5, <4>1, TextsShift
    <3> QED
      BY <3>4, <3>5
  <2>2. CASE ~IsFreshText(m)
    <3>1. UNCHANGED <<latest, split>>
      BY <1>2, <2>2
    <3>2. \A x \in New : IsOwn(x) /\ TextOf(x, 1) => x \in ledger.sealed
      BY <1>13, <1>14, <2>2 DEF IsFreshText
    <3> QED
      BY <1>1, <1>3, <1>7, <1>12, <3>1, <3>2, TextsShift
  <2> QED
    BY <2>1, <2>2
<1> QED
  BY <1>1, <1>4, <1>7, <1>8, <1>9, <1>10, <1>11, <1>15, CountedStep

-----------------------------------------------------------------------------
(* Results, and the steps of AgentSession that end the phase.              *)

\* While no result with output was ignored, the counts of the turn are those
\* of the turn whose result is at the head.
LEMMA HeadTurn ==
    ASSUME Hears, IsResult(1), Typed, Spoken, Metered
    PROVE  /\ stream[1].turn \subseteq New /\ New \subseteq Ids
           /\ TokensOf(stream[1].turn) \in Nat
           /\ ~dropped => TurnTokens(ledger) <= TokensOf(stream[1].turn)
           /\ ~dropped /\ HasTokens => stream[1].turn # {}
           /\ TokensOf(stream[1].turn) = 0 => \A x \in stream[1].turn : responses[x].tokens = 0
<1> DEFINE T == stream[1].turn
           D == DOMAIN ledger.tokens
           P == {x \in D : ledger.tokens[x] > 0}
<1>1. T \subseteq New /\ New \subseteq Ids /\ D \subseteq New
  BY Heard DEF Spoken, Resulted, New, Ids, Typed, Metered
<1>2. IsFiniteSet(T) /\ IsFiniteSet(D) /\ IsFiniteSet(P) /\ IsFiniteSet(D \ P)
  BY <1>1, IdsFinite
<1>3. \A x \in Ids : Made[x] = responses[x].tokens /\ Made[x] \in Nat
  BY MadeTokens
<1>4. \A x \in D : ledger.tokens[x] \in Nat /\ ledger.tokens[x] <= Made[x]
  BY <1>1, <1>3 DEF Typed, Metered
<1>5. ~dropped => P \subseteq T
  <2> SUFFICES ASSUME ~dropped, NEW x \in P PROVE x \in T
    OBVIOUS
  <2>1. Belongs(x, 1)
    BY DEF Metered
  <2>2. 1 \in 1 .. Len(stream) /\ NoResult(1, 1 - 1)
    BY Heard DEF NoResult
  <2> QED
    BY <2>1, <2>2 DEF Belongs
<1>6. /\ TokensOf(T) = SumFunctionOnSet(Made, T)
      /\ TurnTokens(ledger) = SumFunctionOnSet(ledger.tokens, D)
  BY MadeTokens DEF TurnTokens, SumFunction
<1>7. \A x \in D \ P : ledger.tokens[x] = 0
  BY <1>4
<1>8. P \subseteq D /\ D = P \cup (D \ P) /\ P \cap (D \ P) = {}
  OBVIOUS
<1>9. HasTokens => P # {}
  BY DEF HasTokens
<1> HIDE DEF T, D, P
<1>10. SumFunctionOnSet(ledger.tokens, D)
         = SumFunctionOnSet(ledger.tokens, P) + SumFunctionOnSet(ledger.tokens, D \ P)
  <2>1. \A x \in P \cup (D \ P) : ledger.tokens[x] \in Nat
    BY <1>4, <1>8
  <2>2. SumFunctionOnSet(ledger.tokens, P \cup (D \ P))
         = SumFunctionOnSet(ledger.tokens, P) + SumFunctionOnSet(ledger.tokens, D \ P)
    BY <1>2, <1>8, <2>1, SumJoin
  <2> QED
    BY <1>8, <2>2
<1>11. SumFunctionOnSet(ledger.tokens, D \ P) = 0
  <2>1. \A x \in D \ P : ledger.tokens[x] \in Nat
    BY <1>4
  <2> QED
    BY <1>2, <1>7, <2>1, SumOfNothing
<1>12. SumFunctionOnSet(ledger.tokens, P) <= SumFunctionOnSet(Made, P)
  <2>1. \A x \in P : ledger.tokens[x] \in Nat /\ Made[x] \in Nat /\ ledger.tokens[x] <= Made[x]
    BY <1>1, <1>3, <1>4, <1>8
  <2> QED
    BY <1>2, <2>1, SumBounded
<1>13. \A x \in T : Made[x] \in Nat
  BY <1>1, <1>3
<1>14. ~dropped => SumFunctionOnSet(Made, P) <= SumFunctionOnSet(Made, T)
  BY <1>2, <1>5, <1>13, SumGrows
<1>15. /\ SumFunctionOnSet(ledger.tokens, P) \in Nat /\ SumFunctionOnSet(Made, P) \in Nat
       /\ SumFunctionOnSet(Made, T) \in Nat
  <2>1. \A x \in P : ledger.tokens[x] \in Nat /\ Made[x] \in Nat
    BY <1>1, <1>3, <1>4, <1>8
  <2> QED
    BY <1>2, <1>13, <2>1, SumNat
<1>16. ~dropped => TurnTokens(ledger) <= TokensOf(T)
  BY <1>6, <1>10, <1>11, <1>12, <1>14, <1>15
<1>17. TokensOf(T) = 0 => \A x \in T : responses[x].tokens = 0
  <2>1. TokensOf(T) = 0 => \A x \in T : Made[x] = 0
    BY <1>2, <1>6, <1>13, SumOfNothing
  <2> QED
    BY <1>1, <1>3, <2>1
<1>18. ~dropped /\ HasTokens => T # {}
  BY <1>5, <1>9
<1> QED
  BY <1>1, <1>6, <1>15, <1>16, <1>17, <1>18 DEF T

\* The result at the head.
LEMMA HeadResult ==
    ASSUME InputInv, ChargeInv, NEW kind, Take(kind), kind = "result",
           UNCHANGED <<sdkVars, saved, start, interrupted, sent>>
    PROVE  /\ Hears /\ IsResult(1) /\ Head(stream) = stream[1] /\ pc = "receive"
           /\ ~IsStart(1) /\ ~IsEnvelope(1)
           /\ Typed /\ RunInv /\ Books
<1>1. Hears
  BY DEF Take, Hears, InputInv
<1>2. Head(stream) = stream[1]
  BY <1>1, Heard
<1>3. IsResult(1) /\ ~IsStart(1) /\ ~IsEnvelope(1)
  BY <1>2 DEF Take, IsResult, IsStart, IsEnvelope
<1>4. Typed /\ RunInv /\ Books
  BY DEF ChargeInv, Running, Take
<1> QED
  BY <1>1, <1>2, <1>3, <1>4 DEF Take

\* A result without fresh output is ignored, and counted as dropped if it had any.
LEMMA IgnoreStaleKeeps ==
    ASSUME InputInv, ChargeInv, IgnoreStaleResult
    PROVE  ChargeInv' /\ spent <= spent'
<1> DEFINE m == stream[1]
<1>1. UNCHANGED sessionVars /\ UNCHANGED consumerVars /\ UNCHANGED sdkVars /\ Take("result")
  BY DEF IgnoreStaleResult
<1>2. /\ Hears /\ IsResult(1) /\ Head(stream) = m /\ pc = "receive"
      /\ ~IsStart(1) /\ ~IsEnvelope(1)
      /\ Typed /\ RunInv /\ Books
  <2>1. UNCHANGED <<sdkVars, saved, start, interrupted, sent>>
    BY <1>1 DEF sessionVars, consumerVars
  <2> QED
    BY <1>1, <2>1, HeadResult
<1>3. Typed /\ Spoken /\ Metered /\ InOrder /\ Texts
  BY <1>2 DEF RunInv
<1>4. /\ UNCHANGED <<latest, split, streamIds, ledger, interrupted>>
      /\ UNCHANGED <<pc, rest, spent, start, warned, saved>>
      /\ UNCHANGED responses /\ UNCHANGED <<lost, busy, turn>>
      /\ New' = New /\ Ids' = Ids /\ Earlier' = Earlier
  BY <1>1, <1>2, Heard DEF sessionVars, consumerVars, sdkVars
<1>5. /\ ~interrupted
      /\ billed' = billed + TokensOf(m.turn)
      /\ exact' = (exact /\ (m.tokens # Absent \/ TokensOf(m.turn) = 0))
      /\ dropped' = (dropped \/ TokensOf(m.turn) > 0)
  BY <1>2 DEF IgnoreStaleResult, IsStale, Bill
<1>6. /\ TokensOf(m.turn) \in Nat
      /\ TokensOf(m.turn) = 0 => \A x \in m.turn : responses[x].tokens = 0
  BY <1>2, <1>3, HeadTurn
<1>7. ~dropped' => ~dropped /\ TokensOf(m.turn) = 0 /\ billed' = billed + 0
  <2>1. ~dropped' => ~dropped /\ ~(TokensOf(m.turn) > 0)
    BY <1>5
  <2>2. ~(TokensOf(m.turn) > 0) => TokensOf(m.turn) = 0
    BY <1>6
  <2> QED
    BY <1>5, <2>1, <2>2
<1>8. Known' = Known /\ LanesHeard /\ KnownHeard
  BY <1>2, <1>4 DEF Known, LanesHeard, StartsLane, KnownHeard
<1>9. Typed'
  BY <1>3, <1>4 DEF Typed
<1>10. Speaking' /\ InOrder' /\ LastResult'
  BY <1>2, <1>3, <1>8, HeardSpeaking, HeardOrder, HeardLast DEF RunInv
<1>11. Spoken'
  <2>1. ASSUME NEW i \in 2 .. Len(stream), IsResult(i)
        PROVE  stream[i].turn \cap ledger'.sealed = {}
    <3>1. i \in Positions
      BY DEF Positions
    <3> QED
      BY <1>3, <1>4, <2>1, <3>1 DEF Spoken, Resulted
  <2> QED
    BY <1>2, <1>3, <1>8, <2>1, HeardSpoken
<1>12. Texts'
  <2>1. \A x \in New : ~TextOf(x, 1)
    BY <1>2 DEF TextOf
  <2> QED
    BY <1>2, <1>3, <1>4, <1>8, <2>1, TextsShift
<1>13. Metered'
  <2>1. ASSUME NEW x \in DOMAIN ledger.tokens
        PROVE  /\ NotLater(x)'
               /\ ledger.tokens[x] <= responses[x].tokens
               /\ ~dropped' => ~(ledger.tokens[x] > 0)
    <3>1. NotLater(x) /\ ledger.tokens[x] <= responses[x].tokens
      BY <1>3 DEF Metered
    <3>2. NotLater(x)'
      BY <1>2, <3>1, NotLaterShift
    <3>3. ~dropped' => ~(ledger.tokens[x] > 0)
      <4> SUFFICES ASSUME ~dropped', ledger.tokens[x] > 0 PROVE FALSE
        OBVIOUS
      <4>1. Belongs(x, 1)
        BY <1>3, <1>7 DEF Metered
      <4>2. 1 \in 1 .. Len(stream) /\ NoResult(1, 1 - 1)
        BY <1>2, Heard DEF NoResult
      <4>3. x \in m.turn
        BY <1>2, <4>1, <4>2 DEF Belongs
      <4>4. responses[x].tokens = 0
        BY <1>6, <1>7, <4>3
      <4> QED
        BY <1>3, <3>1, <4>4 DEF Typed
    <3> QED
      BY <3>1, <3>2, <3>3
  <2> QED
    BY <1>2, <1>3, <1>4, <1>5, <2>1 DEF Metered
<1>14. Books'
  <2>1. UNCHANGED <<TokensOf(New), TokensOf(New \cap ledger.sealed)>>
    BY <1>4 DEF TokensOf, Ids
  <2>2. exact' /\ ~dropped' => ledger.completed = billed'
    <3> SUFFICES ASSUME exact', ~dropped' PROVE ledger.completed = billed'
      OBVIOUS
    <3>1. exact /\ ~dropped
      BY <1>5, <1>7
    <3>2. ledger.completed = billed /\ ledger.completed \in Nat
      BY <1>2, <3>1 DEF Books, Running, Typed
    <3> QED
      BY <1>7, <3>2
  <2>3. ~dropped' => ~dropped
    BY <1>7
  <2> QED
    BY <1>2, <1>4, <2>1, <2>2, <2>3 DEF Books, Running
<1>15. spent <= spent'
  BY <1>3, <1>4 DEF Typed
<1> QED
  BY <1>9, <1>10, <1>11, <1>12, <1>13, <1>14, <1>15 DEF ChargeInv, RunInv

\* A phase that fails is charged what it was.
LEMMA FailureKeeps ==
    ASSUME ChargeInv, RejectStaleResult \/ TakeFailure
    PROVE  ChargeInv' /\ spent <= spent'
<1>1. /\ pc = "receive" /\ pc' = "failed"
      /\ UNCHANGED <<rest, spent, start, warned, phases, retries, saved>>
      /\ UNCHANGED sessionVars /\ UNCHANGED historyVars /\ UNCHANGED sdkVars
  BY DEF RejectStaleResult, TakeFailure, Take
<1>2. /\ UNCHANGED <<responses, lost, ledger, streamIds, rest, spent, start, saved>>
      /\ UNCHANGED <<billed, exact, dropped>>
  BY <1>1 DEF sessionVars, historyVars, sdkVars
<1>3. UNCHANGED <<New, Earlier, TokensOf(New), Ids>>
  BY <1>2 DEF New, Earlier, TokensOf, Ids
<1>4. Typed /\ Books
  BY DEF ChargeInv
<1>5. Typed'
  BY <1>2, <1>3, <1>4 DEF Typed
<1>6. Books'
  BY <1>1, <1>2, <1>3, <1>4 DEF Books, Running
<1>7. ~Running'
  BY <1>1 DEF Running
<1>8. spent <= spent'
  BY <1>2, <1>4 DEF Typed
<1> QED
  BY <1>5, <1>6, <1>7, <1>8 DEF ChargeInv

\* The ledger of a turn begins empty.
LEMMA EmptyTokens ==
    ASSUME NEW t, t = <<>>
    PROVE  DOMAIN t = {} /\ t \in [DOMAIN t -> Nat]
<1>1. t \in Seq({}) /\ Len(t) = 0
  OBVIOUS
<1>2. DOMAIN t = 1 .. Len(t) /\ t \in [1 .. Len(t) -> {}]
  BY <1>1
<1>3. 1 .. 0 = {}
  OBVIOUS
<1> QED
  BY <1>1, <1>2, <1>3

\* The ledger once the result at the head is accounted for.
LEMMA TurnFinalized ==
    ASSUME Hears, IsResult(1), Typed, Spoken, InOrder, Metered, Books, NEW n,
           n = IF stream[1].tokens = Absent THEN TurnTokens(ledger) ELSE stream[1].tokens,
           stream[1].failed \/ interrupted \/ TurnTokens(ledger) > 0,
           ledger' = FinalizeTurnUsage(ledger, n)
    PROVE  /\ ledger' = [tokens |-> ledger'.tokens, completed |-> ledger'.completed,
                         sealed |-> ledger'.sealed]
           /\ DOMAIN ledger'.tokens = {} /\ ledger'.tokens \in [DOMAIN ledger'.tokens -> Nat]
           /\ Known' = Known /\ ledger'.sealed = Known /\ Known \subseteq Ids
           /\ ledger'.completed \in Nat /\ Output(ledger') = ledger'.completed
           /\ Output(ledger) <= Output(ledger')
           /\ TokensOf(New) \in Nat /\ TokensOf(New \cap ledger'.sealed) \in Nat
           /\ TokensOf(stream[1].turn) \in Nat
           /\ ~dropped => /\ ledger'.completed <= TokensOf(New \cap ledger'.sealed)
                          /\ TokensOf(New \cap ledger'.sealed) <= TokensOf(New)
                          /\ stream[1].turn # {}
                          /\ stream[1].tokens # Absent \/ TokensOf(stream[1].turn) = 0 =>
                                ledger'.completed = ledger.completed + TokensOf(stream[1].turn)
<1> DEFINE m == stream[1]
           T == TokensOf(m.turn)
           U == TurnTokens(ledger)
           A == New \cap ledger.sealed
           B == New \cap ledger'.sealed
<1>1. /\ ledger'.tokens = <<>> /\ ledger'.completed = ledger.completed + Larger(U, n)
      /\ ledger'.sealed = ledger.sealed \cup DOMAIN ledger.tokens
      /\ ledger' = [tokens |-> ledger'.tokens, completed |-> ledger'.completed,
                    sealed |-> ledger'.sealed]
  BY DEF FinalizeTurnUsage
<1>2. DOMAIN ledger'.tokens = {} /\ ledger'.tokens \in [DOMAIN ledger'.tokens -> Nat]
  BY <1>1, EmptyTokens
<1>3. U \in Nat /\ ledger.completed \in Nat /\ Output(ledger) = ledger.completed + U
  BY OutputNat DEF Output
<1>4. m.tokens \in Nat \cup {Absent} /\ m.turn \subseteq New /\ m.turn \cap ledger.sealed = {}
      /\ (m.failed => m.turn # {})
      /\ (m.turn # {} => m.tokens \in {Absent, T})
  BY Heard DEF Spoken, Resulted
<1>5. /\ New \subseteq Ids /\ T \in Nat
      /\ ~dropped => U <= T
      /\ ~dropped /\ HasTokens => m.turn # {}
  BY HeadTurn
<1>6. n \in Nat
  BY <1>3, <1>4
<1>7. Larger(U, n) \in Nat /\ Larger(U, n) >= U /\ (Larger(U, n) = U \/ Larger(U, n) = n)
      /\ Larger(U, n) >= n
  BY <1>3, <1>6 DEF Larger
<1>8. Known' = Known /\ ledger'.sealed = Known /\ Known \subseteq Ids
  BY <1>1, <1>2 DEF Known, Typed
<1>9. ledger'.completed \in Nat /\ Output(ledger') = ledger'.completed
  <2>1. TurnTokens(ledger') = 0
    BY <1>2, SumEmpty DEF TurnTokens, SumFunction
  <2> QED
    BY <1>1, <1>3, <1>7, <2>1 DEF Output
<1>10. Output(ledger) <= Output(ledger')
  BY <1>1, <1>3, <1>7, <1>9
<1>11. U > 0 => HasTokens
  <2>1. IsFiniteSet(DOMAIN ledger.tokens)
    BY IdsFinite DEF Typed
  <2>2. \A x \in DOMAIN ledger.tokens : ledger.tokens[x] \in Nat
    BY DEF Typed
  <2>3. U = SumFunctionOnSet(ledger.tokens, DOMAIN ledger.tokens)
    BY DEF TurnTokens, SumFunction
  <2>4. ASSUME ~HasTokens PROVE U = 0
    <3>1. \A x \in DOMAIN ledger.tokens : ledger.tokens[x] = 0
      BY <2>2, <2>4 DEF HasTokens
    <3> QED
      BY <2>1, <2>2, <2>3, <3>1, SumOfNothing
  <2> QED
    BY <2>4
<1>12. ~dropped => m.turn # {}
  BY <1>4, <1>5, <1>11 DEF Hears, Metered
<1>13. ~dropped => n = U \/ n = T
  BY <1>4, <1>12
<1>14. ~dropped => Larger(U, n) <= T
  BY <1>3, <1>5, <1>7, <1>13
<1>15. ASSUME ~dropped, m.tokens # Absent \/ T = 0
       PROVE  ledger'.completed = ledger.completed + T
  <2>1. CASE m.tokens # Absent
    <3>1. n = T
      BY <1>4, <1>12, <1>15, <2>1
    <3>2. Larger(U, n) = T
      BY <1>5, <1>7, <1>14, <1>15, <3>1
    <3> QED
      BY <1>1, <3>2
  <2>2. CASE T = 0
    <3>1. Larger(U, n) = T
      BY <1>7, <1>14, <1>15, <2>2
    <3> QED
      BY <1>1, <3>1
  <2> QED
    BY <1>15, <2>1, <2>2
<1>16. m.turn \subseteq Known
  <2> SUFFICES ASSUME NEW id \in m.turn PROVE id \in Known
    OBVIOUS
  <2>1. StartedBefore(id, 1)
    BY Heard DEF InOrder, OrderedAt
  <2> QED
    BY <2>1 DEF StartedBefore
<1>17. A \cup m.turn \subseteq B /\ A \cap m.turn = {} /\ B \subseteq New /\ m.turn \subseteq Ids
       /\ A \subseteq Ids
  BY <1>1, <1>4, <1>5, <1>8, <1>16
<1>18. \A x \in Ids : Made[x] \in Nat
  BY MadeTokens
<1>19. IsFiniteSet(A) /\ IsFiniteSet(m.turn) /\ IsFiniteSet(B) /\ IsFiniteSet(New)
       /\ (\A x \in New : Made[x] \in Nat) /\ (\A x \in B : Made[x] \in Nat)
       /\ (\A x \in A \cup m.turn : Made[x] \in Nat)
  BY <1>5, <1>17, <1>18, IdsFinite
<1>20. /\ TokensOf(A) = SumFunctionOnSet(Made, A)
       /\ T = SumFunctionOnSet(Made, m.turn)
       /\ TokensOf(B) = SumFunctionOnSet(Made, B)
       /\ TokensOf(New) = SumFunctionOnSet(Made, New)
  BY MadeTokens
<1>21. TokensOf(A) + T <= TokensOf(B)
  <2>1. SumFunctionOnSet(Made, A \cup m.turn) = TokensOf(A) + T
    BY <1>17, <1>19, <1>20, SumJoin
  <2>2. SumFunctionOnSet(Made, A \cup m.turn) <= SumFunctionOnSet(Made, B)
    BY <1>17, <1>19, SumGrows
  <2> QED
    BY <1>20, <2>1, <2>2
<1>22. TokensOf(B) <= TokensOf(New)
  BY <1>17, <1>19, <1>20, SumGrows
<1>23. TokensOf(A) \in Nat /\ TokensOf(B) \in Nat /\ TokensOf(New) \in Nat
  BY <1>5, <1>17, TokensNat
<1>24. ~dropped => ledger'.completed <= TokensOf(B)
  <2> SUFFICES ASSUME ~dropped PROVE ledger'.completed <= TokensOf(B)
    OBVIOUS
  <2>1. ledger.completed <= TokensOf(A)
    BY DEF Books, Running, Hears
  <2> HIDE DEF A, B, T, U
  <2> QED
    BY <1>1, <1>3, <1>5, <1>7, <1>14, <1>21, <1>23, <2>1
<1> QED
  BY <1>1, <1>2, <1>5, <1>8, <1>9, <1>10, <1>12, <1>15, <1>22, <1>23, <1>24

\* The usage of a result that is not stale is finalised.
LEMMA ResultTaken ==
    ASSUME InputInv, ChargeInv, TakeResult
    PROVE  \E n : /\ Hears /\ IsResult(1) /\ Head(stream) = stream[1]
                  /\ Typed /\ RunInv /\ Books /\ pc = "receive" /\ rest = "none"
                  /\ ~IsStart(1) /\ ~IsEnvelope(1)
                  /\ n = IF stream[1].tokens = Absent THEN TurnTokens(ledger)
                         ELSE stream[1].tokens
                  /\ stream[1].failed \/ interrupted \/ TurnTokens(ledger) > 0
                  /\ ledger' = FinalizeTurnUsage(ledger, n)
<1> DEFINE m == stream[1]
<1>1. Take("result") /\ UNCHANGED <<sdkVars, saved, start, interrupted, sent>>
  BY DEF TakeResult
<1>2. /\ Hears /\ IsResult(1) /\ Head(stream) = m /\ pc = "receive"
      /\ ~IsStart(1) /\ ~IsEnvelope(1)
      /\ Typed /\ RunInv /\ Books
  BY <1>1, HeadResult
<1>3. ledger' = FinalizeTurnUsage(ledger,
                  IF m.tokens = Absent THEN TurnTokens(ledger) ELSE m.tokens)
  BY <1>2 DEF TakeResult
<1>4. m.failed \/ interrupted \/ TurnTokens(ledger) > 0
  BY <1>2 DEF TakeResult, IsStale, HasFreshResult
<1>5. rest = "none"
  BY <1>2 DEF Books
<1> QED
  BY <1>2, <1>3, <1>4, <1>5

\* When no input is waited for, nothing but a failure follows the result.
LEMMA ResultIsLast ==
    ASSUME InputInv, Hears, IsResult(1), LastResult, pending = None
    PROVE  \A j \in Positions : j = 1 \/ stream[j].kind = "failure"
<1>1. 1 \in Positions /\ Len(stream) \in Nat
  BY Heard
<1>2. stream[1].inputs = sent
  BY <1>1 DEF InputInv, ResultsFollowInputs, Positions
<1>3. \A j \in 2 .. Len(stream) : stream[j].kind = "failure"
  BY <1>1, <1>2 DEF LastResult
<1>4. \A j \in Positions : j = 1 \/ j \in 2 .. Len(stream)
  BY <1>1 DEF Positions
<1> QED
  BY <1>3, <1>4

\* So AgentSession has heard of every response of the phase.
LEMMA AllKnown ==
    ASSUME InputInv, Hears, IsResult(1), InOrder, LastResult, pending = None
    PROVE  New \subseteq Known
<1> SUFFICES ASSUME NEW id \in New, id \notin Known PROVE FALSE
  OBVIOUS
<1>1. Len(stream) \in Nat
  BY Heard
<1>2. PICK j \in 1 .. Len(stream) + 1 - 1 : IsStart(j)
  BY DEF InOrder, StartedBefore
<1>3. j \in Positions
  BY <1>1 DEF Positions
<1> QED
  BY <1>2, <1>3, ResultIsLast DEF IsStart, IsResult

\* A result that is not stale: its turn is charged once and sealed.
LEMMA TakeResultKeeps ==
    ASSUME InputInv, ChargeInv, TakeResult
    PROVE  ChargeInv' /\ spent <= spent'
<1> DEFINE m == stream[1]
           T == TokensOf(m.turn)
<1>1. PICK n : /\ Hears /\ IsResult(1) /\ Head(stream) = m
               /\ Typed /\ RunInv /\ Books /\ pc = "receive" /\ rest = "none"
               /\ ~IsStart(1) /\ ~IsEnvelope(1)
               /\ n = IF m.tokens = Absent THEN TurnTokens(ledger) ELSE m.tokens
               /\ m.failed \/ interrupted \/ TurnTokens(ledger) > 0
               /\ ledger' = FinalizeTurnUsage(ledger, n)
  BY ResultTaken
<1>2. Typed /\ Speaking /\ Spoken /\ InOrder /\ LastResult /\ Metered /\ Texts /\ Books
  BY <1>1 DEF RunInv
<1>3. /\ ledger' = [tokens |-> ledger'.tokens, completed |-> ledger'.completed,
                    sealed |-> ledger'.sealed]
      /\ DOMAIN ledger'.tokens = {} /\ ledger'.tokens \in [DOMAIN ledger'.tokens -> Nat]
      /\ Known' = Known /\ ledger'.sealed = Known /\ Known \subseteq Ids
      /\ ledger'.completed \in Nat /\ Output(ledger') = ledger'.completed
      /\ Output(ledger) <= Output(ledger')
  BY <1>1, <1>2, TurnFinalized
<1>4. /\ TokensOf(New) \in Nat /\ TokensOf(New \cap ledger'.sealed) \in Nat /\ T \in Nat
      /\ ~dropped => /\ ledger'.completed <= TokensOf(New \cap ledger'.sealed)
                     /\ TokensOf(New \cap ledger'.sealed) <= TokensOf(New)
                     /\ m.tokens # Absent \/ T = 0 =>
                           ledger'.completed = ledger.completed + T
  BY <1>1, <1>2, TurnFinalized
<1>5. /\ UNCHANGED <<busy, turn, responses, lost, current, read>>
      /\ UNCHANGED <<dropped, sent, pending, interrupted, streamIds>>
      /\ UNCHANGED <<start, warned, saved>>
      /\ New' = New /\ Ids' = Ids /\ Earlier' = Earlier
      /\ latest' = NoMessage
  <2>1. New' = New /\ Ids' = Ids /\ Earlier' = Earlier
    BY <1>1, Heard
  <2> QED
    BY <2>1 DEF TakeResult, sdkVars
<1>6. /\ spent' = start + Output(ledger')
      /\ \/ pc' = "react" /\ rest' \in {"failed", "pending"}
         \/ pc' = AfterResult(m.failed, pending # None, interrupted) /\ UNCHANGED rest
      /\ billed' = billed + T
      /\ exact' = (exact /\ (m.tokens # Absent \/ T = 0))
  <2>1. Head(stream) = m
    BY <1>1
  <2> QED
    BY <1>3, <2>1 DEF TakeResult, Bill
<1>7. start = saved.spent /\ spent = start + Output(ledger) /\ start \in Nat
      /\ Output(ledger) \in Nat
  BY <1>1, <1>2, OutputNat DEF Books, Typed
<1>8. spent <= spent' /\ spent' \in Nat
  BY <1>3, <1>6, <1>7
<1>9. Typed'
  <2>1. /\ responses \in Seq([tokens : Nat, texts : Nat, lane : Lanes])
        /\ saved = [sealed |-> saved.sealed, spent |-> saved.spent,
                  warned |-> saved.warned, responses |-> saved.responses]
        /\ saved.responses \in 0 .. Len(responses)
        /\ saved.spent \in Nat /\ start \in Nat
        /\ saved.sealed \subseteq Ids
        /\ lost \subseteq Ids
        /\ streamIds \in [Lanes -> Ids \cup {None}]
    BY <1>2 DEF Typed
  <2>2. DOMAIN ledger'.tokens \subseteq Ids /\ ledger'.sealed \subseteq Ids
    BY <1>3
  <2> QED
    BY <1>3, <1>5, <1>8, <2>1, <2>2 DEF Typed
<1>10. LanesHeard /\ KnownHeard
  BY <1>1, <1>3, <1>5 DEF LanesHeard, StartsLane, KnownHeard
<1>11. Speaking' /\ InOrder' /\ LastResult'
  BY <1>1, <1>2, <1>10, HeardSpeaking, HeardOrder, HeardLast
<1>12. \A x \in DOMAIN ledger.tokens :
          /\ ~(busy /\ x \in turn)
          /\ \A i \in 2 .. Len(stream) : IsResult(i) => x \notin stream[i].turn
  <2> TAKE x \in DOMAIN ledger.tokens
  <2>1. NotLater(x)
    BY <1>2 DEF Metered
  <2>2. 1 \in 1 .. Len(stream) /\ Len(stream) \in Nat
    BY <1>1, Heard
  <2>3. \A j \in 1 .. Len(stream) : ~NoResult(1, j)
    BY <1>1 DEF NoResult
  <2>4. \A i \in 2 .. Len(stream) : i - 1 \in 1 .. Len(stream) /\ i \in Positions
    BY <2>2 DEF Positions
  <2> QED
    BY <2>1, <2>2, <2>3, <2>4 DEF NotLater
<1>13. Spoken'
  <2>1. ASSUME NEW i \in 2 .. Len(stream), IsResult(i)
        PROVE  stream[i].turn \cap ledger'.sealed = {}
    <3>1. i \in Positions
      BY DEF Positions
    <3>2. stream[i].turn \cap ledger.sealed = {}
      BY <1>2, <2>1, <3>1 DEF Spoken, Resulted
    <3> QED
      BY <1>3, <1>12, <2>1, <3>2 DEF Known
  <2> QED
    BY <1>1, <1>2, <1>10, <2>1, HeardSpoken
<1>14. Running' => Metered'
  <2>1. saved.sealed \subseteq ledger'.sealed
    BY <1>2, <1>3 DEF Metered, Known
  <2>2. busy => turn \cap ledger'.sealed = {}
    BY <1>2, <1>3, <1>12 DEF Metered, Known
  <2>3. /\ pc' = "receive" => ~interrupted
        /\ pc' = "react" => rest' # "none"
        /\ pc' # "begin"
    BY <1>6 DEF AfterResult
  <2> QED
    BY <1>3, <1>5, <2>1, <2>2, <2>3 DEF Metered
<1>15. Texts'
  <2>1. \A x \in New : ~TextOf(x, 1)
    BY <1>1 DEF TextOf
  <2>2. ASSUME NEW x \in New, IsOwn(x), Retained(x)
        PROVE  Outdated(x)'
    <3>1. x # None
      BY <1>2 DEF New, Typed, None
    <3>2. x \in Known
      BY <1>2, <2>2, <3>1 DEF Retained, Texts
    <3> QED
      BY <1>3, <3>2 DEF Outdated
  <2>3. ledger.sealed \subseteq ledger'.sealed
    BY <1>3 DEF Known
  <2> QED
    BY <1>1, <1>2, <1>3, <1>5, <2>1, <2>2, <2>3, TextsReset
<1>16. Books'
  <2>1. UNCHANGED TokensOf(New) /\ TokensOf(New \cap ledger.sealed)' = TokensOf(New \cap ledger'.sealed)
    BY <1>5 DEF TokensOf, Ids
  <2>2. exact' /\ ~dropped => ledger'.completed = billed'
    <3> SUFFICES ASSUME exact', ~dropped PROVE ledger'.completed = billed'
      OBVIOUS
    <3>1. exact /\ (m.tokens # Absent \/ T = 0)
      BY <1>6
    <3>2. ledger.completed = billed
      BY <1>1, <3>1 DEF Books, Running
    <3> QED
      BY <1>4, <1>6, <3>1, <3>2
  <2>3. ~dropped => Output(ledger') <= TokensOf(New)
    <3> HIDE DEF T, m
    <3> QED
      BY <1>3, <1>4
  <2>4. interrupted => spent' >= Limit
    <3>1. interrupted => spent >= Limit
      BY <1>1 DEF Books, Running
    <3> QED
      BY <1>3, <1>7, <1>8, <3>1, LimitAssumption
  <2>5. pc' = "completed" => New \cup saved.sealed \subseteq ledger'.sealed
    <3>1. pc' = "completed" => pending = None
      BY <1>6 DEF AfterResult
    <3>2. saved.sealed \subseteq ledger'.sealed
      BY <1>2, <1>3 DEF Metered, Known
    <3> QED
      BY <1>1, <1>2, <1>3, <3>1, <3>2, AllKnown
  <2>6. /\ pc' \in {"react", "interrupted", "failed", "receive", "completed"}
        /\ pc' = "interrupted" => interrupted
        /\ pc' # "react" => rest' = "none"
        /\ rest' \in {"none", "failed", "pending"}
    BY <1>1, <1>6 DEF AfterResult
  <2>7. Earlier \subseteq saved.sealed /\ saved.spent < Limit
    BY <1>1, <1>2 DEF Books
  <2> QED
    BY <1>3, <1>4, <1>5, <1>6, <1>7, <2>1, <2>2, <2>3, <2>4, <2>5, <2>6, <2>7
       DEF Books, Running
<1> QED
  BY <1>8, <1>9, <1>11, <1>13, <1>14, <1>15, <1>16 DEF ChargeInv, RunInv

-----------------------------------------------------------------------------
(* Steps of the consumer.                                                  *)

\* A new connection starts from what is saved.
LEMMA ConnectKeeps ==
    ASSUME ChargeInv, Connect
    PROVE  ChargeInv' /\ spent' = spent
<1>1. Typed /\ Books
  BY DEF ChargeInv
<1>2. New = {} /\ spent = saved.spent /\ rest = "none" /\ pc' = "begin"
      /\ Earlier \subseteq saved.sealed /\ saved.spent < Limit
  BY <1>1 DEF Connect, Books
<1>3. UNCHANGED <<responses, lost, rest, spent, start, warned, phases, retries, saved>>
  BY DEF Connect
<1>4. UNCHANGED <<New, Earlier, Ids>>
  BY <1>3 DEF New, Earlier, Ids
<1>5. /\ busy' = FALSE /\ turn' = {} /\ current' = [l \in Lanes |-> None]
      /\ stream' = <<>> /\ interrupted' = FALSE /\ latest' = NoMessage
      /\ streamIds' = [l \in Lanes |-> None] /\ billed' = 0
      /\ ledger' = [tokens |-> <<>>, completed |-> 0, sealed |-> saved.sealed]
  BY DEF Connect, NewLedger
<1>6. Len(stream') = 0
  BY <1>5
<1>7. 1 .. 0 = {} /\ latest'.id = None
  BY <1>5 DEF NoMessage
<1>8. DOMAIN ledger'.tokens = {} /\ ledger'.tokens \in [DOMAIN ledger'.tokens -> Nat]
  BY <1>5, EmptyTokens
<1>9. Output(ledger') = 0
  <2>1. TurnTokens(ledger') = 0
    BY <1>8, SumEmpty DEF TurnTokens, SumFunction
  <2> QED
    BY <1>5, <2>1 DEF Output
<1>10. Typed'
  <2>1. streamIds' \in [Lanes -> Ids \cup {None}]
    BY <1>5
  <2>2. DOMAIN ledger'.tokens \subseteq Ids
    BY <1>8
  <2> QED
    BY <1>1, <1>3, <1>4, <1>5, <1>8, <2>1, <2>2 DEF Typed
<1>11. Speaking'
  BY <1>2, <1>4, <1>5 DEF Speaking
<1>12. Spoken' /\ LastResult'
  BY <1>6, <1>7 DEF Spoken, LastResult, Positions
<1>13. InOrder'
  BY <1>2, <1>4, <1>6, <1>7 DEF InOrder, Positions
<1>14. Metered'
  BY <1>2, <1>3, <1>5, <1>8 DEF Metered
<1>15. Texts'
  BY <1>2, <1>4, <1>7 DEF Texts
<1>16. Books'
  <2>1. TokensOf(New)' \in Nat /\ TokensOf(New \cap ledger.sealed)' \in Nat
    <3>1. SumFunctionOnSet(Made', {}) = 0
      BY SumEmpty
    <3>2. TokensOf({})' = 0
      BY <3>1 DEF TokensOf, Made
    <3>3. New' = {} /\ New' \cap ledger'.sealed = {}
      BY <1>2, <1>4
    <3>4. TokensOf(New)' = 0 /\ TokensOf(New \cap ledger.sealed)' = 0
      BY <3>2, <3>3
    <3> QED
      BY <3>4
  <2>2. ledger'.completed = 0
    BY <1>5
  <2> QED
    BY <1>2, <1>3, <1>4, <1>5, <1>9, <2>1, <2>2 DEF Books, Running
<1> QED
  BY <1>3, <1>10, <1>11, <1>12, <1>13, <1>14, <1>15, <1>16 DEF ChargeInv, RunInv

\* The SDK and the stream do not change, though an input may be queued.
Quiet ==
    /\ UNCHANGED sdkVars /\ UNCHANGED historyVars
    /\ UNCHANGED <<stream, latest, split, streamIds, ledger, saved, spent>>
    /\ sent' \in {sent, sent + 1}

\* Queueing an input leaves every result before it.
LEMMA QuietKeeps ==
    ASSUME InputInv, Typed, Speaking, Spoken, InOrder, LastResult, Texts, Quiet
    PROVE  /\ Speaking' /\ Spoken' /\ InOrder' /\ LastResult' /\ Texts'
           /\ UNCHANGED <<New, Ids, Earlier, TokensOf(New), TokensOf(New \cap ledger.sealed)>>
<1>1. UNCHANGED <<read, busy, turn, current, responses, lost, stream, latest, split,
                  streamIds, ledger, saved>>
  BY DEF Quiet, sdkVars
<1>2. UNCHANGED <<New, Ids, Earlier, TokensOf(New), TokensOf(New \cap ledger.sealed), Known>>
  BY <1>1 DEF New, Ids, Earlier, TokensOf, Known
<1>3. Speaking'
  BY <1>1, <1>2 DEF Speaking, Owns, StartsLane, IsStart
<1>4. Spoken'
  <2>1. UNCHANGED Spoken
    BY <1>1, <1>2 DEF Spoken, Positions, Names, IsStart, IsEnvelope, IsDelta, IsResult, Named,
       Counted, Resulted, Belongs, NoResult, Owns, StartsLane, TokensOf, LastOwn, Ids
  <2> QED
    BY <2>1
<1>5. InOrder'
  BY <1>1, <1>2 DEF InOrder, OrderedAt, StartedBefore, Positions, Names, IsStart, IsEnvelope,
     IsResult, IsOwn
<1>6. LastResult'
  <2>1. read \in Nat /\ sent \in Nat /\ read <= sent
    BY DEF InputInv, Counters
  <2> SUFFICES ASSUME NEW i \in Positions, IsResult(i)
               PROVE  /\ stream[i].inputs \in Nat /\ stream[i].inputs <= read
                      /\ stream[i].inputs = sent' =>
                             /\ ~busy
                             /\ \A j \in i + 1 .. Len(stream) : stream[j].kind = "failure"
    BY <1>1 DEF LastResult, Positions, IsResult
  <2>2. /\ stream[i].inputs \in Nat /\ stream[i].inputs <= read
        /\ stream[i].inputs = sent =>
                             /\ ~busy
                             /\ \A j \in i + 1 .. Len(stream) : stream[j].kind = "failure"
    BY DEF LastResult
  <2>3. stream[i].inputs # sent + 1
    BY <2>1, <2>2
  <2> QED
    BY <2>2, <2>3 DEF Quiet
<1>7. Texts'
  BY <1>1, <1>2 DEF Texts, Retained, Outdated, TextOf, IsEnvelope, Positions, IsOwn
<1> QED
  BY <1>2, <1>3, <1>4, <1>5, <1>6, <1>7

\* The consumer's steps within a phase do not change what is charged.
LEMMA QuietStep ==
    ASSUME InputInv, ChargeInv, Quiet, Running,
           pc' \in {"begin", "receive", "react", "failed", "interrupted"},
           pc' # "react" => rest' = "none",
           rest' \in {"none", "failed", "pending"},
           start' \in Nat, pc' = "begin" => spent = saved.spent /\ Output(ledger) = 0,
           pc' # "begin" => start' = saved.spent /\ spent = start' + Output(ledger),
           pc' = "interrupted" \/ (interrupted' /\ Running') => spent >= Limit,
           pc' = "receive" /\ interrupted' => HasTokens,
           pc' = "react" /\ rest' = "none" => HasTokens,
           pc' = "react" /\ rest' # "none" => DOMAIN ledger.tokens = {},
           pc' = "interrupted" => DOMAIN ledger.tokens = {},
           pc' = "begin" => DOMAIN ledger.tokens = {} /\ ~interrupted'
    PROVE  ChargeInv' /\ spent' = spent
<1>1. Typed /\ RunInv /\ Books
  BY DEF ChargeInv
<1>2. /\ UNCHANGED <<responses, lost, stream, busy, turn, latest, split, streamIds, ledger>>
      /\ UNCHANGED <<saved, spent, billed, exact, dropped>>
  BY DEF Quiet, sdkVars, historyVars
<1>3. /\ Speaking' /\ Spoken' /\ InOrder' /\ LastResult' /\ Texts'
      /\ UNCHANGED <<New, Ids, Earlier, TokensOf(New), TokensOf(New \cap ledger.sealed)>>
  BY <1>1, QuietKeeps DEF RunInv
<1>4. Typed'
  BY <1>1, <1>2, <1>3 DEF Typed
<1>5. Running' => Metered'
  <2>1. Metered
    BY <1>1 DEF RunInv
  <2>2. UNCHANGED HasTokens
    BY <1>2 DEF HasTokens
  <2>3. \A x : (NotLater(x)' <=> NotLater(x)) /\ (Belongs(x, 1)' <=> Belongs(x, 1))
    BY <1>2 DEF NotLater, Belongs, NoResult, IsResult, Positions
  <2> QED
    BY <1>2, <1>3, <2>1, <2>2, <2>3 DEF Metered, Running
<1>6. Books'
  <2>1. pc \in {"begin", "receive", "react"}
    BY DEF Running
  <2>2. /\ Earlier \subseteq saved.sealed /\ saved.spent < Limit
        /\ ~dropped => Output(ledger) <= TokensOf(New)
        /\ ~dropped => ledger.completed <= TokensOf(New \cap ledger.sealed)
        /\ exact /\ ~dropped => ledger.completed = billed
    BY <1>1, <2>1 DEF Books, Running
  <2>3. Output(ledger') = Output(ledger)
    BY <1>2
  <2> QED
    BY <1>2, <1>3, <2>2, <2>3 DEF Books, Running
<1> QED
  BY <1>2, <1>3, <1>4, <1>5, <1>6 DEF ChargeInv, RunInv

\* The notice before the phase.
LEMMA WarnFirstKeeps ==
    ASSUME InputInv, ChargeInv, WarnFirst
    PROVE  ChargeInv' /\ spent' = spent
<1>1. Running /\ Typed /\ Metered /\ Books /\ pc = "begin"
  BY DEF ChargeInv, RunInv, Running, WarnFirst
<1>2. Quiet
  BY DEF WarnFirst, Queue, Quiet
<1>3. /\ UNCHANGED <<pc, rest, spent, start, ledger, interrupted, saved>>
      /\ rest = "none" /\ spent = saved.spent /\ Output(ledger) = 0
      /\ DOMAIN ledger.tokens = {} /\ ~interrupted /\ start \in Nat
  BY <1>1 DEF WarnFirst, Typed, Metered, Books
<1> QED
  BY <1>1, <1>2, <1>3, QuietStep

\* The phase begins at the total so far.
LEMMA RunKeeps ==
    ASSUME InputInv, ChargeInv, Run
    PROVE  ChargeInv' /\ spent' = spent
<1>1. Running /\ Typed /\ Metered /\ Books /\ pc = "begin"
  BY DEF ChargeInv, RunInv, Running, Run
<1>2. Quiet
  BY DEF Run, Queue, Quiet
<1>3. /\ UNCHANGED <<rest, spent, ledger, interrupted, saved>>
      /\ pc' = "receive" /\ start' = spent
      /\ rest = "none" /\ spent = saved.spent /\ Output(ledger) = 0
      /\ ~interrupted /\ spent \in Nat
  BY <1>1 DEF Run, Typed, Metered, Books
<1>4. spent = start' + Output(ledger)
  BY <1>3
<1> QED
  BY <1>1, <1>2, <1>3, <1>4, QuietStep

\* Interruption at the limit, or the notice.
LEMMA ReactKeeps ==
    ASSUME InputInv, ChargeInv, React
    PROVE  ChargeInv' /\ spent' = spent
<1>1. Running /\ Typed /\ Metered /\ Books /\ pc = "react"
  BY DEF ChargeInv, RunInv, Running, React
<1>2. Quiet
  BY DEF React, Queue, Quiet
<1>3. /\ UNCHANGED <<spent, start, ledger, saved>>
      /\ start = saved.spent /\ spent = start + Output(ledger) /\ start \in Nat
      /\ interrupted => spent >= Limit
      /\ interrupted' = (interrupted \/ spent >= Limit)
      /\ pc' = IF rest = "none" THEN "receive"
               ELSE AfterResult(rest = "failed", TRUE, interrupted')
      /\ rest' = "none"
      /\ rest = "none" => HasTokens
      /\ rest # "none" => DOMAIN ledger.tokens = {}
  BY <1>1 DEF React, Typed, Metered, Books
<1>4. interrupted' => spent >= Limit
  BY <1>3
<1>5. /\ pc' \in {"receive", "failed", "interrupted"}
      /\ pc' = "interrupted" => interrupted' /\ rest # "none"
      /\ pc' = "receive" /\ interrupted' => rest = "none"
  BY <1>3 DEF AfterResult
<1> QED
  BY <1>1, <1>2, <1>3, <1>4, <1>5, QuietStep

\* After the last response there is none.
LEMMA NothingNew ==
    ASSUME NEW n \in Nat
    PROVE  n + 1 .. n = {}
OBVIOUS

\* A completed phase is saved with all its responses sealed; a phase that was
\* cut off is at the limit, so no other follows.
LEMMA CheckpointKeeps ==
    ASSUME ChargeInv, Checkpoint
    PROVE  ChargeInv' /\ spent' = spent
<1>1. Typed /\ Books /\ pc \in {"completed", "interrupted"}
  BY DEF ChargeInv, Checkpoint
<1>2. /\ saved' = [sealed |-> ledger.sealed, spent |-> spent, warned |-> warned,
                   responses |-> Len(responses)]
      /\ pc' \in {"connect", "stopped"} /\ (pc' = "connect" => spent < Limit)
      /\ UNCHANGED <<responses, lost, ledger, streamIds, rest, spent, start>>
  BY DEF Checkpoint, sdkVars, sessionVars
<1>3. Len(responses) \in Nat /\ Ids' = Ids /\ spent \in Nat
  BY <1>1, <1>2 DEF Typed, Ids
<1>4. New' = {}
  <2>1. New' = (Len(responses) + 1 .. Len(responses)) \ lost
    BY <1>2 DEF New
  <2> QED
    BY <1>3, <2>1, NothingNew
<1>5. Typed'
  BY <1>1, <1>2, <1>3 DEF Typed
<1>6. pc' = "connect" => Earlier' \subseteq saved'.sealed /\ saved'.spent < Limit
  <2> SUFFICES ASSUME pc' = "connect" PROVE Earlier' \subseteq saved'.sealed /\ saved'.spent < Limit
    OBVIOUS
  <2>1. pc = "completed"
    <3>1. spent < Limit
      BY <1>2
    <3>2. pc = "interrupted" => spent >= Limit
      BY <1>1 DEF Books
    <3> QED
      BY <1>1, <1>3, <3>1, <3>2, LimitAssumption
  <2>2. Earlier \subseteq saved.sealed /\ New \cup saved.sealed \subseteq ledger.sealed
    BY <1>1, <2>1 DEF Books
  <2>3. Earlier' \subseteq Earlier \cup New
    BY <1>1, <1>2 DEF Earlier, New, Typed
  <2> QED
    BY <1>2, <2>2, <2>3
<1>7. rest' = "none"
  BY <1>1, <1>2 DEF Books
<1>8. ~Running' /\ pc' \in {"connect", "stopped"}
  BY <1>2 DEF Running
<1>9. Books'
  <2>1. saved'.spent = spent'
    BY <1>2
  <2> QED
    BY <1>4, <1>6, <1>7, <1>8, <2>1 DEF Books
<1> QED
  BY <1>2, <1>5, <1>8, <1>9 DEF ChargeInv

\* A failed phase is rolled back with its responses.
LEMMA RestoreKeeps ==
    ASSUME ChargeInv, Restore
    PROVE  ChargeInv'
<1>1. Typed /\ Books /\ pc = "failed"
  BY DEF ChargeInv, Restore
<1>2. /\ spent' = saved.spent /\ pc' = "connect"
      /\ lost' = lost \cup (saved.responses + 1 .. Len(responses))
      /\ UNCHANGED <<responses, saved, ledger, streamIds, rest, start>>
  BY DEF Restore, sessionVars
<1>3. Ids' = Ids /\ New' = {} /\ Earlier' \subseteq Earlier
  BY <1>2 DEF New, Earlier, Ids
<1>4. Typed'
  <2>1. saved.responses + 1 .. Len(responses) \subseteq Ids
    BY <1>1 DEF Typed, Ids
  <2> QED
    BY <1>1, <1>2, <1>3, <2>1 DEF Typed
<1>5. ~Running'
  BY <1>2 DEF Running
<1>6. Books'
  BY <1>1, <1>2, <1>3, <1>5 DEF Books
<1> QED
  BY <1>4, <1>5, <1>6 DEF ChargeInv

-----------------------------------------------------------------------------
(* The text that completes a phase.                                        *)

\* A completing result found its text in its own turn.
LEMMA FreshAnswer ==
    ASSUME InputInv, ChargeInv, TakeResult, pc' = "completed", ~dropped
    PROVE  AnswerIsFresh'
<1> DEFINE m == stream[1]
           x == latest.id
           own == LastOwn(m.turn)
<1>1. PICK n : /\ Hears /\ IsResult(1) /\ Head(stream) = m
               /\ Typed /\ RunInv /\ Books /\ pc = "receive"
               /\ n = IF m.tokens = Absent THEN TurnTokens(ledger) ELSE m.tokens
               /\ m.failed \/ interrupted \/ TurnTokens(ledger) > 0
               /\ ledger' = FinalizeTurnUsage(ledger, n)
  BY ResultTaken
<1>2. Typed /\ Spoken /\ InOrder /\ LastResult /\ Metered /\ Texts /\ Books
  BY <1>1 DEF RunInv
<1>3. pending = None /\ ~interrupted /\ HasFreshResult(m)
  <2>1. pending = None /\ ~interrupted /\ ~m.failed
    BY <1>1 DEF TakeResult, AfterResult
  <2> QED
    BY <1>1, <2>1 DEF TakeResult, IsStale
<1>4. /\ answer'.text = ResponseText(m) /\ answer'.own = own
      /\ answer'.quoted = (m.text # None)
      /\ ResponseText(m) # None
  BY <1>1, <1>3 DEF TakeResult, HasFreshResult
<1>5. m.turn # {}
  BY <1>1, <1>2, TurnFinalized
<1>6. /\ m.turn \subseteq New /\ m.text \in {None, own}
      /\ \A j \in Positions : j = 1 \/ stream[j].kind = "failure"
      /\ New \subseteq Ids
  BY <1>1, <1>2, <1>3, <1>5, ResultIsLast, Heard, HeadTurn DEF Spoken, Resulted
<1>7. m.turn \subseteq Known
  <2> SUFFICES ASSUME NEW id \in m.turn PROVE id \in Known
    OBVIOUS
  <2>1. StartedBefore(id, 1)
    BY <1>1, <1>2, Heard DEF InOrder, OrderedAt
  <2> QED
    BY <2>1 DEF StartedBefore
<1>8. \A id \in New : id > saved.responses /\ id \in Nat /\ id # None
  BY <1>2, NewAreNumbers
<1>9. UNCHANGED <<responses, saved, dropped>>
  BY DEF TakeResult, sdkVars
<1>10. CASE m.text # None
  <2>1. answer'.text = own /\ own # None /\ answer'.quoted
    BY <1>4, <1>6, <1>10 DEF ResponseText
  <2>2. own \in m.turn
    <3>1. PICK i \in m.turn : responses[i].lane = Main
      BY <2>1 DEF LastOwn
    <3> QED
      BY <1>2, <1>6, <3>1, LastOwnIs DEF IsOwn
  <2> QED
    BY <1>4, <1>6, <1>8, <1>9, <2>1, <2>2 DEF AnswerIsFresh
<1>11. CASE m.text = None
  <2>1. /\ ResponseText(m) = x /\ latest.text /\ ~split
        /\ MessageTokens(ledger, x) > 0
    BY <1>4, <1>11 DEF ResponseText
  <2>2. x \in DOMAIN ledger.tokens /\ ledger.tokens[x] > 0
    BY <2>1 DEF MessageTokens
  <2>3. x \in m.turn
    <3>1. Belongs(x, 1)
      BY <1>2, <2>2 DEF Metered
    <3>2. 1 \in 1 .. Len(stream) /\ NoResult(1, 1 - 1)
      BY <1>1, Heard DEF NoResult
    <3> QED
      BY <1>1, <3>1, <3>2 DEF Belongs
  <2>4. /\ x \in New /\ x \notin ledger.sealed /\ x # None /\ IsOwn(x)
        /\ \A id \in Known \cap New : IsOwn(id) => id <= x
    BY <1>2, <1>6, <1>8, <2>2, <2>3 DEF Metered, Texts
  <2>5. own = x
    <3>1. own \in m.turn /\ IsOwn(own) /\ x <= own
      BY <1>2, <1>6, <2>3, <2>4, LastOwnIs
    <3>2. own <= x /\ own \in Nat /\ x \in Nat
      BY <1>6, <1>7, <1>8, <2>4, <3>1
    <3> QED
      BY <3>1, <3>2
  <2>6. ~Outdated(x)
    <3>1. \A y \in Known \cap New : IsOwn(y) => ~(x < y)
      BY <1>8, <2>4
    <3> QED
      BY <2>4, <3>1 DEF Outdated
  <2>7. \A i \in Positions : ~TextOf(x, i)
    BY <1>1, <1>6 DEF TextOf, IsEnvelope, IsResult
  <2>8. Retained(x)
    BY <2>1 DEF Retained
  <2>9. responses[x].texts \in Nat /\ responses[x].texts <= 2
    BY <1>2, <1>6, <2>4, TypedResponse DEF Texts
  <2>10. responses[x].texts # 0 /\ responses[x].texts # 2
    BY <1>2, <2>1, <2>4, <2>6, <2>7, <2>8 DEF Texts
  <2>11. responses[x].texts = 1
    BY <2>9, <2>10
  <2> QED
    BY <1>4, <1>8, <1>9, <2>1, <2>4, <2>5, <2>11 DEF AnswerIsFresh
<1> QED
  BY <1>10, <1>11

-----------------------------------------------------------------------------
\* ChargeInv, under every step of the SDK.
LEMMA SdkKeepsCharge ==
    ASSUME InputInv, ChargeInv, Sdk
    PROVE  ChargeInv' /\ spent' = spent /\ pc' = pc /\ pc # "completed"
<1>1. Running
  BY DEF Sdk, Running
<1>2. Typed /\ RunInv /\ Books /\ Sequence
  BY <1>1 DEF ChargeInv, InputInv
<1>3. Typed /\ Speaking /\ Spoken /\ InOrder /\ LastResult /\ Metered /\ Texts /\ Books
  BY <1>2 DEF RunInv
<1>4. Speaks
  BY <1>2, <1>3, SdkSpeaks
<1>5. Typed' /\ Books'
  BY <1>1, <1>3, <1>4, SdkKeepsTyped, SdkKeepsBooks
<1>6. Speaking' /\ InOrder' /\ LastResult'
  BY <1>2, <1>3, <1>4, SdkKeepsSpeaking, SdkKeepsOrder, SdkKeepsLast
<1>7. Metered' /\ Texts'
  BY <1>2, <1>3, <1>4, SdkKeepsMetered, SdkKeepsTexts
<1>8. Spoken'
  <2>1. SaidTruly
    BY <1>2, <1>3, <1>4, SdkSaysTruly
  <2> QED
    BY <1>3, <1>4, <2>1, SpokenNext
<1>9. spent' = spent /\ pc' = pc /\ pc # "completed"
  BY <1>1, <1>4 DEF Speaks, Running
<1> QED
  BY <1>5, <1>6, <1>7, <1>8, <1>9 DEF ChargeInv, RunInv

\* ChargeInv before the first connection.
LEMMA InitialCharge ==
    ASSUME Init
    PROVE  ChargeInv
<1>1. /\ responses = <<>> /\ Len(responses) = 0 /\ Ids = {} /\ pc = "connect" /\ rest = "none"
      /\ spent = 0 /\ start = 0 /\ lost = {}
      /\ saved = [sealed |-> {}, spent |-> 0, warned |-> FALSE, responses |-> 0]
      /\ ledger = [tokens |-> <<>>, completed |-> 0, sealed |-> {}]
      /\ streamIds = [l \in Lanes |-> None]
  <2>1. 1 .. 0 = {}
    OBVIOUS
  <2> QED
    BY <2>1 DEF Init, NewLedger, Ids
<1>2. DOMAIN ledger.tokens = {} /\ ledger.tokens \in [DOMAIN ledger.tokens -> Nat]
  BY <1>1, EmptyTokens
<1>3. Typed
  <2>1. responses \in Seq([tokens : Nat, texts : Nat, lane : Lanes])
    BY <1>1
  <2>2. streamIds \in [Lanes -> Ids \cup {None}]
    BY <1>1
  <2>3. DOMAIN ledger.tokens \subseteq Ids
    BY <1>2
  <2> QED
    BY <1>1, <1>2, <2>1, <2>2, <2>3 DEF Typed
<1>4. New = {} /\ Earlier = {}
  <2>1. 1 .. 0 = {} /\ 0 + 1 .. 0 = {}
    OBVIOUS
  <2> QED
    BY <1>1, <2>1 DEF New, Earlier
<1>5. Books
  BY <1>1, <1>4, LimitAssumption DEF Books, Running
<1> QED
  BY <1>1, <1>3, <1>5 DEF ChargeInv, Running

\* What the session knows of a phase also bounds what it reports: the usage of
\* a run goes down only when a failed phase is rolled back.
LEMMA NextKeepsCharge ==
    ASSUME InputInv, ChargeInv, [Next]_vars
    PROVE  ChargeInv' /\ (pc # "failed" => spent' >= spent)
<1>1. spent \in Nat
  BY DEF ChargeInv, Typed
<1>2. CASE Sdk
  BY <1>1, <1>2, SdkKeepsCharge
<1>3. CASE Session
  <2>1. ChargeInv' /\ spent <= spent'
    BY <1>3, ClearPendingKeeps, TakeStartKeeps, TakeDeltaKeeps, TakeEnvelopeKeeps,
       IgnoreStaleKeeps, FailureKeeps, TakeResultKeeps DEF Session
  <2>2. spent' \in Nat
    BY <2>1 DEF ChargeInv, Typed
  <2> QED
    BY <1>1, <2>1, <2>2
<1>4. CASE Connect \/ WarnFirst \/ Run \/ React \/ Checkpoint
  <2>1. ChargeInv' /\ spent' = spent
    BY <1>4, ConnectKeeps, WarnFirstKeeps, RunKeeps, ReactKeeps, CheckpointKeeps
  <2> QED
    BY <1>1, <2>1
<1>5. CASE Restore
  <2>1. ChargeInv' /\ pc = "failed"
    BY <1>5, RestoreKeeps DEF Restore
  <2> QED
    BY <2>1
<1>6. CASE UNCHANGED vars
  <2>1. UNCHANGED <<sdkVars, stream, sessionVars, consumerVars, historyVars>>
    BY <1>6 DEF vars
  <2>2. CASE Running
    <3>1. Typed /\ RunInv /\ Books
      BY <2>2 DEF ChargeInv
    <3>2. Quiet /\ start' \in Nat
      BY <2>1, <3>1 DEF Quiet, sessionVars, consumerVars, historyVars, Typed
    <3>3. UNCHANGED <<pc, rest, spent, start, interrupted, ledger, saved>>
      BY <2>1 DEF sessionVars, consumerVars
    <3>4. ChargeInv' /\ spent' = spent
      BY <2>2, <3>1, <3>2, <3>3, QuietStep DEF RunInv, Metered, Books, Running
    <3> QED
      BY <1>1, <3>4
  <2>3. CASE ~Running
    <3>1. UNCHANGED <<pc, rest, spent, start, interrupted, ledger, saved, responses, lost,
                      streamIds, billed, exact, dropped>>
      BY <2>1 DEF sdkVars, sessionVars, consumerVars, historyVars
    <3>2. UNCHANGED <<New, Earlier, Ids, TokensOf(New), TokensOf(New \cap ledger.sealed)>>
      BY <3>1 DEF New, Earlier, Ids, TokensOf
    <3>3. Typed' /\ Books' /\ ~Running'
      BY <2>3, <3>1, <3>2 DEF ChargeInv, Typed, Books, Running
    <3> QED
      BY <1>1, <3>1, <3>3 DEF ChargeInv
  <2> QED
    BY <2>2, <2>3
<1> QED
  BY <1>2, <1>3, <1>4, <1>5, <1>6 DEF Next, Consumer

-----------------------------------------------------------------------------
(* What follows for every phase.                                           *)

\* What is known of the stream, the responses and the ledger holds at every
\* step of the session, however its parties interleave.
THEOREM ChargeInvariance == Spec => [](InputInv /\ ChargeInv)
<1>1. Init => InputInv /\ ChargeInv
  BY InitialInputs, InitialCharge
<1>2. InputInv /\ ChargeInv /\ [Next]_vars => (InputInv /\ ChargeInv)'
  BY NextKeepsInputs, NextKeepsCharge
<1> QED
  BY <1>1, <1>2, PTL DEF Spec

\* A phase is never charged for more than its responses made, while no result
\* that had output was ignored.
THEOREM PhasesAreNotOvercharged == Spec => []NeverOvercharged
<1>1. ChargeInv => NeverOvercharged
  <2> SUFFICES ASSUME ChargeInv, ~dropped PROVE spent - saved.spent <= TokensOf(New)
    BY DEF NeverOvercharged, New
  <2>1. Typed /\ Books
    BY DEF ChargeInv
  <2>2. saved.spent \in Nat /\ spent \in Nat /\ Output(ledger) \in Nat
    BY <2>1, OutputNat DEF Typed
  <2>3. TokensOf(New) \in Nat
    <3>1. New \subseteq Ids
      BY <2>1 DEF New, Ids, Typed
    <3> QED
      BY <2>1, <3>1, TokensNat
  <2>4. CASE pc \in {"receive", "react", "failed", "completed", "interrupted"}
    <3>1. spent = saved.spent + Output(ledger) /\ Output(ledger) <= TokensOf(New)
      BY <2>1, <2>4 DEF Books
    <3> QED
      BY <2>2, <2>3, <3>1
  <2>5. CASE pc \notin {"receive", "react", "failed", "completed", "interrupted"}
    <3>1. spent = saved.spent
      BY <2>1, <2>5 DEF Books
    <3> QED
      BY <2>2, <2>3, <3>1
  <2> QED
    BY <2>4, <2>5
<1> QED
  BY <1>1, ChargeInvariance, PTL

\* What is saved for a phase is what its turns cost, when every result named
\* its tokens and none that had output was ignored.
THEOREM SavedChargeIsExact == Spec => []ExactWhenSaved
<1>1. ChargeInv => ExactWhenSaved
  <2> SUFFICES ASSUME ChargeInv, pc \in {"completed", "interrupted"}, exact, ~dropped
               PROVE  spent = saved.spent + billed
    BY DEF ExactWhenSaved
  <2>1. Typed /\ Books
    BY DEF ChargeInv
  <2>2. DOMAIN ledger.tokens = {} /\ ledger.completed = billed
        /\ spent = saved.spent + Output(ledger)
    BY <2>1 DEF Books
  <2>3. TurnTokens(ledger) = 0
    BY <2>2, SumEmpty DEF TurnTokens, SumFunction
  <2>4. Output(ledger) = billed
    BY <2>1, <2>2, <2>3 DEF Output, Typed
  <2> QED
    BY <2>2, <2>4
<1> QED
  BY <1>1, ChargeInvariance, PTL

\* The text of a completed phase is by the last response of the turn that
\* ended it, and a text that was pieced together is the whole of it.
THEOREM CompletedTextIsFresh == Spec => []AnswerIsFresh
<1>1. Init => AnswerIsFresh
  BY DEF Init, AnswerIsFresh
<1>2. InputInv /\ ChargeInv /\ AnswerIsFresh /\ [Next]_vars => AnswerIsFresh'
  <2> SUFFICES ASSUME InputInv, ChargeInv, AnswerIsFresh, [Next]_vars
               PROVE  AnswerIsFresh'
    OBVIOUS
  <2>1. CASE pc' # "completed"
    BY <2>1 DEF AnswerIsFresh
  <2>2. CASE pc' = "completed" /\ TakeResult
    <3>1. CASE ~dropped
      BY <2>2, <3>1, FreshAnswer
    <3>2. CASE dropped
      BY <2>2, <3>2 DEF TakeResult, AnswerIsFresh
    <3> QED
      BY <3>1, <3>2
  <2>3. CASE UNCHANGED vars
    BY <2>3 DEF vars, sdkVars, consumerVars, historyVars, AnswerIsFresh
  <2> QED
    BY <2>1, <2>2, <2>3, CompletedByResult
<1> QED
  BY <1>1, <1>2, ChargeInvariance, PTL DEF Spec

\* The usage of a run never goes down, except when a failed phase is rolled
\* back: SelfRefine refuses a smaller total.
THEOREM UsageNeverShrinks == Spec => UsageGrows
<1>1. InputInv /\ ChargeInv /\ [Next]_vars => [pc # "failed" => spent' >= spent]_vars
  BY NextKeepsCharge
<1> QED
  BY <1>1, ChargeInvariance, PTL DEF Spec, UsageGrows

-----------------------------------------------------------------------------
(* What the phase loop is promised.                                        *)

\* A phase that completed has cost something.
PaidFor == pc = "completed" => spent > saved.spent

\* What a phase looks like to its loop.
State == IF pc \in {"connect", "begin"} THEN "ready"
         ELSE IF pc \in {"receive", "react"} THEN "open" ELSE pc

\* From inside a phase usage grows, or the phase ends in one of three ways.
Proceeds ==
    /\ State = "open" /\ spent \in Nat /\ spent' \in Nat /\ spent' >= spent
    /\ saved'.spent = saved.spent
    /\ \/ State' = "open"
       \/ State' = "completed" /\ spent' > saved.spent
       \/ State' = "interrupted" /\ spent >= Limit
       \/ State' = "failed"

\* A result that completes a phase was metered.
LEMMA CompletionIsPaid ==
    ASSUME InputInv, ChargeInv, TakeResult, pc' = "completed"
    PROVE  spent' > saved.spent
<1>1. PICK n : /\ Typed /\ Books /\ pc = "receive" /\ Head(stream) = stream[1]
               /\ stream[1].failed \/ interrupted \/ TurnTokens(ledger) > 0
  BY ResultTaken
<1>2. ~stream[1].failed /\ ~interrupted
  BY <1>1 DEF TakeResult, AfterResult
<1>3. /\ spent = saved.spent + Output(ledger) /\ saved.spent \in Nat /\ ledger.completed \in Nat
      /\ spent \in Nat
  BY <1>1 DEF Typed, Books
<1>4. Output(ledger) > 0 /\ Output(ledger) \in Nat
  <2>1. TurnTokens(ledger) \in Nat /\ Output(ledger) \in Nat
    BY <1>1, OutputNat
  <2> QED
    BY <1>1, <1>2, <1>3, <2>1 DEF Output
<1>5. spent <= spent' /\ spent' \in Nat
  BY TakeResultKeeps DEF ChargeInv, Typed
<1> QED
  BY <1>3, <1>4, <1>5

\* What AgentSession makes of a message.
LEMMA SessionProceeds ==
    ASSUME InputInv, ChargeInv, Session
    PROVE  Proceeds
<1>1. ChargeInv' /\ spent <= spent'
  BY ClearPendingKeeps, TakeStartKeeps, TakeDeltaKeeps, TakeEnvelopeKeeps,
     IgnoreStaleKeeps, FailureKeeps, TakeResultKeeps DEF Session
<1>2. spent \in Nat /\ spent' \in Nat /\ spent' >= spent
  BY <1>1 DEF ChargeInv, Typed
<1>3. pc = "receive" /\ saved' = saved
  BY DEF Session, Take, ClearPendingMessage, TakeStart, TakeDelta, TakeEnvelope, IgnoreStaleResult,
         RejectStaleResult, TakeResult, TakeFailure, consumerVars
<1>4. CASE TakeResult
  <2>1. pc' \in {"react", "receive", "failed", "completed", "interrupted"}
        /\ (pc' = "interrupted" => interrupted)
    BY <1>4 DEF TakeResult, AfterResult
  <2>2. pc' = "interrupted" => spent >= Limit
    BY <1>3, <2>1 DEF ChargeInv, Books, Running
  <2>3. pc' = "completed" => spent' > saved.spent
    BY <1>4, CompletionIsPaid
  <2> QED
    BY <1>2, <1>3, <2>1, <2>2, <2>3 DEF Proceeds, State
<1>5. CASE ~TakeResult
  <2>1. pc' \in {"receive", "react", "failed"}
    BY <1>3, <1>5 DEF Session, Report, ClearPendingMessage, TakeStart, TakeDelta, TakeEnvelope,
       IgnoreStaleResult, RejectStaleResult, TakeFailure, consumerVars
  <2> QED
    BY <1>2, <1>3, <2>1 DEF Proceeds, State
<1> QED
  BY <1>4, <1>5

\* Interrupting and giving the notice, within a phase.
LEMMA ReactProceeds ==
    ASSUME InputInv, ChargeInv, React
    PROVE  Proceeds
<1>1. ChargeInv' /\ spent' = spent
  BY ReactKeeps
<1>2. spent \in Nat /\ pc = "react" /\ saved' = saved
  BY DEF ChargeInv, Typed, React
<1>3. pc' \in {"receive", "failed", "interrupted"}
  BY DEF React, AfterResult
<1>4. pc' = "interrupted" => spent >= Limit
  BY <1>1 DEF ChargeInv, Books
<1> QED
  BY <1>1, <1>2, <1>3, <1>4 DEF Proceeds, State

\* Every step is one of the promised ones, or none of them.
LEMMA PhaseStep ==
    ASSUME InputInv, ChargeInv, PaidFor, [Next]_vars
    PROVE  \/ Proceeds
           \/ UNCHANGED <<State, spent, saved.spent>>
           \/ /\ State = "ready" /\ State' = "open" /\ saved.spent < Limit
              /\ UNCHANGED <<spent, saved.spent>>
           \/ /\ State \in {"completed", "interrupted"} /\ State' \in {"ready", "stopped"}
              /\ State' = "ready" => spent < Limit
              /\ spent' = spent /\ saved'.spent = spent /\ spent > saved.spent
           \/ /\ State = "failed" /\ State' = "ready" /\ spent' = saved.spent
              /\ UNCHANGED saved.spent
<1>1. Typed /\ Books
  BY DEF ChargeInv
<1>2. CASE Sdk
  <2>1. pc' = pc /\ spent' = spent /\ saved' = saved
    BY <1>2 DEF Sdk, consumerVars
  <2> QED
    BY <2>1 DEF State
<1>3. CASE Session \/ React
  BY <1>3, SessionProceeds, ReactProceeds
<1>4. CASE Connect \/ WarnFirst
  BY <1>4 DEF Connect, WarnFirst, State
<1>5. CASE Run
  BY <1>1, <1>5 DEF Run, State, Books
<1>6. CASE Checkpoint
  <2>1. /\ pc \in {"completed", "interrupted"} /\ pc' \in {"connect", "stopped"}
        /\ pc' = "connect" => spent < Limit
        /\ spent' = spent /\ saved'.spent = spent
    BY <1>6 DEF Checkpoint
  <2>2. spent > saved.spent
    <3>1. saved.spent \in Nat /\ spent \in Nat /\ saved.spent < Limit
      BY <1>1, <2>1 DEF Typed, Books
    <3>2. pc = "interrupted" => spent >= Limit
      BY <1>1 DEF Books
    <3> QED
      BY <2>1, <3>1, <3>2, LimitAssumption DEF PaidFor
  <2> QED
    BY <2>1, <2>2 DEF State
<1>7. CASE Restore
  BY <1>7 DEF Restore, State
<1>8. CASE UNCHANGED vars
  BY <1>8 DEF vars, consumerVars, State
<1> QED
  BY <1>2, <1>3, <1>4, <1>5, <1>6, <1>7, <1>8 DEF Next, Consumer

\* What agent_session.py yields is what self_refine.py counts on: usage that only grows, one end
\* of each phase, a price for what completes, no cut before the limit was reported, and a
\* failure that costs nothing once it is taken back.
THEOREM RefinesMeteredPhase == Spec => ImplementsMeteredPhase
<1>1. Init => PaidFor /\ Phase!PhaseInit
  BY DEF Init, PaidFor, Phase!PhaseInit
<1>2. InputInv /\ ChargeInv /\ PaidFor /\ [Next]_vars => PaidFor'
  <2> SUFFICES ASSUME InputInv, ChargeInv, PaidFor, [Next]_vars, pc' = "completed"
               PROVE  spent' > saved'.spent
    BY DEF PaidFor
  <2> QED
    BY PhaseStep DEF PaidFor, Proceeds, State
<1>3. InputInv /\ ChargeInv /\ PaidFor /\ [Next]_vars => [Phase!PhaseNext]_(Phase!phaseVars)
  BY PhaseStep
  DEF Proceeds, State, Phase!PhaseNext, Phase!phaseVars, Phase!Begin, Phase!Count, Phase!Usage,
      Phase!Complete, Phase!CutOff, Phase!Fail, Phase!Save, Phase!TakeBack
<1> QED
  BY <1>1, <1>2, <1>3, ChargeInvariance, PTL DEF Spec, ImplementsMeteredPhase, Phase!PhaseSpec
=============================================================================
