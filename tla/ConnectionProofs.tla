-------------------------- MODULE ConnectionProofs --------------------------
(***************************************************************************)
(* What ConnectionManager leaves behind, what its queue holds and what     *)
(* becomes of a cancellation, for any pipe size, number of messages,       *)
(* phases and retries.                                                     *)
(*                                                                         *)
(* The four invariants are proved together from one: `Shape` says what     *)
(* status, client and reader are at each await of the owner.               *)
(***************************************************************************)
EXTENDS Connection, TLAPS

Kinds == Errors \cup {"message", "spend", "end"}
Items == [kind : Kinds, of : Nat]

Typed ==
    /\ messages \in Seq(Items)
    /\ connection \in Nat
    /\ failure \in Errors \cup {"none", "spend", "cancelled"}

Shape ==
    \/ /\ pc \in {"idle", "waiting", "ended"}
       /\ status = "disconnected" /\ client = None /\ reader = "none"
    \/ /\ pc = "connecting"
       /\ status = "connecting" /\ client = connection /\ reader = "none"
    \/ /\ pc \in {"receiving", "interrupting"}
       /\ status = "connected" /\ client = connection /\ reader \in {"reading", "done"}
    \/ /\ pc = "disconnecting"
       /\ status = "closing" /\ client = connection /\ reader \in {"none", "reading", "done"}
    \/ /\ pc = "reaping"
       /\ status = "closing" /\ client = connection /\ reader \in {"cancelled", "done"}
    \/ /\ pc = "reaped"
       /\ status = "closing" /\ client = connection /\ reader \in {"none", "done"}

\* Somewhere in the queue the consumer is told that nothing follows.
EndAnnounced == \E i \in 1 .. Len(messages) : messages[i].kind # "message"

EndIsAnnounced == status = "connected" /\ reader = "done" => EndAnnounced

AllOwn == \A i \in 1 .. Len(messages) : messages[i].of = client

Own == status # "disconnected" => AllOwn

\* A cancellation that was heard is on its way to the end of the run.
Heard ==
    cancelled /\ ~unheard =>
        failure = "cancelled" /\ pc \in {"disconnecting", "reaping", "reaped", "ended"}

\* The numbers of the code's states that decide nothing here stay untyped.
ConnectionInv == Typed /\ Shape /\ EndIsAnnounced /\ Own /\ Heard

-----------------------------------------------------------------------------
LEMMA PutKeeps ==
    ASSUME ConnectionInv, NEW kind \in Kinds, Put(kind),
           status # "disconnected", UNCHANGED <<status, client, reader>>
    PROVE  messages' \in Seq(Items) /\ EndIsAnnounced' /\ Own'
<1>1. client \in Nat
  BY DEF ConnectionInv, Typed, Shape, None
<1> DEFINE item == [kind |-> kind, of |-> client]
<1>2. item \in Items /\ item.of = client
  BY <1>1 DEF Items
<1>3. messages' = Append(messages, item)
  BY DEF Put
<1> HIDE DEF item
<1>4. /\ messages' \in Seq(Items) /\ Len(messages') = Len(messages) + 1
      /\ \A i \in 1 .. Len(messages) : messages'[i] = messages[i]
      /\ messages'[Len(messages) + 1] = item
      /\ Len(messages) \in Nat
  BY <1>2, <1>3 DEF ConnectionInv, Typed
<1> QED
  BY <1>2, <1>4 DEF ConnectionInv, EndIsAnnounced, EndAnnounced, Own, AllOwn

LEMMA LastWordsKeep ==
    ASSUME ConnectionInv, NEW e \in Errors \cup {"none", "spend"},
           messages' = messages \o LastWords(e), status # "disconnected",
           UNCHANGED <<status, client>>
    PROVE  messages' \in Seq(Items) /\ EndIsAnnounced' /\ Own'
<1>1. client \in Nat
  BY DEF ConnectionInv, Typed, Shape, None
<1> DEFINE words == LastWords(e)
<1>2. /\ words \in Seq(Items)
      /\ Len(words) \in Nat \ {0} /\ Len(words) \in 1 .. Len(words)
      /\ \A i \in 1 .. Len(words) : words[i].of = client
      /\ words[Len(words)].kind = "end"
  <2>1. /\ [kind |-> "end", of |-> client] \in Items
        /\ e # "none" => [kind |-> e, of |-> client] \in Items
    BY <1>1 DEF Items, Kinds
  <2>2. CASE e = "none"
    <3>1. words = <<[kind |-> "end", of |-> client]>>
      BY <2>2 DEF LastWords
    <3> QED
      BY <2>1, <3>1
  <2>3. CASE e # "none"
    <3> DEFINE error == [kind |-> e, of |-> client]
               last == [kind |-> "end", of |-> client]
    <3>1. words = <<error>> \o <<last>>
      BY <2>3 DEF LastWords
    <3>2. /\ error \in Items /\ last \in Items
          /\ error.of = client /\ last.of = client /\ last.kind = "end"
      BY <2>1, <2>3
    <3> HIDE DEF words, error, last
    <3>3. words \in Seq(Items) /\ Len(words) = 2 /\ words[1] = error /\ words[2] = last
      BY <3>1, <3>2
    <3> QED
      BY <3>2, <3>3
  <2> QED
    BY <2>2, <2>3
<1>3. messages' = messages \o words
  OBVIOUS
<1> HIDE DEF words
<1>4. /\ messages' \in Seq(Items) /\ Len(messages') = Len(messages) + Len(words)
      /\ \A i \in 1 .. Len(messages) : messages'[i] = messages[i]
      /\ \A i \in 1 .. Len(words) : messages'[Len(messages) + i] = words[i]
      /\ Len(messages) \in Nat
  BY <1>2, <1>3 DEF ConnectionInv, Typed
<1>5. EndAnnounced'
  <2>1. Len(messages) + Len(words) \in 1 .. Len(messages')
    BY <1>2, <1>4
  <2>2. messages'[Len(messages) + Len(words)].kind # "message"
    <3>1. Len(words) \in 1 .. Len(words)
      BY <1>2
    <3>2. messages'[Len(messages) + Len(words)] = words[Len(words)]
      BY <1>4, <3>1
    <3> QED
      BY <1>2, <3>2
  <2> QED
    BY <2>1, <2>2 DEF EndAnnounced
<1>6. AllOwn'
  <2>1. ASSUME NEW i \in 1 .. Len(messages') PROVE messages'[i].of = client
    <3>1. CASE i \in 1 .. Len(messages)
      BY <1>4, <3>1 DEF ConnectionInv, Own, AllOwn
    <3>2. CASE i \in Len(messages) + 1 .. Len(messages) + Len(words)
      <4>1. i - Len(messages) \in 1 .. Len(words)
            /\ Len(messages) + (i - Len(messages)) = i
        BY <1>2, <1>4, <3>2
      <4>2. messages'[i] = words[i - Len(messages)]
        BY <1>4, <4>1
      <4> QED
        BY <1>2, <4>1, <4>2
    <3> QED
      BY <1>2, <1>4, <3>1, <3>2
  <2> QED
    BY <2>1 DEF AllOwn
<1> QED
  BY <1>4, <1>5, <1>6 DEF EndIsAnnounced, Own

LEMMA TakeKeeps ==
    ASSUME ConnectionInv, messages # <<>>, messages' = Tail(messages),
           status # "disconnected", client' = client, reader' = reader,
           status' = "closing" \/ (status' = status /\ Head(messages).kind = "message")
    PROVE  messages' \in Seq(Items) /\ EndIsAnnounced' /\ Own'
<1>1. /\ messages' \in Seq(Items) /\ Len(messages') = Len(messages) - 1
      /\ \A i \in 1 .. Len(messages) - 1 : messages'[i] = messages[i + 1]
      /\ Head(messages) = messages[1] /\ Len(messages) \in Nat \ {0}
  BY DEF ConnectionInv, Typed
<1>2. Own'
  BY <1>1 DEF ConnectionInv, Own, AllOwn
<1>3. EndIsAnnounced'
  <2>1. SUFFICES ASSUME status' = "connected", reader' = "done"
                 PROVE  EndAnnounced'
    BY DEF EndIsAnnounced
  <2>2. status = "connected" /\ Head(messages).kind = "message"
    BY <2>1
  <2>3. PICK i \in 1 .. Len(messages) : messages[i].kind # "message"
    BY <2>1, <2>2 DEF ConnectionInv, EndIsAnnounced, EndAnnounced
  <2>4. i - 1 \in 1 .. Len(messages') /\ messages'[i - 1] = messages[i]
    BY <1>1, <2>2, <2>3
  <2> QED
    BY <2>3, <2>4 DEF EndAnnounced
<1> QED
  BY <1>1, <1>2, <1>3

-----------------------------------------------------------------------------
LEMMA InitConnection == Init => ConnectionInv
<1> SUFFICES ASSUME Init PROVE ConnectionInv
  OBVIOUS
<1>1. messages = <<>> /\ messages \in Seq(Items)
  BY DEF Init
<1> QED
  BY <1>1 DEF Init, ConnectionInv, Typed, Shape, EndIsAnnounced, Own, Heard

LEMMA ReaderKeeps ==
    ASSUME ConnectionInv, Reader
    PROVE  ConnectionInv'
<1>1. CASE ReadMessage
  <2>1. status # "disconnected"
    BY <1>1 DEF ReadMessage, ConnectionInv, Shape
  <2>2. messages' \in Seq(Items) /\ EndIsAnnounced' /\ Own'
    <3>1. CASE Put("message")
      BY <1>1, <2>1, <3>1, PutKeeps DEF ReadMessage, Kinds
    <3>2. CASE UNCHANGED messages
      BY <1>1, <3>2 DEF ReadMessage, ConnectionInv, Typed, EndIsAnnounced, EndAnnounced,
                        Own, AllOwn
    <3> QED
      BY <1>1, <3>1, <3>2 DEF ReadMessage
  <2>3. Shape'
    BY <1>1 DEF ReadMessage, ConnectionInv, Shape, historyVars
  <2>4. Heard'
    BY <1>1 DEF ReadMessage, ConnectionInv, Heard, historyVars
  <2> QED
    BY <1>1, <2>2, <2>3, <2>4 DEF ReadMessage, ConnectionInv, Typed, historyVars
<1>2. CASE ReaderEnds
  <2>1. status # "disconnected"
    BY <1>2 DEF ReaderEnds, ConnectionInv, Shape
  <2>2. PICK e \in Errors \cup {"none", "spend"} : messages' = messages \o LastWords(e)
    BY <1>2 DEF ReaderEnds, Normalized
  <2>3. messages' \in Seq(Items) /\ EndIsAnnounced' /\ Own'
    BY <1>2, <2>1, <2>2, LastWordsKeep DEF ReaderEnds
  <2>4. Shape' /\ Heard'
    BY <1>2 DEF ReaderEnds, ConnectionInv, Shape, Heard, historyVars, ownerVars
  <2> QED
    BY <1>2, <2>3, <2>4 DEF ReaderEnds, ConnectionInv, Typed, historyVars, ownerVars
<1>3. CASE ReaderCancelled
  <2>1. status # "disconnected"
    BY <1>3 DEF ReaderCancelled, ConnectionInv, Shape
  <2>2. messages' \in Seq(Items) /\ EndIsAnnounced' /\ Own'
    BY <1>3, <2>1, LastWordsKeep DEF ReaderCancelled
  <2>3. Shape' /\ Heard'
    BY <1>3 DEF ReaderCancelled, ConnectionInv, Shape, Heard, historyVars, ownerVars
  <2> QED
    BY <1>3, <2>2, <2>3 DEF ReaderCancelled, ConnectionInv, Typed, historyVars, ownerVars
<1> QED
  BY <1>1, <1>2, <1>3 DEF Reader

\* close begins: the status stops being connected, the queue is not written.
LEMMA BeginCloseKeeps ==
    ASSUME ConnectionInv, NEW e \in Errors \cup {"none", "spend", "cancelled"},
           BeginClose(e), pc \in {"connecting", "receiving", "interrupting"},
           messages' \in Seq(Items), Own', connection' = connection,
           UNCHANGED <<cancelled, unheard>> \/ (e = "cancelled" /\ UNCHANGED unheard)
    PROVE  ConnectionInv'
<1>1. Shape' /\ EndIsAnnounced'
  BY DEF BeginClose, ConnectionInv, Shape, EndIsAnnounced
<1>2. Heard'
  BY DEF BeginClose, ConnectionInv, Heard
<1>3. Typed'
  BY DEF BeginClose, ConnectionInv, Typed
<1> QED
  BY <1>1, <1>2, <1>3 DEF ConnectionInv

LEMMA ReapKeeps ==
    ASSUME ConnectionInv, NEW e \in Errors \cup {"none", "spend", "cancelled"},
           Reap(e), pc = "disconnecting", connection' = connection,
           \/ UNCHANGED <<cancelled, unheard>> /\ (failure = "cancelled" => e = "cancelled")
           \/ e = "cancelled" /\ UNCHANGED unheard
    PROVE  ConnectionInv'
<1>1. Shape' /\ EndIsAnnounced' /\ Own'
  BY DEF Reap, ConnectionInv, Shape, EndIsAnnounced, Own, AllOwn
<1>2. Heard'
  BY DEF Reap, ConnectionInv, Heard
<1>3. Typed'
  BY DEF Reap, ConnectionInv, Typed
<1> QED
  BY <1>1, <1>2, <1>3 DEF ConnectionInv

LEMMA OwnerKeeps ==
    ASSUME ConnectionInv, Owner
    PROVE  ConnectionInv'
<1>1. CASE Connect
  <2>1. messages' \in Seq(Items) /\ messages' = <<>> /\ Len(messages') = 0
    BY <1>1 DEF Connect, FreshQueue
  <2>2. Own' /\ EndIsAnnounced'
    BY <1>1, <2>1 DEF Connect, Own, AllOwn, EndIsAnnounced
  <2>3. Shape' /\ Heard'
    BY <1>1 DEF Connect, ConnectionInv, Shape, Heard
  <2>4. Typed'
    BY <1>1, <2>1 DEF Connect, ConnectionInv, Typed
  <2> QED
    BY <2>2, <2>3, <2>4 DEF ConnectionInv
<1>2. CASE Connected
  <2>1. Shape' /\ EndIsAnnounced' /\ Own'
    BY <1>2 DEF Connected, ConnectionInv, Shape, EndIsAnnounced, Own, AllOwn, historyVars
  <2>2. Heard' /\ Typed'
    BY <1>2 DEF Connected, ConnectionInv, Heard, Typed, historyVars
  <2> QED
    BY <2>1, <2>2 DEF ConnectionInv
<1>3. CASE CallFails
  <2>1. PICK e \in Errors \cup {"spend"} : BeginClose(e)
    BY <1>3 DEF CallFails, Normalized
  <2>2. Own' /\ messages' \in Seq(Items)
    BY <1>3, <2>1 DEF CallFails, BeginClose, ConnectionInv, Own, AllOwn, Shape, Typed
  <2> QED
    BY <1>3, <2>1, <2>2, BeginCloseKeeps DEF CallFails, historyVars
<1>4. CASE EndPhase
  <2>1. status # "disconnected"
    BY <1>4 DEF EndPhase, ConnectionInv, Shape
  <2>2. messages' \in Seq(Items) /\ Own'
    BY <1>4, <2>1, TakeKeeps DEF EndPhase, BeginClose
  <2> QED
    BY <1>4, <2>2, BeginCloseKeeps DEF EndPhase, historyVars
<1>5. CASE Disconnected
  BY <1>5, ReapKeeps DEF Disconnected, historyVars, ConnectionInv, Typed
<1>6. CASE DisconnectFails
  <2>1. PICK e \in Errors : Reap(KeepFirst(Normalized(e)))
    BY <1>6 DEF DisconnectFails
  <2>2. /\ KeepFirst(Normalized(e)) \in Errors \cup {"none", "spend", "cancelled"}
        /\ failure = "cancelled" => KeepFirst(Normalized(e)) = "cancelled"
    BY DEF KeepFirst, Normalized, ConnectionInv, Typed
  <2> QED
    BY <1>6, <2>1, <2>2, ReapKeeps DEF DisconnectFails, historyVars
<1>7. CASE Closed
  <2>1. pc' \in {"idle", "waiting", "ended"}
    BY <1>7 DEF Closed, AfterClose
  <2>2. Shape' /\ EndIsAnnounced' /\ Own'
    BY <1>7, <2>1 DEF Closed, Release, Shape, EndIsAnnounced, Own
  <2>3. Heard'
    BY <1>7 DEF Closed, AfterClose, ConnectionInv, Heard, historyVars
  <2>4. Typed'
    BY <1>7 DEF Closed, AfterClose, ConnectionInv, Typed, historyVars
  <2> QED
    BY <2>2, <2>3, <2>4 DEF ConnectionInv
<1>8. CASE Retry
  BY <1>8 DEF Retry, ConnectionInv, Typed, Shape, EndIsAnnounced, EndAnnounced, Own, AllOwn,
              Heard, managerVars, historyVars
<1>9. CASE Receive
  <2>1. status # "disconnected"
    BY <1>9 DEF Receive, ConnectionInv, Shape
  <2>2. messages' \in Seq(Items) /\ EndIsAnnounced' /\ Own'
    BY <1>9, <2>1, TakeKeeps DEF Receive
  <2>3. Shape' /\ Heard'
    BY <1>9 DEF Receive, ConnectionInv, Shape, Heard, ownerVars, historyVars
  <2> QED
    BY <1>9, <2>2, <2>3 DEF Receive, ConnectionInv, Typed, ownerVars, historyVars
<1>10. CASE ReceiveFailure
  <2> DEFINE e == IF Head(messages).kind = "end" THEN "transport" ELSE Head(messages).kind
  <2>1. status # "disconnected"
    BY <1>10 DEF ReceiveFailure, ConnectionInv, Shape
  <2>2. messages' \in Seq(Items) /\ Own'
    BY <1>10, <2>1, TakeKeeps DEF ReceiveFailure, BeginClose
  <2>3. e \in Errors \cup {"spend"}
    <3>1. Head(messages) \in Items
      BY <1>10 DEF ReceiveFailure, ConnectionInv, Typed
    <3> QED
      BY <1>10, <3>1 DEF ReceiveFailure, Items, Kinds, Errors
  <2>4. BeginClose(e)
    BY <1>10 DEF ReceiveFailure
  <2> HIDE DEF e
  <2> QED
    BY <1>10, <2>2, <2>3, <2>4, BeginCloseKeeps DEF ReceiveFailure, historyVars
<1>11. CASE Interrupt
  BY <1>11 DEF Interrupt, ConnectionInv, Typed, Shape, EndIsAnnounced, EndAnnounced, Own,
               AllOwn, Heard, managerVars, historyVars
<1> QED
  BY <1>1, <1>2, <1>3, <1>4, <1>5, <1>6, <1>7, <1>8, <1>9, <1>10, <1>11 DEF Owner

LEMMA CancelKeeps ==
    ASSUME ConnectionInv, Cancel \/ CancelUnheard
    PROVE  ConnectionInv'
<1>1. CASE Cancel /\ pc \in {"connecting", "receiving", "interrupting"}
  <2>1. BeginClose("cancelled") /\ UNCHANGED messages
    BY <1>1 DEF Cancel, CancelledAt, Cancellation
  <2>2. messages' \in Seq(Items) /\ Own'
    BY <1>1, <2>1 DEF BeginClose, ConnectionInv, Typed, Own, AllOwn, Shape
  <2> QED
    BY <1>1, <2>1, <2>2, BeginCloseKeeps DEF Cancel
<1>2. CASE Cancel /\ pc = "disconnecting"
  BY <1>2, ReapKeeps DEF Cancel, CancelledAt, Cancellation
<1>3. CASE Cancel /\ pc = "waiting"
  BY <1>3 DEF Cancel, CancelledAt, Cancellation, ConnectionInv, Typed, Shape, EndIsAnnounced,
              Own, Heard, managerVars
<1>4. CASE CancelUnheard
  BY <1>4 DEF CancelUnheard, ConnectionInv, Typed, Shape, EndIsAnnounced, EndAnnounced, Own,
              AllOwn, Heard, managerVars, ownerVars
<1> QED
  BY <1>1, <1>2, <1>3, <1>4 DEF Cancel, CancelledAt

LEMMA SdkKeeps ==
    ASSUME ConnectionInv, Sdk
    PROVE  ConnectionInv'
<1>1. CASE UNCHANGED managerVars
  BY <1>1 DEF Sdk, ConnectionInv, Typed, Shape, EndIsAnnounced, EndAnnounced, Own, AllOwn,
              Heard, managerVars, ownerVars, historyVars
<1>2. CASE SpendLine
  <2>1. CASE status # "disconnected"
    <3>1. messages' \in Seq(Items) /\ EndIsAnnounced' /\ Own'
      BY <1>2, <2>1, PutKeeps DEF SpendLine, Kinds
    <3> QED
      BY <1>2, <3>1 DEF Sdk, SpendLine, ConnectionInv, Typed, Shape, Heard, ownerVars,
                        historyVars
  <2>2. CASE status = "disconnected"
    <3>1. messages' \in Seq(Items)
      BY <1>2, <2>2 DEF SpendLine, Put, ConnectionInv, Typed, Shape, None, Items, Kinds
    <3> QED
      BY <1>2, <2>2, <3>1 DEF Sdk, SpendLine, ConnectionInv, Typed, Shape, Heard,
             EndIsAnnounced, Own, ownerVars, historyVars
  <2> QED
    BY <2>1, <2>2
<1> QED
  BY <1>1, <1>2 DEF Sdk

LEMMA ConnectionInvariance == Spec => []ConnectionInv
<1>1. ConnectionInv /\ [Next]_vars => ConnectionInv'
  <2> SUFFICES ASSUME ConnectionInv, [Next]_vars PROVE ConnectionInv'
    OBVIOUS
  <2>1. CASE UNCHANGED vars
    BY <2>1 DEF ConnectionInv, Typed, Shape, EndIsAnnounced, EndAnnounced, Own, AllOwn, Heard,
                vars, managerVars, ownerVars, historyVars
  <2> QED
    BY <2>1, ReaderKeeps, OwnerKeeps, CancelKeeps, SdkKeeps DEF Next
<1> QED
  BY InitConnection, <1>1, PTL DEF Spec

-----------------------------------------------------------------------------
\* Between two connections, while a retry waits and after the end, no reader
\* task and no client of an earlier connection is left.
THEOREM ConnectionsAreReleased == Spec => []NothingLeftBehind
<1>1. ConnectionInv => NothingLeftBehind
  BY DEF ConnectionInv, Shape, NothingLeftBehind
<1> QED
  BY ConnectionInvariance, <1>1, PTL

\* A consumer takes only what its own connection put into the queue.
THEOREM QueueIsOwn == Spec => []OwnMessages
<1>1. ConnectionInv => OwnMessages
  BY DEF ConnectionInv, Typed, Own, AllOwn, OwnMessages
<1> QED
  BY ConnectionInvariance, <1>1, PTL

\* A consumer that finds the queue empty has a reader that still fills it.
THEOREM ConsumerIsServed == Spec => []ReceiveIsAnswered
<1>1. ConnectionInv => ReceiveIsAnswered
  <2> SUFFICES ASSUME ConnectionInv, pc = "receiving", messages = <<>>
               PROVE  reader = "reading"
    BY DEF ReceiveIsAnswered
  <2>1. Len(messages) = 0
    OBVIOUS
  <2> QED
    BY <2>1 DEF ConnectionInv, Shape, EndIsAnnounced, EndAnnounced
<1> QED
  BY ConnectionInvariance, <1>1, PTL

\* Once heard, a cancellation is what the run ends with.
THEOREM CancellationSurvives == Spec => []CancellationIsKept
<1>1. ConnectionInv => CancellationIsKept
  BY DEF ConnectionInv, Heard, CancellationIsKept
<1> QED
  BY ConnectionInvariance, <1>1, PTL

-----------------------------------------------------------------------------
(* The counters and flags that the invariant above does not need.          *)

Counted ==
    /\ TypeOK
    /\ pipe \in Seq({"message", "ack"})
    /\ pc # "ended" => phases < MaxPhases
    /\ pc = "waiting" => retries < MaxRetries

LEMMA Bounds ==
    /\ PipeSize \in Nat \ {0} /\ MaxMessages \in Nat \ {0} /\ MaxPhases \in Nat \ {0} /\ MaxRetries \in Nat
BY SizeAssumption

LEMMA ReaderCounts ==
    ASSUME Counted, Reader
    PROVE  Counted'
<1>1. CASE ReadMessage
  <2>1. pipe' \in Seq({"message", "ack"}) /\ Len(pipe') <= PipeSize
    BY <1>1, Bounds DEF Counted, TypeOK, ReadMessage
  <2> QED
    BY <1>1, <2>1 DEF Counted, TypeOK, ReadMessage, historyVars
<1>2. CASE ReaderEnds \/ ReaderCancelled
  BY <1>2 DEF Counted, TypeOK, ReaderEnds, ReaderCancelled, ownerVars, sdkVars, historyVars
<1> QED
  BY <1>1, <1>2 DEF Reader

LEMMA BeginCloseCounts ==
    ASSUME Counted, Typed', NEW e, BeginClose(e), pc # "ended", UNCHANGED <<pipe, written, asked, connection>>,
           {spend', asked', cancelled', unheard'} \subseteq BOOLEAN
    PROVE  Counted'
BY DEF Counted, TypeOK, BeginClose, Typed

LEMMA ReapCounts ==
    ASSUME Counted, Typed', NEW e, Reap(e), pc # "ended", sdk' = "off", UNCHANGED <<pipe, written, asked, connection>>,
           {spend', asked', cancelled', unheard'} \subseteq BOOLEAN
    PROVE  Counted'
BY DEF Counted, TypeOK, Reap, Typed

LEMMA OwnerCounts ==
    ASSUME Counted, Typed', Owner
    PROVE  Counted'
<1>0. {spend, asked, cancelled, unheard} \subseteq BOOLEAN
  BY DEF Counted, TypeOK
<1>1. CASE Connect
  <2>1. pipe' = <<>> /\ written' = 0 /\ asked' = FALSE /\ spend' = FALSE
    BY <1>1 DEF Connect
  <2>2. pipe' \in Seq({"message", "ack"}) /\ Len(pipe') <= PipeSize
    BY <2>1, Bounds
  <2>3. written' \in 0 .. MaxMessages
    BY <2>1, Bounds
  <2>4. client' = connection' /\ connection' \in Nat
    BY <1>1 DEF Connect, Typed
  <2>5. {spend', asked', cancelled', unheard'} \subseteq BOOLEAN
    BY <1>0, <1>1, <2>1 DEF Connect
  <2> QED
    BY <1>1, <2>2, <2>3, <2>4, <2>5 DEF Counted, TypeOK, Connect
<1>2. CASE Connected
  BY <1>2 DEF Counted, TypeOK, Connected, historyVars
<1>3. CASE CallFails
  BY <1>0, <1>3, BeginCloseCounts DEF CallFails, historyVars, BeginClose
<1>4. CASE EndPhase
  BY <1>0, <1>4, BeginCloseCounts DEF EndPhase, historyVars, BeginClose
<1>5. CASE Disconnected
  BY <1>0, <1>5, ReapCounts DEF Disconnected, historyVars, Reap
<1>6. CASE DisconnectFails
  BY <1>0, <1>6, ReapCounts DEF DisconnectFails, historyVars, Reap
<1>7. CASE Closed
  <2>1. pc # "ended" /\ phases < MaxPhases
    BY <1>7 DEF Closed, Counted
  <2>2. pc' \in {"idle", "waiting", "ended"} /\ phases' \in 0 .. MaxPhases /\ retries' \in 0 .. MaxRetries
    BY <1>7, <2>1, Bounds DEF Closed, AfterClose, Counted, TypeOK
  <2>3. (pc' # "ended" => phases' < MaxPhases) /\ (pc' = "waiting" => retries' < MaxRetries)
    BY <1>7, <2>1, Bounds DEF Closed, AfterClose, Counted, TypeOK
  <2> QED
    BY <1>7, <2>2, <2>3 DEF Closed, Release, Counted, TypeOK, Typed, None, sdkVars, historyVars
<1>8. CASE Retry
  <2>1. retries' \in 0 .. MaxRetries
    BY <1>8, Bounds DEF Retry, Counted, TypeOK
  <2> QED
    BY <1>8, <2>1 DEF Retry, Counted, TypeOK, managerVars, sdkVars, historyVars
<1>9. CASE Receive
  BY <1>9 DEF Receive, Counted, TypeOK, ownerVars, sdkVars, historyVars
<1>10. CASE ReceiveFailure
  <2>1. PICK e : BeginClose(e)
    BY <1>10 DEF ReceiveFailure
  <2> QED
    BY <1>0, <1>10, <2>1, BeginCloseCounts DEF ReceiveFailure, historyVars, BeginClose
<1>11. CASE Interrupt
  BY <1>11 DEF Interrupt, Counted, TypeOK, managerVars, historyVars
<1> QED
  BY <1>1, <1>2, <1>3, <1>4, <1>5, <1>6, <1>7, <1>8, <1>9, <1>10, <1>11 DEF Owner

LEMMA CancelCounts ==
    ASSUME Counted, Typed', Cancel \/ CancelUnheard
    PROVE  Counted'
<1>0. {spend, asked, cancelled, unheard} \subseteq BOOLEAN
  BY DEF Counted, TypeOK
<1>1. CASE Cancel /\ pc \in {"connecting", "receiving", "interrupting"}
  <2>1. BeginClose(Cancellation)
    BY <1>1 DEF Cancel, CancelledAt
  <2> QED
    BY <1>0, <1>1, <2>1, BeginCloseCounts DEF Cancel, CancelledAt, BeginClose
<1>2. CASE Cancel /\ pc = "disconnecting"
  BY <1>0, <1>2, ReapCounts DEF Cancel, CancelledAt, Reap
<1>3. CASE Cancel /\ pc = "waiting"
  BY <1>0, <1>3 DEF Cancel, CancelledAt, Cancellation, Counted, TypeOK, managerVars, sdkVars
<1>4. CASE CancelUnheard
  <2>1. unheard' \in BOOLEAN
    BY <1>0, <1>4 DEF CancelUnheard
  <2> QED
    BY <1>4, <2>1 DEF CancelUnheard, Counted, TypeOK, managerVars, ownerVars, sdkVars
<1> QED
  BY <1>1, <1>2, <1>3, <1>4 DEF Cancel, CancelledAt

LEMMA SdkCounts ==
    ASSUME Counted, Sdk
    PROVE  Counted'
<1>1. CASE Write \/ Acknowledge
  <2>1. pipe' \in Seq({"message", "ack"}) /\ Len(pipe') <= PipeSize
    <3>1. PICK m \in {"message", "ack"} : pipe' = Append(pipe, m)
      BY <1>1 DEF Write, Acknowledge
    <3>2. pipe \in Seq({"message", "ack"}) /\ Len(pipe) < PipeSize
      BY <1>1 DEF Counted, Write, Acknowledge
    <3> QED
      BY <3>1, <3>2, Bounds
  <2>2. written' \in 0 .. MaxMessages
    BY <1>1, Bounds DEF Counted, TypeOK, Write, Acknowledge
  <2> QED
    BY <1>1, <2>1, <2>2 DEF Sdk, SpendLine, Write, Acknowledge, Counted, TypeOK, managerVars, ownerVars,
                            historyVars, sdkVars
<1>2. CASE Break
  BY <1>2 DEF Sdk, SpendLine, Break, Counted, TypeOK, managerVars, ownerVars, historyVars, sdkVars
<1>3. CASE SpendLine
  BY <1>3 DEF Sdk, SpendLine, Counted, TypeOK, ownerVars, historyVars, sdkVars
<1> QED
  BY <1>1, <1>2, <1>3 DEF Sdk

LEMMA CountedInvariance == Spec => []Counted
<1>1. Init => Counted
  <2> SUFFICES ASSUME Init PROVE Counted
    OBVIOUS
  <2>1. pipe = <<>> /\ written = 0 /\ phases = 0 /\ retries = 0
    BY DEF Init
  <2>2. pipe \in Seq({"message", "ack"}) /\ Len(pipe) <= PipeSize
    BY <2>1, Bounds
  <2>3. written \in 0 .. MaxMessages /\ phases \in 0 .. MaxPhases /\ retries \in 0 .. MaxRetries
    BY <2>1, Bounds
  <2>4. {spend, asked, cancelled, unheard} \subseteq BOOLEAN
    BY DEF Init
  <2>5. phases < MaxPhases
    BY <2>1, Bounds
  <2> QED
    BY <2>2, <2>3, <2>4, <2>5 DEF Init, Counted, TypeOK, None
<1>2. ConnectionInv' /\ Counted /\ [Next]_vars => Counted'
  <2> SUFFICES ASSUME ConnectionInv', Counted, [Next]_vars PROVE Counted'
    OBVIOUS
  <2>1. Typed'
    BY DEF ConnectionInv
  <2>2. CASE UNCHANGED vars
    BY <2>2 DEF Counted, TypeOK, vars, managerVars, ownerVars, sdkVars, historyVars
  <2> QED
    BY <2>1, <2>2, ReaderCounts, OwnerCounts, CancelCounts, SdkCounts DEF Next
<1> QED
  BY <1>1, <1>2, ConnectionInvariance, PTL DEF Spec

\* No value is ever outside its range: not more output in the pipe than it
\* holds, not more retries of a phase than are allowed.
THEOREM TypeCorrect == Spec => []TypeOK
<1>1. Counted => TypeOK
  BY DEF Counted
<1> QED
  BY <1>1, CountedInvariance, PTL

-----------------------------------------------------------------------------
(* The refinement of SupervisedRun.                                        *)

\* Nothing has gone wrong while the owner talks, and no process that could
\* write into the queue is there while it does not.
Orderly ==
    /\ pc \in {"idle", "connecting", "receiving", "interrupting", "waiting"} => failure = "none"
    /\ pc \in {"idle", "reaping", "reaped", "waiting", "ended"} => sdk = "off"

LEMMA OrderlyStep ==
    ASSUME ConnectionInv, Orderly, [Next]_vars
    PROVE  Orderly'
<1> USE DEF Orderly
<1>1. CASE Reader
  BY <1>1 DEF Reader, ReadMessage, ReaderEnds, ReaderCancelled, ownerVars, sdkVars
<1>2. CASE Connect \/ Connected \/ Retry \/ Receive \/ Interrupt
  BY <1>2 DEF Connect, Connected, Retry, Receive, Interrupt, ownerVars, sdkVars
<1>3. CASE CallFails \/ EndPhase \/ ReceiveFailure
  BY <1>3 DEF CallFails, EndPhase, ReceiveFailure, BeginClose
<1>4. CASE Disconnected \/ DisconnectFails
  BY <1>4 DEF Disconnected, DisconnectFails, Reap
<1>5. CASE Closed
  BY <1>5 DEF Closed, AfterClose, sdkVars
<1>6. CASE Cancel \/ CancelUnheard
  BY <1>6 DEF Cancel, CancelledAt, BeginClose, Reap, CancelUnheard, ownerVars, sdkVars
<1>7. CASE Sdk
  BY <1>7 DEF Sdk, Write, Acknowledge, Break, SpendLine, ownerVars, sdkVars
<1>8. CASE UNCHANGED vars
  BY <1>8 DEF vars, ownerVars, sdkVars
<1> QED
  BY <1>1, <1>2, <1>3, <1>4, <1>5, <1>6, <1>7, <1>8 DEF Next, Owner

Stage ==
    IF pc = "idle" THEN "ready"
    ELSE IF pc \in {"connecting", "receiving", "interrupting"} THEN "talking"
    ELSE IF pc = "waiting" THEN "waiting"
    ELSE IF pc = "ended" THEN "over" ELSE "hanging_up"

\* The queue only gained items of this connection.
Arrived ==
    /\ Len(messages') >= Len(messages)
    /\ \A i \in 1 .. Len(messages') :
          IF i <= Len(messages) THEN messages'[i] = messages[i]
          ELSE messages'[i].kind \in Kinds /\ messages'[i].of = client

LEMMA AppendArrives ==
    ASSUME ConnectionInv, NEW more \in Seq(Items),
           \A i \in 1 .. Len(more) : more[i].of = client,
           messages' = messages \o more
    PROVE  Arrived
<1>1. /\ Len(messages) \in Nat /\ Len(more) \in Nat /\ Len(messages') = Len(messages) + Len(more)
      /\ \A i \in 1 .. Len(messages) : messages'[i] = messages[i]
      /\ \A i \in 1 .. Len(more) : messages'[Len(messages) + i] = more[i]
  BY DEF ConnectionInv, Typed
<1>2. \A i \in 1 .. Len(more) : more[i].kind \in Kinds
  <2>1. \A i \in 1 .. Len(more) : more[i] \in Items
    OBVIOUS
  <2> QED
    BY <2>1 DEF Items
<1>3. ASSUME NEW i \in 1 .. Len(messages')
      PROVE  IF i <= Len(messages) THEN messages'[i] = messages[i]
             ELSE messages'[i].kind \in Kinds /\ messages'[i].of = client
  <2>1. CASE i <= Len(messages)
    BY <1>1, <2>1
  <2>2. CASE i > Len(messages)
    <3>1. i - Len(messages) \in 1 .. Len(more) /\ Len(messages) + (i - Len(messages)) = i
      BY <1>1, <2>2
    <3>2. messages'[i] = more[i - Len(messages)]
      BY <1>1, <3>1
    <3> QED
      BY <1>1, <1>2, <2>2, <3>1, <3>2
  <2> QED
    BY <1>1, <2>1, <2>2
<1> QED
  BY <1>1, <1>3 DEF Arrived

\* What the reader, or a line on stderr, does to the queue.
LEMMA QueueGrows ==
    ASSUME ConnectionInv, Orderly, Reader \/ Sdk
    PROVE  \/ UNCHANGED messages
           \/ Arrived /\ Stage \in {"talking", "hanging_up"}
<1>1. ASSUME NEW kind \in Kinds, Put(kind), Stage \in {"talking", "hanging_up"}
      PROVE  Arrived
  <2> DEFINE item == [kind |-> kind, of |-> client]
  <2>1. item \in Items /\ item.of = client
    BY <1>1 DEF Items, ConnectionInv, Typed, Shape, None
  <2>2. messages' = Append(messages, item)
    BY <1>1 DEF Put
  <2> HIDE DEF item
  <2>3. <<item>> \in Seq(Items) /\ messages' = messages \o <<item>>
        /\ \A i \in 1 .. Len(<<item>>) : <<item>>[i].of = client
    BY <2>1, <2>2 DEF ConnectionInv, Typed
  <2> QED
    BY <2>3, AppendArrives
<1>2. ASSUME NEW e \in Errors \cup {"none", "spend"}, messages' = messages \o LastWords(e),
             Stage \in {"talking", "hanging_up"}
      PROVE  Arrived
  <2>1. client \in Nat
    BY DEF ConnectionInv, Typed, Shape, None
  <2> DEFINE end == [kind |-> "end", of |-> client]
             error == [kind |-> e, of |-> client]
  <2>2. end \in Items /\ end.of = client /\ error.of = client /\ (e # "none" => error \in Items)
    BY <2>1 DEF Items, Kinds
  <2>3. LastWords(e) = IF e = "none" THEN <<end>> ELSE <<error>> \o <<end>>
    <3>1. CASE e = "none"
      BY <3>1 DEF LastWords
    <3>2. CASE e # "none"
      BY <3>2 DEF LastWords
    <3> QED
      BY <3>1, <3>2
  <2> HIDE DEF end, error
  <2>4. LastWords(e) \in Seq(Items) /\ \A i \in 1 .. Len(LastWords(e)) : LastWords(e)[i].of = client
    <3>1. CASE e = "none"
      BY <2>2, <2>3, <3>1
    <3>2. CASE e # "none"
      BY <2>2, <2>3, <3>2
    <3> QED
      BY <3>1, <3>2
  <2> QED
    BY <1>2, <2>4, AppendArrives
<1>3. CASE Reader
  <2>1. reader # "none"
    BY <1>3 DEF Reader, ReadMessage, ReaderEnds, ReaderCancelled
  <2>2. Stage \in {"talking", "hanging_up"}
    BY <2>1 DEF ConnectionInv, Shape, Stage
  <2>3. \/ UNCHANGED messages \/ Put("message")
        \/ \E e \in Errors \cup {"none", "spend"} : messages' = messages \o LastWords(e)
    BY <1>3 DEF Reader, ReadMessage, ReaderEnds, ReaderCancelled, Normalized
  <2> QED
    BY <1>1, <1>2, <2>2, <2>3 DEF Kinds
<1>4. CASE Sdk
  <2>1. CASE SpendLine
    <3>1. Stage \in {"talking", "hanging_up"}
      BY <2>1 DEF SpendLine, Orderly, Stage, ConnectionInv, Shape
    <3> QED
      BY <1>1, <2>1, <3>1 DEF SpendLine, Kinds
  <2> QED
    BY <1>4, <2>1 DEF Sdk, managerVars
<1> QED
  BY <1>3, <1>4

\* The steps of Run!RunNext, as the owner makes them.
RunMoves ==
    \/ Run!Open \/ Run!Arrive \/ Run!Take \/ Run!BreakOff
    \/ Run!GoWrong \/ Run!HangUp \/ Run!TryAgain \/ Run!GiveUp

RunStays == UNCHANGED <<Stage, failure, phases, retries, connection, client, messages>>

LEMMA FillingMoves ==
    ASSUME ConnectionInv, Orderly, Reader \/ Sdk
    PROVE  RunMoves \/ RunStays
<1>1. UNCHANGED <<Stage, failure, phases, retries, connection, client>>
  <2>1. CASE Reader
    BY <2>1 DEF Reader, ReadMessage, ReaderEnds, ReaderCancelled, Stage, ownerVars, historyVars
  <2>2. CASE Sdk
    BY <2>2 DEF Sdk, SpendLine, Stage, managerVars, ownerVars, historyVars
  <2> QED
    BY <2>1, <2>2
<1>2. CASE Arrived /\ Stage \in {"talking", "hanging_up"}
  BY <1>1, <1>2 DEF Arrived, RunMoves, Run!Arrive, Run!Arrivals, Stage, Kinds, Errors
<1> QED
  BY <1>1, <1>2, QueueGrows DEF RunStays

LEMMA BeginCloseMoves ==
    ASSUME ConnectionInv, Orderly, NEW e \in Errors \cup {"spend", "cancelled"}, BeginClose(e),
           pc \in {"connecting", "receiving", "interrupting"}, UNCHANGED <<messages, connection>>
    PROVE  RunMoves
BY DEF BeginClose, RunMoves, Run!BreakOff, Run!Failures, Errors

LEMMA TakeMoves ==
    ASSUME ConnectionInv, Orderly, Receive \/ EndPhase \/ ReceiveFailure
    PROVE  RunMoves
<1>1. /\ pc = "receiving" /\ messages # <<>> /\ messages' = Tail(messages)
      /\ UNCHANGED <<phases, retries, connection, client>>
  BY DEF Receive, EndPhase, ReceiveFailure, BeginClose, ownerVars, historyVars
<1>2. Head(messages) \in Items
  BY <1>1 DEF ConnectionInv, Typed
<1>3. failure = "none"
  BY <1>1 DEF Orderly
<1>4. /\ failure' = Run!Verdict(Head(messages).kind)
      /\ pc' \in {"receiving", "disconnecting"}
      /\ failure' # "none" => pc' = "disconnecting"
  BY <1>2, <1>3 DEF Receive, EndPhase, ReceiveFailure, BeginClose, ownerVars, Run!Verdict
<1> QED
  BY <1>1, <1>4 DEF RunMoves, Run!Take

LEMMA ReapMoves ==
    ASSUME ConnectionInv, pc = "disconnecting", NEW e \in Errors \cup {"none", "spend", "cancelled"},
           Reap(e), connection' = connection,
           e = failure \/ (e # "none" /\ (failure = "none" \/ e = "cancelled"))
    PROVE  RunMoves \/ RunStays
<1>1. Stage = "hanging_up" /\ Stage' = "hanging_up"
  BY DEF Reap, Stage
<1>2. CASE e = failure
  BY <1>1, <1>2 DEF RunStays, Reap
<1>3. CASE e # "none" /\ (failure = "none" \/ e = "cancelled")
  BY <1>3 DEF RunMoves, Run!GoWrong, Run!Failures, Reap, Errors
<1> QED
  BY <1>2, <1>3

LEMMA ClosedMoves ==
    ASSUME ConnectionInv, Counted, Closed
    PROVE  RunMoves
<1>1. /\ pc \in {"reaped", "reaping"} /\ client' = 0
      /\ UNCHANGED <<messages, connection>>
      /\ phases \in Nat /\ retries \in Nat /\ phases < MaxPhases
      /\ MaxPhases \in Nat /\ MaxRetries \in Nat
  BY Bounds DEF Closed, Release, None, historyVars, Counted, TypeOK
<1>2. CASE failure = "none"
  <2>1. /\ pc' = IF phases + 1 < MaxPhases THEN "idle" ELSE "ended"
        /\ phases' = phases + 1 /\ retries' = 0 /\ failure' = failure
    BY <1>2 DEF Closed, AfterClose
  <2>2. Run!HangUp
    BY <1>1, <1>2, <2>1 DEF Run!HangUp
  <2> QED
    BY <2>2 DEF RunMoves
<1>3. CASE failure = "transport" /\ retries < MaxRetries
  <2>1. pc' = "waiting" /\ phases' = phases /\ retries' = retries /\ failure' = "none"
    BY <1>3 DEF Closed, AfterClose
  <2>2. Run!HangUp
    BY <1>1, <1>3, <2>1 DEF Run!HangUp
  <2> QED
    BY <2>2 DEF RunMoves
<1>4. CASE failure # "none" /\ ~(failure = "transport" /\ retries < MaxRetries)
  <2>1. pc' = "ended" /\ phases' = phases /\ retries' = retries /\ failure' = failure
    BY <1>4 DEF Closed, AfterClose
  <2>2. Run!HangUp
    BY <1>1, <1>4, <2>1 DEF Run!HangUp
  <2> QED
    BY <2>2 DEF RunMoves
<1> QED
  BY <1>2, <1>3, <1>4

LEMMA OwnerMoves ==
    ASSUME ConnectionInv, Counted, Orderly, Owner
    PROVE  RunMoves \/ RunStays
<1>1. CASE Connect
  BY <1>1 DEF Connect, FreshQueue, RunMoves, Run!Open
<1>2. CASE Connected \/ Interrupt
  BY <1>2 DEF Connected, Interrupt, RunStays, Stage, managerVars, historyVars
<1>3. CASE CallFails
  BY <1>3, BeginCloseMoves DEF CallFails, Normalized, historyVars
<1>4. CASE Disconnected
  BY <1>4, ReapMoves DEF Disconnected, ConnectionInv, Typed, historyVars
<1>5. CASE DisconnectFails
  <2>1. PICK e \in Errors : Reap(KeepFirst(Normalized(e)))
    BY <1>5 DEF DisconnectFails
  <2>2. /\ KeepFirst(Normalized(e)) \in Errors \cup {"none", "spend", "cancelled"}
        /\ \/ KeepFirst(Normalized(e)) = failure
           \/ KeepFirst(Normalized(e)) # "none" /\ failure = "none"
    BY DEF KeepFirst, Normalized, ConnectionInv, Typed, Errors
  <2> QED
    BY <1>5, <2>1, <2>2, ReapMoves DEF DisconnectFails, historyVars
<1>6. CASE Closed
  BY <1>6, ClosedMoves
<1>7. CASE Retry
  BY <1>7 DEF Retry, RunMoves, Run!TryAgain, managerVars, historyVars
<1>8. CASE Receive \/ EndPhase \/ ReceiveFailure
  BY <1>8, TakeMoves
<1> QED
  BY <1>1, <1>2, <1>3, <1>4, <1>5, <1>6, <1>7, <1>8 DEF Owner

LEMMA CancelMoves ==
    ASSUME ConnectionInv, Orderly, Cancel \/ CancelUnheard
    PROVE  RunMoves \/ RunStays
<1>1. CASE Cancel /\ pc \in {"connecting", "receiving", "interrupting"}
  BY <1>1, BeginCloseMoves DEF Cancel, CancelledAt, Cancellation
<1>2. CASE Cancel /\ pc = "disconnecting"
  BY <1>2, ReapMoves DEF Cancel, CancelledAt, Cancellation
<1>3. CASE Cancel /\ pc = "waiting"
  BY <1>3 DEF Cancel, CancelledAt, Cancellation, RunMoves, Run!GiveUp, managerVars
<1>4. CASE CancelUnheard
  BY <1>4 DEF CancelUnheard, RunStays, Stage, managerVars, ownerVars
<1> QED
  BY <1>1, <1>2, <1>3, <1>4 DEF Cancel, CancelledAt

\* For any pipe, number of messages, phases and retries, ConnectionManager and
\* Recovery give a run that takes only what came over its present line, tries
\* again only after a lost transport and no more often than it may, and ends
\* with a cancellation whatever else goes wrong while it closes.
THEOREM RefinesSupervisedRun == Spec => ImplementsSupervisedRun
<1>1. Init => Orderly /\ Run!RunInit
  BY DEF Init, Orderly, None, Run!RunInit
<1>2. ConnectionInv /\ Counted /\ Orderly /\ [Next]_vars => [Run!RunNext]_(Run!runVars)
  <2> SUFFICES ASSUME ConnectionInv, Counted, Orderly, [Next]_vars
               PROVE  [Run!RunNext]_(Run!runVars)
    OBVIOUS
  <2>1. RunMoves \/ RunStays
    <3>1. CASE UNCHANGED vars
      BY <3>1 DEF RunStays, Stage, vars, managerVars, ownerVars, historyVars
    <3> QED
      BY <3>1, FillingMoves, OwnerMoves, CancelMoves DEF Next
  <2>2. RunMoves => Run!RunNext
    BY DEF RunMoves, Run!RunNext
  <2>3. RunStays => UNCHANGED Run!runVars
    BY DEF RunStays, Stage, Run!runVars
  <2> QED
    BY <2>1, <2>2, <2>3
<1> QED
  BY <1>1, <1>2, OrderlyStep, ConnectionInvariance, CountedInvariance, PTL
  DEF Spec, ImplementsSupervisedRun, Run!RunSpec
=============================================================================
