------------------------- MODULE CredentialsProofs -------------------------
(***************************************************************************)
(* Proofs about Credentials for any number of credentials and runs, any    *)
(* cooldown and any resets.                                                *)
(***************************************************************************)
EXTENDS Credentials, TLAPS

LEMMA CredentialFacts ==
    /\ N \in Nat \ {0}
    /\ Cooldown \in Nat \ {0}
    /\ Credentials \subseteq Nat
    /\ \A c \in Credentials : c \in 0 .. N /\ c # N
    /\ \A c \in Credentials : (c + 1) % N \in Credentials
BY PoolAssumption DEF Credentials

\* What a report does to the pool.
LEMMA MarkedPool ==
    ASSUME NEW p, IsPool(p), NEW c \in Credentials, NEW reset \in Resets
    PROVE  /\ IsPool(MarkRateLimited(p, c, reset))
           /\ MarkRateLimited(p, c, reset).disabled = p.disabled
           /\ MarkRateLimited(p, c, reset).next = p.next
           /\ \A d \in Credentials :
                 MarkRateLimited(p, c, reset).cooling[d] >= p.cooling[d]
<1>1. reset \in Int
  BY BoundAssumption DEF Resets, NoReset
<1>2. Until(reset) \in Nat
  BY <1>1, PoolAssumption DEF Until
<1>3. CASE c \in p.disabled \/ p.cooling[c] >= Until(reset)
  BY <1>3 DEF MarkRateLimited, IsPool
<1>4. CASE ~(c \in p.disabled \/ p.cooling[c] >= Until(reset))
  BY <1>2, <1>4 DEF MarkRateLimited, IsPool
<1>5. QED
  BY <1>3, <1>4

LEMMA DisabledPool ==
    ASSUME NEW p, IsPool(p), NEW c \in Credentials
    PROVE  /\ IsPool(Disable(p, c))
           /\ Disable(p, c).disabled = p.disabled \cup {c}
           /\ Disable(p, c).cooling = p.cooling
           /\ Disable(p, c).next = p.next
BY DEF Disable, IsPool

LEMMA ElapsedPool ==
    ASSUME NEW p, IsPool(p)
    PROVE  /\ IsPool(Elapsed(p))
           /\ Elapsed(p).disabled = p.disabled
           /\ \A c \in Credentials : Elapsed(p).cooling[c] = Less(p.cooling[c])
BY DEF Elapsed, IsPool, Less

LEMMA RotatedPool ==
    ASSUME NEW p, IsPool(p), NEW c \in Credentials
    PROVE  /\ IsPool([p EXCEPT !.next = (c + 1) % N])
           /\ [p EXCEPT !.next = (c + 1) % N].disabled = p.disabled
           /\ [p EXCEPT !.next = (c + 1) % N].cooling = p.cooling
BY CredentialFacts DEF IsPool

----------------------------------------------------------------------------
\* NobodyOversleeps in a pool p that is about to become the pool.
SoundSleep(p, s) ==
    \A r \in Runs : pc[r] = "waiting" /\ s[r] > 0 =>
        /\ p.disabled # Credentials
        /\ \A c \in Credentials \ p.disabled : s[r] <= p.cooling[c]

\* What acquire starts from: the pool after a report.
Acquirable(r, p, s) ==
    /\ pc[r] \in {"start", "waiting", "exited"}
    /\ IsPool(p)
    /\ p.disabled \subseteq spent
    /\ s \in [Runs -> Nat]
    /\ SoundSleep(p, s)

LEMMA WorkerStarts ==
    ASSUME CredentialInv, NEW r \in Runs, NEW c \in Credentials, NEW s,
           Acquirable(r, pool', s), sleep' = s, StartWorker(r, c),
           requests' = requests, spent' = spent
    PROVE  CredentialInv'
<1>1. TypeOK'
  BY CredentialFacts DEF CredentialInv, TypeOK, Acquirable, StartWorker
<1>2. LiveRequestsAreCurrent'
  BY DEF CredentialInv, TypeOK, LiveRequestsAreCurrent, Acquirable, StartWorker
<1>3. BlameIsDeserved'
  BY DEF CredentialInv, TypeOK, BlameIsDeserved, Acquirable, StartWorker
<1>4. OnlySpentDisabled'
  BY DEF OnlySpentDisabled, Acquirable
<1>5. NobodyOversleeps'
  BY DEF CredentialInv, TypeOK, NobodyOversleeps, SoundSleep, Acquirable, StartWorker
<1>6. NoFalseExhaustion'
  BY DEF CredentialInv, TypeOK, NoFalseExhaustion, StartWorker
<1>7. QED
  BY <1>1, <1>2, <1>3, <1>4, <1>5, <1>6 DEF CredentialInv

LEMMA AcquireStep ==
    ASSUME CredentialInv, NEW r \in Runs, NEW p, NEW s,
           Acquirable(r, p, s), Acquire(r, p, s), spent' = spent
    PROVE  CredentialInv'
<1>1. CASE Keep(r, p, s)
  <2>1. provider[r] \in Credentials
    BY <1>1 DEF Keep, Usable
  <2>2. QED
    BY <1>1, <2>1, WorkerStarts DEF Keep
<1>2. CASE Rotate(r, p, s)
  <2>1. PICK c \in Credentials : /\ pool' = [p EXCEPT !.next = (c + 1) % N]
                                 /\ StartWorker(r, c)
    BY <1>2 DEF Rotate
  <2>2. Acquirable(r, pool', s)
    BY <2>1, RotatedPool DEF Acquirable, SoundSleep
  <2>3. QED
    BY <1>2, <2>1, <2>2, WorkerStarts DEF Rotate
<1>3. CASE Wait(r, p, s)
  <2>1. PICK c \in Credentials \ p.disabled :
          /\ \A d \in Credentials \ p.disabled : p.cooling[c] <= p.cooling[d]
          /\ sleep' = [s EXCEPT ![r] = p.cooling[c]]
    BY <1>3 DEF Wait
  <2>2. p.cooling[c] \in Nat
    BY <2>1 DEF Acquirable, IsPool
  <2>3. TypeOK'
    BY <1>3, <2>1, <2>2 DEF CredentialInv, TypeOK, Acquirable, Wait
  <2>4. LiveRequestsAreCurrent' /\ BlameIsDeserved' /\ NoFalseExhaustion' /\ OnlySpentDisabled'
    BY <1>3
    DEF CredentialInv, TypeOK, LiveRequestsAreCurrent, BlameIsDeserved,
        NoFalseExhaustion, OnlySpentDisabled, Acquirable, Wait
  <2>5. NobodyOversleeps'
    BY <1>3, <2>1
    DEF CredentialInv, TypeOK, NobodyOversleeps, SoundSleep, Acquirable, Wait
  <2>6. QED
    BY <2>3, <2>4, <2>5 DEF CredentialInv
<1>4. CASE GiveUp(r, p, s)
  <2>1. TypeOK'
    BY <1>4 DEF CredentialInv, TypeOK, Acquirable, GiveUp
  <2>2. LiveRequestsAreCurrent' /\ BlameIsDeserved' /\ OnlySpentDisabled'
    BY <1>4
    DEF CredentialInv, TypeOK, LiveRequestsAreCurrent, BlameIsDeserved,
        OnlySpentDisabled, Acquirable, GiveUp
  <2>3. NobodyOversleeps'
    BY <1>4
    DEF CredentialInv, TypeOK, NobodyOversleeps, SoundSleep, Acquirable, GiveUp
  <2>4. NoFalseExhaustion'
    BY <1>4 DEF CredentialInv, TypeOK, NoFalseExhaustion, Acquirable, GiveUp
  <2>5. QED
    BY <2>1, <2>2, <2>3, <2>4 DEF CredentialInv
<1>5. QED
  BY <1>1, <1>2, <1>3, <1>4 DEF Acquire

----------------------------------------------------------------------------
\* The pools a report can leave, with the sleeps that go with them.
LEMMA MarkIsSound ==
    ASSUME CredentialInv, NEW c \in Credentials, NEW reset \in Resets
    PROVE  /\ IsPool(MarkRateLimited(pool, c, reset))
           /\ MarkRateLimited(pool, c, reset).disabled \subseteq spent
           /\ SoundSleep(MarkRateLimited(pool, c, reset), sleep)
<1>1. IsPool(pool) /\ sleep \in [Runs -> Nat]
  BY DEF CredentialInv, TypeOK
<1> DEFINE p == MarkRateLimited(pool, c, reset)
<1>2. /\ IsPool(p)
      /\ p.disabled = pool.disabled
      /\ \A d \in Credentials : p.cooling[d] >= pool.cooling[d]
  BY <1>1, MarkedPool
<1> HIDE DEF p
<1>3. \A d \in Credentials : p.cooling[d] \in Nat /\ pool.cooling[d] \in Nat
  BY <1>1, <1>2 DEF IsPool
<1>4. SoundSleep(p, sleep)
  BY <1>1, <1>2, <1>3 DEF CredentialInv, NobodyOversleeps, SoundSleep
<1>5. p.disabled \subseteq spent
  BY <1>2 DEF CredentialInv, OnlySpentDisabled
<1>6. QED
  BY <1>2, <1>4, <1>5 DEF p

LEMMA DisableIsSound ==
    ASSUME CredentialInv, NEW c \in Credentials, c \in spent
    PROVE  /\ IsPool(Disable(pool, c))
           /\ Disable(pool, c).disabled \subseteq spent
           /\ SleepAfterDisable(c) \in [Runs -> Nat]
           /\ SoundSleep(Disable(pool, c), SleepAfterDisable(c))
<1>1. IsPool(pool) /\ sleep \in [Runs -> Nat]
  BY DEF CredentialInv, TypeOK
<1>2. /\ IsPool(Disable(pool, c))
      /\ Disable(pool, c).disabled = pool.disabled \cup {c}
      /\ Disable(pool, c).cooling = pool.cooling
  BY <1>1, DisabledPool
<1>3. Disable(pool, c).disabled \subseteq spent
  BY <1>2 DEF CredentialInv, OnlySpentDisabled
<1>4. SleepAfterDisable(c) \in [Runs -> Nat]
  BY <1>1 DEF SleepAfterDisable
<1>5. CASE c \in pool.disabled
  BY <1>2, <1>3, <1>4, <1>5 DEF CredentialInv, NobodyOversleeps, SoundSleep, SleepAfterDisable
<1>6. CASE c \notin pool.disabled
  BY <1>2, <1>3, <1>4, <1>6 DEF SoundSleep, SleepAfterDisable
<1>7. QED
  BY <1>5, <1>6

LEMMA PoolIsSound ==
    ASSUME CredentialInv
    PROVE  /\ IsPool(pool)
           /\ pool.disabled \subseteq spent
           /\ sleep \in [Runs -> Nat]
           /\ SoundSleep(pool, sleep)
BY DEF CredentialInv, TypeOK, OnlySpentDisabled, NobodyOversleeps, SoundSleep

----------------------------------------------------------------------------
\* A request goes a stage further or ends; the pool may change with it.
LEMMA AdvanceStep ==
    ASSUME CredentialInv, NEW r \in Runs, NEW q \in requests[r],
           NEW stage \in Stages, Advance(r, q, stage),
           IsPool(pool'), pool'.disabled \subseteq spent,
           SoundSleep(pool', sleep), spent' = spent
    PROVE  CredentialInv'
<1>1. q \in Request
  BY DEF CredentialInv, TypeOK
<1>2. /\ [q EXCEPT !.stage = stage] \in Request
      /\ [q EXCEPT !.stage = stage].live = q.live
      /\ [q EXCEPT !.stage = stage].credential = q.credential
  BY <1>1 DEF Request
<1>3. TypeOK'
  BY <1>2 DEF CredentialInv, TypeOK, Advance
<1>4. LiveRequestsAreCurrent'
  BY <1>2 DEF CredentialInv, TypeOK, LiveRequestsAreCurrent, Advance
<1>5. (BlameIsDeserved /\ OnlySpentDisabled /\ NobodyOversleeps /\ NoFalseExhaustion)'
  BY DEF CredentialInv, BlameIsDeserved, OnlySpentDisabled, NobodyOversleeps,
         SoundSleep, NoFalseExhaustion, Advance
<1>6. QED
  BY <1>3, <1>4, <1>5 DEF CredentialInv

LEMMA AnswerStep ==
    ASSUME CredentialInv, NEW r \in Runs, NEW q \in requests[r],
           NEW failures \in SUBSET Failures, Answer(r, q, failures),
           "spend" \in failures => q.credential \in spent,
           IsPool(pool'), pool'.disabled \subseteq spent,
           sleep' \in [Runs -> Nat], SoundSleep(pool', sleep'), spent' = spent
    PROVE  CredentialInv'
<1>1. q \in Request
  BY DEF CredentialInv, TypeOK
<1>2. TypeOK'
  BY DEF CredentialInv, TypeOK, Answer
<1>3. LiveRequestsAreCurrent'
  BY DEF CredentialInv, TypeOK, LiveRequestsAreCurrent, Answer
<1>4. BlameIsDeserved'
  BY <1>1 DEF CredentialInv, TypeOK, BlameIsDeserved, LiveRequestsAreCurrent, Answer
<1>5. (OnlySpentDisabled /\ NobodyOversleeps /\ NoFalseExhaustion)'
  BY DEF CredentialInv, OnlySpentDisabled, NobodyOversleeps, SoundSleep,
         NoFalseExhaustion, Answer
<1>6. QED
  BY <1>2, <1>3, <1>4, <1>5 DEF CredentialInv

LEMMA ForwardingStep ==
    ASSUME CredentialInv, NEW r \in Runs, Forwarding(r)
    PROVE  CredentialInv'
<1>1. PICK q \in requests[r] :
        \/ Forward(r, q) \/ Drop(r, q)
        \/ UpstreamLimits(r, q) \/ UpstreamRejects(r, q) \/ UpstreamStreams(r, q)
        \/ ReportSpend(r, q) \/ ReportOther(r, q)
  BY DEF Forwarding
<1>2. q.credential \in Credentials
  BY DEF CredentialInv, TypeOK, Request
<1>3. {} \in SUBSET Failures /\ {"rate"} \in SUBSET Failures /\ {"spend"} \in SUBSET Failures
  BY DEF Failures
<1>4. /\ "sent" \in Stages /\ "limited" \in Stages /\ "rejected" \in Stages
  BY DEF Stages
<1>5. "spend" \notin {} /\ "spend" \notin {"rate"}
  OBVIOUS
<1>6. CASE Forward(r, q)
  <2>1. pool' = pool /\ spent' = spent /\ sleep' = sleep
    BY <1>6 DEF Forward, Advance
  <2>2. CASE q.credential \in pool.disabled /\ Answer(r, q, {"spend"})
    BY <2>1, <2>2, <1>3, PoolIsSound, AnswerStep
  <2>3. CASE Answer(r, q, {"rate"})
    BY <2>1, <2>3, <1>3, <1>5, PoolIsSound, AnswerStep
  <2>4. CASE Advance(r, q, "sent")
    BY <2>1, <2>4, <1>4, PoolIsSound, AdvanceStep
  <2>5. QED
    BY <1>6, <2>2, <2>3, <2>4 DEF Forward
<1>7. CASE Drop(r, q)
  BY <1>3, <1>5, <1>7, PoolIsSound, AnswerStep DEF Drop
<1>8. CASE UpstreamLimits(r, q)
  BY <1>2, <1>4, <1>8, MarkIsSound, AdvanceStep DEF UpstreamLimits
<1>9. CASE UpstreamRejects(r, q)
  BY <1>4, <1>9, PoolIsSound, AdvanceStep DEF UpstreamRejects
<1>10. CASE UpstreamStreams(r, q)
  <2>1. /\ IsPool(pool') /\ pool'.disabled \subseteq spent
        /\ SoundSleep(pool', sleep') /\ spent' = spent
        /\ sleep' \in [Runs -> Nat]
    BY <1>2, <1>10, PoolIsSound, MarkIsSound DEF UpstreamStreams
  <2>2. CASE Answer(r, q, {})
    BY <1>3, <1>5, <2>1, <2>2, AnswerStep
  <2>3. CASE Answer(r, q, {"rate"})
    BY <1>3, <1>5, <2>1, <2>3, AnswerStep
  <2>4. CASE q.credential \in spent /\ Answer(r, q, {"spend"})
    BY <1>3, <2>1, <2>4, AnswerStep
  <2>5. QED
    BY <1>10, <2>2, <2>3, <2>4 DEF UpstreamStreams
<1>11. CASE ReportSpend(r, q)
  BY <1>2, <1>3, <1>11, DisableIsSound, AnswerStep DEF ReportSpend
<1>12. CASE ReportOther(r, q)
  <2>1. CASE Answer(r, q, {})
    BY <1>3, <1>5, <1>12, <2>1, PoolIsSound, AnswerStep DEF ReportOther
  <2>2. CASE Answer(r, q, {"rate"})
    BY <1>3, <1>5, <1>12, <2>2, PoolIsSound, AnswerStep DEF ReportOther
  <2>3. QED
    BY <1>12, <2>1, <2>2 DEF ReportOther
<1>13. QED
  BY <1>1, <1>6, <1>7, <1>8, <1>9, <1>10, <1>11, <1>12

----------------------------------------------------------------------------
LEMMA InitHolds == Init => CredentialInv
<1> SUFFICES ASSUME Init PROVE CredentialInv
  OBVIOUS
<1>1. N \in Nat /\ 0 \in Credentials /\ N \in 0 .. N
  BY PoolAssumption DEF Credentials
<1>2. IsPool(pool)
  BY <1>1 DEF Init, IsPool
<1>3. TypeOK
  BY <1>1, <1>2 DEF Init, TypeOK
<1>4. QED
  BY <1>3
  DEF Init, CredentialInv, LiveRequestsAreCurrent, BlameIsDeserved,
      OnlySpentDisabled, NobodyOversleeps, NoFalseExhaustion

LEMMA TickStep == CredentialInv /\ Tick => CredentialInv'
<1> SUFFICES ASSUME CredentialInv, Tick PROVE CredentialInv'
  OBVIOUS
<1>1. IsPool(pool) /\ sleep \in [Runs -> Nat]
  BY PoolIsSound
<1>2. /\ IsPool(pool')
      /\ pool'.disabled = pool.disabled
      /\ \A c \in Credentials : pool'.cooling[c] = Less(pool.cooling[c])
  BY <1>1, ElapsedPool DEF Tick
<1>3. sleep' \in [Runs -> Nat] /\ \A r \in Runs : sleep'[r] = Less(sleep[r])
  BY <1>1 DEF Tick, Less
<1>4. TypeOK'
  BY <1>2, <1>3 DEF CredentialInv, TypeOK, Tick
<1>5. NobodyOversleeps'
  <2>1. \A c \in Credentials : pool.cooling[c] \in Nat
    BY <1>1 DEF IsPool
  <2>2. \A r \in Runs : sleep[r] \in Nat
    BY <1>1
  <2>3. QED
    BY <1>2, <1>3, <2>1, <2>2 DEF CredentialInv, NobodyOversleeps, Tick, Less
<1>6. (LiveRequestsAreCurrent /\ BlameIsDeserved /\ OnlySpentDisabled /\ NoFalseExhaustion)'
  BY <1>2 DEF CredentialInv, LiveRequestsAreCurrent, BlameIsDeserved,
              OnlySpentDisabled, NoFalseExhaustion, Tick
<1>7. QED
  BY <1>4, <1>5, <1>6 DEF CredentialInv

LEMMA InductiveStep == CredentialInv /\ [Next]_vars => CredentialInv'
<1> SUFFICES ASSUME CredentialInv, [Next]_vars PROVE CredentialInv'
  OBVIOUS
<1>1. ASSUME NEW r \in Runs, Enter(r) PROVE CredentialInv'
  BY <1>1, PoolIsSound, AcquireStep DEF Enter, Acquirable
<1>2. ASSUME NEW r \in Runs, Wake(r) PROVE CredentialInv'
  BY <1>2, PoolIsSound, AcquireStep DEF Wake, Acquirable
<1>3. ASSUME NEW r \in Runs, WorkerExits(r) PROVE CredentialInv'
  <2>1. PICK failure \in seen[r] : seen' = [seen EXCEPT ![r] = {failure}]
    BY <1>3 DEF WorkerExits
  <2> DEFINE orphans == {[q EXCEPT !.live = FALSE] : q \in requests[r]}
  <2>2. orphans \subseteq Request /\ \A q \in orphans : ~q.live
    <3>1. requests[r] \subseteq Request
      BY DEF CredentialInv, TypeOK
    <3>2. \A q \in Request : [q EXCEPT !.live = FALSE] \in Request
      BY DEF Request
    <3>3. \A q \in Request : [q EXCEPT !.live = FALSE].live = FALSE
      BY Zenon DEF Request
    <3>4. QED
      BY <3>1, <3>2, <3>3, Zenon
  <2>3. requests' = [requests EXCEPT ![r] = orphans]
    BY <1>3 DEF WorkerExits
  <2> HIDE DEF orphans
  <2>4. TypeOK'
    <3>1. {failure} \in SUBSET Failures
      BY <2>1 DEF CredentialInv, TypeOK
    <3>2. seen' \in [Runs -> SUBSET Failures]
      BY <2>1, <3>1 DEF CredentialInv, TypeOK
    <3>3. requests' \in [Runs -> SUBSET Request]
      BY <2>2, <2>3 DEF CredentialInv, TypeOK
    <3>4. QED
      BY <1>3, <3>2, <3>3 DEF CredentialInv, TypeOK, WorkerExits
  <2>8. LiveRequestsAreCurrent'
    BY <1>3, <2>2, <2>3 DEF CredentialInv, TypeOK, LiveRequestsAreCurrent, WorkerExits
  <2>5. BlameIsDeserved'
    BY <1>3, <2>1 DEF CredentialInv, TypeOK, BlameIsDeserved, WorkerExits
  <2>6. (OnlySpentDisabled /\ NobodyOversleeps /\ NoFalseExhaustion)'
    BY <1>3 DEF CredentialInv, TypeOK, OnlySpentDisabled, NobodyOversleeps,
                NoFalseExhaustion, WorkerExits
  <2>7. QED
    BY <2>4, <2>5, <2>6, <2>8 DEF CredentialInv
<1>4. ASSUME NEW r \in Runs, EndRun(r) PROVE CredentialInv'
  <2>1. TypeOK'
    BY <1>4 DEF CredentialInv, TypeOK, EndRun
  <2>2. LiveRequestsAreCurrent' /\ BlameIsDeserved'
    BY <1>4 DEF CredentialInv, TypeOK, LiveRequestsAreCurrent, BlameIsDeserved, EndRun
  <2>3. (OnlySpentDisabled /\ NobodyOversleeps /\ NoFalseExhaustion)'
    BY <1>4 DEF CredentialInv, TypeOK, OnlySpentDisabled, NobodyOversleeps,
                NoFalseExhaustion, EndRun
  <2>4. QED
    BY <2>1, <2>2, <2>3 DEF CredentialInv
<1>5. ASSUME NEW r \in Runs, RecoverSpend(r) PROVE CredentialInv'
  <2>1. provider[r] \in Credentials /\ provider[r] \in spent
    BY <1>5, PoolAssumption
    DEF CredentialInv, TypeOK, BlameIsDeserved, RecoverSpend, Credentials
  <2>2. Acquirable(r, Disable(pool, provider[r]), SleepAfterDisable(provider[r]))
    BY <1>5, <2>1, DisableIsSound DEF RecoverSpend, Acquirable
  <2>3. QED
    BY <1>5, <2>2, AcquireStep DEF RecoverSpend
<1>6. ASSUME NEW r \in Runs, RecoverRate(r) PROVE CredentialInv'
  <2>1. provider[r] \in Credentials
    BY <1>6, PoolAssumption DEF CredentialInv, TypeOK, RecoverRate, Credentials
  <2>2. PICK reset \in Resets :
          \/ Acquire(r, MarkRateLimited(pool, provider[r], reset), sleep)
          \/ Acquire(r, pool, sleep)
    BY <1>6 DEF RecoverRate
  <2>3. Acquirable(r, MarkRateLimited(pool, provider[r], reset), sleep)
    BY <1>6, <2>1, MarkIsSound, PoolIsSound DEF RecoverRate, Acquirable
  <2>4. Acquirable(r, pool, sleep)
    BY <1>6, PoolIsSound DEF RecoverRate, Acquirable
  <2>5. QED
    BY <1>6, <2>2, <2>3, <2>4, AcquireStep DEF RecoverRate
<1>7. ASSUME NEW r \in Runs, Receive(r) PROVE CredentialInv'
  <2>1. provider[r] \in Credentials
    BY <1>7, PoolAssumption DEF CredentialInv, TypeOK, Receive, Credentials
  <2> DEFINE q == [stage |-> "body", credential |-> provider[r], live |-> TRUE]
  <2>2. q \in Request /\ q.credential = provider[r]
    BY <2>1 DEF Request, Stages
  <2>3. requests' = [requests EXCEPT ![r] = requests[r] \cup {q}]
    BY <1>7 DEF Receive
  <2> HIDE DEF q
  <2>4. TypeOK'
    BY <1>7, <2>2, <2>3 DEF CredentialInv, TypeOK, Receive
  <2>5. LiveRequestsAreCurrent'
    BY <1>7, <2>2, <2>3 DEF CredentialInv, TypeOK, LiveRequestsAreCurrent, Receive
  <2>6. (BlameIsDeserved /\ OnlySpentDisabled /\ NobodyOversleeps /\ NoFalseExhaustion)'
    BY <1>7 DEF CredentialInv, BlameIsDeserved, OnlySpentDisabled, NobodyOversleeps,
                NoFalseExhaustion, Receive
  <2>7. QED
    BY <2>4, <2>5, <2>6 DEF CredentialInv
<1>8. ASSUME NEW r \in Runs, Forwarding(r) PROVE CredentialInv'
  BY <1>8, ForwardingStep
<1>9. ASSUME NEW c \in Credentials, Spend(c) PROVE CredentialInv'
  BY <1>9 DEF CredentialInv, TypeOK, LiveRequestsAreCurrent, BlameIsDeserved,
              OnlySpentDisabled, NobodyOversleeps, NoFalseExhaustion, Spend, runVars
<1>10. CASE Tick
  BY <1>10, TickStep
<1>11. CASE UNCHANGED vars
  BY <1>11 DEF CredentialInv, TypeOK, LiveRequestsAreCurrent, BlameIsDeserved,
              OnlySpentDisabled, NobodyOversleeps, NoFalseExhaustion, vars
<1>12. QED
  BY <1>1, <1>2, <1>3, <1>4, <1>5, <1>6, <1>7, <1>8, <1>9, <1>10, <1>11 DEF Next

\* The inductive invariant of the credentials holds throughout, for any number
\* of credentials and runs (credential_pool.py, proxy.py).
THEOREM CredentialInvariance == Spec => []CredentialInv
<1>1. Init => CredentialInv
  BY InitHolds
<1>2. CredentialInv /\ [Next]_vars => CredentialInv'
  BY InductiveStep
<1>3. QED
  BY <1>1, <1>2, PTL DEF Spec

\* No credential is disabled that its provider still pays for
\* (credential_pool.py disable; proxy.py recover_credential, _get_error_response).
THEOREM DisabledAreSpent == Spec => []OnlySpentDisabled
<1>1. CredentialInv => OnlySpentDisabled
  BY DEF CredentialInv
<1>2. QED
  BY <1>1, CredentialInvariance, PTL

\* No run sleeps past the return of a credential, or once none will return
\* (credential_pool.py acquire, _wait_for_change).
THEOREM SleepIsSound == Spec => []NobodyOversleeps
<1>1. CredentialInv => NobodyOversleeps
  BY DEF CredentialInv
<1>2. QED
  BY <1>1, CredentialInvariance, PTL

\* A batch that ends because every credential is out of money is right
\* (credential_pool.py acquire).
THEOREM ExhaustionIsReal == Spec => []NoFalseExhaustion
<1>1. CredentialInv => NoFalseExhaustion
  BY DEF CredentialInv
<1>2. QED
  BY <1>1, CredentialInvariance, PTL

----------------------------------------------------------------------------
\* A step other than Tick neither shortens a cooldown nor enables a credential.
Extended == /\ pool.disabled \subseteq pool'.disabled
            /\ \A c \in Credentials : pool'.cooling[c] >= pool.cooling[c]

LEMMA UnchangedExtends == ASSUME IsPool(pool), pool' = pool PROVE Extended
BY DEF Extended, IsPool

LEMMA AcquireKeepsPool ==
    ASSUME NEW r \in Runs, NEW p, NEW s, IsPool(p), Acquire(r, p, s)
    PROVE  pool'.cooling = p.cooling /\ pool'.disabled = p.disabled
<1>1. CASE Rotate(r, p, s)
  BY <1>1, RotatedPool DEF Rotate
<1>2. CASE Keep(r, p, s) \/ Wait(r, p, s) \/ GiveUp(r, p, s)
  BY <1>2 DEF Keep, Wait, GiveUp
<1>3. QED
  BY <1>1, <1>2 DEF Acquire

LEMMA MarkExtends ==
    ASSUME IsPool(pool), NEW c \in Credentials, NEW reset \in Resets, NEW p,
           p = MarkRateLimited(pool, c, reset),
           pool'.cooling = p.cooling, pool'.disabled = p.disabled
    PROVE  Extended
BY MarkedPool DEF Extended

LEMMA DisableExtends ==
    ASSUME IsPool(pool), NEW c \in Credentials, NEW p, p = Disable(pool, c),
           pool'.cooling = p.cooling, pool'.disabled = p.disabled
    PROVE  Extended
BY DisabledPool DEF Extended, IsPool

LEMMA ForwardingExtends ==
    ASSUME CredentialInv, NEW r \in Runs, Forwarding(r)
    PROVE  Extended
<1>1. PICK q \in requests[r] :
        \/ Forward(r, q) \/ Drop(r, q)
        \/ UpstreamLimits(r, q) \/ UpstreamRejects(r, q) \/ UpstreamStreams(r, q)
        \/ ReportSpend(r, q) \/ ReportOther(r, q)
  BY DEF Forwarding
<1>2. q.credential \in Credentials /\ IsPool(pool)
  BY DEF CredentialInv, TypeOK, Request
<1>3. CASE ReportSpend(r, q)
  BY <1>2, <1>3, DisableExtends DEF ReportSpend
<1>4. CASE \E reset \in Resets : pool' = MarkRateLimited(pool, q.credential, reset)
  BY <1>2, <1>4, MarkExtends
<1>5. CASE pool' = pool
  BY <1>2, <1>5, UnchangedExtends
<1>6. QED
  BY <1>1, <1>3, <1>4, <1>5
  DEF Forward, Drop, UpstreamLimits, UpstreamRejects, UpstreamStreams, ReportOther

LEMMA StepExtends ==
    ASSUME CredentialInv, [Next]_vars
    PROVE  Extended \/ Tick
<1>1. IsPool(pool)
  BY DEF CredentialInv, TypeOK
<1>2. ASSUME NEW r \in Runs, Enter(r) \/ Wake(r) PROVE Extended
  <2>1. pool'.cooling = pool.cooling /\ pool'.disabled = pool.disabled
    BY <1>1, <1>2, AcquireKeepsPool DEF Enter, Wake
  <2>2. QED
    BY <1>1, <2>1 DEF Extended, IsPool
<1>3. ASSUME NEW r \in Runs, RecoverSpend(r) PROVE Extended
  <2>1. provider[r] \in Credentials
    BY <1>3, PoolAssumption DEF CredentialInv, TypeOK, RecoverSpend, Credentials
  <2>2. IsPool(Disable(pool, provider[r]))
    BY <1>1, <2>1, DisabledPool
  <2>3. QED
    BY <1>1, <1>3, <2>1, <2>2, AcquireKeepsPool, DisableExtends DEF RecoverSpend
<1>4. ASSUME NEW r \in Runs, RecoverRate(r) PROVE Extended
  <2>1. provider[r] \in Credentials
    BY <1>4, PoolAssumption DEF CredentialInv, TypeOK, RecoverRate, Credentials
  <2>2. PICK reset \in Resets :
          \/ Acquire(r, MarkRateLimited(pool, provider[r], reset), sleep)
          \/ Acquire(r, pool, sleep)
    BY <1>4 DEF RecoverRate
  <2>3. CASE Acquire(r, MarkRateLimited(pool, provider[r], reset), sleep)
    <3>1. IsPool(MarkRateLimited(pool, provider[r], reset))
      BY <1>1, <2>1, MarkedPool
    <3>2. QED
      BY <1>1, <2>1, <2>3, <3>1, AcquireKeepsPool, MarkExtends
  <2>4. CASE Acquire(r, pool, sleep)
    <3>1. pool'.cooling = pool.cooling /\ pool'.disabled = pool.disabled
      BY <1>1, <2>4, AcquireKeepsPool
    <3>2. QED
      BY <1>1, <3>1 DEF Extended, IsPool
  <2>5. QED
    BY <2>2, <2>3, <2>4
<1>5. ASSUME NEW r \in Runs, WorkerExits(r) \/ EndRun(r) \/ Receive(r) PROVE Extended
  BY <1>1, <1>5, UnchangedExtends DEF WorkerExits, EndRun, Receive
<1>6. ASSUME NEW r \in Runs, Forwarding(r) PROVE Extended
  BY <1>6, ForwardingExtends
<1>7. ASSUME NEW c \in Credentials, Spend(c) PROVE Extended
  BY <1>1, <1>7, UnchangedExtends DEF Spend
<1>8. CASE UNCHANGED vars
  BY <1>1, <1>8, UnchangedExtends DEF vars
<1>9. QED
  BY <1>2, <1>3, <1>4, <1>5, <1>6, <1>7, <1>8 DEF Next

\* Reports in any order never shorten a cooldown nor bring a disabled credential
\* back; only time does the first (credential_pool.py mark_rate_limited, disable).
THEOREM CooldownsExtend == Spec => CooldownsOnlyExtend
<1> DEFINE Step ==
      /\ pool.disabled \subseteq pool'.disabled
      /\ \/ pool'.cooling = Elapsed(pool).cooling /\ UNCHANGED <<pc, requests>>
         \/ \A c \in Credentials : pool'.cooling[c] >= pool.cooling[c]
<1>1. CredentialInv /\ [Next]_vars => [Step]_pool
  <2> SUFFICES ASSUME CredentialInv, [Next]_vars PROVE Step
    OBVIOUS
  <2>1. CASE Extended
    BY <2>1 DEF Extended
  <2>2. CASE Tick
    <3>1. pool'.disabled = pool.disabled
      BY <2>2, ElapsedPool DEF CredentialInv, TypeOK, Tick
    <3>2. QED
      BY <2>2, <3>1 DEF Tick
  <2>3. QED
    BY <2>1, <2>2, StepExtends
<1>2. QED
  BY <1>1, CredentialInvariance, PTL DEF Spec, CooldownsOnlyExtend

=============================================================================
