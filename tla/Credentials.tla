---------------------------- MODULE Credentials ----------------------------
(***************************************************************************)
(* The credentials a batch of runs shares.                                 *)
(*                                                                         *)
(* `pool` is the CredentialPool: what each credential still has to cool,   *)
(* which are disabled, and where rotation stands.  Each run has a Proxy    *)
(* (its current credential, the requests it is forwarding) and a Sandbox   *)
(* loop that starts a worker, waits for it to exit, reports why and        *)
(* acquires a credential for the next worker.                              *)
(*                                                                         *)
(* The pool has no lock: its methods do not await, so a step here is the   *)
(* code between two awaits.  Time is relative: `cooling` and `sleep` are   *)
(* the ticks that are left, and Tick takes one from all of them.           *)
(***************************************************************************)
EXTENDS Integers, FiniteSets

CONSTANTS N,            \* credentials of the batch, after deduplication
          Runs,         \* runs that share the pool
          UseResets,    \* Anthropic reset headers are honoured
          Cooldown,     \* CREDENTIAL_COOLDOWN_SECONDS, in ticks
          MaxReset,     \* the longest reset a provider announces (bound)
          MaxRequests   \* requests a proxy forwards at once (bound)

ASSUME PoolAssumption == N \in Nat \ {0} /\ Cooldown \in Nat \ {0}
ASSUME BoundAssumption == MaxReset \in Nat /\ MaxRequests \in Nat

VARIABLES pool,      \* the CredentialPool of the batch
          spent,     \* credentials that are out of money, at the provider
          pc,        \* what a run is doing
          provider,  \* Proxy._provider; N stands for None
          seen,      \* the failures the worker has been told of
          requests,  \* the requests the proxy of a run is forwarding
          sleep      \* what is left of a waiting run's sleep

vars == <<pool, spent, pc, provider, seen, requests, sleep>>
runVars == <<pc, provider, seen, requests, sleep>>

Credentials == 0 .. N - 1
NoReset == -1
Resets == IF UseResets THEN NoReset .. MaxReset ELSE {NoReset}
Failures == {"rate", "spend"}
Stages == {"body", "sent", "limited", "rejected"}
Request == [stage : Stages, credential : Credentials, live : BOOLEAN]

----------------------------------------------------------------------------
(* CredentialPool                                                          *)

Usable(p) == {c \in Credentials \ p.disabled : p.cooling[c] = 0}

\* A reset that is past or not finite (0) counts as none.
Until(reset) == IF reset > 0 THEN reset ELSE Cooldown

MarkRateLimited(p, c, reset) ==
    IF c \in p.disabled \/ p.cooling[c] >= Until(reset) THEN p
    ELSE [p EXCEPT !.cooling[c] = Until(reset)]

Disable(p, c) == [p EXCEPT !.disabled = p.disabled \cup {c}]

\* Fault: the event is not set.
SleepOn(c) == sleep

\* Disabling a credential sets the event that every waiting run waits for.
SleepAfterDisable(c) ==
    IF c \in pool.disabled THEN sleep ELSE [r \in Runs |-> 0]

\* How far c is from the position rotation starts at.
Turns(p, c) == (c + N - p.next) % N

\* Fault: rotation stops one short of a full turn.
IsNextButLast(p, c) == /\ c \in Usable(p)
                       /\ Turns(p, c) < N - 1
                       /\ \A d \in Usable(p) : Turns(p, c) <= Turns(p, d)

IsNext(p, c) == /\ c \in Usable(p)
                /\ \A d \in Usable(p) : Turns(p, c) <= Turns(p, d)

StartWorker(r, c) ==
    /\ pc' = [pc EXCEPT ![r] = "worker"]
    /\ provider' = [provider EXCEPT ![r] = c]
    /\ seen' = [seen EXCEPT ![r] = {}]

\* acquire for run r, up to its first await, in pool p with sleeps s.
Keep(r, p, s) ==
    /\ provider[r] \in Usable(p)
    /\ pool' = p
    /\ sleep' = s
    /\ StartWorker(r, provider[r])
    /\ UNCHANGED requests

Rotate(r, p, s) ==
    /\ provider[r] \notin Usable(p)
    /\ \E c \in Credentials :
          /\ IsNext(p, c)
          /\ pool' = [p EXCEPT !.next = (c + 1) % N]
          /\ StartWorker(r, c)
    /\ sleep' = s
    /\ UNCHANGED requests

Wait(r, p, s) ==
    /\ Usable(p) = {}
    /\ \E c \in Credentials \ p.disabled :
          /\ \A d \in Credentials \ p.disabled : p.cooling[c] <= p.cooling[d]
          /\ sleep' = [s EXCEPT ![r] = p.cooling[c]]
    /\ pool' = p
    /\ pc' = [pc EXCEPT ![r] = "waiting"]
    /\ UNCHANGED <<provider, seen, requests>>

\* Fault: a run gives up when its own credential is out.
GiveUpEarly(r, p, s) ==
    /\ provider[r] \in p.disabled /\ Usable(p) = {}
    /\ pool' = p
    /\ sleep' = s
    /\ pc' = [pc EXCEPT ![r] = "out"]
    /\ requests' = [requests EXCEPT ![r] = {}]
    /\ UNCHANGED <<provider, seen>>

\* "All provider credentials reached their spend limits": the proxy closes.
GiveUp(r, p, s) ==
    /\ p.disabled = Credentials
    /\ pool' = p
    /\ sleep' = s
    /\ pc' = [pc EXCEPT ![r] = "out"]
    /\ requests' = [requests EXCEPT ![r] = {}]
    /\ UNCHANGED <<provider, seen>>

Acquire(r, p, s) ==
    Keep(r, p, s) \/ Rotate(r, p, s) \/ Wait(r, p, s) \/ GiveUp(r, p, s)

----------------------------------------------------------------------------
(* Sandbox and Proxy                                                       *)

Init ==
    /\ pool = [cooling |-> [c \in Credentials |-> 0], disabled |-> {}, next |-> 0]
    /\ spent = {}
    /\ pc = [r \in Runs |-> "start"]
    /\ provider = [r \in Runs |-> N]
    /\ seen = [r \in Runs |-> {}]
    /\ requests = [r \in Runs |-> {}]
    /\ sleep = [r \in Runs |-> 0]

Enter(r) == pc[r] = "start" /\ Acquire(r, pool, sleep) /\ UNCHANGED spent

\* The sleep ended or the event was set: acquire looks at the pool again.
Wake(r) ==
    /\ pc[r] = "waiting"
    /\ sleep[r] = 0
    /\ Acquire(r, pool, sleep)
    /\ UNCHANGED spent

\* The container ends with the code for a failure its worker was told of, and
\* is removed.  A request it had open lives on until its handler is cancelled.
WorkerExits(r) ==
    /\ pc[r] = "worker"
    /\ \E failure \in seen[r] : seen' = [seen EXCEPT ![r] = {failure}]
    /\ pc' = [pc EXCEPT ![r] = "exited"]
    /\ requests' = [requests EXCEPT ![r] = {[q EXCEPT !.live = FALSE] : q \in requests[r]}]
    /\ UNCHANGED <<pool, spent, provider, sleep>>

\* recover_credential: report for the current credential, then acquire.
RecoverSpend(r) ==
    /\ pc[r] = "exited" /\ seen[r] = {"spend"}
    /\ Acquire(r, Disable(pool, provider[r]), SleepAfterDisable(provider[r]))
    /\ UNCHANGED spent

RecoverRate(r) ==
    /\ pc[r] = "exited" /\ seen[r] = {"rate"}
    /\ \E reset \in Resets :
          IF provider[r] \in Usable(pool) \/ reset # NoReset
          THEN Acquire(r, MarkRateLimited(pool, provider[r], reset), sleep)
          ELSE Acquire(r, pool, sleep)
    /\ UNCHANGED spent

\* The worker finished, failed for another reason, or the run was cancelled.
EndRun(r) ==
    /\ pc[r] \in {"worker", "exited", "waiting"}
    /\ pc' = [pc EXCEPT ![r] = "ended"]
    /\ requests' = [requests EXCEPT ![r] = {}]
    /\ sleep' = [sleep EXCEPT ![r] = 0]
    /\ UNCHANGED <<pool, spent, provider, seen>>

\* _forward_request up to reading the body: the credential is read before it.
Receive(r) ==
    /\ pc[r] = "worker"
    /\ Cardinality(requests[r]) < MaxRequests
    /\ requests' = [requests EXCEPT ![r] = @ \cup
           {[stage |-> "body", credential |-> provider[r], live |-> TRUE]}]
    /\ UNCHANGED <<pool, spent, pc, provider, seen, sleep>>

\* Answer q: a worker that still runs may learn of a failure.
Answer(r, q, failures) ==
    /\ requests' = [requests EXCEPT ![r] = @ \ {q}]
    /\ seen' = IF q.live THEN [seen EXCEPT ![r] = @ \cup failures] ELSE seen
    /\ UNCHANGED <<pc, provider>>

Advance(r, q, stage) ==
    /\ requests' = [requests EXCEPT ![r] = (@ \ {q}) \cup {[q EXCEPT !.stage = stage]}]
    /\ UNCHANGED <<pc, provider, seen, sleep>>

\* _forward_request after the body: the checks and, if they pass, the request.
Forward(r, q) ==
    /\ q.stage = "body"
    /\ \/ /\ q.credential \in pool.disabled
          /\ Answer(r, q, {"spend"})
          /\ UNCHANGED sleep
       \/ /\ q.credential \notin pool.disabled \cup Usable(pool)
          /\ Answer(r, q, {"rate"})
          /\ UNCHANGED sleep
       \/ /\ q.credential \in Usable(pool)
          /\ Advance(r, q, "sent")
    /\ UNCHANGED <<pool, spent>>

\* _stream_provider_response: the provider answers 429, another error, or
\* streams.  A stream may carry a limit in its headers or a failure in its text,
\* and only a credential without money is told so.
UpstreamLimits(r, q) ==
    /\ q.stage = "sent"
    /\ \E reset \in Resets : pool' = MarkRateLimited(pool, q.credential, reset)
    /\ Advance(r, q, "limited")
    /\ UNCHANGED spent

UpstreamRejects(r, q) ==
    /\ q.stage = "sent"
    /\ Advance(r, q, "rejected")
    /\ UNCHANGED <<pool, spent>>

UpstreamStreams(r, q) ==
    /\ q.stage = "sent"
    /\ \/ UNCHANGED pool
       \/ /\ UseResets
          /\ \E reset \in Resets : pool' = MarkRateLimited(pool, q.credential, reset)
    /\ \/ Answer(r, q, {})
       \/ Answer(r, q, {"rate"})
       \/ q.credential \in spent /\ Answer(r, q, {"spend"})
    /\ UNCHANGED <<spent, sleep>>

\* Fault: the report is held against the credential the run has now.
ReportAgainstCurrent(r, q) ==
    /\ q.stage \in {"limited", "rejected"}
    /\ q.credential \in spent
    /\ pool' = Disable(pool, provider[r])
    /\ sleep' = SleepAfterDisable(provider[r])
    /\ Answer(r, q, {"spend"})
    /\ UNCHANGED spent

\* _get_error_response: the text of the error has been read.
ReportSpend(r, q) ==
    /\ q.stage \in {"limited", "rejected"}
    /\ q.credential \in spent
    /\ pool' = Disable(pool, q.credential)
    /\ sleep' = SleepAfterDisable(q.credential)
    /\ Answer(r, q, {"spend"})
    /\ UNCHANGED spent

ReportOther(r, q) ==
    /\ q.stage \in {"limited", "rejected"}
    /\ Answer(r, q, IF q.stage = "limited" THEN {"rate"} ELSE {})
    /\ UNCHANGED <<pool, spent, sleep>>

\* The connection failed, or the handler was cancelled with its client.
Drop(r, q) == Answer(r, q, {}) /\ UNCHANGED <<pool, spent, sleep>>

\* The provider stops paying for a credential.
Spend(c) ==
    /\ spent' = spent \cup {c}
    /\ UNCHANGED <<pool, runVars>>

Less(n) == IF n > 0 THEN n - 1 ELSE 0

Elapsed(p) == [p EXCEPT !.cooling = [c \in Credentials |-> Less(p.cooling[c])]]

Tick ==
    /\ \/ \E c \in Credentials : pool.cooling[c] > 0
       \/ \E r \in Runs : sleep[r] > 0
    /\ pool' = Elapsed(pool)
    /\ sleep' = [r \in Runs |-> Less(sleep[r])]
    /\ UNCHANGED <<spent, pc, provider, seen, requests>>

Forwarding(r) ==
    \E q \in requests[r] :
        \/ Forward(r, q) \/ Drop(r, q)
        \/ UpstreamLimits(r, q) \/ UpstreamRejects(r, q) \/ UpstreamStreams(r, q)
        \/ ReportSpend(r, q) \/ ReportOther(r, q)

Next ==
    \/ \E r \in Runs :
          \/ Enter(r) \/ Wake(r) \/ WorkerExits(r) \/ EndRun(r)
          \/ RecoverSpend(r) \/ RecoverRate(r)
          \/ Receive(r) \/ Forwarding(r)
    \/ \E c \in Credentials : Spend(c)
    \/ Tick

Spec == Init /\ [][Next]_vars

\* Time passes and a run that is woken goes on; nothing is assumed about
\* workers, providers or operators.
FairSpec == Spec /\ WF_vars(Tick) /\ \A r \in Runs : WF_vars(Wake(r))

----------------------------------------------------------------------------
(* Properties                                                              *)

IsPool(p) ==
    /\ p = [cooling |-> p.cooling, disabled |-> p.disabled, next |-> p.next]
    /\ p.cooling \in [Credentials -> Nat]
    /\ p.disabled \subseteq Credentials
    /\ p.next \in Credentials

\* Types; a run has a credential from its first worker on.
TypeOK ==
    /\ IsPool(pool)
    /\ spent \subseteq Credentials
    /\ pc \in [Runs -> {"start", "waiting", "worker", "exited", "ended", "out"}]
    /\ provider \in [Runs -> 0 .. N]
    /\ seen \in [Runs -> SUBSET Failures]
    /\ requests \in [Runs -> SUBSET Request]
    /\ sleep \in [Runs -> Nat]
    /\ \A r \in Runs : pc[r] \in {"worker", "exited"} => provider[r] # N

\* A request of the present worker goes out on the present credential.  What
\* outlives its worker may be on another, and must not be held against the
\* present one.
LiveRequestsAreCurrent ==
    \A r \in Runs : \A q \in requests[r] :
        q.live => pc[r] = "worker" /\ q.credential = provider[r]

\* A worker that is told its credential is spent was told so of the credential
\* that recover_credential will then disable.
BlameIsDeserved ==
    \A r \in Runs : pc[r] \in {"worker", "exited"} /\ "spend" \in seen[r] => provider[r] \in spent

\* Only a credential whose provider refused to pay is taken from the batch
\* (disable is for good), although the report may come from a request of an
\* earlier worker, or from a worker that exits after other runs moved on.
OnlySpentDisabled == pool.disabled \subseteq spent

\* A run does not sleep past the moment a credential comes back, and is awake
\* once none will (CredentialPool._wait_for_change and disable).
NobodyOversleeps ==
    \A r \in Runs : pc[r] = "waiting" /\ sleep[r] > 0 =>
        /\ pool.disabled # Credentials
        /\ \A c \in Credentials \ pool.disabled : sleep[r] <= pool.cooling[c]

\* The error that ends a batch, "All provider credentials reached their spend
\* limits", is true when it is raised.
NoFalseExhaustion == (\E r \in Runs : pc[r] = "out") => spent = Credentials

\* mark_rate_limited "never shorten[s] an existing cooldown": only time does,
\* whatever order the reports of different runs arrive in, and a credential
\* that was taken out stays out.
CooldownsOnlyExtend ==
    [][ /\ pool.disabled \subseteq pool'.disabled
        /\ \/ pool'.cooling = Elapsed(pool).cooling /\ UNCHANGED <<pc, requests>>
           \/ \A c \in Credentials : pool'.cooling[c] >= pool.cooling[c] ]_pool

\* A run waits for ever only while limits are reported for ever: if from some
\* time on cooldowns only run out, every wait ends.
WaitersAreServed ==
    <>[][\A c \in Credentials : pool'.cooling[c] <= pool.cooling[c]]_pool
        => \A r \in Runs : pc[r] = "waiting" ~> pc[r] # "waiting"

\* The inductive invariant of the proofs.
CredentialInv ==
    /\ TypeOK
    /\ LiveRequestsAreCurrent
    /\ BlameIsDeserved
    /\ OnlySpentDisabled
    /\ NobodyOversleeps
    /\ NoFalseExhaustion

============================================================================
