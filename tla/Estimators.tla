------------------------------ MODULE Estimators ------------------------------
(***************************************************************************)
(* The four estimators that fit what was audited and predict the success   *)
(* of n trajectories of k blocks: simple geometric (SG), discovery and     *)
(* execution (DE), and their regularised forms with a learned prior (R-SG, *)
(* R-DE).  They are functions of one problem's observation and of a prior. *)
(*                                                                         *)
(* The code computes in doubles and, for R-DE, with log-gamma; here every  *)
(* value is an exact fraction, and the shapes of a prior are whole         *)
(* numbers, so that Beta and Dirichlet averages are rising factorials.     *)
(***************************************************************************)
EXTENDS Integers, Sequences, FiniteSets

LOCAL INSTANCE Folds
LOCAL INSTANCE Combinatorics

CONSTANTS Budget,    \* TOTAL_BUDGET: the blocks of an oracle run
          Arms       \* NUM_ARMS: numbers of parallel trajectories

----------------------------------------------------------------------------
(* Fractions: <<numerator, denominator>>, in lowest terms                  *)

Gcd[x \in Nat, y \in Nat] == IF y = 0 THEN x ELSE Gcd[y, x % y]

Frac(x, y) == LET g == Gcd[IF x < 0 THEN -x ELSE x, y] IN <<x \div g, y \div g>>

Zero == <<0, 1>>
One == <<1, 1>>

Times(x, y) == LET u == Frac(x[1], y[2])
                   v == Frac(y[1], x[2])
               IN <<u[1] * v[1], u[2] * v[2]>>

Plus(x, y) == LET g == Gcd[x[2], y[2]]
              IN Frac(x[1] * (y[2] \div g) + y[1] * (x[2] \div g), (x[2] \div g) * y[2])

Minus(x, y) == Plus(x, <<-y[1], y[2]>>)
Over(x, y) == Times(x, <<y[2], y[1]>>)
Leq(x, y) == Minus(y, x)[1] >= 0

\* The sum and the product of f over the finite set S.
Total(f(_), S) == MapThenFoldSet(Plus, Zero, f, LAMBDA s : CHOOSE x \in s : TRUE, S)
Product(f(_), S) == MapThenFoldSet(Times, One, f, LAMBDA s : CHOOSE x \in s : TRUE, S)

Power(x, n) == Product(LAMBDA j : x, 1 .. n)

\* binom(n, k), also for k > n.
Binomial(n, k) == IF k > n THEN 0 ELSE choose(n, k)

----------------------------------------------------------------------------
(* One problem's measurements                                              *)

\* Observation's own checks: successes[j] oracle runs were solved by block j.
IsObservation(o) ==
    /\ o.attempts >= 1 /\ o.successes \in 0 .. o.attempts
    /\ o.trials >= 1 /\ o.solved \in [1 .. Budget -> 0 .. o.trials]
    /\ \A j \in 2 .. Budget : o.solved[j - 1] <= o.solved[j]

\* What predict evaluates.
Allocations == {x \in Arms \X (1 .. Budget) : x[1] * x[2] <= Budget}

----------------------------------------------------------------------------
(* Simple geometric                                                        *)

SGAccepts(o, n, k) == o.attempts >= n * k

SGSuccess(o, n, k) ==
    Minus(One, Frac(Binomial(o.attempts - o.successes, n * k), Binomial(o.attempts, n * k)))

----------------------------------------------------------------------------
(* Discovery and execution                                                 *)

ShortRate(o) == Frac(o.successes, o.attempts)
Curve(o) == [j \in 1 .. Budget |-> Frac(o.solved[j], o.trials)]

IsUnidentified(o) == o.successes = 0 /\ o.solved[1] = 0

AtBoundary(o) == ~Leq(ShortRate(o), Curve(o)[1])

\* The first block's evidence is pooled, and the later blocks keep their shares
\* of what the first one leaves unsolved.
Pooled(o) ==
    LET first == Frac(o.successes + o.solved[1], o.attempts + o.trials)
        left == Minus(One, Curve(o)[1])
    IN [j \in 1 .. Budget |->
          Plus(first, Times(Minus(One, first), Over(Minus(Curve(o)[j], Curve(o)[1]), left)))]

DEFit(o) ==
    CASE IsUnidentified(o) -> [alpha |-> Zero, epsilon |-> Curve(o)]
      [] AtBoundary(o) -> [alpha |-> One, epsilon |-> Pooled(o)]
      [] OTHER -> [alpha |-> Over(ShortRate(o), Curve(o)[1]), epsilon |-> Curve(o)]

\* At least one of n succeeds, when each does with probability s.
AnyOf(n, s) == Minus(One, Power(Minus(One, s), n))

\* Discovery in block f + 1, then execution within the k - f blocks that are left.
DESuccess(o, n, k) ==
    LET fit == DEFit(o)
        path(f) == Times(Times(fit.alpha, Power(Minus(One, fit.alpha), f)), fit.epsilon[k - f])
    IN AnyOf(n, Total(path, 0 .. k - 1))

----------------------------------------------------------------------------
(* Averages over Beta and Dirichlet distributions                          *)

\* The rising factorial x (x + 1) ... (x + r - 1).
Poch[x \in Nat, r \in Nat] == IF r = 0 THEN 1 ELSE (x + r - 1) * Poch[x, r - 1]

\* E[q^s (1 - q)^f] for q ~ Beta(a, b).
ExpectedBetaProduct(a, b, s, f) ==
    Times(Frac(Poch[a, s], Poch[a + b, s]), Frac(Poch[b, f], Poch[a + b + s, f]))

SumOf(s) == Total(LAMBDA j : <<s[j], 1>>, DOMAIN s)[1]

\* E[product_j pi_j^powers[j]] for pi ~ Dirichlet(shapes); 0 excludes a category.
ExpectedDirichletProduct(shapes, powers) ==
    Over(Product(LAMBDA j : <<Poch[shapes[j], powers[j]], 1>>, DOMAIN shapes),
         <<Poch[SumOf(shapes), SumOf(powers)], 1>>)

----------------------------------------------------------------------------
(* Regularised simple geometric, with the prior Beta(a, b)                 *)

RSGSuccess(prior, o, n, k) ==
    Minus(One, ExpectedBetaProduct(prior.a + o.successes, prior.b + o.attempts - o.successes, 0, n * k))

\* exp(-beta_binomial_nll), which is what the prior is fitted by.
RSGEvidence(prior, o) == ExpectedBetaProduct(prior.a, prior.b, o.successes, o.attempts - o.successes)

----------------------------------------------------------------------------
(* Regularised discovery and execution, with the priors Beta(a, b) of      *)
(* discovery and Dirichlet(execution) of the block that completes          *)

\* First completions by block, then runs never completed.
OracleCounts(o) ==
    [j \in 1 .. Budget + 1 |->
        (IF j > Budget THEN o.trials ELSE o.solved[j]) - (IF j = 1 THEN 0 ELSE o.solved[j - 1])]

\* Some first-block and some other outcome must have been observed.
RDEAccepts(supported) == 1 \in supported /\ supported # {1}

\* Shapes of the conditional posterior when h of the short failures happened
\* after discovery had succeeded.
Conditional(prior, o, h) ==
    LET counts == OracleCounts(o)
        later == [j \in 1 .. Budget |-> prior.execution[j + 1] + counts[j + 1]]
    IN [discoveryA |-> prior.a + o.successes + h,
        discoveryB |-> prior.b + (o.attempts - o.successes - h),
        firstA |-> prior.execution[1] + counts[1] + o.successes,
        firstB |-> SumOf(later) + h,
        later |-> later]

Cases(o) == 0 .. o.attempts - o.successes

\* Fault: the cases are not weighted by how many ways lead to them.
CaseWeightOnce(prior, o, h) ==
    LET unseen == Conditional(prior, [o EXCEPT !.successes = 0, !.attempts = 0], 0)
        failures == o.attempts - o.successes
    IN Times(ExpectedBetaProduct(prior.a, prior.b, o.successes + h, failures - h),
             ExpectedBetaProduct(unseen.firstA, unseen.firstB, o.successes, h))

\* exp of _failure_count_log_weights.
CaseWeight(prior, o, h) ==
    LET unseen == Conditional(prior, [o EXCEPT !.successes = 0, !.attempts = 0], 0)
        failures == o.attempts - o.successes
    IN Times(<<Binomial(failures, h), 1>>,
             Times(ExpectedBetaProduct(prior.a, prior.b, o.successes + h, failures - h),
                   ExpectedBetaProduct(unseen.firstA, unseen.firstB, o.successes, h)))

ShortEvidence(prior, o) == Total(LAMBDA h : CaseWeight(prior, o, h), Cases(o))

\* exp(log_evidence), which is what the prior is fitted by.
RDEEvidence(prior, o) ==
    Times(ExpectedDirichletProduct(prior.execution, OracleCounts(o)), ShortEvidence(prior, o))

\* Failed discoveries f, then completion in block j of the execution.
SuccessPaths(k) == {x \in (0 .. k - 1) \X (1 .. k) : x[1] + x[2] <= k}

ExpectedExecutionProduct(c, paths) ==
    LET times(j) == Cardinality({r \in DOMAIN paths : paths[r][2] = j})
    IN Times(ExpectedBetaProduct(c.firstA, c.firstB, times(1), Len(paths) - times(1)),
             ExpectedDirichletProduct(c.later, [j \in 1 .. Budget |-> times(j + 1)]))

\* E[s_k^r]: every ordered selection of r successful paths counts.
ExpectedSuccessPower(c, k, r) ==
    LET selection(paths) ==
            Times(ExpectedBetaProduct(c.discoveryA, c.discoveryB, r, SumOf([x \in 1 .. r |-> paths[x][1]])),
                  ExpectedExecutionProduct(c, paths))
    IN Total(selection, [1 .. r -> SuccessPaths(k)])

\* 1 - (1 - s)^n, expanded.
ConditionalSuccess(c, n, k) ==
    Total(LAMBDA r : Times(<<(IF r % 2 = 1 THEN 1 ELSE -1) * Binomial(n, r), 1>>,
                           ExpectedSuccessPower(c, k, r)), 1 .. n)

RDESuccess(prior, o, n, k) ==
    LET evidence == ShortEvidence(prior, o)
    IN Total(LAMBDA h : Times(Over(CaseWeight(prior, o, h), evidence),
                              ConditionalSuccess(Conditional(prior, o, h), n, k)), Cases(o))

=============================================================================
