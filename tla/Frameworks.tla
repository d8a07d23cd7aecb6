------------------------------ MODULE Frameworks ------------------------------
(***************************************************************************)
(* Runs of the frameworks: read the compiled audits of the selected        *)
(* datasets, fit the four estimators to the same observations one after    *)
(* the other, and save what each has fitted and predicted, by dataset.     *)
(* Several runs may go on at a time while audits are compiled anew; a run  *)
(* may fail or be killed at any step.                                      *)
(*                                                                         *)
(* A dataset is represented by one problem of it.                          *)
(***************************************************************************)
EXTENDS Estimators

CONSTANTS Processes,
          Datasets,
          Seeds,
          MinShort, MinOracle,  \* MIN_SHORT_SEEDS, MIN_ORACLE_SEEDS
          Exports,              \* what compiled audits may hold
          BetaPriors,           \* shapes that a fitted Beta prior may have
          Concentrations,       \* and those of a Dirichlet prior
          None,
          Starts                \* audits to begin with, and how many runs and
                                \* compilations to follow from them (bounds)

Outcomes == {"missing", "fail", "pass"}

\* The rows of one problem: unaided-1x, and every checkpoint of the oracle runs.
Rows == [short : [Seeds -> Outcomes], oracle : [Seeds -> [1 .. Budget -> Outcomes]]]

Kinds == <<"sg", "de", "r-sg", "r-de">>

ASSUME ConstantsAssumption ==
    /\ Budget \in Nat \ {0} /\ Arms \subseteq Nat \ {0} /\ 1 \in Arms
    /\ IsFiniteSet(Datasets) /\ IsFiniteSet(Seeds)
    /\ {MinShort, MinOracle} \subseteq Nat /\ MinShort >= Budget /\ MinOracle >= 1
    /\ Exports \subseteq [Datasets -> Rows]
    /\ Starts \subseteq [export : Exports, runs : Nat, compiles : Nat]
    /\ BetaPriors \subseteq [a : Nat \ {0}, b : Nat \ {0}] /\ Concentrations \subseteq Nat \ {0}
    /\ None \notin Processes

VARIABLES export,    \* of each dataset: the compiled audits
          pc, run,   \* of each process: its next step, and what it has read and fitted
          lock,      \* of each dataset: who holds the lock of its frameworks directory
          results,   \* of each dataset and framework: the two files
          torn,      \* history: whose files a broken-off save left apart
          runs, compiles  \* what remains of the bounds

vars == <<export, pc, run, lock, results, torn, runs, compiles>>

\* A file stands for the parameters that it holds or was computed from.
NoFiles == [fit |-> None, predictions |-> None]

NoRun == [todo |-> <<>>, short |-> None, observed |-> <<>>, kind |-> 1,
          prior |-> None, predictions |-> None]

Init ==
    /\ \E s \in Starts : export = s.export /\ runs = s.runs /\ compiles = s.compiles
    /\ pc = [p \in Processes |-> "idle"]
    /\ run = [p \in Processes |-> NoRun]
    /\ lock = [d \in Datasets |-> None]
    /\ results = [x \in Datasets \X {Kinds[i] : i \in DOMAIN Kinds} |-> NoFiles]
    /\ torn = {}

\* Verdicts are only ever added to an audit that is compiled again.
Keeps(old, new) == old = "missing" \/ new = old

Compile ==
    /\ compiles > 0
    /\ compiles' = compiles - 1
    /\ export' \in Exports \ {export}
    /\ \A d \in Datasets, s \in Seeds :
          /\ Keeps(export[d].short[s], export'[d].short[s])
          /\ \A j \in 1 .. Budget : Keeps(export[d].oracle[s][j], export'[d].oracle[s][j])
    /\ UNCHANGED <<pc, run, lock, results, torn, runs>>

Goto(p, step) == pc' = [pc EXCEPT ![p] = step]

End(p) == Goto(p, "idle") /\ run' = [run EXCEPT ![p] = NoRun]

----------------------------------------------------------------------------
(* DataLoader.load                                                         *)

Selections == {s \in UNION {[1 .. n -> Datasets] : n \in 1 .. Cardinality(Datasets)} :
                 \A i, j \in DOMAIN s : s[i] = s[j] => i = j}

Start(p) ==
    /\ pc[p] = "idle"
    /\ runs > 0
    /\ runs' = runs - 1
    /\ \E s \in Selections : run' = [run EXCEPT ![p] = [NoRun EXCEPT !.todo = s]]
    /\ Goto(p, "short")
    /\ UNCHANGED <<export, lock, results, torn, compiles>>

CompleteRuns(rows) == {s \in Seeds : \A j \in 1 .. Budget : rows[s][j] # "missing"}

\* Fault: a run counts at the checkpoints it passes.
SuccessesNow(rows, j) == Cardinality({s \in CompleteRuns(rows) : rows[s][j] = "pass"})

\* A later revision that fails does not undo a success.
CumulativeSuccesses(rows, j) ==
    Cardinality({s \in CompleteRuns(rows) : \E i \in 1 .. j : rows[s][i] = "pass"})

Observe(short, rows) ==
    [attempts |-> Cardinality({s \in Seeds : short[s] # "missing"}),
     successes |-> Cardinality({s \in Seeds : short[s] = "pass"}),
     trials |-> Cardinality(CompleteRuns(rows)),
     solved |-> [j \in 1 .. Budget |-> CumulativeSuccesses(rows, j)]]

Here(p) == Head(run[p].todo)

ReadShort(p) ==
    /\ pc[p] = "short"
    /\ run' = [run EXCEPT ![p].short = export[Here(p)].short]
    /\ Goto(p, "oracle")
    /\ UNCHANGED <<export, lock, results, torn, runs, compiles>>

\* A problem with too few seeds is skipped; without any, the run is over.
ReadOracle(p) ==
    LET o == Observe(run[p].short, export[Here(p)].oracle)
        observed == IF o.attempts < MinShort \/ o.trials < MinOracle
                    THEN run[p].observed ELSE Append(run[p].observed, <<Here(p), o>>)
        left == Tail(run[p].todo)
    IN /\ pc[p] = "oracle"
       /\ IF left = <<>> /\ observed = <<>> THEN End(p)
          ELSE /\ run' = [run EXCEPT ![p] =
                             [NoRun EXCEPT !.todo = left, !.observed = observed]]
               /\ Goto(p, IF left = <<>> THEN "fit" ELSE "short")
       /\ UNCHANGED <<export, lock, results, torn, runs, compiles>>

----------------------------------------------------------------------------
(* fit and predict                                                         *)

Kind(p) == Kinds[run[p].kind]

Observed(p) == {run[p].observed[i][2] : i \in DOMAIN run[p].observed}

\* Outcomes seen in some selected problem; no count is negative, so these are
\* the categories of which the problems have any in total.
Supported(p) == {j \in 1 .. Budget + 1 : \E o \in Observed(p) : OracleCounts(o)[j] > 0}

\* The others are excluded.
RDEPriors(supported) ==
    {[a |-> beta.a, b |-> beta.b, execution |-> shapes] :
        beta \in BetaPriors,
        shapes \in {s \in [1 .. Budget + 1 -> Concentrations \cup {0}] :
                      \A j \in 1 .. Budget + 1 : s[j] > 0 <=> j \in supported}}

\* The optimiser is abstracted to the shapes it may return.
Priors(p) ==
    CASE Kind(p) = "r-sg" -> BetaPriors
      [] Kind(p) = "r-de" -> RDEPriors(Supported(p))
      [] OTHER -> {None}

Success(kind, prior, o, n, k) ==
    CASE kind = "sg" -> SGSuccess(o, n, k)
      [] kind = "de" -> DESuccess(o, n, k)
      [] kind = "r-sg" -> RSGSuccess(prior, o, n, k)
      [] kind = "r-de" -> RDESuccess(prior, o, n, k)

Predict(kind, prior, o) == [x \in Allocations |-> Success(kind, prior, o, x[1], x[2])]

Accepts(p) ==
    /\ \A o \in Observed(p) :
          /\ IsObservation(o)
          /\ Kind(p) = "sg" => \A x \in Allocations : SGAccepts(o, x[1], x[2])
    /\ Kind(p) = "r-de" => RDEAccepts(Supported(p))

\* One prior for all problems, whatever their dataset.
Fit(p) ==
    /\ pc[p] = "fit"
    /\ Accepts(p)
    /\ \E prior \in Priors(p) :
          run' = [run EXCEPT ![p].prior = prior,
                             ![p].predictions = [o \in Observed(p) |-> Predict(Kind(p), prior, o)],
                             ![p].todo = [i \in DOMAIN run[p].observed |-> run[p].observed[i][1]]]
    /\ Goto(p, "claim")
    /\ UNCHANGED <<export, lock, results, torn, runs, compiles>>

\* The error ends the run; what it has saved of other frameworks stays.
Refuse(p) ==
    /\ pc[p] = "fit"
    /\ ~Accepts(p)
    /\ End(p)
    /\ UNCHANGED <<export, lock, results, torn, runs, compiles>>

----------------------------------------------------------------------------
(* FrameworkRunner._save                                                   *)

\* What the run has fitted for the dataset that it saves next.
Fitted(p) ==
    LET i == CHOOSE j \in DOMAIN run[p].observed : run[p].observed[j][1] = Here(p)
    IN [observation |-> run[p].observed[i][2], prior |-> run[p].prior]

\* Fault: the save does not ask for the lock.
ClaimAnyway(p) ==
    /\ pc[p] = "claim"
    /\ lock' = [lock EXCEPT ![Here(p)] = p]
    /\ Goto(p, "replace fit")
    /\ UNCHANGED <<export, run, results, torn, runs, compiles>>

\* Contention ends the run; else both files are staged.
Claim(p) ==
    /\ pc[p] = "claim"
    /\ IF lock[Here(p)] # None THEN End(p) /\ UNCHANGED lock
       ELSE /\ lock' = [lock EXCEPT ![Here(p)] = p]
            /\ Goto(p, "replace fit")
            /\ UNCHANGED run
    /\ UNCHANGED <<export, results, torn, runs, compiles>>

ReplaceFit(p) ==
    /\ pc[p] = "replace fit"
    /\ results' = [results EXCEPT ![<<Here(p), Kind(p)>>].fit = Fitted(p)]
    /\ Goto(p, "replace predictions")
    /\ UNCHANGED <<export, run, lock, torn, runs, compiles>>

\* The lock is released; then the next dataset, framework, or the end.
ReplacePredictions(p) ==
    /\ pc[p] = "replace predictions"
    /\ results' = [results EXCEPT ![<<Here(p), Kind(p)>>].predictions = Fitted(p)]
    /\ torn' = torn \ {<<Here(p), Kind(p)>>}
    /\ lock' = [lock EXCEPT ![Here(p)] = None]
    /\ IF Len(run[p].todo) > 1 THEN run' = [run EXCEPT ![p].todo = Tail(@)] /\ Goto(p, "claim")
       ELSE IF run[p].kind < Len(Kinds)
            THEN /\ run' = [run EXCEPT ![p] = [NoRun EXCEPT !.observed = run[p].observed, !.kind = run[p].kind + 1]]
                 /\ Goto(p, "fit")
            ELSE End(p)
    /\ UNCHANGED <<export, runs, compiles>>

\* An error, an interruption or a kill: a lock goes with its holder.
BreakOff(p) ==
    /\ pc[p] # "idle"
    /\ lock' = [d \in Datasets |-> IF lock[d] = p THEN None ELSE lock[d]]
    /\ torn' = IF pc[p] = "replace predictions" THEN torn \cup {<<Here(p), Kind(p)>>} ELSE torn
    /\ End(p)
    /\ UNCHANGED <<export, results, runs, compiles>>

----------------------------------------------------------------------------
Step(p) ==
    \/ Start(p) \/ ReadShort(p) \/ ReadOracle(p) \/ Fit(p) \/ Refuse(p)
    \/ Claim(p) \/ ReplaceFit(p) \/ ReplacePredictions(p) \/ BreakOff(p)

Next == Compile \/ \E p \in Processes : Step(p)

Spec == Init /\ [][Next]_vars

----------------------------------------------------------------------------
(* Properties                                                              *)

\* Whoever reads the results finds predictions of the parameters beside them,
\* unless a save is under way, or the last one was broken off between its two
\* files (FrameworkRunner._save); a save that is completed later repairs that.
PairsAgree ==
    \A x \in DOMAIN results :
        \/ results[x].fit = results[x].predictions
        \/ x \in torn
        \/ \E p \in Processes : pc[p] = "replace predictions" /\ <<Here(p), Kind(p)>> = x

\* A process has just fitted and predicted.
Predicted(p) == pc[p] = "claim" /\ Len(run[p].todo) = Len(run[p].observed)

\* The fraction of the selections of n*k attempts out of those observed, of
\* which the first o.successes succeeded, that contain a success.
PassAt(o, a) ==
    LET chosen == {c \in SUBSET (1 .. o.attempts) : Cardinality(c) = a}
    IN Frac(Cardinality({c \in chosen : \E x \in c : x <= o.successes}), Cardinality(chosen))

\* Among the oracle runs of all selected problems, one completed in its first
\* block, and one did not.
EarlyAndLate(p) ==
    /\ \E o \in Observed(p) : o.solved[1] > 0
    /\ \E o \in Observed(p) : o.solved[1] < o.trials

\* SG, DE and R-SG accept whatever problems the loader passes on.  R-DE, which
\* the loader does not ask, refuses them exactly when none of their oracle runs
\* completed in the first block, or all did, however the others are spread.
FitsAreAccepted ==
    \A p \in Processes : pc[p] = "fit" => (Accepts(p) <=> (Kind(p) = "r-de" => EarlyAndLate(p)))

\* No estimator is fitted to numbers it was not made for: problems that the
\* loader passes on are refused only by R-DE, and only for want of an early or
\* of a late oracle run, all predictions are probabilities, and more arms or
\* more blocks never make success less likely.  SG is the share of the samples
\* that succeed, and DE returns the rate of the short runs, or, at the boundary,
\* a rate between theirs and that of the oracle's first block.
EstimatesAreSound ==
    /\ FitsAreAccepted
    /\ \A p \in Processes : Predicted(p) => \A o \in Observed(p) :
            LET success == run[p].predictions[o]
            IN /\ \A x \in Allocations :
                    /\ Leq(Zero, success[x]) /\ Leq(success[x], One)
                    /\ \A y \in Allocations : x[1] <= y[1] /\ x[2] <= y[2] => Leq(success[x], success[y])
               /\ Kind(p) = "sg" => \A x \in Allocations : success[x] = PassAt(o, x[1] * x[2])
               /\ Kind(p) = "de" =>
                    IF AtBoundary(o)
                    THEN Leq(success[1, 1], ShortRate(o)) /\ Leq(Curve(o)[1], success[1, 1])
                    ELSE success[1, 1] = ShortRate(o)

\* The same problem after n more short runs, none of which succeeded.
AfterFailures(o, n) == [o EXCEPT !.attempts = @ + n]

\* The predictions of the regularised frameworks follow from the likelihood
\* that their priors were fitted by: the chance that n arms of one block all
\* fail is how much less likely the data become with n more failures, and for
\* R-SG, to which a deeper arm is k short runs, with n*k more.  R-DE reaches the
\* two sides by different code (_expected_success_power and
\* _failure_count_log_weights).  Arms share what is unknown of a problem, so
\* n of them succeed at most as often as n independent ones.
PredictionsFollowBayes ==
    \A p \in Processes : Predicted(p) =>
        \A o \in Observed(p) :
            LET prior == run[p].prior
                success(n, k) == Success(Kind(p), prior, o, n, k)
            IN Kind(p) \in {"r-sg", "r-de"} => \A n \in Arms :
                /\ LET evidence(q) == IF Kind(p) = "r-sg" THEN RSGEvidence(prior, q) ELSE RDEEvidence(prior, q)
                       depths == IF Kind(p) = "r-sg" THEN 1 .. Budget ELSE {1}
                   IN \A k \in depths :
                         Minus(One, success(n, k)) = Over(evidence(AfterFailures(o, n * k)), evidence(o))
                /\ \A k \in 1 .. Budget : Leq(success(n, k), AnyOf(n, success(1, k)))

=============================================================================
