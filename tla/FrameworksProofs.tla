--------------------------- MODULE FrameworksProofs ---------------------------
(***************************************************************************)
(* What runs of the frameworks leave on disk, and which problems their     *)
(* estimators accept, for any datasets, seeds, audits, priors and number   *)
(* of runs at a time.                                                      *)
(*                                                                         *)
(* Both theorems follow from one invariant: `Stage` says what a run has    *)
(* read, and that it holds its dataset's lock, and finds its own fit       *)
(* there, when it is between the two files of a save.                      *)
(***************************************************************************)
EXTENDS Frameworks, FiniteSetTheorems, WellFoundedInduction, TLAPS

Names == Datasets \X {Kinds[i] : i \in DOMAIN Kinds}

\* What the loader passes on: an estimator's input, from at least MinShort runs.
Problems ==
    {o \in [attempts : Nat, successes : Nat, trials : Nat, solved : [1 .. Budget -> Nat]] :
        IsObservation(o) /\ o.attempts >= MinShort}

IsRun(r) ==
    /\ DOMAIN r = DOMAIN NoRun
    /\ r.todo \in Seq(Datasets)
    /\ r.observed \in Seq(Datasets \X Problems)
    /\ r.kind \in 1 .. 4

Saves == {"replace fit", "replace predictions"}

Steps == {"idle", "short", "oracle", "fit", "claim"} \cup Saves

Types ==
    /\ export \in [Datasets -> Rows]
    /\ pc \in [Processes -> Steps]
    /\ run = [p \in Processes |-> run[p]] /\ \A p \in Processes : IsRun(run[p])
    /\ lock \in [Datasets -> Processes \cup {None}]
    /\ results = [x \in Names |-> results[x]]
    /\ \A x \in Names : DOMAIN results[x] = {"fit", "predictions"}

\* What a step relies on.
Stage(p) ==
    /\ pc[p] \in {"short", "oracle", "claim"} \cup Saves => run[p].todo # <<>>
    /\ pc[p] = "oracle" => run[p].short \in [Seeds -> Outcomes]
    /\ pc[p] \in {"fit", "claim"} \cup Saves => run[p].observed # <<>>
    /\ pc[p] \in Saves => lock[Here(p)] = p
    /\ pc[p] = "replace predictions" => results[<<Here(p), Kind(p)>>].fit = Fitted(p)

RunsInv == Types /\ \A p \in Processes : Stage(p)

SaveInv == RunsInv /\ PairsAgree

----------------------------------------------------------------------------
(* What is read                                                            *)

\* The four frameworks are fitted in turn.
LEMMA FourKinds ==
    /\ Len(Kinds) = 4 /\ DOMAIN Kinds = 1 .. 4
    /\ \A d \in Datasets, i \in 1 .. 4 : <<d, Kinds[i]>> \in Names
BY DEF Kinds, Names

\* A run that has read nothing yet.
LEMMA NothingRead ==
    /\ IsRun(NoRun)
    /\ \A s \in Seq(Datasets) : IsRun([NoRun EXCEPT !.todo = s])
    /\ \A s \in Seq(Datasets), o \in Seq(Datasets \X Problems) :
          IsRun([NoRun EXCEPT !.todo = s, !.observed = o])
    /\ \A o \in Seq(Datasets \X Problems), k \in 1 .. 4 :
          IsRun([NoRun EXCEPT !.observed = o, !.kind = k])
<1> DEFINE P == Datasets \X Problems
<1>1. <<>> \in Seq(Datasets) /\ <<>> \in Seq(P)
  OBVIOUS
<1> HIDE DEF P
<1>2. DOMAIN NoRun = {"todo", "short", "observed", "kind", "prior", "predictions"}
  BY DEF NoRun
<1>3. NoRun.todo = <<>> /\ NoRun.observed = <<>> /\ NoRun.kind = 1
  BY DEF NoRun
<1>4. IsRun(NoRun) <=> <<>> \in Seq(Datasets) /\ <<>> \in Seq(P)
  BY <1>3 DEF IsRun, P
<1>5. ASSUME NEW s \in Seq(Datasets) PROVE IsRun([NoRun EXCEPT !.todo = s])
  BY <1>1, <1>5 DEF IsRun, P, NoRun
<1>6. ASSUME NEW s \in Seq(Datasets), NEW o \in Seq(P)
      PROVE  IsRun([NoRun EXCEPT !.todo = s, !.observed = o])
  BY <1>1, <1>6 DEF IsRun, P, NoRun
<1>7. ASSUME NEW o \in Seq(P), NEW k \in 1 .. 4
      PROVE  IsRun([NoRun EXCEPT !.observed = o, !.kind = k])
  BY <1>1, <1>7 DEF IsRun, P, NoRun
<1> QED
  BY <1>1, <1>4, <1>5, <1>6, <1>7 DEF P

\* A problem with enough seeds passes the checks of Observation: the runs that
\* pass are some of those that ended, and no success is undone by a later block.
LEMMA EnoughIsAProblem ==
    ASSUME NEW short \in [Seeds -> Outcomes],
           NEW rows \in [Seeds -> [1 .. Budget -> Outcomes]],
           Observe(short, rows).attempts >= MinShort,
           Observe(short, rows).trials >= MinOracle
    PROVE  Observe(short, rows) \in Problems
<1> DEFINE ended == {s \in Seeds : short[s] # "missing"}
           passed == {s \in Seeds : short[s] = "pass"}
           complete == CompleteRuns(rows)
           solved(j) == {s \in complete : \E i \in 1 .. j : rows[s][i] = "pass"}
           o == Observe(short, rows)
<1>1. IsFiniteSet(Seeds) /\ Budget \in Nat \ {0}
      /\ MinShort \in Nat /\ MinOracle \in Nat /\ MinShort >= 1 /\ MinOracle >= 1
  BY ConstantsAssumption
<1>2. ended \subseteq Seeds /\ passed \subseteq ended /\ complete \subseteq Seeds
  BY DEF CompleteRuns
<1>3. IsFiniteSet(ended) /\ IsFiniteSet(complete)
  BY <1>1, <1>2, FS_Subset
<1>4. Cardinality(ended) \in Nat /\ Cardinality(complete) \in Nat
      /\ Cardinality(passed) \in Nat /\ Cardinality(passed) <= Cardinality(ended)
  BY <1>2, <1>3, FS_Subset, FS_CardinalityType
<1>5. ASSUME NEW j \in 1 .. Budget
      PROVE  /\ IsFiniteSet(solved(j)) /\ Cardinality(solved(j)) \in Nat
             /\ Cardinality(solved(j)) <= Cardinality(complete)
  <2>1. solved(j) \subseteq complete
    OBVIOUS
  <2> QED
    BY <1>3, <2>1, FS_Subset, FS_CardinalityType
<1>6. ASSUME NEW j \in 2 .. Budget PROVE Cardinality(solved(j - 1)) <= Cardinality(solved(j))
  <2>1. j \in 1 .. Budget /\ solved(j - 1) \subseteq solved(j)
    BY <1>1
  <2> QED
    BY <1>5, <2>1, FS_Subset
<1>7. o = [attempts |-> Cardinality(ended), successes |-> Cardinality(passed),
           trials |-> Cardinality(complete), solved |-> [j \in 1 .. Budget |-> Cardinality(solved(j))]]
  BY DEF Observe, CumulativeSuccesses
<1> HIDE DEF o, ended, passed, complete, solved
<1>8. o.attempts = Cardinality(ended) /\ o.successes = Cardinality(passed)
      /\ o.trials = Cardinality(complete) /\ o.solved = [j \in 1 .. Budget |-> Cardinality(solved(j))]
  BY <1>7
<1>9. o.solved \in [1 .. Budget -> Nat] /\ o.solved \in [1 .. Budget -> 0 .. o.trials]
  BY <1>4, <1>5, <1>8
<1>10. \A j \in 2 .. Budget : o.solved[j - 1] <= o.solved[j]
  BY <1>1, <1>6, <1>8
<1>11. o.attempts >= MinShort /\ o.trials >= MinOracle
  BY DEF o
<1>12. IsObservation(o)
  <2>1. o.attempts >= 1 /\ o.trials >= 1
    BY <1>1, <1>4, <1>8, <1>11
  <2>2. o.successes \in 0 .. o.attempts
    BY <1>4, <1>8
  <2> QED
    BY <1>9, <1>10, <2>1, <2>2 DEF IsObservation
<1>13. o \in [attempts : Nat, successes : Nat, trials : Nat, solved : [1 .. Budget -> Nat]]
  BY <1>4, <1>7, <1>8, <1>9
<1>14. o \in Problems
  BY <1>11, <1>12, <1>13 DEF Problems
<1> QED
  BY <1>14 DEF o

----------------------------------------------------------------------------
(* What the estimators accept                                              *)

\* A run has only read problems.
LEMMA ProblemsAreRead ==
    ASSUME NEW p \in Processes, IsRun(run[p])
    PROVE  Observed(p) \subseteq Problems
<1> DEFINE P == Problems
<1>1. run[p].observed \in Seq(Datasets \X P)
  BY DEF IsRun
<1> HIDE DEF P
<1>2. \A i \in DOMAIN run[p].observed : run[p].observed[i] \in Datasets \X P
  BY <1>1
<1> QED
  BY <1>2 DEF P, Observed

\* SG, which draws n*k of a problem's short runs, has at least Budget of them.
LEMMA ProblemsSuitSG ==
    ASSUME NEW o \in Problems
    PROVE  IsObservation(o) /\ \A x \in Allocations : SGAccepts(o, x[1], x[2])
<1>1. IsObservation(o) /\ o.attempts \in Nat /\ o.attempts >= MinShort
  BY DEF Problems
<1>2. ASSUME NEW n \in Arms, NEW k \in 1 .. Budget, n * k <= Budget
      PROVE  o.attempts >= n * k
  <2>1. n \in Nat /\ k \in Nat /\ Budget \in Nat /\ MinShort \in Nat /\ MinShort >= Budget
    BY ConstantsAssumption
  <2>2. n * k \in Nat
    BY <2>1
  <2> QED
    BY <1>1, <1>2, <2>1, <2>2
<1>3. ASSUME NEW x \in Allocations PROVE o.attempts >= x[1] * x[2]
  <2> DEFINE product(n, k) == n * k
  <2>1. \A n \in Arms, k \in 1 .. Budget : product(n, k) <= Budget => o.attempts >= product(n, k)
    BY <1>2
  <2>2. x \in {y \in Arms \X (1 .. Budget) : product(y[1], y[2]) <= Budget}
    BY DEF Allocations
  <2> HIDE DEF product
  <2>3. x[1] \in Arms /\ x[2] \in 1 .. Budget /\ product(x[1], x[2]) <= Budget
    BY <2>2
  <2>4. o.attempts >= product(x[1], x[2])
    BY <2>1, <2>3
  <2> QED
    BY <2>4 DEF product
<1> QED
  BY <1>1, <1>3 DEF SGAccepts

\* A nonempty set of numbers has a least one: the intervals below its members
\* are finite, and strict inclusion is well-founded on finite sets.
LEMMA LeastExists ==
    ASSUME NEW S \in SUBSET Nat, S # {}
    PROVE  \E x \in S : \A y \in S : x <= y
<1> DEFINE below == {0 .. x : x \in S}
           R == StrictSubsetOrdering(Nat)
<1>1. \A x \in S : 0 .. x \in FiniteSubsetsOf(Nat)
  BY FS_Interval DEF FiniteSubsetsOf
<1>2. below \subseteq FiniteSubsetsOf(Nat) /\ below # {}
  BY <1>1
<1>3. IsWellFoundedOn(R, FiniteSubsetsOf(Nat))
  BY FS_StrictSubsetOrderingWellFounded
<1>4. PICK t \in below : \A u \in below : <<u, t>> \notin R
  <2> HIDE DEF below, R
  <2> QED
    BY <1>2, <1>3, WFMin
<1>5. PICK x \in S : t = 0 .. x
  OBVIOUS
<1>6. ASSUME NEW y \in S, y < x PROVE FALSE
  <2>1. 0 .. y \in below /\ 0 .. y \subseteq 0 .. x /\ x \in 0 .. x /\ x \notin 0 .. y
    BY <1>6
  <2>2. <<0 .. y, t>> \in R
    BY <1>5, <2>1 DEF StrictSubsetOrdering
  <2> QED
    BY <1>4, <2>1, <2>2
<1> QED
  BY <1>6

\* A sequence that never falls rises somewhere exactly when it ends above where
\* it begins.
LEMMA RisesSomewhere ==
    ASSUME NEW n \in Nat \ {0}, NEW level \in [1 .. n -> Nat],
           \A j \in 2 .. n : level[j - 1] <= level[j]
    PROVE  (\E j \in 2 .. n : level[j - 1] < level[j]) <=> level[1] < level[n]
<1>1. ASSUME NEW S \in SUBSET (2 .. n), S # {}
      PROVE  \E j \in S : j - 1 \in 1 .. n /\ j - 1 \notin S
  <2>1. PICK j \in S : \A i \in S : j <= i
    BY <1>1, LeastExists
  <2> QED
    BY <2>1
<1>2. ASSUME NEW i \in 1 .. n PROVE level[1] <= level[i] /\ level[i] <= level[n]
  <2>1. ASSUME NEW k \in 2 .. n, level[k] < level[1] PROVE FALSE
    <3> DEFINE S == {j \in 2 .. n : level[j] < level[1]}
    <3>1. PICK j \in S : j - 1 \in 1 .. n /\ j - 1 \notin S
      BY <1>1, <2>1
    <3> QED
      BY <3>1
  <2>2. ASSUME level[n] < level[i] PROVE FALSE
    <3> DEFINE S == {j \in 2 .. n : i < j /\ level[j] < level[i]}
    <3>1. S # {}
      BY <2>2
    <3>2. PICK j \in S : j - 1 \in 1 .. n /\ j - 1 \notin S
      BY <1>1, <3>1
    <3> QED
      BY <3>2
  <2> QED
    BY <2>1, <2>2
<1>3. ASSUME NEW j \in 2 .. n, level[j - 1] < level[j] PROVE level[1] < level[n]
  BY <1>2, <1>3
<1>4. ASSUME level[1] < level[n] PROVE \E j \in 2 .. n : level[j - 1] < level[j]
  <2> DEFINE S == {j \in 2 .. n : level[1] < level[j]}
  <2>1. S # {}
    BY <1>4
  <2>2. PICK j \in S : j - 1 \in 1 .. n /\ j - 1 \notin S
    BY <1>1, <2>1
  <2>3. level[j - 1] <= level[1]
    BY <2>2
  <2> QED
    BY <2>2, <2>3
<1> QED
  BY <1>3, <1>4

\* The categories of a problem's oracle runs: the first block, or a later one.
LEMMA CategoriesOfAProblem ==
    ASSUME NEW o \in Problems
    PROVE  /\ OracleCounts(o)[1] > 0 <=> o.solved[1] > 0
           /\ (\E j \in 2 .. Budget + 1 : OracleCounts(o)[j] > 0) <=> o.solved[1] < o.trials
<1> DEFINE level == [j \in 1 .. Budget + 1 |-> IF j > Budget THEN o.trials ELSE o.solved[j]]
<1>1. Budget \in Nat /\ Budget >= 1
  BY ConstantsAssumption
<1>2. o.trials \in Nat /\ o.solved \in [1 .. Budget -> Nat]
      /\ (\A j \in 1 .. Budget : o.solved[j] <= o.trials)
      /\ \A j \in 2 .. Budget : o.solved[j - 1] <= o.solved[j]
  BY <1>1 DEF Problems, IsObservation
<1>3. /\ OracleCounts(o)[1] = level[1]
      /\ \A j \in 2 .. Budget + 1 : OracleCounts(o)[j] = level[j] - level[j - 1]
  <2>1. OracleCounts(o)[1] = level[1]
    <3>1. 1 \in 1 .. Budget + 1 /\ ~(1 > Budget) /\ o.solved[1] \in Nat
      BY <1>1, <1>2
    <3>2. OracleCounts(o)[1] = o.solved[1] - 0
      BY <3>1 DEF OracleCounts
    <3>3. level[1] = o.solved[1]
      BY <3>1
    <3> QED
      BY <3>1, <3>2, <3>3
  <2>2. ASSUME NEW j \in 2 .. Budget + 1
        PROVE  OracleCounts(o)[j] = level[j] - level[j - 1]
    <3>1. j \in 1 .. Budget + 1 /\ j # 1 /\ j - 1 \in 1 .. Budget + 1 /\ j - 1 <= Budget
      BY <1>1
    <3>2. OracleCounts(o)[j] = (IF j > Budget THEN o.trials ELSE o.solved[j]) - o.solved[j - 1]
      BY <3>1 DEF OracleCounts
    <3>3. level[j - 1] = o.solved[j - 1]
      BY <1>1, <3>1
    <3> QED
      BY <3>1, <3>2, <3>3
  <2> QED
    BY <2>1, <2>2
<1>4. level \in [1 .. Budget + 1 -> Nat] /\ level[1] = o.solved[1] /\ level[Budget + 1] = o.trials
  BY <1>1, <1>2
<1>5. \A j \in 2 .. Budget + 1 : level[j - 1] <= level[j]
  BY <1>1, <1>2
<1> HIDE DEF level
<1>6. (\E j \in 2 .. Budget + 1 : level[j - 1] < level[j]) <=> level[1] < level[Budget + 1]
  <2>1. Budget + 1 \in Nat \ {0}
    BY <1>1
  <2> QED
    BY <1>4, <1>5, <2>1, RisesSomewhere
<1>7. ASSUME NEW j \in 2 .. Budget + 1
      PROVE  OracleCounts(o)[j] > 0 <=> level[j - 1] < level[j]
  BY <1>1, <1>3, <1>4
<1> QED
  BY <1>3, <1>4, <1>6, <1>7

\* R-DE's condition on the problems read, in terms of their oracle runs.
LEMMA WhenRDEAccepts ==
    ASSUME NEW p \in Processes, IsRun(run[p])
    PROVE  RDEAccepts(Supported(p)) <=> EarlyAndLate(p)
<1>1. Budget \in Nat /\ Budget >= 1
  BY ConstantsAssumption
<1>2. \A o \in Observed(p) :
         /\ OracleCounts(o)[1] > 0 <=> o.solved[1] > 0
         /\ (\E j \in 2 .. Budget + 1 : OracleCounts(o)[j] > 0) <=> o.solved[1] < o.trials
  BY ProblemsAreRead, CategoriesOfAProblem
<1>3. 1 \in Supported(p) <=> \E o \in Observed(p) : o.solved[1] > 0
  BY <1>1, <1>2 DEF Supported
<1>4. (\E j \in 2 .. Budget + 1 : j \in Supported(p)) <=> \E o \in Observed(p) : o.solved[1] < o.trials
  BY <1>1, <1>2 DEF Supported
<1>5. RDEAccepts(Supported(p)) <=> 1 \in Supported(p) /\ \E j \in 2 .. Budget + 1 : j \in Supported(p)
  <2>1. Supported(p) \subseteq 1 .. Budget + 1
    BY DEF Supported
  <2>2. ASSUME NEW j \in 1 .. Budget + 1, j # 1 PROVE j \in 2 .. Budget + 1
    BY <1>1, <2>2
  <2> QED
    BY <2>1, <2>2 DEF RDEAccepts
<1> QED
  BY <1>3, <1>4, <1>5 DEF EarlyAndLate

\* Only R-DE refuses what has been read, and only for that condition.
LEMMA WhatIsAccepted ==
    ASSUME NEW p \in Processes, IsRun(run[p])
    PROVE  Accepts(p) <=> (Kind(p) = "r-de" => EarlyAndLate(p))
BY ProblemsAreRead, ProblemsSuitSG, WhenRDEAccepts DEF Accepts

----------------------------------------------------------------------------
(* Steps                                                                   *)

\* What another process needs is disturbed only by taking its lock, or by
\* writing the fit of its dataset.
LEMMA StageOfOthers ==
    ASSUME NEW q \in Processes, Stage(q),
           pc'[q] = pc[q], run'[q] = run[q],
           pc[q] \in Saves => lock'[Here(q)] = lock[Here(q)],
           pc[q] = "replace predictions" =>
              results'[<<Here(q), Kind(q)>>].fit = results[<<Here(q), Kind(q)>>].fit
    PROVE  Stage(q)'
<1>1. Here(q)' = Here(q) /\ Kind(q)' = Kind(q) /\ Fitted(q)' = Fitted(q)
  BY DEF Here, Kind, Fitted
<1> QED
  BY <1>1 DEF Stage, Saves

\* A run that ends.
LEMMA EndedStage ==
    ASSUME NEW p \in Processes, pc'[p] = "idle"
    PROVE  Stage(p)'
BY DEF Stage, Saves

----------------------------------------------------------------------------
(* The actions                                                             *)

\* A dataset that a run has still to do is one of the datasets.
LEMMA HereIsADataset ==
    ASSUME Types, NEW p \in Processes, run[p].todo # <<>>
    PROVE  /\ Here(p) \in Datasets /\ Tail(run[p].todo) \in Seq(Datasets)
           /\ <<Here(p), Kind(p)>> \in Names
<1>1. run[p].todo \in Seq(Datasets) /\ run[p].kind \in 1 .. 4
  BY DEF Types, IsRun
<1>2. Here(p) \in Datasets /\ Tail(run[p].todo) \in Seq(Datasets)
  BY <1>1 DEF Here
<1> QED
  BY <1>1, <1>2, FourKinds DEF Kind

LEMMA CompileKeeps ==
    ASSUME SaveInv, Compile PROVE SaveInv'
<1>1. export' \in [Datasets -> Rows]
  BY ConstantsAssumption DEF Compile
<1>2. UNCHANGED <<pc, run, lock, results, torn>>
  BY DEF Compile
<1>3. Types'
  BY <1>1, <1>2 DEF SaveInv, RunsInv, Types
<1>4. \A q \in Processes : Stage(q)'
  BY <1>2, StageOfOthers DEF SaveInv, RunsInv
<1>5. PairsAgree'
  BY <1>2 DEF SaveInv, PairsAgree, Here, Kind
<1> QED
  BY <1>3, <1>4, <1>5 DEF SaveInv, RunsInv

\* What is between two files, or was left so, stays: no file is written.
LEMMA PairsKept ==
    ASSUME SaveInv, NEW p \in Processes, results' = results, torn' = torn,
           pc[p] # "replace predictions",
           \A q \in Processes \ {p} : pc'[q] = pc[q] /\ run'[q] = run[q]
    PROVE  PairsAgree'
<1>1. ASSUME NEW q \in Processes, pc[q] = "replace predictions"
      PROVE  pc'[q] = "replace predictions" /\ <<Here(q), Kind(q)>>' = <<Here(q), Kind(q)>>
  BY <1>1 DEF Here, Kind
<1> QED
  BY <1>1 DEF SaveInv, PairsAgree

\* What a step of p that only reads or fits has to show of p itself.
LEMMA ReadKeeps ==
    ASSUME SaveInv, NEW p \in Processes,
           NEW r, IsRun(r), NEW step \in Steps \ Saves,
           pc[p] # "replace predictions",
           run' = [run EXCEPT ![p] = r], Goto(p, step),
           UNCHANGED <<export, lock, results, torn>>,
           step \in {"short", "oracle", "claim"} => r.todo # <<>>,
           step = "oracle" => r.short \in [Seeds -> Outcomes],
           step \in {"fit", "claim"} => r.observed # <<>>
    PROVE  SaveInv'
<1>1. pc' = [pc EXCEPT ![p] = step] /\ pc'[p] = step /\ run'[p] = r
      /\ \A q \in Processes \ {p} : pc'[q] = pc[q] /\ run'[q] = run[q]
  BY DEF SaveInv, RunsInv, Types, Goto
<1>2. Types'
  <2>1. pc' \in [Processes -> Steps]
    BY <1>1 DEF SaveInv, RunsInv, Types
  <2>2. run' = [q \in Processes |-> run'[q]] /\ \A q \in Processes : IsRun(run'[q])
    BY <1>1 DEF SaveInv, RunsInv, Types
  <2> QED
    BY <2>1, <2>2 DEF SaveInv, RunsInv, Types
<1>3. Stage(p)'
  BY <1>1 DEF Stage, Saves
<1>4. \A q \in Processes \ {p} : Stage(q)'
  BY <1>1, StageOfOthers DEF SaveInv, RunsInv
<1>5. PairsAgree'
  BY <1>1, PairsKept
<1> QED
  BY <1>2, <1>3, <1>4, <1>5 DEF SaveInv, RunsInv

\* A run ends without having touched a file.
LEMMA EndKeeps ==
    ASSUME SaveInv, NEW p \in Processes, End(p), pc[p] # "replace predictions",
           UNCHANGED <<export, lock, results, torn>>
    PROVE  SaveInv'
BY ReadKeeps, NothingRead DEF End, Steps, Saves

LEMMA StartKeeps ==
    ASSUME SaveInv, NEW p \in Processes, Start(p) PROVE SaveInv'
<1>1. PICK s \in Selections : run' = [run EXCEPT ![p] = [NoRun EXCEPT !.todo = s]]
  BY DEF Start
<1>2. s \in Seq(Datasets) /\ s # <<>>
  <2>1. PICK n \in 1 .. Cardinality(Datasets) : s \in [1 .. n -> Datasets]
    BY DEF Selections
  <2>2. n \in Nat /\ n >= 1
    BY <2>1, ConstantsAssumption, FS_CardinalityType
  <2>3. s \in Seq(Datasets) /\ Len(s) = n
    BY <2>1, <2>2
  <2> QED
    BY <2>2, <2>3
<1> DEFINE r == [NoRun EXCEPT !.todo = s]
<1>3. IsRun(r) /\ r.todo = s
  BY <1>2, NothingRead DEF NoRun
<1>4. Goto(p, "short") /\ pc[p] = "idle" /\ UNCHANGED <<export, lock, results, torn>>
  BY DEF Start
<1> HIDE DEF r
<1>5. run' = [run EXCEPT ![p] = r]
  BY <1>1 DEF r
<1> QED
  BY <1>2, <1>3, <1>4, <1>5, ReadKeeps DEF Steps, Saves

LEMMA ReadShortKeeps ==
    ASSUME SaveInv, NEW p \in Processes, ReadShort(p) PROVE SaveInv'
<1> DEFINE r == [run[p] EXCEPT !.short = export[Here(p)].short]
<1>1. pc[p] = "short" /\ Goto(p, "oracle") /\ UNCHANGED <<export, lock, results, torn>>
  BY DEF ReadShort
<1>2. run[p].todo # <<>> /\ IsRun(run[p]) /\ Types
  BY <1>1 DEF SaveInv, RunsInv, Stage, Types
<1>3. Here(p) \in Datasets
  BY <1>2, HereIsADataset
<1>4. export[Here(p)].short \in [Seeds -> Outcomes]
  BY <1>2, <1>3 DEF Types, Rows
<1>5. IsRun(r) /\ r.todo = run[p].todo /\ r.short = export[Here(p)].short
  BY <1>2 DEF IsRun, NoRun
<1>6. run' = [run EXCEPT ![p] = r]
  BY <1>2 DEF ReadShort, Types
<1> HIDE DEF r
<1> QED
  BY <1>1, <1>2, <1>4, <1>5, <1>6, ReadKeeps DEF Steps, Saves

LEMMA ReadOracleKeeps ==
    ASSUME SaveInv, NEW p \in Processes, ReadOracle(p) PROVE SaveInv'
<1> DEFINE o == Observe(run[p].short, export[Here(p)].oracle)
           short == o.attempts < MinShort \/ o.trials < MinOracle
           observed == IF short THEN run[p].observed ELSE Append(run[p].observed, <<Here(p), o>>)
           left == Tail(run[p].todo)
           r == [NoRun EXCEPT !.todo = left, !.observed = observed]
<1>1. pc[p] = "oracle" /\ UNCHANGED <<export, lock, results, torn>>
      /\ IF left = <<>> /\ observed = <<>> THEN End(p)
         ELSE /\ run' = [run EXCEPT ![p] = r]
              /\ Goto(p, IF left = <<>> THEN "fit" ELSE "short")
  BY DEF ReadOracle
<1>2. run[p].todo # <<>> /\ run[p].short \in [Seeds -> Outcomes] /\ IsRun(run[p]) /\ Types
  BY <1>1 DEF SaveInv, RunsInv, Stage, Types
<1>3. Here(p) \in Datasets /\ left \in Seq(Datasets)
  BY <1>2, HereIsADataset
<1>4. export[Here(p)].oracle \in [Seeds -> [1 .. Budget -> Outcomes]]
  BY <1>2, <1>3 DEF Types, Rows
<1>5. short \/ o \in Problems
  <2>1. o.attempts \in Nat /\ o.trials \in Nat
    <3>1. {s \in Seeds : run[p].short[s] # "missing"} \subseteq Seeds
          /\ CompleteRuns(export[Here(p)].oracle) \subseteq Seeds
      BY DEF CompleteRuns
    <3>2. \A S \in SUBSET Seeds : Cardinality(S) \in Nat
      BY ConstantsAssumption, FS_Subset, FS_CardinalityType
    <3> QED
      BY <3>1, <3>2 DEF Observe
  <2>2. ASSUME ~short PROVE o \in Problems
    <3>1. o.attempts >= MinShort /\ o.trials >= MinOracle
      BY <2>1, <2>2, ConstantsAssumption
    <3> QED
      BY <1>2, <1>4, <3>1, EnoughIsAProblem
  <2> QED
    BY <2>2
<1>6. observed \in Seq(Datasets \X Problems)
  <2> DEFINE P == Datasets \X Problems
  <2>1. run[p].observed \in Seq(P)
    BY <1>2 DEF IsRun
  <2>2. short \/ <<Here(p), o>> \in P
    BY <1>3, <1>5
  <2> HIDE DEF P, o, short
  <2>3. observed \in Seq(P)
    BY <2>1, <2>2
  <2> QED
    BY <2>3 DEF P
<1> HIDE DEF o, short, observed, left
<1>7. IsRun(r) /\ r.todo = left /\ r.observed = observed
  BY <1>3, <1>6, NothingRead DEF NoRun
<1>8. CASE left = <<>> /\ observed = <<>>
  BY <1>1, <1>8, EndKeeps
<1>9. CASE left = <<>> /\ observed # <<>>
  <2>1. run' = [run EXCEPT ![p] = r] /\ Goto(p, "fit")
    BY <1>1, <1>9
  <2> HIDE DEF r
  <2> QED
    BY <1>1, <1>7, <1>9, <2>1, ReadKeeps DEF Steps, Saves
<1>10. CASE left # <<>>
  <2>1. run' = [run EXCEPT ![p] = r] /\ Goto(p, "short")
    BY <1>1, <1>10
  <2> HIDE DEF r
  <2> QED
    BY <1>1, <1>7, <1>10, <2>1, ReadKeeps DEF Steps, Saves
<1> QED
  BY <1>8, <1>9, <1>10

LEMMA FitKeeps ==
    ASSUME SaveInv, NEW p \in Processes, Fit(p) PROVE SaveInv'
<1>1. PICK prior \in Priors(p) :
        run' = [run EXCEPT ![p].prior = prior,
                           ![p].predictions = [o \in Observed(p) |-> Predict(Kind(p), prior, o)],
                           ![p].todo = [i \in DOMAIN run[p].observed |-> run[p].observed[i][1]]]
  BY DEF Fit
<1> DEFINE todo == [i \in DOMAIN run[p].observed |-> run[p].observed[i][1]]
           predictions == [o \in Observed(p) |-> Predict(Kind(p), prior, o)]
           r == [run[p] EXCEPT !.prior = prior, !.predictions = predictions, !.todo = todo]
<1>2. pc[p] = "fit" /\ Goto(p, "claim") /\ UNCHANGED <<export, lock, results, torn>>
  BY DEF Fit
<1>3. run[p].observed # <<>> /\ IsRun(run[p]) /\ Types
  BY <1>2 DEF SaveInv, RunsInv, Stage, Types
<1>4. todo \in Seq(Datasets) /\ todo # <<>>
  <2> DEFINE P == Problems
  <2>1. run[p].observed \in Seq(Datasets \X P)
    BY <1>3 DEF IsRun
  <2> HIDE DEF P
  <2>2. DOMAIN run[p].observed = 1 .. Len(run[p].observed)
        /\ Len(run[p].observed) \in Nat /\ Len(run[p].observed) >= 1
        /\ \A i \in 1 .. Len(run[p].observed) : run[p].observed[i][1] \in Datasets
    BY <1>3, <2>1
  <2>3. todo \in [1 .. Len(run[p].observed) -> Datasets]
    BY <2>2
  <2>4. todo \in Seq(Datasets) /\ Len(todo) >= 1
    BY <2>2, <2>3
  <2> QED
    BY <2>4
<1> HIDE DEF todo, predictions
<1>5. IsRun(r) /\ r.todo = todo /\ r.observed = run[p].observed
  BY <1>3, <1>4 DEF IsRun, NoRun
<1>6. run' = [run EXCEPT ![p] = r]
  BY <1>1, <1>3 DEF Types, todo, predictions
<1> HIDE DEF r
<1> QED
  BY <1>2, <1>3, <1>4, <1>5, <1>6, ReadKeeps DEF Steps, Saves

LEMMA RefuseKeeps ==
    ASSUME SaveInv, NEW p \in Processes, Refuse(p) PROVE SaveInv'
BY EndKeeps DEF Refuse

\* The lock is free, so no other run is between the two files of this dataset.
LEMMA ClaimKeeps ==
    ASSUME SaveInv, NEW p \in Processes, Claim(p) PROVE SaveInv'
<1>1. pc[p] = "claim" /\ UNCHANGED <<export, results, torn>>
  BY DEF Claim
<1>2. CASE lock[Here(p)] # None
  <2>1. End(p) /\ UNCHANGED lock
    BY <1>2 DEF Claim
  <2> QED
    BY <1>1, <2>1, EndKeeps
<1>3. CASE lock[Here(p)] = None
  <2>1. lock' = [lock EXCEPT ![Here(p)] = p] /\ pc' = [pc EXCEPT ![p] = "replace fit"] /\ run' = run
    BY <1>3 DEF Claim, Goto
  <2>2. Types /\ Stage(p) /\ run[p].todo # <<>> /\ run[p].observed # <<>> /\ Here(p) \in Datasets
    BY <1>1, HereIsADataset DEF SaveInv, RunsInv, Stage
  <2>3. pc'[p] = "replace fit" /\ (\A q \in Processes \ {p} : pc'[q] = pc[q]) /\ lock'[Here(p)] = p
        /\ Here(p)' = Here(p)
    BY <2>1, <2>2 DEF Types, Here
  <2>4. Types'
    BY <1>1, <2>1, <2>2 DEF Types, Steps, Saves
  <2>5. Stage(p)'
    BY <2>1, <2>2, <2>3 DEF Stage, Saves
  <2>6. ASSUME NEW q \in Processes \ {p} PROVE Stage(q)'
    <3>1. ASSUME pc[q] \in Saves PROVE lock'[Here(q)] = lock[Here(q)]
      <4>1. lock[Here(q)] = q /\ q # None /\ Stage(q) /\ run[q].todo # <<>>
        BY <3>1, ConstantsAssumption DEF SaveInv, RunsInv, Stage
      <4>2. Here(q) # Here(p) /\ Here(q) \in Datasets
        BY <1>3, <2>2, <4>1, HereIsADataset
      <4> QED
        BY <2>1, <4>2, <2>2 DEF Types
    <3> QED
      BY <1>1, <2>1, <2>3, <3>1, StageOfOthers DEF SaveInv, RunsInv
  <2>7. PairsAgree'
    BY <1>1, <2>1, <2>3, PairsKept
  <2> QED
    BY <2>4, <2>5, <2>6, <2>7 DEF SaveInv, RunsInv
<1> QED
  BY <1>2, <1>3

\* Two runs that are saving are saving different datasets.
LEMMA SavesAreApart ==
    ASSUME RunsInv, NEW p \in Processes, NEW q \in Processes \ {p},
           pc[p] \in Saves, pc[q] \in Saves
    PROVE  Here(p) # Here(q)
BY DEF RunsInv, Stage

LEMMA ReplaceFitKeeps ==
    ASSUME SaveInv, NEW p \in Processes, ReplaceFit(p) PROVE SaveInv'
<1> DEFINE here == <<Here(p), Kind(p)>>
<1>1. pc[p] = "replace fit" /\ UNCHANGED <<export, run, lock, torn>>
      /\ results' = [results EXCEPT ![here].fit = Fitted(p)]
      /\ pc' = [pc EXCEPT ![p] = "replace predictions"]
  BY DEF ReplaceFit, Goto
<1>2. Types /\ Stage(p) /\ RunsInv
  BY DEF SaveInv, RunsInv
<1>3. run[p].todo # <<>> /\ run[p].observed # <<>> /\ lock[Here(p)] = p
  BY <1>1, <1>2 DEF Stage, Saves
<1>4. here \in Names
  BY <1>2, <1>3, HereIsADataset
<1> HIDE DEF here
<1>5. /\ results'[here].fit = Fitted(p)
      /\ DOMAIN results'[here] = {"fit", "predictions"}
      /\ \A x \in Names \ {here} : results'[x] = results[x]
  BY <1>1, <1>2, <1>4 DEF Types
<1>6. pc'[p] = "replace predictions" /\ \A q \in Processes \ {p} : pc'[q] = pc[q]
  BY <1>1, <1>2 DEF Types
<1>7. Here(p)' = Here(p) /\ Kind(p)' = Kind(p) /\ Fitted(p)' = Fitted(p)
  BY <1>1 DEF Here, Kind, Fitted
<1>8. Types'
  <2>1. pc' \in [Processes -> Steps]
    BY <1>1, <1>2 DEF Types, Steps, Saves
  <2>2. results' = [x \in Names |-> results'[x]]
        /\ \A x \in Names : DOMAIN results'[x] = {"fit", "predictions"}
    BY <1>1, <1>2, <1>5 DEF Types
  <2> QED
    BY <1>1, <1>2, <2>1, <2>2 DEF Types
<1>9. Stage(p)'
  <2>1. results'[<<Here(p), Kind(p)>>'].fit = Fitted(p)'
    BY <1>5, <1>7 DEF here
  <2> QED
    BY <1>1, <1>3, <1>6, <1>7, <2>1 DEF Stage, Saves
<1>10. ASSUME NEW q \in Processes \ {p} PROVE Stage(q)'
  <2>1. ASSUME pc[q] = "replace predictions"
        PROVE  results'[<<Here(q), Kind(q)>>].fit = results[<<Here(q), Kind(q)>>].fit
    <3>1. Stage(q) /\ run[q].todo # <<>>
      BY <1>2, <2>1 DEF RunsInv, Stage, Saves
    <3>2. <<Here(q), Kind(q)>> \in Names
      BY <1>2, <3>1, HereIsADataset
    <3>3. Here(p) # Here(q)
      BY <1>1, <1>2, <2>1, SavesAreApart DEF Saves
    <3> QED
      BY <1>5, <3>2, <3>3 DEF here
  <2> QED
    BY <1>1, <1>2, <1>6, <2>1, StageOfOthers DEF RunsInv
<1>11. PairsAgree'
  <2>1. DOMAIN results = Names /\ DOMAIN results' = Names
    BY <1>2, <1>8 DEF Types
  <2>2. pc'[p] = "replace predictions" /\ <<Here(p), Kind(p)>>' = here
    BY <1>6, <1>7 DEF here
  <2>3. ASSUME NEW q \in Processes, pc[q] = "replace predictions"
        PROVE  pc'[q] = "replace predictions" /\ <<Here(q), Kind(q)>>' = <<Here(q), Kind(q)>>
    BY <1>1, <1>6, <2>3 DEF Here, Kind
  <2>4. ASSUME NEW x \in Names \ {here}
        PROVE  \/ results'[x].fit = results'[x].predictions
               \/ x \in torn'
               \/ \E q \in Processes : pc'[q] = "replace predictions" /\ <<Here(q), Kind(q)>>' = x
    <3>1. CASE results[x].fit = results[x].predictions \/ x \in torn
      BY <1>1, <1>5, <3>1
    <3>2. CASE \E q \in Processes : pc[q] = "replace predictions" /\ <<Here(q), Kind(q)>> = x
      BY <2>3, <3>2
    <3> QED
      BY <2>1, <3>1, <3>2 DEF SaveInv, PairsAgree
  <2> QED
    BY <2>1, <2>2, <2>4 DEF PairsAgree
<1> QED
  BY <1>8, <1>9, <1>10, <1>11 DEF SaveInv, RunsInv

\* Where p goes on after a save.
LEMMA AfterASave ==
    ASSUME RunsInv, NEW p \in Processes, ReplacePredictions(p)
    PROVE  \E r, step :
              /\ run' = [run EXCEPT ![p] = r] /\ pc' = [pc EXCEPT ![p] = step]
              /\ IsRun(r) /\ step \in Steps \ (Saves \cup {"oracle"})
              /\ step \in {"short", "claim"} => r.todo # <<>>
              /\ step \in {"fit", "claim"} => r.observed # <<>>
<1>1. pc[p] = "replace predictions"
  BY DEF ReplacePredictions
<1>2. Types /\ Stage(p) /\ IsRun(run[p]) /\ run[p].todo # <<>> /\ run[p].observed # <<>>
  BY <1>1 DEF RunsInv, Types, Stage, Saves
<1>3. run[p].todo \in Seq(Datasets) /\ Tail(run[p].todo) \in Seq(Datasets)
      /\ Len(Tail(run[p].todo)) = Len(run[p].todo) - 1
  BY <1>2 DEF IsRun
<1>4. CASE Len(run[p].todo) > 1
  <2> DEFINE r == [run[p] EXCEPT !.todo = Tail(run[p].todo)]
  <2>1. run' = [run EXCEPT ![p] = r] /\ pc' = [pc EXCEPT ![p] = "claim"]
    BY <1>2, <1>4 DEF ReplacePredictions, Goto, Types
  <2>2. IsRun(r) /\ r.todo = Tail(run[p].todo) /\ r.observed = run[p].observed
    BY <1>2, <1>3 DEF IsRun, NoRun
  <2>3. r.todo # <<>>
    <3> HIDE DEF r
    <3>1. Len(r.todo) >= 1
      BY <1>3, <1>4, <2>2
    <3>2. Len(<<>>) = 0
      OBVIOUS
    <3> QED
      BY <3>1, <3>2
  <2> HIDE DEF r
  <2> QED
    BY <1>2, <2>1, <2>2, <2>3 DEF Steps, Saves
<1>5. CASE ~(Len(run[p].todo) > 1) /\ run[p].kind < Len(Kinds)
  <2> DEFINE r == [NoRun EXCEPT !.observed = run[p].observed, !.kind = run[p].kind + 1]
  <2>1. run' = [run EXCEPT ![p] = r] /\ pc' = [pc EXCEPT ![p] = "fit"]
    BY <1>5 DEF ReplacePredictions, Goto
  <2>2. IsRun(r)
    <3>1. run[p].observed \in Seq(Datasets \X Problems) /\ run[p].kind + 1 \in 1 .. 4
      BY <1>2, <1>5, FourKinds DEF IsRun
    <3> QED
      BY <3>1, NothingRead
  <2>3. r.observed = run[p].observed
    BY DEF NoRun
  <2> HIDE DEF r
  <2> QED
    BY <1>2, <2>1, <2>2, <2>3 DEF Steps, Saves
<1>6. CASE ~(Len(run[p].todo) > 1) /\ ~(run[p].kind < Len(Kinds))
  <2>1. run' = [run EXCEPT ![p] = NoRun] /\ pc' = [pc EXCEPT ![p] = "idle"]
    BY <1>6 DEF ReplacePredictions, End, Goto
  <2>2. IsRun(NoRun) /\ "idle" \in Steps \ (Saves \cup {"oracle"})
    BY NothingRead DEF Steps, Saves
  <2>3. "idle" \notin {"short", "claim"} /\ "idle" \notin {"fit", "claim"}
    OBVIOUS
  <2> WITNESS NoRun, "idle"
  <2> QED
    BY <2>1, <2>2, <2>3, Zenon
<1> QED
  BY <1>4, <1>5, <1>6

\* The second file is computed from the parameters that the first one holds.
LEMMA ReplacePredictionsKeeps ==
    ASSUME SaveInv, NEW p \in Processes, ReplacePredictions(p) PROVE SaveInv'
<1> DEFINE here == <<Here(p), Kind(p)>>
<1>1. pc[p] = "replace predictions" /\ UNCHANGED export
      /\ results' = [results EXCEPT ![here].predictions = Fitted(p)]
      /\ torn' = torn \ {here} /\ lock' = [lock EXCEPT ![Here(p)] = None]
  BY DEF ReplacePredictions
<1>2. Types /\ Stage(p) /\ RunsInv
  BY DEF SaveInv, RunsInv
<1>3. run[p].todo # <<>> /\ results[here].fit = Fitted(p)
  BY <1>1, <1>2 DEF Stage, Saves
<1>4. here \in Names /\ Here(p) \in Datasets
  BY <1>2, <1>3, HereIsADataset
<1>5. PICK r, step :
        /\ run' = [run EXCEPT ![p] = r] /\ pc' = [pc EXCEPT ![p] = step]
        /\ IsRun(r) /\ step \in Steps \ (Saves \cup {"oracle"})
        /\ step \in {"short", "claim"} => r.todo # <<>>
        /\ step \in {"fit", "claim"} => r.observed # <<>>
  BY <1>2, AfterASave
<1> HIDE DEF here
<1>6. /\ results'[here].fit = Fitted(p) /\ results'[here].predictions = Fitted(p)
      /\ DOMAIN results'[here] = {"fit", "predictions"}
      /\ \A x \in Names \ {here} : results'[x] = results[x]
      /\ \A x \in Names : results'[x].fit = results[x].fit
  BY <1>1, <1>2, <1>3, <1>4 DEF Types
<1>7. pc'[p] = step /\ run'[p] = r
      /\ \A q \in Processes \ {p} : pc'[q] = pc[q] /\ run'[q] = run[q]
  BY <1>2, <1>5 DEF Types
<1>8. Types'
  <2>1. pc' \in [Processes -> Steps] /\ lock' \in [Datasets -> Processes \cup {None}]
    BY <1>1, <1>2, <1>5 DEF Types
  <2>2. results' = [x \in Names |-> results'[x]]
        /\ \A x \in Names : DOMAIN results'[x] = {"fit", "predictions"}
    BY <1>1, <1>2, <1>6 DEF Types
  <2>3. run' = [q \in Processes |-> run'[q]] /\ \A q \in Processes : IsRun(run'[q])
    BY <1>2, <1>5, <1>7 DEF Types
  <2> QED
    BY <1>1, <1>2, <2>1, <2>2, <2>3 DEF Types
<1>9. Stage(p)'
  BY <1>5, <1>7 DEF Stage, Saves, Steps
<1>10. ASSUME NEW q \in Processes \ {p} PROVE Stage(q)'
  <2>1. ASSUME pc[q] \in Saves
        PROVE  /\ lock'[Here(q)] = lock[Here(q)]
               /\ results'[<<Here(q), Kind(q)>>].fit = results[<<Here(q), Kind(q)>>].fit
    <3>1. run[q].todo # <<>>
      BY <1>2, <2>1 DEF RunsInv, Stage
    <3>2. <<Here(q), Kind(q)>> \in Names /\ Here(q) \in Datasets
      BY <1>2, <3>1, HereIsADataset
    <3>3. Here(p) # Here(q)
      BY <1>1, <1>2, <2>1, SavesAreApart DEF Saves
    <3> QED
      BY <1>1, <1>2, <1>6, <3>2, <3>3 DEF Types
  <2> QED
    BY <1>2, <1>7, <2>1, StageOfOthers DEF RunsInv, Saves
<1>11. PairsAgree'
  <2>1. DOMAIN results = Names /\ DOMAIN results' = Names
    BY <1>2, <1>8 DEF Types
  <2>2. ASSUME NEW q \in Processes \ {p}, pc[q] = "replace predictions"
        PROVE  pc'[q] = "replace predictions" /\ <<Here(q), Kind(q)>>' = <<Here(q), Kind(q)>>
    BY <1>7, <2>2 DEF Here, Kind
  <2>3. ASSUME NEW x \in Names \ {here}
        PROVE  \/ results'[x].fit = results'[x].predictions
               \/ x \in torn'
               \/ \E q \in Processes : pc'[q] = "replace predictions" /\ <<Here(q), Kind(q)>>' = x
    <3>1. CASE results[x].fit = results[x].predictions \/ x \in torn
      BY <1>1, <1>6, <3>1
    <3>2. CASE \E q \in Processes : pc[q] = "replace predictions" /\ <<Here(q), Kind(q)>> = x
      <4>1. PICK q \in Processes : pc[q] = "replace predictions" /\ <<Here(q), Kind(q)>> = x
        BY <3>2
      <4>2. q # p
        BY <4>1 DEF here
      <4> QED
        BY <2>2, <4>1, <4>2
    <3> QED
      BY <2>1, <3>1, <3>2 DEF SaveInv, PairsAgree
  <2> QED
    BY <1>6, <2>1, <2>3 DEF PairsAgree
<1> QED
  BY <1>8, <1>9, <1>10, <1>11 DEF SaveInv, RunsInv

\* A run that breaks off between the two files leaves them marked as torn.
LEMMA BreakOffKeeps ==
    ASSUME SaveInv, NEW p \in Processes, BreakOff(p) PROVE SaveInv'
<1>1. /\ lock' = [d \in Datasets |-> IF lock[d] = p THEN None ELSE lock[d]]
      /\ torn' = IF pc[p] = "replace predictions" THEN torn \cup {<<Here(p), Kind(p)>>} ELSE torn
      /\ pc' = [pc EXCEPT ![p] = "idle"] /\ run' = [run EXCEPT ![p] = NoRun]
      /\ UNCHANGED <<export, results>>
  BY DEF BreakOff, End, Goto
<1>2. Types /\ RunsInv
  BY DEF SaveInv, RunsInv
<1>3. pc'[p] = "idle" /\ \A q \in Processes \ {p} : pc'[q] = pc[q] /\ run'[q] = run[q]
  BY <1>1, <1>2 DEF Types
<1>4. Types'
  <2>1. pc' \in [Processes -> Steps] /\ lock' \in [Datasets -> Processes \cup {None}]
    BY <1>1, <1>2 DEF Types, Steps
  <2>2. run' = [q \in Processes |-> run'[q]] /\ \A q \in Processes : IsRun(run'[q])
    BY <1>1, <1>2, NothingRead DEF Types
  <2> QED
    BY <1>1, <1>2, <2>1, <2>2 DEF Types
<1>5. ASSUME NEW q \in Processes \ {p} PROVE Stage(q)'
  <2>1. ASSUME pc[q] \in Saves PROVE lock'[Here(q)] = lock[Here(q)]
    <3>1. run[q].todo # <<>> /\ lock[Here(q)] = q
      BY <1>2, <2>1 DEF RunsInv, Stage
    <3>2. Here(q) \in Datasets
      BY <1>2, <3>1, HereIsADataset
    <3> QED
      BY <1>1, <3>1, <3>2
  <2> QED
    BY <1>1, <1>2, <1>3, <2>1, StageOfOthers DEF RunsInv
<1>6. Stage(p)'
  BY <1>3, EndedStage
<1>7. PairsAgree'
  <2>1. ASSUME NEW q \in Processes, pc[q] = "replace predictions"
        PROVE  \/ <<Here(q), Kind(q)>> \in torn'
               \/ pc'[q] = "replace predictions" /\ <<Here(q), Kind(q)>>' = <<Here(q), Kind(q)>>
    BY <1>1, <1>3, <2>1 DEF Here, Kind
  <2>2. torn \subseteq torn' /\ results' = results
    BY <1>1
  <2> QED
    BY <2>1, <2>2 DEF SaveInv, PairsAgree
<1> QED
  BY <1>4, <1>5, <1>6, <1>7 DEF SaveInv, RunsInv

----------------------------------------------------------------------------
(* Theorems                                                                *)

\* What runs have read, hold locked and have written, at every step.
THEOREM SaveInvariance == Spec => []SaveInv
<1>1. Init => SaveInv
  <2> SUFFICES ASSUME Init PROVE SaveInv
    OBVIOUS
  <2>1. PICK s \in Starts : export = s.export
    BY DEF Init
  <2>2. export \in [Datasets -> Rows]
    <3>1. s.export \in Exports
      BY ConstantsAssumption
    <3> QED
      BY <2>1, <3>1, ConstantsAssumption
  <2>3. run = [p \in Processes |-> run[p]] /\ \A p \in Processes : IsRun(run[p])
    BY NothingRead DEF Init
  <2>4. results = [x \in Names |-> NoFiles] /\ DOMAIN NoFiles = {"fit", "predictions"}
    BY DEF Init, Names, NoFiles
  <2>5. Types
    BY <2>2, <2>3, <2>4 DEF Init, Types, Steps
  <2>6. \A p \in Processes : Stage(p)
    BY DEF Init, Stage, Saves
  <2>7. PairsAgree
    BY <2>4 DEF PairsAgree, NoFiles
  <2> QED
    BY <2>5, <2>6, <2>7 DEF SaveInv, RunsInv
<1>2. SaveInv /\ [Next]_vars => SaveInv'
  <2> SUFFICES ASSUME SaveInv, [Next]_vars PROVE SaveInv'
    OBVIOUS
  <2>1. CASE Compile
    BY <2>1, CompileKeeps
  <2>2. ASSUME NEW p \in Processes, Step(p) PROVE SaveInv'
    BY <2>2, StartKeeps, ReadShortKeeps, ReadOracleKeeps, FitKeeps, RefuseKeeps, ClaimKeeps,
       ReplaceFitKeeps, ReplacePredictionsKeeps, BreakOffKeeps DEF Step
  <2>3. CASE UNCHANGED vars
    <3>1. UNCHANGED <<export, pc, run, lock, results, torn>>
      BY <2>3 DEF vars
    <3>2. Types'
      BY <3>1 DEF SaveInv, RunsInv, Types
    <3>3. \A q \in Processes : Stage(q)'
      BY <3>1, StageOfOthers DEF SaveInv, RunsInv
    <3>4. PairsAgree'
      BY <3>1 DEF SaveInv, PairsAgree, Here, Kind
    <3> QED
      BY <3>2, <3>3, <3>4 DEF SaveInv, RunsInv
  <2> QED
    BY <2>1, <2>2, <2>3 DEF Next
<1> QED
  BY <1>1, <1>2, PTL DEF Spec

\* Unless a save is under way or was broken off between its two files, the
\* predictions on disk are those of the parameters beside them, however many
\* runs go on at a time (FrameworkRunner._save, run_lock.py).
THEOREM FilesAgree == Spec => []PairsAgree
<1>1. SaveInv => PairsAgree
  BY DEF SaveInv
<1> QED
  BY <1>1, SaveInvariance, PTL

\* SG, DE and R-SG accept whatever problems DataLoader passes on: they satisfy
\* Observation's checks and have the short runs that SG draws.  R-DE refuses a
\* selection exactly when none of its oracle runs completed in the first block,
\* or all did (RegularizedDiscoveryExecution._fit_prior), whatever the audits.
THEOREM LoadedProblemsAreAccepted == Spec => []FitsAreAccepted
<1>1. SaveInv => FitsAreAccepted
  BY WhatIsAccepted DEF SaveInv, RunsInv, Types, FitsAreAccepted
<1> QED
  BY <1>1, SaveInvariance, PTL

=============================================================================
