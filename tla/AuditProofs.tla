---------------------------- MODULE AuditProofs ----------------------------
(***************************************************************************)
(* Proofs about Audit, for every number of launchers, seeds and            *)
(* checkpoints: records stay consistent, verdicts are kept and belong to   *)
(* the judge they are attributed to, no seed is judged twice at a time,    *)
(* every seed is counted once, and what is reported is in the export.      *)
(***************************************************************************)
EXTENDS Audit, FiniteSetTheorems, WellFoundedInduction, TLAPS

----------------------------------------------------------------------------
(* Facts about the operators                                               *)

\* A nonempty set of numbers has a least one: the initial segments of its
\* members are finite, and strict inclusion is well-founded on finite sets.
LEMMA MinExists ==
  ASSUME NEW S \in SUBSET Nat, S # {}
  PROVE  Min(S) \in S
<1> DEFINE R == StrictSubsetOrdering(Nat)
           T == {0 .. x : x \in S}
<1>1. IsWellFoundedOn(R, FiniteSubsetsOf(Nat))
  BY FS_StrictSubsetOrderingWellFounded
<1>2. T \subseteq FiniteSubsetsOf(Nat) /\ T # {}
  <2>1. ASSUME NEW x \in S PROVE 0 .. x \in FiniteSubsetsOf(Nat)
    <3>1. IsFiniteSet(0 .. x)
      BY FS_Interval
    <3>2. 0 .. x \subseteq Nat
      OBVIOUS
    <3> QED BY <3>1, <3>2 DEF FiniteSubsetsOf
  <2> QED BY <2>1
<1>3. PICK t \in T : \A u \in T : ~ (<<u, t>> \in R)
  <2> HIDE DEF R, T
  <2> QED BY <1>1, <1>2, WFMin
<1>4. PICK x \in S : t = 0 .. x
  OBVIOUS
<1>5. ASSUME NEW y \in S PROVE x =< y
  <2>1. SUFFICES ASSUME y < x PROVE FALSE
    OBVIOUS
  <2>2. 0 .. y \in T /\ 0 .. y \subseteq 0 .. x /\ x \notin 0 .. y /\ x \in 0 .. x
    BY <2>1
  <2>3. <<0 .. y, t>> \in R
    BY <1>4, <2>2 DEF StrictSubsetOrdering
  <2> QED BY <1>3, <2>2, <2>3
<1> QED BY <1>5 DEF Min

\* The domains of the solutions.
LEMMA Domains ==
  /\ Seeds = 1 .. Len(Solutions) /\ Len(Solutions) \in Nat
  /\ \A s \in Seeds : /\ Labels(s) \subseteq Nat
                      /\ \A i \in Labels(s) : Solutions[s][i] \in Texts
BY SolutionsAssumption DEF Seeds, Labels

\* What Reuse puts at one checkpoint and stage.
LEMMA ReuseAt ==
  ASSUME NEW s \in Seeds, NEW rec \in Records(s), NEW i \in Labels(s), NEW kind \in Kinds
  PROVE  /\ Solutions[s][i] = Blank => Reuse(s, rec)[i][kind] = Skipped(kind)
         /\ Solutions[s][i] # Blank =>
              /\ rec[i][kind] # None => Reuse(s, rec)[i][kind] = rec[i][kind]
              /\ \/ /\ Reuse(s, rec)[i][kind] = None
                    /\ \A j \in Labels(s) : Solutions[s][j] = Solutions[s][i] => rec[j][kind] = None
                 \/ \E j \in Labels(s) : /\ Solutions[s][j] = Solutions[s][i]
                                         /\ rec[j][kind] # None
                                         /\ Reuse(s, rec)[i][kind] = rec[j][kind]
<1> DEFINE saved == {j \in Labels(s) : Solutions[s][j] = Solutions[s][i] /\ rec[j][kind] # None}
<1>1. Reuse(s, rec)[i][kind] =
        IF Solutions[s][i] = Blank THEN Skipped(kind)
        ELSE IF rec[i][kind] # None \/ saved = {} THEN rec[i][kind]
        ELSE rec[Min(saved)][kind]
  BY DEF Reuse
<1>2. saved # {} => Min(saved) \in saved
  <2>1. saved \in SUBSET Nat
    BY Domains
  <2> HIDE DEF saved
  <2> QED BY <2>1, MinExists
<1> QED BY <1>1, <1>2

Agrees(s, rec) ==
    \A i, j \in Labels(s), kind \in Kinds :
        Solutions[s][i] = Solutions[s][j] /\ rec[i][kind] # None /\ rec[j][kind] # None =>
            rec[i][kind] = rec[j][kind]

InSequence(s, rec) ==
    \A i \in Labels(s) : rec[i]["step_recognition"] # None => rec[i]["correctness"] # None

LEMMA SkippedType == ASSUME NEW kind \in Kinds
                     PROVE  /\ Skipped(kind) \in Verdicts /\ Skipped(kind) # None
                            /\ Skipped(kind).text = Blank /\ Skipped(kind).kind = kind
                            /\ Skipped(kind).judge = Skipped(kind).by
BY SolutionsAssumption, NoneAssumption DEF Skipped, Verdict, Verdicts

\* Reuse makes a consistent record of one whose verdicts for a text agree.
LEMMA ReuseIsConsistent ==
  ASSUME NEW s \in Seeds, NEW rec \in Records(s),
         Agrees(s, rec), InSequence(s, rec), Given(s, rec)
  PROVE  /\ Reuse(s, rec) \in Records(s)
         /\ Consistent(s, Reuse(s, rec))
         /\ Settled(s, Reuse(s, rec))
         /\ Given(s, Reuse(s, rec))
         /\ \A i \in Labels(s), kind \in Kinds :
              Solutions[s][i] # Blank /\ rec[i][kind] # None => Reuse(s, rec)[i][kind] = rec[i][kind]
<1> DEFINE r == Reuse(s, rec)
<1>1. /\ DOMAIN r = Labels(s)
      /\ \A i \in Labels(s) : r[i] = [kind \in Kinds |-> r[i][kind]]
  BY DEF Reuse
<1>2. \A i \in Labels(s), kind \in Kinds :
        /\ Solutions[s][i] = Blank => r[i][kind] = Skipped(kind)
        /\ Solutions[s][i] # Blank =>
              /\ rec[i][kind] # None => r[i][kind] = rec[i][kind]
              /\ \/ /\ r[i][kind] = None
                    /\ \A j \in Labels(s) : Solutions[s][j] = Solutions[s][i] => rec[j][kind] = None
                 \/ \E j \in Labels(s) : /\ Solutions[s][j] = Solutions[s][i]
                                         /\ rec[j][kind] # None
                                         /\ r[i][kind] = rec[j][kind]
  <2> HIDE DEF r
  <2> QED BY ReuseAt DEF r
<1>3. r = [i \in Labels(s) |-> r[i]]
  BY DEF Reuse
<1> HIDE DEF r
<1>4. r \in Records(s)
  <2>1. \A i \in Labels(s), kind \in Kinds : r[i][kind] \in Verdicts \cup {None}
    BY <1>2, SkippedType DEF Records
  <2>2. \A i \in Labels(s) : r[i] \in [Kinds -> Verdicts \cup {None}]
    BY <1>1, <2>1
  <2> QED BY <1>3, <2>2 DEF Records
<1>5. \A i, j \in Labels(s), kind \in Kinds :
        Solutions[s][i] = Solutions[s][j] => r[i][kind] = r[j][kind]
  BY <1>2 DEF Agrees
<1>6. \A i, j \in Labels(s) : Solutions[s][i] = Solutions[s][j] => r[i] = r[j]
  BY <1>1, <1>5
<1>7. \A i \in Labels(s) : r[i]["step_recognition"] # None => r[i]["correctness"] # None
  BY <1>2, SkippedType DEF InSequence, Kinds
<1>8. Settled(s, r)
  BY <1>1, <1>2 DEF Settled
<1>9. Given(s, r)
  BY <1>2, SkippedType DEF Given
<1> QED BY <1>2, <1>4, <1>6, <1>7, <1>8, <1>9 DEF Consistent, r

\* A consistent, settled record is one that Reuse leaves alone.
LEMMA ReuseOfSettled ==
  ASSUME NEW s \in Seeds, NEW rec \in Records(s), Consistent(s, rec), Settled(s, rec)
  PROVE  Reuse(s, rec) = rec
<1>1. ASSUME NEW i \in Labels(s), NEW kind \in Kinds
      PROVE  Reuse(s, rec)[i][kind] = rec[i][kind]
  <2>1. CASE Solutions[s][i] = Blank
    <3>1. Reuse(s, rec)[i][kind] = Skipped(kind)
      BY <2>1, ReuseAt
    <3>2. rec[i] = [k \in Kinds |-> Skipped(k)]
      BY <2>1 DEF Settled
    <3>3. rec[i][kind] = Skipped(kind)
      BY <3>2
    <3> QED BY <3>1, <3>3
  <2>2. CASE Solutions[s][i] # Blank
    <3>1. \A j \in Labels(s) : Solutions[s][j] = Solutions[s][i] => rec[j][kind] = rec[i][kind]
      BY DEF Consistent
    <3> QED BY <2>2, <3>1, ReuseAt
  <2> QED BY <2>1, <2>2
<1>2. /\ Reuse(s, rec) = [i \in Labels(s) |-> Reuse(s, rec)[i]]
      /\ \A i \in Labels(s) : Reuse(s, rec)[i] = [kind \in Kinds |-> Reuse(s, rec)[i][kind]]
  BY DEF Reuse
<1>3. /\ rec = [i \in Labels(s) |-> rec[i]]
      /\ \A i \in Labels(s) : rec[i] = [kind \in Kinds |-> rec[i][kind]]
  BY DEF Records
<1> QED BY <1>1, <1>2, <1>3

\* So it is with every record of a run, and what was saved in it stays.
LEMMA ReuseOfRecord ==
  ASSUME NEW s \in Seeds, NEW rec \in Records(s),
         Consistent(s, rec), Given(s, rec), rec = NoVerdicts(s) \/ Settled(s, rec)
  PROVE  /\ Reuse(s, rec) \in Records(s)
         /\ Consistent(s, Reuse(s, rec))
         /\ Settled(s, Reuse(s, rec))
         /\ Given(s, Reuse(s, rec))
         /\ \A i \in Labels(s), kind \in Kinds :
              rec[i][kind] # None => Reuse(s, rec)[i][kind] = rec[i][kind]
<1>1. Agrees(s, rec) /\ InSequence(s, rec)
  BY DEF Agrees, InSequence, Consistent
<1>2. rec = NoVerdicts(s) => \A i \in Labels(s), kind \in Kinds : rec[i][kind] = None
  BY DEF NoVerdicts
<1>3. CASE rec = NoVerdicts(s)
  BY <1>1, <1>2, <1>3, ReuseIsConsistent
<1>4. CASE Settled(s, rec)
  BY <1>1, <1>4, ReuseIsConsistent, ReuseOfSettled
<1> QED BY <1>3, <1>4

\* At most one stage is next, and it is missing.
LEMMA NextIsUnique ==
  ASSUME NEW s \in Seeds, NEW rec, NEW t \in NextStage(s, rec), NEW u \in NextStage(s, rec)
  PROVE  t = u
<1>1. t \in {s} \X Labels(s) \X Kinds /\ u \in {s} \X Labels(s) \X Kinds
  BY DEF NextStage, Missing
<1>2. SUFFICES ASSUME t # u PROVE FALSE
  OBVIOUS
<1>3. Before(t, u) /\ Before(u, t)
  BY <1>2 DEF NextStage
<1>4. t[2] \in Nat /\ u[2] \in Nat
  BY <1>1, Domains
<1>5. t[2] = u[2] /\ t[3] = u[3]
  BY <1>3, <1>4 DEF Before
<1> QED BY <1>1, <1>2, <1>5

LEMMA NextIsMissing ==
  ASSUME NEW s \in Seeds, NEW rec, NEW t \in NextStage(s, rec)
  PROVE  /\ t \in Targets /\ t = <<s, t[2], t[3]>>
         /\ t[2] \in Labels(s) /\ t[3] \in Kinds /\ rec[t[2]][t[3]] = None
         /\ t[3] = "step_recognition" => rec[t[2]]["correctness"] # None
<1>1. t \in {s} \X Labels(s) \X Kinds /\ rec[t[2]][t[3]] = None
  BY DEF NextStage, Missing
<1>2. ASSUME t[3] = "step_recognition", rec[t[2]]["correctness"] = None PROVE FALSE
  <2> DEFINE u == <<s, t[2], "correctness">>
  <2>1. u \in Missing(s, rec) \ {t}
    BY <1>1, <1>2 DEF Missing, Kinds
  <2>2. Before(t, u)
    BY <2>1 DEF NextStage
  <2>3. t[2] \in Nat
    BY <1>1, Domains
  <2> QED BY <1>2, <2>2, <2>3 DEF Before
<1> QED BY <1>1, <1>2 DEF Targets

\* A verdict for the next stage of a settled record leaves one to reuse from.
LEMMA PublishedRecord ==
  ASSUME NEW s \in Seeds, NEW rec \in Records(s), NEW t \in NextStage(s, rec),
         Consistent(s, rec), Settled(s, rec), Given(s, rec),
         NEW v \in Verdicts, v.text = Text(t), v.kind = t[3], v.judge = v.by
  PROVE  LET new == Reuse(s, [rec EXCEPT ![t[2]][t[3]] = v])
         IN  /\ new \in Records(s) /\ Consistent(s, new) /\ Settled(s, new) /\ Given(s, new)
             /\ \A i \in Labels(s), kind \in Kinds :
                  rec[i][kind] # None => new[i][kind] = rec[i][kind]
<1> DEFINE up == [rec EXCEPT ![t[2]][t[3]] = v]
<1>1. /\ t[1] = s /\ t[2] \in Labels(s) /\ t[3] \in Kinds /\ rec[t[2]][t[3]] = None
      /\ t[3] = "step_recognition" => rec[t[2]]["correctness"] # None
  BY NextIsMissing
<1>2. v # None
  BY NoneAssumption
<1>3. up \in Records(s)
  BY <1>1 DEF Records
<1>4. \A i \in Labels(s), kind \in Kinds :
        up[i][kind] = IF i = t[2] /\ kind = t[3] THEN v ELSE rec[i][kind]
  BY <1>1 DEF Records
<1>5. \A i \in Labels(s) : Solutions[s][i] = Solutions[s][t[2]] => rec[i][t[3]] = None
  BY <1>1 DEF Consistent
<1>6. Solutions[s][t[2]] # Blank
  <2>1. SUFFICES ASSUME Solutions[s][t[2]] = Blank PROVE FALSE
    OBVIOUS
  <2>2. rec[t[2]] = [kind \in Kinds |-> Skipped(kind)]
    BY <1>1, <2>1 DEF Settled
  <2> QED BY <1>1, <2>2, SkippedType
<1> HIDE DEF up
<1>7. Agrees(s, up)
  BY <1>1, <1>2, <1>4, <1>5 DEF Agrees, Consistent
<1>8. InSequence(s, up)
  BY <1>1, <1>2, <1>4 DEF InSequence, Consistent, Kinds
<1>9. Given(s, up)
  BY <1>1, <1>4 DEF Given, Text
<1>10. \A i \in Labels(s), kind \in Kinds :
         rec[i][kind] # None => Reuse(s, up)[i][kind] = rec[i][kind]
  <2>1. SUFFICES ASSUME NEW i \in Labels(s), NEW kind \in Kinds, rec[i][kind] # None
                 PROVE  Reuse(s, up)[i][kind] = rec[i][kind]
    OBVIOUS
  <2>2. up[i][kind] = rec[i][kind]
    BY <1>1, <1>4, <2>1
  <2>3. CASE Solutions[s][i] # Blank
    BY <1>3, <2>1, <2>2, <2>3, ReuseAt
  <2>4. CASE Solutions[s][i] = Blank
    <3>1. rec[i] = [k \in Kinds |-> Skipped(k)]
      BY <2>4 DEF Settled
    <3> QED BY <1>3, <2>4, <3>1, ReuseAt
  <2> QED BY <2>3, <2>4
<1>11. /\ Reuse(s, up) \in Records(s) /\ Consistent(s, Reuse(s, up))
       /\ Settled(s, Reuse(s, up)) /\ Given(s, Reuse(s, up))
  BY <1>3, <1>7, <1>8, <1>9, ReuseIsConsistent
<1> QED BY <1>10, <1>11 DEF up

----------------------------------------------------------------------------
(* Types                                                                   *)

LEMMA TypeFrames ==
  ASSUME TypeOK
  PROVE  /\ UNCHANGED seedVars => SeedTypes'
         /\ UNCHANGED stageVars => StageTypes'
         /\ UNCHANGED batchVars => BatchTypes'
         /\ UNCHANGED job => JobTypes'
         /\ UNCHANGED compileVars => CompileTypes'
BY DEF TypeOK, SeedTypes, StageTypes, BatchTypes, JobTypes, CompileTypes,
       seedVars, stageVars, batchVars, compileVars

LEMMA RecordTyped ==
  ASSUME SeedTypes, UNCHANGED <<solver, owner>>, NEW s \in Seeds, NEW rec \in Records(s),
         record' = [record EXCEPT ![s] = rec]
  PROVE  SeedTypes'
BY DEF SeedTypes

LEMMA WorkerTyped ==
  ASSUME StageTypes, NEW t \in Targets, NEW w \in Workers, worker' = [worker EXCEPT ![t] = w],
         faults' \in 0 .. MaxFaults
  PROVE  StageTypes'
BY DEF StageTypes

LEMMA JobTyped ==
  ASSUME JobTypes, NEW p \in Launchers, NEW s \in Seeds, NEW j \in Jobs(s), Becomes(p, s, j)
  PROVE  JobTypes'
BY DEF JobTypes, Becomes

LEMMA BatchTyped ==
  ASSUME BatchTypes, NEW p \in Launchers,
         \/ UNCHANGED pc
         \/ \E step \in {"idle", "prepare", "setup", "run", "compile", "collect", "done"} : Goto(p, step),
         \/ UNCHANGED at
         \/ \E n \in 1 .. Len(Solutions) + 1 : at' = [at EXCEPT ![p] = n],
         \/ UNCHANGED attempts
         \/ \E list \in Seq(Seeds) : attempts' = [attempts EXCEPT ![p] = list],
         \/ UNCHANGED tally
         \/ tally' = [tally EXCEPT ![p] = NoTally]
         \/ \E outcome \in {"completed", "skipped", "failed"} : Tally(p, outcome),
         UNCHANGED launches
  PROVE  BatchTypes'
<1>1. pc' \in [Launchers -> {"idle", "prepare", "setup", "run", "compile", "collect", "done"}]
  BY DEF BatchTypes, Goto
<1>2. at' \in [Launchers -> 1 .. Len(Solutions) + 1]
  BY DEF BatchTypes
<1>3. attempts' \in [Launchers -> Seq(Seeds)]
  BY DEF BatchTypes
<1>4. tally' \in [Launchers -> [completed : Nat, skipped : Nat, failed : Nat]]
  <2>1. CASE tally' = [tally EXCEPT ![p] = NoTally]
    BY <2>1 DEF BatchTypes, NoTally
  <2>2. ASSUME NEW outcome \in {"completed", "skipped", "failed"}, Tally(p, outcome)
        PROVE  tally' \in [Launchers -> [completed : Nat, skipped : Nat, failed : Nat]]
    <3>1. [tally[p] EXCEPT ![outcome] = @ + 1] \in [completed : Nat, skipped : Nat, failed : Nat]
      <4> DEFINE Tallies == [completed : Nat, skipped : Nat, failed : Nat]
      <4>1. tally[p] \in Tallies
        BY DEF BatchTypes
      <4>2. \A c \in Tallies : [c EXCEPT !.completed = @ + 1] \in Tallies
        OBVIOUS
      <4>3. \A c \in Tallies : [c EXCEPT !.skipped = @ + 1] \in Tallies
        OBVIOUS
      <4>4. \A c \in Tallies : [c EXCEPT !.failed = @ + 1] \in Tallies
        OBVIOUS
      <4> QED BY <4>1, <4>2, <4>3, <4>4
    <3> QED BY <2>2, <3>1 DEF BatchTypes, Tally
  <2> QED BY <2>1, <2>2 DEF BatchTypes
<1>5. launches' \in [Launchers -> 0 .. MaxLaunches]
  BY DEF BatchTypes
<1> QED BY <1>1, <1>2, <1>3, <1>4, <1>5 DEF BatchTypes

LEMMA RowsTyped ==
  ASSUME NEW s \in Seeds, NEW rec \in Records(s), NEW row \in CompleteRows(s, rec)
  PROVE  row[1] \in Seeds /\ row[2] \in Labels(row[1]) /\ row[3] \in [Kinds -> Verdicts]
<1>1. PICK i \in Labels(s) : row = <<s, i, rec[i]>> /\ \A kind \in Kinds : rec[i][kind] # None
  BY DEF CompleteRows
<1>2. rec[i] \in [Kinds -> Verdicts \cup {None}]
  BY DEF Records
<1>3. rec[i] \in [Kinds -> Verdicts]
  BY <1>1, <1>2
<1> QED BY <1>1, <1>3

\* What a launcher at work on a seed knows.
LEMMA AtSeed ==
  ASSUME AuditInv, NEW p \in Launchers, NEW s \in Seeds, NEW step \in {"stage", "judge"},
         At(p, s, step)
  PROVE  /\ job[p][s] # NoJob /\ owner[s] = p /\ pc[p] = "run"
         /\ job[p][s].memory = record[s] /\ record[s] \in Records(s)
         /\ Consistent(s, record[s]) /\ Given(s, record[s]) /\ Settled(s, record[s])
         /\ step = "judge" =>
              /\ job[p][s].target \in NextStage(s, record[s])
              /\ job[p][s].target \in Targets
              /\ worker[job[p][s].target].by = p
<1>1. job[p][s] # NoJob
  BY DEF At, NoJob
<1> QED BY <1>1, NextIsMissing
     DEF AuditInv, JobsOwn, At, TypeOK, SeedTypes, RecordsAreConsistent, VerdictsWereGiven

\* The record of a seed that nobody owns, or that its owner has just taken.
LEMMA ReuseHere ==
  ASSUME AuditInv, NEW s \in Seeds
  PROVE  /\ record[s] \in Records(s)
         /\ Reuse(s, record[s]) \in Records(s)
         /\ Consistent(s, Reuse(s, record[s]))
         /\ Settled(s, Reuse(s, record[s]))
         /\ Given(s, Reuse(s, record[s]))
         /\ \A i \in Labels(s), kind \in Kinds :
              record[s][i][kind] # None => Reuse(s, record[s])[i][kind] = record[s][i][kind]
         /\ Settled(s, record[s]) => Reuse(s, record[s]) = record[s]
<1>1. record[s] \in Records(s) /\ Consistent(s, record[s]) /\ Given(s, record[s])
  BY DEF AuditInv, TypeOK, SeedTypes, RecordsAreConsistent, VerdictsWereGiven
<1>2. record[s] = NoVerdicts(s) \/ Settled(s, record[s])
  BY DEF AuditInv, RecordsSettled
<1> QED BY <1>1, <1>2, ReuseOfRecord, ReuseOfSettled

LEMMA PublishHere ==
  ASSUME AuditInv, NEW p \in Launchers, NEW s \in Seeds, Publish(p, s)
  PROVE  \E rec \in Records(s) :
            /\ record' = [record EXCEPT ![s] = rec]
            /\ Becomes(p, s, [step |-> "stage", target |-> None, memory |-> rec])
            /\ Consistent(s, rec) /\ Settled(s, rec) /\ Given(s, rec)
            /\ \A i \in Labels(s), kind \in Kinds :
                 record[s][i][kind] # None => rec[i][kind] = record[s][i][kind]
<1> DEFINE t == job[p][s].target
           v == Verdict(Text(t), t[3], worker[t].by, p)
           rec == Reuse(s, [record[s] EXCEPT ![t[2]][t[3]] = v])
<1>1. At(p, s, "judge")
  BY DEF Publish
<1>2. /\ job[p][s].memory = record[s] /\ record[s] \in Records(s)
      /\ t \in NextStage(s, record[s]) /\ worker[t].by = p
      /\ Consistent(s, record[s]) /\ Given(s, record[s]) /\ Settled(s, record[s])
  BY <1>1, AtSeed
<1>3. t = <<s, t[2], t[3]>> /\ t[2] \in Labels(s) /\ t[3] \in Kinds
  BY <1>2, NextIsMissing
<1>4. v \in Verdicts /\ v.text = Text(t) /\ v.kind = t[3] /\ v.judge = v.by
  <2>1. Text(t) \in Texts
    BY <1>3, Domains DEF Text
  <2> QED BY <1>2, <1>3, <2>1 DEF Verdict, Verdicts
<1>5. /\ record' = [record EXCEPT ![s] = rec]
      /\ Becomes(p, s, [step |-> "stage", target |-> None, memory |-> rec])
  BY <1>2 DEF Publish
<1> HIDE DEF t, v
<1>6. /\ rec \in Records(s) /\ Consistent(s, rec) /\ Settled(s, rec) /\ Given(s, rec)
      /\ \A i \in Labels(s), kind \in Kinds :
           record[s][i][kind] # None => rec[i][kind] = record[s][i][kind]
  BY <1>2, <1>4, PublishedRecord
<1> HIDE DEF rec
<1> QED BY <1>5, <1>6

\* The container of a stage is removed.
LEMMA WorkerRemoved ==
  ASSUME StageTypes, NEW t \in Targets, worker' = [worker EXCEPT ![t] = Gone], UNCHANGED faults
  PROVE  StageTypes'
<1>1. Gone \in Workers
  BY BoundAssumption DEF Gone, Workers
<1> QED BY <1>1 DEF StageTypes

LEMMA TypeStep ==
  ASSUME AuditInv, [Next]_vars
  PROVE  TypeOK'
<1> USE BoundAssumption
<1>t. TypeOK
  BY DEF AuditInv
<1>0. CASE UNCHANGED vars
  BY <1>0, <1>t, TypeFrames DEF TypeOK, vars
<1> DEFINE Frames == /\ UNCHANGED seedVars => SeedTypes'
                     /\ UNCHANGED stageVars => StageTypes'
                     /\ UNCHANGED batchVars => BatchTypes'
                     /\ UNCHANGED job => JobTypes'
                     /\ UNCHANGED compileVars => CompileTypes'
<1>f. Frames
  BY <1>t, TypeFrames
<1>1. ASSUME NEW s \in Seeds, SolverStops(s) PROVE TypeOK'
  <2>1. SeedTypes'
    BY <1>1, <1>t DEF SolverStops, SeedTypes, TypeOK
  <2> QED BY <1>1, <1>f, <2>1
       DEF TypeOK, SolverStops, seedVars, stageVars, batchVars, compileVars
<1>2. ASSUME NEW p \in Launchers, Launch(p) PROVE TypeOK'
  <2>1. BatchTypes'
    BY SMTT(30), <1>2, <1>t, Domains DEF Launch, Goto, NoTally, BatchTypes, TypeOK
  <2> QED BY <1>2, <1>f, <2>1
       DEF TypeOK, Launch, seedVars, stageVars, batchVars, compileVars
<1>3. ASSUME NEW p \in Launchers, PrepareSeed(p) PROVE TypeOK'
  <2>a. at[p] + 1 \in 1 .. Len(Solutions) + 1
    BY <1>3, <1>t, Domains DEF PrepareSeed, TypeOK, BatchTypes
  <2>1. SeedTypes'
    BY <1>3, <1>t, RecordTyped, ReuseHere DEF PrepareSeed, SeedTypes, TypeOK
  <2>2. BatchTypes'
    <3>1. Append(attempts[p], at[p]) \in Seq(Seeds)
      BY <1>3, <1>t DEF PrepareSeed, TypeOK, BatchTypes
    <3>2. /\ UNCHANGED pc /\ UNCHANGED launches
          /\ at' = [at EXCEPT ![p] = at[p] + 1]
          /\ \/ UNCHANGED attempts
             \/ attempts' = [attempts EXCEPT ![p] = Append(attempts[p], at[p])]
          /\ UNCHANGED tally \/ \E outcome \in {"skipped", "failed"} : Tally(p, outcome)
      BY <1>3 DEF PrepareSeed
    <3> QED BY <1>t, <2>a, <3>1, <3>2, BatchTyped DEF TypeOK
  <2> QED BY <1>3, <1>f, <2>1, <2>2
       DEF TypeOK, PrepareSeed, seedVars, stageVars, batchVars, compileVars
<1>4. ASSUME NEW p \in Launchers, PrepareFails(p) PROVE TypeOK'
  <2>a. at[p] + 1 \in 1 .. Len(Solutions) + 1
    BY <1>4, <1>t, Domains DEF PrepareFails, TypeOK, BatchTypes
  <2>1. SeedTypes'
    BY <1>4, <1>t, RecordTyped, ReuseHere DEF PrepareFails, SeedTypes, TypeOK
  <2>2. StageTypes'
    BY <1>4, <1>t DEF PrepareFails, Mishap, StageTypes, TypeOK
  <2>3. BatchTypes'
    BY <1>4, <1>t, <2>a, BatchTyped DEF PrepareFails, TypeOK
  <2> QED BY <1>4, <1>f, <2>1, <2>2, <2>3
       DEF TypeOK, PrepareFails, seedVars, stageVars, batchVars, compileVars
<1>5. ASSUME NEW p \in Launchers, EndPrepare(p) PROVE TypeOK'
  <2>1. BatchTypes'
    BY <1>5, <1>t DEF EndPrepare, Goto, BatchTypes, TypeOK
  <2> QED BY <1>5, <1>f, <2>1
       DEF TypeOK, EndPrepare, seedVars, stageVars, batchVars, compileVars
<1>6. ASSUME NEW p \in Launchers, Setup(p) PROVE TypeOK'
  <2>1. BatchTypes'
    BY <1>6, <1>t DEF Setup, Goto, BatchTypes, TypeOK
  <2> QED BY <1>6, <1>f, <2>1
       DEF TypeOK, Setup, seedVars, stageVars, batchVars, compileVars
<1>7. ASSUME NEW p \in Launchers, Take(p) PROVE TypeOK'
  <2>a. Head(attempts[p]) \in Seeds /\ Tail(attempts[p]) \in Seq(Seeds)
    BY <1>7, <1>t DEF Take, TypeOK, BatchTypes
  <2>1. SeedTypes'
    BY <1>7, <1>t, <2>a, ReuseHere DEF Take, SeedTypes, TypeOK
  <2>2. BatchTypes'
    BY <1>7, <1>t, <2>a, BatchTyped DEF Take, TypeOK, BatchTypes
  <2>3. JobTypes'
    BY <1>7, <1>t, <2>a, JobTyped, ReuseHere DEF Take, Jobs, JobTypes, TypeOK
  <2> QED BY <1>7, <1>f, <2>1, <2>2, <2>3
       DEF TypeOK, Take, seedVars, stageVars, batchVars, compileVars
<1>8. ASSUME NEW p \in Launchers, EndRun(p) PROVE TypeOK'
  <2>1. BatchTypes'
    BY <1>8, <1>t DEF EndRun, Goto, BatchTypes, TypeOK
  <2> QED BY <1>8, <1>f, <2>1
       DEF TypeOK, EndRun, seedVars, stageVars, batchVars, compileVars
<1>9. ASSUME NEW p \in Launchers, BeginCompile(p) PROVE TypeOK'
  <2>1. BatchTypes'
    BY <1>9, <1>t, Domains DEF BeginCompile, Goto, BatchTypes, TypeOK
  <2>2. CompileTypes'
    BY <1>9, <1>t DEF BeginCompile, CompileTypes, TypeOK
  <2> QED BY <1>9, <1>f, <2>1, <2>2
       DEF TypeOK, BeginCompile, seedVars, stageVars, batchVars, compileVars
<1>10. ASSUME NEW p \in Launchers, CollectSeed(p) PROVE TypeOK'
  <2>a. at[p] + 1 \in 1 .. Len(Solutions) + 1
    BY <1>10, <1>t, Domains DEF CollectSeed, TypeOK, BatchTypes
  <2>1. BatchTypes'
    BY <1>10, <1>t, <2>a, BatchTyped DEF CollectSeed, TypeOK
  <2>2. CompileTypes'
    BY <1>10, <1>t, RowsTyped DEF CollectSeed, CompileTypes, SeedTypes, TypeOK
  <2> QED BY <1>10, <1>f, <2>1, <2>2
       DEF TypeOK, CollectSeed, seedVars, stageVars, batchVars, compileVars
<1>11. ASSUME NEW p \in Launchers, PublishExport(p) PROVE TypeOK'
  <2>1. BatchTypes'
    BY <1>11, <1>t DEF PublishExport, Goto, BatchTypes, TypeOK
  <2>2. CompileTypes'
    BY <1>11, <1>t DEF PublishExport, CompileTypes, TypeOK
  <2> QED BY <1>11, <1>f, <2>1, <2>2
       DEF TypeOK, PublishExport, seedVars, stageVars, batchVars, compileVars
<1>12. ASSUME NEW p \in Launchers, LaunchFails(p) PROVE TypeOK'
  <2>1. SeedTypes'
    BY <1>12, <1>t DEF LaunchFails, Abort, Goto, TypeOK, SeedTypes
  <2>2. StageTypes'
    BY <1>12, <1>t DEF LaunchFails, Abort, Goto, TypeOK, StageTypes, Mishap
  <2>3. BatchTypes'
    BY <1>12, <1>t, Domains DEF LaunchFails, Abort, Goto, NoTally, TypeOK, BatchTypes
  <2>4. JobTypes'
    BY <1>12, <1>t DEF LaunchFails, Abort, Goto, TypeOK, JobTypes, Jobs
  <2>5. CompileTypes'
    BY <1>12, <1>t DEF LaunchFails, Abort, Goto, TypeOK, CompileTypes, CompilerWithout
  <2> QED BY <1>12, <1>f, <2>1, <2>2, <2>3, <2>4, <2>5
       DEF TypeOK, LaunchFails, Abort, seedVars, stageVars, batchVars, compileVars
<1>13. ASSUME NEW p \in Launchers, Stop(p) PROVE TypeOK'
  <2>1. SeedTypes'
    BY <1>13, <1>t DEF Stop, Abort, Goto, TypeOK, SeedTypes
  <2>2. StageTypes'
    BY <1>13, <1>t DEF Stop, Abort, Goto, TypeOK, StageTypes, Mishap, Workers, Gone
  <2>3. BatchTypes'
    BY <1>13, <1>t, Domains DEF Stop, Abort, Goto, NoTally, TypeOK, BatchTypes
  <2>4. JobTypes'
    BY <1>13, <1>t DEF Stop, Abort, Goto, TypeOK, JobTypes, Jobs
  <2>5. CompileTypes'
    BY <1>13, <1>t DEF Stop, Abort, Goto, TypeOK, CompileTypes, CompilerWithout
  <2> QED BY <1>13, <1>f, <2>1, <2>2, <2>3, <2>4, <2>5
       DEF TypeOK, Stop, Abort, seedVars, stageVars, batchVars, compileVars
<1>14. ASSUME NEW p \in Launchers, NEW s \in Seeds, StartStage(p, s) PROVE TypeOK'
  <2>a. At(p, s, "stage") /\ job[p][s].memory = record[s] /\ record[s] \in Records(s)
    BY <1>14, AtSeed DEF StartStage
  <2>b. PICK t \in Targets : /\ StartWorker(p, t)
                            /\ Becomes(p, s, [job[p][s] EXCEPT !.step = "judge", !.target = t])
                            /\ UNCHANGED <<seedVars, faults, batchVars, compileVars>>
    BY <1>14, <2>a, NextIsMissing DEF StartStage
  <2>c. [job[p][s] EXCEPT !.step = "judge", !.target = t] \in Jobs(s)
    <3>1. job[p][s] \in Jobs(s) /\ job[p][s] # NoJob
      BY <1>t, <2>a, AtSeed DEF TypeOK, JobTypes
    <3>2. job[p][s] \in [step : {"stage", "judge"}, target : Targets \cup {None}, memory : Records(s)]
      BY <3>1 DEF Jobs
    <3> QED BY <3>2 DEF Jobs
  <2>1. StageTypes'
    BY <1>14, <1>t, <2>a, <2>b, <2>c DEF TypeOK, StageTypes, StartWorker, FreshWorker, Workers
  <2>2. JobTypes'
    BY <1>14, <1>t, <2>a, <2>b, <2>c, JobTyped DEF TypeOK, Jobs
  <2> QED BY <1>f, <2>b, <2>1, <2>2 DEF TypeOK, seedVars, stageVars, batchVars, compileVars
<1>15. ASSUME NEW p \in Launchers, NEW s \in Seeds, RestartStage(p, s) PROVE TypeOK'
  <2>a. job[p][s].target \in Targets
    BY <1>15, AtSeed DEF RestartStage
  <2>1. StageTypes'
    BY <1>15, <1>t, <2>a DEF RestartStage, TypeOK, StageTypes, StartWorker, FreshWorker, Workers
  <2> QED BY <1>15, <1>f, <2>1
       DEF TypeOK, RestartStage, seedVars, stageVars, batchVars, compileVars
<1>16. ASSUME NEW p \in Launchers, NEW s \in Seeds, Publish(p, s) PROVE TypeOK'
  <2>a. job[p][s].target \in Targets
    BY <1>16, AtSeed DEF Publish
  <2>b. PICK rec \in Records(s) :
           /\ record' = [record EXCEPT ![s] = rec]
           /\ Becomes(p, s, [step |-> "stage", target |-> None, memory |-> rec])
    BY <1>16, PublishHere
  <2>c. [step |-> "stage", target |-> None, memory |-> rec] \in Jobs(s)
    BY DEF Jobs
  <2>1. SeedTypes'
    BY <1>16, <1>t, <2>b, RecordTyped DEF Publish, TypeOK
  <2>2. StageTypes'
    <3>1. worker' = [worker EXCEPT ![job[p][s].target] = Gone] /\ UNCHANGED faults
      BY <1>16 DEF Publish
    <3> QED BY <1>t, <2>a, <3>1, WorkerRemoved DEF TypeOK
  <2>3. JobTypes'
    BY <1>t, <2>b, <2>c, JobTyped DEF TypeOK
  <2> QED BY <1>16, <1>f, <2>1, <2>2, <2>3
       DEF TypeOK, Publish, seedVars, stageVars, batchVars, compileVars
<1>17. ASSUME NEW p \in Launchers, NEW s \in Seeds, FinishSeed(p, s) PROVE TypeOK'
  <2>1. SeedTypes'
    BY <1>17, <1>t DEF FinishSeed, Leave, TypeOK, SeedTypes
  <2>2. BatchTypes'
    BY <1>17, <1>t, BatchTyped DEF FinishSeed, Leave, TypeOK
  <2>3. JobTypes'
    BY <1>17, <1>t, JobTyped DEF FinishSeed, Leave, TypeOK, Jobs
  <2> QED BY <1>17, <1>f, <2>1, <2>2, <2>3
       DEF TypeOK, FinishSeed, Leave, seedVars, stageVars, batchVars, compileVars
<1>18. ASSUME NEW p \in Launchers, NEW s \in Seeds, StageFails(p, s) PROVE TypeOK'
  <2>a. job[p][s].target \in Targets
    BY <1>18, AtSeed DEF StageFails
  <2>1. StageTypes'
    BY <1>18, <1>t, <2>a, WorkerRemoved DEF StageFails, TypeOK
  <2>2. SeedTypes'
    BY <1>18, <1>t DEF StageFails, Leave, TypeOK, SeedTypes
  <2>3. BatchTypes'
    BY <1>18, <1>t, BatchTyped DEF StageFails, Leave, TypeOK
  <2>4. JobTypes'
    BY <1>18, <1>t, JobTyped DEF StageFails, Leave, TypeOK, Jobs
  <2> QED BY <1>18, <1>f, <2>1, <2>2, <2>3, <2>4
       DEF TypeOK, StageFails, Leave, seedVars, stageVars, batchVars, compileVars
<1>19. ASSUME NEW p \in Launchers, NEW s \in Seeds, HostFails(p, s) PROVE TypeOK'
  <2>1. StageTypes'
    BY <1>19, <1>t DEF HostFails, TypeOK, StageTypes, Workers, Gone, Mishap
  <2>2. SeedTypes'
    BY <1>19, <1>t DEF HostFails, Leave, TypeOK, SeedTypes
  <2>3. BatchTypes'
    BY <1>19, <1>t, BatchTyped DEF HostFails, Leave, TypeOK
  <2>4. JobTypes'
    BY <1>19, <1>t, JobTyped DEF HostFails, Leave, TypeOK, Jobs
  <2> QED BY <1>19, <1>f, <2>1, <2>2, <2>3, <2>4
       DEF TypeOK, HostFails, Leave, seedVars, stageVars, batchVars, compileVars
<1>20. ASSUME NEW t \in Targets, Judge(t) PROVE TypeOK'
  <2>1. StageTypes'
    BY <1>20, <1>t DEF Judge, WorkerAt, WorkerGoes, Mishap, StageTypes, Workers, OutOfRetries, TypeOK
  <2> QED BY <1>20, <1>f, <2>1
       DEF TypeOK, Judge, WorkerUnchanged, seedVars, stageVars, batchVars, compileVars
<1>21. ASSUME NEW t \in Targets, LoseConnection(t) PROVE TypeOK'
  <2>1. StageTypes'
    BY <1>21, <1>t DEF LoseConnection, WorkerAt, WorkerGoes, Mishap, StageTypes, Workers, OutOfRetries, TypeOK
  <2> QED BY <1>21, <1>f, <2>1
       DEF TypeOK, LoseConnection, WorkerUnchanged, seedVars, stageVars, batchVars, compileVars
<1>22. ASSUME NEW t \in Targets, WorkerFails(t) PROVE TypeOK'
  <2>1. StageTypes'
    BY <1>22, <1>t DEF WorkerFails, WorkerAt, WorkerGoes, Mishap, StageTypes, Workers, OutOfRetries, TypeOK
  <2> QED BY <1>22, <1>f, <2>1
       DEF TypeOK, WorkerFails, WorkerUnchanged, seedVars, stageVars, batchVars, compileVars
<1> QED BY <1>0, <1>1, <1>2, <1>3, <1>4, <1>5, <1>6, <1>7, <1>8, <1>9, <1>10, <1>11, <1>12, <1>13, <1>14, <1>15, <1>16, <1>17, <1>18, <1>19, <1>20, <1>21, <1>22
     DEF Next, BatchStep, AttemptStep

----------------------------------------------------------------------------
(* The inductive invariant                                                 *)

Rest == /\ RecordsAreConsistent /\ RecordsSettled /\ VerdictsWereGiven
        /\ JobsOwn /\ JudgedIsNext

\* A step that saves nothing, takes and leaves no seed and starts no worker.
LEMMA QuietStep ==
  ASSUME AuditInv, UNCHANGED <<owner, record, job>>,
         \A p \in Launchers : pc[p] = "run" /\ AtWork(p) # {} => pc'[p] = "run",
         \A t \in Targets : /\ worker'[t].by = worker[t].by
                            /\ worker'[t].step = "judging" => worker[t].step = "judging"
  PROVE  Rest'
<1>1. RecordsAreConsistent' /\ RecordsSettled' /\ VerdictsWereGiven'
  BY DEF AuditInv, RecordsAreConsistent, RecordsSettled, VerdictsWereGiven
<1>2. JobsOwn'
  <2>1. SUFFICES ASSUME NEW p \in Launchers, NEW s \in Seeds, job[p][s] # NoJob
                 PROVE  /\ pc'[p] = "run" /\ owner[s] = p
                        /\ job[p][s].memory = record[s] /\ Settled(s, record[s])
                        /\ job[p][s].step = "stage" => job[p][s].target = None
                        /\ job[p][s].step = "judge" =>
                             /\ job[p][s].target \in NextStage(s, record[s])
                             /\ worker'[job[p][s].target].by = p
    BY DEF JobsOwn
  <2>2. s \in AtWork(p)
    BY <2>1 DEF AtWork
  <2> QED BY <2>1, <2>2, NextIsMissing DEF AuditInv, JobsOwn
<1>3. JudgedIsNext'
  BY DEF AuditInv, JudgedIsNext
<1> QED BY <1>1, <1>2, <1>3 DEF Rest

\* A record replaced by one that is settled, consistent and given.
LEMMA RecordStep ==
  ASSUME AuditInv, NEW s \in Seeds, NEW rec, Consistent(s, rec), Settled(s, rec), Given(s, rec),
         record' = [record EXCEPT ![s] = rec]
  PROVE  /\ RecordsAreConsistent' /\ RecordsSettled' /\ VerdictsWereGiven'
         /\ record'[s] = rec /\ \A z \in Seeds \ {s} : record'[z] = record[z]
<1>1. record'[s] = rec /\ \A z \in Seeds \ {s} : record'[z] = record[z]
  BY DEF AuditInv, TypeOK, SeedTypes
<1> QED BY <1>1 DEF AuditInv, RecordsAreConsistent, RecordsSettled, VerdictsWereGiven

\* A seed that nobody owns is prepared: whoever judges it still, its record was
\* settled already.
LEMMA PrepareStep ==
  ASSUME AuditInv, NEW s \in Seeds, owner[s] \notin Launchers,
         record' = [record EXCEPT ![s] = Reuse(s, record[s])],
         UNCHANGED <<owner, worker, pc, job>>
  PROVE  Rest'
<1>1. /\ RecordsAreConsistent' /\ RecordsSettled' /\ VerdictsWereGiven'
      /\ record'[s] = Reuse(s, record[s]) /\ \A z \in Seeds \ {s} : record'[z] = record[z]
  BY ReuseHere, RecordStep
<1>2. JobsOwn'
  <2>1. SUFFICES ASSUME NEW p \in Launchers, NEW z \in Seeds, job[p][z] # NoJob
                 PROVE  z # s
    BY <1>1 DEF AuditInv, JobsOwn
  <2> QED BY <2>1 DEF AuditInv, JobsOwn
<1>3. JudgedIsNext'
  <2>1. SUFFICES ASSUME NEW t \in Targets, worker[t].step = "judging"
                 PROVE  Settled(t[1], record'[t[1]]) /\ t \in NextStage(t[1], record'[t[1]])
    BY DEF JudgedIsNext
  <2>2. t[1] \in Seeds /\ Settled(t[1], record[t[1]]) /\ t \in NextStage(t[1], record[t[1]])
    BY <2>1 DEF AuditInv, JudgedIsNext, Targets
  <2>3. record'[t[1]] = record[t[1]]
    BY <1>1, <2>2, ReuseHere
  <2> QED BY <2>2, <2>3
<1> QED BY <1>1, <1>2, <1>3 DEF Rest

\* A worker is started for the stage of an attempt, which is the next one.
LEMMA StartStep ==
  ASSUME AuditInv, NEW p \in Launchers, NEW s \in Seeds, NEW t \in NextStage(s, record[s]),
         NEW step \in {"stage", "judge"}, At(p, s, step),
         StartWorker(p, t), UNCHANGED <<owner, record, pc>>,
         \/ UNCHANGED job /\ job[p][s].target = t
         \/ Becomes(p, s, [job[p][s] EXCEPT !.step = "judge", !.target = t])
  PROVE  Rest'
<1>1. /\ job[p][s] # NoJob /\ owner[s] = p /\ pc[p] = "run"
      /\ job[p][s].memory = record[s] /\ Settled(s, record[s])
  BY AtSeed
<1>2. t \in Targets /\ t[1] = s
  BY NextIsMissing
<1>3. /\ worker'[t].by = p
      /\ \A u \in Targets \ {t} : worker'[u] = worker[u]
  BY <1>2 DEF AuditInv, TypeOK, StageTypes, StartWorker, FreshWorker
<1>4. RecordsAreConsistent' /\ RecordsSettled' /\ VerdictsWereGiven'
  BY DEF AuditInv, RecordsAreConsistent, RecordsSettled, VerdictsWereGiven
<1>5. JobsOwn'
  <2>1. SUFFICES ASSUME NEW q \in Launchers, NEW z \in Seeds, job'[q][z] # NoJob
                 PROVE  /\ pc[q] = "run" /\ owner[z] = q
                        /\ job'[q][z].memory = record[z] /\ Settled(z, record[z])
                        /\ job'[q][z].step = "stage" => job'[q][z].target = None
                        /\ job'[q][z].step = "judge" =>
                             /\ job'[q][z].target \in NextStage(z, record[z])
                             /\ worker'[job'[q][z].target].by = q
    BY DEF JobsOwn
  <2>2. CASE q = p /\ z = s
    <3>1. job[p][s] \in [step : {"stage", "judge"}, target : Targets \cup {None}, memory : Records(s)]
      BY <1>1 DEF AuditInv, TypeOK, JobTypes, Jobs
    <3>2. CASE UNCHANGED job /\ job[p][s].target = t
      BY <1>1, <1>2, <1>3, <2>2, <3>1, <3>2, NoneAssumption DEF AuditInv, JobsOwn
    <3>3. CASE Becomes(p, s, [job[p][s] EXCEPT !.step = "judge", !.target = t])
      <4>1. job'[p][s] = [job[p][s] EXCEPT !.step = "judge", !.target = t]
        BY <3>3 DEF Becomes, AuditInv, TypeOK, JobTypes
      <4>2. /\ job'[p][s].memory = job[p][s].memory
            /\ job'[p][s].step = "judge" /\ job'[p][s].target = t
        BY <3>1, <4>1
      <4> QED BY <1>1, <1>3, <2>2, <4>2
    <3> QED BY <3>2, <3>3
  <2>3. CASE ~(q = p /\ z = s)
    <3>1. job'[q][z] = job[q][z]
      BY <2>3 DEF Becomes, AuditInv, TypeOK, JobTypes
    <3>2. z # s
      BY <1>1, <2>1, <2>3, <3>1 DEF AuditInv, JobsOwn
    <3>3. job[q][z].step = "judge" => job[q][z].target \in Targets \ {t}
      BY <1>2, <2>1, <3>1, <3>2, NextIsMissing DEF AuditInv, JobsOwn
    <3> QED BY <1>3, <2>1, <3>1, <3>3 DEF AuditInv, JobsOwn
  <2> QED BY <2>2, <2>3
<1>6. JudgedIsNext'
  BY <1>1, <1>2, <1>3 DEF AuditInv, JudgedIsNext
<1> QED BY <1>4, <1>5, <1>6 DEF Rest

\* An attempt is over, and perhaps its worker removed.
LEMMA LeaveStep ==
  ASSUME AuditInv, NEW p \in Launchers, NEW s \in Seeds, NEW step \in {"stage", "judge"},
         At(p, s, step), NEW outcome, Leave(p, s, outcome),
         \/ UNCHANGED worker
         \/ job[p][s].target \in Targets /\ worker' = [worker EXCEPT ![job[p][s].target] = Gone]
  PROVE  Rest'
<1>1. owner[s] = p /\ job[p][s] # NoJob
  BY AtSeed
<1>2. /\ job'[p][s] = NoJob
      /\ \A q \in Launchers, z \in Seeds : ~(q = p /\ z = s) => job'[q][z] = job[q][z]
      /\ \A z \in Seeds \ {s} : owner'[z] = owner[z]
      /\ UNCHANGED <<record, pc>>
  BY DEF Leave, Becomes, AuditInv, TypeOK, JobTypes, SeedTypes
<1>3. \A u \in Targets : worker'[u].step = "judging" => worker'[u] = worker[u]
  BY DEF AuditInv, TypeOK, StageTypes, Gone
<1>4. RecordsAreConsistent' /\ RecordsSettled' /\ VerdictsWereGiven'
  BY <1>2 DEF AuditInv, RecordsAreConsistent, RecordsSettled, VerdictsWereGiven
<1>5. JobsOwn'
  <2>1. SUFFICES ASSUME NEW q \in Launchers, NEW z \in Seeds, job'[q][z] # NoJob
                 PROVE  /\ pc[q] = "run" /\ owner'[z] = q
                        /\ job'[q][z].memory = record[z] /\ Settled(z, record[z])
                        /\ job'[q][z].step = "stage" => job'[q][z].target = None
                        /\ job'[q][z].step = "judge" =>
                             /\ job'[q][z].target \in NextStage(z, record[z])
                             /\ worker'[job'[q][z].target].by = q
    BY <1>2 DEF JobsOwn
  <2>2. job'[q][z] = job[q][z]
    BY <1>2, <2>1
  <2>3. z # s
    BY <1>1, <1>2, <2>1, <2>2 DEF AuditInv, JobsOwn
  <2>4. job[q][z].step = "judge" =>
           /\ job[q][z].target \in Targets
           /\ worker'[job[q][z].target] = worker[job[q][z].target]
    <3>1. SUFFICES ASSUME job[q][z].step = "judge", NEW u, u = job[q][z].target
                   PROVE  u \in Targets /\ worker'[u] = worker[u]
      OBVIOUS
    <3>2. u \in Targets /\ u[1] = z
      BY <2>1, <2>2, <3>1, NextIsMissing DEF AuditInv, JobsOwn
    <3>3. job[p][s].target \in Targets => job[p][s].target[1] = s
      <4>1. CASE step = "stage"
        BY <1>1, <4>1, NoneAssumption DEF AuditInv, JobsOwn, At
      <4>2. CASE step = "judge"
        BY <4>2, AtSeed, NextIsMissing
      <4> QED BY <4>1, <4>2
    <3> QED BY <2>3, <3>2, <3>3 DEF AuditInv, TypeOK, StageTypes
  <2> QED BY <1>2, <2>1, <2>2, <2>3, <2>4 DEF AuditInv, JobsOwn
<1>6. JudgedIsNext'
  BY <1>2, <1>3 DEF AuditInv, JudgedIsNext
<1> QED BY <1>4, <1>5, <1>6 DEF Rest

\* A launcher is gone, and perhaps its workers with it.
LEMMA AbortStep ==
  ASSUME AuditInv, NEW p \in Launchers, Abort(p),
         \A t \in Targets :
            worker'[t] # worker[t] => worker'[t] = Gone /\ \E s \in Seeds : job[p][s].target = t
  PROVE  Rest'
<1>1. /\ \A s \in Seeds : job'[p][s] = NoJob
      /\ \A q \in Launchers \ {p}, s \in Seeds :
            job'[q][s] = job[q][s] /\ pc'[q] = pc[q] /\ (owner[s] = q => owner'[s] = q)
      /\ UNCHANGED record
  BY DEF Abort, Goto, AuditInv, TypeOK, JobTypes, BatchTypes, SeedTypes
<1>2. RecordsAreConsistent' /\ RecordsSettled' /\ VerdictsWereGiven'
  BY <1>1 DEF AuditInv, RecordsAreConsistent, RecordsSettled, VerdictsWereGiven
<1>3. JobsOwn'
  <2>1. SUFFICES ASSUME NEW q \in Launchers, NEW z \in Seeds, job'[q][z] # NoJob
                 PROVE  /\ pc'[q] = "run" /\ owner'[z] = q
                        /\ job'[q][z].memory = record[z] /\ Settled(z, record[z])
                        /\ job'[q][z].step = "stage" => job'[q][z].target = None
                        /\ job'[q][z].step = "judge" =>
                             /\ job'[q][z].target \in NextStage(z, record[z])
                             /\ worker'[job'[q][z].target].by = q
    BY <1>1 DEF JobsOwn
  <2>2. q # p /\ job'[q][z] = job[q][z]
    BY <1>1, <2>1
  <2>3. /\ pc[q] = "run" /\ owner[z] = q
        /\ job[q][z].memory = record[z] /\ Settled(z, record[z])
        /\ job[q][z].step = "stage" => job[q][z].target = None
        /\ job[q][z].step = "judge" =>
             job[q][z].target \in NextStage(z, record[z]) /\ worker[job[q][z].target].by = q
    BY <2>1, <2>2 DEF AuditInv, JobsOwn
  <2>4. ASSUME job[q][z].step = "judge" PROVE worker'[job[q][z].target] = worker[job[q][z].target]
    <3>1. PICK t \in Targets : t = job[q][z].target /\ t[1] = z
      BY <2>3, <2>4, NextIsMissing
    <3>2. SUFFICES ASSUME NEW s \in Seeds, job[p][s].target = t PROVE FALSE
      BY <3>1
    <3>3. job[p][s] # NoJob
      BY <3>2, NoneAssumption DEF NoJob
    <3>4. owner[s] = p /\ job[p][s].step = "judge" /\ job[p][s].target \in NextStage(s, record[s])
      BY <3>2, <3>3, NoneAssumption DEF AuditInv, JobsOwn, TypeOK, JobTypes, Jobs
    <3>5. s = z
      BY <3>1, <3>2, <3>4, NextIsMissing
    <3> QED BY <2>2, <2>3, <3>4, <3>5
  <2> QED BY <1>1, <2>2, <2>3, <2>4
<1>4. JudgedIsNext'
  BY <1>1 DEF AuditInv, JudgedIsNext, Gone
<1> QED BY <1>2, <1>3, <1>4 DEF Rest

\* An attempt begins: the seed was nobody's, and its record is prepared.
LEMMA TakeStep ==
  ASSUME AuditInv, NEW p \in Launchers, NEW s \in Seeds, pc[p] = "run", owner[s] = None,
         owner' = [owner EXCEPT ![s] = p],
         record' = [record EXCEPT ![s] = Reuse(s, record[s])],
         Becomes(p, s, [step |-> "stage", target |-> None, memory |-> Reuse(s, record[s])]),
         UNCHANGED <<worker, pc>>
  PROVE  Rest'
<1>1. /\ RecordsAreConsistent' /\ RecordsSettled' /\ VerdictsWereGiven'
      /\ record'[s] = Reuse(s, record[s]) /\ \A z \in Seeds \ {s} : record'[z] = record[z]
  BY ReuseHere, RecordStep
<1>2. None \notin Launchers
  BY NoneAssumption
<1>3. JobsOwn'
  <2>1. SUFFICES ASSUME NEW q \in Launchers, NEW z \in Seeds, job'[q][z] # NoJob
                 PROVE  /\ pc[q] = "run" /\ owner'[z] = q
                        /\ job'[q][z].memory = record'[z] /\ Settled(z, record'[z])
                        /\ job'[q][z].step = "stage" => job'[q][z].target = None
                        /\ job'[q][z].step = "judge" =>
                             /\ job'[q][z].target \in NextStage(z, record'[z])
                             /\ worker[job'[q][z].target].by = q
    BY DEF JobsOwn
  <2>2. CASE q = p /\ z = s
    <3>1. job'[p][s] = [step |-> "stage", target |-> None, memory |-> Reuse(s, record[s])]
      BY DEF Becomes, AuditInv, TypeOK, JobTypes
    <3>2. owner'[s] = p
      BY DEF AuditInv, TypeOK, SeedTypes
    <3> QED BY <1>1, <2>2, <3>1, <3>2, ReuseHere
  <2>3. CASE ~(q = p /\ z = s)
    <3>1. job'[q][z] = job[q][z]
      BY <2>3 DEF Becomes, AuditInv, TypeOK, JobTypes
    <3>2. z # s
      BY <1>2, <2>1, <3>1 DEF AuditInv, JobsOwn
    <3>3. owner'[z] = owner[z] /\ record'[z] = record[z]
      BY <1>1, <3>2 DEF AuditInv, TypeOK, SeedTypes
    <3> QED BY <2>1, <3>1, <3>3 DEF AuditInv, JobsOwn
  <2> QED BY <2>2, <2>3
<1>4. JudgedIsNext'
  <2>1. SUFFICES ASSUME NEW t \in Targets, worker[t].step = "judging"
                 PROVE  Settled(t[1], record'[t[1]]) /\ t \in NextStage(t[1], record'[t[1]])
    BY DEF JudgedIsNext
  <2>2. t[1] \in Seeds /\ Settled(t[1], record[t[1]]) /\ t \in NextStage(t[1], record[t[1]])
    BY <2>1 DEF AuditInv, JudgedIsNext, Targets
  <2>3. record'[t[1]] = record[t[1]]
    BY <1>1, <2>2, ReuseHere
  <2> QED BY <2>2, <2>3
<1> QED BY <1>1, <1>3, <1>4 DEF Rest

\* A verdict is saved: the worker that gave it was the only one at its seed.
LEMMA PublishStep ==
  ASSUME AuditInv, NEW p \in Launchers, NEW s \in Seeds, Publish(p, s)
  PROVE  Rest'
<1> DEFINE t == job[p][s].target
<1>1. PICK rec \in Records(s) :
        /\ record' = [record EXCEPT ![s] = rec]
        /\ Becomes(p, s, [step |-> "stage", target |-> None, memory |-> rec])
        /\ Consistent(s, rec) /\ Settled(s, rec) /\ Given(s, rec)
  BY PublishHere
<1>2. /\ RecordsAreConsistent' /\ RecordsSettled' /\ VerdictsWereGiven'
      /\ record'[s] = rec /\ \A z \in Seeds \ {s} : record'[z] = record[z]
  BY <1>1, RecordStep
<1>3. /\ owner[s] = p /\ pc[p] = "run" /\ t \in NextStage(s, record[s]) /\ t \in Targets
      /\ t[1] = s
  <2>1. At(p, s, "judge")
    BY DEF Publish
  <2>2. owner[s] = p /\ pc[p] = "run" /\ t \in NextStage(s, record[s])
    BY <2>1, AtSeed
  <2> QED BY <2>2, NextIsMissing
<1>4. /\ worker' = [worker EXCEPT ![t] = Gone] /\ worker[t].step = "ok"
      /\ UNCHANGED <<owner, pc>>
  BY DEF Publish, batchVars
<1>5. \A u \in Targets \ {t} : worker'[u] = worker[u]
  BY <1>4 DEF AuditInv, TypeOK, StageTypes
<1>6. JobsOwn'
  <2>1. SUFFICES ASSUME NEW q \in Launchers, NEW z \in Seeds, job'[q][z] # NoJob
                 PROVE  /\ pc[q] = "run" /\ owner[z] = q
                        /\ job'[q][z].memory = record'[z] /\ Settled(z, record'[z])
                        /\ job'[q][z].step = "stage" => job'[q][z].target = None
                        /\ job'[q][z].step = "judge" =>
                             /\ job'[q][z].target \in NextStage(z, record'[z])
                             /\ worker'[job'[q][z].target].by = q
    BY <1>4 DEF JobsOwn
  <2>2. CASE q = p /\ z = s
    <3>1. job'[p][s] = [step |-> "stage", target |-> None, memory |-> rec]
      BY <1>1 DEF Becomes, AuditInv, TypeOK, JobTypes
    <3> QED BY <1>1, <1>2, <1>3, <2>2, <3>1
  <2>3. CASE ~(q = p /\ z = s)
    <3>1. job'[q][z] = job[q][z]
      BY <1>1, <2>3 DEF Becomes, AuditInv, TypeOK, JobTypes
    <3>2. z # s
      BY <1>3, <2>1, <2>3, <3>1 DEF AuditInv, JobsOwn
    <3>3. job[q][z].step = "judge" => job[q][z].target \in Targets \ {t}
      BY <1>3, <2>1, <3>1, <3>2, NextIsMissing DEF AuditInv, JobsOwn
    <3> QED BY <1>2, <1>5, <2>1, <3>1, <3>2, <3>3 DEF AuditInv, JobsOwn
  <2> QED BY <2>2, <2>3
<1>7. JudgedIsNext'
  <2>1. SUFFICES ASSUME NEW u \in Targets, worker'[u].step = "judging"
                 PROVE  Settled(u[1], record'[u[1]]) /\ u \in NextStage(u[1], record'[u[1]])
    BY DEF JudgedIsNext
  <2>2. u # t /\ worker[u].step = "judging"
    BY <1>3, <1>4, <1>5, <2>1 DEF AuditInv, TypeOK, StageTypes, Gone
  <2>3. u[1] \in Seeds /\ Settled(u[1], record[u[1]]) /\ u \in NextStage(u[1], record[u[1]])
    BY <2>2 DEF AuditInv, JudgedIsNext, Targets
  <2>4. u[1] # s
    BY <1>3, <2>2, <2>3, NextIsUnique
  <2> QED BY <1>2, <2>3, <2>4
<1> QED BY <1>2, <1>6, <1>7 DEF Rest

----------------------------------------------------------------------------
(* The theorems                                                            *)

LEMMA RestStep ==
  ASSUME AuditInv, [Next]_vars
  PROVE  Rest'
<1>0. CASE UNCHANGED vars
  BY <1>0, QuietStep DEF vars, seedVars, stageVars, batchVars, compileVars
<1>1. ASSUME NEW s \in Seeds, SolverStops(s) PROVE Rest'
  <2>1. UNCHANGED <<owner, record, job, worker>>
    BY <1>1 DEF SolverStops, seedVars, stageVars
  <2>2. UNCHANGED pc
    BY <1>1 DEF SolverStops, batchVars
  <2> QED BY <2>1, <2>2, QuietStep
<1>2. ASSUME NEW p \in Launchers, Launch(p) PROVE Rest'
  <2>1. UNCHANGED <<owner, record, job, worker>>
    BY <1>2 DEF Launch, seedVars, stageVars
  <2>2. \A r \in Launchers : pc[r] = "run" /\ AtWork(r) # {} => pc'[r] = "run"
    BY <1>2 DEF Launch, Goto, AuditInv, TypeOK, BatchTypes
  <2> QED BY <2>1, <2>2, QuietStep
<1>3. ASSUME NEW p \in Launchers, PrepareSeed(p) PROVE Rest'
  <2>1. CASE UNCHANGED record
    BY <1>3, <2>1, QuietStep DEF PrepareSeed
  <2>2. CASE record' # record
    <3>1. at[p] \in Seeds /\ owner[at[p]] = None /\ UNCHANGED <<owner, worker, pc, job>>
          /\ record' = [record EXCEPT ![at[p]] = Reuse(at[p], record[at[p]])]
      BY <1>3, <2>2 DEF PrepareSeed, Stopped
    <3> QED BY <3>1, PrepareStep, NoneAssumption
  <2> QED BY <2>1, <2>2
<1>4. ASSUME NEW p \in Launchers, PrepareFails(p) PROVE Rest'
  <2>1. CASE UNCHANGED record
    BY <1>4, <2>1, QuietStep DEF PrepareFails
  <2>2. CASE record' # record
    <3>1. at[p] \in Seeds /\ owner[at[p]] = None /\ UNCHANGED <<owner, worker, pc, job>>
          /\ record' = [record EXCEPT ![at[p]] = Reuse(at[p], record[at[p]])]
      BY <1>4, <2>2 DEF PrepareFails, Stopped
    <3> QED BY <3>1, PrepareStep, NoneAssumption
  <2> QED BY <2>1, <2>2
<1>5. ASSUME NEW p \in Launchers, EndPrepare(p) PROVE Rest'
  <2>1. UNCHANGED <<owner, record, job, worker>>
    BY <1>5 DEF EndPrepare, seedVars, stageVars
  <2>2. \A r \in Launchers : pc[r] = "run" /\ AtWork(r) # {} => pc'[r] = "run"
    BY <1>5 DEF EndPrepare, Goto, AuditInv, TypeOK, BatchTypes
  <2> QED BY <2>1, <2>2, QuietStep
<1>6. ASSUME NEW p \in Launchers, Setup(p) PROVE Rest'
  <2>1. UNCHANGED <<owner, record, job, worker>>
    BY <1>6 DEF Setup, seedVars, stageVars
  <2>2. \A r \in Launchers : pc[r] = "run" /\ AtWork(r) # {} => pc'[r] = "run"
    BY <1>6 DEF Setup, Goto, AuditInv, TypeOK, BatchTypes
  <2> QED BY <2>1, <2>2, QuietStep
<1>7. ASSUME NEW p \in Launchers, Take(p) PROVE Rest'
  <2> DEFINE s == Head(attempts[p])
  <2>1. s \in Seeds
    BY <1>7 DEF Take, AuditInv, TypeOK, BatchTypes
  <2>2. CASE Contended(s)
    BY <1>7, <2>2, QuietStep DEF Take, stageVars
  <2>3. CASE ~Contended(s)
    <3>1. /\ pc[p] = "run" /\ owner[s] = None /\ owner' = [owner EXCEPT ![s] = p]
          /\ record' = [record EXCEPT ![s] = Reuse(s, record[s])]
          /\ Becomes(p, s, [step |-> "stage", target |-> None, memory |-> Reuse(s, record[s])])
          /\ UNCHANGED <<worker, pc>>
      BY <1>7, <2>3 DEF Take, Contended, stageVars
    <3> QED BY <2>1, <3>1, TakeStep
  <2> QED BY <2>2, <2>3
<1>8. ASSUME NEW p \in Launchers, EndRun(p) PROVE Rest'
  <2>1. UNCHANGED <<owner, record, job, worker>>
    BY <1>8 DEF EndRun, seedVars, stageVars
  <2>2. \A r \in Launchers : pc[r] = "run" /\ AtWork(r) # {} => pc'[r] = "run"
    BY <1>8 DEF EndRun, Goto, RunIsOver, AuditInv, TypeOK, BatchTypes
  <2> QED BY <2>1, <2>2, QuietStep
<1>9. ASSUME NEW p \in Launchers, BeginCompile(p) PROVE Rest'
  <2>1. UNCHANGED <<owner, record, job, worker>>
    BY <1>9 DEF BeginCompile, seedVars, stageVars
  <2>2. \A r \in Launchers : pc[r] = "run" /\ AtWork(r) # {} => pc'[r] = "run"
    BY <1>9 DEF BeginCompile, Goto, AuditInv, TypeOK, BatchTypes
  <2> QED BY <2>1, <2>2, QuietStep
<1>10. ASSUME NEW p \in Launchers, CollectSeed(p) PROVE Rest'
  <2>1. UNCHANGED <<owner, record, job, worker>>
    BY <1>10 DEF CollectSeed, seedVars, stageVars
  <2>2. \A r \in Launchers : pc[r] = "run" /\ AtWork(r) # {} => pc'[r] = "run"
    BY <1>10 DEF CollectSeed, Goto, AuditInv, TypeOK, BatchTypes
  <2> QED BY <2>1, <2>2, QuietStep
<1>11. ASSUME NEW p \in Launchers, PublishExport(p) PROVE Rest'
  <2>1. UNCHANGED <<owner, record, job, worker>>
    BY <1>11 DEF PublishExport, seedVars, stageVars
  <2>2. \A r \in Launchers : pc[r] = "run" /\ AtWork(r) # {} => pc'[r] = "run"
    BY <1>11 DEF PublishExport, Goto, AuditInv, TypeOK, BatchTypes
  <2> QED BY <2>1, <2>2, QuietStep
<1>12. ASSUME NEW p \in Launchers, LaunchFails(p) PROVE Rest'
  BY <1>12, AbortStep DEF LaunchFails
<1>13. ASSUME NEW p \in Launchers, Stop(p) PROVE Rest'
  <2>1. \A t \in Targets :
          worker'[t] # worker[t] => worker'[t] = Gone /\ \E s \in Seeds : job[p][s].target = t
    <3>1. PICK removed \in SUBSET {job[p][s].target : s \in AtWork(p)} :
             worker' = [t \in Targets |-> IF t \in removed THEN Gone ELSE worker[t]]
      BY <1>13 DEF Stop
    <3> QED BY <3>1 DEF AtWork
  <2> QED BY <1>13, <2>1, AbortStep DEF Stop
<1>14. ASSUME NEW p \in Launchers, NEW s \in Seeds, StartStage(p, s) PROVE Rest'
  <2>1. At(p, s, "stage") /\ job[p][s].memory = record[s]
    BY <1>14, AtSeed DEF StartStage
  <2>2. PICK t \in NextStage(s, record[s]) :
          /\ StartWorker(p, t)
          /\ Becomes(p, s, [job[p][s] EXCEPT !.step = "judge", !.target = t])
    BY <1>14, <2>1 DEF StartStage
  <2>3. UNCHANGED <<owner, record, pc>>
    BY <1>14 DEF StartStage, seedVars, batchVars
  <2> QED BY <2>1, <2>2, <2>3, StartStep
<1>15. ASSUME NEW p \in Launchers, NEW s \in Seeds, RestartStage(p, s) PROVE Rest'
  <2>1. At(p, s, "judge") /\ job[p][s].target \in NextStage(s, record[s])
    BY <1>15, AtSeed DEF RestartStage
  <2>2. StartWorker(p, job[p][s].target) /\ UNCHANGED <<owner, record, pc, job>>
    BY <1>15 DEF RestartStage, seedVars, batchVars
  <2> QED BY <2>1, <2>2, StartStep
<1>16. ASSUME NEW p \in Launchers, NEW s \in Seeds, Publish(p, s) PROVE Rest'
  BY <1>16, PublishStep
<1>17. ASSUME NEW p \in Launchers, NEW s \in Seeds, FinishSeed(p, s) PROVE Rest'
  BY <1>17, LeaveStep DEF FinishSeed, stageVars
<1>18. ASSUME NEW p \in Launchers, NEW s \in Seeds, StageFails(p, s) PROVE Rest'
  <2>1. At(p, s, "judge") /\ job[p][s].target \in Targets
    BY <1>18, AtSeed DEF StageFails
  <2> QED BY <1>18, <2>1, LeaveStep DEF StageFails
<1>19. ASSUME NEW p \in Launchers, NEW s \in Seeds, HostFails(p, s) PROVE Rest'
  <2>1. PICK step \in {"stage", "judge"} : At(p, s, step)
    BY <1>19 DEF HostFails
  <2>2. job[p][s].target \in Targets \cup {None}
    <3>1. job[p][s] # NoJob
      BY <2>1, AtSeed
    <3> QED BY <3>1 DEF AuditInv, TypeOK, JobTypes, Jobs
  <2> QED BY <1>19, <2>1, <2>2, LeaveStep DEF HostFails
<1>20. ASSUME NEW t \in Targets, Judge(t) PROVE Rest'
  <2>1. UNCHANGED <<owner, record, job, pc>>
    BY <1>20 DEF Judge, WorkerUnchanged, seedVars, batchVars
  <2>2. \A u \in Targets : /\ worker'[u].by = worker[u].by
                           /\ worker'[u].step = "judging" => worker[u].step = "judging"
    <3>1. \A u \in Targets : worker[u] \in Workers
      BY DEF AuditInv, TypeOK, StageTypes
    <3>2. \A u \in Targets \ {t} : worker'[u] = worker[u]
      BY <1>20 DEF Judge, WorkerGoes, AuditInv, TypeOK, StageTypes
    <3>3. worker'[t].by = worker[t].by /\ worker[t].step = "judging"
      BY <1>20, <3>1 DEF Judge, WorkerAt, WorkerGoes, Workers, AuditInv, TypeOK, StageTypes
    <3> QED BY <3>2, <3>3
  <2> QED BY <2>1, <2>2, QuietStep
<1>21. ASSUME NEW t \in Targets, LoseConnection(t) PROVE Rest'
  <2>1. UNCHANGED <<owner, record, job, pc>>
    BY <1>21 DEF LoseConnection, WorkerUnchanged, seedVars, batchVars
  <2>2. \A u \in Targets : /\ worker'[u].by = worker[u].by
                           /\ worker'[u].step = "judging" => worker[u].step = "judging"
    <3>1. \A u \in Targets : worker[u] \in Workers
      BY DEF AuditInv, TypeOK, StageTypes
    <3>2. \A u \in Targets \ {t} : worker'[u] = worker[u]
      BY <1>21 DEF LoseConnection, WorkerGoes, AuditInv, TypeOK, StageTypes
    <3>3. worker'[t].by = worker[t].by /\ worker[t].step = "judging"
      BY <1>21, <3>1 DEF LoseConnection, WorkerAt, WorkerGoes, Workers, AuditInv, TypeOK, StageTypes
    <3> QED BY <3>2, <3>3
  <2> QED BY <2>1, <2>2, QuietStep
<1>22. ASSUME NEW t \in Targets, WorkerFails(t) PROVE Rest'
  <2>1. UNCHANGED <<owner, record, job, pc>>
    BY <1>22 DEF WorkerFails, WorkerUnchanged, seedVars, batchVars
  <2>2. \A u \in Targets : /\ worker'[u].by = worker[u].by
                           /\ worker'[u].step = "judging" => worker[u].step = "judging"
    <3>1. \A u \in Targets : worker[u] \in Workers
      BY DEF AuditInv, TypeOK, StageTypes
    <3>2. \A u \in Targets \ {t} : worker'[u] = worker[u]
      BY <1>22 DEF WorkerFails, WorkerGoes, AuditInv, TypeOK, StageTypes
    <3>3. worker'[t].by = worker[t].by /\ worker[t].step = "judging"
      BY <1>22, <3>1 DEF WorkerFails, WorkerAt, WorkerGoes, Workers, AuditInv, TypeOK, StageTypes
    <3> QED BY <3>2, <3>3
  <2> QED BY <2>1, <2>2, QuietStep
<1> QED BY <1>0, <1>1, <1>2, <1>3, <1>4, <1>5, <1>6, <1>7, <1>8, <1>9, <1>10, <1>11, <1>12, <1>13, <1>14, <1>15, <1>16, <1>17, <1>18, <1>19, <1>20, <1>21, <1>22
     DEF Next, BatchStep, AttemptStep

LEMMA InitInvariant == Init => AuditInv
<1> SUFFICES ASSUME Init PROVE AuditInv
  OBVIOUS
<1>1. \A s \in Seeds : /\ NoVerdicts(s) \in Records(s)
                       /\ \A i, j \in Labels(s) : NoVerdicts(s)[i] = NoVerdicts(s)[j]
                       /\ \A i \in Labels(s), kind \in Kinds : NoVerdicts(s)[i][kind] = None
  BY DEF NoVerdicts, Records
<1>2. \A s \in Seeds : record[s] = NoVerdicts(s)
  BY DEF Init
<1>3. SeedTypes /\ StageTypes
  BY <1>1, <1>2, BoundAssumption DEF Init, SeedTypes, StageTypes, Workers, Gone
<1>4. BatchTypes /\ JobTypes /\ CompileTypes
  BY Domains, BoundAssumption DEF Init, BatchTypes, JobTypes, Jobs, CompileTypes, NoTally
<1>5. RecordsAreConsistent
  BY <1>1, <1>2 DEF RecordsAreConsistent, Consistent, Kinds
<1>6. VerdictsWereGiven
  BY <1>1, <1>2 DEF VerdictsWereGiven, Given
<1>7. RecordsSettled /\ JobsOwn
  BY <1>2 DEF Init, RecordsSettled, JobsOwn
<1>8. JudgedIsNext
  BY DEF Init, JudgedIsNext, Gone
<1> QED BY <1>3, <1>4, <1>5, <1>6, <1>7, <1>8 DEF AuditInv, TypeOK

LEMMA NextInvariant == AuditInv /\ [Next]_vars => AuditInv'
BY TypeStep, RestStep DEF AuditInv, Rest

----------------------------------------------------------------------------
(* Every seed is accounted for.                                            *)

\* Only these steps change a record.
LEMMA WhoRecords ==
  ASSUME Next, record' # record
  PROVE  \/ \E p \in Launchers : PrepareSeed(p) \/ PrepareFails(p) \/ Take(p)
         \/ \E p \in Launchers, s \in Seeds : Publish(p, s)
<1>1. ~ \E p \in Launchers : LaunchFails(p) \/ Stop(p)
  BY DEF LaunchFails, Stop, Abort
<1> QED
  BY ZenonT(40), <1>1 DEF Next, BatchStep, AttemptStep, SolverStops, Launch, EndPrepare, Setup, EndRun,
     BeginCompile, CollectSeed, PublishExport, StartStage,
     RestartStage, FinishSeed, StageFails, HostFails, Leave, Judge, LoseConnection,
     WorkerFails, WorkerUnchanged, seedVars, stageVars, batchVars, compileVars

\* No step changes a verdict that is saved, nor then a record that is complete.
LEMMA RecordsGrow ==
  ASSUME AuditInv, [Next]_vars
  PROVE  /\ \A s \in Seeds : \A i \in Labels(s) : \A kind \in Kinds :
              record[s][i][kind] # None => record'[s][i][kind] = record[s][i][kind]
         /\ \A s \in Seeds : record[s] \in Records(s) /\ record'[s] \in Records(s)
<1> DEFINE Kept == \A s \in Seeds : \A i \in Labels(s) : \A kind \in Kinds :
                      record[s][i][kind] # None => record'[s][i][kind] = record[s][i][kind]
<1>1. \A s \in Seeds : record[s] \in Records(s) /\ record'[s] \in Records(s)
  BY TypeStep DEF AuditInv, TypeOK, SeedTypes
<1>2. CASE record' = record
  BY <1>1, <1>2
<1>3. CASE Next /\ record' # record
  <2>2. ASSUME NEW s \in Seeds, record' = [record EXCEPT ![s] = Reuse(s, record[s])] PROVE Kept
    <3>1. record'[s] = Reuse(s, record[s]) /\ \A z \in Seeds \ {s} : record'[z] = record[z]
      BY <2>2 DEF AuditInv, TypeOK, SeedTypes
    <3> QED BY <3>1, ReuseHere
  <2>3. ASSUME NEW p \in Launchers, PrepareSeed(p) \/ PrepareFails(p) PROVE Kept
    BY <1>3, <2>2, <2>3 DEF PrepareSeed, PrepareFails
  <2>4. ASSUME NEW p \in Launchers, Take(p) PROVE Kept
    <3>1. Head(attempts[p]) \in Seeds
      BY <2>4 DEF Take, AuditInv, TypeOK, BatchTypes
    <3> QED BY <1>3, <2>2, <2>4, <3>1 DEF Take
  <2>5. ASSUME NEW p \in Launchers, NEW s \in Seeds, Publish(p, s) PROVE Kept
    <3>1. PICK rec \in Records(s) :
            /\ record' = [record EXCEPT ![s] = rec]
            /\ \A i \in Labels(s), kind \in Kinds :
                 record[s][i][kind] # None => rec[i][kind] = record[s][i][kind]
      BY ZenonT(40), <2>5, PublishHere
    <3>2. record'[s] = rec /\ \A z \in Seeds \ {s} : record'[z] = record[z]
      BY <3>1 DEF AuditInv, TypeOK, SeedTypes
    <3> QED BY <3>1, <3>2
  <2> QED BY <1>1, <1>3, <2>3, <2>4, <2>5, WhoRecords
<1> QED BY <1>2, <1>3 DEF vars, seedVars

LEMMA MissingAre ==
  ASSUME NEW s \in Seeds, NEW rec
  PROVE  Missing(s, rec) = {} <=> \A i \in Labels(s), kind \in Kinds : rec[i][kind] # None
<1>1. ASSUME NEW i \in Labels(s), NEW kind \in Kinds, rec[i][kind] = None
      PROVE  Missing(s, rec) # {}
  <2>1. <<s, i, kind>> \in {s} \X Labels(s) \X Kinds
    OBVIOUS
  <2> QED BY <1>1, <2>1 DEF Missing
<1>2. ASSUME NEW t \in Missing(s, rec)
      PROVE  \E i \in Labels(s), kind \in Kinds : rec[i][kind] = None
  BY <1>2 DEF Missing
<1> QED BY <1>1, <1>2

\* What is complete stays as it is.
LEMMA CompleteStays ==
  ASSUME AuditInv, [Next]_vars, NEW s \in Seeds, Complete(s)
  PROVE  record'[s] = record[s] /\ Complete(s)'
<1>1. \A i \in Labels(s), kind \in Kinds : record[s][i][kind] # None
  BY MissingAre DEF Complete
<1>2. \A i \in Labels(s), kind \in Kinds : record'[s][i][kind] = record[s][i][kind]
  BY <1>1, RecordsGrow
<1>3. record[s] \in Records(s) /\ record'[s] \in Records(s)
  BY RecordsGrow
<1>4. \A i \in Labels(s) : record'[s][i] = record[s][i]
  BY <1>2, <1>3 DEF Records
<1>5. record'[s] = record[s]
  BY <1>3, <1>4 DEF Records
<1> QED BY <1>5 DEF Complete

LEMMA TallyCounts ==
  ASSUME BatchTypes, NEW p \in Launchers, NEW outcome \in {"completed", "skipped", "failed"},
         Tally(p, outcome)
  PROVE  /\ Counted(p) \in Nat /\ Counted(p)' = Counted(p) + 1
         /\ Clean(p)' => Clean(p) /\ outcome = "completed"
<1>1. tally[p] \in [completed : Nat, skipped : Nat, failed : Nat]
  BY DEF BatchTypes
<1>2. tally'[p] = [tally[p] EXCEPT ![outcome] = @ + 1]
  BY DEF BatchTypes, Tally
<1>3. CASE outcome = "completed"
  BY <1>1, <1>2, <1>3 DEF Counted, Clean
<1>4. CASE outcome = "skipped"
  BY <1>1, <1>2, <1>4 DEF Counted, Clean
<1>5. CASE outcome = "failed"
  BY <1>1, <1>2, <1>5 DEF Counted, Clean
<1> QED BY <1>3, <1>4, <1>5

Lists(list, s) == \E k \in DOMAIN list : list[k] = s

LEMMA AppendWaits ==
  ASSUME NEW list \in Seq(Seeds), NEW s \in Seeds
  PROVE  /\ Len(Append(list, s)) = Len(list) + 1 /\ Len(list) \in Nat
         /\ Lists(Append(list, s), s)
         /\ \A z : Lists(list, z) => Lists(Append(list, s), z)
<1>1. Len(Append(list, s)) = Len(list) + 1 /\ Len(list) \in Nat
      /\ DOMAIN list = 1 .. Len(list) /\ DOMAIN Append(list, s) = 1 .. Len(list) + 1
  OBVIOUS
<1>2. Append(list, s)[Len(list) + 1] = s /\ \A j \in 1 .. Len(list) : Append(list, s)[j] = list[j]
  OBVIOUS
<1>3. Len(list) + 1 \in 1 .. Len(list) + 1 /\ 1 .. Len(list) \subseteq 1 .. Len(list) + 1
  BY <1>1
<1> QED BY <1>1, <1>2, <1>3 DEF Lists

LEMMA TailWaits ==
  ASSUME NEW list \in Seq(Seeds), list # <<>>
  PROVE  /\ Len(Tail(list)) = Len(list) - 1 /\ Len(list) \in Nat /\ Head(list) \in Seeds
         /\ \A z : Lists(list, z) => z = Head(list) \/ Lists(Tail(list), z)
<1>1. Len(Tail(list)) = Len(list) - 1 /\ Len(list) \in Nat /\ Head(list) \in Seeds
      /\ DOMAIN list = 1 .. Len(list) /\ DOMAIN Tail(list) = 1 .. Len(list) - 1 /\ Head(list) = list[1]
  OBVIOUS
<1>2. \A k \in 1 .. Len(list) - 1 : Tail(list)[k] = list[k + 1]
  OBVIOUS
<1>3. ASSUME NEW j \in 1 .. Len(list), j # 1 PROVE j - 1 \in 1 .. Len(list) - 1 /\ (j - 1) + 1 = j
  BY <1>1, <1>3
<1>4. ASSUME NEW z, Lists(list, z), z # Head(list) PROVE Lists(Tail(list), z)
  <2>1. PICK j \in 1 .. Len(list) : list[j] = z
    BY <1>1, <1>4 DEF Lists
  <2>2. j # 1
    BY <1>1, <1>4, <2>1
  <2>3. j - 1 \in DOMAIN Tail(list) /\ Tail(list)[j - 1] = z
    BY <1>1, <1>2, <1>3, <2>1, <2>2
  <2> QED BY <2>3 DEF Lists
<1> QED BY <1>1, <1>4

LEMMA WaitsInList ==
  ASSUME NEW p \in Launchers
  PROVE  \A z : Waiting(p, z) = Lists(attempts[p], z) /\ Waiting(p, z)' = Lists(attempts'[p], z)
BY DEF Waiting, Lists

LEMMA AtWorkChanges ==
  ASSUME JobTypes, NEW p \in Launchers, NEW s \in Seeds, NEW next, Becomes(p, s, next)
  PROVE  /\ next = NoJob => AtWork(p)' = AtWork(p) \ {s}
         /\ next # NoJob => AtWork(p)' = AtWork(p) \cup {s}
BY DEF JobTypes, Becomes, AtWork

LEMMA AtWorkCounts ==
  ASSUME NEW p \in Launchers, NEW s \in Seeds
  PROVE  /\ IsFiniteSet(AtWork(p)) /\ Cardinality(AtWork(p)) \in Nat
         /\ s \in AtWork(p) => Cardinality(AtWork(p) \ {s}) = Cardinality(AtWork(p)) - 1
         /\ s \notin AtWork(p) => Cardinality(AtWork(p) \cup {s}) = Cardinality(AtWork(p)) + 1
<1>1. IsFiniteSet(AtWork(p))
  <2>1. IsFiniteSet(Seeds) /\ AtWork(p) \subseteq Seeds
    BY Domains, FS_Interval DEF AtWork
  <2> QED BY <2>1, FS_Subset
<1> QED BY <1>1, FS_CardinalityType, FS_AddElement, FS_RemoveElement

\* What is said of one launcher.
Accounts(p) ==
    /\ Tallied(p) /\ Worked(p)
    /\ pc[p] \in {"compile", "collect", "done"} => Counted(p) = Len(Solutions)
    /\ Reports(p) => \A s \in Seeds : Complete(s)

Still(p) ==
    /\ pc'[p] = pc[p] /\ at'[p] = at[p] /\ attempts'[p] = attempts[p] /\ tally'[p] = tally[p]
    /\ AtWork(p)' = AtWork(p)

LEMMA StillAccounts ==
  ASSUME AuditInv, [Next]_vars, NEW p \in Launchers, Accounts(p), Still(p)
  PROVE  Accounts(p)'
<1>1. \A s \in Seeds : Complete(s) => Complete(s)'
  BY CompleteStays
<1>2. Counted(p)' = Counted(p) /\ Clean(p)' = Clean(p) /\ \A s : Waiting(p, s)' = Waiting(p, s)
  BY DEF Still, Counted, Clean, Waiting
<1>3. Tallied(p)'
  BY <1>2 DEF Accounts, Still, Tallied
<1>4. Worked(p)'
  BY <1>1, <1>2 DEF Accounts, Still, Worked
<1> QED BY <1>1, <1>2, <1>3, <1>4 DEF Accounts, Still, Reports

\* What the others do.
LEMMA OthersStill ==
  ASSUME AuditInv, NEW p \in Launchers, NEW q \in Launchers, q # p,
         \/ BatchStep(p) \/ Launch(p) \/ PrepareFails(p) \/ LaunchFails(p) \/ Stop(p)
         \/ \E s \in Seeds : AttemptStep(p, s) \/ HostFails(p, s)
  PROVE  Still(q)
<1>1. pc'[q] = pc[q] /\ at'[q] = at[q] /\ attempts'[q] = attempts[q] /\ tally'[q] = tally[q]
  BY DEF AuditInv, TypeOK, BatchTypes, BatchStep, AttemptStep, PrepareSeed, EndPrepare, Setup, Take,
         EndRun, BeginCompile, CollectSeed, PublishExport, Launch, PrepareFails, LaunchFails, Stop,
         Abort, StartStage, RestartStage, Publish, FinishSeed, StageFails, HostFails, Leave, Tally,
         Goto, batchVars
<1>2. job'[q] = job[q]
  BY DEF AuditInv, TypeOK, JobTypes, BatchStep, AttemptStep, PrepareSeed, EndPrepare, Setup, Take,
         EndRun, BeginCompile, CollectSeed, PublishExport, Launch, PrepareFails, LaunchFails, Stop,
         Abort, StartStage, RestartStage, Publish, FinishSeed, StageFails, HostFails, Leave, Becomes
<1> QED BY <1>1, <1>2 DEF Still, AtWork

\* Whoever is not at a step of the batch says nothing.
LEMMA IdleAccounts ==
  ASSUME NEW p \in Launchers, pc'[p] = "idle"
  PROVE  Accounts(p)'
BY DEF Accounts, Tallied, Worked, Reports

LEMMA NobodyAtWork ==
  ASSUME AuditInv, NEW p \in Launchers, pc[p] # "run"
  PROVE  AtWork(p) = {} /\ Cardinality(AtWork(p)) = 0
<1>1. AtWork(p) = {}
  BY DEF AuditInv, JobsOwn, AtWork
<1> QED BY <1>1, FS_EmptySet

LEMMA LaunchAccounts ==
  ASSUME AuditInv, NEW p \in Launchers, Launch(p)
  PROVE  Accounts(p)'
<1>1. pc'[p] = "prepare" /\ at'[p] = 1 /\ attempts'[p] = <<>> /\ tally'[p] = NoTally
  BY DEF Launch, Goto, AuditInv, TypeOK, BatchTypes
<1>2. AtWork(p)' = AtWork(p) /\ pc[p] # "run"
  BY DEF Launch, AtWork
<1>3. Cardinality(AtWork(p)') = 0
  BY <1>2, NobodyAtWork
<1>4. Counted(p)' = 0 /\ Len(attempts'[p]) = 0
  BY <1>1 DEF Counted, NoTally
<1>5. Tallied(p)'
  BY <1>1, <1>3, <1>4 DEF Tallied
<1>6. Worked(p)' /\ ~ Reports(p)'
  BY <1>1, Domains DEF Worked, Reports
<1> QED BY <1>1, <1>5, <1>6 DEF Accounts

LEMMA PrepareAccounts ==
  ASSUME AuditInv, [Next]_vars, NEW p \in Launchers, Accounts(p), PrepareSeed(p) \/ PrepareFails(p)
  PROVE  Accounts(p)'
<1>s. PICK s \in Seeds : s = at[p]
  BY DEF PrepareSeed, PrepareFails
<1>1. /\ pc[p] = "prepare" /\ s \in Seeds /\ pc' = pc /\ job' = job /\ at'[p] = s + 1
      /\ BatchTypes /\ s \in Nat /\ Seeds \subseteq Nat
  BY <1>s, Domains DEF PrepareSeed, PrepareFails, AuditInv, TypeOK, BatchTypes
<1>2. AtWork(p) = {} /\ Cardinality(AtWork(p)) = 0 /\ AtWork(p)' = AtWork(p)
  BY <1>1, NobodyAtWork DEF AtWork
<1>3. /\ Counted(p) + Len(attempts[p]) = s - 1
      /\ Clean(p) => \A z \in Seeds : Complete(z) \/ Waiting(p, z) \/ s <= z
  <2>1. Counted(p) \in Nat /\ Len(attempts[p]) \in Nat
    BY <1>1 DEF BatchTypes, Counted
  <2> QED BY <1>s, <1>1, <1>2, <2>1 DEF Accounts, Tallied, Worked
<1>4. \A z \in Seeds : Complete(z) => Complete(z)'
  BY CompleteStays
<1>5. CASE UNCHANGED attempts /\ \E outcome \in {"skipped", "failed"} : Tally(p, outcome)
  <2>1. PICK outcome \in {"skipped", "failed"} : Tally(p, outcome)
    BY <1>5
  <2>2. Counted(p) \in Nat /\ Counted(p)' = Counted(p) + 1 /\ ~ Clean(p)'
    BY <1>1, <2>1, TallyCounts
  <2>3. Len(attempts[p]) \in Nat
    BY <1>1 DEF BatchTypes
  <2>4. Tallied(p)'
    BY <1>1, <1>2, <1>3, <1>5, <2>2, <2>3 DEF Tallied
  <2> QED BY <1>1, <2>2, <2>4 DEF Accounts, Worked, Reports
<1>6. CASE attempts' = [attempts EXCEPT ![p] = Append(@, s)] /\ UNCHANGED tally
  <2>1. attempts[p] \in Seq(Seeds) /\ attempts'[p] = Append(attempts[p], s)
    BY <1>1, <1>6 DEF BatchTypes
  <2>2. Len(attempts'[p]) = Len(attempts[p]) + 1 /\ Len(attempts[p]) \in Nat
    BY <1>1, <2>1, AppendWaits
  <2>w. Waiting(p, s)' /\ \A z : Waiting(p, z) => Waiting(p, z)'
    <3>1. Lists(attempts'[p], s) /\ \A z : Lists(attempts[p], z) => Lists(attempts'[p], z)
      BY <1>1, <2>1, AppendWaits
    <3> QED BY <3>1, WaitsInList
  <2>3. Counted(p)' = Counted(p) /\ Clean(p)' = Clean(p) /\ Counted(p) \in Nat
    BY <1>1, <1>6 DEF Counted, Clean, BatchTypes
  <2>4. Tallied(p)'
    BY <1>1, <1>2, <1>3, <2>2, <2>3 DEF Tallied
  <2>5. \A z \in Seeds : s <= z => z = s \/ s + 1 <= z
    BY <1>1
  <2>6. Worked(p)'
    <3>1. ASSUME Clean(p), NEW z \in Seeds PROVE Complete(z)' \/ Waiting(p, z)' \/ at'[p] <= z
      BY <1>1, <1>3, <1>4, <2>w, <2>5, <3>1
    <3> QED BY <1>1, <2>3, <3>1 DEF Worked
  <2> QED BY <1>1, <2>4, <2>6 DEF Accounts, Reports
<1> QED BY <1>s, <1>5, <1>6 DEF PrepareSeed, PrepareFails

\* Nothing is left to prepare, or to do.
LEMMA EndAccounts ==
  ASSUME AuditInv, [Next]_vars, NEW p \in Launchers, Accounts(p),
         EndPrepare(p) \/ Setup(p) \/ EndRun(p)
  PROVE  Accounts(p)'
<1>1. /\ BatchTypes /\ UNCHANGED <<at, attempts, tally, job>>
      /\ pc'[p] = (CASE pc[p] = "prepare" -> IF attempts[p] = <<>> THEN "compile" ELSE "setup"
                     [] pc[p] = "setup" -> "run"
                     [] pc[p] = "run" -> "compile")
      /\ pc[p] \in {"prepare", "setup", "run"}
      /\ pc[p] = "prepare" => at[p] \notin Seeds
      /\ pc[p] = "run" => attempts[p] = <<>> /\ AtWork(p) = {}
  BY DEF EndPrepare, Setup, EndRun, RunIsOver, Goto, AuditInv, TypeOK, BatchTypes
<1>2. AtWork(p)' = AtWork(p) /\ (pc[p] # "run" => AtWork(p) = {})
  BY <1>1, NobodyAtWork DEF AtWork
<1>3. \A z \in Seeds : Complete(z) => Complete(z)'
  BY CompleteStays
<1>4. Counted(p)' = Counted(p) /\ Clean(p)' = Clean(p) /\ \A z : Waiting(p, z)' = Waiting(p, z)
  BY <1>1 DEF Counted, Clean, Waiting
<1>5. pc[p] = "prepare" => at[p] - 1 = Len(Solutions) /\ \A z \in Seeds : ~(at[p] <= z)
  BY <1>1, Domains DEF BatchTypes
<1>6. Counted(p) + Len(attempts[p]) + Cardinality(AtWork(p)) = Len(Solutions)
  BY <1>1, <1>5 DEF Accounts, Tallied
<1>7. Clean(p) => \A z \in Seeds : Complete(z) \/ Waiting(p, z) \/ z \in AtWork(p)
  BY <1>1, <1>5 DEF Accounts, Worked
<1>8. CASE pc'[p] \in {"setup", "run"}
  BY <1>1, <1>2, <1>3, <1>4, <1>6, <1>7, <1>8 DEF Accounts, Tallied, Worked, Reports
<1>9. CASE pc'[p] = "compile"
  <2>1. attempts[p] = <<>> /\ AtWork(p) = {}
    BY <1>1, <1>2, <1>9
  <2>2. Len(attempts[p]) = 0 /\ Cardinality(AtWork(p)) = 0 /\ Counted(p) \in Nat
    BY <1>1, <2>1, FS_EmptySet DEF BatchTypes, Counted
  <2>3. Counted(p)' = Len(Solutions)
    BY <1>4, <1>6, <2>2
  <2>4. Clean(p) => \A z \in Seeds : Complete(z)
    BY <1>7, <2>1 DEF Waiting
  <2> QED BY <1>3, <1>4, <1>9, <2>3, <2>4 DEF Accounts, Tallied, Worked, Reports
<1> QED BY <1>1, <1>8, <1>9

LEMMA TakeAccounts ==
  ASSUME AuditInv, [Next]_vars, NEW p \in Launchers, Accounts(p), Take(p)
  PROVE  Accounts(p)'
<1>s. PICK s : s = Head(attempts[p])
  OBVIOUS
<1>1. /\ pc[p] = "run" /\ pc' = pc /\ attempts[p] # <<>> /\ attempts[p] \in Seq(Seeds)
      /\ attempts'[p] = Tail(attempts[p]) /\ BatchTypes /\ JobTypes
  BY DEF Take, AuditInv, TypeOK, BatchTypes
<1>2. Len(attempts'[p]) = Len(attempts[p]) - 1 /\ Len(attempts[p]) \in Nat /\ s \in Seeds
  BY <1>s, <1>1, TailWaits
<1>w. \A z : Waiting(p, z) => z = s \/ Waiting(p, z)'
  <2>1. \A z : Lists(attempts[p], z) => z = s \/ Lists(attempts'[p], z)
    BY <1>s, <1>1, TailWaits
  <2> QED BY <2>1, WaitsInList
<1>3. Counted(p) + Len(attempts[p]) + Cardinality(AtWork(p)) = Len(Solutions) /\ Counted(p) \in Nat
  BY <1>1 DEF Accounts, Tallied, BatchTypes, Counted
<1>c. Clean(p) => \A z \in Seeds : Complete(z) \/ Waiting(p, z) \/ z \in AtWork(p)
  BY <1>1 DEF Accounts, Worked
<1>4. \A z \in Seeds : Complete(z) => Complete(z)'
  BY CompleteStays
<1>5. CASE Contended(s)
  <2>1. Tally(p, "skipped") /\ job' = job
    BY <1>s, <1>5 DEF Take
  <2>2. Counted(p)' = Counted(p) + 1 /\ ~ Clean(p)' /\ AtWork(p)' = AtWork(p)
    BY <1>1, <2>1, TallyCounts DEF AtWork
  <2>3. Cardinality(AtWork(p)) \in Nat
    BY <1>2, AtWorkCounts
  <2>4. Tallied(p)'
    BY <1>1, <1>2, <1>3, <2>2, <2>3 DEF Tallied
  <2> QED BY <1>1, <2>2, <2>4 DEF Accounts, Worked, Reports
<1>6. CASE ~ Contended(s)
  <2>1. PICK next : Becomes(p, s, next) /\ next.step = "stage" /\ tally' = tally
    BY <1>s, <1>6 DEF Take
  <2>2. next # NoJob /\ s \notin AtWork(p)
    BY <1>2, <1>6, <2>1, NoneAssumption DEF NoJob, AtWork, Contended, AuditInv, JobsOwn
  <2>3. AtWork(p)' = AtWork(p) \cup {s}
    BY <1>1, <1>2, <2>1, <2>2, AtWorkChanges
  <2>4. Cardinality(AtWork(p)') = Cardinality(AtWork(p)) + 1 /\ Cardinality(AtWork(p)) \in Nat
    BY <1>2, <2>2, <2>3, AtWorkCounts
  <2>5. Counted(p)' = Counted(p) /\ Clean(p)' = Clean(p)
    BY <2>1 DEF Counted, Clean
  <2>6. Tallied(p)'
    <3>1. Counted(p) + (Len(attempts[p]) - 1) + (Cardinality(AtWork(p)) + 1) = Len(Solutions)
      BY SMTT(30), <1>2, <1>3, <2>4
    <3>2. Counted(p)' + Len(attempts'[p]) + Cardinality(AtWork(p)') = Len(Solutions)
      BY <1>2, <2>4, <2>5, <3>1
    <3> QED BY <1>1, <3>2 DEF Tallied
  <2>7. Worked(p)'
    BY <1>1, <1>2, <1>c, <1>w, <1>4, <2>3, <2>5 DEF Worked
  <2> QED BY <1>1, <2>6, <2>7 DEF Accounts, Reports
<1> QED BY <1>5, <1>6

\* An attempt is over: only what is complete was completed.
LEMMA LeaveAccounts ==
  ASSUME AuditInv, [Next]_vars, NEW p \in Launchers, NEW s \in Seeds, Accounts(p), pc[p] = "run",
         s \in AtWork(p), NEW outcome \in {"completed", "skipped", "failed"}, Leave(p, s, outcome),
         outcome = "completed" => Complete(s)
  PROVE  Accounts(p)'
<1>1. /\ pc' = pc /\ attempts' = attempts /\ at' = at /\ Tally(p, outcome) /\ Becomes(p, s, NoJob)
      /\ BatchTypes /\ JobTypes
  BY DEF Leave, AuditInv, TypeOK
<1>2. AtWork(p)' = AtWork(p) \ {s}
  BY <1>1, AtWorkChanges
<1>3. Cardinality(AtWork(p)') = Cardinality(AtWork(p)) - 1 /\ Cardinality(AtWork(p)) \in Nat
  BY <1>2, AtWorkCounts
<1>4. Counted(p) \in Nat /\ Counted(p)' = Counted(p) + 1 /\ (Clean(p)' => Clean(p) /\ Complete(s))
  BY <1>1, TallyCounts
<1>5. Len(attempts[p]) \in Nat
  BY <1>1 DEF BatchTypes
<1>6. Tallied(p)'
  <2>1. Counted(p) + Len(attempts[p]) + Cardinality(AtWork(p)) = Len(Solutions)
    BY DEF Accounts, Tallied
  <2>2. Counted(p)' + Len(attempts[p]) + Cardinality(AtWork(p)') = Len(Solutions)
    BY <1>3, <1>4, <1>5, <2>1
  <2> QED BY <1>1, <2>2 DEF Tallied
<1>7. \A z \in Seeds : Complete(z) => Complete(z)'
  BY CompleteStays
<1>8. Worked(p)'
  BY <1>1, <1>2, <1>4, <1>7 DEF Accounts, Worked, Waiting
<1> QED BY <1>1, <1>6, <1>8 DEF Accounts, Reports

\* The stages of an attempt.
LEMMA StageAccounts ==
  ASSUME AuditInv, [Next]_vars, NEW p \in Launchers, NEW s \in Seeds, Accounts(p),
         StartStage(p, s) \/ RestartStage(p, s) \/ Publish(p, s)
  PROVE  Accounts(p)'
<1>1. UNCHANGED batchVars /\ JobTypes /\ s \in AtWork(p)
  <2>1. At(p, s, "stage") \/ At(p, s, "judge")
    BY DEF StartStage, RestartStage, Publish
  <2>2. job[p][s] # NoJob
    BY <2>1 DEF At, NoJob
  <2> QED BY <2>2 DEF StartStage, RestartStage, Publish, AuditInv, TypeOK, AtWork
<1>2. AtWork(p)' = AtWork(p)
  <2>1. CASE RestartStage(p, s)
    BY <2>1 DEF RestartStage, AtWork
  <2>2. CASE StartStage(p, s)
    <3>1. PICK t : Becomes(p, s, [job[p][s] EXCEPT !.step = "judge", !.target = t])
      BY <2>2 DEF StartStage
    <3>2. job[p][s] \in Jobs(s) /\ job[p][s] # NoJob
      BY <1>1 DEF JobTypes, AtWork
    <3>3. [job[p][s] EXCEPT !.step = "judge", !.target = t] # NoJob
      BY <3>2 DEF Jobs, NoJob
    <3> QED BY <1>1, <3>1, <3>3, AtWorkChanges
  <2>3. CASE Publish(p, s)
    <3>1. PICK memory : Becomes(p, s, [step |-> "stage", target |-> None, memory |-> memory])
      BY <2>3 DEF Publish
    <3>2. [step |-> "stage", target |-> None, memory |-> memory] # NoJob
      BY DEF NoJob
    <3> QED BY <1>1, <3>1, <3>2, AtWorkChanges
  <2> QED BY <2>1, <2>2, <2>3
<1>3. Still(p)
  BY <1>1, <1>2 DEF Still, batchVars
<1> QED BY <1>3, StillAccounts

LEMMA CompileAccounts ==
  ASSUME AuditInv, [Next]_vars, NEW p \in Launchers, Accounts(p),
         BeginCompile(p) \/ CollectSeed(p) \/ PublishExport(p)
  PROVE  Accounts(p)'
<1>1. /\ pc[p] \in {"compile", "collect"} /\ pc'[p] \in {"compile", "collect", "done"}
      /\ tally' = tally
  BY DEF BeginCompile, CollectSeed, PublishExport, Goto, AuditInv, TypeOK, BatchTypes
<1>2. Counted(p)' = Counted(p) /\ Clean(p)' = Clean(p)
  BY <1>1 DEF Counted, Clean
<1>3. \A z \in Seeds : Complete(z) => Complete(z)'
  BY CompleteStays
<1> QED BY <1>1, <1>2, <1>3 DEF Accounts, Tallied, Worked, Reports

LEMMA AccountsStep ==
  ASSUME AuditInv, [Next]_vars, \A p \in Launchers : Accounts(p)
  PROVE  \A p \in Launchers : Accounts(p)'
<1>1. ASSUME UNCHANGED batchVars, UNCHANGED job PROVE \A p \in Launchers : Accounts(p)'
  <2>1. \A p \in Launchers : Still(p)
    BY <1>1 DEF Still, batchVars, AtWork
  <2> QED BY <2>1, StillAccounts
<1>2. ASSUME NEW p \in Launchers,
             \/ BatchStep(p) \/ Launch(p) \/ PrepareFails(p) \/ LaunchFails(p) \/ Stop(p)
             \/ \E s \in Seeds : AttemptStep(p, s) \/ HostFails(p, s)
      PROVE  \A q \in Launchers : Accounts(q)'
  <2>1. \A q \in Launchers : q # p => Accounts(q)'
    BY <1>2, OthersStill, StillAccounts
  <2>2. CASE BatchStep(p) \/ Launch(p) \/ PrepareFails(p)
    BY <2>1, <2>2, LaunchAccounts, PrepareAccounts, EndAccounts, TakeAccounts, CompileAccounts
    DEF BatchStep
  <2>3. CASE LaunchFails(p) \/ Stop(p)
    <3>1. pc'[p] = "idle"
      BY <2>3 DEF LaunchFails, Stop, Abort, Goto, AuditInv, TypeOK, BatchTypes
    <3> QED BY <2>1, <3>1, IdleAccounts
  <2>4. ASSUME NEW s \in Seeds, AttemptStep(p, s) \/ HostFails(p, s) PROVE Accounts(p)'
    <3>1. CASE StartStage(p, s) \/ RestartStage(p, s) \/ Publish(p, s)
      BY <3>1, StageAccounts
    <3>2. CASE FinishSeed(p, s)
      <4>1. At(p, s, "stage") /\ Missing(s, job[p][s].memory) = {} /\ Leave(p, s, "completed")
        BY <3>2 DEF FinishSeed
      <4>2. pc[p] = "run" /\ s \in AtWork(p) /\ Complete(s)
        BY <4>1, AtSeed DEF AtWork, Complete
      <4> QED BY <4>1, <4>2, LeaveAccounts
    <3>3. CASE StageFails(p, s) \/ HostFails(p, s)
      <4>1. (At(p, s, "stage") \/ At(p, s, "judge")) /\ Leave(p, s, "failed")
        BY <3>3 DEF StageFails, HostFails
      <4>2. pc[p] = "run" /\ s \in AtWork(p)
        BY <4>1, AtSeed DEF AtWork
      <4> QED BY <4>1, <4>2, LeaveAccounts
    <3> QED BY <2>4, <3>1, <3>2, <3>3 DEF AttemptStep
  <2> QED BY <1>2, <2>1, <2>2, <2>3, <2>4
<1>3. CASE UNCHANGED vars
  BY <1>1, <1>3 DEF vars
<1>4. ASSUME NEW s \in Seeds, SolverStops(s) PROVE \A p \in Launchers : Accounts(p)'
  BY <1>1, <1>4 DEF SolverStops
<1>5. ASSUME NEW t \in Targets, Judge(t) \/ LoseConnection(t) \/ WorkerFails(t)
      PROVE  \A p \in Launchers : Accounts(p)'
  BY <1>1, <1>5 DEF Judge, LoseConnection, WorkerFails, WorkerUnchanged
<1> QED BY <1>2, <1>3, <1>4, <1>5 DEF Next

----------------------------------------------------------------------------
(* What is reported is exported.                                           *)

\* A step that neither reads rows nor publishes them.
Aside ==
    /\ export' = export
    /\ \A q \in Launchers :
          /\ pc'[q] = "collect" => /\ pc[q] = "collect" /\ rows'[q] = rows[q] /\ at'[q] = at[q]
                                   /\ tally'[q] = tally[q] /\ (compiler = q => compiler' = q)
          /\ pc'[q] = "done" => pc[q] = "done" /\ tally'[q] = tally[q]

LEMMA AsideStep ==
  ASSUME AuditInv, [Next]_vars, Collected
  PROVE  Aside \/ \E p \in Launchers : BeginCompile(p) \/ CollectSeed(p) \/ PublishExport(p)
<1>t. BatchTypes /\ DOMAIN rows = Launchers
  BY DEF AuditInv, TypeOK, CompileTypes
<1>1. ASSUME UNCHANGED <<batchVars, compileVars>> PROVE Aside
  BY <1>1 DEF Aside, batchVars, compileVars
<1>2. ASSUME NEW p \in Launchers, UNCHANGED <<rows, compiler, export>>,
             pc'[p] \notin {"collect", "done"} \/ pc' = pc, pc[p] \notin {"collect", "done"},
             \A q \in Launchers \ {p} : pc'[q] = pc[q] /\ at'[q] = at[q] /\ tally'[q] = tally[q]
      PROVE  Aside
  BY <1>2 DEF Aside
<1>3. ASSUME NEW p \in Launchers, PrepareSeed(p) \/ PrepareFails(p) \/ EndPrepare(p) \/ Setup(p)
                                  \/ Take(p) \/ EndRun(p)
      PROVE  Aside
  <2>1. UNCHANGED <<rows, compiler, export>> /\ pc[p] \in {"prepare", "setup", "run"}
    BY <1>3 DEF PrepareSeed, PrepareFails, EndPrepare, Setup, Take, EndRun, RunIsOver, compileVars
  <2>2. pc'[p] \notin {"collect", "done"} \/ pc' = pc
    BY <1>t, <1>3 DEF PrepareSeed, PrepareFails, EndPrepare, Setup, Take, EndRun, Goto, BatchTypes
  <2>3. \A q \in Launchers \ {p} : Still(q)
    BY <1>3, OthersStill DEF BatchStep
  <2> QED BY <1>2, <2>1, <2>2, <2>3 DEF Still
<1>4. ASSUME NEW p \in Launchers, Launch(p) PROVE Aside
  <2>1. UNCHANGED <<rows, compiler, export>> /\ pc'[p] = "prepare"
    BY <1>t, <1>4 DEF Launch, Goto, BatchTypes, compileVars
  <2>2. \A q \in Launchers \ {p} : Still(q)
    BY <1>4, OthersStill
  <2> QED BY <2>1, <2>2 DEF Still, Aside
<1>5. ASSUME NEW p \in Launchers, LaunchFails(p) \/ Stop(p) PROVE Aside
  <2>1. export' = export /\ pc'[p] = "idle" /\ rows' = [rows EXCEPT ![p] = {}]
        /\ compiler' = IF compiler = p THEN None ELSE compiler
    BY <1>t, <1>5 DEF LaunchFails, Stop, Abort, CompilerWithout, Goto, BatchTypes
  <2>2. \A q \in Launchers \ {p} : Still(q) /\ rows'[q] = rows[q]
    BY <1>t, <1>5, <2>1, OthersStill
  <2> QED BY <2>1, <2>2 DEF Still, Aside
<1>6. ASSUME NEW p \in Launchers, NEW s \in Seeds, AttemptStep(p, s) \/ HostFails(p, s) PROVE Aside
  <2>1. UNCHANGED <<rows, compiler, export>> /\ pc' = pc
    BY <1>6 DEF AttemptStep, HostFails, StartStage, RestartStage, Publish, FinishSeed, StageFails, Leave,
                compileVars, batchVars
  <2>2. pc[p] = "run"
    BY <1>6 DEF AttemptStep, HostFails, StartStage, RestartStage, Publish, FinishSeed, StageFails, At
  <2>3. \A q \in Launchers \ {p} : Still(q)
    BY <1>6, OthersStill
  <2> QED BY <1>2, <2>1, <2>2, <2>3 DEF Still
<1>7. CASE UNCHANGED vars
  BY <1>1, <1>7 DEF vars
<1>8. ASSUME NEW s \in Seeds, SolverStops(s) PROVE Aside
  BY <1>1, <1>8 DEF SolverStops
<1>9. ASSUME NEW t \in Targets, Judge(t) \/ LoseConnection(t) \/ WorkerFails(t) PROVE Aside
  BY <1>1, <1>9 DEF Judge, LoseConnection, WorkerFails, WorkerUnchanged
<1> QED BY <1>3, <1>4, <1>5, <1>6, <1>7, <1>8, <1>9 DEF Next, BatchStep

\* What q has read of those who have reported.
Behind(q) ==
    \A p \in Launchers : Reports(p) /\ (p = q \/ pc[p] = "done") =>
        \A s \in Seeds : s < at[q] => CompleteRows(s, record[s]) \subseteq rows[q]

LEMMA CollectedStep ==
  ASSUME AuditInv, [Next]_vars, ReportInv
  PROVE  Collected'
<1>1. /\ \A s \in Seeds : Complete(s) => record'[s] = record[s]
      /\ \A p \in Launchers : Reports(p) => \A s \in Seeds : Complete(s)
      /\ BatchTypes /\ DOMAIN rows = Launchers /\ Collected /\ Seeds \subseteq Nat
  BY CompleteStays, Domains DEF ReportInv, ReportsAreTrue, AuditInv, TypeOK, CompileTypes
<1>2. ASSUME Aside PROVE Collected'
  <2>1. SUFFICES ASSUME NEW q \in Launchers, pc'[q] = "collect"
                 PROVE  compiler' = q /\ Behind(q)'
    BY DEF Collected, Behind
  <2>2. pc[q] = "collect" /\ rows'[q] = rows[q] /\ at'[q] = at[q] /\ tally'[q] = tally[q]
        /\ compiler = q /\ compiler' = q
    BY <1>1, <1>2, <2>1 DEF Aside, Collected
  <2>3. ASSUME NEW p \in Launchers, Reports(p)', p = q \/ pc'[p] = "done"
        PROVE  Reports(p) /\ (p = q \/ pc[p] = "done")
    BY <1>2, <2>1, <2>2, <2>3 DEF Aside, Reports, Clean
  <2>4. ASSUME NEW p \in Launchers, Reports(p)', p = q \/ pc'[p] = "done", NEW s \in Seeds, s < at'[q]
        PROVE  CompleteRows(s, record'[s]) \subseteq rows'[q]
    <3>1. Reports(p) /\ (p = q \/ pc[p] = "done")
      BY <2>3, <2>4
    <3>2. record'[s] = record[s]
      BY <1>1, <3>1
    <3> QED BY <1>1, <2>2, <2>4, <3>1, <3>2 DEF Collected
  <2> QED BY <2>2, <2>4 DEF Behind
<1>3. ASSUME NEW r \in Launchers, BeginCompile(r) PROVE Collected'
  <2>1. /\ pc[r] = "compile" /\ compiler = None /\ compiler' = r /\ at'[r] = 1
        /\ pc'[r] = "collect" /\ \A q \in Launchers \ {r} : pc'[q] = pc[q]
    BY <1>1, <1>3 DEF BeginCompile, CompilerIsFree, Goto, BatchTypes
  <2>2. \A q \in Launchers : pc[q] # "collect"
    BY <1>1, <2>1, NoneAssumption DEF Collected
  <2>3. \A s \in Seeds : ~(s < at'[r])
    BY <2>1, Domains
  <2> QED BY <2>1, <2>2, <2>3 DEF Collected
<1>4. ASSUME NEW r \in Launchers, CollectSeed(r) PROVE Collected'
  <2>1. /\ pc' = pc /\ tally' = tally /\ record' = record /\ compiler' = compiler
        /\ pc[r] = "collect" /\ at[r] \in Seeds /\ at'[r] = at[r] + 1
        /\ rows'[r] = rows[r] \cup CompleteRows(at[r], record[at[r]])
    BY <1>1, <1>4 DEF CollectSeed, BatchTypes, seedVars
  <2>2. SUFFICES ASSUME NEW q \in Launchers, pc[q] = "collect"
                 PROVE  compiler' = q /\ Behind(q)'
    BY <2>1 DEF Collected, Behind
  <2>3. compiler' = q /\ q = r
    BY <1>1, <2>1, <2>2 DEF Collected
  <2>4. ASSUME NEW p \in Launchers, Reports(p)', p = q \/ pc'[p] = "done", NEW s \in Seeds, s < at'[q]
        PROVE  CompleteRows(s, record'[s]) \subseteq rows'[q]
    <3>1. Reports(p) /\ (p = r \/ pc[p] = "done")
      BY <2>1, <2>3, <2>4 DEF Reports, Clean
    <3>2. s < at[r] \/ s = at[r]
      BY <1>1, <2>1, <2>3, <2>4
    <3>3. s < at[r] => CompleteRows(s, record[s]) \subseteq rows[r]
      BY <1>1, <2>1, <3>1 DEF Collected
    <3> QED BY <2>1, <2>3, <3>2, <3>3
  <2> QED BY <2>3, <2>4 DEF Behind
<1>5. ASSUME NEW r \in Launchers, PublishExport(r) PROVE Collected'
  <2>1. pc[r] = "collect" /\ pc'[r] = "done" /\ \A q \in Launchers \ {r} : pc'[q] = pc[q]
    BY <1>1, <1>5 DEF PublishExport, Goto, BatchTypes
  <2>2. \A q \in Launchers : pc'[q] # "collect"
    BY <1>1, <2>1 DEF Collected
  <2> QED BY <2>2 DEF Collected
<1> QED BY <1>1, <1>2, <1>3, <1>4, <1>5, AsideStep

LEMMA ExportedStep ==
  ASSUME AuditInv, [Next]_vars, ReportInv
  PROVE  Exported'
<1>1. /\ \A s \in Seeds : Complete(s) => record'[s] = record[s]
      /\ \A p \in Launchers : Reports(p) => \A s \in Seeds : Complete(s)
      /\ BatchTypes /\ Collected /\ Exported
  BY CompleteStays DEF ReportInv, ReportsAreTrue, AuditInv, TypeOK
<1>2. ASSUME export' = export, \A p \in Launchers : pc'[p] = "done" => pc[p] = "done" /\ tally'[p] = tally[p]
      PROVE  Exported'
  <2>1. ASSUME NEW p \in Launchers, Reports(p)', pc'[p] = "done", NEW s \in Seeds
        PROVE  CompleteRows(s, record'[s]) \subseteq export'
    <3>1. pc[p] = "done" /\ Reports(p)
      BY <1>2, <2>1 DEF Reports, Clean
    <3> QED BY <1>1, <1>2, <3>1 DEF Exported
  <2> QED BY <2>1 DEF Exported
<1>3. ASSUME NEW r \in Launchers, BeginCompile(r) \/ CollectSeed(r) PROVE Exported'
  <2>1. export' = export /\ tally' = tally /\ \A p \in Launchers : pc'[p] = "done" => pc[p] = "done"
    BY <1>1, <1>3 DEF BeginCompile, CollectSeed, Goto, BatchTypes
  <2> QED BY <1>2, <2>1
<1>4. ASSUME NEW r \in Launchers, PublishExport(r) PROVE Exported'
  <2>1. /\ pc[r] = "collect" /\ at[r] \notin Seeds /\ export' = rows[r] /\ tally' = tally
        /\ \A q \in Launchers \ {r} : pc'[q] = pc[q]
    BY <1>1, <1>4 DEF PublishExport, Goto, BatchTypes
  <2>2. \A s \in Seeds : s < at[r]
    BY <1>1, <2>1, Domains DEF BatchTypes
  <2>3. ASSUME NEW p \in Launchers, Reports(p)', pc'[p] = "done", NEW s \in Seeds
        PROVE  CompleteRows(s, record'[s]) \subseteq export'
    <3>1. Reports(p) /\ (p = r \/ pc[p] = "done")
      BY <2>1, <2>3 DEF Reports, Clean
    <3> QED BY <1>1, <2>1, <2>2, <3>1 DEF Collected
  <2> QED BY <2>3 DEF Exported
<1> QED BY <1>1, <1>2, <1>3, <1>4, AsideStep DEF Aside

LEMMA ReportInit == Init => ReportInv
<1> SUFFICES ASSUME Init PROVE ReportInv
  OBVIOUS
<1>1. \A p \in Launchers : pc[p] = "idle"
  BY DEF Init
<1> QED BY <1>1 DEF ReportInv, Tallied, Worked, AllAccounted, ReportsAreTrue, Collected, Exported, Reports

LEMMA ReportStep ==
  ASSUME AuditInv, ReportInv, [Next]_vars
  PROVE  ReportInv'
<1>1. \A p \in Launchers : Accounts(p)
  BY DEF ReportInv, AllAccounted, ReportsAreTrue, Accounts, Counted
<1>2. \A p \in Launchers : Accounts(p)'
  BY <1>1, AccountsStep
<1>3. (\A p \in Launchers : Tallied(p)' /\ Worked(p)') /\ AllAccounted' /\ ReportsAreTrue'
  BY <1>2 DEF AllAccounted, ReportsAreTrue, Accounts, Counted
<1> QED BY <1>3, CollectedStep, ExportedStep DEF ReportInv

----------------------------------------------------------------------------
(* The theorems.                                                           *)

\* The inductive invariant.
THEOREM Invariance == Spec => []AuditInv
<1>1. Init => AuditInv
  BY InitInvariant
<1>2. AuditInv /\ [Next]_vars => AuditInv'
  BY NextInvariant
<1> QED BY <1>1, <1>2, PTL DEF Spec

\* Every state is of the types that TypeOK gives.
THEOREM TypeCorrect == Spec => []TypeOK
<1>1. AuditInv => TypeOK
  BY DEF AuditInv
<1> QED BY <1>1, Invariance, PTL

\* Records stay consistent, however audits are broken off and taken up.
THEOREM RecordsStayConsistent == Spec => []RecordsAreConsistent
<1>1. AuditInv => RecordsAreConsistent
  BY DEF AuditInv
<1> QED BY <1>1, Invariance, PTL

\* Verdicts belong to the text, the stage and the judge they are saved with.
THEOREM VerdictsBelong == Spec => []VerdictsWereGiven
<1>1. AuditInv => VerdictsWereGiven
  BY DEF AuditInv
<1> QED BY <1>1, Invariance, PTL

\* A seed has one judge at a time, for a stage that has no verdict.
THEOREM JudgesAreExclusive == Spec => []OneJudge
<1>1. AuditInv => OneJudge
  <2>1. SUFFICES ASSUME AuditInv, NEW s \in Seeds
                 PROVE  Cardinality(Judging(s)) <= 1 /\ Judging(s) \subseteq Missing(s, record[s])
    BY DEF OneJudge
  <2>2. Judging(s) \subseteq NextStage(s, record[s])
    BY <2>1 DEF AuditInv, JudgedIsNext, Judging
  <2>3. Judging(s) \subseteq Missing(s, record[s])
    BY <2>2 DEF NextStage
  <2>4. CASE Judging(s) = {}
    <3>1. Cardinality(Judging(s)) = 0
      BY <2>4, FS_EmptySet
    <3> QED BY <2>3, <3>1
  <2>5. CASE Judging(s) # {}
    <3>1. PICK t : t \in Judging(s)
      BY <2>5
    <3>2. Judging(s) = {t}
      BY <2>2, <3>1, NextIsUnique
    <3>3. Cardinality(Judging(s)) = 1
      BY <3>2, FS_Singleton
    <3> QED BY <2>3, <3>3
  <2> QED BY <2>4, <2>5
<1> QED BY <1>1, Invariance, PTL

\* No step changes or loses a verdict once it is saved.
THEOREM VerdictsAreKept == Spec => VerdictsKept
<1> DEFINE Kept == \A s \in Seeds : \A i \in Labels(s) : \A kind \in Kinds :
                      record[s][i][kind] # None => record'[s][i][kind] = record[s][i][kind]
<1>1. AuditInv /\ [Next]_vars => [Kept]_record
  BY RecordsGrow
<1>2. [][Kept]_record => VerdictsKept
  BY DEF VerdictsKept
<1> QED BY <1>1, <1>2, Invariance, PTL DEF Spec

\* What a launcher counts and reports is inductive: every seed it has passed is counted,
\* waiting or worked on, and while nothing was skipped or failed the rest is complete.
THEOREM ReportInvariance == Spec => [](AuditInv /\ ReportInv)
<1>1. Init => AuditInv /\ ReportInv
  BY InitInvariant, ReportInit
<1>2. AuditInv /\ ReportInv /\ [Next]_vars => ReportInv'
  BY ReportStep
<1> QED BY <1>1, <1>2, Invariance, PTL DEF Spec

\* A launch that gets as far as the export has counted every seed exactly once, however its
\* tasks interleave and whatever other launchers take from it: BaseLauncher.run's report.
THEOREM EverySeedIsAccounted == Spec => []AllAccounted
<1>1. ReportInv => AllAccounted
  BY DEF ReportInv
<1> QED BY <1>1, ReportInvariance, PTL

\* A launch that reports every seed completed finds all its verdicts in audit.jsonl, for good,
\* though the compiler reads records without their locks and others compile after it.
THEOREM ReportedSeedsAreExported == Spec => []ReportedIsExported
<1>1. AuditInv /\ ReportInv => ReportedIsExported
  <2>1. SUFFICES ASSUME AuditInv, ReportInv, NEW p \in Launchers, pc[p] = "done",
                        tally[p].completed = Len(Solutions), NEW s \in Seeds
                 PROVE  Missing(s, record[s]) = {} /\ CompleteRows(s, record[s]) \subseteq export
    BY DEF ReportedIsExported
  <2>2. tally[p] \in [completed : Nat, skipped : Nat, failed : Nat]
    BY <2>1 DEF AuditInv, TypeOK, BatchTypes
  <2>3. tally[p].completed + tally[p].skipped + tally[p].failed = Len(Solutions)
    BY <2>1 DEF ReportInv, AllAccounted
  <2>4. Reports(p)
    BY <2>1, <2>2, <2>3 DEF Reports, Clean
  <2> QED BY <2>1, <2>4 DEF ReportInv, ReportsAreTrue, Exported, Complete
<1> QED BY <1>1, ReportInvariance, PTL

----------------------------------------------------------------------------
(* The abstract specification: texts are judged once, in order.            *)

Solved(s) == {i \in Labels(s) : Solutions[s][i] # Blank}

\* Nothing before the next stage is missing.
LEMMA NextIsFirst ==
  ASSUME NEW s \in Seeds, NEW rec, NEW t \in NextStage(s, rec),
         NEW j \in Labels(s), NEW kind \in Kinds, j < t[2]
  PROVE  rec[j][kind] # None
<1> DEFINE u == <<s, j, kind>>
<1>1. SUFFICES ASSUME rec[j][kind] = None PROVE FALSE
  OBVIOUS
<1>2. u \in {s} \X Labels(s) \X Kinds /\ rec[u[2]][u[3]] = None
  BY <1>1
<1>3. t[2] \in Nat /\ j \in Nat
  BY NextIsMissing, Domains
<1>4. u # t
  BY <1>3
<1>5. Before(t, u)
  BY <1>2, <1>4 DEF NextStage, Missing
<1> QED BY <1>3, <1>5 DEF Before

\* A published verdict is that of every checkpoint with its text, and of no other.
LEMMA PublishedVerdict ==
  ASSUME NEW s \in Seeds, NEW rec \in Records(s), NEW t \in NextStage(s, rec),
         Consistent(s, rec), Settled(s, rec), NEW v \in Verdicts
  PROVE  /\ t[2] \in Solved(s)
         /\ \A i \in Solved(s), kind \in Kinds :
              Reuse(s, [rec EXCEPT ![t[2]][t[3]] = v])[i][kind] =
                IF Solutions[s][i] = Solutions[s][t[2]] /\ kind = t[3] THEN v ELSE rec[i][kind]
<1> DEFINE up == [rec EXCEPT ![t[2]][t[3]] = v]
<1>1. t[2] \in Labels(s) /\ t[3] \in Kinds /\ rec[t[2]][t[3]] = None
  BY NextIsMissing
<1>2. v # None
  BY NoneAssumption
<1>3. up \in Records(s)
  BY <1>1 DEF Records
<1>4. \A i \in Labels(s), kind \in Kinds :
        up[i][kind] = IF i = t[2] /\ kind = t[3] THEN v ELSE rec[i][kind]
  BY <1>1 DEF Records
<1>5. t[2] \in Solved(s)
  <2>1. SUFFICES ASSUME Solutions[s][t[2]] = Blank PROVE FALSE
    BY <1>1 DEF Solved
  <2>2. rec[t[2]] = [kind \in Kinds |-> Skipped(kind)]
    BY <1>1, <2>1 DEF Settled
  <2> QED BY <1>1, <2>2, SkippedType
<1> HIDE DEF up
<1>6. ASSUME NEW i \in Solved(s), NEW kind \in Kinds
      PROVE  Reuse(s, up)[i][kind] =
               IF Solutions[s][i] = Solutions[s][t[2]] /\ kind = t[3] THEN v ELSE rec[i][kind]
  <2>1. i \in Labels(s) /\ Solutions[s][i] # Blank
    BY DEF Solved
  <2>2. /\ up[i][kind] # None => Reuse(s, up)[i][kind] = up[i][kind]
        /\ \/ /\ Reuse(s, up)[i][kind] = None
              /\ \A j \in Labels(s) : Solutions[s][j] = Solutions[s][i] => up[j][kind] = None
           \/ \E j \in Labels(s) : /\ Solutions[s][j] = Solutions[s][i]
                                   /\ up[j][kind] # None
                                   /\ Reuse(s, up)[i][kind] = up[j][kind]
    BY <1>3, <2>1, ReuseAt
  <2>3. \A j \in Labels(s) : Solutions[s][j] = Solutions[s][i] => rec[j] = rec[i]
    BY <2>1 DEF Consistent
  <2>4. CASE Solutions[s][i] = Solutions[s][t[2]] /\ kind = t[3]
    <3>1. \A j \in Labels(s) : Solutions[s][j] = Solutions[s][i] /\ up[j][kind] # None => up[j][kind] = v
      BY <1>1, <1>4, <2>3, <2>4
    <3>2. up[t[2]][kind] = v
      BY <1>1, <1>4, <2>4
    <3> QED BY <1>1, <1>2, <2>2, <2>4, <3>1, <3>2
  <2>5. CASE ~ (Solutions[s][i] = Solutions[s][t[2]] /\ kind = t[3])
    <3>1. \A j \in Labels(s) : Solutions[s][j] = Solutions[s][i] => up[j][kind] = rec[i][kind]
      BY <1>4, <2>3, <2>5
    <3> QED BY <2>1, <2>2, <2>5, <3>1
  <2> QED BY <2>4, <2>5
<1> QED BY <1>5, <1>6 DEF up

\* What needs no judge shows no verdict that was not there.
LEMMA ReuseShowsNothing ==
  ASSUME AuditInv, NEW s \in Seeds, record' = [record EXCEPT ![s] = Reuse(s, record[s])]
  PROVE  Shown' = Shown
<1>1. record'[s] = Reuse(s, record[s]) /\ \A z \in Seeds \ {s} : record'[z] = record[z]
  BY DEF AuditInv, TypeOK, SeedTypes
<1>2. record[s] \in Records(s) /\ Reuse(s, record[s]) \in Records(s)
  BY ReuseHere
<1>3. ASSUME NEW i \in Solved(s) PROVE Reuse(s, record[s])[i] = record[s][i]
  <2>1. i \in Labels(s) /\ Solutions[s][i] # Blank
    BY DEF Solved
  <2>2. CASE Settled(s, record[s])
    BY <2>2, ReuseHere
  <2>3. CASE record[s] = NoVerdicts(s)
    <3>1. \A j \in Labels(s), kind \in Kinds : record[s][j][kind] = None
      BY <2>3 DEF NoVerdicts
    <3>2. ASSUME NEW kind \in Kinds PROVE Reuse(s, record[s])[i][kind] = None
      BY <1>2, <2>1, <3>1, ReuseAt
    <3>3. /\ Reuse(s, record[s])[i] = [kind \in Kinds |-> Reuse(s, record[s])[i][kind]]
          /\ record[s][i] = [kind \in Kinds |-> record[s][i][kind]]
      BY <1>2, <2>1 DEF Records
    <3> QED BY <2>1, <3>1, <3>2, <3>3
  <2> QED BY <2>2, <2>3 DEF AuditInv, RecordsSettled
<1>4. \A z \in Seeds : \A i \in Solved(z) : record'[z][i] = record[z][i]
  BY <1>1, <1>3
<1> QED BY <1>4 DEF Shown, Solved

\* The verdict that is published is the next one, of its text, by its judge.
LEMMA PublishGives ==
  ASSUME AuditInv, NEW p \in Launchers, NEW s \in Seeds, Publish(p, s)
  PROVE  \E i \in Solved(s), kind \in Kinds : Judged!GiveVerdict(s, i, kind, p)
<1> DEFINE t == job[p][s].target
           v == Verdict(Text(t), t[3], worker[t].by, p)
           rec == Reuse(s, [record[s] EXCEPT ![t[2]][t[3]] = v])
<1>1. At(p, s, "judge")
  BY DEF Publish
<1>2. /\ job[p][s].memory = record[s] /\ record[s] \in Records(s)
      /\ t \in NextStage(s, record[s]) /\ worker[t].by = p
      /\ Consistent(s, record[s]) /\ Settled(s, record[s])
  BY <1>1, AtSeed
<1>3. /\ t = <<s, t[2], t[3]>> /\ t[2] \in Labels(s) /\ t[3] \in Kinds
      /\ record[s][t[2]][t[3]] = None
      /\ t[3] = "step_recognition" => record[s][t[2]]["correctness"] # None
  BY <1>2, NextIsMissing
<1>4. v = [text |-> Solutions[s][t[2]], kind |-> t[3], by |-> p, judge |-> p]
  BY <1>2, <1>3 DEF Verdict, Text
<1>5. v \in Verdicts
  <2>1. Solutions[s][t[2]] \in Texts
    BY <1>3, Domains
  <2> QED BY <1>3, <1>4, <2>1 DEF Verdicts
<1>6. record' = [record EXCEPT ![s] = rec]
  BY <1>2 DEF Publish
<1>7. record'[s] = rec /\ \A z \in Seeds \ {s} : record'[z] = record[z]
  BY <1>6 DEF AuditInv, TypeOK, SeedTypes
<1>8. rec \in Records(s)
  <2>1. PICK r \in Records(s) : record' = [record EXCEPT ![s] = r]
    BY ZenonT(40), PublishHere
  <2>2. record'[s] = r
    BY <2>1 DEF AuditInv, TypeOK, SeedTypes
  <2> QED BY <1>7, <2>2
<1>9. /\ t[2] \in Solved(s)
      /\ \A i \in Solved(s), kind \in Kinds : rec[i][kind] =
           IF Solutions[s][i] = Solutions[s][t[2]] /\ kind = t[3] THEN v ELSE record[s][i][kind]
  <2> HIDE DEF t, v
  <2> QED BY <1>2, <1>5, PublishedVerdict
<1>10. \A j \in Labels(s), kind \in Kinds : j < t[2] => record[s][j][kind] # None
  <2> HIDE DEF t
  <2> QED BY <1>2, NextIsFirst
<1> HIDE DEF t, v, rec
<1>11. /\ DOMAIN Shown = Seeds
       /\ \A z \in Seeds : DOMAIN Shown[z] = Solved(z) /\ \A i \in Solved(z) : Shown[z][i] = record[z][i]
  BY DEF Shown, Solved
<1>12. Judged!IsNext(s, t[2], t[3])
  <2>1. /\ Shown[s][t[2]] = record[s][t[2]]
        /\ \A j \in Solved(s) : Shown[s][j] = record[s][j] /\ j \in Labels(s)
    BY <1>9, <1>11 DEF Solved
  <2>2. Judged!Solved(s) = Solved(s) /\ Judged!Stages = Kinds
    BY DEF Judged!Solved, Solved, Labels, Judged!Stages, Kinds
  <2> QED BY <1>3, <1>10, <2>1, <2>2 DEF Judged!IsNext
<1> DEFINE new == [j \in Solved(s) |-> [other \in Kinds |->
             IF Solutions[s][j] = Solutions[s][t[2]] /\ other = t[3] THEN v ELSE Shown[s][j][other]]]
<1>13. Shown' = [Shown EXCEPT ![s] = new]
  <2>1. /\ Shown' = [z \in Seeds |-> [i \in Solved(z) |-> record'[z][i]]]
        /\ Shown = [z \in Seeds |-> [i \in Solved(z) |-> record[z][i]]]
    BY DEF Shown, Solved
  <2>2. ASSUME NEW j \in Solved(s) PROVE rec[j] = new[j]
    <3>1. rec[j] = [other \in Kinds |-> rec[j][other]]
      BY <1>8 DEF Records, Solved
    <3>2. \A other \in Kinds : rec[j][other] =
            IF Solutions[s][j] = Solutions[s][t[2]] /\ other = t[3] THEN v ELSE Shown[s][j][other]
      BY <1>9, <1>11
    <3>3. new[j] = [other \in Kinds |->
             IF Solutions[s][j] = Solutions[s][t[2]] /\ other = t[3] THEN v ELSE Shown[s][j][other]]
      OBVIOUS
    <3> HIDE DEF new
    <3> QED BY <3>1, <3>2, <3>3
  <2>3. new = [j \in Solved(s) |-> new[j]]
    OBVIOUS
  <2> HIDE DEF new
  <2>4. [i \in Solved(s) |-> record'[s][i]] = new
    BY <1>7, <2>2, <2>3
  <2>5. \A z \in Seeds \ {s} : [i \in Solved(z) |-> record'[z][i]] = [i \in Solved(z) |-> record[z][i]]
    BY <1>7
  <2> QED BY <2>1, <2>4, <2>5
<1>14. Judged!GiveVerdict(s, t[2], t[3], p)
  BY <1>4, <1>12, <1>13
  DEF Judged!GiveVerdict, Judged!Solved, Solved, Labels, Judged!Stages, Kinds
<1> QED BY <1>3, <1>9, <1>14

LEMMA JudgedStep ==
  ASSUME AuditInv, [Next]_vars
  PROVE  Judged!JudgedNext \/ Shown' = Shown
<1>1. CASE record' = record
  BY <1>1 DEF Shown
<1>2. CASE Next /\ record' # record
  <2>1. ASSUME NEW p \in Launchers, PrepareSeed(p) \/ PrepareFails(p) PROVE Shown' = Shown
    BY <1>2, <2>1, ReuseShowsNothing DEF PrepareSeed, PrepareFails
  <2>2. ASSUME NEW p \in Launchers, Take(p) PROVE Shown' = Shown
    <3>1. Head(attempts[p]) \in Seeds
      BY <2>2 DEF Take, AuditInv, TypeOK, BatchTypes
    <3> QED BY <1>2, <2>2, <3>1, ReuseShowsNothing DEF Take
  <2>3. ASSUME NEW p \in Launchers, NEW s \in Seeds, Publish(p, s) PROVE Judged!JudgedNext
    <3>1. PICK i \in Solved(s), kind \in Kinds : Judged!GiveVerdict(s, i, kind, p)
      BY <2>3, PublishGives
    <3>2. s \in DOMAIN Solutions /\ i \in Judged!Solved(s) /\ kind \in Judged!Stages
      BY DEF Seeds, Solved, Labels, Judged!Solved, Judged!Stages, Kinds
    <3> QED BY <3>1, <3>2 DEF Judged!JudgedNext
  <2> QED BY <1>2, <2>1, <2>2, <2>3, WhoRecords
<1> QED BY <1>1, <1>2 DEF vars, seedVars

\* Seen from outside, audit.py judges each text of a seed in its turn and once in each stage,
\* and the verdict is at once that of all its checkpoints: whoever is killed, retries or takes
\* over, and whatever else is judged meanwhile.
THEOREM RefinesJudgedTexts == Spec => ImplementsJudgedTexts
<1>1. Init => Judged!JudgedInit
  BY DEF Init, NoVerdicts, Shown, Seeds, Labels, Kinds,
         Judged!JudgedInit, Judged!Solved, Judged!Stages
<1>2. AuditInv /\ [Next]_vars => [Judged!JudgedNext]_Shown
  BY JudgedStep
<1> QED BY <1>1, <1>2, Invariance, PTL DEF Spec, ImplementsJudgedTexts, Judged!JudgedSpec

=============================================================================
