--------------------------- MODULE SelfRefineProofs ---------------------------
(***************************************************************************)
(* Theorems about SelfRefine for every allowance, retry limit and bound.   *)
(* The inductive invariant relates what the process holds in memory to     *)
(* what the archive holds, control point by control point.                 *)
(***************************************************************************)
EXTENDS SelfRefine, FiniteSetTheorems, WellFoundedInduction, TLAPS

-----------------------------------------------------------------------------
(* What the operators of Refinement return, preserve and leave alone, for  *)
(* every progress record.                                                  *)

\* A fresh record is well formed: it owes a natural number of labels.
LEMMA NewProgressType == IsProgress(NewProgress)
<1>0. IsFiniteSet({}) /\ DOMAIN NewProgress.solution_checkpoints = {}
  BY FS_EmptySet DEF NewProgress
<1>1. CeilDiv(Budget, Block) \in Nat /\ (PauseAt # 0 => CeilDiv(PauseAt, Block) \in Nat)
  BY AllowanceAssumption DEF CeilDiv
<1>2. QED
  BY <1>0, <1>1, AllowanceAssumption
     DEF IsProgress, IsRecord, NewProgress, Phases, Statuses, NoPause, NoSolution

\* Freezing labels touches nothing else and never an older label
\* (self_refine.py _capture_solution_checkpoints).
LEMMA CaptureKeeps ==
  ASSUME NEW s, IsProgress(s), NEW t
  PROVE  /\ IsProgress(Capture(s, t))
         /\ Extends(Capture(s, t), s)
         /\ Capture(s, t).output_tokens = s.output_tokens
         /\ Capture(s, t).warning_sent = s.warning_sent
         /\ Capture(s, t).status = s.status
<1> DEFINE frozen == s.solution_checkpoints
           after == [m \in DOMAIN frozen \cup Crossed(s, t) |->
                       IF m \in DOMAIN frozen THEN frozen[m] ELSE s.solution]
<1>1. Capture(s, t) = [s EXCEPT !.solution_checkpoints = after]
  BY DEF Capture
<1>2. after \in [DOMAIN after -> Nat]
  BY DEF IsProgress, IsRecord
<1>3. \A m \in DOMAIN frozen : m \in DOMAIN after /\ after[m] = frozen[m]
  OBVIOUS
<1>4. IsFiniteSet(DOMAIN after)
  <2>1. Crossed(s, t) \subseteq 1 .. s.checkpoint_count
    BY DEF Crossed, OpenLabels
  <2>2. IsFiniteSet(1 .. s.checkpoint_count)
    <3>1. s.checkpoint_count \in Int /\ 1 \in Int
      BY DEF IsProgress, IsRecord
    <3>2. QED
      BY <3>1, FS_Interval
  <2>3. IsFiniteSet(Crossed(s, t)) /\ IsFiniteSet(DOMAIN frozen)
    BY <2>1, <2>2, FS_Subset DEF IsProgress
  <2>4. QED
    BY <2>3, FS_Union
<1> HIDE DEF after
<1>5. QED
  BY <1>1, <1>2, <1>3, <1>4 DEF IsProgress, IsRecord, Extends

\* A usage report changes the token count and freezes labels.
LEMMA UpdateKeeps ==
  ASSUME NEW s, IsProgress(s), NEW total \in Nat
  PROVE  /\ IsProgress(UpdateTokenUsage(s, total))
         /\ Extends(UpdateTokenUsage(s, total), s)
         /\ UpdateTokenUsage(s, total).output_tokens = total
         /\ UpdateTokenUsage(s, total).warning_sent = s.warning_sent
         /\ UpdateTokenUsage(s, total).status = s.status
<1> DEFINE r == [s EXCEPT !.output_tokens = total]
<1>1. IsProgress(r) /\ r.output_tokens = total /\ r.status = s.status
      /\ r.warning_sent = s.warning_sent
      /\ r.solution_checkpoints = s.solution_checkpoints
  BY DEF IsProgress, IsRecord
<1>2. UpdateTokenUsage(s, total) = Capture(r, total - 1)
  BY DEF UpdateTokenUsage
<1> HIDE DEF r
<1>3. QED
  BY <1>1, <1>2, CaptureKeeps DEF Extends

\* The notice changes one flag, and sets it exactly when a notice is queued.
LEMMA WarnKeeps ==
  ASSUME NEW s, IsProgress(s)
  PROVE  /\ IsProgress(WarnIfNeeded(s))
         /\ Extends(WarnIfNeeded(s), s)
         /\ WarnIfNeeded(s).output_tokens = s.output_tokens
         /\ WarnIfNeeded(s).status = s.status
         /\ WarnIfNeeded(s).warning_sent => s.warning_sent \/ NeedsWarning(s)
  BY DEF IsProgress, IsRecord, WarnIfNeeded, Extends

\* The allowance decides between three statuses.
LEMMA BudgetStatusType == ASSUME NEW s PROVE BudgetStatus(s) \in Statuses
  BY DEF BudgetStatus, Statuses

\* Applying a reply keeps tokens, notice and labels.
LEMMA ApplyKeeps ==
  ASSUME NEW s, IsProgress(s), NEW noGaps \in BOOLEAN
  PROVE  /\ IsProgress(ApplyPhaseResult(s, noGaps))
         /\ Extends(ApplyPhaseResult(s, noGaps), s)
         /\ ApplyPhaseResult(s, noGaps).output_tokens = s.output_tokens
         /\ ApplyPhaseResult(s, noGaps).warning_sent = s.warning_sent
<1> DEFINE r == ApplyPhaseResult(s, noGaps)
<1>1. CASE s.phase = "critique"
  <2> DEFINE streak == IF noGaps THEN s.no_gap_critiques + 1 ELSE 0
             rounds == s.rounds + 1
  <2>1. streak \in Nat /\ rounds \in Nat
    BY DEF IsProgress, IsRecord
  <2>2. r = [s EXCEPT !.rounds = rounds, !.no_gap_critiques = streak,
                      !.phase = "revise"]
    BY <1>1 DEF ApplyPhaseResult
  <2> HIDE DEF streak, rounds, r
  <2>3. QED
    BY <2>1, <2>2 DEF IsProgress, IsRecord, Extends, Phases, r
<1>2. CASE s.phase # "critique"
  <2>1. r = [s EXCEPT !.solution = s.output_tokens, !.phase = "critique"]
    BY <1>2 DEF ApplyPhaseResult
  <2> HIDE DEF r
  <2>2. QED
    BY <2>1 DEF IsProgress, IsRecord, Extends, Phases, r
<1>3. QED
  BY <1>1, <1>2

\* So does setting a status.
LEMMA StatusKeeps ==
  ASSUME NEW s, IsProgress(s), NEW status \in Statuses
  PROVE  /\ IsProgress([s EXCEPT !.status = status])
         /\ Extends([s EXCEPT !.status = status], s)
         /\ [s EXCEPT !.status = status].output_tokens = s.output_tokens
         /\ [s EXCEPT !.status = status].warning_sent = s.warning_sent
         /\ [s EXCEPT !.status = status].status = status
  BY DEF IsProgress, IsRecord, Extends

\* And resolving a phase as a whole.
LEMMA ResolveKeeps ==
  ASSUME NEW s, IsProgress(s), NEW kind, NEW noGaps \in BOOLEAN, NEW floor
  PROVE  /\ IsProgress(ResolvePhaseOutcome(s, kind, noGaps, floor))
         /\ Extends(ResolvePhaseOutcome(s, kind, noGaps, floor), s)
         /\ ResolvePhaseOutcome(s, kind, noGaps, floor).output_tokens = s.output_tokens
         /\ ResolvePhaseOutcome(s, kind, noGaps, floor).warning_sent = s.warning_sent
<1> DEFINE a == ApplyPhaseResult(s, noGaps)
           st == IF Converges(s, a, floor) THEN "finished" ELSE BudgetStatus(a)
<1>1. CASE kind = "interrupted" \/ s.output_tokens > s.budget_tokens
  <2>1. ResolvePhaseOutcome(s, kind, noGaps, floor) = [s EXCEPT !.status = BudgetStatus(s)]
    BY <1>1 DEF ResolvePhaseOutcome
  <2>2. QED
    BY <2>1, BudgetStatusType, StatusKeeps
<1>2. CASE ~(kind = "interrupted" \/ s.output_tokens > s.budget_tokens)
  <2>1. ResolvePhaseOutcome(s, kind, noGaps, floor) = [a EXCEPT !.status = st]
    BY <1>2 DEF ResolvePhaseOutcome
  <2>2. st \in Statuses
    BY BudgetStatusType DEF Statuses
  <2>3. IsProgress(a) /\ Extends(a, s) /\ a.output_tokens = s.output_tokens
        /\ a.warning_sent = s.warning_sent
    BY ApplyKeeps
  <2> HIDE DEF a, st
  <2>4. QED
    BY <2>1, <2>2, <2>3, StatusKeeps DEF Extends
<1>3. QED
  BY <1>1, <1>2

\* Settling after a phase freezes labels and nothing else.
LEMMA SettleKeeps ==
  ASSUME NEW s, IsProgress(s)
  PROVE  /\ IsProgress(Settle(s))
         /\ Extends(Settle(s), s)
         /\ Settle(s).output_tokens = s.output_tokens
         /\ Settle(s).warning_sent = s.warning_sent
         /\ Settle(s).status = s.status
  BY CaptureKeeps DEF Settle

\* Reopening keeps tokens and labels, and remembers a notice only if it was
\* sent (session_manager.py _continue_state).
LEMMA ContinueKeeps ==
  ASSUME NEW s, IsProgress(s), NEW budget \in Nat, budget > s.output_tokens
  PROVE  /\ IsProgress(ContinueState(s, budget))
         /\ Extends(ContinueState(s, budget), s)
         /\ ContinueState(s, budget).output_tokens = s.output_tokens
         /\ ContinueState(s, budget).warning_sent => s.warning_sent
         /\ ContinueState(s, budget).solution_checkpoints = s.solution_checkpoints
         /\ ContinueState(s, budget).status = "running"
<1>1. CeilDiv(budget - s.output_tokens, Block) \in Nat
  BY AllowanceAssumption DEF CeilDiv, IsProgress, IsRecord
<1>2. Cardinality(DOMAIN s.solution_checkpoints) \in Nat
  BY FS_CardinalityType DEF IsProgress
<1> DEFINE count == Cardinality(DOMAIN s.solution_checkpoints)
                      + CeilDiv(budget - s.output_tokens, Block)
           warned == IF budget > s.budget_tokens THEN FALSE ELSE s.warning_sent
<1>3. count \in Nat /\ warned \in BOOLEAN /\ (warned => s.warning_sent)
  <2>1. count \in Nat
    BY <1>1, <1>2
  <2>2. s.warning_sent \in BOOLEAN
    BY DEF IsProgress, IsRecord
  <2>3. warned \in BOOLEAN /\ (warned => s.warning_sent)
    BY <2>2, Zenon
  <2>4. QED
    BY <2>1, <2>3
<1>4. ContinueState(s, budget) =
        [s EXCEPT !.warning_sent = warned, !.checkpoint_count = count,
                  !.budget_tokens = budget, !.pause_at_tokens = 0,
                  !.no_gap_critiques = 0, !.status = "running"]
  BY DEF ContinueState, NoPause
<1> HIDE DEF count, warned
<1> DEFINE r == [s EXCEPT !.warning_sent = warned, !.checkpoint_count = count,
                          !.budget_tokens = budget, !.pause_at_tokens = 0,
                          !.no_gap_critiques = 0, !.status = "running"]
<1>5. IsProgress(r)
  BY <1>3 DEF IsProgress, IsRecord, Statuses
<1>6. Extends(r, s) /\ r.output_tokens = s.output_tokens
      /\ r.warning_sent = warned
      /\ r.solution_checkpoints = s.solution_checkpoints
      /\ r.status = "running"
  BY DEF IsProgress, IsRecord, Extends
<1>7. QED
  BY <1>3, <1>4, <1>5, <1>6

-----------------------------------------------------------------------------
(* Labels in order.                                                        *)

\* Multiples of a block grow with the label.
LEMMA ProductGrows ==
  ASSUME NEW i \in Nat, NEW j \in Nat, NEW b \in Nat, i <= j
  PROVE  i * b <= j * b
OBVIOUS

\* The last label begins within the allowance (models.py checkpoint_count).
LEMMA CeilDivBounds ==
  ASSUME NEW a \in Nat, a > 0
  PROVE  /\ CeilDiv(a, Block) \in Nat \ {0}
         /\ (CeilDiv(a, Block) - 1) * Block < a
         /\ a <= Block => CeilDiv(a, Block) = 1
<1> DEFINE q == (a + Block - 1) \div Block
<1>1. Block \in Nat /\ Block > 0 /\ a + Block - 1 \in Nat
  BY AllowanceAssumption
<1>2. q \in Nat /\ q * Block <= a + Block - 1 /\ a + Block - 1 < (q + 1) * Block
  BY <1>1
<1>3. q > 0
  BY <1>1, <1>2
<1>4. (q - 1) * Block < a
  BY <1>1, <1>2
<1>5. a <= Block => q = 1
  BY <1>1, <1>2
<1> QED BY <1>2, <1>3, <1>4, <1>5 DEF CeilDiv

\* A set of numbers with a member has a least one: its initial segments are
\* finite, and strict inclusion is well-founded on finite sets.
LEMMA LeastNumber ==
  ASSUME NEW S \in SUBSET Nat, NEW n \in S
  PROVE  \E x \in S : \A y \in S : x <= y
<1> DEFINE R == StrictSubsetOrdering(Nat)
           T == {0 .. x : x \in S}
<1>1. IsWellFoundedOn(R, FiniteSubsetsOf(Nat))
  BY FS_StrictSubsetOrderingWellFounded
<1>2. T \subseteq FiniteSubsetsOf(Nat) /\ T # {}
  <2>1. ASSUME NEW x \in S PROVE 0 .. x \in FiniteSubsetsOf(Nat)
    <3>1. IsFiniteSet(0 .. x) /\ 0 .. x \subseteq Nat
      BY FS_Interval
    <3>2. QED
      BY <3>1 DEF FiniteSubsetsOf
  <2>2. QED
    BY <2>1
<1>3. PICK t \in T : \A u \in T : ~ (<<u, t>> \in R)
  <2> HIDE DEF R, T
  <2>1. QED
    BY <1>1, <1>2, WFMin
<1>4. PICK x \in S : t = 0 .. x
  OBVIOUS
<1>5. ASSUME NEW y \in S PROVE x <= y
  <2>1. SUFFICES ASSUME y < x PROVE FALSE
    OBVIOUS
  <2>2. 0 .. y \in T /\ 0 .. y \subseteq 0 .. x /\ x \notin 0 .. y /\ x \in 0 .. x
    BY <2>1
  <2>3. <<0 .. y, t>> \in R
    BY <1>4, <2>2 DEF StrictSubsetOrdering
  <2>4. QED
    BY <1>3, <2>2, <2>3
<1>6. QED
  BY <1>5

\* Labels without a gap are the first so many.
LEMMA LabelsAreFirst ==
  ASSUME NEW D, NEW c \in Nat, D \subseteq 1 .. c, \A m \in D : 1 .. m \subseteq D
  PROVE  /\ Cardinality(D) \in 0 .. c
         /\ D = 1 .. Cardinality(D)
<1> DEFINE Missing == {n \in Nat \ {0} : n \notin D}
<1>1. c + 1 \in Missing /\ Missing \in SUBSET Nat
  OBVIOUS
<1> HIDE DEF Missing
<1>2. PICK x \in Missing : \A y \in Missing : x <= y
  BY <1>1, LeastNumber
<1>3. x \in Nat \ {0} /\ x \notin D /\ x <= c + 1 /\ \A y \in Nat \ {0} : y \notin D => x <= y
  BY <1>1, <1>2 DEF Missing
<1>4. D = 1 .. (x - 1)
  <2>1. ASSUME NEW m \in D PROVE m \in 1 .. (x - 1)
    BY <1>3
  <2>2. ASSUME NEW m \in 1 .. (x - 1) PROVE m \in D
    BY <1>3
  <2>3. QED
    BY <2>1, <2>2
<1>5. Cardinality(1 .. (x - 1)) = x - 1
  BY <1>3, FS_Interval
<1>6. QED
  BY <1>3, <1>4, <1>5

\* Freezing labels touches nothing else; each label frozen is an open one
\* within the boundary and gets the present solution.
LEMMA CaptureFreezes ==
  ASSUME NEW s, IsProgress(s), NEW t \in Int
  PROVE  /\ Capture(s, t) = [s EXCEPT !.solution_checkpoints = Capture(s, t).solution_checkpoints]
         /\ DOMAIN Capture(s, t).solution_checkpoints
              = DOMAIN s.solution_checkpoints \cup Crossed(s, t)
         /\ \A m \in Crossed(s, t) :
              /\ m \in OpenLabels(s) /\ Boundary(s, m) <= t
              /\ Capture(s, t).solution_checkpoints[m] = s.solution
<1> DEFINE frozen == s.solution_checkpoints
           after == [m \in DOMAIN frozen \cup Crossed(s, t) |->
                       IF m \in DOMAIN frozen THEN frozen[m] ELSE s.solution]
<1>1. Capture(s, t) = [s EXCEPT !.solution_checkpoints = after]
  BY DEF Capture
<1>2. \A m \in Crossed(s, t) : m \in OpenLabels(s) /\ Boundary(s, m) <= t
  BY DEF Crossed, OpenLabels, IsProgress, IsRecord
<1>3. \A m \in Crossed(s, t) : m \notin DOMAIN frozen
  BY DEF Crossed, OpenLabels
<1>4. Capture(s, t).solution_checkpoints = after
  BY <1>1 DEF IsProgress, IsRecord
<1>5. QED
  BY <1>1, <1>2, <1>3, <1>4

\* When no open label lies beyond the allowance, boundaries grow with the
\* labels: exactly the open labels within the boundary are frozen.
LEMMA OrderedCrossed ==
  ASSUME NEW s, IsProgress(s), Ordered(s), NEW t \in Int
  PROVE  Crossed(s, t) = {m \in OpenLabels(s) : Boundary(s, m) <= t}
<1>1. /\ s.checkpoint_count \in Nat /\ Block \in Nat /\ ActiveLimit(s) \in Nat
  BY AllowanceAssumption DEF IsProgress, IsRecord, ActiveLimit
<1>2. ASSUME NEW m \in OpenLabels(s), NEW j \in OpenLabels(s), j <= m, Boundary(s, m) <= t
      PROVE  Boundary(s, j) <= t
  <2>1. m \in 1 .. s.checkpoint_count /\ j \in 1 .. s.checkpoint_count
    BY DEF OpenLabels
  <2>2. CASE m = s.checkpoint_count
    <3>1. Boundary(s, j) <= ActiveLimit(s) /\ Boundary(s, m) = ActiveLimit(s)
      BY <2>2 DEF Ordered, Boundary
    <3>2. Boundary(s, j) \in Nat
      BY <1>1, <2>1 DEF Boundary
    <3>3. QED
      BY <1>1, <1>2, <3>1, <3>2
  <2>3. CASE m # s.checkpoint_count
    <3>1. Boundary(s, m) = m * Block /\ Boundary(s, j) = j * Block
      BY <1>1, <1>2, <2>1, <2>3 DEF Boundary
    <3>2. j * Block <= m * Block /\ j * Block \in Nat /\ m * Block \in Nat
      BY <1>1, <1>2, <2>1, ProductGrows
    <3>3. QED
      BY <1>2, <3>1, <3>2
  <2>4. QED
    BY <2>2, <2>3
<1>3. QED
  BY <1>1, <1>2 DEF Crossed, OpenLabels

\* Freezing leaves no gap where there was none.
LEMMA CaptureValid ==
  ASSUME NEW s, IsProgress(s), Valid(s), NEW t \in Int
  PROVE  Valid(Capture(s, t))
<1> DEFINE c == Capture(s, t)
<1>1. /\ c = [s EXCEPT !.solution_checkpoints = c.solution_checkpoints]
      /\ DOMAIN c.solution_checkpoints = DOMAIN s.solution_checkpoints \cup Crossed(s, t)
  BY CaptureFreezes
<1> HIDE DEF c
<1>2. /\ c.budget_tokens = s.budget_tokens /\ c.output_tokens = s.output_tokens
      /\ c.pause_at_tokens = s.pause_at_tokens /\ c.no_gap_critiques = s.no_gap_critiques
      /\ c.rounds = s.rounds /\ c.checkpoint_count = s.checkpoint_count
  BY <1>1 DEF IsProgress, IsRecord
<1>3. Crossed(s, t) \subseteq 1 .. s.checkpoint_count
  BY DEF Crossed, OpenLabels
<1>4. s.checkpoint_count \in Nat
  BY DEF IsProgress, IsRecord
<1>5. ASSUME NEW m \in Crossed(s, t), NEW j \in 1 .. m
      PROVE  j \in DOMAIN s.solution_checkpoints \cup Crossed(s, t)
  <2>1. m \in Nat /\ j \in 1 .. s.checkpoint_count /\ j <= m
    BY <1>3, <1>4
  <2>2. CASE j \in OpenLabels(s)
    BY <2>1, <2>2, <1>4 DEF Crossed, OpenLabels
  <2>3. CASE j \notin OpenLabels(s)
    BY <2>1, <2>3 DEF OpenLabels
  <2>4. QED
    BY <2>2, <2>3
<1>6. QED
  BY <1>1, <1>2, <1>3, <1>5 DEF c, Valid

-----------------------------------------------------------------------------
(* What a phase under way, its end, and a reopening do to a record.        *)

\* Fields in which two records agree decide their allowance and boundaries.
LEMMA SameBoundaries ==
  ASSUME NEW s, NEW r, r.pause_at_tokens = s.pause_at_tokens,
         r.budget_tokens = s.budget_tokens, r.checkpoint_count = s.checkpoint_count
  PROVE  /\ ActiveLimit(r) = ActiveLimit(s)
         /\ \A m : Boundary(r, m) = Boundary(s, m)
  BY DEF ActiveLimit, Boundary

\* A usage report leaves a phase under way; what it could have frozen is
\* frozen when labels are in order.
LEMMA UpdateInPhase ==
  ASSUME NEW old, NEW new, IsProgress(old), IsProgress(new),
         InPhase(old, new), Extends(new, old), Valid(new),
         NEW total \in Nat, total >= new.output_tokens
  PROVE  /\ InPhase(old, UpdateTokenUsage(new, total))
         /\ Valid(UpdateTokenUsage(new, total))
         /\ Ordered(old) =>
              \A m \in OpenLabels(UpdateTokenUsage(new, total)) :
                 Boundary(UpdateTokenUsage(new, total), m) >= total
<1> DEFINE r == [new EXCEPT !.output_tokens = total]
           u == Capture(r, total - 1)
<1>1. IsProgress(r) /\ Valid(r)
  BY DEF IsProgress, IsRecord, Valid
<1>2. UpdateTokenUsage(new, total) = u
  BY DEF UpdateTokenUsage
<1> HIDE DEF r
<1>a. total - 1 \in Int
  OBVIOUS
<1>3. /\ u = [r EXCEPT !.solution_checkpoints = u.solution_checkpoints]
      /\ DOMAIN u.solution_checkpoints = DOMAIN r.solution_checkpoints \cup Crossed(r, total - 1)
      /\ \A m \in Crossed(r, total - 1) :
            /\ m \in OpenLabels(r) /\ Boundary(r, m) <= total - 1
            /\ u.solution_checkpoints[m] = r.solution
      /\ Valid(u) /\ Extends(u, r)
  BY <1>1, <1>a, CaptureFreezes, CaptureValid, CaptureKeeps
<1> HIDE DEF u
<1>4. /\ r.solution_checkpoints = new.solution_checkpoints /\ r.output_tokens = total
      /\ r = [old EXCEPT !.output_tokens = total, !.warning_sent = new.warning_sent,
                         !.solution_checkpoints = new.solution_checkpoints]
      /\ r.solution = old.solution
  BY DEF r, IsProgress, IsRecord, InPhase
<1>5. /\ u = [old EXCEPT !.output_tokens = total, !.warning_sent = new.warning_sent,
                         !.solution_checkpoints = u.solution_checkpoints]
      /\ u.output_tokens = total /\ u.warning_sent = new.warning_sent
  BY ZenonT(40), <1>3, <1>4 DEF IsProgress, IsRecord
<1>6. /\ ActiveLimit(u) = ActiveLimit(old) /\ ActiveLimit(r) = ActiveLimit(old)
      /\ ActiveLimit(new) = ActiveLimit(old)
      /\ \A m : /\ Boundary(u, m) = Boundary(old, m) /\ Boundary(r, m) = Boundary(old, m)
                /\ Boundary(new, m) = Boundary(old, m)
  <2> DEFINE Same(x) == /\ x.pause_at_tokens = old.pause_at_tokens
                        /\ x.budget_tokens = old.budget_tokens
                        /\ x.checkpoint_count = old.checkpoint_count
  <2>1. Same(u) /\ Same(r)
    BY <1>4, <1>5 DEF IsProgress, IsRecord
  <2>2. Same(new)
    BY DEF IsProgress, IsRecord, InPhase
  <2>3. QED
    BY <2>1, <2>2, SameBoundaries
<1>7. \A m \in 1 .. old.checkpoint_count : Boundary(old, m) \in Nat
  BY AllowanceAssumption DEF IsProgress, IsRecord, Boundary, ActiveLimit
<1>8. /\ old.checkpoint_count = r.checkpoint_count /\ u.checkpoint_count = r.checkpoint_count
      /\ old.output_tokens \in Nat /\ new.output_tokens \in Nat
      /\ DOMAIN new.solution_checkpoints \subseteq 1 .. old.checkpoint_count
  BY <1>1, <1>4, <1>5 DEF IsProgress, IsRecord, Valid
<1>9. ASSUME NEW m \in DOMAIN u.solution_checkpoints \ DOMAIN old.solution_checkpoints
      PROVE  /\ Boundary(u, m) < u.output_tokens
             /\ u.solution_checkpoints[m] = old.solution
  <2>1. CASE m \in Crossed(r, total - 1)
    <3>1. m \in 1 .. old.checkpoint_count
      BY <2>1, <1>3, <1>8 DEF OpenLabels
    <3>2. QED
      BY <2>1, <3>1, <1>3, <1>4, <1>5, <1>6, <1>7
  <2>2. CASE m \in DOMAIN new.solution_checkpoints
    <3>1. /\ Boundary(new, m) < new.output_tokens
          /\ new.solution_checkpoints[m] = old.solution
      BY <2>2 DEF InPhase
    <3>2. u.solution_checkpoints[m] = new.solution_checkpoints[m]
      BY <2>2, <1>3, <1>4 DEF Extends
    <3>3. m \in 1 .. old.checkpoint_count
      BY <2>2, <1>8
    <3>4. QED
      BY <3>1, <3>2, <3>3, <1>5, <1>6, <1>7, <1>8
  <2>3. QED
    BY <1>3, <1>4, <2>1, <2>2
<1>10. InPhase(old, u)
  BY <1>5, <1>8, <1>9 DEF InPhase
<1>11. ASSUME Ordered(old) , NEW m \in OpenLabels(u)
       PROVE  Boundary(u, m) >= total
  <2>1. OpenLabels(r) \subseteq OpenLabels(old)
    BY <1>4, <1>8 DEF OpenLabels, Extends
  <2>2. Ordered(r)
    BY <1>6, <1>11, <2>1 DEF Ordered
  <2>3. Crossed(r, total - 1) = {j \in OpenLabels(r) : Boundary(r, j) <= total - 1}
    BY <1>1, <2>2, OrderedCrossed
  <2>4. m \in OpenLabels(r) /\ m \notin Crossed(r, total - 1) /\ m \in 1 .. old.checkpoint_count
    BY <1>3, <1>8 DEF OpenLabels
  <2>5. QED
    BY <2>3, <2>4, <1>6, <1>7
<1>12. QED
  BY <1>2, <1>3, <1>10, <1>11

\* The notice is remembered and nothing else changes.
LEMMA WarnInPhase ==
  ASSUME NEW old, NEW new, IsProgress(old), IsProgress(new), InPhase(old, new), Valid(new)
  PROVE  /\ InPhase(old, WarnIfNeeded(new)) /\ Valid(WarnIfNeeded(new))
         /\ BudgetStatus(WarnIfNeeded(new)) = BudgetStatus(new)
<1>1. CASE NeedsWarning(new)
  <2> DEFINE w == [new EXCEPT !.warning_sent = TRUE]
  <2>1. WarnIfNeeded(new) = w
    BY <1>1 DEF WarnIfNeeded
  <2>2. /\ w.output_tokens = new.output_tokens /\ w.warning_sent = TRUE
        /\ w.solution_checkpoints = new.solution_checkpoints
        /\ w.budget_tokens = new.budget_tokens /\ w.pause_at_tokens = new.pause_at_tokens
        /\ w.checkpoint_count = new.checkpoint_count
        /\ w.no_gap_critiques = new.no_gap_critiques /\ w.rounds = new.rounds
    BY DEF IsProgress, IsRecord
  <2>3. w = [old EXCEPT !.output_tokens = w.output_tokens, !.warning_sent = w.warning_sent,
                        !.solution_checkpoints = w.solution_checkpoints]
    BY <2>2 DEF IsProgress, IsRecord, InPhase
  <2> HIDE DEF w
  <2>4. \A m : Boundary(w, m) = Boundary(new, m)
    BY <2>2, SameBoundaries
  <2>5. InPhase(old, w)
    BY <2>2, <2>3, <2>4 DEF InPhase
  <2>6. Valid(w) /\ BudgetStatus(w) = BudgetStatus(new)
    BY <2>2 DEF Valid, BudgetStatus
  <2>7. QED
    BY <2>1, <2>5, <2>6
<1>2. CASE ~NeedsWarning(new)
  BY <1>2 DEF WarnIfNeeded
<1>3. QED
  BY <1>1, <1>2

\* The three ways a phase that is kept can end (_resolve_phase_outcome): it is
\* cut off, writes a solution, or adds a critique.
Outcome(u, kind, floor, r) ==
  \/ /\ kind = "interrupted" \/ u.output_tokens > u.budget_tokens
     /\ r = [u EXCEPT !.status = BudgetStatus(u)]
  \/ /\ kind # "interrupted" /\ u.output_tokens <= u.budget_tokens
     /\ u.phase # "critique"
     /\ r = [u EXCEPT !.solution = u.output_tokens, !.phase = "critique",
                      !.status = BudgetStatus(u)]
  \/ /\ kind # "interrupted" /\ u.output_tokens <= u.budget_tokens
     /\ u.phase = "critique"
     /\ \E n \in {0, u.no_gap_critiques + 1}, st \in {BudgetStatus(u), "finished"} :
          /\ r = [u EXCEPT !.rounds = u.rounds + 1, !.no_gap_critiques = n,
                           !.phase = "revise", !.status = st]
          /\ st = BudgetStatus(u) \/ (u.rounds + 1 >= floor /\ n >= MinNoGap)

LEMMA ResolveOutcomes ==
  ASSUME NEW u, IsProgress(u), NEW kind, NEW noGaps \in BOOLEAN, NEW floor
  PROVE  Outcome(u, kind, floor, ResolvePhaseOutcome(u, kind, noGaps, floor))
<1> DEFINE r == ResolvePhaseOutcome(u, kind, noGaps, floor)
<1> SUFFICES Outcome(u, kind, floor, r)
  OBVIOUS
<1> DEFINE a == ApplyPhaseResult(u, noGaps)
<1>0. u.output_tokens \in Nat /\ u.budget_tokens \in Nat
  BY DEF IsProgress, IsRecord
<1>1. CASE kind = "interrupted" \/ u.output_tokens > u.budget_tokens
  BY <1>1 DEF ResolvePhaseOutcome, Outcome
<1>2. CASE ~(kind = "interrupted" \/ u.output_tokens > u.budget_tokens) /\ u.phase # "critique"
  <2>1. r = [a EXCEPT !.status = IF Converges(u, a, floor) THEN "finished" ELSE BudgetStatus(a)]
    BY <1>2 DEF ResolvePhaseOutcome
  <2>2. a = [u EXCEPT !.solution = u.output_tokens, !.phase = "critique"]
    BY <1>2 DEF ApplyPhaseResult
  <2>3. ~Converges(u, a, floor)
    BY <1>2 DEF Converges
  <2>4. BudgetStatus(a) = BudgetStatus(u)
    BY <2>2 DEF BudgetStatus, IsProgress, IsRecord
  <2> HIDE DEF a, r
  <2>5. r = [u EXCEPT !.solution = u.output_tokens, !.phase = "critique", !.status = BudgetStatus(u)]
    BY <2>1, <2>2, <2>3, <2>4 DEF IsProgress, IsRecord
  <2>6. QED
    BY <1>0, <1>2, <2>5 DEF Outcome
<1>3. CASE ~(kind = "interrupted" \/ u.output_tokens > u.budget_tokens) /\ u.phase = "critique"
  <2> DEFINE n == IF noGaps THEN u.no_gap_critiques + 1 ELSE 0
             st == IF Converges(u, a, floor) THEN "finished" ELSE BudgetStatus(a)
  <2>1. r = [a EXCEPT !.status = st]
    BY <1>3 DEF ResolvePhaseOutcome
  <2>2. a = [u EXCEPT !.rounds = u.rounds + 1, !.no_gap_critiques = n, !.phase = "revise"]
    BY <1>3 DEF ApplyPhaseResult, IsProgress, IsRecord
  <2>3. BudgetStatus(a) = BudgetStatus(u)
    BY <2>2 DEF BudgetStatus, IsProgress, IsRecord
  <2>4. a.rounds = u.rounds + 1 /\ a.no_gap_critiques = n
    BY <2>2 DEF IsProgress, IsRecord
  <2>5. n \in {0, u.no_gap_critiques + 1}
    OBVIOUS
  <2>6. /\ st \in {BudgetStatus(u), "finished"}
        /\ st = BudgetStatus(u) \/ (u.rounds + 1 >= floor /\ n >= MinNoGap)
    BY <2>3, <2>4 DEF Converges
  <2> HIDE DEF a, n, st, r
  <2>7. r = [u EXCEPT !.rounds = u.rounds + 1, !.no_gap_critiques = n,
                      !.phase = "revise", !.status = st]
    BY <2>1, <2>2 DEF IsProgress, IsRecord
  <2>8. \E x \in {0, u.no_gap_critiques + 1}, y \in {BudgetStatus(u), "finished"} :
          /\ r = [u EXCEPT !.rounds = u.rounds + 1, !.no_gap_critiques = x,
                           !.phase = "revise", !.status = y]
          /\ y = BudgetStatus(u) \/ (u.rounds + 1 >= floor /\ x >= MinNoGap)
    <3>1. st \in {BudgetStatus(u), "finished"}
      BY <2>6
    <3>2. QED
      BY <2>5, <2>6, <2>7, <3>1, Zenon
  <2>9. kind # "interrupted" /\ u.output_tokens <= u.budget_tokens
    BY <1>0, <1>3
  <2>10. QED
    BY <1>3, <2>8, <2>9, Zenon DEF Outcome
<1>4. QED
  BY <1>1, <1>2, <1>3

\* Stopping or pausing for breath freezes what the phase completed.
LEMMA SettleFreezes ==
  ASSUME NEW s, IsProgress(s), Valid(s)
  PROVE  /\ Settle(s) = [s EXCEPT !.solution_checkpoints = Settle(s).solution_checkpoints]
         /\ Valid(Settle(s))
         /\ Ordered(s) =>
              /\ DOMAIN Settle(s).solution_checkpoints = DOMAIN s.solution_checkpoints \cup
                   {m \in OpenLabels(s) :
                      Boundary(s, m) <= IF s.status = "running"
                                        THEN s.output_tokens ELSE ActiveLimit(s)}
              /\ \A m \in OpenLabels(s) \cap DOMAIN Settle(s).solution_checkpoints :
                   Settle(s).solution_checkpoints[m] = s.solution
<1> DEFINE t == IF s.status = "running" THEN s.output_tokens ELSE ActiveLimit(s)
<1>1. t \in Int
  BY DEF IsProgress, IsRecord, ActiveLimit
<1>2. Settle(s) = Capture(s, t)
  BY DEF Settle
<1>3. Ordered(s) => Crossed(s, t) = {m \in OpenLabels(s) : Boundary(s, m) <= t}
  BY <1>1, OrderedCrossed
<1> HIDE DEF t
<1>4. /\ Capture(s, t) = [s EXCEPT !.solution_checkpoints = Capture(s, t).solution_checkpoints]
      /\ DOMAIN Capture(s, t).solution_checkpoints
           = DOMAIN s.solution_checkpoints \cup Crossed(s, t)
      /\ \A m \in Crossed(s, t) : Capture(s, t).solution_checkpoints[m] = s.solution
      /\ Valid(Capture(s, t))
  BY <1>1, CaptureFreezes, CaptureValid
<1>5. \A m \in OpenLabels(s) : m \notin DOMAIN s.solution_checkpoints
  BY DEF OpenLabels
<1>6. QED
  BY <1>2, <1>3, <1>4, <1>5 DEF t

\* A new attempt has its allowance before it, and labels that fit into it.
LEMMA NewProgressSound ==
  /\ Valid(NewProgress) /\ Affordable(NewProgress) /\ Ordered(NewProgress)
  /\ \A m \in 1 .. NewProgress.checkpoint_count : Boundary(NewProgress, m) > 0
<1> DEFINE limit == IF PauseAt = NoPause THEN Budget ELSE PauseAt
           count == CeilDiv(limit, Block)
<1>1. limit \in Nat /\ limit > 0 /\ Block \in Nat /\ Block > 0
  BY AllowanceAssumption DEF NoPause
<1>2. count \in Nat \ {0} /\ (count - 1) * Block < limit
  BY <1>1, CeilDivBounds
<1>3. /\ NewProgress.checkpoint_count = count /\ ActiveLimit(NewProgress) = limit
      /\ DOMAIN NewProgress.solution_checkpoints = {}
      /\ NewProgress.budget_tokens = Budget /\ NewProgress.pause_at_tokens = PauseAt
      /\ NewProgress.output_tokens = 0 /\ NewProgress.status = "running"
      /\ NewProgress.rounds = 0 /\ NewProgress.no_gap_critiques = 0
  BY DEF NewProgress, ActiveLimit
<1> HIDE DEF count, limit
<1>4. ASSUME NEW m \in 1 .. count
      PROVE  Boundary(NewProgress, m) <= limit /\ Boundary(NewProgress, m) > 0
  <2>1. CASE m = count
    BY <1>1, <1>3, <2>1 DEF Boundary
  <2>2. CASE m # count
    <3>1. m \in Nat /\ m > 0 /\ count - 1 \in Nat /\ m <= count - 1
      BY <1>2, <2>2
    <3>2. m * Block <= (count - 1) * Block /\ m * Block \in Nat /\ (count - 1) * Block \in Nat
      BY <1>1, <3>1, ProductGrows
    <3>3. m * Block > 0
      BY <1>1, <3>1
    <3>4. Boundary(NewProgress, m) = m * Block
      BY <1>3, <2>2 DEF Boundary
    <3>5. QED
      BY <1>1, <1>2, <3>2, <3>3, <3>4
  <2>3. QED
    BY <2>1, <2>2
<1>5. Ordered(NewProgress)
  BY <1>3, <1>4 DEF Ordered, OpenLabels
<1>6. Valid(NewProgress) /\ Affordable(NewProgress)
  BY <1>2, <1>3, AllowanceAssumption DEF Valid, Affordable, BudgetStatus, NoPause
<1>7. QED
  BY <1>3, <1>4, <1>5, <1>6

\* There are n numbers up to n.
LEMMA FirstCount == ASSUME NEW n \in Nat PROVE Cardinality(1 .. n) = n
  BY FS_Interval

\* The allowance grows by no more than one label.
OneLabel(s, budget) == budget - s.output_tokens <= Block

\* What reopening replaces in a record, whatever it decides about the notice
\* and the number of labels (session_manager.py _continue_state).
Reopened(s, budget, c) ==
  c = [s EXCEPT !.warning_sent = c.warning_sent, !.checkpoint_count = c.checkpoint_count,
                !.budget_tokens = budget, !.pause_at_tokens = NoPause,
                !.no_gap_critiques = 0, !.status = "running"]

\* Reopening adds a label at least; reopening by one block after the last
\* label was frozen adds exactly one, which its allowance reaches.
LEMMA ContinueSound ==
  ASSUME NEW s, IsProgress(s), Valid(s), NEW budget \in Nat, budget > s.output_tokens
  PROVE  /\ Reopened(s, budget, ContinueState(s, budget))
         /\ ContinueState(s, budget).budget_tokens = budget
         /\ DOMAIN s.solution_checkpoints
              \subseteq 1 .. ContinueState(s, budget).checkpoint_count - 1
         /\ Valid(ContinueState(s, budget)) /\ Affordable(ContinueState(s, budget))
         /\ budget - s.output_tokens <= Block
            /\ DOMAIN s.solution_checkpoints = 1 .. s.checkpoint_count =>
              /\ Ordered(ContinueState(s, budget))
              /\ \A m \in 1 .. ContinueState(s, budget).checkpoint_count :
                   Boundary(ContinueState(s, budget), m) <= s.output_tokens =>
                     m \in DOMAIN s.solution_checkpoints
<1> DEFINE c == ContinueState(s, budget)
<1> DEFINE D == DOMAIN s.solution_checkpoints
           left == CeilDiv(budget - s.output_tokens, Block)
           count == Cardinality(D) + left
           warned == IF budget > s.budget_tokens THEN FALSE ELSE s.warning_sent
<1>1. /\ s.output_tokens \in Nat /\ s.checkpoint_count \in Nat /\ s.rounds \in Nat
      /\ budget - s.output_tokens \in Nat /\ budget - s.output_tokens > 0
  BY DEF IsProgress, IsRecord
<1>2. left \in Nat \ {0} /\ (budget - s.output_tokens <= Block => left = 1)
  BY <1>1, CeilDivBounds
<1>3. Cardinality(D) \in 0 .. s.checkpoint_count /\ D = 1 .. Cardinality(D)
  BY <1>1, LabelsAreFirst DEF Valid
<1>4. c = [s EXCEPT !.warning_sent = warned, !.checkpoint_count = count,
                    !.budget_tokens = budget, !.pause_at_tokens = NoPause,
                    !.no_gap_critiques = 0, !.status = "running"]
  BY DEF ContinueState
<1> HIDE DEF left, warned, c
<1>5. count \in Nat \ {0} /\ D \subseteq 1 .. count - 1
  BY <1>1, <1>2, <1>3
<1> HIDE DEF count
<1>6. /\ c.warning_sent = warned /\ c.checkpoint_count = count /\ c.budget_tokens = budget
      /\ c.pause_at_tokens = NoPause /\ c.no_gap_critiques = 0 /\ c.status = "running"
      /\ c.output_tokens = s.output_tokens /\ c.rounds = s.rounds
      /\ c.solution_checkpoints = s.solution_checkpoints
  BY <1>4 DEF IsProgress, IsRecord
<1>7. Valid(c)
  BY <1>1, <1>5, <1>6 DEF Valid
<1>8. Affordable(c) /\ ActiveLimit(c) = budget
  BY <1>1, <1>6 DEF Affordable, BudgetStatus, ActiveLimit
<1>9. ASSUME budget - s.output_tokens <= Block, D = 1 .. s.checkpoint_count
      PROVE  /\ Ordered(c)
             /\ \A m \in 1 .. c.checkpoint_count :
                  Boundary(c, m) <= s.output_tokens => m \in D
  <2>1. Cardinality(D) = s.checkpoint_count
    <3>1. Cardinality(1 .. s.checkpoint_count) = s.checkpoint_count
      BY <1>1, FirstCount
    <3>2. QED
      BY <1>9, <3>1
  <2>2. count = s.checkpoint_count + 1
    BY <1>2, <1>9, <2>1 DEF count
  <2>3. \A m \in 1 .. count : m \notin D => m = count
    BY <1>1, <1>9, <2>2
  <2>4. Boundary(c, count) = budget
    BY <1>6, <1>8 DEF Boundary
  <2>5. Ordered(c)
    BY <1>6, <1>8, <2>3, <2>4 DEF Ordered, OpenLabels
  <2>6. QED
    BY <1>1, <1>6, <2>3, <2>4, <2>5
<1>10. Reopened(s, budget, c)
  BY <1>4, <1>6 DEF Reopened
<1>11. QED
  BY <1>5, <1>6, <1>7, <1>8, <1>9, <1>10 DEF c

-----------------------------------------------------------------------------
(* Types.                                                                  *)

\* Replacing the progress of a session replaces nothing else.
LEMMA WithRefinement ==
  ASSUME NEW x, IsSession(x), NEW r, IsProgress(r)
  PROVE  /\ IsSession([x EXCEPT !.refinement = r])
         /\ [x EXCEPT !.refinement = r].refinement = r
         /\ [x EXCEPT !.refinement = r].session_id = x.session_id
         /\ [x EXCEPT !.refinement = r].fork_session = x.fork_session
  BY DEF IsSession

LEMMA NewSessionType == IsSession(NewSession) /\ NewSession.refinement = NewProgress
  BY NewProgressType DEF IsSession, NewSession

\* The fields of the conversation files.
LEMMA FileFields ==
  ASSUME NEW f \in FileStates
  PROVE  f.tokens \in Nat /\ f.notices \in Nat /\ f.transcripts \in TranscriptSets
  BY DEF FileStates

\* The progress a phase can leave behind (self_refine.py _run_phase).
LEMMA UsageStep ==
  ASSUME TypeOK, NEW n \in Nat, Usage(n)
  PROVE  /\ IsProgress(live'.refinement)
         /\ IsSession(live')
         /\ live'.session_id = live.session_id
         /\ live'.fork_session = live.fork_session
         /\ Extends(live'.refinement, live.refinement)
         /\ live'.refinement.output_tokens = Tokens + n
         /\ files' \in FileStates
         /\ files'.tokens = files.tokens + n
         /\ (files.notices > 0 => files'.notices > 0)
         /\ live'.refinement.warning_sent =>
              live.refinement.warning_sent \/ files'.notices > 0
<1> DEFINE u == UpdateTokenUsage(live.refinement, Tokens + n)
           w == WarnIfNeeded(u)
<1>1. IsProgress(live.refinement) /\ Tokens + n \in Nat /\ IsSession(live)
  BY DEF TypeOK, IsSession, IsProgress, IsRecord, Tokens
<1>2. IsProgress(u) /\ Extends(u, live.refinement)
      /\ u.output_tokens = Tokens + n
      /\ u.warning_sent = live.refinement.warning_sent
  BY <1>1, UpdateKeeps
<1>3. live' = [live EXCEPT !.refinement = w]
      /\ files' = [files EXCEPT !.tokens = @ + n, !.notices = @ + Notices(u)]
  BY DEF Usage
<1> HIDE DEF u
<1>4. IsProgress(w) /\ Extends(w, live.refinement)
      /\ w.output_tokens = Tokens + n
      /\ (w.warning_sent => live.refinement.warning_sent \/ NeedsWarning(u))
  BY <1>2, WarnKeeps DEF Extends
<1> HIDE DEF w
<1>5. /\ live'.refinement = w /\ IsSession(live')
       /\ live'.session_id = live.session_id
       /\ live'.fork_session = live.fork_session
  BY <1>1, <1>3, <1>4, WithRefinement
<1>6. files \in FileStates
  BY DEF TypeOK
<1>9. Notices(u) \in Nat /\ (NeedsWarning(u) => Notices(u) = 1)
  BY DEF Notices
<1>10. /\ files' \in FileStates
       /\ files'.tokens = files.tokens + n
       /\ files'.notices = files.notices + Notices(u)
       /\ files.notices \in Nat
  <2> DEFINE total == files.tokens + n
             count == files.notices + Notices(u)
  <2>1. total \in Nat /\ count \in Nat /\ files.notices \in Nat
    BY <1>6, <1>9, FileFields
  <2>2. files' = [files EXCEPT !.tokens = total, !.notices = count]
    BY <1>3
  <2> HIDE DEF total, count
  <2>3. files' \in FileStates /\ files'.tokens = total /\ files'.notices = count
    BY <1>6, <2>1, <2>2 DEF FileStates
  <2>4. QED
    BY <2>1, <2>3 DEF total, count
<1>11. (files.notices > 0 => files'.notices > 0) /\ (Notices(u) = 1 => files'.notices > 0)
  BY <1>9, <1>10
<1>7. /\ files' \in FileStates
      /\ files'.tokens = files.tokens + n
      /\ (files.notices > 0 => files'.notices > 0)
      /\ NeedsWarning(u) => files'.notices > 0
  BY <1>9, <1>10, <1>11, Zenon
<1>8. QED
  BY <1>3, <1>4, <1>5, <1>7

\* The notice queued ahead of the instruction.
LEMMA BeginStep ==
  ASSUME TypeOK, BeginPhase, live.session_id # "none"
  PROVE  /\ IsProgress(live'.refinement)
         /\ IsSession(live')
         /\ live'.session_id = live.session_id
         /\ live'.fork_session = live.fork_session
         /\ Extends(live'.refinement, live.refinement)
         /\ live'.refinement.output_tokens = Tokens
         /\ files' \in FileStates
         /\ files'.tokens = files.tokens
         /\ live'.refinement.warning_sent =>
              live.refinement.warning_sent \/ files'.notices > 0
         /\ (files.notices > 0 => files'.notices > 0)
<1> DEFINE s == [live.refinement EXCEPT !.status = "running"]
           w == WarnIfNeeded(s)
<1>1. IsProgress(live.refinement) /\ IsSession(live)
  BY DEF TypeOK, IsSession
<1>2. IsProgress(s) /\ Extends(s, live.refinement) /\ s.output_tokens = Tokens
      /\ s.warning_sent = live.refinement.warning_sent
  BY <1>1, StatusKeeps DEF Statuses, Tokens
<1>3. live' = [live EXCEPT !.refinement = w]
      /\ files' = [files EXCEPT !.transcripts = @ \cup {live.session_id},
                                !.notices = @ + Notices(s)]
  BY DEF BeginPhase
<1> HIDE DEF s
<1>4. IsProgress(w) /\ Extends(w, live.refinement) /\ w.output_tokens = Tokens
      /\ (w.warning_sent => live.refinement.warning_sent \/ NeedsWarning(s))
  BY <1>2, WarnKeeps DEF Extends
<1> HIDE DEF w
<1>5. /\ live'.refinement = w /\ IsSession(live')
       /\ live'.session_id = live.session_id
       /\ live'.fork_session = live.fork_session
  BY <1>1, <1>3, <1>4, WithRefinement
<1>6. files \in FileStates /\ live.session_id \in {"own", "source"}
  BY DEF TypeOK, IsSession
<1>9. Notices(s) \in Nat /\ (NeedsWarning(s) => Notices(s) = 1)
  BY DEF Notices
<1>10. /\ files' \in FileStates
       /\ files'.tokens = files.tokens
       /\ files'.notices = files.notices + Notices(s)
       /\ files.notices \in Nat
  <2> DEFINE ids   == files.transcripts \cup {live.session_id}
             count == files.notices + Notices(s)
  <2>1. count \in Nat /\ files.notices \in Nat
    BY <1>6, <1>9, FileFields
  <2>2. ids \in TranscriptSets
    BY <1>6, FileFields DEF TranscriptSets
  <2>3. files' = [files EXCEPT !.transcripts = ids, !.notices = count]
    BY <1>3
  <2> HIDE DEF ids, count
  <2>4. files' \in FileStates /\ files'.tokens = files.tokens /\ files'.notices = count
    BY <1>6, <2>1, <2>2, <2>3 DEF FileStates
  <2>5. QED
    BY <2>1, <2>4 DEF count
<1>11. (files.notices > 0 => files'.notices > 0) /\ (Notices(s) = 1 => files'.notices > 0)
  BY <1>9, <1>10
<1>7. files' \in FileStates /\ files'.tokens = files.tokens
      /\ (files.notices > 0 => files'.notices > 0)
      /\ (NeedsWarning(s) => files'.notices > 0)
  BY <1>9, <1>10, <1>11, Zenon
<1>8. QED
  BY <1>3, <1>4, <1>5, <1>7

\* The reply that ends a phase, and what is left to save or roll back
\* (self_refine.py _resolve_phase_outcome and _continue_solver).
LEMMA EndStep ==
  ASSUME TypeOK, NEW kind, NEW n \in Nat, NEW noGaps \in BOOLEAN,
         EndPhase(kind, n, noGaps)
  PROVE  /\ IsProgress(live'.refinement)
         /\ IsSession(live')
         /\ live'.session_id = live.session_id
         /\ live'.fork_session = live.fork_session
         /\ Extends(live'.refinement, live.refinement)
         /\ live'.refinement.output_tokens = Tokens + n
         /\ live'.refinement.warning_sent = live.refinement.warning_sent
         /\ files' \in FileStates
         /\ files'.tokens = files.tokens + n
         /\ files'.notices = files.notices
         /\ pc' \in {"save", "rollback"}
<1> DEFINE u == UpdateTokenUsage(live.refinement, Tokens + n)
           r == ResolvePhaseOutcome(u, kind, noGaps, RoundFloor)
           w == Settle(r)
           total == files.tokens + n
<1>1. IsProgress(live.refinement) /\ Tokens + n \in Nat /\ IsSession(live)
  BY DEF TypeOK, IsSession, IsProgress, IsRecord, Tokens
<1>2. IsProgress(u) /\ Extends(u, live.refinement)
      /\ u.output_tokens = Tokens + n
      /\ u.warning_sent = live.refinement.warning_sent
  BY <1>1, UpdateKeeps
<1>3. /\ \/ live' = [live EXCEPT !.refinement = u] /\ pc' = "rollback"
         \/ live' = [live EXCEPT !.refinement = w] /\ pc' = "save"
      /\ files' = [files EXCEPT !.tokens = total]
  BY DEF EndPhase
<1> HIDE DEF u
<1>4. IsProgress(r) /\ Extends(r, u) /\ r.output_tokens = u.output_tokens
      /\ r.warning_sent = u.warning_sent
  BY <1>2, ResolveKeeps
<1> HIDE DEF r
<1>5. IsProgress(w) /\ Extends(w, live.refinement)
      /\ w.output_tokens = Tokens + n
      /\ w.warning_sent = live.refinement.warning_sent
  BY <1>2, <1>4, SettleKeeps DEF Extends
<1> HIDE DEF w
<1>6. files \in FileStates /\ files.tokens \in Nat
  BY FileFields DEF TypeOK
<1>7. total \in Nat
  BY <1>6
<1> HIDE DEF total
<1>8. files' \in FileStates /\ files'.tokens = total
      /\ files'.notices = files.notices
  BY <1>3, <1>6, <1>7 DEF FileStates
<1>9. CASE live' = [live EXCEPT !.refinement = u] /\ pc' = "rollback"
  <2>1. /\ live'.refinement = u /\ IsSession(live')
       /\ live'.session_id = live.session_id
       /\ live'.fork_session = live.fork_session
    BY <1>1, <1>2, <1>9, WithRefinement
  <2>2. QED
    BY <1>2, <1>8, <1>9, <2>1 DEF total
<1>10. CASE live' = [live EXCEPT !.refinement = w] /\ pc' = "save"
  <2>1. /\ live'.refinement = w /\ IsSession(live')
       /\ live'.session_id = live.session_id
       /\ live'.fork_session = live.fork_session
    BY <1>1, <1>5, <1>10, WithRefinement
  <2>2. QED
    BY <1>5, <1>8, <1>10, <2>1 DEF total
<1>11. QED
  BY <1>3, <1>9, <1>10

\* The session a connection settles on (recovery.py _connect_session): its
\* progress is untouched, it has an ID, and no fork intent is left.
LEMMA ConnectStep ==
  ASSUME TypeOK, Connect
  PROVE  /\ IsSession(live')
         /\ live'.refinement = live.refinement
         /\ live'.session_id # "none"
         /\ live'.fork_session = FALSE
         /\ live'.session_id = "own" \/ live'.session_id = live.session_id
         /\ live.fork_session => live'.session_id = "own"
<1> DEFINE id == IF live.session_id = "none" \/ live.fork_session
                 THEN "own" ELSE live.session_id
<1>1. IsSession(live) /\ live.session_id \in {"none", "own", "source"}
      /\ live.fork_session \in BOOLEAN
  BY DEF TypeOK, IsSession
<1>2. /\ id \in {"own", "source"} /\ id # "none"
      /\ id = "own" \/ id = live.session_id
      /\ live.fork_session => id = "own"
  BY <1>1, Zenon
<1>3. live' = [live EXCEPT !.session_id = id, !.fork_session = FALSE]
  BY DEF Connect
<1> HIDE DEF id
<1>4. /\ IsSession(live') /\ live'.refinement = live.refinement
      /\ live'.session_id = id /\ live'.fork_session = FALSE
  BY <1>1, <1>2, <1>3 DEF IsSession
<1>5. QED
  BY <1>2, <1>4, Zenon

\* A paused prefix is the rolled back record, settled.
LEMMA PauseStep ==
  ASSUME TypeOK, PausePrefix
  PROVE  /\ IsProgress(live'.refinement)
         /\ IsSession(live')
         /\ live'.session_id = live.session_id
         /\ live'.fork_session = live.fork_session
         /\ Extends(live'.refinement, live.refinement)
         /\ live'.refinement.output_tokens = Tokens
         /\ live'.refinement.warning_sent = live.refinement.warning_sent
<1> DEFINE r == [live.refinement EXCEPT !.status = "paused"]
           w == Settle(r)
<1>1. IsProgress(live.refinement) /\ IsSession(live)
  BY DEF TypeOK, IsSession
<1>2. IsProgress(r) /\ Extends(r, live.refinement) /\ r.output_tokens = Tokens
      /\ r.warning_sent = live.refinement.warning_sent
  BY <1>1, StatusKeeps DEF Statuses, Tokens
<1>3. live' = [live EXCEPT !.refinement = w]
  BY DEF PausePrefix
<1> HIDE DEF r
<1>4. IsProgress(w) /\ Extends(w, live.refinement) /\ w.output_tokens = Tokens
      /\ w.warning_sent = live.refinement.warning_sent
  BY <1>2, SettleKeeps DEF Extends
<1> HIDE DEF w
<1>5. /\ live'.refinement = w /\ IsSession(live')
       /\ live'.session_id = live.session_id
       /\ live'.fork_session = live.fork_session
  BY <1>1, <1>3, <1>4, WithRefinement
<1>6. QED
  BY <1>3, <1>4, <1>5

\* The budget a continuation asks for is a number above what was spent.
LEMMA ExtraBudget ==
  ASSUME TypeOK, NEW extra \in ExtraBudgets
  PROVE  /\ Tokens + extra \in Nat
         /\ Tokens + extra > live.refinement.output_tokens
         /\ IsSession(live) /\ IsProgress(live.refinement)
<1>1. IsSession(live) /\ IsProgress(live.refinement)
  BY DEF TypeOK, IsSession
<1>2. live.refinement.output_tokens \in Nat /\ extra \in Nat \ {0}
  BY <1>1, RecoveryAssumption DEF IsProgress, IsRecord
<1>3. QED
  BY <1>1, <1>2 DEF Tokens

\* Progress reopened in place.
LEMMA ContinueStep ==
  ASSUME TypeOK, NEW extra \in ExtraBudgets, ContinueRun(extra)
  PROVE  /\ IsProgress(live'.refinement)
         /\ IsSession(live')
         /\ live'.session_id = live.session_id
         /\ live'.fork_session = live.fork_session
         /\ Extends(live'.refinement, live.refinement)
         /\ live'.refinement.output_tokens = Tokens
         /\ live'.refinement.warning_sent => live.refinement.warning_sent
<1> DEFINE w == ContinueState(live.refinement, Tokens + extra)
<1>1. IsProgress(w) /\ Extends(w, live.refinement) /\ w.output_tokens = Tokens
      /\ (w.warning_sent => live.refinement.warning_sent)
  BY ExtraBudget, ContinueKeeps DEF Tokens
<1>2. live' = [live EXCEPT !.refinement = w]
  BY DEF RestoreRuntime, ContinueRun
<1> HIDE DEF w
<1>3. /\ live'.refinement = w /\ IsSession(live')
       /\ live'.session_id = live.session_id
       /\ live'.fork_session = live.fork_session
  BY <1>1, <1>2, ExtraBudget, WithRefinement
<1>4. QED
  BY <1>1, <1>2, <1>3

\* The archive a fork publishes (session_manager.py fork): the source's
\* labels and tokens, under a conversation that is still the source's.
LEMMA ForkedKeeps ==
  ASSUME TypeOK, NEW extra \in ExtraBudgets
  PROVE  /\ Forked(extra).files \in FileStates
         /\ Forked(extra).files.tokens = archive.files.tokens
         /\ Forked(extra).files.notices = archive.files.notices
         /\ archive.files.transcripts # {} => Forked(extra).files.transcripts = {"source"}
         /\ Forked(extra) = [saved |-> Forked(extra).saved, files |-> Forked(extra).files]
         /\ IsSession(Forked(extra).saved)
         /\ Forked(extra).saved.refinement.output_tokens = Tokens
         /\ Forked(extra).saved.refinement.warning_sent => live.refinement.warning_sent
         /\ Extends(Forked(extra).saved.refinement, live.refinement)
         /\ Forked(extra).saved.fork_session <=> Forked(extra).saved.session_id = "source"
         /\ Forked(extra).saved.session_id # "none" => live.session_id # "none"
<1> DEFINE c   == ContinueState(live.refinement, Tokens + extra)
           p   == [c EXCEPT !.phase = "continue"]
           ids == IF archive.files.transcripts = {} THEN {} ELSE {"source"}
           x   == [refinement   |-> p,
                   session_id   |-> IF live.session_id = "none" THEN "none" ELSE "source",
                   fork_session |-> live.session_id # "none"]
           g   == [archive.files EXCEPT !.transcripts = ids]
<1>1. IsProgress(c) /\ Extends(c, live.refinement) /\ c.output_tokens = Tokens
      /\ (c.warning_sent => live.refinement.warning_sent)
  BY ExtraBudget, ContinueKeeps DEF Tokens
<1>2. Forked(extra) = [saved |-> x, files |-> g]
  BY DEF Forked
<1> HIDE DEF c
<1>3. IsProgress(p) /\ Extends(p, live.refinement) /\ p.output_tokens = Tokens
      /\ (p.warning_sent => live.refinement.warning_sent)
  BY <1>1 DEF IsProgress, IsRecord, Extends, Phases
<1> HIDE DEF p
<1>4. archive.files \in FileStates
  BY DEF TypeOK
<1>5. ids \in TranscriptSets /\ (archive.files.transcripts # {} => ids = {"source"})
  BY DEF TranscriptSets
<1> HIDE DEF ids
<1>6. g \in FileStates /\ g.tokens = archive.files.tokens
      /\ g.notices = archive.files.notices /\ g.transcripts = ids
  BY <1>4, <1>5 DEF FileStates
<1> HIDE DEF g
<1>7. IsSession(x) /\ x.refinement = p
      /\ (x.fork_session <=> x.session_id = "source")
      /\ (x.session_id # "none" => live.session_id # "none")
  BY <1>3 DEF IsSession
<1> HIDE DEF x
<1>8. Forked(extra).saved = x /\ Forked(extra).files = g
  BY <1>2
<1>9. QED
  BY <1>2, <1>3, <1>5, <1>6, <1>7, <1>8

-----------------------------------------------------------------------------
(* The inductive invariant.                                                *)

\* What the archive and the exports are typed as, restated for the steps.
LEMMA TypeFacts ==
  ASSUME TypeOK
  PROVE  /\ IsSession(live) /\ IsSession(archive.saved)
         /\ IsProgress(live.refinement) /\ IsProgress(Saved)
         /\ files \in FileStates /\ archive.files \in FileStates
         /\ archive = [saved |-> archive.saved, files |-> archive.files]
  BY DEF TypeOK, IsSession, Saved

\* A record of a session and files is an archive.
LEMMA ArchiveType ==
  ASSUME NEW x, NEW f \in FileStates
  PROVE  /\ [saved |-> x, files |-> f].saved = x
         /\ [saved |-> x, files |-> f].files = f
         /\ [saved |-> x, files |-> f] \in [saved : {x}, files : FileStates]
  OBVIOUS

\* Nothing has been spent in a fresh runtime.
LEMMA NoFilesType ==
  NoFiles \in FileStates /\ NoFiles.tokens = 0 /\ NoFiles.notices = 0
  BY DEF NoFiles, FileStates, TranscriptSets

\* A solution file gets a number, and the others keep theirs.
LEMMA ExportType ==
  ASSUME TypeOK, WriteSolution
  PROVE  exports' \in [DOMAIN exports' -> Nat]
<1>1. PICK m \in Unwritten(live.refinement) :
        exports' = [j \in DOMAIN exports \cup {m} |->
                      IF j = m
                      THEN live.refinement.solution_checkpoints[m]
                      ELSE exports[j]]
  BY DEF WriteSolution
<1>2. live.refinement.solution_checkpoints[m] \in Nat
  BY <1>1, TypeFacts DEF Unwritten, IsProgress, IsRecord
<1>3. \A j \in DOMAIN exports : exports[j] \in Nat
  BY DEF TypeOK
<1>4. QED
  BY <1>1, <1>2, <1>3

\* Reachable states have their types.
LEMMA TypeInit == Init => TypeOK
<1> SUFFICES ASSUME Init PROVE TypeOK
  OBVIOUS
<1>1. IsSession(live) /\ archive.saved = NewSession
      /\ IsSession(archive.saved)
      /\ archive \in [saved : {archive.saved}, files : FileStates]
      /\ files \in FileStates
  BY NewSessionType, NoFilesType, ArchiveType DEF Init
<1>2. exports \in [DOMAIN exports -> Nat]
  BY DEF Init, NoExports
<1>3. retries \in 0 .. MaxRetries /\ reopened \in Nat
  BY RecoveryAssumption DEF Init
<1>4. QED
  BY <1>1, <1>2, <1>3 DEF Init, TypeOK, ProgramCounters

\* Every step keeps the types.
LEMMA TypeStep ==
  ASSUME TypeOK, pc = "begin" => live.session_id # "none", [Next]_vars
  PROVE  TypeOK'
<1>0. TypeOK /\ IsSession(live) /\ IsSession(archive.saved)
      /\ files \in FileStates /\ archive.files \in FileStates
  BY TypeFacts
<1>00. 0 \in 0 .. MaxRetries
  BY RecoveryAssumption
<1>1. CASE OpenRefused
  BY <1>0, <1>1 DEF TypeOK, ProgramCounters, OpenRefused, disk
<1>2. CASE RestoreDone
  BY <1>0, <1>2 DEF TypeOK, ProgramCounters, RestoreDone, disk, GoOn
<1>3. CASE CloseForSave
  BY <1>0, <1>3 DEF TypeOK, ProgramCounters, CloseForSave, disk
<1>4. CASE SaveDone
  BY <1>0, <1>4, <1>00 DEF TypeOK, ProgramCounters, SaveDone, disk, GoOn
<1>5. CASE LoseTransport
  BY <1>0, <1>5 DEF TypeOK, ProgramCounters, LoseTransport, disk
<1>6. CASE GiveUp
  BY <1>0, <1>6 DEF TypeOK, ProgramCounters, GiveUp, disk
<1>7. CASE Abort
  BY <1>0, <1>7 DEF TypeOK, ProgramCounters, Abort, disk
<1>8. CASE ContinueDone
  BY <1>0, <1>8 DEF TypeOK, ProgramCounters, ContinueDone, disk
<1>9. CASE OpenNew
  BY <1>0, <1>9, NewSessionType, NoFilesType, <1>00 DEF TypeOK, ProgramCounters, OpenNew
<1>10. CASE OpenSaved
  <2>1. runtime' \in BOOLEAN /\ files' \in FileStates
    BY <1>0, <1>10, Zenon DEF RestoreRuntime, OpenSaved, TypeOK
  <2>2. QED
    BY <1>0, <1>00, <1>10, <2>1 DEF RestoreRuntime, TypeOK, ProgramCounters, OpenSaved
<1>11. CASE RollBack
  BY <1>0, <1>11 DEF RestoreRuntime, TypeOK, ProgramCounters, RollBack
<1>12. CASE RetryFromArchive
  BY <1>0, <1>12, RecoveryAssumption DEF RestoreRuntime, TypeOK, ProgramCounters, RetryFromArchive
<1>13. CASE PublishNew
  BY <1>0, <1>13, ArchiveType DEF TypeOK, ProgramCounters, PublishNew
<1>14. CASE WriteArchive
  BY <1>0, <1>14, ArchiveType DEF TypeOK, ProgramCounters, WriteArchive
<1>15. CASE CommitContinuation
  BY <1>0, <1>15, ArchiveType DEF TypeOK, ProgramCounters, CommitContinuation
<1>16. CASE WriteSolution
  BY <1>0, <1>16, ExportType DEF TypeOK, ProgramCounters, WriteSolution
<1>17. CASE Connect
  BY <1>0, <1>17, ConnectStep DEF TypeOK, ProgramCounters, Connect, disk
<1>18. CASE BeginPhase
  <2>1. IsSession(live') /\ files' \in FileStates
    BY <1>0, <1>18, BeginStep, WithRefinement DEF BeginPhase
  <2>2. QED
    BY <1>0, <1>18, <2>1 DEF TypeOK, ProgramCounters, BeginPhase
<1>19. CASE \E m \in 1 .. MaxReport : Usage(m)
  <2>1. PICK m \in 1 .. MaxReport : Usage(m)
    BY <1>19
  <2>2. m \in Nat
    BY RecoveryAssumption
  <2>3. IsSession(live') /\ files' \in FileStates
    BY <1>0, <2>1, <2>2, UsageStep, WithRefinement
  <2>4. interrupted' \in BOOLEAN
    BY <2>1, Zenon DEF Usage, TypeOK
  <2>5. QED
    BY <1>0, <2>1, <2>3, <2>4 DEF TypeOK, ProgramCounters, Usage
<1>20. CASE \E kind \in Kinds, m \in 0 .. MaxReport, noGaps \in BOOLEAN :
            EndPhase(kind, m, noGaps)
  <2>1. PICK kind \in Kinds, m \in 0 .. MaxReport, noGaps \in BOOLEAN :
          EndPhase(kind, m, noGaps)
    BY <1>20
  <2>2. m \in Nat
    BY RecoveryAssumption
  <2>3. IsSession(live') /\ files' \in FileStates /\ pc' \in {"save", "rollback"}
    BY <1>0, <2>1, <2>2, EndStep, WithRefinement
  <2>4. QED
    BY <1>0, <2>1, <2>3 DEF TypeOK, ProgramCounters, EndPhase
<1>21. CASE PausePrefix
  <2>1. IsSession(live')
    BY <1>0, <1>21, PauseStep, WithRefinement
  <2>2. QED
    BY <1>0, <1>21, <2>1 DEF TypeOK, ProgramCounters, PausePrefix, disk
<1>22. CASE CloseSession
  BY <1>0, <1>22, NewSessionType, NoFilesType, <1>00 DEF TypeOK, ProgramCounters, CloseSession
<1>23. CASE Crash
  BY <1>0, <1>23, NewSessionType, <1>00 DEF TypeOK, ProgramCounters, Crash, disk
<1>24. CASE \E extra \in ExtraBudgets : ContinueRun(extra)
  <2>1. PICK extra \in ExtraBudgets : ContinueRun(extra)
    BY <1>24
  <2>2. IsSession(live')
    BY <1>0, <2>1, ContinueStep, WithRefinement
  <2>3. QED
    BY <1>0, <2>1, <2>2 DEF RestoreRuntime, TypeOK, ProgramCounters, ContinueRun
<1>25. CASE \E extra \in ExtraBudgets : Fork(extra)
  <2>1. PICK extra \in ExtraBudgets : Fork(extra)
    BY <1>25
  <2>2. /\ Forked(extra).files \in FileStates /\ IsSession(Forked(extra).saved)
        /\ Forked(extra) \in [saved : {Forked(extra).saved}, files : FileStates]
    BY <1>0, ForkedKeeps, ArchiveType
  <2>3. NoExports \in [DOMAIN NoExports -> Nat]
    BY DEF NoExports
  <2>4. reopened' \in Nat
    BY <2>1 DEF Fork, TypeOK
  <2>5. IsSession(live') /\ IsSession(archive'.saved)
        /\ archive' \in [saved : {archive'.saved}, files : FileStates]
        /\ files' \in FileStates /\ exports' \in [DOMAIN exports' -> Nat]
    BY <2>1, <2>2, <2>3, NoFilesType, Zenon DEF Fork
  <2>6. QED
    BY <1>0, <2>1, <2>4, <2>5 DEF TypeOK, ProgramCounters, Fork
<1>26. CASE ForkDone
  BY <1>0, <1>26, NewSessionType DEF TypeOK, ProgramCounters, ForkDone, disk
<1>27. CASE UNCHANGED vars
  BY <1>0, <1>27 DEF TypeOK, vars
<1>28. QED
  BY <1>1, <1>2, <1>3, <1>4, <1>5, <1>6, <1>7, <1>8, <1>9, <1>10, <1>11,
     <1>12, <1>13, <1>14, <1>15, <1>16, <1>17, <1>18, <1>19, <1>20, <1>21, <1>22, <1>23, <1>24, <1>25, <1>26, <1>27
     DEF Next, Progress, Environment

\* Keeping labels is reflexive.
LEMMA ExtendsRefl == ASSUME NEW s PROVE Extends(s, s)
  BY DEF Extends

\* And transitive: a phase keeps what the phases before it kept.
LEMMA ExtendsTrans ==
  ASSUME NEW a, NEW b, NEW c, Extends(a, b), Extends(b, c)
  PROVE  Extends(a, c)
  BY DEF Extends

\* Fields of a fresh session.
LEMMA NewSessionFields ==
  /\ NewSession.refinement = NewProgress
  /\ NewSession.session_id = "none" /\ NewSession.fork_session = FALSE
  /\ NewProgress.output_tokens = 0 /\ NewProgress.warning_sent = FALSE
  /\ NewProgress.status = "running"
  /\ DOMAIN NewProgress.solution_checkpoints = {}
  BY DEF NewSession, NewProgress

\* The seed starts in the invariant.
LEMMA InvInit == Init => IInv
<1> SUFFICES ASSUME Init PROVE IInv
  OBVIOUS
<1>1. TypeOK
  BY TypeInit
<1>2. /\ ConnectionOwned /\ LiveIsSaved /\ LiveExtendsSaved /\ FilesMatchLive
  BY DEF Init, ConnectionOwned, LiveIsSaved, LiveExtendsSaved, FilesMatchLive, AtWork
<1>3. NothingBeforePublish /\ IntentWithSource
  BY NewSessionFields DEF Init, NothingBeforePublish, IntentWithSource, NoExports
<1>4. archive.saved = NewSession /\ archive.files = NoFiles
  BY DEF Init
<1>5. ArchiveMatches
  BY <1>4, NewSessionFields, NoFilesType DEF ArchiveMatches, Saved
<1>6. ExportsFollowArchive
  BY DEF Init, ExportsFollowArchive, NoExports
<1>7. QED
  BY <1>1, <1>2, <1>3, <1>5, <1>6 DEF IInv, Coherent

\* Memory, files, archive and solution files stay coherent through every
\* step, and no step loses a saved label.
LEMMA CoherentStep ==
  ASSUME TypeOK, Coherent, [Next]_vars
  PROVE  Coherent' /\ Extends(Saved', Saved)
<1>0. /\ IsSession(live) /\ IsSession(archive.saved)
      /\ Extends(Saved, Saved)
  BY TypeFacts, ExtendsRefl
<1>1. CASE OpenNew
  BY <1>0, <1>1, NewSessionFields, NoFilesType
    DEF Coherent, ConnectionOwned, NothingBeforePublish, LiveIsSaved,
       LiveExtendsSaved, FilesMatchLive, AtWork, ArchiveMatches,
       IntentWithSource, ExportsFollowArchive, Saved, Tokens,
       OpenNew, disk
<1>2. CASE OpenRefused
  BY <1>0, <1>2
    DEF Coherent, ConnectionOwned, NothingBeforePublish, LiveIsSaved,
       LiveExtendsSaved, FilesMatchLive, AtWork, ArchiveMatches,
       IntentWithSource, ExportsFollowArchive, Saved, Tokens,
       OpenRefused, disk
<1>3. CASE PublishNew
  BY <1>0, <1>3, NewSessionFields, NoFilesType
    DEF Coherent, ConnectionOwned, NothingBeforePublish, LiveIsSaved,
       LiveExtendsSaved, FilesMatchLive, AtWork, ArchiveMatches,
       IntentWithSource, ExportsFollowArchive, Saved, Tokens,
       PublishNew, disk
<1>4. CASE OpenSaved
  BY <1>0, <1>4, ExtendsRefl
    DEF RestoreRuntime, Coherent, ConnectionOwned, NothingBeforePublish, LiveIsSaved,
       LiveExtendsSaved, FilesMatchLive, AtWork, ArchiveMatches,
       IntentWithSource, ExportsFollowArchive, Saved, Tokens,
       OpenSaved, disk
<1>5. CASE WriteSolution
  <2>1. PICK m \in Unwritten(live.refinement) :
          exports' = [j \in DOMAIN exports \cup {m} |->
                        IF j = m
                        THEN live.refinement.solution_checkpoints[m]
                        ELSE exports[j]]
    BY <1>5 DEF WriteSolution
  <2>2. live.refinement = Saved /\ published
    BY <1>5 DEF Coherent, LiveIsSaved, NothingBeforePublish, WriteSolution, Saved
  <2>3. m \in DOMAIN Saved.solution_checkpoints
    BY <2>1, <2>2 DEF Unwritten
  <2>4. \A j \in DOMAIN exports' :
          exports'[j] = IF j = m THEN Saved.solution_checkpoints[m] ELSE exports[j]
    BY <2>1, <2>2
  <2>5. DOMAIN exports' = DOMAIN exports \cup {m}
    BY <2>1
  <2>6. ExportsFollowArchive'
    BY <1>5, <2>2, <2>3, <2>4, <2>5
    DEF Coherent, ExportsFollowArchive, Saved, WriteSolution
  <2>7. (/\ ConnectionOwned /\ NothingBeforePublish /\ LiveIsSaved
         /\ LiveExtendsSaved /\ FilesMatchLive /\ ArchiveMatches
         /\ IntentWithSource)'
    BY <1>5, <2>2
    DEF Coherent, ConnectionOwned, NothingBeforePublish, LiveIsSaved,
        LiveExtendsSaved, FilesMatchLive, AtWork, ArchiveMatches,
        IntentWithSource, Saved, Tokens, WriteSolution
  <2>8. QED
    BY <1>0, <1>5, <2>6, <2>7 DEF Coherent, WriteSolution, Saved
<1>6. CASE RestoreDone
  BY <1>0, <1>6, ExtendsRefl
    DEF Coherent, ConnectionOwned, NothingBeforePublish, LiveIsSaved,
       LiveExtendsSaved, FilesMatchLive, AtWork, ArchiveMatches,
       IntentWithSource, ExportsFollowArchive, Saved, Tokens,
       RestoreDone, GoOn, disk
<1>7. CASE Connect
  BY <1>0, <1>7, ConnectStep
    DEF Coherent, ConnectionOwned, NothingBeforePublish, LiveIsSaved,
       LiveExtendsSaved, FilesMatchLive, AtWork, ArchiveMatches,
       IntentWithSource, ExportsFollowArchive, Saved, Tokens,
       Connect, disk
<1>8. CASE BeginPhase
  <2>1. /\ live'.session_id = live.session_id
        /\ live'.fork_session = live.fork_session
        /\ Extends(live'.refinement, live.refinement)
        /\ IsProgress(live'.refinement)
        /\ live'.refinement.output_tokens = Tokens
        /\ files'.tokens = files.tokens
        /\ (files.notices > 0 => files'.notices > 0)
        /\ live'.refinement.warning_sent =>
             live.refinement.warning_sent \/ files'.notices > 0
    BY <1>8, BeginStep DEF Coherent, IntentWithSource, BeginPhase
  <2>2. FilesMatchLive'
    BY <1>8, <2>1
    DEF Coherent, FilesMatchLive, AtWork, BeginPhase, Tokens
  <2>3. Extends(live'.refinement, Saved)
    BY <1>8, <2>1, ExtendsTrans DEF Coherent, LiveExtendsSaved, BeginPhase
  <2>4. (/\ ConnectionOwned /\ NothingBeforePublish /\ LiveIsSaved
         /\ LiveExtendsSaved /\ ArchiveMatches /\ IntentWithSource
         /\ ExportsFollowArchive)'
    BY <1>8, <2>1, <2>3
    DEF Coherent, ConnectionOwned, NothingBeforePublish, LiveIsSaved,
        LiveExtendsSaved, ArchiveMatches, IntentWithSource,
        ExportsFollowArchive, Saved, BeginPhase
  <2>5. QED
    BY <1>0, <1>8, <2>2, <2>4 DEF Coherent, BeginPhase, Saved
<1>9. CASE \E m \in 1 .. MaxReport : Usage(m)
  <2>1. PICK m \in 1 .. MaxReport : Usage(m)
    BY <1>9
  <2>2. m \in Nat
    BY RecoveryAssumption
  <2>3. /\ live'.session_id = live.session_id
        /\ live'.fork_session = live.fork_session
        /\ Extends(live'.refinement, live.refinement)
        /\ IsProgress(live'.refinement)
        /\ live'.refinement.output_tokens = Tokens + m
        /\ files'.tokens = files.tokens + m
        /\ (files.notices > 0 => files'.notices > 0)
        /\ live'.refinement.warning_sent =>
             live.refinement.warning_sent \/ files'.notices > 0
    BY <2>1, <2>2, UsageStep
  <2>4. FilesMatchLive'
    BY <2>1, <2>3
    DEF Coherent, FilesMatchLive, AtWork, Usage, Tokens
  <2>5. Extends(live'.refinement, Saved)
    BY <2>1, <2>3, ExtendsTrans DEF Coherent, LiveExtendsSaved, Usage
  <2>6. (/\ ConnectionOwned /\ NothingBeforePublish /\ LiveIsSaved
         /\ LiveExtendsSaved /\ ArchiveMatches /\ IntentWithSource
         /\ ExportsFollowArchive)'
    BY <2>1, <2>3, <2>5
    DEF Coherent, ConnectionOwned, NothingBeforePublish, LiveIsSaved,
        LiveExtendsSaved, ArchiveMatches, IntentWithSource,
        ExportsFollowArchive, Saved, Usage
  <2>7. QED
    BY <1>0, <2>1, <2>4, <2>6 DEF Coherent, Usage, Saved
<1>10. CASE \E kind \in Kinds, m \in 0 .. MaxReport, noGaps \in BOOLEAN :
            EndPhase(kind, m, noGaps)
  <2>1. PICK kind \in Kinds, m \in 0 .. MaxReport, noGaps \in BOOLEAN :
          EndPhase(kind, m, noGaps)
    BY <1>10
  <2>2. m \in Nat
    BY RecoveryAssumption
  <2>3. /\ live'.session_id = live.session_id
        /\ live'.fork_session = live.fork_session
        /\ Extends(live'.refinement, live.refinement)
        /\ IsProgress(live'.refinement)
        /\ live'.refinement.output_tokens = Tokens + m
        /\ live'.refinement.warning_sent = live.refinement.warning_sent
        /\ files'.tokens = files.tokens + m
        /\ files'.notices = files.notices
        /\ pc' \in {"save", "rollback"}
    BY <2>1, <2>2, EndStep
  <2>4. FilesMatchLive'
    BY <2>1, <2>3
    DEF Coherent, FilesMatchLive, AtWork, EndPhase, Tokens
  <2>5. Extends(live'.refinement, Saved)
    BY <2>1, <2>3, ExtendsTrans DEF Coherent, LiveExtendsSaved, EndPhase
  <2>6. (/\ ConnectionOwned /\ NothingBeforePublish /\ LiveIsSaved
         /\ LiveExtendsSaved /\ ArchiveMatches /\ IntentWithSource
         /\ ExportsFollowArchive)'
    BY <2>1, <2>3, <2>5
    DEF Coherent, ConnectionOwned, NothingBeforePublish, LiveIsSaved,
        LiveExtendsSaved, ArchiveMatches, IntentWithSource,
        ExportsFollowArchive, Saved, EndPhase
  <2>7. QED
    BY <1>0, <2>1, <2>4, <2>6 DEF Coherent, EndPhase, Saved
<1>11. CASE RollBack
  BY <1>0, <1>11, ExtendsRefl
    DEF RestoreRuntime, Coherent, ConnectionOwned, NothingBeforePublish, LiveIsSaved,
       LiveExtendsSaved, FilesMatchLive, AtWork, ArchiveMatches,
       IntentWithSource, ExportsFollowArchive, Saved, Tokens,
       RollBack, disk
<1>12. CASE PausePrefix
  BY <1>0, <1>12, PauseStep
    DEF Coherent, ConnectionOwned, NothingBeforePublish, LiveIsSaved,
       LiveExtendsSaved, FilesMatchLive, AtWork, ArchiveMatches,
       IntentWithSource, ExportsFollowArchive, Saved, Tokens,
       PausePrefix, disk
<1>13. CASE CloseForSave
  BY <1>0, <1>13
    DEF Coherent, ConnectionOwned, NothingBeforePublish, LiveIsSaved,
       LiveExtendsSaved, FilesMatchLive, AtWork, ArchiveMatches,
       IntentWithSource, ExportsFollowArchive, Saved, Tokens,
       CloseForSave, disk
<1>14. CASE WriteArchive
  <2>1. archive' = [saved |-> live, files |-> files]
    BY <1>14 DEF WriteArchive
  <2>2. archive'.saved = live /\ archive'.files = files
    BY <2>1
  <2>3. Extends(Saved', Saved)
    BY <1>14, <2>2 DEF Coherent, LiveExtendsSaved, WriteArchive, Saved
  <2>4. ArchiveMatches'
    BY <1>14, <2>2
    DEF Coherent, FilesMatchLive, AtWork, ArchiveMatches, WriteArchive, Saved, Tokens
  <2>5. ExportsFollowArchive'
    BY <1>14, <2>3
    DEF Coherent, NothingBeforePublish, ExportsFollowArchive, Extends, WriteArchive
  <2>6. (IntentWithSource /\ LiveIsSaved)'
    BY <1>14, <2>2 DEF Coherent, IntentWithSource, LiveIsSaved, WriteArchive
  <2>7. (/\ ConnectionOwned /\ NothingBeforePublish
         /\ LiveExtendsSaved /\ FilesMatchLive)'
    BY <1>14
    DEF Coherent, ConnectionOwned, NothingBeforePublish, LiveExtendsSaved,
        FilesMatchLive, AtWork, WriteArchive, Tokens
  <2>8. QED
    BY <2>3, <2>4, <2>5, <2>6, <2>7 DEF Coherent
<1>15. CASE SaveDone
  BY <1>0, <1>15
    DEF Coherent, ConnectionOwned, NothingBeforePublish, LiveIsSaved,
       LiveExtendsSaved, FilesMatchLive, AtWork, ArchiveMatches,
       IntentWithSource, ExportsFollowArchive, Saved, Tokens,
       SaveDone, GoOn, disk
<1>16. CASE LoseTransport
  BY <1>0, <1>16
    DEF Coherent, ConnectionOwned, NothingBeforePublish, LiveIsSaved,
       LiveExtendsSaved, FilesMatchLive, AtWork, ArchiveMatches,
       IntentWithSource, ExportsFollowArchive, Saved, Tokens,
       LoseTransport, disk
<1>17. CASE RetryFromArchive
  BY <1>0, <1>17
    DEF RestoreRuntime, Coherent, ConnectionOwned, NothingBeforePublish, LiveIsSaved,
       LiveExtendsSaved, FilesMatchLive, AtWork, ArchiveMatches,
       IntentWithSource, ExportsFollowArchive, Saved, Tokens,
       RetryFromArchive, disk
<1>18. CASE GiveUp
  BY <1>0, <1>18
    DEF Coherent, ConnectionOwned, NothingBeforePublish, LiveIsSaved,
       LiveExtendsSaved, FilesMatchLive, AtWork, ArchiveMatches,
       IntentWithSource, ExportsFollowArchive, Saved, Tokens,
       GiveUp, disk
<1>19. CASE Abort
  BY <1>0, <1>19
    DEF Coherent, ConnectionOwned, NothingBeforePublish, LiveIsSaved,
       LiveExtendsSaved, FilesMatchLive, AtWork, ArchiveMatches,
       IntentWithSource, ExportsFollowArchive, Saved, Tokens,
       Abort, disk
<1>20. CASE CloseSession
  BY <1>0, <1>20, NewSessionFields, NoFilesType
    DEF Coherent, ConnectionOwned, NothingBeforePublish, LiveIsSaved,
       LiveExtendsSaved, FilesMatchLive, AtWork, ArchiveMatches,
       IntentWithSource, ExportsFollowArchive, Saved, Tokens,
       CloseSession, disk
<1>21. CASE Crash
  BY <1>0, <1>21, NewSessionFields, NoFilesType
    DEF Coherent, ConnectionOwned, NothingBeforePublish, LiveIsSaved,
       LiveExtendsSaved, FilesMatchLive, AtWork, ArchiveMatches,
       IntentWithSource, ExportsFollowArchive, Saved, Tokens,
       Crash, disk
<1>22. CASE \E extra \in ExtraBudgets : ContinueRun(extra)
  <2>1. PICK extra \in ExtraBudgets : ContinueRun(extra)
    BY <1>22
  <2>2. /\ live'.session_id = live.session_id
        /\ live'.fork_session = live.fork_session
        /\ Extends(live'.refinement, live.refinement)
        /\ IsProgress(live'.refinement)
        /\ live'.refinement.output_tokens = Tokens
        /\ live'.refinement.warning_sent => live.refinement.warning_sent
    BY <2>1, ContinueStep
  <2>3. QED
    BY <1>0, <2>1, <2>2
    DEF RestoreRuntime, Coherent, ConnectionOwned, NothingBeforePublish, LiveIsSaved,
       LiveExtendsSaved, FilesMatchLive, AtWork, ArchiveMatches,
       IntentWithSource, ExportsFollowArchive, Saved, Tokens,
       ContinueRun
<1>23. CASE CommitContinuation
  <2>1. archive' = [saved |-> live, files |-> files]
    BY <1>23 DEF CommitContinuation
  <2>2. archive'.saved = live /\ archive'.files = files
    BY <2>1
  <2>3. Extends(Saved', Saved)
    BY <1>23, <2>2 DEF Coherent, LiveExtendsSaved, CommitContinuation, Saved
  <2>4. ArchiveMatches'
    BY <1>23, <2>2
    DEF Coherent, FilesMatchLive, AtWork, ArchiveMatches, CommitContinuation, Saved, Tokens
  <2>5. ExportsFollowArchive'
    BY <1>23, <2>3
    DEF Coherent, NothingBeforePublish, ExportsFollowArchive, Extends, CommitContinuation
  <2>6. (IntentWithSource /\ LiveIsSaved)'
    BY <1>23, <2>2 DEF Coherent, IntentWithSource, LiveIsSaved, CommitContinuation
  <2>7. (/\ ConnectionOwned /\ NothingBeforePublish
         /\ LiveExtendsSaved /\ FilesMatchLive)'
    BY <1>23
    DEF Coherent, ConnectionOwned, NothingBeforePublish, LiveExtendsSaved,
        FilesMatchLive, AtWork, CommitContinuation, Tokens
  <2>8. QED
    BY <2>3, <2>4, <2>5, <2>6, <2>7 DEF Coherent
<1>24. CASE ContinueDone
  BY <1>0, <1>24
    DEF Coherent, ConnectionOwned, NothingBeforePublish, LiveIsSaved,
       LiveExtendsSaved, FilesMatchLive, AtWork, ArchiveMatches,
       IntentWithSource, ExportsFollowArchive, Saved, Tokens,
       ContinueDone, disk
<1>25. CASE \E extra \in ExtraBudgets : Fork(extra)
  <2>1. PICK extra \in ExtraBudgets : Fork(extra)
    BY <1>25
  <2>2. /\ archive' = Forked(extra) /\ live' = Forked(extra).saved
        /\ pc' = "forked" /\ DOMAIN exports' = {}
        /\ published' = published /\ connection' = connection
    BY <2>1 DEF Fork, NoExports
  <2>3. live = archive.saved /\ published /\ pc = "restored"
    BY <2>1 DEF Coherent, LiveIsSaved, NothingBeforePublish, Fork
  <2>4. /\ Forked(extra).files.tokens = archive.files.tokens
        /\ Forked(extra).files.notices = archive.files.notices
        /\ archive.files.transcripts # {} =>
             Forked(extra).files.transcripts = {"source"}
        /\ Forked(extra).saved.refinement.output_tokens = Tokens
        /\ Forked(extra).saved.refinement.warning_sent =>
             live.refinement.warning_sent
        /\ Extends(Forked(extra).saved.refinement, live.refinement)
        /\ Forked(extra).saved.fork_session <=>
             Forked(extra).saved.session_id = "source"
        /\ Forked(extra).saved.session_id # "none" => live.session_id # "none"
        /\ IsSession(Forked(extra).saved)
    BY <2>1, ForkedKeeps
  <2>5. Forked(extra).saved.session_id \in {"none", "source"}
    BY DEF Forked
  <2>6. ArchiveMatches'
    BY <2>2, <2>3, <2>4, <2>5 DEF Coherent, ArchiveMatches, Saved, Tokens
  <2>7. QED
    BY <2>2, <2>3, <2>4, <2>6
    DEF Coherent, ConnectionOwned, NothingBeforePublish, LiveIsSaved,
        LiveExtendsSaved, FilesMatchLive, AtWork, IntentWithSource,
        ExportsFollowArchive, Saved
<1>26. CASE ForkDone
  BY <1>0, <1>26, NewSessionFields, NoFilesType
    DEF Coherent, ConnectionOwned, NothingBeforePublish, LiveIsSaved,
       LiveExtendsSaved, FilesMatchLive, AtWork, ArchiveMatches,
       IntentWithSource, ExportsFollowArchive, Saved, Tokens,
       ForkDone, disk
<1>27. CASE UNCHANGED vars
  BY <1>0, <1>27
    DEF Coherent, ConnectionOwned, NothingBeforePublish, LiveIsSaved,
       LiveExtendsSaved, FilesMatchLive, AtWork, ArchiveMatches,
       IntentWithSource, ExportsFollowArchive, Saved, Tokens,
       vars
<1>28. QED
  BY <1>1, <1>2, <1>3, <1>4, <1>5, <1>6, <1>7, <1>8, <1>9, <1>10,
     <1>11, <1>12, <1>13, <1>14, <1>15, <1>16, <1>17, <1>18, <1>19, <1>20,
     <1>21, <1>22, <1>23, <1>24, <1>25, <1>26, <1>27
  DEF Next, Progress, Environment

-----------------------------------------------------------------------------
(* The history of the record: phases, pauses and reopenings.               *)

\* A phase that is kept advances the saved record (self_refine.py
\* _resolve_phase_outcome, _capture_solution_checkpoints).
LEMMA KeptPhase ==
  ASSUME NEW old, IsProgress(old), Affordable(old), NEW u, IsProgress(u), Valid(u),
         InPhase(old, u), Extends(u, old), u.output_tokens > old.output_tokens,
         NEW kind \in Kinds, NEW noGaps \in BOOLEAN, NEW floor,
         ~MustRollBack(u, kind), kind = "interrupted" => BudgetStatus(u) # "running",
         NEW r, r = ResolvePhaseOutcome(u, kind, noGaps, floor)
  PROVE  /\ Durable!Advances(old, Settle(r), floor)
         /\ Valid(Settle(r))
         /\ Ordered(old) /\ (\A m \in OpenLabels(u) : Boundary(u, m) >= u.output_tokens) =>
              Durable!FreezesLatest(old, Settle(r))
<1> DEFINE w == Settle(r)
<1>1. Outcome(u, kind, floor, r) /\ IsProgress(r)
  BY ResolveOutcomes, ResolveKeeps
<1>2. /\ u = [old EXCEPT !.output_tokens = u.output_tokens, !.warning_sent = u.warning_sent,
                         !.solution_checkpoints = u.solution_checkpoints]
      /\ u.status = "running" /\ old.status = "running"
      /\ u.phase = old.phase /\ u.solution = old.solution /\ u.rounds = old.rounds
      /\ u.no_gap_critiques = old.no_gap_critiques
      /\ u.budget_tokens = old.budget_tokens /\ u.pause_at_tokens = old.pause_at_tokens
      /\ u.checkpoint_count = old.checkpoint_count
  BY DEF InPhase, IsProgress, IsRecord
<1>3. /\ u.output_tokens \in Nat /\ u.budget_tokens \in Nat /\ u.pause_at_tokens \in Nat
      /\ u.rounds \in Nat /\ u.no_gap_critiques \in Nat
      /\ u.pause_at_tokens # NoPause => u.pause_at_tokens < u.budget_tokens
      /\ u.no_gap_critiques <= u.rounds
  BY DEF Valid, IsProgress, IsRecord
<1>4. /\ r.output_tokens = u.output_tokens
      /\ r.budget_tokens = u.budget_tokens /\ r.pause_at_tokens = u.pause_at_tokens
      /\ r.checkpoint_count = u.checkpoint_count
      /\ r.solution_checkpoints = u.solution_checkpoints
  BY ZenonT(40), <1>1 DEF Outcome, IsProgress, IsRecord
<1>5. \/ /\ kind = "interrupted" \/ u.output_tokens > u.budget_tokens
         /\ r.status = BudgetStatus(u) /\ r.phase = u.phase /\ r.solution = u.solution
         /\ r.rounds = u.rounds /\ r.no_gap_critiques = u.no_gap_critiques
      \/ /\ kind # "interrupted" /\ u.output_tokens <= u.budget_tokens
         /\ u.phase # "critique"
         /\ r.status = BudgetStatus(u) /\ r.phase = "critique" /\ r.solution = u.output_tokens
         /\ r.rounds = u.rounds /\ r.no_gap_critiques = u.no_gap_critiques
      \/ /\ kind # "interrupted" /\ u.output_tokens <= u.budget_tokens
         /\ u.phase = "critique"
         /\ r.phase = "revise" /\ r.solution = u.solution
         /\ r.rounds = u.rounds + 1 /\ r.no_gap_critiques \in {0, u.no_gap_critiques + 1}
         /\ \/ r.status = BudgetStatus(u)
            \/ r.status = "finished" /\ r.rounds >= floor /\ r.no_gap_critiques >= MinNoGap
  BY <1>1 DEF Outcome, IsProgress, IsRecord
<1>6. Valid(r)
  BY <1>3, <1>4, <1>5 DEF Valid
<1>7. /\ w = [r EXCEPT !.solution_checkpoints = w.solution_checkpoints]
      /\ Valid(w)
      /\ Ordered(r) =>
           /\ DOMAIN w.solution_checkpoints = DOMAIN r.solution_checkpoints \cup
                {m \in OpenLabels(r) :
                   Boundary(r, m) <= IF r.status = "running"
                                     THEN r.output_tokens ELSE ActiveLimit(r)}
           /\ \A m \in OpenLabels(r) \cap DOMAIN w.solution_checkpoints :
                w.solution_checkpoints[m] = r.solution
      /\ Extends(w, r)
  BY <1>1, <1>6, SettleFreezes, SettleKeeps
<1> HIDE DEF w
<1>8. /\ w.output_tokens = r.output_tokens /\ w.status = r.status /\ w.phase = r.phase
      /\ w.solution = r.solution /\ w.rounds = r.rounds
      /\ w.no_gap_critiques = r.no_gap_critiques
      /\ w.budget_tokens = r.budget_tokens /\ w.pause_at_tokens = r.pause_at_tokens
      /\ w.checkpoint_count = r.checkpoint_count
  BY <1>1, <1>7 DEF IsProgress, IsRecord
<1>9. /\ u.pause_at_tokens # NoPause =>
           /\ u.output_tokens <= u.pause_at_tokens
           /\ kind = "interrupted" => u.output_tokens < u.pause_at_tokens
      /\ kind = "interrupted" \/ u.output_tokens > u.budget_tokens =>
           u.pause_at_tokens = NoPause /\ BudgetStatus(u) = "exhausted"
  BY <1>3 DEF MustRollBack, BudgetStatus
<1>10. Durable!StatusEarned(w, floor)
  <2>1. CASE w.status = BudgetStatus(u)
    BY <1>3, <1>4, <1>8, <1>9, <2>1
    DEF Durable!StatusEarned, Durable!ActiveLimit, Durable!NoPause, NoPause, BudgetStatus
  <2>2. CASE w.status # BudgetStatus(u)
    BY <1>3, <1>4, <1>5, <1>8, <1>9, <2>2
    DEF Durable!StatusEarned, Durable!ActiveLimit, Durable!NoPause, NoPause
  <2>3. QED
    BY <2>1, <2>2
<1>11. Durable!SameAllowance(old, w)
  BY <1>2, <1>4, <1>8 DEF Durable!SameAllowance
<1>12. Durable!Advances(old, w, floor)
  <2>1. w.output_tokens > old.output_tokens
    BY <1>4, <1>8
  <2>2. \/ /\ old.phase # "critique" /\ w.phase = "critique"
           /\ w.solution = w.output_tokens
           /\ w.output_tokens <= Durable!ActiveLimit(old)
           /\ w.status # "finished"
           /\ w.rounds = old.rounds
           /\ w.no_gap_critiques = old.no_gap_critiques
        \/ /\ old.phase = "critique" /\ w.phase = "revise"
           /\ w.solution = old.solution
           /\ w.rounds = old.rounds + 1
           /\ w.no_gap_critiques \in {0, old.no_gap_critiques + 1}
        \/ /\ w.phase = old.phase
           /\ w.status = "exhausted"
           /\ w.solution = old.solution
           /\ w.rounds = old.rounds
           /\ w.no_gap_critiques = old.no_gap_critiques
    BY <1>2, <1>3, <1>4, <1>5, <1>8, <1>9
    DEF Durable!ActiveLimit, Durable!NoPause, NoPause, BudgetStatus
  <2>3. QED
    BY <1>2, <1>10, <1>11, <2>1, <2>2 DEF Durable!Advances
<1>13. ASSUME Ordered(old), \A m \in OpenLabels(u) : Boundary(u, m) >= u.output_tokens
       PROVE  Durable!FreezesLatest(old, w)
  <2>1. /\ ActiveLimit(r) = ActiveLimit(old) /\ ActiveLimit(w) = ActiveLimit(old)
        /\ \A m : /\ Boundary(u, m) = Boundary(old, m) /\ Boundary(r, m) = Boundary(old, m)
                  /\ Boundary(w, m) = Boundary(old, m)
    BY <1>2, <1>4, <1>8, SameBoundaries
  <2>2. /\ OpenLabels(r) = OpenLabels(u) /\ OpenLabels(u) \subseteq OpenLabels(old)
        /\ DOMAIN old.solution_checkpoints \subseteq DOMAIN u.solution_checkpoints
    BY <1>2, <1>4 DEF OpenLabels, Extends
  <2>3. Ordered(r)
    BY <1>13, <2>1, <2>2 DEF Ordered
  <2>4. \A m \in 1 .. old.checkpoint_count : Boundary(old, m) \in Nat
    BY AllowanceAssumption DEF IsProgress, IsRecord, Boundary, ActiveLimit
  <2>5. DOMAIN u.solution_checkpoints \subseteq 1 .. old.checkpoint_count
    BY <1>2 DEF Valid
  <2>6. \A m \in DOMAIN u.solution_checkpoints \ DOMAIN old.solution_checkpoints :
          Boundary(old, m) < u.output_tokens /\ u.solution_checkpoints[m] = old.solution
    BY <2>1 DEF InPhase
  <2>7. \A m \in OpenLabels(u) : Boundary(old, m) >= u.output_tokens
    BY <1>13, <2>1
  <2>8. \A m \in DOMAIN u.solution_checkpoints :
          /\ m \in DOMAIN w.solution_checkpoints
          /\ w.solution_checkpoints[m] = u.solution_checkpoints[m]
    BY <1>4, <1>7 DEF Extends
  <2>9. \A m \in DOMAIN old.solution_checkpoints :
          u.solution_checkpoints[m] = old.solution_checkpoints[m]
    BY DEF Extends
  <2>10. /\ \A m : Durable!Boundary(w, m) = Boundary(old, m)
         /\ Durable!Owed(w) = IF w.status = "running"
                              THEN {m \in 1 .. old.checkpoint_count :
                                      Boundary(old, m) <= w.output_tokens}
                              ELSE 1 .. old.checkpoint_count
    BY <1>2, <1>4, <1>8, <2>1
    DEF Durable!Boundary, Durable!ActiveLimit, Durable!NoPause, NoPause, Boundary, ActiveLimit,
        Durable!Owed
  <2>11. DOMAIN w.solution_checkpoints = DOMAIN u.solution_checkpoints \cup
           {m \in OpenLabels(u) : Boundary(old, m) <= IF w.status = "running"
                                    THEN w.output_tokens ELSE ActiveLimit(old)}
    BY <1>4, <1>7, <1>8, <2>1, <2>2, <2>3
  <2>12. DOMAIN w.solution_checkpoints = DOMAIN old.solution_checkpoints \cup Durable!Owed(w)
    <3>1. OpenLabels(u) = 1 .. old.checkpoint_count \ DOMAIN u.solution_checkpoints
      BY <1>2 DEF OpenLabels
    <3>2. CASE w.status = "running"
      BY <1>3, <1>4, <1>8, <2>2, <2>4, <2>5, <2>6, <2>10, <2>11, <3>1, <3>2
    <3>3. CASE w.status # "running"
      <4>1. \A m \in OpenLabels(u) : Boundary(old, m) <= ActiveLimit(old)
        BY <1>13, <2>2 DEF Ordered
      <4>2. QED
        BY <2>2, <2>5, <2>10, <2>11, <3>1, <3>3, <4>1
    <3>4. QED
      BY <3>2, <3>3
  <2>13. ASSUME NEW m \in DOMAIN w.solution_checkpoints
         PROVE  w.solution_checkpoints[m] =
                  IF m \in DOMAIN old.solution_checkpoints THEN old.solution_checkpoints[m]
                  ELSE IF w.solution <= Boundary(old, m) THEN w.solution ELSE old.solution
    <3>1. CASE m \in DOMAIN old.solution_checkpoints
      BY <2>2, <2>8, <2>9, <3>1
    <3>2. CASE m \in DOMAIN u.solution_checkpoints \ DOMAIN old.solution_checkpoints
      <4>1. w.solution_checkpoints[m] = old.solution /\ Boundary(old, m) < u.output_tokens
        BY <2>6, <2>8, <3>2
      <4>2. w.solution = u.output_tokens \/ w.solution = old.solution
        BY <1>2, <1>5, <1>8
      <4>3. Boundary(old, m) \in Nat
        BY <2>4, <2>5, <3>2
      <4>4. QED
        BY <1>3, <3>2, <4>1, <4>2, <4>3
    <3>3. CASE m \notin DOMAIN u.solution_checkpoints
      <4>1. m \in OpenLabels(u) /\ m \notin DOMAIN old.solution_checkpoints
        BY <2>2, <2>11, <3>3
      <4>2. w.solution_checkpoints[m] = w.solution
        BY <1>7, <1>8, <2>2, <2>3, <4>1
      <4>3. Boundary(old, m) >= u.output_tokens
        BY <2>7, <4>1
      <4>4. w.solution = u.output_tokens \/ w.solution = old.solution
        BY <1>2, <1>5, <1>8
      <4>5. QED
        BY <4>1, <4>2, <4>3, <4>4
    <3>4. QED
      BY <3>1, <3>2, <3>3
  <2>14. QED
    BY <2>10, <2>12, <2>13 DEF Durable!FreezesLatest
<1>14. QED
  BY <1>7, <1>12, <1>13 DEF w

\* What a committed phase or pause leaves affords what it says it does.
LEMMA CommitAffords ==
  ASSUME NEW old, IsProgress(old), Affordable(old), NEW new, IsProgress(new), Valid(new),
         NEW floor, Durable!Advances(old, new, floor) \/ Durable!HaltsAtPause(old, new)
  PROVE  Affordable(new)
<1>1. /\ new.output_tokens \in Nat /\ new.budget_tokens \in Nat /\ new.pause_at_tokens \in Nat
      /\ old.output_tokens \in Nat /\ old.budget_tokens \in Nat /\ old.pause_at_tokens \in Nat
  BY DEF IsProgress, IsRecord
<1>2. CASE Durable!Advances(old, new, floor)
  BY <1>1, <1>2
  DEF Durable!Advances, Durable!StatusEarned, Durable!ActiveLimit, Durable!NoPause, NoPause,
      Affordable, Valid, BudgetStatus
<1>3. CASE Durable!HaltsAtPause(old, new)
  <2>1. /\ old.status = "running" /\ old.pause_at_tokens # NoPause /\ new.status = "paused"
        /\ new.output_tokens = old.output_tokens
        /\ new.pause_at_tokens = old.pause_at_tokens
    BY <1>3 DEF Durable!HaltsAtPause, Durable!NoPause, NoPause, IsProgress, IsRecord
  <2>2. QED
    BY <1>1, <2>1 DEF Affordable
<1>4. QED
  BY <1>2, <1>3

\* A commit keeps the allowance.
LEMMA CommitAllowance ==
  ASSUME NEW old, IsProgress(old), NEW new, IsProgress(new), NEW floor,
         Durable!Advances(old, new, floor) \/ Durable!HaltsAtPause(old, new)
  PROVE  Durable!SameAllowance(old, new)
<1>1. CASE Durable!Advances(old, new, floor)
  BY <1>1 DEF Durable!Advances
<1>2. CASE Durable!HaltsAtPause(old, new)
  BY <1>2 DEF Durable!HaltsAtPause, Durable!SameAllowance, IsProgress, IsRecord
<1>3. QED
  BY <1>1, <1>2

\* Then it also keeps labels in order, and owes none.
LEMMA CommitOwesNothing ==
  ASSUME NEW old, IsProgress(old), Ordered(old), NEW new, IsProgress(new),
         Durable!SameAllowance(old, new), Durable!FreezesLatest(old, new)
  PROVE  Ordered(new) /\ Durable!Owed(new) \subseteq DOMAIN new.solution_checkpoints
<1>1. DOMAIN new.solution_checkpoints = DOMAIN old.solution_checkpoints \cup Durable!Owed(new)
  BY DEF Durable!FreezesLatest
<1>2. /\ new.budget_tokens = old.budget_tokens
      /\ new.pause_at_tokens = old.pause_at_tokens
      /\ new.checkpoint_count = old.checkpoint_count
  BY DEF Durable!SameAllowance
<1>3. ActiveLimit(new) = ActiveLimit(old) /\ \A m : Boundary(new, m) = Boundary(old, m)
  BY <1>2, SameBoundaries
<1>4. OpenLabels(new) \subseteq OpenLabels(old)
  BY <1>1, <1>2 DEF OpenLabels
<1>5. QED
  BY <1>1, <1>3, <1>4 DEF Ordered

\* A prefix rolled back to its checkpoint pauses there
\* (self_refine.py _resolve_phase_outcome).
LEMMA PausedRecord ==
  ASSUME NEW old, IsProgress(old), Valid(old), old.status = "running",
         old.pause_at_tokens # NoPause,
         NEW w, w = Settle([old EXCEPT !.status = "paused"])
  PROVE  /\ Durable!HaltsAtPause(old, w)
         /\ Valid(w)
         /\ Ordered(old) => Durable!FreezesLatest(old, w)
<1> DEFINE r == [old EXCEPT !.status = "paused"]
<1>1. /\ IsProgress(r) /\ r.status = "paused"
      /\ r.budget_tokens = old.budget_tokens /\ r.pause_at_tokens = old.pause_at_tokens
      /\ r.checkpoint_count = old.checkpoint_count /\ r.output_tokens = old.output_tokens
      /\ r.rounds = old.rounds /\ r.no_gap_critiques = old.no_gap_critiques
      /\ r.solution = old.solution /\ r.solution_checkpoints = old.solution_checkpoints
  BY DEF IsProgress, IsRecord, Statuses
<1>2. w = Settle(r)
  OBVIOUS
<1>3. Valid(r)
  BY <1>1 DEF Valid
<1>4. r = [old EXCEPT !.status = "paused"]
  OBVIOUS
<1> HIDE DEF r
<1>5. /\ w = [r EXCEPT !.solution_checkpoints = w.solution_checkpoints]
      /\ Valid(w) /\ IsProgress(w) /\ Extends(w, r)
      /\ Ordered(r) =>
           /\ DOMAIN w.solution_checkpoints = DOMAIN r.solution_checkpoints \cup
                {m \in OpenLabels(r) : Boundary(r, m) <= ActiveLimit(r)}
           /\ \A m \in OpenLabels(r) \cap DOMAIN w.solution_checkpoints :
                w.solution_checkpoints[m] = r.solution
  <2>1. Valid(w) /\ IsProgress(w) /\ Extends(w, r)
    BY <1>1, <1>2, <1>3, SettleFreezes, SettleKeeps
  <2>2. /\ Settle(r) = [r EXCEPT !.solution_checkpoints = Settle(r).solution_checkpoints]
        /\ Ordered(r) =>
             /\ DOMAIN Settle(r).solution_checkpoints = DOMAIN r.solution_checkpoints \cup
                  {m \in OpenLabels(r) :
                     Boundary(r, m) <= IF r.status = "running"
                                       THEN r.output_tokens ELSE ActiveLimit(r)}
             /\ \A m \in OpenLabels(r) \cap DOMAIN Settle(r).solution_checkpoints :
                  Settle(r).solution_checkpoints[m] = r.solution
    BY <1>1, <1>3, SettleFreezes
  <2>3. QED
    BY <1>1, <1>2, <2>1, <2>2
<1>6. /\ w = [old EXCEPT !.status = "paused", !.solution_checkpoints = w.solution_checkpoints]
      /\ w.status = "paused" /\ w.solution = old.solution
      /\ w.checkpoint_count = old.checkpoint_count
  BY <1>1, <1>4, <1>5 DEF IsProgress, IsRecord
<1>7. Durable!HaltsAtPause(old, w)
  BY <1>6 DEF Durable!HaltsAtPause, Durable!NoPause, NoPause
<1>8. ASSUME Ordered(old) PROVE Durable!FreezesLatest(old, w)
  <2>1. /\ OpenLabels(r) = OpenLabels(old) /\ Ordered(r)
        /\ DOMAIN old.solution_checkpoints \subseteq 1 .. old.checkpoint_count
    BY <1>1, <1>8, SameBoundaries DEF OpenLabels, Ordered, Valid
  <2>2. DOMAIN w.solution_checkpoints = 1 .. old.checkpoint_count
    BY <1>1, <1>5, <2>1 DEF OpenLabels, Ordered
  <2>3. Durable!Owed(w) = 1 .. old.checkpoint_count
    BY <1>6 DEF Durable!Owed
  <2>4. \A m \in DOMAIN w.solution_checkpoints :
          w.solution_checkpoints[m] = IF m \in DOMAIN old.solution_checkpoints
                                      THEN old.solution_checkpoints[m] ELSE old.solution
    BY <1>1, <1>5, <2>1, <2>2 DEF OpenLabels, Extends
  <2>5. QED
    BY <1>6, <2>1, <2>2, <2>3, <2>4 DEF Durable!FreezesLatest
<1>9. QED
  BY <1>5, <1>7, <1>8

\* Reopening is what DurableRun says it is, in place or in a fork; reopened by
\* one block, the record owes no label it has not frozen.
LEMMA ReopenedRecord ==
  ASSUME NEW s, IsProgress(s), Valid(s), s.status # "running",
         NEW budget \in Nat, budget > s.output_tokens,
         NEW phase \in Phases, NEW forked, forked \/ phase = s.phase,
         NEW d, d = ContinueState(s, budget), NEW c, c = [d EXCEPT !.phase = phase]
  PROVE  /\ Durable!Reopens(s, c, forked)
         /\ Valid(c) /\ Affordable(c)
         /\ c.output_tokens = s.output_tokens /\ c.status = "running"
         /\ c.solution_checkpoints = s.solution_checkpoints
         /\ OneLabel(s, budget) /\ Durable!Owed(s) \subseteq DOMAIN s.solution_checkpoints =>
              Ordered(c) /\ Durable!Owed(c) \subseteq DOMAIN c.solution_checkpoints
<1>1. /\ Reopened(s, budget, d)
      /\ d.budget_tokens = budget /\ d.output_tokens = s.output_tokens
      /\ DOMAIN s.solution_checkpoints \subseteq 1 .. d.checkpoint_count - 1
      /\ Valid(d) /\ Affordable(d) /\ IsProgress(d)
      /\ d.solution_checkpoints = s.solution_checkpoints /\ d.status = "running"
      /\ budget - s.output_tokens <= Block
         /\ DOMAIN s.solution_checkpoints = 1 .. s.checkpoint_count =>
           /\ Ordered(d)
           /\ \A m \in 1 .. d.checkpoint_count :
                Boundary(d, m) <= s.output_tokens => m \in DOMAIN s.solution_checkpoints
  BY ContinueSound, ContinueKeeps
<1>2. c = [d EXCEPT !.phase = phase]
  OBVIOUS
<1>3. /\ c.phase = phase /\ c.budget_tokens = d.budget_tokens
      /\ c.warning_sent = d.warning_sent /\ c.checkpoint_count = d.checkpoint_count
      /\ c.pause_at_tokens = d.pause_at_tokens /\ c.no_gap_critiques = d.no_gap_critiques
      /\ c.status = "running" /\ c.output_tokens = d.output_tokens /\ c.rounds = d.rounds
      /\ c.solution_checkpoints = d.solution_checkpoints
  BY <1>1, <1>2 DEF IsProgress, IsRecord
<1>4. c = [s EXCEPT !.status = "running", !.phase = phase, !.warning_sent = c.warning_sent,
                    !.budget_tokens = c.budget_tokens, !.pause_at_tokens = NoPause,
                    !.no_gap_critiques = 0, !.checkpoint_count = c.checkpoint_count]
  <2>1. d.pause_at_tokens = NoPause /\ d.no_gap_critiques = 0
    BY <1>1 DEF Reopened, IsProgress, IsRecord
  <2> DEFINE e == [s EXCEPT !.warning_sent = c.warning_sent,
                            !.checkpoint_count = c.checkpoint_count,
                            !.budget_tokens = c.budget_tokens, !.pause_at_tokens = NoPause,
                            !.no_gap_critiques = 0, !.status = "running"]
  <2>2. d = e
    BY ZenonT(40), <1>1, <1>3 DEF Reopened
  <2>3. QED
    BY <1>2, <2>2 DEF IsProgress, IsRecord
<1>5. Durable!Reopens(s, c, forked)
  <2>1. c = [s EXCEPT !.status = "running", !.phase = IF forked THEN c.phase ELSE @,
                      !.warning_sent = c.warning_sent,
                      !.budget_tokens = c.budget_tokens, !.pause_at_tokens = NoPause,
                      !.no_gap_critiques = 0, !.checkpoint_count = c.checkpoint_count]
    BY <1>3, <1>4
  <2>2. QED
    BY <1>1, <1>3, <2>1 DEF Durable!Reopens, Durable!NoPause, NoPause
<1>6. Valid(c) /\ Affordable(c)
  BY <1>1, <1>3 DEF Valid, Affordable, BudgetStatus
<1>7. ASSUME OneLabel(s, budget),
             Durable!Owed(s) \subseteq DOMAIN s.solution_checkpoints
      PROVE  Ordered(c) /\ Durable!Owed(c) \subseteq DOMAIN c.solution_checkpoints
  <2>1. DOMAIN s.solution_checkpoints = 1 .. s.checkpoint_count
    BY <1>7 DEF Durable!Owed, Valid
  <2>2. \A m : Boundary(c, m) = Boundary(d, m)
    <3>1. /\ c.pause_at_tokens = d.pause_at_tokens /\ c.budget_tokens = d.budget_tokens
          /\ c.checkpoint_count = d.checkpoint_count
      BY <1>3
    <3>2. QED
      BY <3>1 DEF Boundary, ActiveLimit
  <2>3. Ordered(c)
    BY ZenonT(40), <1>1, <1>3, <1>7, <2>1, <2>2, SameBoundaries DEF OneLabel, Ordered, OpenLabels
  <2>4. \A m : Durable!Boundary(c, m) = Boundary(d, m)
    BY <2>2 DEF Durable!Boundary, Durable!ActiveLimit, Durable!NoPause, NoPause, Boundary, ActiveLimit
  <2>5. \A m \in 1 .. c.checkpoint_count :
          Durable!Boundary(c, m) <= c.output_tokens => m \in DOMAIN c.solution_checkpoints
    <3>1. \A m \in 1 .. d.checkpoint_count :
            Boundary(d, m) <= s.output_tokens => m \in DOMAIN s.solution_checkpoints
      BY <1>1, <1>7, <2>1 DEF OneLabel
    <3>2. /\ c.checkpoint_count = d.checkpoint_count /\ c.output_tokens = s.output_tokens
          /\ c.solution_checkpoints = s.solution_checkpoints
      BY <1>1, <1>3
    <3>3. QED
      BY <2>4, <3>1, <3>2
  <2>6. QED
    BY <1>3, <2>3, <2>5 DEF Durable!Owed
<1>8. QED
  BY <1>1, <1>3, <1>5, <1>6, <1>7

\* A phase that asked for an interrupt has spent its allowance, and spending
\* more does not restore it.
LEMMA SpentStaysSpent ==
  ASSUME NEW s, IsProgress(s), NEW u, IsProgress(u), BudgetStatus(s) # "running",
         u.budget_tokens = s.budget_tokens, u.pause_at_tokens = s.pause_at_tokens,
         u.output_tokens >= s.output_tokens
  PROVE  BudgetStatus(u) # "running"
  BY DEF BudgetStatus, IsProgress, IsRecord

\* Two records of the same phase have the same allowance.
LEMMA PhaseAllowance ==
  ASSUME NEW old, IsProgress(old), NEW new, InPhase(old, new)
  PROVE  /\ new.budget_tokens = old.budget_tokens
         /\ new.pause_at_tokens = old.pause_at_tokens
         /\ old.status = "running" /\ new.status = "running"
  BY DEF InPhase, IsProgress, IsRecord

\* A phase begins where the last checkpoint left.
LEMMA PhaseBegins ==
  ASSUME NEW s, IsProgress(s), s.status = "running"
  PROVE  InPhase(s, s)
<1>1. s = [s EXCEPT !.output_tokens = s.output_tokens, !.warning_sent = s.warning_sent,
                    !.solution_checkpoints = s.solution_checkpoints]
  BY DEF IsProgress, IsRecord
<1>2. s.output_tokens >= s.output_tokens
  BY DEF IsProgress, IsRecord
<1>3. QED
  BY <1>1, <1>2 DEF InPhase

\* A usage report within a phase (_run_phase).
LEMMA UsageRecord ==
  ASSUME TypeOK, Coherent, RecordsSound, NEW n \in Nat, Usage(n)
  PROVE  /\ InPhase(Saved, live'.refinement) /\ Valid(live'.refinement)
         /\ interrupted' => BudgetStatus(live'.refinement) # "running"
<1> DEFINE u == UpdateTokenUsage(live.refinement, Tokens + n)
           w == WarnIfNeeded(u)
<1>1. /\ IsProgress(live.refinement) /\ IsProgress(Saved) /\ Tokens + n \in Nat
      /\ Tokens + n >= live.refinement.output_tokens
  BY TypeFacts DEF IsProgress, IsRecord, Tokens
<1>2. /\ InPhase(Saved, live.refinement) /\ Valid(live.refinement)
      /\ Extends(live.refinement, Saved)
      /\ interrupted => BudgetStatus(live.refinement) # "running"
  BY DEF Usage, RecordsSound, Coherent, LiveExtendsSaved
<1>3. InPhase(Saved, u) /\ Valid(u)
  BY <1>1, <1>2, UpdateInPhase
<1>4. IsProgress(u) /\ u.output_tokens = Tokens + n
  BY <1>1, UpdateKeeps
<1>5. live'.refinement = w
  BY TypeFacts DEF Usage, IsSession
<1>6. interrupted' <=> interrupted \/ BudgetStatus(u) # "running"
  BY DEF Usage
<1> HIDE DEF u
<1>7. InPhase(Saved, w) /\ Valid(w) /\ BudgetStatus(w) = BudgetStatus(u)
  BY <1>1, <1>3, <1>4, WarnInPhase
<1>8. ASSUME interrupted PROVE BudgetStatus(u) # "running"
  <2>1. u.budget_tokens = live.refinement.budget_tokens
        /\ u.pause_at_tokens = live.refinement.pause_at_tokens
    BY <1>1, <1>2, <1>3, PhaseAllowance
  <2>2. QED
    BY <1>1, <1>2, <1>4, <1>8, <2>1, SpentStaysSpent
<1> HIDE DEF w
<1>9. QED
  BY <1>5, <1>6, <1>7, <1>8

\* The notice queued ahead of the instruction opens the phase.
LEMMA BeginRecord ==
  ASSUME TypeOK, Coherent, RecordsSound, BeginPhase
  PROVE  InPhase(Saved, live'.refinement) /\ Valid(live'.refinement)
<1> DEFINE s == [live.refinement EXCEPT !.status = "running"]
<1>1. /\ IsProgress(live.refinement) /\ IsProgress(Saved)
      /\ live.refinement = Saved /\ Saved.status = "running" /\ Valid(Saved)
  BY TypeFacts DEF BeginPhase, RecordsSound
<1>2. s = Saved
  BY <1>1 DEF IsProgress, IsRecord
<1>3. live'.refinement = WarnIfNeeded(s)
  BY TypeFacts DEF BeginPhase, IsSession
<1> HIDE DEF s
<1>4. InPhase(Saved, Saved)
  BY <1>1, PhaseBegins
<1>5. QED
  BY <1>1, <1>2, <1>3, <1>4, WarnInPhase

\* The reply that ends a phase: it is rolled back, or it advances the record.
LEMMA EndRecord ==
  ASSUME TypeOK, Coherent, RecordsSound, NEW kind \in Kinds, NEW n \in Nat,
         NEW noGaps \in BOOLEAN, EndPhase(kind, n, noGaps)
  PROVE  /\ Valid(live'.refinement) /\ pc' \in {"save", "rollback"}
         /\ pc' = "rollback" => Saved.status = "running" /\ Saved.pause_at_tokens # NoPause
         /\ pc' = "save" =>
              /\ Durable!Advances(Saved, live'.refinement, RoundFloor)
              /\ Ordered(Saved) => Durable!FreezesLatest(Saved, live'.refinement)
<1> DEFINE u == UpdateTokenUsage(live.refinement, Tokens + n)
           r == ResolvePhaseOutcome(u, kind, noGaps, RoundFloor)
<1>1. /\ IsProgress(live.refinement) /\ IsProgress(Saved) /\ Tokens + n \in Nat
      /\ Tokens + n >= live.refinement.output_tokens
  BY TypeFacts DEF IsProgress, IsRecord, Tokens
<1>2. /\ InPhase(Saved, live.refinement) /\ Valid(live.refinement) /\ Affordable(Saved)
      /\ Extends(live.refinement, Saved)
      /\ interrupted => BudgetStatus(live.refinement) # "running"
  BY DEF EndPhase, RecordsSound, Coherent, LiveExtendsSaved
<1>3. /\ InPhase(Saved, u) /\ Valid(u)
      /\ Ordered(Saved) => \A m \in OpenLabels(u) : Boundary(u, m) >= Tokens + n
  BY <1>1, <1>2, UpdateInPhase
<1>4. IsProgress(u) /\ u.output_tokens = Tokens + n /\ Extends(u, live.refinement)
  BY <1>1, UpdateKeeps
<1>5. Extends(u, Saved)
  BY <1>2, <1>4, ExtendsTrans
<1>6. \/ /\ MustRollBack(u, kind) /\ live'.refinement = u /\ pc' = "rollback"
      \/ /\ ~MustRollBack(u, kind) /\ live'.refinement = Settle(r) /\ pc' = "save"
  BY TypeFacts DEF EndPhase, IsSession
<1>7. kind = "interrupted" => interrupted
  BY DEF EndPhase
<1>8. Tokens + n > Saved.output_tokens
  BY DEF EndPhase, Saved
<1> HIDE DEF u
<1>9. /\ u.budget_tokens = Saved.budget_tokens /\ u.pause_at_tokens = Saved.pause_at_tokens
      /\ live.refinement.budget_tokens = Saved.budget_tokens
      /\ live.refinement.pause_at_tokens = Saved.pause_at_tokens
      /\ Saved.status = "running"
  BY <1>1, <1>2, <1>3, PhaseAllowance
<1>10. CASE MustRollBack(u, kind)
  BY <1>3, <1>6, <1>9, <1>10 DEF MustRollBack
<1>11. CASE ~MustRollBack(u, kind)
  <2>1. kind = "interrupted" => BudgetStatus(u) # "running"
    BY <1>1, <1>2, <1>4, <1>7, <1>9, SpentStaysSpent
  <2>2. /\ Durable!Advances(Saved, Settle(r), RoundFloor) /\ Valid(Settle(r))
        /\ Ordered(Saved) /\ (\A m \in OpenLabels(u) : Boundary(u, m) >= u.output_tokens) =>
             Durable!FreezesLatest(Saved, Settle(r))
    BY <1>1, <1>2, <1>3, <1>4, <1>5, <1>8, <1>11, <2>1, KeptPhase
  <2> HIDE DEF r
  <2>3. QED
    BY <1>3, <1>4, <1>6, <1>11, <2>2
<1>12. QED
  BY <1>10, <1>11

\* Every step keeps the records sound: what memory holds follows from what is
\* saved, by a phase, a pause or a reopening.
LEMMA RecordsStep ==
  ASSUME TypeOK, Coherent, RecordsSound, TypeOK', [Next]_vars
  PROVE  RecordsSound'
<1>0. /\ IsSession(live) /\ IsProgress(live.refinement) /\ IsProgress(Saved)
      /\ IsProgress(live.refinement') /\ IsProgress(Saved')
      /\ Valid(NewProgress) /\ Affordable(NewProgress)
      /\ NewSession.refinement = NewProgress /\ NewProgress.status = "running"
  BY TypeFacts, NewProgressSound, NewSessionFields DEF TypeOK, IsSession, Saved
<1>1. CASE OpenNew
  BY <1>0, <1>1 DEF RecordsSound, Saved, OpenNew
<1>2. CASE OpenRefused
  BY <1>2 DEF RecordsSound, Saved, RoundFloor, OpenRefused, disk
<1>3. CASE PublishNew
  BY <1>0, <1>3 DEF RecordsSound, Coherent, NothingBeforePublish, Saved, PublishNew
<1>4. CASE OpenSaved
  BY <1>4 DEF RecordsSound, Saved, OpenSaved
<1>5. CASE WriteSolution
  BY <1>5 DEF RecordsSound, Saved, WriteSolution
<1>6. CASE RestoreDone
  BY <1>6 DEF RecordsSound, Coherent, LiveIsSaved, Saved, RestoreDone, GoOn, disk
<1>7. CASE Connect
  BY <1>7, ConnectStep DEF RecordsSound, Saved, Connect, disk
<1>8. CASE BeginPhase
  BY <1>8, BeginRecord DEF RecordsSound, Saved, BeginPhase
<1>9. CASE \E m \in 1 .. MaxReport : Usage(m)
  <2>1. PICK m \in 1 .. MaxReport : Usage(m)
    BY <1>9
  <2>2. m \in Nat
    BY RecoveryAssumption
  <2>3. /\ InPhase(Saved, live'.refinement) /\ Valid(live'.refinement)
        /\ interrupted' => BudgetStatus(live'.refinement) # "running"
    BY <2>1, <2>2, UsageRecord
  <2>4. QED
    BY <2>1, <2>3 DEF RecordsSound, Saved, Usage
<1>10. CASE \E kind \in Kinds, m \in 0 .. MaxReport, noGaps \in BOOLEAN :
            EndPhase(kind, m, noGaps)
  <2>1. PICK kind \in Kinds, m \in 0 .. MaxReport, noGaps \in BOOLEAN :
          EndPhase(kind, m, noGaps)
    BY <1>10
  <2>2. m \in Nat
    BY RecoveryAssumption
  <2>3. /\ Valid(live'.refinement) /\ pc' \in {"save", "rollback"}
        /\ pc' = "rollback" => Saved.status = "running" /\ Saved.pause_at_tokens # NoPause
        /\ pc' = "save" => Durable!Advances(Saved, live'.refinement, RoundFloor)
    BY <2>1, <2>2, EndRecord
  <2>4. QED
    BY <2>1, <2>3 DEF RecordsSound, Saved, RoundFloor, EndPhase
<1>11. CASE RollBack
  BY <1>11 DEF RecordsSound, Saved, RollBack
<1>12. CASE PausePrefix
  <2>1. /\ live.refinement = Saved /\ Saved.status = "running"
        /\ Saved.pause_at_tokens # NoPause /\ Valid(Saved)
    BY <1>12 DEF PausePrefix, RecordsSound, Coherent, LiveIsSaved, Saved
  <2>2. live'.refinement = Settle([Saved EXCEPT !.status = "paused"])
    BY <1>0, <1>12, <2>1 DEF PausePrefix, IsSession
  <2>3. Durable!HaltsAtPause(Saved, live'.refinement) /\ Valid(live'.refinement)
    BY <1>0, <2>1, <2>2, PausedRecord
  <2>4. QED
    BY <1>12, <2>3 DEF RecordsSound, Saved, PausePrefix, disk
<1>13. CASE CloseForSave
  BY <1>13 DEF RecordsSound, Saved, RoundFloor, CloseForSave, disk
<1>14. CASE WriteArchive
  <2>1. Saved' = live.refinement /\ live' = live
    BY <1>14 DEF WriteArchive, Saved
  <2>2. Affordable(live.refinement)
    BY <1>0, <1>14, CommitAffords DEF RecordsSound, WriteArchive
  <2>3. QED
    BY <1>14, <2>1, <2>2 DEF RecordsSound, WriteArchive
<1>15. CASE SaveDone
  BY <1>15 DEF RecordsSound, Coherent, LiveIsSaved, Saved, SaveDone, GoOn, disk
<1>16. CASE LoseTransport
  BY <1>16 DEF RecordsSound, Saved, LoseTransport, disk
<1>17. CASE RetryFromArchive
  BY <1>17 DEF RecordsSound, Saved, RetryFromArchive
<1>18. CASE GiveUp
  BY <1>18 DEF RecordsSound, Saved, GiveUp, disk
<1>19. CASE Abort
  BY <1>19 DEF RecordsSound, Saved, Abort, disk
<1>20. CASE CloseSession
  BY <1>0, <1>20 DEF RecordsSound, Saved, CloseSession
<1>21. CASE Crash
  BY <1>0, <1>21 DEF RecordsSound, Saved, Crash, disk
<1>22. CASE \E extra \in ExtraBudgets : ContinueRun(extra)
  <2>1. PICK extra \in ExtraBudgets : ContinueRun(extra)
    BY <1>22
  <2>2. /\ live.refinement = Saved /\ Tokens = Saved.output_tokens
        /\ MayContinue(Saved, Saved.output_tokens + extra) /\ Valid(Saved)
    BY <2>1 DEF ContinueRun, RecordsSound, Coherent, LiveIsSaved, Saved, Tokens
  <2>3. live'.refinement = ContinueState(Saved, Saved.output_tokens + extra)
    BY <1>0, <2>1, <2>2 DEF ContinueRun, IsSession
  <2>4. Saved.output_tokens + extra \in Nat
    BY <2>2, ExtraBudget
  <2>5. /\ Valid(live'.refinement)
        /\ live'.refinement.budget_tokens = Saved.output_tokens + extra
    BY <1>0, <2>2, <2>3, <2>4, ContinueSound DEF MayContinue
  <2>6. QED
    BY <2>1, <2>2, <2>3, <2>5 DEF RecordsSound, Saved, ContinueRun
<1>23. CASE CommitContinuation
  <2>1. Saved' = live.refinement /\ live' = live
    BY <1>23 DEF CommitContinuation, Saved
  <2>2. PICK extra \in ExtraBudgets :
          live.refinement = ContinueState(Saved, Saved.output_tokens + extra)
    BY <1>23 DEF CommitContinuation, RecordsSound
  <2>3. Saved.output_tokens + extra \in Nat /\ Saved.output_tokens + extra > Saved.output_tokens
    BY <1>0, RecoveryAssumption DEF IsProgress, IsRecord
  <2>4. Affordable(live.refinement)
    BY <1>0, <2>2, <2>3, ContinueSound DEF RecordsSound
  <2>5. QED
    BY <1>23, <2>1, <2>4 DEF RecordsSound, CommitContinuation
<1>24. CASE ContinueDone
  BY <1>24 DEF RecordsSound, Saved, ContinueDone, disk
<1>25. CASE \E extra \in ExtraBudgets : Fork(extra)
  <2>1. PICK extra \in ExtraBudgets : Fork(extra)
    BY <1>25
  <2> DEFINE d == ContinueState(Saved, Saved.output_tokens + extra)
  <2>2. /\ live.refinement = Saved /\ Tokens = Saved.output_tokens
        /\ MayContinue(Saved, Saved.output_tokens + extra) /\ Valid(Saved)
    BY <2>1 DEF Fork, RecordsSound, Coherent, LiveIsSaved, Saved, Tokens
  <2>3. Saved.output_tokens + extra \in Nat
    BY <2>2, ExtraBudget
  <2>4. /\ live'.refinement = [d EXCEPT !.phase = "continue"]
        /\ Saved' = live'.refinement
    BY <2>1, <2>2 DEF Fork, Forked, Saved
  <2> HIDE DEF d
  <2>5. Valid(Saved') /\ Affordable(Saved')
    BY <1>0, <2>2, <2>3, <2>4, ReopenedRecord DEF d, MayContinue, Phases
  <2>6. QED
    BY <2>1, <2>4, <2>5 DEF RecordsSound, Fork
<1>26. CASE ForkDone
  BY <1>0, <1>26 DEF RecordsSound, Saved, ForkDone, disk
<1>27. CASE UNCHANGED vars
  BY <1>27 DEF RecordsSound, Saved, RoundFloor, vars
<1>28. QED
  BY <1>1, <1>2, <1>3, <1>4, <1>5, <1>6, <1>7, <1>8, <1>9, <1>10,
     <1>11, <1>12, <1>13, <1>14, <1>15, <1>16, <1>17, <1>18, <1>19, <1>20,
     <1>21, <1>22, <1>23, <1>24, <1>25, <1>26, <1>27
  DEF Next, Progress, Environment

\* A new attempt owes nothing yet.
LEMMA NewOwesNothing ==
  Ordered(NewProgress) /\ Durable!Owed(NewProgress) \subseteq DOMAIN NewProgress.solution_checkpoints
<1>1. /\ Ordered(NewProgress)
      /\ \A m \in 1 .. NewProgress.checkpoint_count : Boundary(NewProgress, m) > 0
      /\ IsProgress(NewProgress)
  BY NewProgressSound, NewProgressType
<1>2. NewProgress.status = "running" /\ NewProgress.output_tokens = 0
  BY NewSessionFields
<1>3. \A m : Durable!Boundary(NewProgress, m) = Boundary(NewProgress, m)
  BY DEF Durable!Boundary, Durable!ActiveLimit, Durable!NoPause, NoPause, Boundary, ActiveLimit
<1>4. \A m \in 1 .. NewProgress.checkpoint_count : Boundary(NewProgress, m) \in Nat
  BY <1>1, AllowanceAssumption DEF Boundary, ActiveLimit, IsProgress, IsRecord
<1>5. Durable!Owed(NewProgress) = {}
  BY <1>1, <1>2, <1>3, <1>4 DEF Durable!Owed
<1>6. QED
  BY <1>1, <1>5

\* Every step keeps the labels of unstranded work in order and frozen.
LEMMA LabelsStep ==
  ASSUME TypeOK, Coherent, RecordsSound, LabelsSound, TypeOK', [Next]_vars
  PROVE  LabelsSound'
<1>0. /\ IsSession(live) /\ IsProgress(live.refinement) /\ IsProgress(Saved)
      /\ reopened \in Nat
      /\ NewSession.refinement = NewProgress
  BY TypeFacts, NewSessionFields DEF TypeOK
<1>1. CASE OpenNew
  BY <1>1 DEF LabelsSound, Unstranded, Saved, OpenNew
<1>2. CASE OpenRefused
  BY <1>2 DEF LabelsSound, Unstranded, Saved, OpenRefused, disk
<1>3. CASE PublishNew
  <2>1. Saved' = Saved
    BY <1>3 DEF Coherent, NothingBeforePublish, Saved, PublishNew
  <2>2. QED
    BY <1>3, <2>1 DEF LabelsSound, Unstranded, PublishNew
<1>4. CASE OpenSaved
  BY <1>4 DEF LabelsSound, Unstranded, Saved, OpenSaved
<1>5. CASE WriteSolution
  BY <1>5 DEF LabelsSound, Unstranded, Saved, WriteSolution
<1>6. CASE RestoreDone
  BY <1>6 DEF LabelsSound, Unstranded, Saved, RestoreDone, GoOn, disk
<1>7. CASE Connect
  BY <1>7 DEF LabelsSound, Unstranded, Saved, Connect, disk
<1>8. CASE BeginPhase
  BY <1>8 DEF LabelsSound, Unstranded, Saved, BeginPhase
<1>9. CASE \E m \in 1 .. MaxReport : Usage(m)
  BY <1>9 DEF LabelsSound, Unstranded, Saved, Usage
<1>10. CASE \E kind \in Kinds, m \in 0 .. MaxReport, noGaps \in BOOLEAN :
            EndPhase(kind, m, noGaps)
  <2>1. PICK kind \in Kinds, m \in 0 .. MaxReport, noGaps \in BOOLEAN :
          EndPhase(kind, m, noGaps)
    BY <1>10
  <2>2. m \in Nat
    BY RecoveryAssumption
  <2>3. /\ pc' \in {"save", "rollback"}
        /\ pc' = "save" /\ Ordered(Saved) => Durable!FreezesLatest(Saved, live'.refinement)
    BY <2>1, <2>2, EndRecord
  <2>4. Saved' = Saved /\ Unstranded' = Unstranded
    BY <2>1 DEF Saved, Unstranded, EndPhase
  <2>5. QED
    BY <2>3, <2>4 DEF LabelsSound
<1>11. CASE RollBack
  BY <1>11 DEF LabelsSound, Unstranded, Saved, RollBack
<1>12. CASE PausePrefix
  <2>1. /\ live.refinement = Saved /\ Saved.status = "running"
        /\ Saved.pause_at_tokens # NoPause /\ Valid(Saved)
    BY <1>12 DEF PausePrefix, RecordsSound, Coherent, LiveIsSaved, Saved
  <2>2. live'.refinement = Settle([Saved EXCEPT !.status = "paused"])
    BY <1>0, <1>12, <2>1 DEF PausePrefix, IsSession
  <2>3. Ordered(Saved) => Durable!FreezesLatest(Saved, live'.refinement)
    BY <1>0, <2>1, <2>2, PausedRecord
  <2>4. Saved' = Saved /\ Unstranded' = Unstranded
    BY <1>12 DEF Saved, Unstranded, PausePrefix, disk
  <2>5. QED
    BY <2>3, <2>4 DEF LabelsSound
<1>13. CASE CloseForSave
  BY <1>13 DEF LabelsSound, Unstranded, Saved, CloseForSave, disk
<1>14. CASE WriteArchive
  <2>1. Saved' = live.refinement /\ pc' = "saved" /\ Unstranded' = Unstranded
    BY <1>14 DEF WriteArchive, Saved, Unstranded
  <2>2. Durable!SameAllowance(Saved, live.refinement)
    BY <1>0, <1>14, CommitAllowance DEF RecordsSound, WriteArchive
  <2>3. Unstranded => Durable!FreezesLatest(Saved, live.refinement) /\ Ordered(Saved)
    BY <1>14 DEF LabelsSound, WriteArchive
  <2>4. QED
    BY <1>0, <2>1, <2>2, <2>3, CommitOwesNothing DEF LabelsSound
<1>15. CASE SaveDone
  BY <1>15 DEF LabelsSound, Unstranded, Saved, SaveDone, GoOn, disk
<1>16. CASE LoseTransport
  BY <1>16 DEF LabelsSound, Unstranded, Saved, LoseTransport, disk
<1>17. CASE RetryFromArchive
  BY <1>17 DEF LabelsSound, Unstranded, Saved, RetryFromArchive
<1>18. CASE GiveUp
  BY <1>18 DEF LabelsSound, Unstranded, Saved, GiveUp, disk
<1>19. CASE Abort
  BY <1>19 DEF LabelsSound, Unstranded, Saved, Abort, disk
<1>20. CASE CloseSession
  BY <1>20 DEF LabelsSound, Unstranded, Saved, CloseSession
<1>21. CASE Crash
  BY <1>21 DEF LabelsSound, Unstranded, Saved, Crash, disk
<1>22. CASE \E extra \in ExtraBudgets : ContinueRun(extra)
  BY <1>22 DEF LabelsSound, Unstranded, Saved, ContinueRun
<1>23. CASE CommitContinuation
  <2>1. Saved' = live.refinement /\ pc' = "continued" /\ reopened' = reopened + 1
    BY <1>23 DEF CommitContinuation, Saved
  <2>2. PICK extra \in ExtraBudgets :
          live.refinement = ContinueState(Saved, Saved.output_tokens + extra)
    BY <1>23 DEF CommitContinuation, RecordsSound
  <2>3. /\ Saved.output_tokens + extra \in Nat
        /\ Saved.output_tokens + extra > Saved.output_tokens
        /\ Saved.output_tokens + extra - Saved.output_tokens = extra
        /\ Saved.status # "running" /\ Valid(Saved) /\ Saved.phase \in Phases
    BY <1>0, <1>23, RecoveryAssumption
    DEF IsProgress, IsRecord, RecordsSound, MayContinue, CommitContinuation
  <2>4. live.refinement = [live.refinement EXCEPT !.phase = Saved.phase]
    <3>1. Reopened(Saved, Saved.output_tokens + extra, live.refinement)
      BY <1>0, <2>2, <2>3, ContinueSound
    <3>2. QED
      BY <1>0, <3>1 DEF Reopened, IsProgress, IsRecord
  <2>5. extra <= Block /\ Durable!Owed(Saved) \subseteq DOMAIN Saved.solution_checkpoints =>
          /\ Ordered(live.refinement)
          /\ Durable!Owed(live.refinement) \subseteq DOMAIN live.refinement.solution_checkpoints
    <3>1. OneLabel(Saved, Saved.output_tokens + extra)
          /\ Durable!Owed(Saved) \subseteq DOMAIN Saved.solution_checkpoints =>
            /\ Ordered(live.refinement)
            /\ Durable!Owed(live.refinement) \subseteq DOMAIN live.refinement.solution_checkpoints
      BY <1>0, <2>2, <2>3, <2>4, ReopenedRecord
    <3>2. OneLabel(Saved, Saved.output_tokens + extra) <=> extra <= Block
      BY <1>0, RecoveryAssumption, AllowanceAssumption DEF OneLabel, IsProgress, IsRecord
    <3>3. QED
      BY <3>1, <3>2
  <2>6. Unstranded' => Unstranded /\ extra <= Block
    BY <1>0, <2>1 DEF Unstranded, OneBlock
  <2>7. QED
    BY <2>1, <2>5, <2>6 DEF LabelsSound
<1>24. CASE ContinueDone
  BY <1>24 DEF LabelsSound, Unstranded, Saved, ContinueDone, disk
<1>25. CASE \E extra \in ExtraBudgets : Fork(extra)
  <2>1. PICK extra \in ExtraBudgets : Fork(extra)
    BY <1>25
  <2> DEFINE d == ContinueState(Saved, Saved.output_tokens + extra)
  <2>2. /\ live.refinement = Saved /\ Tokens = Saved.output_tokens
        /\ Saved.status # "running" /\ Valid(Saved)
    BY <2>1 DEF Fork, RecordsSound, Coherent, LiveIsSaved, Saved, Tokens, MayContinue
  <2>3. /\ Saved.output_tokens + extra \in Nat
        /\ Saved.output_tokens + extra > Saved.output_tokens
        /\ Saved.output_tokens + extra - Saved.output_tokens = extra
    BY <1>0, RecoveryAssumption DEF IsProgress, IsRecord
  <2> DEFINE c == [d EXCEPT !.phase = "continue"]
  <2>4. Saved' = c /\ pc' = "forked" /\ reopened' = reopened + 1
    BY <2>1, <2>2 DEF Fork, Forked, Saved
  <2> HIDE DEF d, c
  <2>5. extra <= Block /\ Durable!Owed(Saved) \subseteq DOMAIN Saved.solution_checkpoints =>
          Ordered(Saved') /\ Durable!Owed(Saved') \subseteq DOMAIN Saved'.solution_checkpoints
    <3>1. OneLabel(Saved, Saved.output_tokens + extra)
          /\ Durable!Owed(Saved) \subseteq DOMAIN Saved.solution_checkpoints =>
            Ordered(c) /\ Durable!Owed(c) \subseteq DOMAIN c.solution_checkpoints
      BY <1>0, <2>2, <2>3, ReopenedRecord DEF d, c, Phases
    <3>2. OneLabel(Saved, Saved.output_tokens + extra) <=> extra <= Block
      BY <1>0, RecoveryAssumption, AllowanceAssumption DEF OneLabel, IsProgress, IsRecord
    <3>3. QED
      BY <2>4, <3>1, <3>2
  <2>6. Unstranded' => Unstranded /\ extra <= Block
    BY <1>0, <2>4 DEF Unstranded, OneBlock
  <2>7. QED
    BY <2>4, <2>5, <2>6 DEF LabelsSound
<1>26. CASE ForkDone
  BY <1>26 DEF LabelsSound, Unstranded, Saved, ForkDone, disk
<1>27. CASE UNCHANGED vars
  BY <1>27 DEF LabelsSound, Unstranded, Saved, vars
<1>28. QED
  BY <1>1, <1>2, <1>3, <1>4, <1>5, <1>6, <1>7, <1>8, <1>9, <1>10,
     <1>11, <1>12, <1>13, <1>14, <1>15, <1>16, <1>17, <1>18, <1>19, <1>20,
     <1>21, <1>22, <1>23, <1>24, <1>25, <1>26, <1>27
  DEF Next, Progress, Environment

\* A notice queued is a notice remembered (_warn_if_needed).
LEMMA NoticeRemembered ==
  ASSUME NEW s, IsProgress(s)
  PROVE  Warned(WarnIfNeeded(s)) = Warned(s) + Notices(s)
<1>1. CASE NeedsWarning(s)
  <2>1. WarnIfNeeded(s).warning_sent = TRUE /\ s.warning_sent = FALSE
    BY <1>1 DEF WarnIfNeeded, NeedsWarning, IsProgress, IsRecord
  <2>2. QED
    BY <1>1, <2>1 DEF Warned, Notices
<1>2. CASE ~NeedsWarning(s)
  BY <1>2 DEF WarnIfNeeded, Warned, Notices
<1>3. QED
  BY <1>1, <1>2

\* Every step keeps the count of notices.
LEMMA NoticesStep ==
  ASSUME TypeOK, Coherent, RecordsSound, NoticesCounted, TypeOK', [Next]_vars
  PROVE  NoticesCounted'
<1>0. /\ IsSession(live) /\ IsProgress(live.refinement) /\ IsProgress(Saved)
      /\ files.notices \in Nat /\ archive.files.notices \in Nat /\ reopened \in Nat
      /\ files \in FileStates
      /\ \A s : Warned(s) \in {0, 1}
      /\ NewSession.refinement = NewProgress
  BY TypeFacts, FileFields, NewSessionFields DEF TypeOK, Warned
<1>1. CASE OpenNew
  BY <1>1 DEF NoticesCounted, AtWork, Saved, OpenNew
<1>2. CASE OpenRefused
  BY <1>2 DEF NoticesCounted, AtWork, Saved, OpenRefused, disk
<1>3. CASE PublishNew
  <2>1. /\ archive'.saved = live /\ archive'.files = files /\ live' = live /\ files' = files
        /\ files.notices = 0 /\ pc' = "connect" /\ reopened' = reopened
    BY <1>3, NoFilesType DEF PublishNew, Coherent, NothingBeforePublish
  <2>2. QED
    BY <1>0, <2>1 DEF NoticesCounted, Saved
<1>4. CASE OpenSaved
  <2>1. /\ archive' = archive /\ reopened' = reopened /\ pc' = "restored"
        /\ live' = archive.saved
        /\ Saved.status = "running" => files' = archive.files
    BY <1>4 DEF OpenSaved, Saved, RestoreRuntime
  <2>2. QED
    BY <1>0, <2>1 DEF NoticesCounted, AtWork, Saved
<1>5. CASE WriteSolution
  BY <1>5 DEF NoticesCounted, AtWork, Saved, WriteSolution
<1>6. CASE RestoreDone
  BY <1>6 DEF NoticesCounted, AtWork, Saved, RestoreDone, GoOn, disk
<1>7. CASE Connect
  BY <1>7, ConnectStep DEF NoticesCounted, AtWork, Saved, Connect, disk
<1>8. CASE BeginPhase
  <2> DEFINE s == [live.refinement EXCEPT !.status = "running"]
  <2>1. IsProgress(s) /\ s.warning_sent = live.refinement.warning_sent
    BY <1>0, StatusKeeps DEF Statuses
  <2>2. live'.refinement = WarnIfNeeded(s)
    BY <1>0, <1>8 DEF BeginPhase, IsSession
  <2>3. files'.notices = files.notices + Notices(s)
    BY <1>0, <1>8 DEF BeginPhase, FileStates
  <2> HIDE DEF s
  <2>4. Warned(live'.refinement) = Warned(live.refinement) + Notices(s) /\ Notices(s) \in {0, 1}
    BY <2>1, <2>2, NoticeRemembered DEF Warned, Notices
  <2>5. files.notices <= reopened + Warned(live.refinement)
    BY <1>0, <1>8 DEF NoticesCounted, AtWork, BeginPhase
  <2>6. files'.notices <= reopened + Warned(live'.refinement)
    BY <1>0, <2>3, <2>4, <2>5
  <2>7. QED
    BY <1>0, <1>8, <2>4, <2>6 DEF NoticesCounted, Saved, BeginPhase
<1>9. CASE \E m \in 1 .. MaxReport : Usage(m)
  <2>1. PICK m \in 1 .. MaxReport : Usage(m)
    BY <1>9
  <2> DEFINE s == UpdateTokenUsage(live.refinement, Tokens + m)
  <2>2. Tokens + m \in Nat
    BY <1>0, RecoveryAssumption DEF Tokens, IsProgress, IsRecord
  <2>3. IsProgress(s) /\ s.warning_sent = live.refinement.warning_sent
    BY <1>0, <2>2, UpdateKeeps
  <2>4. live'.refinement = WarnIfNeeded(s)
    BY <1>0, <2>1 DEF Usage, IsSession
  <2>5. files'.notices = files.notices + Notices(s)
    BY <1>0, <2>1 DEF Usage, FileStates
  <2> HIDE DEF s
  <2>6. Warned(live'.refinement) = Warned(live.refinement) + Notices(s) /\ Notices(s) \in {0, 1}
    BY <2>3, <2>4, NoticeRemembered DEF Warned, Notices
  <2>7. files.notices <= reopened + Warned(live.refinement)
    BY <1>0, <2>1 DEF NoticesCounted, AtWork, Usage
  <2>8. files'.notices <= reopened + Warned(live'.refinement)
    BY <1>0, <2>5, <2>6, <2>7
  <2>9. QED
    BY <1>0, <2>1, <2>6, <2>8 DEF NoticesCounted, Saved, Usage
<1>10. CASE \E kind \in Kinds, m \in 0 .. MaxReport, noGaps \in BOOLEAN :
            EndPhase(kind, m, noGaps)
  <2>1. PICK kind \in Kinds, m \in 0 .. MaxReport, noGaps \in BOOLEAN :
          EndPhase(kind, m, noGaps)
    BY <1>10
  <2>2. m \in Nat
    BY RecoveryAssumption
  <2>3. /\ live'.refinement.warning_sent = live.refinement.warning_sent
        /\ files'.notices = files.notices /\ pc' \in {"save", "rollback"}
    BY <2>1, <2>2, EndStep
  <2>4. QED
    BY <2>1, <2>3 DEF NoticesCounted, AtWork, Saved, Warned, EndPhase
<1>11. CASE RollBack
  <2>1. /\ archive' = archive /\ reopened' = reopened /\ pc' = "rolled_back"
        /\ live' = archive.saved /\ files' = archive.files
    BY <1>11 DEF RollBack, RestoreRuntime
  <2>2. QED
    BY <1>0, <2>1 DEF NoticesCounted, AtWork, Saved
<1>12. CASE PausePrefix
  BY <1>12, PauseStep DEF NoticesCounted, AtWork, Saved, Warned, PausePrefix, disk
<1>13. CASE CloseForSave
  BY <1>13 DEF NoticesCounted, AtWork, Saved, CloseForSave, disk
<1>14. CASE WriteArchive
  <2>1. /\ archive'.saved = live /\ archive'.files = files /\ live' = live /\ files' = files
        /\ pc = "write" /\ pc' = "saved" /\ reopened' = reopened
    BY <1>14 DEF WriteArchive
  <2>2. QED
    BY <1>0, <2>1 DEF NoticesCounted, AtWork, Saved
<1>15. CASE SaveDone
  BY <1>15 DEF NoticesCounted, AtWork, Saved, SaveDone, GoOn, disk
<1>16. CASE LoseTransport
  BY <1>16 DEF NoticesCounted, AtWork, Saved, LoseTransport, disk
<1>17. CASE RetryFromArchive
  <2>1. /\ archive' = archive /\ reopened' = reopened /\ pc' = "restored"
        /\ live' = archive.saved /\ files' = archive.files
    BY <1>17 DEF RetryFromArchive, RestoreRuntime
  <2>2. QED
    BY <1>0, <2>1 DEF NoticesCounted, AtWork, Saved
<1>18. CASE GiveUp
  BY <1>18 DEF NoticesCounted, AtWork, Saved, GiveUp, disk
<1>19. CASE Abort
  BY <1>19 DEF NoticesCounted, AtWork, Saved, Abort, disk
<1>20. CASE CloseSession
  BY <1>20 DEF NoticesCounted, AtWork, Saved, CloseSession
<1>21. CASE Crash
  BY <1>21 DEF NoticesCounted, AtWork, Saved, Crash, disk
<1>22. CASE \E extra \in ExtraBudgets : ContinueRun(extra)
  <2>1. archive' = archive /\ reopened' = reopened /\ files' = archive.files /\ pc' = "continue"
    BY <1>22 DEF ContinueRun, RestoreRuntime
  <2>2. archive.files.notices <= reopened + Warned(Saved)
    BY DEF NoticesCounted
  <2>3. archive.files.notices <= reopened + Warned(live'.refinement) + 1
    <3>1. Warned(Saved) \in {0, 1} /\ Warned(live'.refinement) \in {0, 1}
      BY DEF Warned
    <3>2. QED
      BY <1>0, <2>2, <3>1
  <2>4. QED
    BY <2>1, <2>2, <2>3 DEF NoticesCounted, Saved
<1>23. CASE CommitContinuation
  <2>1. /\ archive'.saved = live /\ archive'.files = files /\ live' = live /\ files' = files
        /\ pc = "continue" /\ pc' = "continued" /\ reopened' = reopened + 1
    BY <1>23 DEF CommitContinuation
  <2>2. files.notices <= reopened + Warned(live.refinement) + 1
    BY <2>1 DEF NoticesCounted, AtWork
  <2>3. Warned(live.refinement) \in {0, 1}
    BY DEF Warned
  <2>4. files.notices <= (reopened + 1) + Warned(live.refinement)
    BY <1>0, <2>2, <2>3
  <2>5. QED
    BY <2>1, <2>4 DEF NoticesCounted, AtWork, Saved
<1>24. CASE ContinueDone
  BY <1>24 DEF NoticesCounted, AtWork, Saved, ContinueDone, disk
<1>25. CASE \E extra \in ExtraBudgets : Fork(extra)
  <2>1. PICK extra \in ExtraBudgets : Fork(extra)
    BY <1>25
  <2>2. /\ archive' = Forked(extra) /\ pc' = "forked" /\ reopened' = reopened + 1
    BY <2>1 DEF Fork
  <2>3. archive'.files.notices = archive.files.notices
    BY <2>2, ForkedKeeps
  <2>4. archive.files.notices <= reopened + Warned(Saved)
    BY DEF NoticesCounted
  <2>5. Warned(Saved) \in {0, 1} /\ Warned(Saved') \in {0, 1}
    BY DEF Warned
  <2>6. archive'.files.notices <= reopened' + Warned(Saved')
    BY <1>0, <2>2, <2>3, <2>4, <2>5
  <2>7. QED
    BY <2>2, <2>6 DEF NoticesCounted, AtWork
<1>26. CASE ForkDone
  BY <1>26 DEF NoticesCounted, AtWork, Saved, ForkDone, disk
<1>27. CASE UNCHANGED vars
  BY <1>27 DEF NoticesCounted, AtWork, Saved, vars
<1>28. QED
  BY <1>1, <1>2, <1>3, <1>4, <1>5, <1>6, <1>7, <1>8, <1>9, <1>10,
     <1>11, <1>12, <1>13, <1>14, <1>15, <1>16, <1>17, <1>18, <1>19, <1>20,
     <1>21, <1>22, <1>23, <1>24, <1>25, <1>26, <1>27
  DEF Next, Progress, Environment

\* Every step keeps the solution files of returned work complete.
LEMMA ReturnsStep ==
  ASSUME TypeOK, Coherent, ReturnsExported, [Next]_vars
  PROVE  ReturnsExported'
<1>0. outcome \in {"none", "returned", "raised"}
  BY DEF TypeOK
<1>1. CASE OpenNew \/ OpenRefused \/ OpenSaved
  BY <1>1 DEF ReturnsExported, OpenNew, OpenRefused, OpenSaved
<1>2. CASE RestoreDone \/ SaveDone \/ ContinueDone
  <2>1. /\ live = archive.saved /\ published /\ Unwritten(Saved) = {}
        /\ archive' = archive /\ exports' = exports /\ published' = published
        /\ outcome' = outcome \/ pc' = "closing"
        /\ pc \in {"restored", "saved", "continued"}
    BY <1>2 DEF RestoreDone, SaveDone, ContinueDone, GoOn, disk, Coherent, LiveIsSaved,
                NothingBeforePublish, Saved
  <2>2. outcome # "returned"
    BY <2>1 DEF ReturnsExported
  <2>3. Unwritten(Saved)' = {}
    BY <2>1 DEF Unwritten, Saved
  <2>4. QED
    BY <2>1, <2>2, <2>3 DEF ReturnsExported
<1>3. CASE \/ PublishNew \/ WriteSolution \/ Connect \/ BeginPhase
           \/ \E m \in 1 .. MaxReport : Usage(m)
           \/ \E kind \in Kinds, m \in 0 .. MaxReport, noGaps \in BOOLEAN :
                EndPhase(kind, m, noGaps)
           \/ RollBack \/ PausePrefix \/ CloseForSave \/ WriteArchive \/ LoseTransport
           \/ RetryFromArchive \/ CommitContinuation \/ ForkDone
           \/ \E extra \in ExtraBudgets : ContinueRun(extra) \/ Fork(extra)
  <2>1. outcome' = outcome /\ pc \notin {"closing", "idle"}
    BY <1>3 DEF PublishNew, WriteSolution, Connect, BeginPhase, Usage, EndPhase, RollBack,
                PausePrefix, CloseForSave, WriteArchive, LoseTransport, RetryFromArchive,
                CommitContinuation, ForkDone, ContinueRun, Fork
  <2>2. QED
    BY <2>1 DEF ReturnsExported
<1>4. CASE GiveUp \/ Abort \/ Crash
  BY <1>4 DEF ReturnsExported, GiveUp, Abort, Crash
<1>5. CASE CloseSession \/ UNCHANGED vars
  BY <1>5 DEF ReturnsExported, CloseSession, vars, Unwritten, Saved
<1>6. QED
  BY <1>1, <1>2, <1>3, <1>4, <1>5 DEF Next, Progress, Environment

\* A seed without an archive has nothing to reopen, pause or owe.
LEMMA HistoryInit == Init => HInv
<1> SUFFICES ASSUME Init PROVE HInv
  OBVIOUS
<1>1. /\ live.refinement = NewProgress /\ Saved = NewProgress /\ archive.files.notices = 0
      /\ pc = "idle" /\ outcome = "none" /\ reopened = 0
  BY NewSessionFields, NoFilesType DEF Init, Saved
<1>2. RecordsSound
  BY <1>1, NewProgressSound DEF RecordsSound
<1>3. LabelsSound
  BY <1>1, NewOwesNothing DEF LabelsSound
<1>4. NoticesCounted /\ ReturnsExported
  BY <1>1 DEF NoticesCounted, Warned, AtWork, ReturnsExported
<1>5. QED
  BY <1>2, <1>3, <1>4 DEF HInv

\* What every step does to the saved record, as DurableRun says it.
LEMMA DurableStep ==
  ASSUME IInv, RecordsSound, LabelsSound, Unstranded, [Next]_vars, TypeOK'
  PROVE  [Durable!DurableNext]_<<published, archive.saved.refinement, branch>>
<1>0. /\ TypeOK /\ Coherent /\ IsProgress(live.refinement) /\ IsProgress(Saved)
      /\ Saved = archive.saved.refinement
  BY TypeFacts DEF IInv, Saved
<1>1. CASE PublishNew
  <2>1. /\ ~published /\ published' /\ branch' = branch
        /\ archive'.saved.refinement = archive.saved.refinement
    BY <1>0, <1>1 DEF PublishNew, Coherent, NothingBeforePublish
  <2>2. Durable!Create
    BY <2>1 DEF Durable!Create
  <2>3. QED
    BY <2>2 DEF Durable!DurableNext
<1>2. CASE WriteArchive
  <2>1. /\ archive'.saved.refinement = live.refinement /\ published' = published
        /\ branch' = branch /\ pc = "write"
    BY <1>2 DEF WriteArchive
  <2>2. published
    BY <1>0, <2>1 DEF Coherent, NothingBeforePublish
  <2>3. Durable!FreezesLatest(archive.saved.refinement, archive'.saved.refinement)
    BY <1>0, <2>1 DEF LabelsSound
  <2>4. \/ Durable!Advances(archive.saved.refinement, archive'.saved.refinement,
                            IF branch THEN 0 ELSE MinRounds)
        \/ Durable!HaltsAtPause(archive.saved.refinement, archive'.saved.refinement)
    BY <1>0, <2>1 DEF RecordsSound, RoundFloor
  <2>5. Durable!CommitPhase \/ Durable!Pause
    BY <2>1, <2>2, <2>3, <2>4 DEF Durable!CommitPhase, Durable!Pause
  <2>6. QED
    BY <2>5 DEF Durable!DurableNext
<1>3. CASE CommitContinuation
  <2>1. /\ archive'.saved.refinement = live.refinement /\ published' = published
        /\ branch' = branch /\ pc = "continue"
    BY <1>3 DEF CommitContinuation
  <2>2. published
    BY <1>0, <2>1 DEF Coherent, NothingBeforePublish
  <2>3. PICK extra \in ExtraBudgets :
          live.refinement = ContinueState(Saved, Saved.output_tokens + extra)
    BY <2>1 DEF RecordsSound
  <2>4. /\ Saved.output_tokens + extra \in Nat
        /\ Saved.output_tokens + extra > Saved.output_tokens
        /\ Saved.status # "running" /\ Valid(Saved) /\ Saved.phase \in Phases
    BY <1>0, <2>1, RecoveryAssumption DEF IsProgress, IsRecord, RecordsSound, MayContinue
  <2>5. live.refinement = [live.refinement EXCEPT !.phase = Saved.phase]
    <3>1. Reopened(Saved, Saved.output_tokens + extra, live.refinement)
      BY <1>0, <2>3, <2>4, ContinueSound
    <3>2. QED
      BY <1>0, <3>1 DEF Reopened, IsProgress, IsRecord
  <2>6. Durable!Reopens(Saved, live.refinement, branch)
    <3> DEFINE d == ContinueState(Saved, Saved.output_tokens + extra)
               c == [d EXCEPT !.phase = Saved.phase]
    <3>1. c = live.refinement
      BY <2>3, <2>5
    <3> HIDE DEF d, c
    <3>2. Durable!Reopens(Saved, c, FALSE) /\ Durable!Reopens(Saved, c, TRUE)
      BY <1>0, <2>4, ReopenedRecord DEF d, c
    <3>3. branch = TRUE \/ branch = FALSE
      BY <1>0 DEF TypeOK
    <3>4. QED
      BY <3>1, <3>2, <3>3
  <2>7. Durable!Reopen
    BY <1>0, <2>1, <2>2, <2>6 DEF Durable!Reopen
  <2>8. QED
    BY <2>7 DEF Durable!DurableNext
<1>4. CASE \E extra \in ExtraBudgets : Fork(extra)
  <2>1. PICK extra \in ExtraBudgets : Fork(extra)
    BY <1>4
  <2> DEFINE d == ContinueState(Saved, Saved.output_tokens + extra)
             c == [d EXCEPT !.phase = "continue"]
  <2>2. /\ live.refinement = Saved /\ Tokens = Saved.output_tokens
        /\ Saved.status # "running" /\ Valid(Saved) /\ published
    BY <1>0, <2>1
    DEF Fork, RecordsSound, Coherent, LiveIsSaved, NothingBeforePublish, Saved, Tokens, MayContinue
  <2>3. /\ Saved.output_tokens + extra \in Nat
        /\ Saved.output_tokens + extra > Saved.output_tokens
    BY <1>0, RecoveryAssumption DEF IsProgress, IsRecord
  <2>4. archive'.saved.refinement = c /\ published' = published /\ branch' = TRUE
    BY <2>1, <2>2 DEF Fork, Forked
  <2> HIDE DEF d, c
  <2>5. Durable!Reopens(Saved, c, TRUE)
    BY <1>0, <2>2, <2>3, ReopenedRecord DEF d, c, Phases
  <2>6. Durable!Reopen
    BY <1>0, <2>2, <2>4, <2>5 DEF Durable!Reopen
  <2>7. QED
    BY <2>6 DEF Durable!DurableNext
<1>5. CASE \/ OpenNew \/ OpenRefused \/ OpenSaved \/ WriteSolution \/ RestoreDone \/ Connect
           \/ BeginPhase \/ \E m \in 1 .. MaxReport : Usage(m)
           \/ \E kind \in Kinds, m \in 0 .. MaxReport, noGaps \in BOOLEAN :
                EndPhase(kind, m, noGaps)
           \/ RollBack \/ PausePrefix \/ CloseForSave \/ SaveDone \/ LoseTransport
           \/ RetryFromArchive \/ GiveUp \/ Abort \/ CloseSession \/ Crash
           \/ ContinueDone \/ ForkDone \/ UNCHANGED vars
           \/ \E extra \in ExtraBudgets : ContinueRun(extra)
  BY <1>5 DEF OpenNew, OpenRefused, OpenSaved, WriteSolution, RestoreDone, Connect, BeginPhase,
              Usage, EndPhase, RollBack, PausePrefix, CloseForSave, SaveDone, LoseTransport,
              RetryFromArchive, GiveUp, Abort, CloseSession, Crash, ContinueDone, ForkDone,
              ContinueRun, vars, disk
<1>6. QED
  BY <1>1, <1>2, <1>3, <1>4, <1>5 DEF Next, Progress, Environment

-----------------------------------------------------------------------------
(* The theorems.                                                           *)

\* Every reachable state satisfies the inductive invariant: memory, runtime
\* files, archive and solution files agree at every control point, whatever
\* is lost, cancelled, killed, retried, rolled back, continued or forked.
THEOREM Invariance == Spec => []IInv
<1>1. Init => IInv
  BY InvInit
<1>2. IInv /\ [Next]_vars => IInv'
  <2> SUFFICES ASSUME IInv, [Next]_vars PROVE IInv'
    OBVIOUS
  <2>1. TypeOK /\ Coherent
    BY DEF IInv
  <2>2. TypeOK'
    BY <2>1, TypeStep DEF Coherent, IntentWithSource
  <2>3. Coherent'
    BY <2>1, CoherentStep
  <2>4. QED
    BY <2>2, <2>3, Zenon DEF IInv
<1>3. QED
  BY <1>1, <1>2, PTL DEF Spec

\* Every variable always has its type (models.py, session/models.py).
THEOREM TypeCorrect == Spec => []TypeOK
<1>1. IInv => TypeOK
  BY DEF IInv
<1>2. QED
  BY <1>1, Invariance, PTL

\* The archive accounts for exactly the conversation and workspace compressed
\* with it (session_manager.py save, restore; recovery.py checkpoint, restore).
THEOREM ArchiveIsConsistent == Spec => []ArchiveConsistent
<1>1. IInv => ArchiveConsistent
  BY DEF IInv, Coherent, ArchiveMatches, ArchiveConsistent
<1>2. QED
  BY <1>1, Invariance, PTL

\* No solution file is ahead of, or differs from, the archive
\* (session_manager.py _write_solutions).
THEOREM ExportsAreSound == Spec => []ExportsFollowArchive
<1>1. IInv => ExportsFollowArchive
  BY DEF IInv, Coherent
<1>2. QED
  BY <1>1, Invariance, PTL

\* No archive is written, and no seed released, under a live SDK process
\* (recovery.py checkpoint, _close_connection).
THEOREM ClosedWhileSaving == Spec => []SavesWhileClosed
<1>1. IInv => SavesWhileClosed
  <2>1. IInv => connection \in {"open", "closed"}
    BY DEF IInv, TypeOK
  <2>2. QED
    BY <2>1 DEF IInv, Coherent, ConnectionOwned, SavesWhileClosed
<1>2. QED
  BY <1>1, Invariance, PTL

\* The intent to fork survives until the branch has its own session ID, and
\* not longer (recovery.py _connect_session, session_manager.py fork).
THEOREM ForkIntentIsKept == Spec => []ForkIntentSurvives
<1>1. IInv => ForkIntentSurvives
  BY DEF IInv, Coherent, IntentWithSource, ForkIntentSurvives
<1>2. QED
  BY <1>1, Invariance, PTL

\* A saved label keeps its solution through every step of every process
\* (self_refine.py _capture_solution_checkpoints).
THEOREM LabelsStayFrozen == Spec => LabelsFrozen
<1>1. IInv /\ [Next]_vars => [Extends(Saved', Saved)]_vars
  <2> SUFFICES ASSUME IInv, [Next]_vars PROVE Extends(Saved', Saved)
    OBVIOUS
  <2>1. TypeOK /\ Coherent
    BY DEF IInv
  <2>2. QED
    BY <2>1, CoherentStep
<1>2. QED
  BY <1>1, Invariance, PTL DEF Spec, LabelsFrozen

\* Every reachable state also satisfies the invariant on its history: what
\* memory holds follows from what is saved by one phase, one pause or one
\* reopening; open labels stay in order; notices are counted; and returned
\* work has its solution files (self_refine.py, recovery.py,
\* session_manager.py).
THEOREM HistoryInvariance == Spec => [](IInv /\ HInv)
<1>1. Init => IInv /\ HInv
  BY InvInit, HistoryInit
<1>2. IInv /\ HInv /\ [Next]_vars => IInv' /\ HInv'
  <2> SUFFICES ASSUME IInv, HInv, [Next]_vars PROVE IInv' /\ HInv'
    OBVIOUS
  <2>1. /\ TypeOK /\ Coherent
        /\ RecordsSound /\ LabelsSound /\ NoticesCounted /\ ReturnsExported
    BY DEF IInv, HInv
  <2>2. TypeOK' /\ Coherent'
    BY <2>1, TypeStep, CoherentStep DEF Coherent, IntentWithSource
  <2>3. RecordsSound'
    BY <2>1, <2>2, RecordsStep
  <2>4. LabelsSound'
    BY <2>1, <2>2, LabelsStep
  <2>5. NoticesCounted'
    BY <2>1, <2>2, NoticesStep
  <2>6. ReturnsExported'
    BY <2>1, ReturnsStep
  <2>7. QED
    BY <2>2, <2>3, <2>4, <2>5, <2>6, Zenon DEF IInv, HInv
<1>3. QED
  BY <1>1, <1>2, PTL DEF Spec

\* The saved conversation never holds two notices for one allowance, however
\* often a phase is retried or rolled back (self_refine.py _warn_if_needed,
\* recovery.py restore).
THEOREM NoticesAreLimited == Spec => []NoticeOncePerAllowance
<1>1. IInv /\ HInv => NoticeOncePerAllowance
  <2> SUFFICES ASSUME IInv, HInv PROVE NoticeOncePerAllowance
    OBVIOUS
  <2>1. archive.files.notices <= reopened + Warned(Saved)
    BY DEF HInv, NoticesCounted
  <2>2. Warned(Saved) \in {0, 1} /\ archive.files.notices \in Nat /\ reopened \in Nat
    BY TypeFacts, FileFields DEF IInv, TypeOK, Warned
  <2>3. QED
    BY <2>1, <2>2 DEF NoticeOncePerAllowance
<1>2. QED
  BY <1>1, HistoryInvariance, PTL

\* A run that returned leaves exactly the frozen labels as solution files
\* (session_manager.py _write_solutions).
THEOREM ReturnedWorkIsExported == Spec => []ReturnedExportsComplete
<1>1. IInv /\ HInv => ReturnedExportsComplete
  <2> SUFFICES ASSUME IInv, HInv, outcome = "returned" PROVE exports = Saved.solution_checkpoints
    BY DEF ReturnedExportsComplete
  <2>1. Unwritten(Saved) = {}
    BY DEF HInv, ReturnsExported
  <2>2. ExportsFollowArchive /\ TypeOK
    BY DEF IInv, Coherent
  <2>3. /\ exports = [m \in DOMAIN exports |-> exports[m]]
        /\ Saved.solution_checkpoints =
             [m \in DOMAIN Saved.solution_checkpoints |-> Saved.solution_checkpoints[m]]
    BY <2>2, TypeFacts DEF TypeOK, IsProgress, IsRecord
  <2>4. /\ DOMAIN exports = DOMAIN Saved.solution_checkpoints
        /\ \A m \in DOMAIN exports : exports[m] = Saved.solution_checkpoints[m]
    BY <2>1, <2>2 DEF Unwritten, ExportsFollowArchive
  <2>5. QED
    BY <2>3, <2>4
<1>2. QED
  BY <1>1, HistoryInvariance, PTL

\* A prefix keeps no work beyond its pause and never exhausts the advertised
\* budget, for every overshoot of the SDK (self_refine.py
\* _resolve_phase_outcome).
THEOREM PrefixesStayWithinPause == Spec => []PrefixStaysWithinPause
<1>1. HInv => PrefixStaysWithinPause
  BY DEF HInv, RecordsSound, Affordable, PrefixStaysWithinPause
<1>2. QED
  BY <1>1, HistoryInvariance, PTL

\* Whatever is saved passes validate and, if it is to be resumed, can be paid
\* for (models.py validate, self_refine.py _run_phase).
THEOREM RunningHasAllowance == Spec => []ResumableHasAllowance
<1>1. HInv => ResumableHasAllowance
  BY DEF HInv, RecordsSound, Affordable, ResumableHasAllowance
<1>2. QED
  BY <1>1, HistoryInvariance, PTL

\* Stopped work has a solution at every label, as long as no continuation
\* added more than one label at once (self_refine.py
\* _capture_solution_checkpoints, session_manager.py _continue_state).
THEOREM UnstrandedStopsWithEveryLabel == Spec => [](Unstranded => StoppedHasEveryLabel)
<1>1. HInv => (Unstranded => StoppedHasEveryLabel)
  <2> SUFFICES ASSUME HInv, Unstranded, Saved.status # "running"
               PROVE  DOMAIN Saved.solution_checkpoints = 1 .. Saved.checkpoint_count
    BY DEF StoppedHasEveryLabel
  <2>1. Durable!Owed(Saved) = 1 .. Saved.checkpoint_count
    BY DEF Durable!Owed
  <2>2. QED
    BY <2>1 DEF HInv, LabelsSound, RecordsSound, Valid
<1>2. QED
  BY <1>1, HistoryInvariance, PTL

\* So it has in every seed that is continued as the launchers do, by one block
\* at a time.
THEOREM StopsWithEveryLabel ==
  ASSUME OneBlock
  PROVE  Spec => []StoppedHasEveryLabel
<1>1. Unstranded
  BY DEF Unstranded
<1>2. QED
  BY <1>1, UnstrandedStopsWithEveryLabel, PTL

\* As long as no label has been stranded, the archive moves exactly as the
\* abstract run of DurableRun does: every other step, crash, retry and
\* rollback is invisible in it (recovery.py checkpoint and restore,
\* session_manager.py save, continue_run and fork).
THEOREM UnstrandedRefinesDurableRun == Spec /\ []Unstranded => ImplementsDurableRun
<1>1. Init => Durable!DurableInit
  <2>1. Durable!NewProgress = NewProgress
    BY DEF Durable!NewProgress, NewProgress, Durable!CeilDiv, CeilDiv, Durable!NoPause, NoPause,
           Durable!NoSolution, NoSolution
  <2>2. QED
    BY <2>1, NewSessionFields DEF Init, Durable!DurableInit
<1>2. IInv /\ HInv /\ Unstranded /\ IInv' /\ [Next]_vars =>
        [Durable!DurableNext]_<<published, archive.saved.refinement, branch>>
  BY DurableStep DEF HInv, IInv
<1>3. QED
  BY <1>1, <1>2, HistoryInvariance, PTL
  DEF Spec, ImplementsDurableRun, Durable!DurableSpec, Durable!durableVars

\* So a seed whose continuations add one label at most implements DurableRun
\* for good.
THEOREM RefinesDurableRun ==
  ASSUME OneBlock
  PROVE  Spec => ImplementsDurableRun
<1>1. Unstranded
  BY DEF Unstranded
<1>2. QED
  BY <1>1, UnstrandedRefinesDurableRun, PTL
=============================================================================
