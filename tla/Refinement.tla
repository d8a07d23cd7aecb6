------------------------------ MODULE Refinement ------------------------------
(***************************************************************************)
(* The progress record of one solver attempt and the accounting rules on   *)
(* it: token allowances, the solution frozen at each budget label, the     *)
(* critique streak that decides convergence, and reopening stopped work.   *)
(* Pure operators on a record s with the fields of RefinementState; the    *)
(* problem text is left out, and a solution is identified by the number of *)
(* output tokens the attempt had spent when the phase that wrote it ended. *)
(* A completed reply costs at least one token, so 0 is "no solution yet",  *)
(* and comparing solutions tells which one is later.                       *)
(***************************************************************************)
EXTENDS Integers, FiniteSets

CONSTANTS
  Block,          \* OUTPUT_TOKENS_PER_BLOCK: tokens of one budget label
  WarningTokens,  \* remaining allowance at which the one notice is due
  Budget,         \* budget_tokens requested for the new attempt
  PauseAt,        \* pause_at_tokens requested for it; NoPause when absent
  MinRounds,      \* RefinementConfig.min_rounds of the attempt
  MinNoGap        \* RefinementConfig.min_no_gap_critiques

NoPause    == 0
NoSolution == 0

ASSUME AllowanceAssumption ==
  /\ Block \in Nat \ {0}
  /\ WarningTokens \in Nat
  /\ Budget \in Nat \ {0}
  /\ PauseAt \in Nat
  /\ PauseAt # NoPause => PauseAt < Budget

ASSUME ConvergenceAssumption ==
  /\ MinRounds \in Nat
  /\ MinNoGap \in Nat \ {0}

Phases   == {"solve", "critique", "revise", "continue"}
Statuses == {"running", "finished", "exhausted", "paused"}

CeilDiv(a, b) == (a + b - 1) \div b

-----------------------------------------------------------------------------
(* Allowances and labels.                                                  *)

ActiveLimit(s) ==
  IF s.pause_at_tokens = NoPause THEN s.budget_tokens ELSE s.pause_at_tokens

\* The progress of an attempt that has spent nothing.
NewProgress ==
  [ budget_tokens        |-> Budget,
    pause_at_tokens      |-> PauseAt,
    phase                |-> "solve",
    output_tokens        |-> 0,
    rounds               |-> 0,
    no_gap_critiques     |-> 0,
    warning_sent         |-> FALSE,
    solution             |-> NoSolution,
    status               |-> "running",
    solution_checkpoints |-> [m \in {} |-> NoSolution],
    checkpoint_count     |->
      CeilDiv(IF PauseAt = NoPause THEN Budget ELSE PauseAt, Block) ]

\* Exhaustion is reported before a pause, as in the code.
BudgetStatus(s) ==
  IF s.output_tokens >= s.budget_tokens THEN "exhausted"
  ELSE IF s.pause_at_tokens # NoPause /\ s.output_tokens >= s.pause_at_tokens
       THEN "paused"
       ELSE "running"

\* Tokens label m stands for: the last label takes whatever the allowance is.
Boundary(s, m) ==
  IF m = s.checkpoint_count THEN ActiveLimit(s) ELSE m * Block

OpenLabels(s) == (1 .. s.checkpoint_count) \ DOMAIN s.solution_checkpoints

\* The loop over open labels stops at the first boundary above through.
Crossed(s, through) ==
  {m \in OpenLabels(s) :
     \A j \in OpenLabels(s) : j <= m => Boundary(s, j) <= through}

\* Freeze the current solution at every label crossed.
Capture(s, through) ==
  LET frozen == s.solution_checkpoints
  IN  [s EXCEPT !.solution_checkpoints =
         [m \in DOMAIN frozen \cup Crossed(s, through) |->
            IF m \in DOMAIN frozen THEN frozen[m] ELSE s.solution]]

\* new has every frozen label of old, with the same solution.
Extends(new, old) ==
  \A m \in DOMAIN old.solution_checkpoints :
    /\ m \in DOMAIN new.solution_checkpoints
    /\ new.solution_checkpoints[m] = old.solution_checkpoints[m]

-----------------------------------------------------------------------------
(* One phase: usage reports, the notice, and the reply that ends it.       *)

\* Only boundaries strictly below the new total are frozen here, with the
\* solution from before the phase; an exact boundary waits for its end.
UpdateTokenUsage(s, total) ==
  Capture([s EXCEPT !.output_tokens = total], total - 1)

NeedsWarning(s) ==
  /\ ~s.warning_sent
  /\ s.status = "running"
  /\ BudgetStatus(s) = "running"
  /\ s.budget_tokens - s.output_tokens <= WarningTokens

\* Fault: the notice is queued and not remembered.
WarnWithoutRemembering(s) == s

WarnIfNeeded(s) ==
  IF NeedsWarning(s) THEN [s EXCEPT !.warning_sent = TRUE] ELSE s

\* Fault: a phase cut off exactly at the pause is kept.
KeepCutPrefixPhase(s, outcome) ==
  s.pause_at_tokens # NoPause /\ s.output_tokens > s.pause_at_tokens

\* Fault: a reply completed beyond the pause is kept.
RollBackOnlyCutPhases(s, outcome) ==
  /\ s.pause_at_tokens # NoPause
  /\ outcome = "interrupted" /\ s.output_tokens >= s.pause_at_tokens

\* A prefix keeps no phase that passed its pause or was cut off at it.
MustRollBack(s, outcome) ==
  /\ s.pause_at_tokens # NoPause
  /\ \/ s.output_tokens > s.pause_at_tokens
     \/ outcome = "interrupted" /\ s.output_tokens >= s.pause_at_tokens

\* A solve, continuation or revision replaces the solution; a critique adds a
\* round and extends or breaks the clean streak.
ApplyPhaseResult(s, noGaps) ==
  IF s.phase = "critique"
  THEN [s EXCEPT !.rounds = @ + 1,
                 !.no_gap_critiques = IF noGaps THEN @ + 1 ELSE 0,
                 !.phase = "revise"]
  ELSE [s EXCEPT !.solution = s.output_tokens, !.phase = "critique"]

\* Whether the phase just applied converges; only a critique can.
Converges(s, applied, minRounds) ==
  /\ s.phase = "critique"
  /\ applied.rounds >= minRounds
  /\ applied.no_gap_critiques >= MinNoGap

\* The outcome of a phase that is not rolled back: cut-off work and work
\* past the budget is counted but its text is dropped.
ResolvePhaseOutcome(s, outcome, noGaps, minRounds) ==
  IF outcome = "interrupted" \/ s.output_tokens > s.budget_tokens
  THEN [s EXCEPT !.status = BudgetStatus(s)]
  ELSE LET applied == ApplyPhaseResult(s, noGaps)
       IN  [applied EXCEPT !.status =
              IF Converges(s, applied, minRounds)
              THEN "finished" ELSE BudgetStatus(applied)]

\* Fault: stopping fills no further labels than those already passed.
SettleLeavesLabels(s) == Capture(s, s.output_tokens)

\* After a phase: freeze what it completed, or every label once stopped.
Settle(s) ==
  Capture(s, IF s.status = "running" THEN s.output_tokens ELSE ActiveLimit(s))

-----------------------------------------------------------------------------
(* Reopening stopped progress with a new total allowance.                  *)

MayContinue(s, budget) == s.status # "running" /\ budget > s.output_tokens

\* Labels already frozen keep their numbers; the count is their number plus
\* one per block of the allowance left.  The notice is due again only when
\* the allowance grew.
ContinueState(s, budget) ==
  [s EXCEPT
     !.warning_sent     = IF budget > s.budget_tokens THEN FALSE ELSE @,
     !.checkpoint_count = Cardinality(DOMAIN s.solution_checkpoints)
                            + CeilDiv(budget - s.output_tokens, Block),
     !.budget_tokens    = budget,
     !.pause_at_tokens  = NoPause,
     !.no_gap_critiques = 0,
     !.status           = "running"]

-----------------------------------------------------------------------------
(* RefinementState.validate: what every open, save and load insists on.    *)

Valid(s) ==
  /\ s.budget_tokens > 0
  /\ s.output_tokens >= 0
  /\ s.pause_at_tokens # NoPause =>
       0 < s.pause_at_tokens /\ s.pause_at_tokens < s.budget_tokens
  /\ 0 <= s.no_gap_critiques /\ s.no_gap_critiques <= s.rounds
  /\ s.checkpoint_count > 0
  /\ DOMAIN s.solution_checkpoints \subseteq 1 .. s.checkpoint_count
  /\ \A m \in DOMAIN s.solution_checkpoints :
       1 .. m \subseteq DOMAIN s.solution_checkpoints

IsRecord(s) ==
  s \in [ budget_tokens        : Nat,
          pause_at_tokens      : Nat,
          phase                : Phases,
          output_tokens        : Nat,
          rounds               : Nat,
          no_gap_critiques     : Nat,
          warning_sent         : BOOLEAN,
          solution             : Nat,
          status               : Statuses,
          solution_checkpoints : [DOMAIN s.solution_checkpoints -> Nat],
          checkpoint_count     : Nat ]

\* The type of a progress record: fields of their types, finitely many labels.
IsProgress(s) ==
  IsRecord(s) /\ IsFiniteSet(DOMAIN s.solution_checkpoints)

-----------------------------------------------------------------------------
(* What the operators keep of a record: the steps of the loop's proofs.    *)

\* Running work has tokens left, a prefix none beyond its pause.
Affordable(s) ==
  /\ s.status = "running" => BudgetStatus(s) = "running"
  /\ s.pause_at_tokens # NoPause =>
       s.output_tokens <= s.pause_at_tokens /\ s.status # "exhausted"

\* Labels can be frozen in order: no open one lies beyond the allowance.
Ordered(s) == \A m \in OpenLabels(s) : Boundary(s, m) <= ActiveLimit(s)

\* What a phase under way may have changed since the last checkpoint.
InPhase(old, new) ==
  /\ old.status = "running"
  /\ new = [old EXCEPT
       !.output_tokens        = new.output_tokens,
       !.warning_sent         = new.warning_sent,
       !.solution_checkpoints = new.solution_checkpoints]
  /\ new.output_tokens >= old.output_tokens
  /\ \A m \in DOMAIN new.solution_checkpoints \ DOMAIN old.solution_checkpoints :
       /\ Boundary(new, m) < new.output_tokens
       /\ new.solution_checkpoints[m] = old.solution
=============================================================================
