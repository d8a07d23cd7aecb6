------------------------------ MODULE DurableRun ------------------------------
(***************************************************************************)
(* What one seed directory promises about its saved progress, with no      *)
(* processes, connections, retries or files: progress is created once,     *)
(* then advances one whole phase at a time, pauses, stops, and is reopened *)
(* with its history intact.                                                *)
(***************************************************************************)
EXTENDS Refinement

VARIABLES
  exists,     \* whether anything is saved
  progress,   \* the saved progress record
  fork        \* whether it belongs to a continuation arm

durableVars == << exists, progress, fork >>

\* Labels owed once spent tokens are gone, or all of them when stopped.
Owed(s) ==
  IF s.status = "running"
  THEN {m \in 1 .. s.checkpoint_count : Boundary(s, m) <= s.output_tokens}
  ELSE 1 .. s.checkpoint_count

\* Each label newly frozen between old and new holds the latest solution
\* finished within its boundary; older ones are untouched.
FreezesLatest(old, new) ==
  LET before == old.solution_checkpoints
      after  == new.solution_checkpoints
  IN  /\ DOMAIN after = DOMAIN before \cup Owed(new)
      /\ \A m \in DOMAIN after :
           after[m] = IF m \in DOMAIN before THEN before[m]
                      ELSE IF new.solution <= Boundary(new, m)
                           THEN new.solution ELSE old.solution

\* Why new may have the status it has.
StatusEarned(new, minRounds) ==
  \/ /\ new.status = "running"
     /\ new.output_tokens < ActiveLimit(new)
  \/ /\ new.status = "exhausted"
     /\ new.pause_at_tokens = NoPause
     /\ new.output_tokens >= new.budget_tokens
  \/ /\ new.status = "paused"
     /\ new.output_tokens = new.pause_at_tokens
  \/ /\ new.status = "finished"
     /\ new.output_tokens <= ActiveLimit(new)
     /\ new.rounds >= minRounds /\ new.no_gap_critiques >= MinNoGap

SameAllowance(old, new) ==
  /\ new.budget_tokens = old.budget_tokens
  /\ new.pause_at_tokens = old.pause_at_tokens
  /\ new.checkpoint_count = old.checkpoint_count

\* One phase is committed whole: it cost tokens, and it either wrote one
\* solution, or added one critique, or was cut off and left neither.
Advances(old, new, minRounds) ==
  /\ old.status = "running"
  /\ SameAllowance(old, new)
  /\ new.output_tokens > old.output_tokens
  /\ \/ /\ old.phase # "critique" /\ new.phase = "critique"
        /\ new.solution = new.output_tokens
        /\ new.output_tokens <= ActiveLimit(old)
        /\ new.status # "finished"
        /\ new.rounds = old.rounds
        /\ new.no_gap_critiques = old.no_gap_critiques
     \/ /\ old.phase = "critique" /\ new.phase = "revise"
        /\ new.solution = old.solution
        /\ new.rounds = old.rounds + 1
        /\ new.no_gap_critiques \in {0, old.no_gap_critiques + 1}
     \/ /\ new.phase = old.phase
        /\ new.status = "exhausted"
        /\ new.solution = old.solution
        /\ new.rounds = old.rounds
        /\ new.no_gap_critiques = old.no_gap_critiques
  /\ StatusEarned(new, minRounds)

\* A prefix whose next phase did not fit stops where it was.
HaltsAtPause(old, new) ==
  /\ old.status = "running"
  /\ old.pause_at_tokens # NoPause
  /\ new.status = "paused"
  /\ new = [old EXCEPT
       !.status = "paused",
       !.solution_checkpoints = new.solution_checkpoints]

\* Stopped work gets tokens to spend; what it spent, wrote and froze stays,
\* and clean critiques are counted afresh.
Reopens(old, new, forked) ==
  /\ old.status # "running"
  /\ new = [old EXCEPT
       !.status           = "running",
       !.phase            = IF forked THEN new.phase ELSE @,
       !.warning_sent     = new.warning_sent,
       !.budget_tokens    = new.budget_tokens,
       !.pause_at_tokens  = NoPause,
       !.no_gap_critiques = 0,
       !.checkpoint_count = new.checkpoint_count]
  /\ new.budget_tokens > new.output_tokens
  /\ DOMAIN old.solution_checkpoints \subseteq 1 .. new.checkpoint_count - 1

-----------------------------------------------------------------------------
(* The specification.                                                      *)

DurableInit == ~exists /\ progress = NewProgress /\ fork = FALSE

Create == ~exists /\ exists' /\ UNCHANGED << progress, fork >>

CommitPhase ==
  /\ exists /\ UNCHANGED << exists, fork >>
  /\ Advances(progress, progress', IF fork THEN 0 ELSE MinRounds)
  /\ FreezesLatest(progress, progress')

Pause ==
  /\ exists /\ UNCHANGED << exists, fork >>
  /\ HaltsAtPause(progress, progress')
  /\ FreezesLatest(progress, progress')

Reopen ==
  /\ exists /\ exists'
  /\ fork' \in {fork, TRUE}
  /\ Reopens(progress, progress', fork')

DurableNext == Create \/ CommitPhase \/ Pause \/ Reopen

DurableSpec == DurableInit /\ [][DurableNext]_durableVars
=============================================================================
