----------------------------- MODULE MCSelfRefine -----------------------------
(***************************************************************************)
(* Statements of the repository about one seed that the code does not keep *)
(* in every case.  Each is checked alone, by a run that TLC must refute.   *)
(***************************************************************************)
EXTENDS SelfRefine

\* self_refine.py:119, _capture_solution_checkpoints: "Freeze the last complete
\* solution at crossed budgets; the final label uses the branch allowance", so
\* a stopped attempt, whose labels are captured through that allowance, has
\* its final label.  Reopening with several blocks can leave labels whose
\* multiple of the block lies above the new allowance.
FinalLabelReached ==
  published /\ Saved.status # "running" =>
    Saved.checkpoint_count \in DOMAIN Saved.solution_checkpoints

\* session_manager.py:65, open: "Lock this seed and restore progress or
\* initialize its first checkpoint": a seed nobody holds can be opened.
\* A kill between creating the runtime and publishing the first archive leaves
\* a directory that every later open refuses.
SeedCanBeOpened ==
  pc = "idle" => published \/ (~runtime /\ DOMAIN exports = {})
=============================================================================
