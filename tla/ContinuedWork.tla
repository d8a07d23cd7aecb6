--------------------------- MODULE ContinuedWork ---------------------------
(***************************************************************************)
(* What a continuation experiment promises about its saved work, with no   *)
(* launchers, locks, containers or failures: one prefix is begun and runs  *)
(* to its stop phase by phase, each arm is forked from it once it has      *)
(* stopped, and every arm runs from there to a stop of its own.            *)
(***************************************************************************)
EXTENDS Naturals

CONSTANTS Arms, Prefix

VARIABLES
  work,  \* of the prefix and of each arm: how far its saved work has come
  base   \* the prefix an arm was forked from

workVars == <<work, base>>

Nothing == [status |-> "absent", phases |-> 0]
Begun == [status |-> "running", phases |-> 0]

WorkInit == /\ work = [s \in Arms \cup {Prefix} |-> Nothing]
            /\ base = [a \in Arms |-> Nothing]

BeginPrefix ==
    /\ work[Prefix] = Nothing
    /\ work' = [work EXCEPT ![Prefix] = Begun]
    /\ UNCHANGED base

\* Nobody begins an arm but by a fork of the stopped prefix.
ForkArm(a) ==
    /\ work[Prefix].status = "stopped"
    /\ work[a] = Nothing
    /\ work' = [work EXCEPT ![a] = Begun]
    /\ base' = [base EXCEPT ![a] = work[Prefix]]

\* One phase more, on top of all the phases before.
SavePhase(s) ==
    /\ work[s].status = "running"
    /\ \E status \in {"running", "stopped"} :
          work' = [work EXCEPT ![s] = [status |-> status, phases |-> @.phases + 1]]
    /\ UNCHANGED base

WorkNext ==
    \/ BeginPrefix
    \/ \E a \in Arms : ForkArm(a)
    \/ \E s \in Arms \cup {Prefix} : SavePhase(s)

WorkSpec == WorkInit /\ [][WorkNext]_workVars
=============================================================================
