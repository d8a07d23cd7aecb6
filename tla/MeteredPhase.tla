---------------------------- MODULE MeteredPhase ----------------------------
(***************************************************************************)
(* What the phase loop is promised of the phases it runs, with no SDK,     *)
(* messages, inputs or ledger: a phase that begins has allowance left, its *)
(* usage only grows, it ends in one way, and it is saved at what it spent  *)
(* or taken back to what was saved.  A reply that completes it cost        *)
(* something, and nothing is cut off before the limit was reported.        *)
(***************************************************************************)
EXTENDS Naturals

CONSTANT Limit

VARIABLES
  state,  \* of the phase: ready, open, how it ended, or stopped for good
  spent,  \* tokens counted so far
  kept    \* tokens of the checkpoint

phaseVars == <<state, spent, kept>>

PhaseInit == state = "ready" /\ spent = 0 /\ kept = 0

Begin == /\ state = "ready" /\ kept < Limit
         /\ state' = "open"
         /\ UNCHANGED <<spent, kept>>

Count == state = "open" /\ spent' \in Nat /\ spent' >= spent /\ UNCHANGED kept

Usage == Count /\ UNCHANGED state

Complete == Count /\ state' = "completed" /\ spent' > kept

CutOff == Count /\ state' = "interrupted" /\ spent >= Limit

Fail == Count /\ state' = "failed"

Save == /\ state \in {"completed", "interrupted"}
        /\ kept' = spent /\ spent > kept
        /\ state' \in {"ready", "stopped"}
        /\ state' = "ready" => spent < Limit
        /\ UNCHANGED spent

TakeBack == /\ state = "failed"
            /\ state' = "ready" /\ spent' = kept
            /\ UNCHANGED kept

PhaseNext == Begin \/ Usage \/ Complete \/ CutOff \/ Fail \/ Save \/ TakeBack

PhaseSpec == PhaseInit /\ [][PhaseNext]_phaseVars
=============================================================================
