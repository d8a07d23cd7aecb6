---------------------------- MODULE SupervisedRun ----------------------------
(***************************************************************************)
(* What a run is promised of the connections it talks over, with no tasks, *)
(* pipes or processes: one line at a time, of which it takes, in order,    *)
(* only what came over that line; how the talk ended decides whether the   *)
(* next phase follows, the same one is tried again, or the run is over;    *)
(* and nothing that happens while it hangs up changes that, except a       *)
(* cancellation, which decides for good.                                   *)
(***************************************************************************)
EXTENDS Naturals, Sequences

CONSTANTS MaxPhases, MaxRetries

VARIABLES
  stage,    \* of the run: ready, talking, hanging up, waiting, or over
  outcome,  \* what went wrong, or none
  phases, retries,
  lines,    \* opened so far
  line,     \* the one in use, or 0
  inbox     \* what came over it and was not taken

runVars == <<stage, outcome, phases, retries, lines, line, inbox>>

Failures == {"transport", "fatal", "spend", "cancelled"}
Arrivals == {"message", "end", "transport", "fatal", "spend"}

RunInit ==
    /\ stage = "ready" /\ outcome = "none" /\ phases = 0 /\ retries = 0
    /\ lines = 0 /\ line = 0 /\ inbox = <<>>

Open ==
    /\ stage = "ready"
    /\ stage' = "talking"
    /\ lines' = lines + 1 /\ line' = lines + 1 /\ inbox' = <<>>
    /\ UNCHANGED <<outcome, phases, retries>>

Arrive ==
    /\ stage \in {"talking", "hanging_up"}
    /\ Len(inbox') >= Len(inbox)
    /\ \A i \in 1 .. Len(inbox') :
          IF i <= Len(inbox) THEN inbox'[i] = inbox[i]
          ELSE inbox'[i].kind \in Arrivals /\ inbox'[i].of = line
    /\ UNCHANGED <<stage, outcome, phases, retries, lines, line>>

\* What the arrival says of the talk: nothing yet, its end, or an error.
Verdict(kind) == IF kind = "message" THEN "none"
                 ELSE IF kind = "end" THEN "transport" ELSE kind

Take ==
    /\ stage = "talking" /\ inbox # <<>>
    /\ inbox' = Tail(inbox)
    /\ outcome' = Verdict(Head(inbox).kind)
    /\ stage' \in {"talking", "hanging_up"}
    /\ outcome' # "none" => stage' = "hanging_up"
    /\ UNCHANGED <<phases, retries, lines, line>>

BreakOff ==
    /\ stage = "talking"
    /\ stage' = "hanging_up" /\ outcome' \in Failures
    /\ UNCHANGED <<phases, retries, lines, line, inbox>>

GoWrong ==
    /\ stage = "hanging_up"
    /\ outcome' \in Failures
    /\ outcome = "none" \/ outcome' = "cancelled"
    /\ UNCHANGED <<stage, phases, retries, lines, line, inbox>>

HangUp ==
    /\ stage = "hanging_up"
    /\ line' = 0
    /\ \/ /\ outcome = "none"
          /\ phases' = phases + 1 /\ retries' = 0
          /\ stage' = IF phases' < MaxPhases THEN "ready" ELSE "over"
          /\ UNCHANGED outcome
       \/ /\ outcome = "transport" /\ retries < MaxRetries
          /\ stage' = "waiting" /\ outcome' = "none"
          /\ UNCHANGED <<phases, retries>>
       \/ /\ outcome # "none" /\ ~(outcome = "transport" /\ retries < MaxRetries)
          /\ stage' = "over"
          /\ UNCHANGED <<outcome, phases, retries>>
    /\ UNCHANGED <<lines, inbox>>

TryAgain ==
    /\ stage = "waiting"
    /\ stage' = "ready" /\ retries' = retries + 1
    /\ UNCHANGED <<outcome, phases, lines, line, inbox>>

GiveUp ==
    /\ stage = "waiting"
    /\ stage' = "over" /\ outcome' = "cancelled"
    /\ UNCHANGED <<phases, retries, lines, line, inbox>>

RunNext == Open \/ Arrive \/ Take \/ BreakOff \/ GoWrong \/ HangUp \/ TryAgain \/ GiveUp

RunSpec == RunInit /\ [][RunNext]_runVars
=============================================================================
