----------------------------- MODULE JudgedTexts -----------------------------
(***************************************************************************)
(* What the audits of an experiment promise about its verdicts, with no    *)
(* launchers, locks, containers, retries or crashes: the solutions of a    *)
(* seed are judged in order, correctness before step recognition, each     *)
(* text once in each stage and by one judge, whose verdict every           *)
(* checkpoint with that text then has, for good.                           *)
(***************************************************************************)
EXTENDS Naturals

CONSTANTS Judges, None,
          Solutions,  \* of each seed: the text at each checkpoint, in order
          Blank       \* the text of a checkpoint without a solution

VARIABLE verdict      \* of each seed, checkpoint with a solution, and stage

Stages == {"correctness", "step_recognition"}
Solved(s) == {i \in DOMAIN Solutions[s] : Solutions[s][i] # Blank}

JudgedInit ==
    verdict = [s \in DOMAIN Solutions |-> [i \in Solved(s) |-> [stage \in Stages |-> None]]]

\* Checkpoint i has no verdict of the stage, and all that comes before has one.
IsNext(s, i, stage) ==
    /\ verdict[s][i][stage] = None
    /\ stage = "step_recognition" => verdict[s][i]["correctness"] # None
    /\ \A j \in Solved(s) : j < i => \A before \in Stages : verdict[s][j][before] # None

GiveVerdict(s, i, stage, judge) ==
    /\ IsNext(s, i, stage)
    /\ LET text == Solutions[s][i]
           given == [text |-> text, kind |-> stage, by |-> judge, judge |-> judge]
       IN verdict' = [verdict EXCEPT ![s] = [j \in Solved(s) |-> [other \in Stages |->
              IF Solutions[s][j] = text /\ other = stage THEN given ELSE verdict[s][j][other]]]]

JudgedNext ==
    \E s \in DOMAIN Solutions : \E i \in Solved(s), stage \in Stages, judge \in Judges :
        GiveVerdict(s, i, stage, judge)

JudgedSpec == JudgedInit /\ [][JudgedNext]_verdict
=============================================================================
