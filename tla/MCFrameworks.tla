----------------------------- MODULE MCFrameworks -----------------------------
(* One dataset with every audit of two seeds, up to their order, beside one    *)
(* whose audit is complete and gives the priors something to share.            *)
EXTENDS Frameworks, TLC

CONSTANTS a, b, p, q

Shorts == <<"missing", "fail", "pass">>

Oracles == <<<<"missing", "missing">>, <<"pass", "missing">>, <<"fail", "fail">>,
             <<"fail", "pass">>, <<"pass", "fail">>, <<"pass", "pass">>>>

Audit(s1, s2, o1, o2) == [short |-> <<Shorts[s1], Shorts[s2]>>, oracle |-> <<Oracles[o1], Oracles[o2]>>]

Audits == UNION {{Audit(s1, s2, o1, o2) : s2 \in s1 .. 3, o2 \in o1 .. 6} : s1 \in 1 .. 3, o1 \in 1 .. 6}

Complete == Audit(2, 3, 3, 5)
Nothing == Audit(1, 1, 1, 1)

Export(audit, other) == [d \in {a, b} |-> IF d = a THEN audit ELSE other]

MCExports == {Export(audit, Complete) : audit \in Audits}
                \cup {Export(Audit(2, 3, o, 5), Nothing) : o \in {1, 4}}

\* A single run with any audits, and two that meet while one is compiled.
MCStarts ==
    {[export |-> e, runs |-> 1, compiles |-> 0] : e \in MCExports}
        \cup {[export |-> Export(Audit(2, 3, 1, 5), Nothing), runs |-> 2, compiles |-> 1]}

MCBetaPriors == {[a |-> 2, b |-> 1]}

Symmetric == Permutations({p, q})

=============================================================================
