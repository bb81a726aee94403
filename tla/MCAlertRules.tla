---------------------------- MODULE MCAlertRules ----------------------------
\* Model values, symmetry and a bound for TLC.
EXTENDS AlertRules, TLC

CONSTANTS e1, e2, a1, x1, x2, lo, hi

AboveLimit == {{hi}}
Symmetry == Permutations(Evaluators) \cup Permutations(AlertIds)

\* The rules are created in order. With one of them, evaluations, its updates and its
\* deletion overlap; with both, evaluations come one after another and meet no
\* administrator, no two have met, and an alert is left to open.
Created(r) == rules[r].life # "fresh"
OneAtATime ==
    /\ \A e, f \in Evaluators : eval[e].pc # "idle" /\ eval[f].pc # "idle" => e = f
    /\ \A a \in Admins : edit[a].stage = "idle"
    /\ overlapped = {}
    /\ \E a \in AlertIds : alerts[a].state = "unused"
Bound == \A r, q \in Rules : r < q /\ Created(q) => Created(r) /\ OneAtATime
=============================================================================
