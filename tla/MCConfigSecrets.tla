--------------------------- MODULE MCConfigSecrets ---------------------------
\* Model values, symmetry and a bound for TLC.
EXTENDS ConfigSecrets, TLC

CONSTANTS u1, u2, s1, f1, f2, r1, r2, r3, t1, t2

Symmetry == Permutations(Callers) \cup Permutations(Fields) \cup Permutations(Texts)

OneEdit == \E u \in Callers : \A v \in Callers \ {u} : call[v].pc = "idle"
OneField ==
    \E f \in Fields : \A g \in Fields \ {f} :
        /\ \A u \in Callers : call[u].form[g] = None
        /\ \A s \in Sources : sources[s] # None => sources[s][g] = None

\* Edits that overlap are followed as long as they and the row use one field and a
\* reference is left, edits one after another with all fields and references.
Bound == OneEdit \/ (OneField /\ issued # Refs)
=============================================================================
