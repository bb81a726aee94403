------------------------- MODULE MCSourceLifecycle -------------------------
(* Instances of SourceLifecycle for TLC.                                    *)
EXTENDS SourceLifecycle, TLC

CONSTANTS s1, s2, c1, c2, j1, j2, cfgA, cfgB

\* Callers and pull loops are interchangeable: no definition chooses among them.
Symmetry == Permutations(Callers) \cup Permutations(Jobs)

\* Bound: one source is ever created, any of Sources. Operations on different sources
\* share no state but the number of callers and loops.
OneSource == \A s, t \in Sources : life[s] # "fresh" /\ life[t] # "fresh" => s = t
=============================================================================
