---------------------------- MODULE MCPushIngest ----------------------------
\* Model values, batches and symmetry for TLC.
EXTENDS PushIngest, TLC

CONSTANTS h1, h2, h3, k1, k2, r1, r2

\* The second batch sends a record of the first again.
Overlapping == (k1 :> <<r1, r2>>) @@ (k2 :> <<r2>>)
Symmetry == Permutations(Handlers)
=============================================================================
