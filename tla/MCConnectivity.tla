---------------------------- MODULE MCConnectivity ----------------------------
\* Model values and symmetry for TLC.
EXTENDS Connectivity, TLC

CONSTANTS pull, push, a1, a2
Symmetry == Permutations(AlertIds)
=============================================================================
