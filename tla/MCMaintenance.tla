---------------------------- MODULE MCMaintenance ----------------------------
\* Model values and symmetry for TLC.
EXTENDS Maintenance, TLC

CONSTANTS m1, m2, m3

Symmetry == Permutations(Samples)
=============================================================================
