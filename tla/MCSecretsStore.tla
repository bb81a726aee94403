--------------------------- MODULE MCSecretsStore ---------------------------
\* Model values and symmetry for TLC.
EXTENDS SecretsStore, TLC

CONSTANTS w1, w2, w3, ref, token, password

Symmetry == Permutations(Writers)
=============================================================================
