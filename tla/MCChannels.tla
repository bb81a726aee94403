----------------------------- MODULE MCChannels -----------------------------
\* Model values and symmetry for TLC.
EXTENDS Channels, TLC

CONSTANTS u1, u2, c1, c2, a1, r1, r2, r3, token

Symmetry == Permutations(Callers) \cup Permutations(Chans)
=============================================================================
