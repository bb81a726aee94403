------------------------------ MODULE MCStream ------------------------------
\* Model values for TLC.
EXTENDS Stream, TLC

CONSTANTS s1, s2, p1, p2
=============================================================================
