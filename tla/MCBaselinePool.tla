--------------------------- MODULE MCBaselinePool ---------------------------
EXTENDS BaselinePool, TLC

CONSTANTS w1, w2, s1, s2, c1, c2, t1, t2
=============================================================================
