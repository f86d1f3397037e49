----------------------------- MODULE MCLimiter -----------------------------
\* Values of the constants of Limiter for TLC: four threads, a cap of two to
\* three slots.
EXTENDS Limiter

CONSTANTS w1, w2, w3, w4

\* setCeiling allows less than the floor, or exactly that.
MCCeilings == {1, 2}
=============================================================================
