------------------------------ MODULE MCReassess ------------------------------
EXTENDS Reassess, TLC

CONSTANTS w1, w2, nobody

Symmetric == Permutations({w1, w2})
===============================================================================
