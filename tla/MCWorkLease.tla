---------------------------- MODULE MCWorkLease ----------------------------
EXTENDS WorkLease, TLC

SessionSymmetry == Permutations(Sessions)
=============================================================================
