----------------------------- MODULE MCRealmWork -----------------------------
EXTENDS RealmWork, TLC

CONSTANTS k1, k2

\* The controllers are interchangeable.
ControllerSymmetry == Permutations(Controllers)
=============================================================================
