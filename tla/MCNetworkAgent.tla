---------------------------- MODULE MCNetworkAgent ----------------------------
EXTENDS NetworkAgent, TLC

CONSTANTS apply, again, remove

\* Two attempts of one apply operation and a removal of the realm.
MCEffect == (apply :> "plan") @@ (again :> "plan") @@ (remove :> "none")
MCRank == (apply :> 1) @@ (again :> 1) @@ (remove :> 2)
MCHeld == ("plan" :> 1) @@ ("partial" :> 1) @@ ("none" :> 0)
MCIdentity == (apply :> "apply") @@ (again :> "apply") @@ (remove :> "remove")

\* The two attempts are interchangeable.
AttemptSymmetry == Permutations({apply, again})
=============================================================================
