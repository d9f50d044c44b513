---------------------------- MODULE MCPlacement ----------------------------
EXTENDS Placement, TLC

CONSTANTS s1, s2, r1, r2, r3, p1, p2, b0, b1, b2

Kind(canonical, body) == [canonical |-> canonical, body |-> body]

\* Two requests with one key, each canonical with one of two bodies or of the older
\* calls, and one for another server.
ServerOfValues == r1 :> s1 @@ r2 :> s1 @@ r3 :> s2
MixedKinds ==
    [r \in Requests |->
        IF r = r3 THEN {Kind(TRUE, b0)} ELSE {Kind(TRUE, b1), Kind(TRUE, b2), Kind(FALSE, b0)}]

\* Two equal requests of the older calls with one key.
TwoRequests == r1 :> s1 @@ r2 :> s1
Older == [r \in Requests |-> {Kind(FALSE, b1)}]

SizeValues == s1 :> 1 @@ s2 :> 1

\* Requests that are alike are interchangeable, and so are the providers and the
\* two canonical bodies.
RequestSymmetry ==
    Permutations({r1, r2}) \cup Permutations(Providers) \cup Permutations({b1, b2})
=============================================================================
