----------------------------- MODULE MCSessions -----------------------------
(* Small instances of Sessions for TLC.                                    *)
EXTENDS Sessions, TLC

CONSTANTS d1, d2, u1, u2, i1, i2, p1, p2, p3

TwoHomes == (p1 :> i1) @@ (p2 :> i1) @@ (p3 :> i2)
OneHome == (p1 :> i1) @@ (p2 :> i1)
OneEach == (p1 :> i1) @@ (p2 :> i2)

\* p1 and p2 are interchangeable under TwoHomes and OneHome.
Swap == {(p1 :> p2) @@ (p2 :> p1)}
UserSwap == Permutations({u1, u2})
=============================================================================
