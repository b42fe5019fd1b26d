--------------------------- MODULE MCDeviceStore ---------------------------
(* Small instances of DeviceStore for TLC.                                 *)
EXTENDS DeviceStore, TLC

CONSTANTS d1, d2, u1, u2, i1, p1, p2

\* Calls on one instance share a singleflight group.
OneHome == (p1 :> i1) @@ (p2 :> i1)

\* Under OneHome the calls are interchangeable, and devices and users always are.
Shuffle == Permutations({p1, p2}) \cup Permutations({d1, d2}) \cup Permutations({u1, u2})

\* Bound: one account, the owner of every device; the second address is the one
\* ChangeEmail gives it, and calls name it only from then on.
OneAccount ==
    /\ \A u, v \in users : u = v
    /\ \A u \in users, d \in issued : owner[d] = u
    /\ \A p \in Proc : user[p] \in users \cup {None} \/ faults > 0
=============================================================================
