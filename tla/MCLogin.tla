------------------------------ MODULE MCLogin -------------------------------
(* Small instances of Login for TLC.                                       *)
EXTENDS Login, TLC

CONSTANTS i1, i2, p1, p2, p3, e1, e2

TwoOne == (p1 :> i1) @@ (p2 :> i1) @@ (p3 :> i2)

\* p1 and p2 are on one instance.
Swap == {(p1 :> p2) @@ (p2 :> p1)}

Client(n, u, e) == [provider |-> n, unverified |-> u, userinfo |-> e, revocation |-> e]
Mode(s, r, q, o, v, c) ==
    [session |-> s, register |-> r, query |-> q, pass |-> o, verifier |-> v, client |-> c]

\* The stateless proxy; our own users table with OIDC; the users table of another
\* program with GitHub, the provider's tokens passed on; a wrong PKCE verifier.
Deployments ==
    {Mode(FALSE, FALSE, TRUE, FALSE, TRUE, Client("generic", FALSE, FALSE)),
     Mode(TRUE, TRUE, TRUE, FALSE, TRUE, Client("oidc", FALSE, TRUE)),
     Mode(TRUE, FALSE, TRUE, TRUE, TRUE, Client("github", FALSE, FALSE)),
     Mode(TRUE, TRUE, TRUE, FALSE, FALSE, Client("google", FALSE, FALSE))}

\* A bound: a crash, a lost lock or a failing flight is not combined with failures
\* of the calls that the exchange makes.
OneKindOfFailure == faults = 0 \/ ~broken
=============================================================================
