------------------------------ MODULE MCFlight ------------------------------
(* Small instances of Flight for TLC.                                      *)
EXTENDS Flight, TLC

CONSTANTS i1, i2, p1, p2, p3

TwoOne == (p1 :> i1) @@ (p2 :> i1) @@ (p3 :> i2)
=============================================================================
