---------------------------- MODULE MCRouterIngest ----------------------------
(* A small instance of RouterIngest for TLC. *)
EXTENDS RouterIngest, TLC

CONSTANTS q1, q2, q3, d1, d2

ThreeRequests == {q1, q2, q3}

\* A delivery that comes twice, and another one.
OneTwice == (q1 :> d1) @@ (q2 :> d1) @@ (q3 :> d2)

EveryMode == <<"queued", "filtered", "direct">>
=============================================================================
