-------------------------- MODULE MCBusinessOutcomes --------------------------
(* A small instance of BusinessOutcomes for TLC. *)
EXTENDS BusinessOutcomes, TLC

CONSTANTS p1, p2, p3, p4, p5, i1, i2, i3, s1

FivePosts == {p1, p2, p3, p4, p5}

\* An outcome sent twice, another id of its subject, an id without a subject,
\* and a post without an id.
SomeIds == (p1 :> i1) @@ (p2 :> i1) @@ (p3 :> i2) @@ (p4 :> i3) @@ (p5 :> NoId)
SomeSubjects ==
  (p1 :> s1) @@ (p2 :> s1) @@ (p3 :> s1) @@ (p4 :> NoSubject) @@ (p5 :> s1)
=============================================================================
