-------------------------- MODULE MCSkillsInstall --------------------------
(* Two skills; a first review, one that updates s1 and drops s2.           *)
EXTENDS SkillsInstall

First  == [n \in {"s1", "s2"} |-> "v1"]
Second == [n \in {"s1", "s2"} |-> IF n = "s1" THEN "v2" ELSE "absent"]

TwoReviews == {First, Second}

Some == [approve |-> 3, edit |-> 2, fault |-> 3]
=============================================================================
