--------------------------- MODULE MCTeamInstall ---------------------------
(* Model values for TeamInstall: b changes only content, c changes agents.  *)
EXTENDS TeamInstall

CONSTANTS a, b, c, k, l

ThreeCommits == {a, b, c}
TwoSecrets   == {k, l}
Inputs3      == [x \in ThreeCommits |-> IF x = c THEN 2 ELSE 1]
Line         == {<<a, a>>, <<b, b>>, <<c, c>>, <<a, b>>, <<b, c>>, <<a, c>>}

Some    == [release |-> 1, byhand |-> 1, drift |-> 1, fault |-> 1]
=============================================================================
