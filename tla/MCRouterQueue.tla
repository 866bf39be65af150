---------------------------- MODULE MCRouterQueue ----------------------------
(* Small instances of RouterQueue for TLC. *)
EXTENDS RouterQueue

CONSTANTS e1, e2, e3

\* Two events of one key and one of another, so that chains interleave.
ThreeEvents == {e1, e2, e3}
TwoKeys == [e \in ThreeEvents |-> IF e = e3 THEN "k2" ELSE "k1"]

\* One event on its own.
OneEvent == {e1}
OwnKey == [e \in OneEvent |-> "k1"]
=============================================================================
