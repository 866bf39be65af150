-------------------------- MODULE MCWorkspaceSync --------------------------
(* Model values for WorkspaceSync: one history, two branches that may *)
(* also go back on it.                                                      *)
EXTENDS WorkspaceSync

CONSTANTS a, b, c, main, dev

ThreeCommits == {a, b, c}
TwoBranches  == {main, dev}

\* a, then b, then c.
Line == {<<x, x>> : x \in ThreeCommits} \cup {<<a, b>>, <<a, c>>, <<b, c>>}

OnMain(access) == [branch |-> main, sha |-> NoCommit, access |-> access]
OnDev          == [branch |-> dev, sha |-> NoCommit, access |-> "read-write"]
Pinned         == [branch |-> NoBranch, sha |-> a, access |-> "read-only"]

Declared == {OnMain("read-write"), OnMain("read-only"), OnDev, Pinned}

Tips == main :> a @@ dev :> c

Some == [push |-> 2, edit |-> 1, restart |-> 1, fault |-> 1]
=============================================================================
