----------------------------- MODULE ServedTree -----------------------------
(***************************************************************************)
(* What the tracked-workspace refresh promises a reader of the workspace   *)
(* (workspace-sync.sh:18-33): the tree only ever moves to a commit its     *)
(* declared branch has had as its tip, within a branch only forward, and   *)
(* it goes away only when the workspace stops tracking a branch.           *)
(***************************************************************************)
CONSTANTS Commits, NoCommit, Branches, NoBranch, Ancestors

VARIABLES
  tips,      \* [branch -> the commits it has had as its tip]
  declared,  \* the branch the binding tracks, or NoBranch: it is pinned
  tree,      \* the commit a tracked reader sees, or NoCommit
  branch,    \* the branch that tree came from
  recorded   \* is it written down which branch that is

vars == <<tips, declared, tree, branch, recorded>>

Init ==
  /\ tips \in [Branches -> SUBSET Commits] /\ declared \in Branches \cup {NoBranch}
  /\ tree = NoCommit /\ branch = NoBranch /\ recorded = TRUE

Announce(b, c) ==
  /\ tips' = [tips EXCEPT ![b] = @ \cup {c}]
  /\ UNCHANGED <<declared, tree, branch, recorded>>

Declare(b) == declared' = b /\ UNCHANGED <<tips, tree, branch, recorded>>

\* Forward, or to another branch; a record that a crash cut off is forgiven.
Follow(c) ==
  /\ declared \in Branches /\ c \in tips[declared]
  /\ tree = NoCommit \/ branch # declared \/ <<tree, c>> \in Ancestors \/ ~recorded
  /\ tree' = c /\ branch' = declared /\ recorded' \in BOOLEAN
  /\ UNCHANGED <<tips, declared>>

Unbind ==
  /\ declared = NoBranch /\ tree' = NoCommit /\ branch' = NoBranch
  /\ recorded' = TRUE /\ UNCHANGED <<tips, declared>>

Next ==
  \/ \E b \in Branches, c \in Commits : Announce(b, c)
  \/ \E b \in Branches \cup {NoBranch} : Declare(b)
  \/ \E c \in Commits : Follow(c)
  \/ Unbind

Spec == Init /\ [][Next]_vars
=============================================================================
