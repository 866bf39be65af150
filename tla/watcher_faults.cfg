SPECIFICATION FairSpec
CONSTANTS
  a = a
  b = b
  Commits <- TwoCommits
  NoCommit = NoCommit
  Partial = Partial
  Repos = {"one", "two"}
  Kind = "team"
  Triggers = {"timer", "sync", "retry"}
  BackoffCap = 2
  Faults = {"crash", "poll", "git", "check", "argo", "apply", "pending", "repoint"}
  MaxFaults = 3
  MaxPushes = 1
INVARIANT TypeOK
INVARIANT AppliedOnce
INVARIANT AppliedSucceeded
INVARIANT SyncedOrHeld
PROPERTY GateHeld
PROPERTY Decided
