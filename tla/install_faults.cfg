SPECIFICATION FairSpec
CONSTANTS
  a = a
  b = b
  c = c
  k = k
  l = l
  Commits <- ThreeCommits
  Credentials <- TwoSecrets
  NoCredentials = NoCredentials
  FirstCredentials = k
  NoCommit = NoCommit
  AgentInputs <- Inputs3
  Ancestors <- Line
  Locked = FALSE
  DeleteMerged = TRUE
  Faults = {"crash", "preflight", "probe", "apply", "review", "moved", "reply"}
  Budget <- Some
INVARIANT CompleteInstalled
INVARIANT AcceptedOnce
PROPERTY ContentRollsNothing
PROPERTY EventuallyInstalled
