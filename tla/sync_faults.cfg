SPECIFICATION FairSpec
CONSTANTS
  a = a
  b = b
  c = c
  main = main
  dev = dev
  Commits <- ThreeCommits
  NoCommit = NoCommit
  Branches <- TwoBranches
  NoBranch = NoBranch
  Ancestors <- Line
  Start <- Tips
  Bindings <- Declared
  Keep = 2
  MaxFailures = 1
  Faults = {"crash", "fetch", "clone", "link", "record", "stamp"}
  Budget <- Some
INVARIANT ServedWhole
INVARIANT StampHonest
INVARIANT SuccessComplete
INVARIANT RevisionsBounded
PROPERTY ServedAsCommitted
PROPERTY ImplementsServedTree
PROPERTY EventuallyServed
PROPERTY NeverQuiet
CHECK_DEADLOCK FALSE
