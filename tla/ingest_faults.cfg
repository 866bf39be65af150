SPECIFICATION Spec
CONSTANTS
  q1 = q1
  q2 = q2
  q3 = q3
  d1 = d1
  d2 = d2
  Requests <- ThreeRequests
  Delivery <- OneTwice
  NEdges = 3
  Mode <- EveryMode
  SeenMax = 1
  Faults = {"crash", "redis", "unreachable"}
  MaxFaults = 2
INVARIANT AcceptedEverywhere
INVARIANT GuardedOnce
INVARIANT EdgesKept
INVARIANT ReplayWasAdmitted
CHECK_DEADLOCK FALSE
