SPECIFICATION Spec
CONSTANTS
  e1 = e1
  e2 = e2
  e3 = e3
  Events <- ThreeEvents
  OrderingKey <- TwoKeys
  Routers = {"r1"}
  Ordering = "block"
  MaxAttempts = 2
  Count = 2
  MinIdle = 1
  Faults = {"crash", "redis", "hang", "response", "expire"}
  MaxFaults = 1
  MaxReplays = 0
INVARIANT AtMostOncePerFault
INVARIANT FifoUnlessFault
INVARIANT SerialChains
