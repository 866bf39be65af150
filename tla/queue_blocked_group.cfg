SPECIFICATION FairSpec
CONSTANTS
  e1 = e1
  e2 = e2
  e3 = e3
  Events <- OneEvent
  OrderingKey <- OwnKey
  Routers = {"r1"}
  Ordering = "block"
  MaxAttempts = 1
  Count = 1
  MinIdle = 1
  Faults = {}
  MaxFaults = 0
  MaxReplays = 0
PROPERTY BlockedGroupRetried
