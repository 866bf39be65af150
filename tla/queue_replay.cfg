SPECIFICATION FairSpec
CONSTANTS
  e1 = e1
  e2 = e2
  e3 = e3
  Events <- OneEvent
  OrderingKey <- OwnKey
  Routers = {"r1"}
  Ordering = "dead-letter-and-continue"
  MaxAttempts = 1
  Count = 1
  MinIdle = 1
  Faults = {"crash", "redis", "response"}
  MaxFaults = 1
  MaxReplays = 1
INVARIANT Custody
PROPERTY EventuallySettled
PROPERTY ImplementsLiveLifecycle
