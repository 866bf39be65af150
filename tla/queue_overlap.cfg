SPECIFICATION Spec
CONSTANTS
  e1 = e1
  e2 = e2
  e3 = e3
  Events <- OneEvent
  OrderingKey <- OwnKey
  Routers = {"r1", "r2"}
  Ordering = "none"
  MaxAttempts = 1
  Count = 1
  MinIdle = 1
  Faults = {"crash", "redis", "response"}
  MaxFaults = 2
  MaxReplays = 0
INVARIANT NoEventLost
PROPERTY ImplementsLifecycle
