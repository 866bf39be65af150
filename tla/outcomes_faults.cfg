SPECIFICATION Spec
CONSTANTS
  p1 = p1
  p2 = p2
  p3 = p3
  p4 = p4
  p5 = p5
  i1 = i1
  i2 = i2
  i3 = i3
  s1 = s1
  Posts <- FivePosts
  EventId <- SomeIds
  Subject <- SomeSubjects
  NoId = NoId
  NoSubject = NoSubject
  SeenMax = 2
  Faults = {"crash", "redis", "expire"}
  MaxFaults = 2
INVARIANT OvercountPaid
INVARIANT UncountedExcused
INVARIANT DriftReported
CHECK_DEADLOCK FALSE
