SPECIFICATION FairSpec
CONSTANTS
  Skills = {"s1", "s2"}
  Reviews <- TwoReviews
  NoReview = NoReview
  Absent = "absent"
  Edited = "edited"
  Torn = Torn
  Faults = {"crash", "io"}
  Budget <- Some
PROPERTY ImplementsAtomicInstall
PROPERTY EditsKept
PROPERTY EventuallyInstalled
CHECK_DEADLOCK FALSE
