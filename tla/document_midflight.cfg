SPECIFICATION FairSpec
CONSTANTS
  Tabs = {"t1", "t2"}
  Opening = {"t2"}
  Undone = {"t1"}
  Budget <- Some
INVARIANT SavingIsUnderWay
CHECK_DEADLOCK FALSE
