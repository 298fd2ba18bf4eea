SPECIFICATION FairSpec
CONSTANTS
  None = None
  p1 = p1
  p2 = p2
  i1 = i1
  i2 = i2
  Procs = {p1, p2}
  Intents = {i1, i2}
  MaxSetups = 1
  MaxCrashes = 2
INVARIANTS
  ThreeStates
CHECK_DEADLOCK FALSE
PROPERTIES
  RetiredOnlyWhenProven
  PromotionEnds
