SPECIFICATION FairSpec
CONSTANTS
  Debounce = 2
  MaxGap = 58
  EStopWrap = 61
  HalfPeriod = 3
  Periods = {4, 6, 8}
  Early = 1
  Parts = 6
INVARIANTS
  TypeOK
  GapIsBounded
  PromotedInTime
PROPERTIES
  PromotedOnlyWhenSteady
  LevelsSeen
  ResetNeedsSlowPass
