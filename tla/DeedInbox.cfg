SPECIFICATION FairSpec
CONSTANTS
  Files = {f1, f2}
  MaxTime = 3
  MaxFaults = 2
  MaxCrashes = 1
INVARIANTS
  TypeOK
  BehindWatermarkWasHandedOver
PROPERTIES
  WatermarkPasses
  NewFileRescuesAll
CHECK_DEADLOCK FALSE
