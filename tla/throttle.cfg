\* Writes below, at and above the burst of 4 bytes over twelve ticks.
CONSTANTS
  Rate = 2
  Hz = 2
  Sizes <- MCSizes
  MaxTime = 12
SPECIFICATION BucketSpec
INVARIANTS BucketOK WithinTwiceRate
CHECK_DEADLOCK FALSE
