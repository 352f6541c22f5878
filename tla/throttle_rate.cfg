\* The documented bandwidth.
CONSTANTS
  Rate = 2
  Hz = 2
  Sizes <- MCSizes
  MaxTime = 12
SPECIFICATION BucketSpec
INVARIANT RateHonoured
CHECK_DEADLOCK FALSE
