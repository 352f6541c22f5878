\* Two racing callers, every kind of answer, over four ticks.
CONSTANTS
  Callers = {c1, c2}
  Responses <- MCResponses
  TTL = 2
  FailTTL = 1
  Timeout = 1
  MaxTime = 4
SPECIFICATION Spec
INVARIANT TypeOK
PROPERTY Fresh
SYMMETRY Symmetry
