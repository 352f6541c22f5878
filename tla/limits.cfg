\* Everything at once: three handlers race through the rate, the QPS windows and
\* the connection counters at the turn of a second.
CONSTANTS
  Conns = {c1, c2, c3}
  Keys <- MCKeys
  Requests <- MCRequests
  MaxConnsRate = 1
  Hz = 1
  MaxTime = 1
SPECIFICATION Spec
INVARIANTS TypeOK CountsExact LimitsRespected OvershootBounded QPSBounded
PROPERTY ImplementsPromise
SYMMETRY Symmetry
