\* QPS windows when a handler is descheduled between its clock reading and the lock.
CONSTANTS
  Conns = {c1, c2, c3}
  Keys <- MCKeys
  Requests <- QPSRequests
  MaxConnsRate = 0
  Hz = 1
  MaxTime = 2
SPECIFICATION Spec
INVARIANT QPSHonoured
