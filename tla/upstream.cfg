\* Every kind of call and of parent; up to two bytes of the tunnel come early.
CONSTANTS
  Tasks <- MCTasks
  Replies <- MCReplies
  Tunnel = 2
SPECIFICATION Spec
INVARIANTS TypeOK TunnelIntact SuccessIsMeant Survives
PROPERTY KeepsContract
\* A call ends.
CHECK_DEADLOCK FALSE
