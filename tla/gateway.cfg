\* Every path of two handlers, all configurations.
CONSTANTS
  Conns = {c1, c2}
  Claims <- FewClaims
  NoLimits <- MCNoLimits
  Clients <- MCClients
  Configs <- MCConfigs
SPECIFICATION Spec
INVARIANTS TypeOK Accounted NothingLeftBehind OutgoingWithinLimits
PROPERTIES Answered SlotFreed
