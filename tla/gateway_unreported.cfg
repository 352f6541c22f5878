\* Traffic reports of admitted connections.
CONSTANTS
  Conns = {c1}
  Claims <- FewClaims
  NoLimits <- MCNoLimits
  Clients <- MCClients
  Configs <- OneConfig
SPECIFICATION Spec
INVARIANT AdmittedReported
