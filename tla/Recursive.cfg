SPECIFICATION FairSpec
CONSTANTS
  Names = {na, nb}
  Types = {"A", "AAAA"}
  AskedNames = {na}
  AskedTypes = {"A"}
  DeniedNames = {nb}
  DeniedTypes = {"AAAA"}
  NSSets = {{na}, {nb}}
  Clients = {r1}
  MaxDepth = 2
  MaxIterations = 1
  MaxInflight = 2
  None = None
INVARIANTS ClaimsExact ChaseCovered
PROPERTY EveryClientReturns
