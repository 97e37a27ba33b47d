SPECIFICATION FairSpec
CONSTANTS
  na = na
  nb = nb
  Names <- MCNames
  Queries <- MCGated
  Responses <- MCNegative
  Requests = {r1, r2}
  Calls = {c1, c2}
  None = None
  Failed = Failed
  CacheCap = 1
  MaxInflight = 1
  AllowNoRD = FALSE
  MinTTL = 0
  MaxTTL = 3
  MaxNegTTL = 1
  MaxClock = 0
PROPERTIES EveryQueryReturns ShutdownCompletes
