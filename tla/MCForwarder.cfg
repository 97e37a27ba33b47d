SPECIFICATION Spec
CONSTANTS
  na = na
  nb = nb
  Names <- MCNames
  Queries <- MCQueries
  Responses <- MCResponses
  Requests = {r1, r2}
  Calls = {c1, c2}
  None = None
  Failed = Failed
  CacheCap = 1
  MaxInflight = 2
  AllowNoRD = FALSE
  MinTTL = 0
  MaxTTL = 3
  MaxNegTTL = 1
  MaxClock = 1
SYMMETRY Symmetry
INVARIANTS OneExchangePerQuestion SlotsAccounted AnswersItsQuestion CacheConsistent
PROPERTY CoalescesUpstream
