SPECIFICATION MCSpec
CONSTANTS
  Conns = {c1, c2, c3}
  Sources = {s1, s2}
  MaxConnections = 3
  MaxConnsPerSource = 2
  HConns = {k1, k2, k3}
  HSources = {s1}
  HStreams = {1, 2}
  HMaxConnections = 2
  HMaxConnsPerSource = 1
  HMaxRequestBytes = 1
  HRequests <- MCRequests
  HReplies <- MCReplies
  None = None
CHECK_DEADLOCK FALSE
INVARIANTS SlotsAccounted SourcesAccounted RequestsServed
PROPERTY StopsWhenCancelled
