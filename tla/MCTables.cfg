SPECIFICATION MCSpec
CONSTANTS
  Callers = {c1, c2}
  Sources = {src1, src2, src3}
  Zones = {zn}
  Responses <- MCResponses
  ClassQps <- MCClassQps
  Qps = 1
  Burst = 1
  MaxKeys = 2
  Slip = 2
  MaxClock = 3
  Skew = 1
  None = None
  NZones <- PlainZones
  NQNames <- PlainQNames
  CookieServers = {s1, s2}
  zn = zn
  msg1 = msg1
  msg2 = msg2
  msg3 = msg3
  key1 = key1
  key2 = key2
  key3 = key3
  srv1 = srv1
  srv2 = srv2
  srv3 = srv3
  w1 = w1
  l1 = l1
  l2 = l2
SYMMETRY Symmetry
INVARIANTS TablesBounded RatesHeld ReplaysCaught DenialSound RepliesOpen
PROPERTIES FreshKept FreshCookieAccepted ReflectsLittle
CHECK_DEADLOCK FALSE
