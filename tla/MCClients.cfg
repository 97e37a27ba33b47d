SPECIFICATION MCSpec
CONSTANTS
  Callers = {a, b}
  Conns = {k1, k2, k3}
  Clients = {"tcp", "dot"}
  IdleFallback = 1
  MaxIdle = 1
  Advertised = {0, 2}
  Contexts = {"live", "cancelled"}
  Kinds = {"udp", "frame", "stream", "doh", "doqStream", "dnscrypt"}
  None = None
CHECK_DEADLOCK FALSE
INVARIANT ConnectionsKept
PROPERTY CallsReturn
