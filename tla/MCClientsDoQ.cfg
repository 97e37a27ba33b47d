SPECIFICATION ExchangeSpec
CONSTANTS
  Callers = {a, b}
  Conns = {k1, k2, k3}
  Clients = {"tcp", "dot"}
  IdleFallback = 1
  MaxIdle = 1
  Advertised = {0, 2}
  Contexts = {"live", "cancelled"}
  Kinds = {"doq"}
  None = None
CHECK_DEADLOCK FALSE
PROPERTY HonorsContext
