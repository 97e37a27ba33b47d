SPECIFICATION MCSpec
CONSTANTS
  Dispatchers = {d1, d2, d3}
  HasPrepare = TRUE
  IdleTimeout = TRUE
  MessageReadTimeout = TRUE
  WriteTimeout = TRUE
  MaxLifetime = TRUE
  MaxQueriesPerConn = 4
  MaxInflightPerConn = 2
  Handlers = {h1, h2}
  Sizes <- MCSizes
  Lengths = {513, 1001, 1233}
  StrippedLen = 100
  MaxResponse = 1232
  MaxInflight = 2
  MaxPackets = 3
  Conns = {k1, k2}
  Streams = {q1}
  MaxConnections = 1
  StreamReadTimeout = TRUE
  MaxConnLifetime = TRUE
  Frames <- MCFrames
  MaxMessageSize = 1
  None = None
CHECK_DEADLOCK FALSE
INVARIANTS SlotsHeld ClosedAfterDispatchers RepliesReadable DoneIsFinal
PROPERTY CancelStops
