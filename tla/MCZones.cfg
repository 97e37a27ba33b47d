SPECIFICATION MCSpec
CONSTANTS
  None = None
  u1 = u1
  u2 = u2
  a1 = a1
  a2 = a2
  Requests <- MCRequests
  PtrSpace = 72
  maxPtrHops = 3
  maxLabelLen = 5
  maxNameLen = 17
  MaxMessage = 65535
  paddingBlock = 16
  Padding = 12
INVARIANTS AnswersReachClient UpdatesSound TransferredWhole SignaturesHold CodecSound TextsKeep 
\* A reader ends, a broadcast has all its results, two updaters are done; inputs have no steps.
CHECK_DEADLOCK FALSE
