CONSTANTS
  x1 = x1
  x2 = x2
  k1 = k1
  k2 = k2
  Calls = {x1, x2}
  Conns = {k1, k2}
  None = None
  Codecs = {"protobuf"}
  MaybeUnknown = {x2}
  WithDeadline = {x2}
  StraySeqs = {0, 1}
  MaxFaults = 1
SPECIFICATION RpcSpec
PROPERTY ServeLoopEnds
CHECK_DEADLOCK FALSE
