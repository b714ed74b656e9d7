SPECIFICATION FairSpec
CONSTANTS
  c1 = c1
  c2 = c2
  c3 = c3
  Callers = {c1, c2, c3}
  Looping = {}
  Menu = {"request", "response"}
  PeerNumbers = {1}
  Unserializable = {"request"}
  CancelPoints = {}
  Faults = {}
  HeaderLen = 1
  BodyLen = 1
  Window = 1
  MaxSeq = 3
PROPERTIES EverySendCompletes
CHECK_DEADLOCK FALSE
