SPECIFICATION SFairSpec
CONSTANTS
  c1 = c1
  c2 = c2
  Rx = rx
  Callers = {rx, c1, c2}
  Looping = {}
  Menu = {"request"}
  PeerNumbers = {1}
  Unserializable = {}
  CancelPoints = {"queued"}
  Faults = {"timeout", "reset"}
  HeaderLen = 1
  BodyLen = 1
  Window = 2
  MaxSeq = 3
  PeerMay = {"read", "request"}
  MaxPeerFrames = 1
  InWindow = 2
  RxCancels = {}
  Capacity = 2
PROPERTIES SilenceDetected ImplementsSendPath
CHECK_DEADLOCK FALSE
