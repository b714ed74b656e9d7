SPECIFICATION PFairSpec
CONSTANTS
  c1 = c1
  c2 = c2
  Rx = rx
  Callers = {rx, c1, c2}
  Looping = {}
  Menu = {"request", "unbind"}
  PeerNumbers = {1}
  Unserializable = {}
  CancelPoints = {}
  Faults = {}
  HeaderLen = 1
  BodyLen = 1
  Window = 3
  MaxSeq = 2
  PeerMay = {}
  MaxPeerFrames = 0
  InWindow = 3
  RxCancels = {}
  Capacity = 2
INVARIANTS UnbindLosesNothing
PROPERTIES UnbindEndsBoth
CHECK_DEADLOCK FALSE
