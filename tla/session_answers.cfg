SPECIFICATION SFairSpec
CONSTANTS
  c1 = c1
  c2 = c2
  Rx = rx
  Callers = {rx, c1, c2}
  Looping = {}
  Menu = {"request", "unbind"}
  PeerNumbers = {1}
  Unserializable = {}
  CancelPoints = {"queued"}
  Faults = {}
  HeaderLen = 1
  BodyLen = 1
  Window = 1
  MaxSeq = 2
  PeerMay = {"read", "answer", "request", "enquire_link", "unbind"}
  MaxPeerFrames = 2
  InWindow = 3
  RxCancels = {}
  Capacity = 4
PROPERTIES EveryFrameHandled EnquireLinkAnswered FramesHandledOnce
CHECK_DEADLOCK FALSE
