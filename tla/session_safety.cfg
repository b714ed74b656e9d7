SPECIFICATION SSpec
CONSTANTS
  c1 = c1
  c2 = c2
  Rx = rx
  Callers = {rx, c1}
  Looping = {}
  Menu = {"request"}
  PeerNumbers = {1}
  Unserializable = {}
  CancelPoints = {"queued", "woken"}
  Faults = {"timeout"}
  HeaderLen = 2
  BodyLen = 1
  Window = 1
  MaxSeq = 2
  PeerMay = {"read", "answer", "request", "enquire_link", "unbind"}
  MaxPeerFrames = 2
  InWindow = 3
  RxCancels = {"total", "terminal"}
  Capacity = 4
INVARIANTS STypeOK WriterOwnsBuffer UnbindAnswered UnbindOnlyAfterSilence StreamInSync
PROPERTIES FramesHandledOnce
CHECK_DEADLOCK FALSE
