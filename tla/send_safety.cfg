SPECIFICATION Spec
CONSTANTS
  c1 = c1
  c2 = c2
  c3 = c3
  Callers = {c1, c2, c3}
  Looping = {}
  Menu = {"request", "response", "enquire_link", "unbind_resp"}
  PeerNumbers = {1}
  Unserializable = {"request"}
  CancelPoints = {"queued", "woken"}
  Faults = {"timeout", "reset", "shutdown"}
  HeaderLen = 2
  BodyLen = 1
  Window = 2
  MaxSeq = 3
SYMMETRY Symmetry
INVARIANTS WriterOwnsBuffer FramesWhole NumbersIdentifyRequests
CHECK_DEADLOCK FALSE
