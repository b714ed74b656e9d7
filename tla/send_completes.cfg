SPECIFICATION FairSpec
CONSTANTS
  c1 = c1
  c2 = c2
  c3 = c3
  Callers = {c1, c2, c3}
  Looping = {}
  Menu = {"request", "enquire_link", "unbind_resp"}
  PeerNumbers = {1}
  Unserializable = {}
  CancelPoints = {"queued", "writing", "written"}
  Faults = {"reset"}
  HeaderLen = 1
  BodyLen = 1
  Window = 1
  MaxSeq = 2
INVARIANTS TypeOK NoLostWakeup
PROPERTIES EverySendCompletes
CHECK_DEADLOCK FALSE
