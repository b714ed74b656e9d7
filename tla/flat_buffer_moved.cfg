SPECIFICATION Spec
CONSTANTS
  Bytes = {0, 1}
  Zero = 0
  Cap = 2
  Objects = {"a", "b"}
  Movable = TRUE
INVARIANTS PointersIntoSelf
CHECK_DEADLOCK FALSE
