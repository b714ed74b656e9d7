SPECIFICATION Spec
CONSTANTS
  Bytes = {0, 1, 2}
  Zero = 0
  Cap = 4
  Objects = {"a", "b"}
  Movable = TRUE
INVARIANTS InBounds
PROPERTIES IsByteQueue
