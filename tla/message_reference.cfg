SPECIFICATION Spec
CONSTANTS
  Builds = {TRUE, FALSE}
  Bodies <- MCBodies
  Codings <- MCCodings
  Parts <- MCParts
  Sets = 2
  Foreign <- MCForeign
INVARIANTS ReferenceKept
CHECK_DEADLOCK FALSE
