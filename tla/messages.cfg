SPECIFICATION Spec
CONSTANTS
  Builds = {TRUE, FALSE}
  Bodies <- MCBodies
  Codings <- MCCodings
  Parts <- MCParts
  Sets = 2
  Foreign <- MCForeign
INVARIANTS MessageKept PartsKept NothingDropped ForwardedFits ConvertedByParts
CHECK_DEADLOCK FALSE
