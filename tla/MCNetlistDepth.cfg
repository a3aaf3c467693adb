CONSTANTS
  a = a
  b = b
  c = c
  Paths <- MCPaths
  Entry = a
  Outside = outside
  Nowhere = nowhere
  Inputs <- MCInputs
  Says <- MCSays
  Tops <- MCTops
  ElementOrder <- MCElementOrder
SPECIFICATION Spec
INVARIANT DepthIsBounded
