SPECIFICATION Spec
CONSTANTS
  Platforms = {"linux"}
  Values = {1500}
  Sources = {"/in", "/out"}
  Nested = {}
  Cores = 2
INVARIANTS
  ReadOnlyHolds
