SPECIFICATION Spec
CONSTANTS
  Proc = {p1, p2}
  Names = {"a", "A", "x_y", "x-y"}
  Fold <- FoldName
  Wildcard <- Underscore
  Ops <- AllOps
  MaxClusters = 2
  MaxCommands = 5
SYMMETRY Symmetry
INVARIANTS AtMostOneCurrent SerialConsistent
PROPERTIES NewClusterEmpty RemoveKeepsActive
