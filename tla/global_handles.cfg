CONSTANTS
  Objects = {a}
  Blocks = {b1, b2, b3}
  BlockSize = 1
  MaxDepth = 2
  NULL = NULL
SPECIFICATION Spec
INVARIANTS TypeOK HandlesKeepObjects NewSpaceNodesComplete ListsAccountForNodes WeakHandlesCounted PendingProcessed
SYMMETRY Symmetry
