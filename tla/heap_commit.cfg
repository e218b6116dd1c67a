CONSTANTS
  Objects = {a, b, c}
  Fields = {f}
  Null = Null
  Room = 1
SPECIFICATION SpecTx
INVARIANT AllPointersToNewSpace
