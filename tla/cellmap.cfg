CONSTANTS
  Objects = {o1, o2, o3, o4}
  Copy = Copy
  Addresses = {a1, a2, a3, a4, a5}
  BlockSize = 2
  Null = Null
  Garbage = Garbage
SPECIFICATION Spec
INVARIANTS TypeOK CellsComplete LookupCorrect IntersectsExact
SYMMETRY Symmetry
