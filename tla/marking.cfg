CONSTANTS
  Objects = {a, b, c}
  Fields = {f}
  Null = Null
  Room = 1
SPECIFICATION Spec
INVARIANTS TypeOK NoDangling StoreBufferComplete MarkingClosed DequeGrey MarksOnlyLive
PROPERTY CollectionAdvances
SYMMETRY Symmetry
