CONSTANTS
  Threads = {t1, t2}
  Objects = {o1}
  Fields = {1, 2}
  Values = {0, 1}
  Zero = 0
  Garbage = Garbage
  MaxOps = 3
  BlindStores = FALSE
  StmAborts = TRUE
  Nobody = Nobody
SPECIFICATION Spec
INVARIANTS TypeOK LoadedIsCurrent NoLostUpdate CommitterNotAborted
PROPERTIES AtomicSpec AbortedForAReason
SYMMETRY Symmetry
