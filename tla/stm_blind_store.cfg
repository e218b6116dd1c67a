CONSTANTS
  Threads = {t1, t2}
  Objects = {o1}
  Fields = {1, 2}
  Values = {0, 1}
  Zero = 0
  Garbage = Garbage
  MaxOps = 1
  BlindStores = TRUE
  StmAborts = FALSE
  Nobody = Nobody
SPECIFICATION Spec
INVARIANT NoLostUpdate
