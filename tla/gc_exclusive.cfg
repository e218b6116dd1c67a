CONSTANTS
  Threads = {t1, t2, t3}
  Collectors = {t1, t2, t3}
  CollectInScope = TRUE
  RuntimeAllocs = TRUE
  Debug = FALSE
  Nobody = Nobody
SPECIFICATION Spec
INVARIANTS TypeOK StopTheWorld ScopesExclusive
SYMMETRY Symmetry
CHECK_DEADLOCK FALSE
