CONSTANTS
  Threads = {t1, t2}
  Collectors = {t1}
  CollectInScope = TRUE
  RuntimeAllocs = FALSE
  Debug = TRUE
  Nobody = Nobody
SPECIFICATION FairSpec
PROPERTY RequestedGCHappens
CHECK_DEADLOCK FALSE
