CONSTANTS
  Threads = {t1, t2, t3}
  Collectors = {t1}
  CollectInScope = FALSE
  RuntimeAllocs = TRUE
  Debug = TRUE
  Nobody = Nobody
SPECIFICATION FairSpec
 
PROPERTIES RequestedGCHappens PausedResumes
