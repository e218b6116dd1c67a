CONSTANTS
  Threads = {main, w1, w2}
  Main = main
  MaxEvents = 3
  StartTogether = TRUE
  Nobody = Nobody
SPECIFICATION FairSpec
INVARIANTS TypeOK EventsAccounted ExitSound StatisticsAddUp
PROPERTY Terminates
CHECK_DEADLOCK FALSE
