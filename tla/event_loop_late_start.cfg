CONSTANTS
  Threads = {main, w1}
  Main = main
  MaxEvents = 3
  StartTogether = FALSE
  Nobody = Nobody
SPECIFICATION FairSpec
PROPERTY Terminates
CHECK_DEADLOCK FALSE
