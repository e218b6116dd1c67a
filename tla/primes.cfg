CONSTANTS
  Threads = {main, w1, w2}
  Main = main
  Nobody = Nobody
  Garbage = Garbage
  Batches <- TwoBatches
SPECIFICATION FairSpec
INVARIANTS PrintedOnce ResultsComplete
PROPERTIES LoopSpec 
CHECK_DEADLOCK FALSE
