SPECIFICATION FairSpec
CONSTANTS
  MaxTasks = 5
  MaxList = 2
  Worker = {w1, w2}
  Client = {main}
  ClientOps = {"Delay", "Wait", "Await", "WhenAll", "WhenAny", "Iterate"}
  WorkerOps = {}
  OneContinuation = TRUE
  w1 = w1
  w2 = w2
  main = main
INVARIANTS
  NoLostContinuation
  WhenAllSound
  WhenAnySound
  FiresOnce
PROPERTIES
  ContinuationsRun
  WaitersWake
  WhenAllCompletes
  IterateSequential
CHECK_DEADLOCK FALSE
