SPECIFICATION Spec
CONSTANTS
  MaxTasks = 4
  MaxList = 2
  Worker = {w1, w2}
  Client = {main}
  ClientOps = {"New", "Set", "Run", "ContinueWith", "Wait", "Await"}
  WorkerOps = {"Set", "Run", "Wait", "Await"}
  OneContinuation = FALSE
  w1 = w1
  w2 = w2
  main = main
INVARIANTS
  NoCrash
  AfterAntecedent
PROPERTIES
  RunsOnce
  WaitSound
SYMMETRY WorkerSymmetry
CHECK_DEADLOCK FALSE
