SPECIFICATION Spec
CONSTANTS
  MaxTasks = 4
  MaxList = 2
  Worker = {w1, w2}
  Client = {main}
  ClientOps = {"SetForeign", "Run", "Delay", "WhenAny", "Iterate"}
  WorkerOps = {}
  OneContinuation = FALSE
  w1 = w1
  w2 = w2
  main = main
PROPERTIES
  OutcomeFinal
SYMMETRY WorkerSymmetry
CHECK_DEADLOCK FALSE
