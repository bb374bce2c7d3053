SPECIFICATION FairSpec
CONSTANTS
  Repo = {r1}
  File = {f1}
  MaxCommits = 3
  MaxRestarts = 1
  Capacity = 2
  MaxHistory = 1
  PullTries = 2
  TestRepo = r1
  Mapped = {r1}
  LibGit = FALSE
  Failing = {"folder", "pull", "yarn", "clean", "build", "copy"}
  r1 = r1
  r2 = r2
  f1 = f1
  f2 = f2
PROPERTIES
  LoopReturns
  CatchesUp
