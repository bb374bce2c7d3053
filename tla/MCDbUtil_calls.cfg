SPECIFICATION FairSpec
CONSTANTS
  Column = {"Extra", "Kind", "KindWhere"}
  MaxInt = 5
  Caller = {c1, c2}
  Programs <- MCPrograms
  RetryTimes = 3
  MaxFaults = 2
  c1 = c1
  c2 = c2
INVARIANTS
  IInv
  HealthySucceeds
PROPERTIES
  DoesWhatWasAsked
  EveryCallReturns
  KeepsPromise
