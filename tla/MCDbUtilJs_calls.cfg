SPECIFICATION Spec
CONSTANTS
  Column = {"Extra", "Kind", "KindWhere"}
  MaxInt = 5
  Caller = {c1, c2}
  Programs <- MCPrograms
  MaxFaults = 1
  c1 = c1
  c2 = c2
INVARIANTS
  IInv
  AloneSucceeds
PROPERTIES
  DoesWhatWasAsked
  KeepsPromise
