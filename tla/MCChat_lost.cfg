SPECIFICATION Spec
CONSTANTS
  Turn = {t1, t2, t3}
  NoTurn = NoTurn
  MaxUpdates = 1
  MaxResets = 0
  Users = {{"queue"}}
  t1 = t1
  t2 = t2
  t3 = t3
INVARIANTS
  NotLost
SYMMETRY TurnSymmetry
\* The page is left, or an exception ends the circuit.
CHECK_DEADLOCK FALSE
