SPECIFICATION Spec
CONSTANTS
  Turn = {t1, t2, t3}
  NoTurn = NoTurn
  MaxUpdates = 1
  MaxResets = 1
  Users = {{"focus", "queue"}, {"focus"}, {"queue"}}
  t1 = t1
  t2 = t2
  t3 = t3
INVARIANTS
  OnceOnly
  NotLostIfCalm
  TurnsTogether
  SuggestionsFresh
PROPERTIES
  FinalStoredIfCalm
SYMMETRY TurnSymmetry
\* The page is left, or an exception ends the circuit.
CHECK_DEADLOCK FALSE
