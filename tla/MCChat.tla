------------------------------- MODULE MCChat -------------------------------
(* Model-checking instances of Chat: see the MCChat_*.cfg files.            *)
EXTENDS Chat, TLC
CONSTANTS t1, t2, t3
TurnSymmetry == Permutations({t1, t2, t3})
=============================================================================
