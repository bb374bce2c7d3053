------------------------------ MODULE MCMyTask ------------------------------
(* Model-checking instances of MyTask: see the MCMyTask_*.cfg files.       *)
EXTENDS MyTaskInv, TLC
CONSTANTS w1, w2, main
WorkerSymmetry == Permutations({w1, w2})
=============================================================================
