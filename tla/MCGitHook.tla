----------------------------- MODULE MCGitHook ------------------------------
(* Model-checking instances of GitHook: see the MCGitHook_*.cfg files.      *)
EXTENDS GitHook, TLC
CONSTANTS r1, r2, f1, f2
FileSymmetry == Permutations({f1, f2})
=============================================================================
