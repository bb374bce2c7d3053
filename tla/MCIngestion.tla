---------------------------- MODULE MCIngestion -----------------------------
(* Model-checking instances of Ingestion: see the MCIngestion_*.cfg files.  *)
EXTENDS Ingestion, TLC
CONSTANTS d1, d2
DocSymmetry == Permutations({d1, d2})
=============================================================================
