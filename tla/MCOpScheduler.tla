--------------------------- MODULE MCOpScheduler ---------------------------
(* Model values and symmetry for the runs of OpScheduler.                  *)
EXTENDS OpSchedulerProof, TLC

ContextSymmetry == Permutations(Contexts)
PoolSymmetry == Permutations(Contexts) \cup Permutations(Callers)
=============================================================================
