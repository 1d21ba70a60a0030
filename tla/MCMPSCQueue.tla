----------------------------- MODULE MCMPSCQueue -----------------------------
(* Model checking of the request queue: symmetry for mpsc_wrap.     *)
EXTENDS MPSCQueue, TLC

Symmetry == Permutations(Producers) \cup Permutations(Objects)
=============================================================================
