------------------------------- MODULE MCMux -------------------------------
(* Instances of Mux for TLC.                                               *)
EXTENDS Mux, TLC

(* The callers are interchangeable; used by the runs without liveness.     *)
Symmetry == Permutations(Caller)
=============================================================================
